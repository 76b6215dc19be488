------------------------------- MODULE Scanner -------------------------------
(***************************************************************************)
(* The scanner generated from aql/aql.l: which rule it finds in what is    *)
(* typed, a character at a time, and what it puts back.  The text of a     *)
(* token is not kept, so that a finite state space has texts of any        *)
(* length.  A buffer that ends inside a token is refilled and the token is *)
(* scanned again from its first character, to the same state: only the end *)
(* of the input is modelled.                                               *)
(***************************************************************************)
EXTENDS ScannerTables, FiniteSets, FiniteSetsExt

CONSTANTS Bytes    \* the characters that may be typed, by their codes

VARIABLES
  yy_current_state,
  yy_last_accepting_state,
  passed,    \* the characters from yy_last_accepting_cpos to yy_cp
  ahead,     \* the characters put back, to be read again
  yy_act,    \* the rule acted on, Scanning in the middle of a token
  put,       \* how many characters the last action put back
  ended,     \* the end of the input has been seen
  open,      \* <<rule, what is left of a pattern>>; not in the code
  longest    \* the longest match so far and what came after; not in the code

vars == <<yy_current_state, yy_last_accepting_state, passed, ahead, yy_act, put, ended,
          open, longest>>

ASSUME ScannerAssumption == Bytes \subseteq 1 .. 255

Scanning == -1
Start == 1

-----------------------------------------------------------------------------
(* The rules of aql.l.  A pattern is a sequence of items: one character of *)
(* a set, many of it, or one that may be left out.                         *)

One(S) == [of |-> S, many |-> FALSE, optional |-> FALSE]
Many(S) == [of |-> S, many |-> TRUE, optional |-> FALSE]
Optional(S) == [of |-> S, many |-> FALSE, optional |-> TRUE]

Upper == "ABCDEFGHIJKLMNOPQRSTUVWXYZ"
Position(c) == CHOOSE i \in 1 .. 26 : SubSeq(Upper, i, i) = c

Digits == 48 .. 57
Letters == 65 .. 90 \cup 97 .. 122
NameCharacters == Letters \cup Digits \cup {95}
Newline == 10

(* The scanner is case-insensitive.                                        *)
Word(text) ==
  [i \in 1 .. Len(text) |->
     LET n == Position(SubSeq(text, i, i)) IN One({64 + n, 96 + n})]

Mark(codes) == [i \in DOMAIN codes |-> One({codes[i]})]

Sign == Optional({43, 45})

Rules == <<
  {Word("CREATE")}, {Word("REMOVE")}, {Word("TABLE")}, {Word("INSERT")}, {Word("UPDATE")},
  {Word("WITH")}, {Word("FILTER")}, {Word("RETURN")}, {Word("FOR")}, {Word("IN")},
  {Word("INTEGER")}, {Word("FLOAT")}, {Word("BOOLEAN")}, {Word("VARCHAR")},
  {Word("OR")}, {Word("AND")},
  {Mark(<<61, 61>>)}, {Mark(<<33, 61>>)}, {Mark(<<60>>)}, {Mark(<<62>>)},    \* == != < >
  {Mark(<<60, 61>>)}, {Mark(<<62, 61>>)}, {Mark(<<126>>)}, {Mark(<<61>>)},   \* <= >= ~ =
  {Mark(<<40>>)}, {Mark(<<41>>)}, {Mark(<<123>>)}, {Mark(<<125>>)},          \* ( ) { }
  {Mark(<<91>>)}, {Mark(<<93>>)}, {Mark(<<46>>)}, {Mark(<<44>>)},            \* [ ] . ,
  {Mark(<<58>>)}, {Mark(<<59>>)}, {Mark(<<39>>)},                            \* : ; '
  {<<Sign, Many(Digits)>>},
  {<<Sign, Many(Digits), One({46}), Many(Digits)>>},
  {Word("TRUE"), Word("FALSE")},
  {<<Many(NameCharacters)>>},
  {<<One({Newline})>>}, {<<Many({32, 9})>>},
  {<<One(1 .. 255)>>} >>                       \* what no other rule takes is echoed

(* What may be left of a pattern after a character.                        *)
RECURSIVE Rests(_, _)
Rests(p, c) ==
  IF p = <<>> THEN {}
  ELSE (IF c \in Head(p).of THEN {Tail(p)} ELSE {})
       \cup (IF c \in Head(p).of /\ Head(p).many THEN {p} ELSE {})
       \cup (IF Head(p).optional THEN Rests(Tail(p), c) ELSE {})

Begun == UNION {{<<r, p>> : p \in Rules[r]} : r \in DOMAIN Rules}

NoMatch == [rule |-> 0, since |-> 0]

Opened(c) ==
  UNION {{<<o[1], rest>> : rest \in Rests(o[2], c)} :
           o \in IF yy_act = Scanning THEN open ELSE Begun}

(* The longest match after one more character, with o still open.          *)
Longest(o) ==
  LET matched == {x[1] : x \in {y \in o : y[2] = <<>>}}
      before == IF yy_act = Scanning THEN longest ELSE NoMatch
  IN  IF matched # {} THEN [rule |-> Min(matched), since |-> 0]
      ELSE [before EXCEPT !.since = @ + 1]

-----------------------------------------------------------------------------
(* The next state, through the states a row defaults to.                   *)
RECURSIVE NextState(_, _)
NextState(state, yy_c) ==
  LET i == Cell(yy_base, state) + yy_c
      default == Cell(yy_def, state)
  IN  IF Cell(yy_chk, i) = state THEN Cell(yy_nxt, i)
      ELSE NextState(default, IF default >= YY_TEMPLATES THEN Cell(yy_meta, yy_c) ELSE yy_c)

Accepts(state) == Cell(yy_accept, state)

Init ==
  /\ yy_current_state = Start
  /\ yy_last_accepting_state = 0
  /\ passed = <<>> /\ ahead = <<>>
  /\ yy_act = 0 /\ put = 0
  /\ ended = FALSE
  /\ open = {}
  /\ longest = NoMatch

(* yy_find_action: the rule of the state, or of the last state that had    *)
(* one with the characters since then put back.                            *)
LastAcceptingKept == yy_last_accepting_state   \* mutant: set too late

LastAccepting == IF Accepts(yy_current_state) # 0 THEN yy_current_state
                 ELSE yy_last_accepting_state

SinceAcceptingKept == passed           \* mutant: the place is never moved on

SinceAccepting == IF Accepts(yy_current_state) # 0 THEN <<>> ELSE passed

Act(rule, unread, rest) ==
  /\ yy_act' = rule
  /\ put' = Len(unread)
  /\ ahead' = unread \o rest
  /\ yy_current_state' = Start
  /\ passed' = <<>>

(* yy_match: one character.                                                *)
Read(c, rest) ==
  LET next == NextState(yy_current_state, Cell(yy_ec, c))
      read == Append(SinceAccepting, c)
  IN
  /\ yy_last_accepting_state' = LastAccepting
  /\ \/ /\ Cell(yy_base, next) # YY_JAM_BASE
        /\ yy_current_state' = next
        /\ passed' = read
        /\ ahead' = rest
        /\ yy_act' = Scanning
        /\ UNCHANGED put
     \/ /\ Cell(yy_base, next) = YY_JAM_BASE
        /\ IF Accepts(next) # 0 THEN Act(Accepts(next), <<>>, rest)
           ELSE Act(Accepts(LastAccepting), read, rest)
  /\ open' = Opened(c)
  /\ longest' = Longest(open')
  /\ UNCHANGED ended

ReadAgain == ahead # <<>> /\ Read(Head(ahead), Tail(ahead))

ReadTyped == ahead = <<>> /\ ~ended /\ \E c \in Bytes : Read(c, <<>>)

(* A buffer ends in two zero bytes.                                        *)
AtEnd ==
  LET zero == NextState(yy_current_state, 0)
  IN  /\ Accepts(zero) = YY_END_OF_BUFFER
      /\ Cell(yy_base, NextState(zero, 0)) = YY_JAM_BASE

(* YY_END_OF_BUFFER, with nothing more to read: what has been matched is a *)
(* token, and without any the scanner returns the end of the file.         *)
EndOfBuffer ==
  /\ ahead = <<>>
  /\ yy_act # YY_STATE_EOF
  /\ AtEnd
  /\ ended' = TRUE
  /\ IF yy_act = Scanning
     THEN Act(Accepts(LastAccepting), SinceAccepting, <<>>)
     ELSE Act(YY_STATE_EOF, <<>>, <<>>)
  /\ UNCHANGED <<yy_last_accepting_state, open, longest>>

Next == ReadAgain \/ ReadTyped \/ EndOfBuffer

Spec == Init /\ [][Next]_vars

-----------------------------------------------------------------------------
(* Every variable keeps its shape; never more than the character that did  *)
(* not fit and a dot before it are waiting to be read again.               *)
TypeOK ==
  /\ yy_current_state \in 1 .. YY_TEMPLATES - 1
  /\ yy_last_accepting_state \in 0 .. YY_TEMPLATES - 1
  /\ \A s \in {passed, ahead} : \A i \in DOMAIN s : s[i] \in Bytes
  /\ Len(ahead) <= 2
  /\ yy_act \in {Scanning} \cup 0 .. YY_STATE_EOF
  /\ put \in 0 .. 2
  /\ ended \in BOOLEAN

(* The compressed tables do what the rules of aql.l say, for a text of any *)
(* length: the rule acted on is the first of those that match the longest  *)
(* text, exactly the characters behind that text are put back, and none    *)
(* that could have made it longer was left unread.  It is never the rule   *)
(* an earlier token left in yy_last_accepting_state.                       *)
LongestMatch ==
  yy_act \in 0 .. YY_NUM_RULES =>
    /\ yy_act = longest.rule
    /\ put = longest.since
    /\ ended \/ \A o \in open : o[2] = <<>>
=============================================================================
