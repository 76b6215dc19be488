-------------------------------- MODULE Parser --------------------------------
(***************************************************************************)
(* How the client reads a query: yylex turns what is typed into tokens and *)
(* yyparse shifts and reduces them by its tables, building the nodes of    *)
(* aql/ast.c, until the semicolon of the first query.                      *)
(*                                                                         *)
(* What is typed is a sequence of lexemes that the rules of aql/aql.l tell *)
(* apart; the characters they are made of are not modelled.  A lexeme has  *)
(* the token it is and a number for its text: a name is the place it is    *)
(* typed at, so that all names differ, an integer is itself, TRUE is 1,    *)
(* and an operator its place in the list of the rules.                     *)
(***************************************************************************)
EXTENDS Ast, Grammar, ParserTables, FiniteSets

CONSTANTS
  Texts,       \* Texts[t]: the texts a token may have, for those with a choice
  Limits,      \* bounds: at most l.most lexemes with tokens in l.of, l \in Limits
  YYMAXDEPTH   \* the most states the stack has room for

VARIABLES
  typed,   \* the lexemes read
  yychar,  \* the lookahead token, with its yylval
  yyss,    \* the stack of states
  yyvs,    \* the stack of values, without the one under the first state
  result,  \* what yyparse returns
  follow   \* what the grammar lets follow the lexemes read; not in the code

vars == <<typed, yychar, yyss, yyvs, result, follow>>

(* The tokens yylex can return.                                            *)
Tokens == {yytname[i] : i \in 1 .. YYNTOKENS} \ {"error", "$undefined"}

(* The code's stack has room for 10000 states.                             *)
ASSUME ParserAssumption ==
  /\ YYMAXDEPTH \in Nat /\ YYMAXDEPTH > 3
  /\ \A l \in Limits : l.of \subseteq Tokens /\ l.most \in Nat

Running == Node("running", <<>>)
SyntaxError == Node("error", <<>>)        \* 1
EndOfInput == Node("end", <<>>)           \* 0
MemoryExhausted == Node("memory", <<>>)   \* 2

Empty == [token |-> "YYEMPTY", node |-> "none", value |-> 0]   \* no lookahead token

-----------------------------------------------------------------------------
(* The scanner.                                                            *)

Named == {"STRING", "FLOATVAL"}
DataTypes == {"INTEGER", "FLOAT", "BOOLEAN", "VARCHAR"}

(* The member of yylval a token sets.                                      *)
MemberOf(token) ==
  CASE token = "STRING" -> "strval"
    [] token = "INTVAL" -> "intval"
    [] token = "FLOATVAL" -> "floatval"
    [] token = "BOOLVAL" -> "boolval"
    [] token = "OP" -> "op"
    [] token = "CMP" -> "cmp"
    [] token \in DataTypes -> "type"
    [] OTHER -> "none"

(* The value of a BOOLVAL is atoi of a word, 0 for TRUE too.               *)
yylval(lexeme) ==
  CASE lexeme.token = "STRING" -> <<lexeme.text>>
    [] lexeme.token = "BOOLVAL" -> 0
    [] lexeme.token \in DataTypes -> lexeme.token \o "_AST"
    [] OTHER -> lexeme.text

yylex(lexeme) ==
  [token |-> lexeme.token, node |-> MemberOf(lexeme.token), value |-> yylval(lexeme)]

TextsOf(token) ==
  CASE token \in Named -> {Len(typed) + 1}
    [] token \in DOMAIN Texts -> Texts[token]
    [] OTHER -> {0}

Typeable == UNION {l.of : l \in Limits}

Room(token) ==
  \A l \in Limits :
    token \in l.of => Cardinality({i \in DOMAIN typed : typed[i].token \in l.of}) < l.most

-----------------------------------------------------------------------------
(* The semantic actions: $$ of a rule whose right-hand side has values d.  *)

Queries == 4 .. 9

StatementValue(rule, d) ==
  CASE rule \in Queries -> Query(d[1].node, d[1])
    [] rule = 10 -> create_create_table(d[3].value, d[5])
    [] rule \in {12, 23} -> Linked(d[1], d[3])
    [] rule \in 13 .. 15 -> create_column(d[1].value, d[3].value, 0)
    [] rule = 16 -> create_column(d[1].value, d[3].value, d[5].value)
    [] rule = 17 -> create_remove_table(d[3].value)
    [] rule = 18 -> create_insert_records(d[6].value, d[3])
    [] rule = 19 -> create_loop_insert_records(d[2].value, d[9].value, d[5])
    [] rule = 20 -> create_record_fields(d[2])
    [] rule = 21 -> Linked(create_record_fields(d[2]), d[5])
    [] rule = 24 -> create_record_field(d[1].value, d[3])
    [] rule = 25 -> create_update_records(d[7].value, d[4])
    [] rule = 26 ->
         create_update_records_filter(d[1], d[2], d[4].value, d[7], d[10].value)
    [] rule = 27 -> create_remove_records(d[3].value)
    [] rule = 28 -> create_remove_records_filter(d[1], d[2], d[4].value, d[6].value)

PartValue(rule, d) ==
  CASE rule = 29 -> create_return("RETURN_ROW", d[1], Row(d[3].value))
    [] rule = 30 ->
         create_return("RETURN_ROW_FILTER", d[1], Filtered(d[2]) @@ Row(d[4].value))
    [] rule = 31 -> create_return("RETURN_FIELDS", d[1], FieldList(d[4]))
    [] rule = 32 ->
         create_return("RETURN_FIELDS_FILTER", d[1], Filtered(d[2]) @@ FieldList(d[5]))
    [] rule = 33 ->
         create_return("RETURN_ROW_JOIN", d[1],
                       Joined(d[2], d[3]) @@ RowPair(d[5].value, d[7].value))
    [] rule = 34 ->
         create_return("RETURN_ROW_JOIN_FILTER", d[1],
                       Joined(d[2], d[3]) @@ Filtered(d[4])
                         @@ RowPair(d[6].value, d[8].value))
    [] rule = 35 ->
         create_return("RETURN_FIELDS_JOIN", d[1], Joined(d[2], d[3]) @@ FieldList(d[6]))
    [] rule = 36 ->
         create_return("RETURN_FIELDS_JOIN_FILTER", d[1],
                       Joined(d[2], d[3]) @@ Filtered(d[4]) @@ FieldList(d[7]))
    [] rule = 37 -> create_loop(d[2].value, d[4].value)
    [] rule = 38 -> create_filter(d[2])
    [] rule = 39 -> Linked(create_filter(d[2]), d[3])
    [] rule = 40 -> create_comparison(d[1], d[3], d[2].value, NONE)
    [] rule = 41 ->
         Linked(create_comparison(d[1], d[3], d[2].value, d[4].value), d[5])
    [] rule = 42 ->
         create_join_condition(d[2].value, d[4].value, d[6].value, d[8].value)
    [] rule = 45 -> create_reference_literal(NULL, d[1].value)
    [] rule = 46 -> create_reference_literal(d[1].value, d[3].value)
    [] rule = 47 -> create_literal("INTEGER_AST", d[1].value)
    [] rule = 48 -> create_literal("FLOAT_AST", d[1].value)
    [] rule = 49 -> create_literal("BOOLEAN_AST", d[1].value)
    [] rule = 50 -> create_literal("VARCHAR_AST", d[2].value)
    [] rule = 51 -> create_field(NULL, d[1].value)
    [] rule = 52 -> Linked(create_field(NULL, d[1].value), d[3])
    [] rule = 53 -> create_field(d[1].value, d[3].value)
    [] rule = 54 -> Linked(create_field(d[1].value, d[3].value), d[5])

(* Where a rule has no action $$ is $1; the empty input has whatever lies  *)
(* there.                                                                  *)
Value(rule, d) ==
  CASE rule = 2 -> Node("none", <<>>)
    [] rule \in {11, 22, 43, 44} -> d[1]
    [] rule \in 4 .. 28 \ {11, 22} -> StatementValue(rule, d)
    [] rule \in 29 .. 54 \ {43, 44} -> PartValue(rule, d)

-----------------------------------------------------------------------------
(* The automaton.                                                          *)

yystate == yyss[Len(yyss)]

Symbol(name) == (CHOOSE i \in DOMAIN yytname : yytname[i] = name) - 1

(* What the compressed table says at a row and a column; 0 is nothing.     *)
Entry(begin, offset, owner) ==
  LET i == begin + offset
  IN  IF i \in 0 .. YYLAST /\ At(yycheck, i) = owner THEN At(yytable, i) ELSE 0

(* The state a token leads to.                                             *)
Shifts(state, token) ==
  LET n == Symbol(token) IN Entry(At(yypact, state), n, n)

DecidedNever == FALSE        \* mutant: a token is read before every reduction

(* The state reduces whatever comes next.                                  *)
Decided == At(yypact, yystate) = YYPACT_NINF

Shifted == Shifts(yystate, yychar.token)

Goto(state, symbol) ==
  LET n == symbol - YYNTOKENS
      entry == Entry(At(yypgoto, n), state, state)
  IN  IF entry # 0 THEN entry ELSE At(yydefgoto, n)

Init ==
  /\ typed = <<>>
  /\ yychar = Empty
  /\ yyss = <<0>>
  /\ yyvs = <<>>
  /\ result = Running
  /\ follow = Sentence

(* The stacks are gone when yyparse has returned; yychar is not.           *)
Return(value) ==
  /\ result' = value
  /\ yyss' = <<>> /\ yyvs' = <<>>

(* yynewstate and yysetstate: the stack has doubled up to its limit.       *)
Push(states, values, state, value) ==
  IF Len(states) + 1 >= YYMAXDEPTH THEN Return(MemoryExhausted)
  ELSE IF state = YYFINAL THEN Return(EndOfInput)
  ELSE /\ yyss' = Append(states, state)
       /\ yyvs' = Append(values, value)
       /\ UNCHANGED result

ReadToken ==
  /\ result = Running
  /\ ~Decided /\ yychar = Empty
  /\ \E token \in {t \in Typeable : Room(t)} :
       /\ \E text \in TextsOf(token) :
            /\ typed' = Append(typed, [token |-> token, text |-> text])
            /\ yychar' = yylex(typed'[Len(typed')])
       /\ follow' = After(follow, token)
  /\ UNCHANGED <<yyss, yyvs, result>>

Shift ==
  /\ result = Running
  /\ ~Decided /\ yychar # Empty /\ Shifted # 0
  /\ Push(yyss, yyvs, Shifted, yychar)
  /\ yychar' = Empty
  /\ UNCHANGED <<typed, follow>>

Default ==
  /\ result = Running
  /\ Decided \/ (yychar # Empty /\ Shifted = 0)

Reduce ==
  LET rule == At(yydefact, yystate)
      length == At(yyr2, rule)
      below == Len(yyss) - length
      d == SubSeq(yyvs, Len(yyvs) - length + 1, Len(yyvs))
  IN
  /\ Default
  /\ rule # 0
  /\ IF rule = 3 THEN Return(d[2])
     ELSE Push(SubSeq(yyss, 1, below), SubSeq(yyvs, 1, below - 1),
               Goto(yyss[below], At(yyr1, rule)), Value(rule, d))
  /\ UNCHANGED <<typed, yychar, follow>>

(* No state shifts the error token, so the whole stack is popped.          *)
Refuse ==
  /\ Default
  /\ At(yydefact, yystate) = 0
  /\ \A i \in DOMAIN yyss :
       At(yypact, yyss[i]) # YYPACT_NINF => Shifts(yyss[i], "error") = 0
  /\ Return(SyntaxError)
  /\ UNCHANGED <<typed, yychar, follow>>

Next == ReadToken \/ Shift \/ Reduce \/ Refuse

Spec == Init /\ [][Next]_vars

-----------------------------------------------------------------------------
(* Every value on the stack is of the type its symbol is declared with: no *)
(* action reads a member of the union that was not the one written.        *)
TypeOfSymbol(name) ==
  CASE name = "columns" -> "column"
    [] name = "records_fields" -> "record_fields"
    [] name = "record_fields" -> "record_field"
    [] name \in {"value", "compare_operand", "column_name"} -> "literal"
    [] name = "fields" -> "field"
    [] name = "filters" -> "filter"
    [] name \in {"filter", "join_condition"} -> "comparison"
    [] name = "input" -> "none"
    [] name \in Nonterminals -> name
    [] OTHER -> MemberOf(name)

TypeOK ==
  /\ Len(yyvs) = (IF yyss = <<>> THEN 0 ELSE Len(yyss) - 1)
  /\ Len(yyss) < YYMAXDEPTH
  /\ \A i \in DOMAIN yyvs :
       yyvs[i].node = TypeOfSymbol(At(yytname, At(yystos, yyss[i + 1])))
  /\ result.node \in {"running", "error", "end", "memory", "query"}

(* A query is returned for the sentences of the grammar only, and a syntax *)
(* error is reported for nothing else and at the first token that cannot   *)
(* continue a sentence.                                                    *)
ParsesTheGrammar ==
  /\ result.node = "query" => <<>> \in follow
  /\ result = SyntaxError => follow = {}
  /\ follow = {} /\ result # EndOfInput => yychar # Empty

(* A query ends without a token having been taken of the next, which the   *)
(* next call of yyparse would forget.                                      *)
LeavesNoToken == result.node = "query" => yychar = Empty
=============================================================================
