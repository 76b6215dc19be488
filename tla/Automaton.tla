------------------------------ MODULE Automaton ------------------------------
(***************************************************************************)
(* What the compressed tables of the parser encode: the automaton of the   *)
(* items of the grammar.  An item <<r, k>> is rule r with k of its symbols *)
(* behind.  The statements below speak of the tables and of the rules of   *)
(* aql.y only and have no parameter, so that TLC decides them; the proofs  *)
(* about the parser start from them.                                       *)
(***************************************************************************)
EXTENDS Parser

States == 0 .. 145

(* The items a state is entered with.                                      *)
Kernels == <<
  {<<1, 0>>}, {<<1, 1>>, <<3, 1>>}, {<<1, 2>>}, {<<10, 1>>},
  {<<17, 1>>, <<27, 1>>}, {<<18, 1>>}, {<<25, 1>>}, {<<19, 1>>, <<37, 1>>},
  {<<3, 2>>}, {<<4, 1>>}, {<<5, 1>>}, {<<6, 1>>}, {<<7, 1>>}, {<<8, 1>>},
  {<<9, 1>>},
  {<<26, 1>>, <<28, 1>>, <<29, 1>>, <<30, 1>>, <<31, 1>>, <<32, 1>>, <<33, 1>>, <<34, 1>>, <<35, 1>>, <<36, 1>>},
  {<<10, 2>>}, {<<17, 2>>}, {<<27, 2>>}, {<<18, 2>>}, {<<25, 2>>},
  {<<19, 2>>, <<37, 2>>}, {<<3, 3>>}, {<<29, 2>>, <<31, 2>>}, {<<37, 1>>},
  {<<38, 1>>, <<39, 1>>}, {<<33, 2>>, <<34, 2>>, <<35, 2>>, <<36, 2>>},
  {<<26, 2>>, <<28, 2>>, <<30, 2>>, <<32, 2>>}, {<<10, 3>>}, {<<17, 3>>},
  {<<27, 3>>}, {<<24, 1>>}, {<<18, 3>>}, {<<22, 1>>, <<23, 1>>}, {<<25, 3>>},
  {<<19, 3>>, <<37, 3>>}, {<<29, 3>>}, {<<31, 3>>}, {<<37, 2>>}, {<<47, 1>>},
  {<<48, 1>>}, {<<49, 1>>}, {<<45, 1>>, <<46, 1>>}, {<<50, 1>>},
  {<<38, 2>>, <<39, 2>>}, {<<40, 1>>, <<41, 1>>}, {<<44, 1>>}, {<<43, 1>>},
  {<<42, 1>>}, {<<33, 3>>, <<34, 3>>, <<35, 3>>, <<36, 3>>}, {<<28, 3>>},
  {<<26, 3>>}, {<<30, 3>>, <<32, 3>>}, {<<10, 4>>}, {<<24, 2>>}, {<<18, 4>>},
  {<<23, 2>>}, {<<25, 4>>}, {<<37, 4>>}, {<<19, 4>>},
  {<<51, 1>>, <<52, 1>>, <<53, 1>>, <<54, 1>>}, {<<31, 4>>}, {<<37, 3>>},
  {<<46, 2>>}, {<<50, 2>>}, {<<39, 3>>}, {<<40, 2>>, <<41, 2>>}, {<<42, 2>>},
  {<<33, 4>>, <<35, 4>>}, {<<34, 4>>, <<36, 4>>}, {<<28, 4>>}, {<<26, 4>>},
  {<<30, 4>>}, {<<32, 4>>}, {<<13, 1>>, <<14, 1>>, <<15, 1>>, <<16, 1>>},
  {<<10, 5>>}, {<<11, 1>>, <<12, 1>>}, {<<24, 3>>}, {<<18, 5>>}, {<<23, 3>>},
  {<<25, 5>>}, {<<20, 1>>, <<21, 1>>}, {<<19, 5>>}, {<<52, 2>>},
  {<<53, 2>>, <<54, 2>>}, {<<31, 5>>}, {<<46, 3>>}, {<<50, 3>>},
  {<<40, 3>>, <<41, 3>>}, {<<42, 3>>}, {<<33, 5>>}, {<<35, 5>>},
  {<<34, 5>>, <<36, 5>>}, {<<28, 5>>}, {<<26, 5>>}, {<<32, 5>>},
  {<<13, 2>>, <<14, 2>>, <<15, 2>>, <<16, 2>>}, {<<10, 6>>}, {<<12, 2>>},
  {<<18, 6>>}, {<<25, 6>>}, {<<20, 2>>, <<21, 2>>}, {<<19, 6>>}, {<<52, 3>>},
  {<<53, 3>>, <<54, 3>>}, {<<41, 4>>}, {<<42, 4>>}, {<<33, 6>>}, {<<35, 6>>},
  {<<34, 6>>}, {<<36, 6>>}, {<<28, 6>>}, {<<26, 6>>}, {<<32, 6>>},
  {<<13, 3>>}, {<<14, 3>>}, {<<15, 3>>}, {<<16, 3>>}, {<<12, 3>>},
  {<<25, 7>>}, {<<20, 3>>, <<21, 3>>}, {<<19, 7>>}, {<<54, 4>>}, {<<41, 5>>},
  {<<42, 5>>}, {<<33, 7>>}, {<<35, 7>>}, {<<34, 7>>}, {<<36, 7>>},
  {<<26, 7>>}, {<<16, 4>>}, {<<21, 4>>}, {<<19, 8>>}, {<<54, 5>>},
  {<<42, 6>>}, {<<34, 8>>}, {<<36, 8>>}, {<<26, 8>>}, {<<16, 5>>},
  {<<21, 5>>}, {<<19, 9>>}, {<<42, 7>>}, {<<26, 9>>}, {<<16, 6>>},
  {<<42, 8>>}, {<<26, 10>>} >>

Parts == Nonterminals \ {"$accept", "input"}
Symbols == Parts \cup Tokens
Forms == Seq(Symbols)

lhs(r) == Rules[r].lhs
rhs(r) == Rules[r].rhs

(* The symbols that may come next.                                         *)
NextOf(items) == {rhs(i[1])[i[2] + 1] : i \in {j \in items : j[2] < Len(rhs(j[1]))}}

Opening(items) ==
  items \cup UNION {{<<r, 0>> : r \in RulesOf(X)} : X \in NextOf(items) \cap Nonterminals}

Items == [s \in States |-> Opening(Opening(Opening(At(Kernels, s))))]

(* The symbol behind a state, and the state a symbol leads to.             *)
Sym(s) == At(yytname, At(yystos, s))

Trans(s, X) ==
  IF X \in Nonterminals THEN Goto(s, Symbol(X))
  ELSE IF At(yypact, s) = YYPACT_NINF THEN 0
  ELSE Shifts(s, X)

(* The forms with a token in front that a symbol begins with.              *)
Starts(X) == Opened({<<X>>})
Firsts(X) == {Head(f) : f \in Starts(X)}
StartsBy(r) == {f \o Tail(rhs(r)) : f \in Starts(Head(rhs(r)))}

(* The parts whose rules begin with a symbol of S, and S.                  *)
Lower(S) == S \cup {X \in Parts : \A r \in RulesOf(X) : Head(rhs(r)) \in S}

(* The tokens that may come behind a part of a query.                      *)
FollowOf ==
  [query |-> {"SEMICOLON"},
   create_table |-> {"SEMICOLON"},
   columns |-> {"CCB"},
   column |-> {"COMMA", "CCB"},
   remove_table |-> {"SEMICOLON"},
   insert_records |-> {"SEMICOLON"},
   records_fields |-> {"CSB"},
   record_fields |-> {"CCB"},
   record_field |-> {"COMMA", "CCB"},
   update_records |-> {"SEMICOLON"},
   remove_records |-> {"SEMICOLON"},
   return_records |-> {"SEMICOLON"},
   loop |-> {"RETURN", "FOR", "FILTER"},
   filters |-> {"REMOVE", "UPDATE", "RETURN"},
   filter |-> {"REMOVE", "UPDATE", "RETURN", "FILTER"},
   join_condition |-> {"RETURN", "FILTER"},
   compare_operand |-> {"REMOVE", "UPDATE", "RETURN", "FILTER", "OP", "CMP"},
   column_name |-> {"REMOVE", "UPDATE", "RETURN", "FILTER", "OP", "CMP"},
   value |-> {"REMOVE", "UPDATE", "RETURN", "FILTER", "OP", "CMP", "COMMA", "CCB"},
   fields |-> {"CCB"}]

(* The rules whose action passes its first value on, and the node that the *)
(* other actions make.                                                     *)
PassOn == {11, 12, 22, 23, 43, 44}

Built(r) ==
  CASE r \in Queries -> "query"
    [] r = 10 -> "create_table"
    [] r \in 13 .. 16 -> "column"
    [] r = 17 -> "remove_table"
    [] r \in 18 .. 19 -> "insert_records"
    [] r \in 20 .. 21 -> "record_fields"
    [] r = 24 -> "record_field"
    [] r \in 25 .. 26 -> "update_records"
    [] r \in 27 .. 28 -> "remove_records"
    [] r \in 29 .. 36 -> "return_records"
    [] r = 37 -> "loop"
    [] r \in 38 .. 39 -> "filter"
    [] r \in 40 .. 42 -> "comparison"
    [] r \in 45 .. 50 -> "literal"
    [] r \in 51 .. 54 -> "field"

-----------------------------------------------------------------------------
(* The grammar: every part of a query begins with a token after three      *)
(* rules at the most, and none is empty.                                   *)
PartsBegin ==
  /\ Nonterminals \cap Tokens = {}
  /\ RuleNumbers = 1 .. 54
  /\ \A r \in 4 .. 54 : lhs(r) \in Parts /\ rhs(r) \in Forms /\ rhs(r) # <<>>
  /\ \A X \in Parts : RulesOf(X) # {} /\ RulesOf(X) \subseteq 4 .. 54
  /\ \A X \in Symbols :
       /\ <<>> \notin OpensAll({<<X>>})
       /\ <<>> \notin OpensAll(OpensAll({<<X>>}))
       /\ Starts(X) \subseteq Forms /\ Starts(X) # {}
       /\ \A f \in Starts(X) : f # <<>> /\ Head(f) \in Tokens
  /\ Symbols \subseteq Lower(Lower(Lower(Tokens)))
  /\ \A X \in Parts : Starts(X) = UNION {StartsBy(r) : r \in RulesOf(X)}

(* yyr1 and yyr2 are the rules of the grammar.                             *)
RulesAgree ==
  \A r \in 1 .. 54 :
    /\ At(yyr2, r) = Len(rhs(r))
    /\ At(yyr1, r) = Symbol(lhs(r))
    /\ Len(rhs(r)) \in Nat

(* An item belongs to a rule; the symbol behind it is the one its state is *)
(* reached by, and a rule begins where its left-hand side is expected.     *)
ItemsFit ==
  \A s \in States : \A i \in Items[s] :
    /\ i \in RuleNumbers \X Nat
    /\ i[2] <= Len(rhs(i[1]))
    /\ i[2] = 0 => i[1] = 1 \/ lhs(i[1]) \in NextOf(Items[s])
    /\ i[2] > 0 => i \in At(Kernels, s) /\ rhs(i[1])[i[2]] = Sym(s)
    /\ i[2] < Len(rhs(i[1])) =>
         \A r \in RulesOf(rhs(i[1])[i[2] + 1]) : <<r, 0>> \in Items[s]

(* Every symbol that may come next leads to the state with its items.      *)
TransFit ==
  \A s \in States : \A X \in NextOf(Items[s]) :
    /\ Trans(s, X) \in States \ {0}
    /\ Sym(Trans(s, X)) = X
    /\ At(Kernels, Trans(s, X)) =
         {<<i[1], i[2] + 1>> :
            i \in {j \in Items[s] : j[2] < Len(rhs(j[1])) /\ rhs(j[1])[j[2] + 1] = X}}

(* Nothing else is shifted.                                                *)
ShiftsFit ==
  \A s \in States : \A t \in Tokens :
    At(yypact, s) # YYPACT_NINF /\ Shifts(s, t) # 0 => t \in NextOf(Items[s])

(* A state reduces by its one complete item, and without looking at a      *)
(* token only when it has no other item.                                   *)
DefaultsFit ==
  \A s \in States \ {0, YYFINAL} :
    /\ \A i \in Items[s] : i[2] = Len(rhs(i[1])) => At(yydefact, s) = i[1]
    /\ At(yydefact, s) # 0 =>
         /\ At(yydefact, s) \in 3 .. 54
         /\ <<At(yydefact, s), Len(rhs(At(yydefact, s)))>> \in Items[s]
    /\ At(yypact, s) = YYPACT_NINF =>
         /\ At(yydefact, s) # 0
         /\ Items[s] = {<<At(yydefact, s), Len(rhs(At(yydefact, s)))>>}
    /\ At(yydefact, s) = 3 => At(yypact, s) = YYPACT_NINF

(* The input is empty at first; behind it comes one query or the end.      *)
InputFits ==
  /\ At(yypact, 0) = YYPACT_NINF /\ At(yydefact, 0) = 2
  /\ NextOf(Items[0]) = {"input"} /\ \A i \in Items[0] : i[2] = 0
  /\ Trans(0, "input") = 1
  /\ At(Kernels, 1) = {<<1, 1>>, <<3, 1>>}
  /\ "query" \in Parts /\ {"SEMICOLON", "$end"} \subseteq Tokens
  /\ lhs(2) = "input" /\ lhs(3) = "input" /\ rhs(1) = <<"input", "$end">>
  /\ rhs(2) = <<>> /\ rhs(3) = <<"input", "query", "SEMICOLON">>
  /\ \A s \in States \ {0} :
       /\ \A i \in Items[s] : i[1] \in {1, 2, 3} => i[2] > 0
       /\ s # YYFINAL => \E i \in At(Kernels, s) : i[1] # 1
       /\ \A X \in NextOf(Items[s]) : (Trans(s, X) = YYFINAL) = (X = "$end")
  /\ \A s \in States : "$end" \in NextOf(Items[s]) => s = 1

(* A token that may come behind a part is not shifted where the part ends. *)
NoConflict ==
  /\ "SEMICOLON" \in FollowOf["query"]
  /\ \A r \in 4 .. 54 : \A k \in 1 .. Len(rhs(r)) :
       rhs(r)[k] \in Parts =>
         (IF k = Len(rhs(r)) THEN FollowOf[lhs(r)] ELSE Firsts(rhs(r)[k + 1]))
           \subseteq FollowOf[rhs(r)[k]]
  /\ \A s \in States : \A i \in Items[s] :
       i[1] \in 4 .. 54 /\ i[2] = Len(rhs(i[1])) =>
         FollowOf[lhs(i[1])] \cap NextOf(Items[s]) = {}

(* A rule leaves a value of the type its left-hand side is declared with,  *)
(* and a token one of the member of the union it sets.                     *)
TypesFit ==
  /\ \A r \in PassOn : Len(rhs(r)) > 0 /\ TypeOfSymbol(rhs(r)[1]) = TypeOfSymbol(lhs(r))
  /\ \A r \in 4 .. 54 \ PassOn : TypeOfSymbol(lhs(r)) = Built(r)
  /\ \A t \in Tokens : TypeOfSymbol(t) = MemberOf(t)
  /\ "YYEMPTY" \notin Tokens
  /\ TypeOfSymbol("input") = "none" /\ TypeOfSymbol("query") = "query"

ASSUME AutomatonFits ==
  /\ PartsBegin /\ RulesAgree
  /\ ItemsFit /\ TransFit /\ ShiftsFit /\ DefaultsFit /\ InputFits
  /\ NoConflict /\ TypesFit
=============================================================================
