------------------------------ MODULE MCFilters ------------------------------
(* An instance of Filters for TLC. *)
EXTENDS Filters

IntVal(i) == [type |-> "INTEGER", v |-> i]
StrVal(s) == [type |-> "STRING", v |-> s]

MCRows == {[n |-> IntVal(1), m |-> IntVal(2), s |-> StrVal(<<"a", "b">>), t |-> StrVal(<<"a">>)]}

Cond(ty, l, r, rel) == [type |-> ty, left |-> l, right |-> r, relation |-> rel]

(* One condition of each kind that holds for the row, and one that does not. *)
KindConditions ==
  {Cond("COLUMN_VALUE", "n", IntVal(i), "LESS") : i \in {1, 2}} \cup
  {Cond("COLUMN_COLUMN", "s", "t", rel) : rel \in {"LIKE", "LESS"}} \cup
  {Cond("VALUE_VALUE", IntVal(1), IntVal(i), "EQUAL") : i \in {1, 2}}

(* Lists of at most n conditions; the last condition of each ends its group. *)
ListsOf(C, n) ==
  LET Elem == [cond : C, next_relation : {"OR", "AND", "NONE"}]
  IN  {s \in UNION {[1 .. i -> Elem] : i \in 0 .. n} :
         s = <<>> \/ s[Len(s)].next_relation = "NONE"}

(* One condition, with every relation on integers and strings. *)
Relations == {"EQUAL", "NOT_EQUAL", "LESS", "MORE", "LESS_EQUAL", "MORE_EQUAL", "LIKE"}
SingleConditions ==
  {Cond("COLUMN_VALUE", "n", IntVal(i), rel) : i \in 0 .. 2, rel \in Relations \ {"LIKE"}} \cup
  {Cond("COLUMN_VALUE", "s", StrVal(v), rel) :
     v \in {<<>>, <<"a">>, <<"a", "b">>, <<"b", "a">>, <<"a", "b", "c">>}, rel \in Relations}

MCLists == ListsOf(KindConditions, 3) \cup ListsOf(SingleConditions, 1)

BothLoops == {"table", "join"}
=============================================================================
