------------------------------- MODULE Filters -------------------------------
(***************************************************************************)
(* How db/query.c decides whether a row meets a list of conditions: the    *)
(* loop select, update and delete share, and the one of the inner join.    *)
(* One step is one condition of the list.                                  *)
(*                                                                         *)
(* A list is what the AQL filters become: groups of conditions, a group    *)
(* being one FILTER, joined by OR and AND inside and ended by NONE.        *)
(* A value is [type, v]; a string is the sequence of its letters, a float  *)
(* one of a few numbers.  Operands are compared at their common type.      *)
(***************************************************************************)
EXTENDS Integers, Sequences

CONSTANTS
  Rows,   \* rows: functions from column names to values
  Lists,  \* sequences of [cond, next_relation]; a condition is a
          \* [type, left, right, relation], an operand a column or a value
  Loops   \* "table" for select, update and delete, "join" for the join

VARIABLES
  row, list, loop,   \* what the loop is called with
  k,                 \* temp: the condition to look at, Len(list) + 1 for NULL
  flag, temp_flag,
  next_relation      \* the relation of the previous condition to this one

vars == <<row, list, loop, k, flag, temp_flag, next_relation>>

NextRelations == {"OR", "AND", "NONE"}

(* The last condition of a list ends its group.                            *)
ASSUME ListsAssumption ==
  \A l \in Lists :
    /\ Len(l) \in Nat
    /\ \A i \in 1 .. Len(l) : l[i].next_relation \in NextRelations
    /\ l # <<>> => l[Len(l)].next_relation = "NONE"
-----------------------------------------------------------------------------
CheckNumbers(a, b, rel) ==
  \/ rel = "LESS" /\ a < b
  \/ rel = "LESS_EQUAL" /\ a <= b
  \/ rel = "MORE" /\ a > b
  \/ rel = "MORE_EQUAL" /\ a >= b
  \/ rel = "EQUAL" /\ a = b
  \/ rel = "NOT_EQUAL" /\ a # b

CheckBools(a, b, rel) ==
  \/ rel = "EQUAL" /\ a = b
  \/ rel = "NOT_EQUAL" /\ a # b

IsPrefixOf(b, a) == Len(b) <= Len(a) /\ \A i \in 1 .. Len(b) : a[i] = b[i]

(* Order is by length.  NOT_EQUAL has no break: two equal strings go on to *)
(* LIKE.                                                                   *)
CheckStrings(a, b, rel) ==
  \/ rel = "LESS" /\ Len(a) < Len(b)
  \/ rel = "LESS_EQUAL" /\ Len(a) <= Len(b)
  \/ rel = "MORE" /\ Len(a) > Len(b)
  \/ rel = "MORE_EQUAL" /\ Len(a) >= Len(b)
  \/ rel = "EQUAL" /\ a = b
  \/ rel = "NOT_EQUAL" /\ a # b
  \/ rel \in {"NOT_EQUAL", "LIKE"} /\ IsPrefixOf(b, a)

Check(a, b, rel) ==
  CASE a.type \in {"INTEGER", "FLOAT"} -> CheckNumbers(a.v, b.v, rel)
    [] a.type = "BOOL" -> CheckBools(a.v, b.v, rel)
    [] a.type = "STRING" -> CheckStrings(a.v, b.v, rel)

LeftValue(c, r) ==
  IF c.type \in {"COLUMN_VALUE", "COLUMN_COLUMN"} THEN r[c.left] ELSE c.left

RightValue(c, r) == IF c.type = "COLUMN_COLUMN" THEN r[c.right] ELSE c.right

Met(c, r) == Check(LeftValue(c, r), RightValue(c, r), c.relation)

(* NONE, the relation in front of a group's first condition, is AND.       *)
Combine(f, met, rel) == IF rel = "OR" THEN f \/ met ELSE f /\ met

-----------------------------------------------------------------------------
FirstRelationUnset == "GARBAGE"   \* mutant: declared without a value

FirstRelation == "NONE"

Init ==
  /\ row \in Rows /\ list \in Lists /\ loop \in Loops
  /\ k = 1
  /\ flag = TRUE /\ temp_flag = TRUE
  /\ next_relation = FirstRelation

(* The join passes temp_flag to all comparisons, the other loops only to   *)
(* compare_column_value: the rest goes straight to flag.                   *)
IntoTempOnlyValues(c) == c.type = "COLUMN_VALUE"   \* mutant: the join does as the others

IntoTemp(c) == loop = "join" \/ c.type = "COLUMN_VALUE"

MergedAlways(f, t, rel) == f /\ t     \* mutant: merged after each condition

Merged(f, t, rel) == IF rel = "NONE" THEN f /\ t ELSE f

(* One turn of the loop; no case matches a VALUE_COLUMN.                   *)
LookAt ==
  LET c == list[k].cond
      rel == list[k].next_relation
      met == Met(c, row)
      known == c.type # "VALUE_COLUMN"
      f == IF known /\ ~IntoTemp(c) THEN Combine(flag, met, next_relation) ELSE flag
      t == IF known /\ IntoTemp(c) THEN Combine(temp_flag, met, next_relation)
           ELSE temp_flag
  IN
  /\ k <= Len(list)
  /\ flag' = Merged(f, t, rel)
  /\ temp_flag' = (rel = "NONE" \/ t)
  /\ next_relation' = rel
  /\ k' = k + 1
  /\ UNCHANGED <<row, list, loop>>

Next == LookAt

Spec == Init /\ [][Next]_vars

-----------------------------------------------------------------------------
(* What a list means: every FILTER holds; a FILTER is read from the left.  *)

Before(i) == IF i = 1 THEN "NONE" ELSE list[i - 1].next_relation

GroupEnd(i) == list[i].next_relation = "NONE"

SameGroup(i, j) == \A m \in i .. j - 1 : ~GroupEnd(m)

(* The group up to e holds if a condition that AND does not tie to the one *)
(* before is met, and all that AND ties behind it.                         *)
Holds(e) ==
  \E i \in 1 .. e :
    /\ SameGroup(i, e)
    /\ Before(i) # "AND"
    /\ Met(list[i].cond, row)
    /\ \A j \in i + 1 .. e : Before(j) = "AND" => Met(list[j].cond, row)

Completed(n) == \A e \in 1 .. n : GroupEnd(e) => Holds(e)

Meaning == Completed(Len(list))

Readable == \A i \in 1 .. Len(list) : list[i].cond.type # "VALUE_COLUMN"

(* OR appears only between comparisons of a column and a value.            *)
OrOnValuesOnly ==
  \A i, j \in 1 .. Len(list) :
    SameGroup(i, j) /\ SameGroup(j, i) /\ list[j].next_relation = "OR" =>
      list[i].cond.type = "COLUMN_VALUE"

Finished == k > Len(list)

-----------------------------------------------------------------------------
(* The loop never looks past the list, and its relation is one of three.   *)
TypeOK ==
  /\ k \in 1 .. Len(list) + 1
  /\ flag \in BOOLEAN /\ temp_flag \in BOOLEAN
  /\ next_relation \in NextRelations

(* The join keeps a joined pair exactly when all its FILTERs hold.         *)
JoinMeaning == loop = "join" /\ Finished /\ Readable => flag = Meaning

(* Select, update and delete take a row exactly when all the FILTERs hold, *)
(* as long as OR joins comparisons of a column and a value only.           *)
TableMeaning ==
  loop = "table" /\ Finished /\ Readable /\ OrOnValuesOnly => flag = Meaning
=============================================================================
