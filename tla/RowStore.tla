------------------------------ MODULE RowStore ------------------------------
(***************************************************************************)
(* What the operations on the rows of a table promise: the table is a bag  *)
(* of rows, and a call changes all the rows it names and no other.         *)
(***************************************************************************)
EXTENDS Integers, FiniteSetsExt

CONSTANT Values   \* what a row can hold

VARIABLE content  \* how many rows hold each value

Init == content = [x \in Values |-> 0]

Inserted(bag, v) == [bag EXCEPT ![v] = @ + 1]

Deleted(bag, S) == [x \in Values |-> IF x \in S THEN 0 ELSE bag[x]]

(* The rows that held a value of S hold v.                                 *)
Updated(bag, S, v) ==
  LET moved == MapThenSumSet(LAMBDA x : bag[x], S)
      left == Deleted(bag, S)
  IN  [left EXCEPT ![v] = @ + moved]

Next ==
  LET bag == content IN
  content' \in
    {Inserted(bag, v) : v \in Values} \cup
    {Deleted(bag, S) : S \in SUBSET Values} \cup
    {Updated(bag, S, v) : S \in SUBSET Values, v \in Values}

Spec == Init /\ [][Next]_content
=============================================================================
