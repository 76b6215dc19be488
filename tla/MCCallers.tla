------------------------------ MODULE MCCallers ------------------------------
(* An instance of Callers for TLC: two names, tables of one, three and     *)
(* four columns, all calls of the pager.  A block of 425 bytes has room    *)
(* for three descriptors of one column, for two of others, but not for two *)
(* of four columns.                                                        *)
EXTENDS Callers

TwoNames == {tb1, tb2}

(* CREATE and DROP need the most blocks to get to three of the schema;     *)
(* with all calls five are enough to move descriptors and write them back. *)
SmallFiles(program) ==
  CASE program = "create_and_drop" -> 7
    [] program = "create_and_insert" -> 6
    [] program = "all_calls" -> 5
    [] OTHER -> 6

OneThreeOrFour == {1, 3, 4}
TwoOrThreeRows == [c \in OneThreeOrFour |-> IF c = 4 THEN 2 ELSE 3]

AllCalls == {"create", "insert", "drop"}
=============================================================================
