------------------------------- MODULE Callers -------------------------------
(***************************************************************************)
(* Who calls the pager and in which order: execute_query of the server,    *)
(* with and without each of its two kinds of change, and the functions of  *)
(* db/main.c, which fill a new file and measure how long that takes.  A    *)
(* caller is a list of lines; a line is a call, or a loop that makes some  *)
(* calls any number of times.  main.c inserts through the table it has in  *)
(* memory, which is what get_table_from_schema would find: it drops none.  *)
(***************************************************************************)
EXTENDS Pager, Sequences

CONSTANTS
  tb1, tb2,    \* the tables of main.c
  FileBound(_) \* bound: the last block the file of a caller may have

VARIABLES
  caller,  \* which program runs
  line     \* the line it is at

cvars == <<vars, caller, line>>

ASSUME CallersAssumption == {tb1, tb2} \subseteq Names /\ {3, 4} \subseteq ColumnCounts

CallOn(do, n) == [do |-> do, name |-> n]

Creates(n, c) == [do |-> "insert_table_to_schema", name |-> n, num_columns |-> c]
MakesBlock(n) == CallOn("initialize_table_record_block", n)
Inserts(n) == CallOn("insert_record_to_table", n)
Drops(n) == CallOn("delete_table_from_schema", n)
Frees(n) == CallOn("free", n)
FirstFree(n) == CallOn("initialize_first_free_block", n)

Once(call) == [calls |-> {call}, loop |-> FALSE]
Loop(calls) == [calls |-> calls, loop |-> TRUE]

(* A table with its record block, as every caller but two makes it.        *)
New(n, c) == <<Once(Creates(n, c)), Once(MakesBlock(n))>>

(* execute_query, for tables of any name and any columns.                  *)
OfAll(Call(_)) == {Call(n) : n \in Names}
Create == {Creates(n, c) : n \in Names, c \in ColumnCounts} \cup OfAll(MakesBlock)
Insert == OfAll(Inserts)
Drop == OfAll(Drops)

(* The functions of main.c.  Two of them make tables without a block.  All *)
(* tables have four columns, but those of the name tb2 with rows three.    *)
test_scheme_addition == <<Loop({Creates(tb1, 4), Frees(tb1)})>>

check_scheme_return ==
  <<Once(Creates(tb1, 4)), Once(Frees(tb1)), Loop({Creates(tb2, 4), Frees(tb2)})>>

TwoTables == New(tb1, 4) \o New(tb2, 3)

deletion_from_scheme ==
  TwoTables \o <<Loop({Inserts(tb1)}), Loop({Inserts(tb2)})>>

main == TwoTables \o <<Loop({Inserts(tb1)}), Loop({Inserts(tb2)})>>

FilledTable(n, c) == New(n, c) \o <<Loop({Inserts(n)})>>

insert_test == FilledTable(tb2, 3)
select_test == FilledTable(tb2, 3)
delete_test == FilledTable(tb2, 3)
update_test == FilledTable(tb2, 3)

(* Rows of the two tables by turns.                                        *)
join_test == TwoTables \o <<Loop({Inserts(tb1), Inserts(tb2)})>>

testing_creation ==
  New(tb1, 4) \o <<Once(FirstFree(tb1))>> \o New(tb2, 3) \o <<Loop({Inserts(tb1)})>>

Programs ==
  [create_and_insert |-> <<Loop(Create \cup Insert)>>,
   create_and_drop |-> <<Loop(Create \cup Drop)>>,
   all_calls |-> <<Loop(Create \cup Insert \cup Drop)>>,
   test_scheme_addition |-> test_scheme_addition,
   check_scheme_return |-> check_scheme_return,
   deletion_from_scheme |-> deletion_from_scheme, main |-> main,
   insert_test |-> insert_test, select_test |-> select_test,
   delete_test |-> delete_test, update_test |-> update_test,
   join_test |-> join_test, testing_creation |-> testing_creation]

-----------------------------------------------------------------------------
CInit ==
  /\ Init
  /\ caller \in DOMAIN Programs
  /\ line = 1

(* initialize_first_free_block once more: the head of the free list is     *)
(* written again as a free block linked to itself.                         *)
InitializeFirstFreeBlock ==
  /\ creating = NoTable
  /\ type' = [type EXCEPT ![Popped] = "FREE"]
  /\ next_id' = [next_id EXCEPT ![Popped] = Popped]
  /\ UNCHANGED <<db, header, offset, tables, rows, creating>>

(* The table in memory goes; its descriptor stays without a record block.  *)
FreeTable ==
  /\ creating # NoTable
  /\ creating' = NoTable
  /\ UNCHANGED <<db, header, type, next_id, offset, tables, rows>>

Call(c) ==
  \/ c.do = "insert_table_to_schema" /\ InsertTable(c.name, c.num_columns)
  \/ c.do = "initialize_table_record_block" /\ creating # NoTable
       /\ creating.name = c.name /\ InitializeTableRecordBlock
  \/ c.do = "insert_record_to_table" /\ InsertRecord(c.name)
  \/ c.do = "delete_table_from_schema" /\ DeleteTable(c.name)
  \/ c.do = "initialize_first_free_block" /\ InitializeFirstFreeBlock
  \/ c.do = "free" /\ FreeTable

Run ==
  LET here == Programs[caller][line]
  IN
  /\ line \in DOMAIN Programs[caller]
  /\ \E c \in here.calls : Call(c)
  /\ db'.block_num <= FileBound(caller) + 1
  /\ line' = IF here.loop THEN line ELSE line + 1
  /\ UNCHANGED caller

LoopEnd ==
  /\ line < Len(Programs[caller])
  /\ Programs[caller][line].loop
  /\ creating = NoTable
  /\ line' = line + 1
  /\ UNCHANGED <<vars, caller>>

CNext == Run \/ LoopEnd

CSpec == CInit /\ [][CNext]_cvars

-----------------------------------------------------------------------------
WithoutBlocks == {"test_scheme_addition", "check_scheme_return"}
Dropping == {"create_and_drop", "all_calls"}
Keeping == DOMAIN Programs \ Dropping

(* Whoever drops no table, in whatever order rows of two tables are        *)
(* inserted: the rows of every table are where its descriptor says.        *)
CallersRowsCounted == caller \in Keeping \ WithoutBlocks => RowsCounted

(* ... and no record block is shared or lost.                              *)
CallersRecordsOwned == caller \in Keeping \ WithoutBlocks => RecordsOwned

(* Whoever makes record blocks for its tables inserts into RECORD blocks,  *)
(* even through descriptors that drops have moved; and unless rows are     *)
(* inserted after a drop no bytes of the schema are lost.                  *)
CallersRowsGoToRecords ==
  caller \notin WithoutBlocks =>
    RowsGoToRecords /\ (caller # "all_calls" => SchemaWhole)

(* CREATE adds one table of the name, DROP removes one, and neither loses  *)
(* or doubles another, wherever the descriptors are moved to; and a row    *)
(* inserted changes no name.  Not so when rows are inserted after a drop:  *)
(* all_calls is left out, and InsertKeepsCatalog is about it.              *)
Schema == INSTANCE Catalog WITH catalog <- TableCount

CallersKeepCatalog ==
  /\ Schema!Init
  /\ [][(caller # "all_calls") => [Schema!Next]_TableCount]_cvars

(* Inserting a row leaves the tables of the server as they are, whatever   *)
(* was dropped before.                                                     *)
InsertKeepsCatalog ==
  [][(caller = "all_calls" /\ \E n \in Names : InsertRecord(n)) =>
       TableCount' = TableCount]_cvars
=============================================================================
