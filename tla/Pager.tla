-------------------------------- MODULE Pager --------------------------------
(***************************************************************************)
(* The block file of db/pager.c: a database header, a singly linked chain  *)
(* of SCHEMA blocks holding table descriptors, one chain of RECORD blocks  *)
(* per table, and a linked list of FREE blocks that both kinds are popped  *)
(* from.  A block is the page of the same number.  Page 0 holds the header *)
(* and is the variable `header'; `db' is the copy the process works on.    *)
(*                                                                         *)
(* Table descriptors are as long as their columns make them, so a place in *)
(* a SCHEMA block is a byte.  The rows of a table have one size: the       *)
(* offset of a RECORD block is the number of rows in front of it, and      *)
(* RecordSlots is how many satisfy "offset + size < block_size".           *)
(***************************************************************************)
EXTENDS Integers, FiniteSets, Chains

CONSTANTS
  Names,        \* names of tables
  MaxBlocks,    \* bound: blocks 1..MaxBlocks, page 0 apart
  BlockSize,    \* block_size of the header, in bytes
  ColumnCounts, \* the numbers of columns tables may have
  RecordSlots,  \* rows that fit in a RECORD block, by the number of columns
  Calls,        \* the operations the caller of the pager makes
  NoTable       \* no table is being created

VARIABLES
  db,        \* the header in memory
  header,    \* the header on page 0
  type,      \* block.type of each page, "NONE" past the end of the file
  next_id,   \* block.next_id of each page
  offset,    \* block.offset of a SCHEMA page
  tables,    \* the descriptors of a SCHEMA page before it, by their place
  rows,      \* the number of rows in front of the offset of a RECORD page
  creating   \* the table between insert_table_to_schema and its first block

vars == <<db, header, type, next_id, offset, tables, rows, creating>>
-----------------------------------------------------------------------------
Blocks == 1 .. MaxBlocks
BlockTypes == {"SCHEMA", "RECORD", "FREE", "NONE"}

Header == [first_clean_block : Nat, block_num : Nat,
           schema_first_block_id : Nat, schema_last_block_id : Nat]

(* sizeof(block), the first place of a block; the fixed fields of a table; *)
(* and get_real_table_size, which adds its columns.                        *)
SizeOfBlock == 16
SizeOfHead == 64
RealSize(tb) == SizeOfHead + 40 * tb.num_columns

Places == SizeOfBlock .. BlockSize - 1

(* block_id and offset say where the descriptor was first written; a block *)
(* id of 0 is a field not yet set.  Of the columns only this is kept: are  *)
(* they still those of the CREATE, or has another table been written there. *)
Table == [name : Names, num_columns : ColumnCounts, columns : {"own", "overwritten"},
          block_id : Blocks, offset : Places,
          first_record_block_id : Nat, last_record_block_id : Nat,
          num_rows : Nat]

ASSUME PagerAssumption ==
  /\ MaxBlocks \in Nat /\ MaxBlocks >= 2
  /\ BlockSize \in Nat /\ BlockSize > SizeOfBlock
  /\ ColumnCounts \subseteq Nat
  /\ \A c \in ColumnCounts : SizeOfBlock + SizeOfHead + 40 * c < BlockSize
  /\ RecordSlots \in [ColumnCounts -> Nat \ {0}]
  /\ Calls \subseteq {"create", "insert", "drop"}
  /\ NoTable \notin Table

SchemaBlocks == {b \in Blocks : type[b] = "SCHEMA"}
FreeBlocks   == {b \in Blocks : type[b] = "FREE"}
RecordBlocks == {b \in Blocks : type[b] = "RECORD"}

-----------------------------------------------------------------------------
(* A new file: header on page 0, the schema in block 1, block 2 free.      *)

NewHeader == [first_clean_block |-> 2, block_num |-> 3,
              schema_first_block_id |-> 1, schema_last_block_id |-> 1]

Init ==
  /\ db = NewHeader
  /\ header = NewHeader
  /\ type = [b \in Blocks |-> CASE b = 1 -> "SCHEMA"
                                [] b = 2 -> "FREE"
                                [] OTHER -> "NONE"]
  /\ next_id = [b \in Blocks |-> b]
  /\ offset = [b \in Blocks |-> SizeOfBlock]
  /\ tables = [b \in Blocks |-> [p \in {} |-> NoTable]]
  /\ rows = [b \in Blocks |-> 0]
  /\ creating = NoTable

-----------------------------------------------------------------------------
(* The free list.  Its head is popped; a head linked to itself is the last *)
(* free block, and then the file grows by a new one.                       *)

Popped == db.first_clean_block
Grows == next_id[Popped] = Popped
CanPop == Grows => db.block_num <= MaxBlocks

PoppedDbNoCount ==                    \* mutant: the new block is not counted
  IF Grows THEN [db EXCEPT !.first_clean_block = db.block_num]
  ELSE [db EXCEPT !.first_clean_block = next_id[Popped]]

PoppedDbStuck ==                      \* mutant: the head stays on the list
  IF Grows
  THEN [db EXCEPT !.first_clean_block = db.block_num,
                  !.block_num = db.block_num + 1]
  ELSE db

PoppedDb ==
  IF Grows
  THEN [db EXCEPT !.first_clean_block = db.block_num,
                  !.block_num = db.block_num + 1]
  ELSE [db EXCEPT !.first_clean_block = next_id[Popped]]

PoppedType(t) ==
  [b \in Blocks |-> IF b = Popped THEN t
                    ELSE IF Grows /\ b = db.block_num THEN "FREE"
                    ELSE type[b]]

(* initialize_first_free_block links the new free block to itself.         *)
GrownNext ==
  [b \in Blocks |-> IF Grows /\ b = db.block_num THEN b ELSE next_id[b]]

(* get_empty_*_block: `last' is linked to the popped block, which is       *)
(* written with the link it had in the buffer, to itself.                  *)
ExtendedNextUnlinked(last) ==         \* mutant: the old last block is not saved
  [GrownNext EXCEPT ![Popped] = Popped]

ExtendedNext(last) ==
  [GrownNext EXCEPT ![last] = Popped, ![Popped] = Popped]

(* save_db_header: page 0 gets the header in memory.                       *)
SaveHeaderNot == UNCHANGED header     \* mutant: the call is forgotten

SaveHeader == header' = db'

-----------------------------------------------------------------------------
(* write_table_to_page: bytes of a page are written over.  A descriptor    *)
(* that loses a byte of its head is none any more; one that loses bytes of *)
(* its columns only is still found.                                        *)

End(page, p) == p + RealSize(page[p])

Over(page, new) ==
  LET loses(from, to) == \E q \in DOMAIN new : from < End(new, q) /\ q < to
      left == {p \in DOMAIN page : ~loses(p, p + SizeOfHead)}
  IN  [p \in left \cup DOMAIN new |->
         IF p \in DOMAIN new THEN new[p]
         ELSE IF loses(p, End(page, p)) THEN [page[p] EXCEPT !.columns = "overwritten"]
         ELSE page[p]]

At(p, tb) == [q \in {p} |-> tb]

(* The descriptor goes where its own block_id and offset say, whatever is  *)
(* there by now.  Nobody reads what is behind the offset of a block.       *)
WriteTableEarly(tb) ==                \* mutant: written before num_rows++
  LET before == [tb EXCEPT !.num_rows = IF @ = 0 THEN 0 ELSE @ - 1]
      page == Over(tables[tb.block_id], At(tb.offset, before))
  IN  [tables EXCEPT ![tb.block_id] =
         [p \in {q \in DOMAIN page : q < offset[tb.block_id]} |-> page[p]]]

WriteTable(tb) ==
  LET b == tb.block_id
      page == Over(tables[b], At(tb.offset, tb))
  IN  [tables EXCEPT ![b] = [p \in {q \in DOMAIN page : q < offset[b]} |-> page[p]]]

-----------------------------------------------------------------------------
(* insert_table_to_schema: the first half of CREATE TABLE.                 *)

NewTable(n, c, b, p) ==
  [name |-> n, num_columns |-> c, columns |-> "own", block_id |-> b, offset |-> p,
   first_record_block_id |-> 0, last_record_block_id |-> 0, num_rows |-> 0]

InsertTable(n, c) ==
  LET last == db.schema_last_block_id
      here == NewTable(n, c, last, offset[last])
      there == NewTable(n, c, Popped, SizeOfBlock)
  IN
  /\ "create" \in Calls
  /\ creating = NoTable
  /\ \/ /\ RealSize(here) + offset[last] < BlockSize
        /\ creating' = here
        /\ tables' = [tables EXCEPT ![last] = Over(@, At(offset[last], here))]
        /\ offset' = [offset EXCEPT ![last] = @ + RealSize(here)]
        /\ UNCHANGED <<db, type, next_id, rows>>
     \/ /\ RealSize(here) + offset[last] >= BlockSize
        /\ CanPop
        /\ creating' = there
        /\ tables' = [tables EXCEPT ![Popped] = At(SizeOfBlock, there)]
        /\ offset' = [offset EXCEPT ![Popped] = SizeOfBlock + RealSize(there)]
        /\ db' = [PoppedDb EXCEPT !.schema_last_block_id = Popped]
        /\ type' = PoppedType("SCHEMA")
        /\ next_id' = ExtendedNext(last)
        /\ rows' = [rows EXCEPT ![Popped] = 0]
  /\ SaveHeader

(* initialize_table_record_block: the second half.  The popped block keeps *)
(* the link it had in the free list, and the header is not saved.          *)
WithBlockFirstOnly(tb, b) ==          \* mutant: the last block is not set
  [tb EXCEPT !.first_record_block_id = b]

WithBlock(tb, b) ==
  [tb EXCEPT !.first_record_block_id = b, !.last_record_block_id = b]

InitializeTableRecordBlock ==
  LET tb == WithBlock(creating, Popped)
  IN
  /\ creating # NoTable
  /\ CanPop
  /\ db' = PoppedDb
  /\ type' = PoppedType("RECORD")
  /\ next_id' = GrownNext
  /\ rows' = [rows EXCEPT ![Popped] = 0]
  /\ tables' = WriteTable(tb)
  /\ creating' = NoTable
  /\ UNCHANGED <<header, offset>>

-----------------------------------------------------------------------------
(* get_table_from_schema: the first descriptor of that name on the walk    *)
(* from the first schema block to the last.                                *)

SchemaWalk[k \in 0 .. MaxBlocks] ==
  IF k = 0 THEN db.schema_first_block_id ELSE next_id[SchemaWalk[k - 1]]

(* The places of page b a walk comes to: each begins where the descriptor  *)
(* before it ends.  Past bytes that are no descriptor there is none.       *)
Reads(b) ==
  {p \in DOMAIN tables[b] :
     \E S \in SUBSET {o \in DOMAIN tables[b] : o < p} :
       /\ SizeOfBlock \in S \cup {p}
       /\ \A o \in S : End(tables[b], o) \in S \cup {p}}

(* A walk gets to the end of page b.                                       *)
Readable(b) ==
  offset[b] > SizeOfBlock =>
    \E S \in SUBSET DOMAIN tables[b] :
      /\ SizeOfBlock \in S
      /\ \A o \in S : End(tables[b], o) \in S \/ End(tables[b], o) >= offset[b]

(* <<k, p>>: the descriptor at place p of the k-th block of the walk.      *)
WalkSlots ==
  LET passed(j) ==
        SchemaWalk[j] # db.schema_last_block_id /\ Readable(SchemaWalk[j])
  IN  UNION {{k} \X Reads(SchemaWalk[k]) :
               k \in {m \in 0 .. MaxBlocks : \A j \in 0 .. m - 1 : passed(j)}}

Matches(n) == {s \in WalkSlots : tables[SchemaWalk[s[1]]][s[2]].name = n}

FirstMatch(n, b, p) ==
  \E s \in Matches(n) :
    /\ b = SchemaWalk[s[1]] /\ p = s[2]
    /\ \A r \in Matches(n) : s[1] < r[1] \/ (s[1] = r[1] /\ s[2] <= r[2])

Found(n, b, p) ==
  /\ b \in SchemaBlocks
  /\ p \in DOMAIN tables[b]
  /\ FirstMatch(n, b, p)

-----------------------------------------------------------------------------
(* insert_record_to_table through the descriptor get_table_from_schema     *)
(* returned, which need not have been read where it is written back.  How  *)
(* long a row is depends on the columns: through columns that another      *)
(* table has overwritten the model inserts nothing.                        *)

RecordFitsFull(tb, b) == rows[b] <= RecordSlots[tb.num_columns]   \* mutant: off by one

RecordFits(tb, b) == rows[b] < RecordSlots[tb.num_columns]

InsertThrough(tb) ==
  LET last == tb.last_record_block_id
  IN
  /\ \/ /\ RecordFits(tb, last)
        /\ rows' = [rows EXCEPT ![last] = @ + 1]
        /\ tables' = WriteTable([tb EXCEPT !.num_rows = @ + 1])
        /\ UNCHANGED <<db, type, next_id>>
     \/ /\ ~RecordFits(tb, last)
        /\ CanPop
        /\ rows' = [rows EXCEPT ![Popped] = 1]
        /\ tables' = WriteTable(
             [tb EXCEPT !.num_rows = @ + 1, !.last_record_block_id = Popped])
        /\ db' = PoppedDb
        /\ type' = PoppedType("RECORD")
        /\ next_id' = ExtendedNext(last)
  /\ SaveHeader

InsertRecord(n) ==
  /\ "insert" \in Calls
  /\ creating = NoTable
  /\ \E b \in Blocks : \E p \in DOMAIN tables[b] :
       Found(n, b, p) /\ tables[b][p].columns = "own" /\ InsertThrough(tables[b][p])
  /\ UNCHANGED <<offset, creating>>

-----------------------------------------------------------------------------
(* delete_table_from_schema with write_to_last_schema_block: the block of  *)
(* the table is unlinked, each of its other tables moves to the last block *)
(* if it fits there, and what is left is compacted and becomes the last    *)
(* block, or is freed.  Only the descriptor goes: the record blocks stay.  *)

SizesOfHeads(b) ==                    \* mutant: get_real_table_size leaves out the columns
  [p \in DOMAIN tables[b] |-> SizeOfHead]

Sizes(b) == [p \in DOMAIN tables[b] |-> RealSize(tables[b][p])]

(* What of a group of descriptors of page b is in front of the one at p.   *)
Before(b, group, p) == Total(Sizes(b), {q \in group : q < p})

(* The group written one behind the other from byte `from' on.             *)
Laid(from, b, group) ==
  LET at == [q \in group |-> from + Before(b, group, q)]
  IN  [p \in {at[q] : q \in group} |-> tables[b][CHOOSE q \in group : at[q] = p]]

(* Those that go to the last block: each that still fits behind the ones   *)
(* that went before it.                                                    *)
FitInLast(b, survivors, moved) ==
  LET last == db.schema_last_block_id
  IN  \A p \in survivors :
        p \in moved <=>
          /\ b # last
          /\ offset[last] + Before(b, moved, p) + RealSize(tables[b][p]) < BlockSize

(* pre_id: the block before b, or b itself when b is the first.            *)
PredecessorUnknown(pre, b) == pre = b \* mutant: pre_id does not follow the walk

Predecessor(pre, b) ==
  IF b = db.schema_first_block_id
  THEN pre = b
  ELSE pre \in SchemaBlocks \ {b} /\ next_id[pre] = b

(* moved are the places whose descriptors move, kept those of the others.  *)
DeleteFrom(b, pre, moved, kept) ==
  LET last == db.schema_last_block_id
      first == IF pre = b THEN next_id[b] ELSE db.schema_first_block_id
      unlinked == IF pre = b THEN next_id ELSE [next_id EXCEPT ![pre] = next_id[b]]
      freed == kept = {} /\ b # first /\ b # last
  IN
  /\ tables' = [tables EXCEPT ![last] = Over(@, Laid(offset[last], b, moved)),
                              ![b] = Laid(SizeOfBlock, b, kept)]
  /\ offset' = [offset EXCEPT ![last] = @ + Total(Sizes(b), moved),
                              ![b] = SizeOfBlock + Total(Sizes(b), kept)]
  /\ \/ /\ freed
        /\ type' = [type EXCEPT ![b] = "FREE"]
        /\ next_id' = [unlinked EXCEPT ![b] = db.first_clean_block]
        /\ db' = [db EXCEPT !.first_clean_block = b,
                            !.schema_first_block_id = first]
     \/ /\ ~freed
        /\ next_id' = [unlinked EXCEPT ![last] = b, ![b] = b]
        /\ db' = [db EXCEPT !.schema_first_block_id = first,
                            !.schema_last_block_id = b]
        /\ UNCHANGED type

DeleteTable(n) ==
  /\ "drop" \in Calls
  /\ creating = NoTable
  /\ \E b \in Blocks, pre \in Blocks : \E p \in DOMAIN tables[b] :
       LET survivors == Reads(b) \ {p} IN
       /\ Found(n, b, p)
       /\ Readable(b)
       /\ Predecessor(pre, b)
       /\ \E moved \in SUBSET survivors :
            FitInLast(b, survivors, moved) /\ DeleteFrom(b, pre, moved, survivors \ moved)
  /\ SaveHeader
  /\ UNCHANGED <<rows, creating>>

-----------------------------------------------------------------------------
Next ==
  \/ \E n \in Names, c \in ColumnCounts : InsertTable(n, c)
  \/ InitializeTableRecordBlock
  \/ \E n \in Names : InsertRecord(n)
  \/ \E n \in Names : DeleteTable(n)

Spec == Init /\ [][Next]_vars

-----------------------------------------------------------------------------
(* Every variable keeps its shape, and no block is overfull.               *)
TypeOK ==
  /\ db \in Header
  /\ header \in Header
  /\ type \in [Blocks -> BlockTypes]
  /\ next_id \in [Blocks -> Nat]
  /\ offset \in [Blocks -> Places]
  /\ DOMAIN tables = Blocks
  /\ \A b \in Blocks :
       /\ tables[b] \in [DOMAIN tables[b] -> Table]
       /\ DOMAIN tables[b] \subseteq SizeOfBlock .. offset[b] - 1
  /\ rows \in [Blocks -> Nat]
  /\ \A b \in RecordBlocks : \E c \in ColumnCounts : rows[b] <= RecordSlots[c]
  /\ creating = NoTable \/ creating \in Table

(* The blocks marked SCHEMA are exactly those a walk from the first schema *)
(* block to the last passes, once each, and the walk stops there: what     *)
(* delete_table_from_schema unlinks, appends or frees never loses, repeats *)
(* or cuts off a block of the schema.                                      *)
SchemaChain ==
  Chain(next_id, SchemaBlocks, db.schema_first_block_id, db.schema_last_block_id)

(* The blocks marked FREE are exactly those on the free list, and the list *)
(* ends in a block linked to itself: get_empty_scheme_block and the others *)
(* never hand out a block that is in use, and none is handed out twice.    *)
FreeChain ==
  \E tail \in FreeBlocks : Chain(next_id, FreeBlocks, db.first_clean_block, tail)

(* The file has no hole: the blocks written so far are 1 .. block_num - 1, *)
(* so a new block at block_num overwrites nothing.                         *)
BlocksAccounted ==
  /\ db.block_num \in 1 .. MaxBlocks + 1
  /\ \A b \in Blocks : type[b] = "NONE" <=> b >= db.block_num

(* The block a row would be appended to is a RECORD block, for every       *)
(* descriptor wherever it was moved or written back, the one still without *)
(* a block apart: insert_record_to_table never writes rows over the schema *)
(* or a free block.                                                        *)
IsBeingCreated(b, p) ==
  creating # NoTable /\ creating.block_id = b /\ creating.offset = p

RowsGoToRecords ==
  /\ creating # NoTable => creating.offset \in DOMAIN tables[creating.block_id]
  /\ \A b \in Blocks : \A p \in DOMAIN tables[b] :
       IsBeingCreated(b, p) \/ tables[b][p].last_record_block_id \in RecordBlocks

(* Every walk over the schema goes from descriptor to descriptor, and all  *)
(* have the columns they were created with.                                *)
SchemaWhole ==
  \A b \in SchemaBlocks :
    Readable(b) /\ \A p \in DOMAIN tables[b] : tables[b][p].columns = "own"

-----------------------------------------------------------------------------
(* What a table owns, as long as no table has been dropped.                *)

Descriptors ==
  {tables[SchemaWalk[s[1]]][s[2]] : s \in WalkSlots}

RecordWalk(tb) ==
  LET walk[k \in 0 .. MaxBlocks] ==
        IF k = 0 THEN tb.first_record_block_id ELSE next_id[walk[k - 1]]
      upto == {k \in 0 .. MaxBlocks : walk[k] = tb.last_record_block_id}
  IN  [k \in {j \in 0 .. MaxBlocks : \A m \in 0 .. j - 1 : m \notin upto} |-> walk[k]]

OwnedBlocks(tb) == {RecordWalk(tb)[k] : k \in DOMAIN RecordWalk(tb)}

(* insert_record_to_table keeps a table's row count, its first and last    *)
(* block and the links between them in step: walking the table from its    *)
(* first block to its last finds num_rows rows.                            *)
RowsCounted ==
  creating = NoTable =>
    \A tb \in Descriptors : Total(rows, OwnedBlocks(tb)) = tb.num_rows

(* No two tables share a record block, and every record block belongs to a *)
(* table: a block popped from the free list has one owner.                 *)
RecordsOwned ==
  creating = NoTable =>
    /\ UNION {OwnedBlocks(tb) : tb \in Descriptors} = RecordBlocks
    /\ \A s, t \in Descriptors :
         OwnedBlocks(s) \cap OwnedBlocks(t) # {} => s = t

-----------------------------------------------------------------------------
(* The schema as its readers see it: how many tables bear each name.       *)

TableCount == [n \in Names |-> Cardinality(Matches(n))]

(* CREATE TABLE leaves page 0 behind: until the next save its free list    *)
(* starts at a block already handed out.  A restart would lose no more     *)
(* than that one pop, and the block is the first of a table without rows.  *)
SavedHeader ==
  LET b == header.first_clean_block
  IN  \/ header = db
      \/ /\ b \in RecordBlocks /\ rows[b] = 0
         /\ db = IF next_id[b] = b
                 THEN [header EXCEPT !.first_clean_block = header.block_num,
                                     !.block_num = @ + 1]
                 ELSE [header EXCEPT !.first_clean_block = next_id[b]]
=============================================================================
