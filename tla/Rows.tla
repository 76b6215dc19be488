-------------------------------- MODULE Rows --------------------------------
(***************************************************************************)
(* The rows of one table: insert_record_to_table of db/pager.c, and        *)
(* select, update and delete of db/query.c with the block compaction of    *)
(* write_to_last_record_block.  Every loop is one step per row, so that    *)
(* the copies a loop keeps of headers and pages can go stale.              *)
(*                                                                         *)
(* A slot is a row [v, valid]; which rows a list of conditions names is a  *)
(* set of values.  Offsets count slots.  There is no other table: a call   *)
(* runs to its end before the next one.                                    *)
(***************************************************************************)
EXTENDS Integers, Sequences, FiniteSets, SequencesExt

CONSTANTS
  Values,         \* what a row can hold
  Slots,          \* slots of a page
  MaxBlocks,      \* bound: blocks of the file
  MaxRows,        \* bound: rows of the table
  Recycled,       \* may the first block come from the middle of the free list?
  OrderlyDeletes  \* whether callers keep to Orderly, below

(* A row has a fixed width: there are finitely many (table.c:78).           *)
ASSUME RowsAssumption ==
  /\ IsFiniteSet(Values)
  /\ Slots \in Nat \ {0} /\ MaxBlocks \in Nat /\ MaxRows \in Nat
  /\ MaxBlocks >= 3
  /\ Recycled \in (SUBSET BOOLEAN) \ {{}} /\ OrderlyDeletes \in BOOLEAN

VARIABLES
  db,       \* [first_clean_block, block_num]
  tb,       \* [first_record_block_id, last_record_block_id, num_rows]
  next_id,  \* block headers in the file ...
  offset,
  slots,    \* ... and pages: what lies behind the offset is still there
  run,      \* the locals of the call in progress
  held      \* auxiliary: how many rows hold each value since the last change

vars == <<db, tb, next_id, offset, slots, run, held>>
-----------------------------------------------------------------------------
Blocks == 1 .. MaxBlocks

NoRow == [v |-> 0, valid |-> FALSE]
Idle == [op |-> "idle"]

(* CREATE TABLE has just given the table block 2.  It keeps the link it had *)
(* in the free list: to itself if it was the last free block.              *)
Init ==
  /\ db = [first_clean_block |-> 3, block_num |-> 4]
  /\ tb = [first_record_block_id |-> 2, last_record_block_id |-> 2, num_rows |-> 0]
  /\ \E recycled \in Recycled :
       next_id = [b \in Blocks |-> IF b = 2 /\ recycled THEN 3 ELSE b]
  /\ offset = [b \in Blocks |-> 0]
  /\ slots = [b \in Blocks |-> [s \in 1 .. Slots |-> NoRow]]
  /\ run = Idle
  /\ held = [x \in Values |-> 0]

(* A block and its page as they are read into memory.                      *)
Open(b) == [id |-> b, next_id |-> next_id[b], offset |-> offset[b], page |-> slots[b]]

-----------------------------------------------------------------------------
(* The blocks and the rows of the table, in the order they are read.       *)
Hop[n \in 0 .. MaxBlocks] ==
  IF n = 0 THEN tb.first_record_block_id ELSE next_id[Hop[n - 1]]

TableBlocks ==
  LET end == {n \in 0 .. MaxBlocks : Hop[n] = tb.last_record_block_id}
  IN  [i \in {i \in 1 .. MaxBlocks + 1 : \A n \in 0 .. i - 2 : n \notin end} |-> Hop[i - 1]]

RowsOf(b) == [s \in 1 .. offset[b] |-> slots[b][s].v]

TableRows ==
  LET blocks == TableBlocks
  IN  FlattenSeq([i \in DOMAIN blocks |-> RowsOf(blocks[i])])

(* The rows of S among the first n of a sequence, in order: a SelectSeq    *)
(* written as a function, for the proofs.                                  *)
Chosen(rows, n, S) ==
  LET chosen[m \in 0 .. n] ==
        IF m = 0 THEN <<>>
        ELSE IF rows[m] \in S THEN Append(chosen[m - 1], rows[m]) ELSE chosen[m - 1]
  IN  chosen[n]

Counted(rows) == [x \in Values |-> Cardinality({j \in DOMAIN rows : rows[j] = x})]

FreeChain ==
  LET walk[n \in 0 .. MaxBlocks] ==
        IF n = 0 THEN db.first_clean_block ELSE next_id[walk[n - 1]]
  IN  {walk[n] : n \in 0 .. MaxBlocks}

-----------------------------------------------------------------------------
Fits(n) == n < Slots

Pops == ~Fits(offset[tb.last_record_block_id])
Grows == next_id[db.first_clean_block] = db.first_clean_block

(* A new block is written with the page of the old one.                    *)
InsertOffset == IF Pops THEN 1 ELSE offset[tb.last_record_block_id] + 1

GrownDbStuck ==                 \* mutant: the popped block stays on the free list
  IF ~Pops THEN db
  ELSE IF Grows THEN [first_clean_block |-> db.block_num, block_num |-> db.block_num + 1]
  ELSE db

GrownDbCounted ==               \* mutant: every popped block is counted
  IF ~Pops THEN db
  ELSE [first_clean_block |-> IF Grows THEN db.block_num ELSE next_id[db.first_clean_block],
        block_num |-> db.block_num + 1]

GrownDb ==
  IF ~Pops THEN db
  ELSE IF Grows THEN [first_clean_block |-> db.block_num, block_num |-> db.block_num + 1]
  ELSE [db EXCEPT !.first_clean_block = next_id[@]]

Insert(v) ==
  LET last == tb.last_record_block_id
      blk == IF Pops THEN db.first_clean_block ELSE last
  IN
  /\ run.op = "idle" /\ tb.num_rows < MaxRows
  /\ Pops /\ Grows => db.block_num <= MaxBlocks
  /\ db' = GrownDb
  /\ next_id' = IF Pops THEN [next_id EXCEPT ![last] = blk, ![blk] = blk] ELSE next_id
  /\ slots' = [slots EXCEPT ![blk] =
                 [slots[last] EXCEPT ![InsertOffset] = [v |-> v, valid |-> TRUE]]]
  /\ offset' = [offset EXCEPT ![blk] = InsertOffset]
  /\ tb' = [tb EXCEPT !.last_record_block_id = blk, !.num_rows = @ + 1]
  /\ UNCHANGED run
  /\ held' = Counted(TableRows')

-----------------------------------------------------------------------------
(* The block and the place in it of the next row of select and update.     *)
AtEnd == run.off >= run.curr.offset
Here == IF AtEnd THEN Open(run.curr.next_id) ELSE run.curr
Place == IF AtEnd THEN 1 ELSE run.off + 1

UpdateStart(S, v) ==
  /\ run.op = "idle"
  /\ run' = [op |-> "update", cond |-> S, value |-> v,
             curr |-> Open(tb.first_record_block_id), off |-> 0, i |-> 0]
  /\ UNCHANGED <<db, tb, next_id, offset, slots, held>>

UpdateRow ==
  LET c == Here
      hit == c.page[Place].v \in run.cond
      page == IF hit THEN [c.page EXCEPT ![Place].v = run.value] ELSE c.page
  IN
  /\ run.op = "update" /\ run.i < tb.num_rows
  /\ slots' = IF hit THEN [slots EXCEPT ![c.id] = page] ELSE slots
  /\ run' = [run EXCEPT !.curr = [c EXCEPT !.page = page], !.off = Place, !.i = @ + 1]
  /\ UNCHANGED <<db, tb, next_id, offset, held>>

UpdateEnd ==
  /\ run.op = "update" /\ run.i >= tb.num_rows
  /\ run' = Idle
  /\ UNCHANGED <<db, tb, next_id, offset, slots>>
  /\ held' = Counted(TableRows)

-----------------------------------------------------------------------------
(* A select returns when its buffer is full, with the place to go on from  *)
(* coded in one number; it is called again until it returns 0.             *)
BlockSize == Slots + 1

SelectStart(S) ==
  /\ run.op = "idle"
  /\ run' = [op |-> "select", cond |-> S, got |-> <<>>,
             curr |-> Open(tb.first_record_block_id), off |-> 0]
  /\ UNCHANGED <<db, tb, next_id, offset, slots, held>>

SelectMoreBehind ==             \* mutant: <= for <
  run.curr.id # tb.last_record_block_id \/ run.off <= run.curr.offset

SelectMore == run.curr.id # tb.last_record_block_id \/ run.off < run.curr.offset

SelectRow ==
  LET v == Here.page[Place].v
      hit == v \in run.cond
      got == IF hit THEN Append(run.got, v) ELSE run.got
  IN
  /\ run.op = "select" /\ SelectMore
  /\ \/ run' = [run EXCEPT !.curr = Here, !.off = Place, !.got = got]
     \/ /\ hit
        /\ run' = [op |-> "full", cond |-> run.cond, got |-> got,
                   block_offset |-> Place + Here.id * BlockSize]
  /\ UNCHANGED <<db, tb, next_id, offset, slots, held>>

ResumeOffFirst == 0     \* mutant: the block is read again from its start

ResumeOff == run.block_offset % BlockSize

SelectResume ==
  /\ run.op = "full"
  /\ run' = [op |-> "select", cond |-> run.cond, got |-> run.got,
             curr |-> Open(run.block_offset \div BlockSize), off |-> ResumeOff]
  /\ UNCHANGED <<db, tb, next_id, offset, slots, held>>

SelectEnd ==
  /\ run.op = "select" /\ ~SelectMore
  /\ run' = Idle
  /\ UNCHANGED <<db, tb, next_id, offset, slots, held>>

-----------------------------------------------------------------------------
(* Delete marks the rows of a block in its copy of the page and, behind    *)
(* the block's last row, moves what is left into the table's last block.   *)
(* last is the copy of that block made at the start of the call.           *)

Hits(b, S) == {s \in 1 .. offset[b] : slots[b][s].v \in S}

(* The rows to delete are in one block, the first or the second; a last    *)
(* block behind another one keeps a row; and no link leads from the last   *)
(* block into the free list.                                               *)
Orderly(S) ==
  LET blocks == TableBlocks
      hit == {i \in DOMAIN blocks : Hits(blocks[i], S) # {}}
  IN  /\ Cardinality(hit) <= 1 /\ hit \subseteq {1, 2}
      /\ hit # {} => next_id[tb.last_record_block_id] = tb.last_record_block_id
      /\ \A i \in hit :
           i = Len(blocks) /\ i # 1 =>
             Cardinality(Hits(blocks[i], S)) < offset[blocks[i]]

DeleteStart(S) ==
  LET first == tb.first_record_block_id IN
  /\ run.op = "idle"
  /\ OrderlyDeletes => Orderly(S)
  /\ run' = [op |-> "delete", cond |-> S,
             curr |-> Open(first), off |-> 0, i |-> 0,
             pre_id |-> first, next_id |-> next_id[first],
             last |-> Open(tb.last_record_block_id),
             deleted_rows |-> 0, block_flag |-> FALSE]
  /\ UNCHANGED <<db, tb, next_id, offset, slots, held>>

(* The current block with its next row looked at.                          *)
Hit == run.curr.page[run.off + 1].v \in run.cond

MarkedNot == run.curr          \* mutant: the marked row is not written to the page

Marked ==
  IF Hit THEN [run.curr EXCEPT !.page[run.off + 1].valid = FALSE] ELSE run.curr

BlockDone == run.off + 1 >= run.curr.offset \/ run.i + 1 >= tb.num_rows

(* The locals when the loop goes on to block b of the file.                *)
Turned(b, last) ==
  [run EXCEPT !.curr = [id |-> b, next_id |-> next_id'[b], offset |-> offset'[b],
                        page |-> slots'[b]],
              !.off = 0, !.i = @ + 1, !.pre_id = run.curr.id,
              !.last = last, !.block_flag = FALSE,
              !.deleted_rows = @ + (IF Hit THEN 1 ELSE 0)]

DeleteRow ==
  /\ run.op = "delete" /\ run.i < tb.num_rows /\ ~BlockDone
  /\ run' = [run EXCEPT !.curr = Marked, !.off = @ + 1, !.i = @ + 1,
                        !.block_flag = @ \/ Hit,
                        !.deleted_rows = @ + (IF Hit THEN 1 ELSE 0)]
  /\ UNCHANGED <<db, tb, next_id, offset, slots, held>>

(* next_id stays what it was: the loop goes on to the block it last read.  *)
DeleteSkipBlock ==
  /\ run.op = "delete" /\ run.i < tb.num_rows /\ BlockDone
  /\ ~run.block_flag /\ ~Hit
  /\ UNCHANGED <<db, tb, next_id, offset, slots, held>>
  /\ run' = Turned(run.next_id, run.last)

(* write_to_last_record_block for the rows kept of curr: as many as fit go *)
(* into last, the others to the front of curr.                             *)
ValidRows == [v : Values \cup {NoRow.v}, valid : {TRUE}]

KeptButLast(page, n) ==                    \* mutant: a full page loses its last row
  Chosen(page, IF n = Slots THEN n - 1 ELSE n, ValidRows)

Kept(page, n) == Chosen(page, n, ValidRows)

Written(page, at, rows) ==
  [s \in 1 .. Slots |-> IF s \in at + 1 .. at + Len(rows) THEN rows[s - at] ELSE page[s]]

RoomIn(last, same) == IF same THEN 0 ELSE Slots - last.offset

DeleteCompactBlock ==
  LET curr == Marked
      same == curr.id = run.last.id
      kept == Kept(curr.page, curr.offset)
      moves == IF RoomIn(run.last, same) < Len(kept) THEN RoomIn(run.last, same)
               ELSE Len(kept)
      stay == Len(kept) - moves
      first == IF run.pre_id = curr.id THEN curr.next_id ELSE tb.first_record_block_id
      freed == stay = 0 /\ curr.id \notin {first, tb.last_record_block_id}
      last == [run.last EXCEPT
                 !.page = Written(@, run.last.offset, SubSeq(kept, 1, moves)),
                 !.offset = @ + moves,
                 !.next_id = IF freed THEN @ ELSE curr.id]
      pre == IF run.pre_id = curr.id THEN next_id
             ELSE [next_id EXCEPT ![run.pre_id] = curr.next_id]
  IN
  /\ run.op = "delete" /\ run.i < tb.num_rows /\ BlockDone
  /\ run.block_flag \/ Hit
  /\ tb' = [tb EXCEPT !.first_record_block_id = first,
                      !.last_record_block_id = IF freed THEN @ ELSE curr.id]
  /\ db' = IF freed THEN [db EXCEPT !.first_clean_block = curr.id] ELSE db
  /\ next_id' = [pre EXCEPT ![last.id] = last.next_id,
                            ![curr.id] = IF freed THEN db.first_clean_block ELSE curr.id]
  /\ offset' = [offset EXCEPT ![last.id] = last.offset, ![curr.id] = stay]
  /\ slots' = [slots EXCEPT ![last.id] = last.page,
                            ![curr.id] = Written(curr.page, 0, SubSeq(kept, moves + 1, Len(kept)))]
  /\ UNCHANGED held
  /\ run' = [Turned(curr.next_id, last) EXCEPT !.next_id = curr.next_id]

DeleteEnd ==
  /\ run.op = "delete" /\ run.i >= tb.num_rows
  /\ tb' = [tb EXCEPT !.num_rows = @ - run.deleted_rows]
  /\ run' = Idle
  /\ UNCHANGED <<db, next_id, offset, slots>>
  /\ held' = Counted(TableRows')

-----------------------------------------------------------------------------
Step ==
  \/ UpdateRow \/ UpdateEnd
  \/ SelectRow \/ SelectResume \/ SelectEnd
  \/ DeleteRow \/ DeleteSkipBlock \/ DeleteCompactBlock \/ DeleteEnd

Next ==
  \/ \E v \in Values : Insert(v)
  \/ \E S \in SUBSET Values :
       \/ SelectStart(S) \/ DeleteStart(S)
       \/ \E v \in Values : UpdateStart(S, v)
  \/ Step

(* A call runs until it returns; nobody has to make one.                   *)
Spec == Init /\ [][Next]_vars /\ WF_vars(Step)

-----------------------------------------------------------------------------
(* Links and offsets stay inside the file and its pages.                   *)
TypeOK ==
  /\ db.first_clean_block \in Blocks /\ db.block_num \in 4 .. MaxBlocks + 1
  /\ tb.first_record_block_id \in Blocks /\ tb.last_record_block_id \in Blocks
  /\ tb.num_rows \in 0 .. MaxRows
  /\ next_id \in [Blocks -> Blocks] /\ offset \in [Blocks -> 0 .. Slots]
  /\ run.op \in {"idle", "select", "full", "update", "delete"}

(* Between two calls every block of the file is on the table's chain or on *)
(* the free list, and on one of them only (pager.c:291-297).               *)
BlocksOnce ==
  run.op = "idle" =>
    LET used == Range(TableBlocks)
    IN  /\ used \cap FreeChain = {}
        /\ used \cup FreeChain = 2 .. db.block_num - 1

(* Between two calls num_rows, which bounds the loops of update and delete,*)
(* is the number of rows on the chain, which select walks.                 *)
RowsCounted == run.op = "idle" => tb.num_rows = Len(TableRows)

(* All the calls of one select together return every row the conditions    *)
(* name, once and in order (query.c:634, 714-716).                         *)
SelectExact ==
  run.op = "select" /\ ~SelectMore =>
    run.got = Chosen(TableRows, Len(TableRows), run.cond)

(* A call returns (query.c:647, 939, 1021).                                *)
Returns == run.op # "idle" ~> run.op = "idle"

Store == INSTANCE RowStore WITH content <- held

(* Insert, update and delete change the rows they name and no other.       *)
RowsKept == Store!Spec
=============================================================================
