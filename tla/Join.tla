--------------------------------- MODULE Join ---------------------------------
(***************************************************************************)
(* The inner join of db/query.c: for each row of the left table all rows   *)
(* of the right one, with a return as soon as the buffer is full.  The     *)
(* caller (execute_query in transport/server_transport.c) writes the       *)
(* buffer and calls again with the two places the last call left, until    *)
(* the left one is 0.                                                      *)
(*                                                                         *)
(* A table is the sequence of its blocks, a block the sequence of the keys *)
(* of its rows; offsets count rows, and blocks are numbered in their       *)
(* chain.  The tables do not change during a join.                         *)
(***************************************************************************)
EXTENDS Integers, Sequences, FiniteSets

CONSTANTS
  Tables,    \* sequences of blocks, a block a sequence of keys
  Conds,     \* sets of keys: the rows that meet the conditions of the query
  Rooms,     \* rows that fit in the buffer
  BlockSize  \* more than the rows of any block

(* Only a table without rows has a block without rows: its first one.      *)
ASSUME JoinAssumption ==
  /\ BlockSize \in Nat
  /\ \A t \in Tables :
       /\ Len(t) \in Nat \ {0}
       /\ \A b \in 1 .. Len(t) : Len(t[b]) \in Nat /\ Len(t[b]) < BlockSize
       /\ Len(t) > 1 => \A b \in 1 .. Len(t) : Len(t[b]) > 0
  /\ \A n \in Rooms : n \in Nat \ {0}

VARIABLES
  left, right, cond, room,          \* what the caller asks
  left_block_off, right_block_off,  \* where the last call stopped
  l, r,                             \* the next row of each table: [blk, off]
  row,                              \* the left row being joined
  used,                             \* rows in the buffer
  answer,                           \* the pairs of rows written so far
  pc                                \* "call", "left", "right", "return" or "done"

vars == <<left, right, cond, room, left_block_off, right_block_off,
          l, r, row, used, answer, pc>>
-----------------------------------------------------------------------------
(* A place in a table is a cursor; off rows of the block are behind it.    *)
Cursor(b, o) == [blk |-> b, off |-> o]

(* Mutant: only the block the cursor is in is read.                        *)
MoreInBlock(t, c) == c.off < Len(t[c.blk])

More(t, c) == c.blk # Len(t) \/ c.off < Len(t[c.blk])

(* The row the cursor comes to, and with it the cursor behind that row.    *)
Step(t, c) ==
  IF c.off >= Len(t[c.blk]) THEN Cursor(c.blk + 1, 1) ELSE Cursor(c.blk, c.off + 1)

CodedBlock(c) == c.blk * BlockSize    \* mutant: the block is read again

Coded(c) == c.off + c.blk * BlockSize

StartNoMod(block_off) ==              \* mutant: the block is left in the offset
  IF block_off = 0 THEN Cursor(1, 0) ELSE Cursor(block_off \div BlockSize, block_off)

Start(block_off) ==
  IF block_off = 0 THEN Cursor(1, 0)
  ELSE Cursor(block_off \div BlockSize, block_off % BlockSize)

Init ==
  /\ left \in Tables /\ right \in Tables
  /\ cond \in Conds /\ room \in Rooms
  /\ left_block_off = 0 /\ right_block_off = 0
  /\ l = Cursor(1, 0) /\ r = Cursor(1, 0) /\ row = Cursor(1, 0)
  /\ used = 0 /\ answer = <<>>
  /\ pc = "call"

asked == <<left, right, cond, room>>

Call ==
  /\ pc = "call"
  /\ l' = Start(left_block_off)
  /\ used' = 0
  /\ pc' = "left"
  /\ UNCHANGED <<asked, left_block_off, right_block_off, r, row, answer>>

LeftRow ==
  /\ pc = "left" /\ More(left, l)
  /\ l' = Step(left, l)
  /\ row' = Step(left, l)
  /\ r' = Start(right_block_off)
  /\ pc' = "right"
  /\ UNCHANGED <<asked, left_block_off, right_block_off, used, answer>>

LeftAtEndKept == left_block_off       \* mutant: it is not set to 0

LeftAtEnd == 0

LeftEnd ==
  /\ pc = "left" /\ ~More(left, l)
  /\ left_block_off' = LeftAtEnd
  /\ pc' = "return"
  /\ UNCHANGED <<asked, right_block_off, l, r, row, used, answer>>

KeyAt(t, c) == t[c.blk][c.off]

Joined(lc, rc) ==
  /\ KeyAt(left, lc) = KeyAt(right, rc)
  /\ KeyAt(left, lc) \in cond

RightRow ==
  LET at == Step(right, r)
      hit == Joined(row, at)
      full == hit /\ used + 1 >= room
  IN
  /\ pc = "right" /\ More(right, r)
  /\ r' = at
  /\ answer' = IF hit THEN Append(answer, <<row, at>>) ELSE answer
  /\ used' = IF hit THEN used + 1 ELSE used
  /\ left_block_off' = IF full THEN Coded(l) ELSE left_block_off
  /\ right_block_off' = IF full THEN Coded(at) ELSE right_block_off
  /\ pc' = IF full THEN "return" ELSE "right"
  /\ UNCHANGED <<asked, l, row>>

RightEnd ==
  /\ pc = "right" /\ ~More(right, r)
  /\ pc' = "left"
  /\ UNCHANGED <<asked, left_block_off, right_block_off, l, r, row, used, answer>>

Return ==
  /\ pc = "return"
  /\ pc' = IF left_block_off # 0 THEN "call" ELSE "done"
  /\ UNCHANGED <<asked, left_block_off, right_block_off, l, r, row, used, answer>>

Next == Call \/ LeftRow \/ LeftEnd \/ RightRow \/ RightEnd \/ Return

(* One thread runs the query to its end.                                   *)
Spec == Init /\ [][Next]_vars /\ WF_vars(Next)

-----------------------------------------------------------------------------
Places(t) == {Cursor(b, o) : b \in 1 .. Len(t), o \in 0 .. BlockSize - 1}

RowsOf(t) == {c \in Places(t) : c.off \in 1 .. Len(t[c.blk])}

Before(c, d) == c.blk < d.blk \/ (c.blk = d.blk /\ c.off < d.off)

Matches == {p \in RowsOf(left) \X RowsOf(right) : Joined(p[1], p[2])}

Answered == {answer[i] : i \in 1 .. Len(answer)}

(* The cursors stay in their tables and the buffer is never overfull.      *)
TypeOK ==
  /\ l \in Places(left) /\ r \in Places(right) /\ row \in Places(left)
  /\ used \in 0 .. room
  /\ pc \in {"call", "left", "right", "return", "done"}

(* However often the buffer fills, the pairs are ones that match, each at  *)
(* most once, with the left rows in order (query.c:770-925).               *)
JoinSound ==
  /\ Answered \subseteq Matches
  /\ \A i, j \in 1 .. Len(answer) : i < j =>
       \/ Before(answer[i][1], answer[j][1])
       \/ answer[i][1] = answer[j][1] /\ Before(answer[i][2], answer[j][2])

(* An answer that fits in one buffer has every pair, whatever blocks the   *)
(* two tables are cut into (query.c:770-793).                              *)
JoinExactInOneCall ==
  pc = "done" /\ Cardinality(Matches) <= room => Answered = Matches

(* The caller's loop comes to its end (server_transport.c:1083-1087).      *)
Returns == <>(pc = "done")

(* What a join is asked for (queries.txt:74-79): the rows of both tables   *)
(* whose columns are equal, all of them, however long the answer is.       *)
JoinExact == pc = "done" => Answered = Matches
===============================================================================
