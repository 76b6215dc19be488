---------------------------- MODULE CallersProofs ----------------------------
(***************************************************************************)
(* The block file.  First the pager by itself: its chains stay well formed *)
(* under every sequence of calls, for all sizes of the file, of its blocks *)
(* and of the schema.  Then the programs that call the pager: what holds   *)
(* of the pager holds whoever calls it, also when testing_creation writes  *)
(* the head of the free list a second time.                                *)
(***************************************************************************)
EXTENDS Callers, ChainProofs, SequenceTheorems

(* A table and a page of tables that end before the block does.            *)
Fit == {tb \in Table : tb.offset + RealSize(tb) < BlockSize}

Page(page, to) ==
  /\ page \in [DOMAIN page -> Fit]
  /\ DOMAIN page \subseteq SizeOfBlock .. to - 1
  /\ \A p \in DOMAIN page : End(page, p) < BlockSize

(* No descriptor reaches behind its block, where it is or where it will be *)
(* written back.                                                           *)
Fitting ==
  /\ \A b \in Blocks : Page(tables[b], offset[b])
  /\ creating # NoTable => creating \in Fit

(* What holds even of a table that never gets its record block.            *)
FileInv ==
  /\ TypeOK
  /\ Fitting
  /\ SchemaChain
  /\ FreeChain
  /\ BlocksAccounted

(* The inductive invariant: an operation finds the free list and the       *)
(* schema chain apart, and the blocks it links rows to apart from both.    *)
IInv == FileInv /\ RowsGoToRecords

-----------------------------------------------------------------------------
(* A set of blocks is finite.                                              *)
LEMMA BlocksFinite ==
  /\ IsFiniteSet(Blocks)
  /\ \A S \in SUBSET Blocks : IsFiniteSet(S)
<1>1. IsFiniteSet(Blocks)
  BY FS_Interval, PagerAssumption DEF Blocks
<1> QED
  BY <1>1, FS_Subset

(* How long a descriptor is.                                               *)
LEMMA Sized ==
  ASSUME NEW tb \in Table
  PROVE  /\ RealSize(tb) \in Nat /\ RealSize(tb) >= SizeOfHead
         /\ SizeOfBlock + RealSize(tb) < BlockSize
         /\ tb.offset \in Places /\ tb.offset \in Nat /\ tb.offset >= SizeOfBlock
         /\ tb.block_id \in Blocks
<1>1. /\ tb.num_columns \in ColumnCounts /\ tb.offset \in Places
      /\ tb.block_id \in Blocks
  BY DEF Table
<1>2. tb.num_columns \in Nat /\ SizeOfBlock + SizeOfHead + 40 * tb.num_columns < BlockSize
  BY <1>1, PagerAssumption
<1>3. BlockSize \in Nat
  BY PagerAssumption
<1>4. PICK c \in Nat : c = tb.num_columns
  BY <1>2
<1>5. SizeOfBlock + SizeOfHead + 40 * c < BlockSize /\ RealSize(tb) = SizeOfHead + 40 * c
  BY <1>2, <1>4 DEF RealSize
<1>6. 40 * c \in Nat
  OBVIOUS
<1>7. /\ RealSize(tb) \in Nat /\ RealSize(tb) >= SizeOfHead
      /\ SizeOfBlock + RealSize(tb) < BlockSize
  BY <1>5, <1>6 DEF SizeOfHead, SizeOfBlock
<1>8. tb.offset \in Nat /\ tb.offset >= SizeOfBlock
  BY <1>1, <1>3 DEF Places, SizeOfBlock
<1> QED BY <1>1, <1>7, <1>8

(* A place of a page is a byte of its block.                               *)
LEMMA OfPage ==
  ASSUME NEW page, NEW to \in Nat, Page(page, to), NEW p \in DOMAIN page
  PROVE  /\ page[p] \in Fit /\ page[p] \in Table
         /\ p \in Nat /\ SizeOfBlock <= p /\ p < to
         /\ End(page, p) = p + RealSize(page[p]) /\ End(page, p) < BlockSize
         /\ RealSize(page[p]) \in Nat /\ SizeOfHead <= RealSize(page[p])
<1>1. page[p] \in Fit /\ page[p] \in Table
  BY DEF Page, Fit
<1>2. p \in SizeOfBlock .. to - 1 /\ End(page, p) < BlockSize
  BY DEF Page
<1>3. p \in Nat /\ SizeOfBlock <= p /\ p < to
  BY <1>2 DEF SizeOfBlock
<1>4. RealSize(page[p]) \in Nat /\ RealSize(page[p]) >= SizeOfHead
  BY <1>1, Sized
<1>5. SizeOfHead <= RealSize(page[p])
  BY <1>4 DEF SizeOfHead
<1> QED BY <1>1, <1>2, <1>3, <1>4, <1>5 DEF End

(* The file initialize_schema writes (pager.c:133-154) has the invariant.  *)
LEMMA InitInv == Init => IInv
<1> SUFFICES ASSUME Init PROVE IInv
  OBVIOUS
<1> USE PagerAssumption
<1>1. 1 \in Blocks /\ 2 \in Blocks /\ MaxBlocks \in Nat
  BY DEF Blocks
<1>2. SchemaBlocks = {1} /\ FreeBlocks = {2} /\ RecordBlocks = {}
  BY <1>1 DEF Init, SchemaBlocks, FreeBlocks, RecordBlocks
<1>3. ASSUME NEW x \in Blocks PROVE Chain(next_id, {x}, x, x)
  <2>1. Cardinality({x}) = 1
    BY FS_Singleton
  <2> DEFINE pos == [b \in {x} |-> 1]
  <2>2. pos \in [{x} -> 1 .. Cardinality({x})] /\ Numbers(pos, next_id, {x}, x, x)
    BY <2>1 DEF Numbers
  <2> QED
    BY <2>2, <1>3 DEF Chain, Init
<1>4. \A b \in Blocks : DOMAIN tables[b] = {} /\ tables[b] = [p \in {} |-> NoTable]
  BY DEF Init
<1>5. offset \in [Blocks -> Places]
  <2>1. SizeOfBlock \in Places
    BY PagerAssumption DEF SizeOfBlock, Places
  <2> QED BY <2>1 DEF Init
<1>6. /\ db \in Header /\ header \in Header /\ type \in [Blocks -> BlockTypes]
      /\ next_id \in [Blocks -> Nat] /\ DOMAIN tables = Blocks /\ rows \in [Blocks -> Nat]
      /\ creating = NoTable
  BY <1>1 DEF Init, NewHeader, Header, Blocks, BlockTypes
<1>7. \A b \in Blocks : /\ tables[b] \in [DOMAIN tables[b] -> Table]
                        /\ DOMAIN tables[b] \subseteq SizeOfBlock .. offset[b] - 1
  BY <1>4
<1>8. TypeOK
  BY <1>2, <1>5, <1>6, <1>7 DEF TypeOK
<1>9. Fitting
  BY <1>4, <1>6 DEF Fitting, Page
<1>10. SchemaChain /\ FreeChain
  BY <1>1, <1>2, <1>3 DEF SchemaChain, FreeChain, Init, NewHeader
<1>11. BlocksAccounted
  BY <1>1 DEF Init, BlocksAccounted, NewHeader, Blocks
<1>12. RowsGoToRecords
  BY <1>4, <1>6 DEF RowsGoToRecords
<1> QED
  BY <1>8, <1>9, <1>10, <1>11, <1>12 DEF IInv, FileInv


-----------------------------------------------------------------------------
(* Popping the head of the free list.                                      *)

(* The head of the free list is FREE, and links only to FREE blocks.       *)
LEMMA PoppedIsFree ==
  ASSUME FileInv, CanPop
  PROVE  /\ Popped \in FreeBlocks
         /\ Popped \in Blocks
         /\ Grows => /\ db.block_num \in Blocks
                     /\ type[db.block_num] = "NONE"
                     /\ FreeBlocks = {Popped}
         /\ ~Grows => next_id[Popped] \in FreeBlocks
<1>1. PICK tail \in FreeBlocks :
         Chain(next_id, FreeBlocks, db.first_clean_block, tail)
  BY DEF FileInv, FreeChain
<1>2. Popped \in FreeBlocks /\ Popped \in Blocks
  BY <1>1 DEF Chain, Popped, FreeBlocks
<1>3. ASSUME Grows
      PROVE  db.block_num \in Blocks /\ type[db.block_num] = "NONE"
  BY <1>3 DEF FileInv, BlocksAccounted, CanPop, Blocks
<1>4. IsFiniteSet(FreeBlocks)
  BY BlocksFinite DEF FreeBlocks
<1>5. ASSUME Grows PROVE FreeBlocks = {Popped}
  <2>1. Popped = tail
    BY <1>1, <1>2, <1>4, <1>5, ChainSuccessor DEF Grows, Popped
  <2> QED
    BY <2>1, <1>1, <1>4, ChainSingleton DEF Popped
<1>6. ASSUME ~Grows PROVE next_id[Popped] \in FreeBlocks
  <2>1. Popped # tail
    BY <1>1, <1>6 DEF Chain, Grows
  <2> QED
    BY <2>1, <1>1, <1>2, <1>4, ChainSuccessor DEF Popped
<1> QED
  BY <1>2, <1>3, <1>5, <1>6

(* What popping does to the sets of blocks.                                *)
LEMMA PoppedSets ==
  ASSUME FileInv, CanPop, NEW t \in {"SCHEMA", "RECORD"}, type' = PoppedType(t)
  PROVE  /\ type' \in [Blocks -> BlockTypes]
         /\ FreeBlocks' = IF Grows THEN {db.block_num} ELSE FreeBlocks \ {Popped}
         /\ SchemaBlocks' = IF t = "SCHEMA" THEN SchemaBlocks \cup {Popped}
                            ELSE SchemaBlocks
         /\ RecordBlocks \subseteq RecordBlocks'
         /\ t = "RECORD" => Popped \in RecordBlocks'
         /\ Popped \notin SchemaBlocks /\ Popped \notin RecordBlocks
<1>1. type \in [Blocks -> BlockTypes]
  BY DEF FileInv, TypeOK
<1>2. type[Popped] = "FREE" /\ Popped \in Blocks
  BY PoppedIsFree DEF FreeBlocks
<1>3. \A b \in Blocks :
        type'[b] = IF b = Popped THEN t
                   ELSE IF Grows /\ b = db.block_num THEN "FREE" ELSE type[b]
  BY DEF PoppedType
<1>4. Grows => /\ db.block_num \in Blocks /\ type[db.block_num] = "NONE"
               /\ \A b \in Blocks : type[b] = "FREE" => b = Popped
  BY PoppedIsFree DEF FreeBlocks
<1>5. type' \in [Blocks -> BlockTypes]
  BY <1>1 DEF PoppedType, BlockTypes
<1>6. FreeBlocks' = IF Grows THEN {db.block_num} ELSE FreeBlocks \ {Popped}
  BY <1>2, <1>3, <1>4 DEF FreeBlocks
<1>7. SchemaBlocks' = IF t = "SCHEMA" THEN SchemaBlocks \cup {Popped}
                      ELSE SchemaBlocks
  BY <1>2, <1>3, <1>4 DEF SchemaBlocks
<1>8. RecordBlocks \subseteq RecordBlocks' /\ (t = "RECORD" => Popped \in RecordBlocks')
  BY <1>2, <1>3, <1>4 DEF RecordBlocks
<1> QED
  BY <1>2, <1>5, <1>6, <1>7, <1>8 DEF SchemaBlocks, RecordBlocks

(* After a pop the free list is well formed and the file has no hole.      *)
LEMMA PoppedFreeChain ==
  ASSUME FileInv, CanPop, NEW t \in {"SCHEMA", "RECORD"}, type' = PoppedType(t),
         db'.first_clean_block = PoppedDb.first_clean_block,
         db'.block_num = PoppedDb.block_num,
         \A c \in FreeBlocks' : next_id'[c] = GrownNext[c]
  PROVE  FreeChain' /\ BlocksAccounted'
<1>1. Popped \in Blocks /\ Popped \in FreeBlocks
  BY PoppedIsFree
<1>2. db \in Header /\ MaxBlocks \in Nat
  BY PagerAssumption DEF FileInv, TypeOK
<1>3. FreeChain'
  <2>1. CASE Grows
    <3> DEFINE g == db.block_num
    <3>1. FreeBlocks' = {g} /\ g \in Blocks
      BY <2>1, PoppedSets, PoppedIsFree
    <3>2. db'.first_clean_block = g
      BY <2>1, <1>2 DEF PoppedDb, Header
    <3>3. next_id'[g] = g
      BY <2>1, <3>1 DEF GrownNext
    <3>4. Cardinality({g}) = 1
      BY FS_Singleton
    <3> DEFINE pos == [b \in {g} |-> 1]
    <3>5. pos \in [{g} -> 1 .. Cardinality({g})] /\ Numbers(pos, next_id', {g}, g, g)
      BY <3>4 DEF Numbers
    <3>6. Chain(next_id', {g}, g, g)
      BY <3>3, <3>5 DEF Chain
    <3> QED
      BY <3>1, <3>2, <3>6 DEF FreeChain
  <2>2. CASE ~Grows
    <3>1. PICK tail \in FreeBlocks : Chain(next_id, FreeBlocks, Popped, tail)
      BY DEF FileInv, FreeChain, Popped
    <3>2. FreeBlocks' = FreeBlocks \ {Popped}
      BY <2>2, PoppedSets
    <3>3. db'.first_clean_block = next_id[Popped]
      BY <2>2, <1>2 DEF PoppedDb, Header
    <3>4. \A c \in FreeBlocks \ {Popped} : next_id'[c] = next_id[c]
      BY <2>2, <3>2 DEF GrownNext, FreeBlocks
    <3>5. Popped # tail
      BY <2>2, <3>1 DEF Grows, Chain
    <3>6. IsFiniteSet(FreeBlocks)
      BY BlocksFinite DEF FreeBlocks
    <3>7. Chain(next_id', FreeBlocks \ {Popped}, next_id[Popped], tail)
      BY <1>1, <3>1, <3>4, <3>5, <3>6, ChainUnlink
    <3> QED
      BY <3>2, <3>3, <3>7 DEF FreeChain, Chain
  <2> QED BY <2>1, <2>2
<1>4. BlocksAccounted'
  <2>1. /\ db.block_num \in 1 .. MaxBlocks + 1
        /\ \A b \in Blocks : type[b] = "NONE" <=> b >= db.block_num
    BY DEF FileInv, BlocksAccounted
  <2>2. \A b \in Blocks :
          type'[b] = IF b = Popped THEN t
                     ELSE IF Grows /\ b = db.block_num THEN "FREE" ELSE type[b]
    BY DEF PoppedType
  <2>3. type[Popped] = "FREE"
    BY <1>1 DEF FreeBlocks
  <2>4. CASE Grows
    <3>1. db'.block_num = db.block_num + 1 /\ db.block_num \in Blocks
      BY <2>4, <1>2, PoppedIsFree DEF PoppedDb, Header
    <3> QED
      BY <3>1, <2>1, <2>2, <2>3, <2>4, <1>1, <1>2 DEF BlocksAccounted, Blocks
  <2>5. CASE ~Grows
    <3>1. db'.block_num = db.block_num
      BY <2>5, <1>2 DEF PoppedDb, Header
    <3> QED
      BY <3>1, <2>1, <2>2, <2>3, <2>5, <1>1 DEF BlocksAccounted
  <2> QED BY <2>4, <2>5
<1> QED
  BY <1>3, <1>4

-----------------------------------------------------------------------------
(* Small facts about the state.                                            *)

(* The header after a pop keeps its ranges.                                *)
LEMMA PoppedDbType ==
  ASSUME FileInv, CanPop
  PROVE  /\ PoppedDb \in Header
         /\ PoppedDb.schema_first_block_id = db.schema_first_block_id
         /\ PoppedDb.schema_last_block_id = db.schema_last_block_id
<1>1. db \in Header /\ next_id[Popped] \in Nat
  BY PoppedIsFree DEF FileInv, TypeOK
<1>2. CASE Grows
  <2>1. PoppedDb = [db EXCEPT !.first_clean_block = db.block_num,
                              !.block_num = db.block_num + 1]
    BY <1>2 DEF PoppedDb
  <2>2. /\ db = [first_clean_block |-> db.first_clean_block,
                 block_num |-> db.block_num,
                 schema_first_block_id |-> db.schema_first_block_id,
                 schema_last_block_id |-> db.schema_last_block_id]
        /\ db.block_num \in Nat /\ db.block_num + 1 \in Nat
        /\ db.schema_first_block_id \in Nat /\ db.schema_last_block_id \in Nat
    BY <1>1 DEF Header
  <2>3. PoppedDb = [first_clean_block |-> db.block_num,
                    block_num |-> db.block_num + 1,
                    schema_first_block_id |-> db.schema_first_block_id,
                    schema_last_block_id |-> db.schema_last_block_id]
    BY <2>1, <2>2
  <2> QED
    BY <2>2, <2>3 DEF Header
<1>3. CASE ~Grows
  <2>1. PoppedDb = [db EXCEPT !.first_clean_block = next_id[Popped]]
    BY <1>3 DEF PoppedDb
  <2> QED
    BY <1>1, <2>1 DEF Header
<1> QED
  BY <1>2, <1>3

(* The last schema block is a SCHEMA block of the file.                    *)
LEMMA LastSchemaBlock ==
  ASSUME FileInv
  PROVE  /\ db.schema_last_block_id \in SchemaBlocks
         /\ db.schema_first_block_id \in SchemaBlocks
         /\ db.schema_last_block_id \in Blocks
         /\ db.schema_first_block_id \in Blocks
BY DEF FileInv, SchemaChain, Chain, SchemaBlocks

(* The table a step leaves half created is typed, and is one.              *)
LEMMA NewTableType ==
  ASSUME NEW n \in Names, NEW c \in ColumnCounts, NEW b \in Blocks, NEW p \in Places
  PROVE  /\ NewTable(n, c, b, p) \in Table
         /\ NewTable(n, c, b, p) # NoTable
         /\ NewTable(n, c, b, p).block_id = b
         /\ NewTable(n, c, b, p).offset = p
BY PagerAssumption DEF NewTable, Table

-----------------------------------------------------------------------------
(* Writing descriptors over a page.                                        *)

(* As it was, or with columns that are no longer its own.                  *)
Alike(a, tb) == a = tb \/ a = [tb EXCEPT !.columns = "overwritten"]

LEMMA AlikeSame ==
  ASSUME NEW tb \in Table, NEW a, Alike(a, tb)
  PROVE  /\ a \in Table /\ RealSize(a) = RealSize(tb)
         /\ a.block_id = tb.block_id /\ a.offset = tb.offset /\ a.name = tb.name
         /\ a.last_record_block_id = tb.last_record_block_id
         /\ tb \in Fit => a \in Fit
<1>1. /\ a \in Table /\ a.num_columns = tb.num_columns
      /\ a.block_id = tb.block_id /\ a.offset = tb.offset /\ a.name = tb.name
      /\ a.last_record_block_id = tb.last_record_block_id
  BY DEF Alike, Table
<1>2. RealSize(a) = RealSize(tb)
  BY <1>1 DEF RealSize
<1> QED BY <1>1, <1>2 DEF Fit

(* What is on the page afterwards.                                         *)
LEMMA OverIs ==
  ASSUME NEW page, NEW new
  PROVE  /\ DOMAIN new \subseteq DOMAIN Over(page, new)
         /\ DOMAIN Over(page, new) \subseteq DOMAIN page \cup DOMAIN new
         /\ \A p \in DOMAIN new : Over(page, new)[p] = new[p]
         /\ \A p \in DOMAIN Over(page, new) \ DOMAIN new :
              p \in DOMAIN page /\ Alike(Over(page, new)[p], page[p])
         /\ Over(page, new) = [p \in DOMAIN Over(page, new) |-> Over(page, new)[p]]
BY DEF Over, Alike

LEMMA OverPage ==
  ASSUME NEW from \in Nat, NEW to \in Nat, from <= to,
         NEW page, Page(page, from), NEW new, Page(new, to)
  PROVE  Page(Over(page, new), to)
<1> DEFINE all == Over(page, new)
<1>1. /\ DOMAIN new \subseteq DOMAIN all
      /\ DOMAIN all \subseteq DOMAIN page \cup DOMAIN new
      /\ \A p \in DOMAIN new : all[p] = new[p]
      /\ \A p \in DOMAIN all \ DOMAIN new : p \in DOMAIN page /\ Alike(all[p], page[p])
      /\ all = [p \in DOMAIN all |-> all[p]]
  BY OverIs
<1> HIDE DEF all
<1>2. ASSUME NEW p \in DOMAIN all
      PROVE  /\ all[p] \in Fit /\ p \in SizeOfBlock .. to - 1 /\ End(all, p) < BlockSize
  <2>1. CASE p \in DOMAIN new
    BY <1>1, <2>1 DEF Page, End
  <2>2. CASE p \notin DOMAIN new
    <3>1. p \in DOMAIN page /\ Alike(all[p], page[p])
      BY <1>1, <2>2
    <3>2. page[p] \in Fit /\ page[p] \in Table /\ End(page, p) < BlockSize
      BY <3>1 DEF Page, Fit
    <3>3. all[p] \in Fit /\ RealSize(all[p]) = RealSize(page[p])
      BY <3>1, <3>2, AlikeSame
    <3>4. p \in SizeOfBlock .. from - 1
      BY <3>1 DEF Page
    <3>5. p \in SizeOfBlock .. to - 1
      BY <3>4 DEF SizeOfBlock
    <3> QED BY <3>2, <3>3, <3>5 DEF End
  <2> QED BY <2>1, <2>2
<1>3. all \in [DOMAIN all -> Fit]
  BY <1>1, <1>2
<1>4. Page(all, to)
  BY <1>2, <1>3 DEF Page
<1> QED BY <1>4 DEF all

(* One descriptor is a page.                                               *)
LEMMA OneOnPage ==
  ASSUME NEW tb \in Fit, NEW to \in Nat, tb.offset < to
  PROVE  /\ Page(At(tb.offset, tb), to)
         /\ DOMAIN At(tb.offset, tb) = {tb.offset} /\ At(tb.offset, tb)[tb.offset] = tb
<1> DEFINE page == At(tb.offset, tb)
<1>1. page \in [{tb.offset} -> Fit] /\ DOMAIN page = {tb.offset} /\ page[tb.offset] = tb
  BY DEF At
<1>2. tb.offset \in SizeOfBlock .. to - 1 /\ tb.offset + RealSize(tb) < BlockSize
  <2>1. tb \in Table
    BY DEF Fit
  <2>2. tb.offset \in Nat /\ tb.offset >= SizeOfBlock
    BY <2>1, Sized
  <2> QED BY <2>2 DEF Fit, SizeOfBlock
<1> QED BY <1>1, <1>2 DEF Page, End

(* WriteTable: other pages stay, and on its own every descriptor is the    *)
(* one written or stays where it was.                                      *)
LEMMA Written ==
  ASSUME FileInv, NEW tb \in Fit, tables' = WriteTable(tb), offset' = offset
  PROVE  /\ DOMAIN tables' = Blocks
         /\ \A b \in Blocks : Page(tables'[b], offset[b])
         /\ \A b \in Blocks : b # tb.block_id => tables'[b] = tables[b]
         /\ \A b \in Blocks : \A p \in DOMAIN tables'[b] :
              \/ b = tb.block_id /\ p = tb.offset /\ tables'[b][p] = tb
              \/ /\ ~(b = tb.block_id /\ p = tb.offset)
                 /\ p \in DOMAIN tables[b] /\ Alike(tables'[b][p], tables[b][p])
         /\ tb.offset < offset[tb.block_id] =>
              tb.offset \in DOMAIN tables'[tb.block_id]
<1> DEFINE h == tb.block_id
           page == Over(tables[h], At(tb.offset, tb))
           new == [p \in {q \in DOMAIN page : q < offset[h]} |-> page[p]]
<1>1. /\ tb \in Table /\ h \in Blocks /\ tb.offset \in Nat /\ tb.offset \in Places
      /\ RealSize(tb) \in Nat
  BY Sized DEF Fit
<1>2. /\ DOMAIN tables = Blocks /\ offset \in [Blocks -> Places]
      /\ \A b \in Blocks : Page(tables[b], offset[b])
  BY DEF FileInv, TypeOK, Fitting
<1>3. BlockSize \in Nat /\ tb.offset < BlockSize
  BY <1>1, PagerAssumption DEF Fit
<1>4. offset[h] \in Nat /\ offset[h] <= BlockSize
  BY <1>1, <1>2, PagerAssumption DEF Places, SizeOfBlock
<1>5. Page(tables[h], BlockSize)
  <2>1. Page(tables[h], offset[h])
    BY <1>1, <1>2
  <2>2. SizeOfBlock .. offset[h] - 1 \subseteq SizeOfBlock .. BlockSize - 1
    BY <1>3, <1>4 DEF SizeOfBlock
  <2> QED BY <2>1, <2>2 DEF Page
<1>6. /\ Page(At(tb.offset, tb), BlockSize)
      /\ DOMAIN At(tb.offset, tb) = {tb.offset} /\ At(tb.offset, tb)[tb.offset] = tb
  BY <1>3, OneOnPage
<1>7. Page(page, BlockSize)
  BY <1>3, <1>5, <1>6, OverPage
<1>8. /\ tb.offset \in DOMAIN page /\ page[tb.offset] = tb
      /\ \A p \in DOMAIN page : p # tb.offset =>
           p \in DOMAIN tables[h] /\ Alike(page[p], tables[h][p])
  <2>1. /\ DOMAIN At(tb.offset, tb) \subseteq DOMAIN page
        /\ \A p \in DOMAIN At(tb.offset, tb) : page[p] = At(tb.offset, tb)[p]
        /\ \A p \in DOMAIN page \ DOMAIN At(tb.offset, tb) :
             p \in DOMAIN tables[h] /\ Alike(page[p], tables[h][p])
    BY OverIs
  <2> QED BY <1>6, <2>1
<1>9. tables' = [tables EXCEPT ![h] = new]
  BY DEF WriteTable
<1> HIDE DEF page
<1>10. /\ DOMAIN new = {q \in DOMAIN page : q < offset[h]}
       /\ \A p \in DOMAIN new : new[p] = page[p]
       /\ new = [p \in DOMAIN new |-> new[p]]
  OBVIOUS
<1> HIDE DEF new
<1>11. Page(new, offset[h])
  <2>1. ASSUME NEW p \in DOMAIN new
        PROVE  /\ new[p] \in Fit /\ End(new, p) < BlockSize
               /\ p \in SizeOfBlock .. offset[h] - 1
    <3>1. p \in DOMAIN page /\ p < offset[h] /\ new[p] = page[p]
      BY <1>10
    <3>2. p \in SizeOfBlock .. BlockSize - 1 /\ page[p] \in Fit /\ End(page, p) < BlockSize
      BY <1>7, <3>1 DEF Page
    <3>3. p \in SizeOfBlock .. offset[h] - 1
      BY <1>3, <1>4, <3>1, <3>2 DEF SizeOfBlock
    <3> QED BY <3>1, <3>2, <3>3 DEF End
  <2>2. new \in [DOMAIN new -> Fit]
    BY <1>10, <2>1
  <2> QED BY <2>1, <2>2 DEF Page
<1>12. /\ DOMAIN tables' = Blocks /\ tables'[h] = new
       /\ \A b \in Blocks : b # h => tables'[b] = tables[b]
  BY <1>1, <1>2, <1>9
<1>13. \A b \in Blocks : Page(tables'[b], offset[b])
  BY <1>2, <1>11, <1>12
<1>14. ASSUME NEW b \in Blocks, NEW p \in DOMAIN tables'[b]
       PROVE  \/ b = h /\ p = tb.offset /\ tables'[b][p] = tb
              \/ /\ ~(b = h /\ p = tb.offset)
                 /\ p \in DOMAIN tables[b] /\ Alike(tables'[b][p], tables[b][p])
  <2>1. CASE b = h
    BY <1>8, <1>10, <1>12, <2>1
  <2>2. CASE b # h
    BY <1>12, <2>2 DEF Alike
  <2> QED BY <2>1, <2>2
<1>15. tb.offset < offset[h] => tb.offset \in DOMAIN tables'[h]
  BY <1>8, <1>10, <1>12
<1> QED BY <1>12, <1>13, <1>14, <1>15

(* What fits keeps its type.                                               *)
LEMMA FittingType ==
  ASSUME DOMAIN tables = Blocks, Fitting
  PROVE  /\ \A b \in Blocks : /\ tables[b] \in [DOMAIN tables[b] -> Table]
                              /\ DOMAIN tables[b] \subseteq SizeOfBlock .. offset[b] - 1
         /\ creating = NoTable \/ creating \in Table
<1>1. ASSUME NEW b \in Blocks
      PROVE  /\ tables[b] \in [DOMAIN tables[b] -> Table]
             /\ DOMAIN tables[b] \subseteq SizeOfBlock .. offset[b] - 1
  <2>1. Page(tables[b], offset[b])
    BY DEF Fitting
  <2> QED BY <2>1 DEF Page, Fit
<1> QED BY <1>1 DEF Fitting, Fit

-----------------------------------------------------------------------------
(* insert_table_to_schema, in a last block with room for the descriptor.   *)
LEMMA InsertTableFits ==
  ASSUME FileInv, NEW tb \in Fit, creating = NoTable,
         tb.block_id = db.schema_last_block_id,
         tb.offset = offset[db.schema_last_block_id],
         creating' = tb,
         tables' = [tables EXCEPT ![db.schema_last_block_id] = Over(@, At(tb.offset, tb))],
         offset' = [offset EXCEPT ![db.schema_last_block_id] = @ + RealSize(tb)],
         UNCHANGED <<db, type, next_id, rows>>, header' = db'
  PROVE  FileInv' /\ (RowsGoToRecords => RowsGoToRecords')
<1> DEFINE last == db.schema_last_block_id
           new == Over(tables[last], At(tb.offset, tb))
<1>1. /\ last \in Blocks /\ DOMAIN tables = Blocks /\ offset \in [Blocks -> Places]
      /\ \A b \in Blocks : Page(tables[b], offset[b])
  BY LastSchemaBlock DEF FileInv, TypeOK, Fitting
<1>2. /\ tb \in Table /\ tb # NoTable /\ tb.offset \in Nat /\ tb.offset >= SizeOfBlock
      /\ RealSize(tb) \in Nat /\ RealSize(tb) >= SizeOfHead
      /\ tb.offset + RealSize(tb) < BlockSize
  BY Sized, PagerAssumption DEF Fit
<1> DEFINE to == tb.offset + RealSize(tb)
<1>3. /\ to \in Nat /\ tb.offset < to /\ tb.offset <= to /\ to \in Places
  BY <1>2, PagerAssumption DEF SizeOfHead, SizeOfBlock, Places
<1>4. /\ Page(At(tb.offset, tb), to)
      /\ DOMAIN At(tb.offset, tb) = {tb.offset} /\ At(tb.offset, tb)[tb.offset] = tb
  BY <1>3, OneOnPage
<1>5. Page(tables[last], tb.offset)
  BY <1>1
<1>6. Page(new, to)
  BY <1>2, <1>3, <1>4, <1>5, OverPage
<1>7. /\ tb.offset \in DOMAIN new /\ new[tb.offset] = tb
      /\ \A p \in DOMAIN new : p # tb.offset =>
           p \in DOMAIN tables[last] /\ Alike(new[p], tables[last][p])
  <2>1. /\ DOMAIN At(tb.offset, tb) \subseteq DOMAIN new
        /\ \A p \in DOMAIN At(tb.offset, tb) : new[p] = At(tb.offset, tb)[p]
        /\ \A p \in DOMAIN new \ DOMAIN At(tb.offset, tb) :
             p \in DOMAIN tables[last] /\ Alike(new[p], tables[last][p])
    BY OverIs
  <2> QED BY <1>4, <2>1
<1>8. tables' = [tables EXCEPT ![last] = new]
  OBVIOUS
<1> HIDE DEF new, to
<1>9. /\ DOMAIN tables' = Blocks /\ tables'[last] = new
      /\ \A b \in Blocks : b # last => tables'[b] = tables[b]
  BY <1>1, <1>8
<1>10. /\ offset' \in [Blocks -> Places] /\ offset'[last] = to
       /\ \A b \in Blocks : b # last => offset'[b] = offset[b]
  BY <1>1, <1>3 DEF to
<1>11. Fitting'
  BY <1>1, <1>6, <1>9, <1>10 DEF Fitting
<1>12. TypeOK'
  <2>1. DOMAIN tables' = Blocks /\ RecordBlocks' = RecordBlocks
    BY <1>9 DEF RecordBlocks
  <2> QED
    BY <1>2, <1>10, <1>11, <2>1, FittingType DEF FileInv, TypeOK, Fitting, Page, Fit
<1>13. SchemaChain' /\ FreeChain' /\ BlocksAccounted'
  BY DEF FileInv, SchemaChain, FreeChain, BlocksAccounted, SchemaBlocks, FreeBlocks
<1>14. ASSUME RowsGoToRecords PROVE RowsGoToRecords'
  <2>1. creating'.offset \in DOMAIN tables'[creating'.block_id]
    BY <1>7, <1>9
  <2>2. RecordBlocks' = RecordBlocks
    BY DEF RecordBlocks
  <2>3. ASSUME NEW b \in Blocks, NEW p \in DOMAIN tables'[b]
        PROVE  \/ IsBeingCreated(b, p)'
               \/ tables'[b][p].last_record_block_id \in RecordBlocks
    <3>1. CASE b = last /\ p = tb.offset
      BY <3>1, <1>2 DEF IsBeingCreated
    <3>2. CASE b = last /\ p # tb.offset
      <4>1. p \in DOMAIN tables[b] /\ Alike(tables'[b][p], tables[b][p])
        BY <3>2, <1>7, <1>9
      <4>2. tables[b][p] \in Table
        BY <4>1, <1>1 DEF Page, Fit
      <4>3. tables'[b][p].last_record_block_id = tables[b][p].last_record_block_id
        BY <4>1, <4>2, AlikeSame
      <4> QED BY <4>1, <4>3, <1>14 DEF RowsGoToRecords, IsBeingCreated
    <3>3. CASE b # last
      <4>1. tables'[b] = tables[b]
        BY <3>3, <1>9
      <4> QED BY <4>1, <1>14 DEF RowsGoToRecords, IsBeingCreated
    <3> QED BY <3>1, <3>2, <3>3
  <2> QED BY <2>1, <2>2, <2>3 DEF RowsGoToRecords
<1> QED
  BY <1>11, <1>12, <1>13, <1>14 DEF FileInv

(* insert_table_to_schema with a new last block.                           *)
LEMMA InsertTableGrows ==
  ASSUME FileInv, NEW tb \in Fit, creating = NoTable, CanPop,
         tb.block_id = Popped, tb.offset = SizeOfBlock,
         creating' = tb,
         tables' = [tables EXCEPT ![Popped] = At(SizeOfBlock, tb)],
         offset' = [offset EXCEPT ![Popped] = SizeOfBlock + RealSize(tb)],
         db' = [PoppedDb EXCEPT !.schema_last_block_id = Popped],
         type' = PoppedType("SCHEMA"),
         next_id' = ExtendedNext(db.schema_last_block_id),
         rows' = [rows EXCEPT ![Popped] = 0],
         header' = db'
  PROVE  FileInv' /\ (RowsGoToRecords => RowsGoToRecords')
<1> DEFINE last == db.schema_last_block_id
<1>1. /\ last \in SchemaBlocks /\ last \in Blocks
      /\ Popped \in FreeBlocks /\ Popped \in Blocks
      /\ Popped \in Nat
  BY LastSchemaBlock, PoppedIsFree DEF Blocks
<1>2. /\ tb \in Table /\ tb # NoTable /\ tb.offset \in Nat /\ tb.offset >= SizeOfBlock
      /\ RealSize(tb) \in Nat /\ RealSize(tb) >= SizeOfHead
      /\ tb.offset + RealSize(tb) < BlockSize
  BY Sized, PagerAssumption DEF Fit
<1>3. /\ db' \in Header
      /\ db'.first_clean_block = PoppedDb.first_clean_block
      /\ db'.block_num = PoppedDb.block_num
      /\ db'.schema_first_block_id = db.schema_first_block_id
      /\ db'.schema_last_block_id = Popped
  BY <1>1, PoppedDbType DEF Header
<1>4. /\ type' \in [Blocks -> BlockTypes]
      /\ FreeBlocks' = IF Grows THEN {db.block_num} ELSE FreeBlocks \ {Popped}
      /\ SchemaBlocks' = SchemaBlocks \cup {Popped}
      /\ RecordBlocks \subseteq RecordBlocks' /\ RecordBlocks' \subseteq RecordBlocks
      /\ Popped \notin SchemaBlocks
  <2>1. RecordBlocks' \subseteq RecordBlocks
    BY DEF RecordBlocks, PoppedType
  <2> QED BY <2>1, PoppedSets
<1>5. next_id \in [Blocks -> Nat]
  BY DEF FileInv, TypeOK
<1>6. GrownNext \in [Blocks -> Nat]
  BY <1>5 DEF GrownNext, Blocks
<1>7. last \notin FreeBlocks' /\ Popped \notin FreeBlocks'
  BY <1>1, <1>4, PoppedIsFree DEF FreeBlocks, SchemaBlocks
<1>8. \A c \in FreeBlocks' : next_id'[c] = GrownNext[c]
  BY <1>6, <1>7 DEF ExtendedNext, FreeBlocks
<1>9. FreeChain' /\ BlocksAccounted'
  BY <1>3, <1>8, PoppedFreeChain
<1>10. SchemaChain'
  <2>1. Chain(next_id, SchemaBlocks, db.schema_first_block_id, last)
    BY DEF FileInv, SchemaChain
  <2>2. IsFiniteSet(SchemaBlocks)
    BY BlocksFinite DEF SchemaBlocks
  <2>3. last # Popped
    BY <1>1, <1>4
  <2>4. next_id'[last] = Popped /\ next_id'[Popped] = Popped
    BY <1>1, <1>6, <2>3 DEF ExtendedNext
  <2>5. \A c \in SchemaBlocks \ {last} : next_id'[c] = next_id[c]
    <3>1. ASSUME NEW c \in SchemaBlocks \ {last} PROVE next_id'[c] = next_id[c]
      <4>1. c \in Blocks /\ c # Popped /\ (Grows => c # db.block_num)
        BY <1>4, PoppedIsFree DEF SchemaBlocks
      <4> QED
        BY <4>1, <1>6 DEF ExtendedNext, GrownNext
    <3> QED BY <3>1
  <2>6. Chain(next_id', SchemaBlocks \cup {Popped}, db.schema_first_block_id, Popped)
    BY <1>4, <2>1, <2>2, <2>4, <2>5, ChainAppend
  <2> QED
    BY <2>6, <1>3, <1>4 DEF SchemaChain
<1> DEFINE to == SizeOfBlock + RealSize(tb)
<1>11. /\ to \in Nat /\ tb.offset < to /\ to \in Places
  BY <1>2, PagerAssumption DEF SizeOfHead, SizeOfBlock, Places
<1>12. /\ Page(At(SizeOfBlock, tb), to)
       /\ DOMAIN At(SizeOfBlock, tb) = {SizeOfBlock} /\ At(SizeOfBlock, tb)[SizeOfBlock] = tb
  BY <1>11, OneOnPage
<1>13. /\ DOMAIN tables = Blocks /\ offset \in [Blocks -> Places]
       /\ \A b \in Blocks : Page(tables[b], offset[b])
  BY DEF FileInv, TypeOK, Fitting
<1>14. /\ DOMAIN tables' = Blocks /\ tables'[Popped] = At(SizeOfBlock, tb)
       /\ \A b \in Blocks : b # Popped => tables'[b] = tables[b]
  BY <1>1, <1>13
<1>15. /\ offset' \in [Blocks -> Places] /\ offset'[Popped] = to
       /\ \A b \in Blocks : b # Popped => offset'[b] = offset[b]
  BY <1>1, <1>11, <1>13
<1> HIDE DEF to
<1>16. Fitting'
  BY <1>12, <1>13, <1>14, <1>15 DEF Fitting
<1>17. TypeOK'
  <2>1. next_id' \in [Blocks -> Nat]
    BY <1>1, <1>6 DEF ExtendedNext
  <2>2. rows' \in [Blocks -> Nat]
    BY <1>1 DEF FileInv, TypeOK
  <2>3. /\ \A b \in Blocks : tables'[b] \in [DOMAIN tables'[b] -> Table]
        /\ \A b \in Blocks : DOMAIN tables'[b] \subseteq SizeOfBlock .. offset'[b] - 1
    BY <1>16 DEF Fitting, Page, Fit
  <2>4. ASSUME NEW b \in RecordBlocks'
        PROVE  \E c \in ColumnCounts : rows'[b] <= RecordSlots[c]
    <3>1. b \in RecordBlocks /\ b \in Blocks /\ b # Popped
      BY <1>1, <1>4 DEF RecordBlocks, FreeBlocks
    <3>2. rows'[b] = rows[b]
      BY <3>1 DEF FileInv, TypeOK
    <3> QED BY <3>1, <3>2 DEF FileInv, TypeOK
  <2> QED
    BY <1>2, <1>3, <1>4, <1>14, <1>15, <2>1, <2>2, <2>3, <2>4 DEF TypeOK
<1>18. ASSUME RowsGoToRecords PROVE RowsGoToRecords'
  <2>1. ASSUME NEW b \in Blocks, NEW p \in DOMAIN tables'[b]
        PROVE  \/ IsBeingCreated(b, p)'
               \/ tables'[b][p].last_record_block_id \in RecordBlocks'
    <3>1. CASE b = Popped
      <4>1. p = SizeOfBlock
        BY <3>1, <1>12, <1>14
      <4> QED BY <3>1, <4>1, <1>2 DEF IsBeingCreated
    <3>2. CASE b # Popped
      <4>1. tables'[b] = tables[b]
        BY <3>2, <1>14
      <4> QED BY <4>1, <1>4, <1>18 DEF RowsGoToRecords, IsBeingCreated
    <3> QED BY <3>1, <3>2
  <2>2. creating'.offset \in DOMAIN tables'[creating'.block_id]
    BY <1>12, <1>14, <1>1
  <2> QED BY <2>1, <2>2 DEF RowsGoToRecords
<1> QED
  BY <1>9, <1>10, <1>16, <1>17, <1>18 DEF FileInv

(* insert_table_to_schema.                                                 *)
LEMMA InsertTableKeepsFile ==
  ASSUME FileInv, NEW n \in Names, NEW c \in ColumnCounts, InsertTable(n, c)
  PROVE  FileInv' /\ (RowsGoToRecords => RowsGoToRecords')
<1> DEFINE last == db.schema_last_block_id
           here == NewTable(n, c, last, offset[last])
           there == NewTable(n, c, Popped, SizeOfBlock)
<1>1. last \in Blocks /\ offset[last] \in Places /\ offset[last] \in Nat
  BY LastSchemaBlock, PagerAssumption DEF FileInv, TypeOK, Places, SizeOfBlock
<1>2. /\ here \in Table /\ here.block_id = last /\ here.offset = offset[last]
      /\ RealSize(here) \in Nat
  BY <1>1, NewTableType, Sized
<1>3. CASE /\ RealSize(here) + offset[last] < BlockSize
           /\ creating' = here
           /\ tables' = [tables EXCEPT ![last] = Over(@, At(offset[last], here))]
           /\ offset' = [offset EXCEPT ![last] = @ + RealSize(here)]
           /\ UNCHANGED <<db, type, next_id, rows>>
  <2>1. here \in Fit
    BY <1>1, <1>2, <1>3 DEF Fit
  <2>2. creating = NoTable /\ header' = db'
    BY DEF InsertTable, SaveHeader
  <2> HIDE DEF here
  <2> QED BY <1>2, <1>3, <2>1, <2>2, InsertTableFits
<1>4. CASE /\ CanPop
           /\ creating' = there
           /\ tables' = [tables EXCEPT ![Popped] = At(SizeOfBlock, there)]
           /\ offset' = [offset EXCEPT ![Popped] = SizeOfBlock + RealSize(there)]
           /\ db' = [PoppedDb EXCEPT !.schema_last_block_id = Popped]
           /\ type' = PoppedType("SCHEMA")
           /\ next_id' = ExtendedNext(last)
           /\ rows' = [rows EXCEPT ![Popped] = 0]
  <2>1. SizeOfBlock \in Places /\ Popped \in Blocks
    BY <1>4, PoppedIsFree, PagerAssumption DEF SizeOfBlock, Places
  <2>2. there \in Table /\ there.block_id = Popped /\ there.offset = SizeOfBlock
    BY <2>1, NewTableType
  <2>3. there \in Fit
    BY <2>2, Sized DEF Fit
  <2>4. creating = NoTable /\ header' = db'
    BY DEF InsertTable, SaveHeader
  <2> HIDE DEF there
  <2> QED BY <1>4, <2>2, <2>3, <2>4, InsertTableGrows
<1> QED BY <1>3, <1>4 DEF InsertTable

(* It keeps the inductive invariant.                                       *)
LEMMA InsertTableInv ==
  ASSUME IInv, NEW n \in Names, NEW c \in ColumnCounts, InsertTable(n, c)
  PROVE  IInv'
BY InsertTableKeepsFile DEF IInv

-----------------------------------------------------------------------------
(* A step that pops a block for records leaves the schema chain alone.     *)
LEMMA RecordPopKeepsSchema ==
  ASSUME FileInv, CanPop, type' = PoppedType("RECORD"), db' = PoppedDb,
         NEW x \in RecordBlocks \cup {Popped},
         \/ next_id' = GrownNext
         \/ next_id' = ExtendedNext(x)
  PROVE  /\ SchemaChain' /\ FreeChain' /\ BlocksAccounted'
         /\ next_id' \in [Blocks -> Nat]
         /\ db' \in Header
         /\ type' \in [Blocks -> BlockTypes]
<1>1. /\ type' \in [Blocks -> BlockTypes]
      /\ FreeBlocks' = IF Grows THEN {db.block_num} ELSE FreeBlocks \ {Popped}
      /\ SchemaBlocks' = SchemaBlocks
      /\ Popped \notin SchemaBlocks /\ Popped \notin RecordBlocks
  BY PoppedSets
<1>2. Popped \in FreeBlocks /\ Popped \in Blocks /\ Popped \in Nat
  BY PoppedIsFree DEF Blocks
<1>3. GrownNext \in [Blocks -> Nat] /\ next_id \in [Blocks -> Nat]
  BY DEF GrownNext, Blocks, FileInv, TypeOK
<1>4. next_id' \in [Blocks -> Nat]
  BY <1>2, <1>3 DEF ExtendedNext
<1>5. x \in Blocks
  BY <1>2 DEF RecordBlocks
<1>6. \A c \in Blocks \ {x, Popped} : next_id'[c] = GrownNext[c]
  BY <1>3 DEF ExtendedNext
<1>7. x \notin FreeBlocks' /\ Popped \notin FreeBlocks'
  BY <1>1, <1>2, PoppedIsFree DEF FreeBlocks, RecordBlocks
<1>8. \A c \in FreeBlocks' : next_id'[c] = GrownNext[c]
  BY <1>6, <1>7 DEF FreeBlocks
<1>9. FreeChain' /\ BlocksAccounted'
  BY <1>8, PoppedFreeChain
<1>10. /\ db' \in Header
       /\ db'.schema_first_block_id = db.schema_first_block_id
       /\ db'.schema_last_block_id = db.schema_last_block_id
  BY PoppedDbType
<1>11. \A c \in SchemaBlocks : next_id'[c] = next_id[c]
  <2> TAKE c \in SchemaBlocks
  <2>1. c \in Blocks /\ c # Popped /\ c # x /\ (Grows => c # db.block_num)
    BY <1>1, PoppedIsFree DEF SchemaBlocks, RecordBlocks
  <2> QED
    BY <2>1, <1>6 DEF GrownNext
<1>12. SchemaChain'
  BY <1>1, <1>10, <1>11, ChainCongruence DEF SchemaChain, FileInv
<1> QED
  BY <1>1, <1>4, <1>9, <1>10, <1>12

(* ... and its rows are the only ones that change.                         *)
LEMMA RecordPopKeepsRows ==
  ASSUME FileInv, CanPop, type' = PoppedType("RECORD"),
         NEW k \in Nat, rows' = [rows EXCEPT ![Popped] = k],
         \E c \in ColumnCounts : k <= RecordSlots[c]
  PROVE  /\ RecordBlocks' = RecordBlocks \cup {Popped}
         /\ rows' \in [Blocks -> Nat]
         /\ \A b \in RecordBlocks' : \E c \in ColumnCounts : rows'[b] <= RecordSlots[c]
<1>1. Popped \in FreeBlocks /\ Popped \in Blocks
  BY PoppedIsFree
<1>2. RecordBlocks' = RecordBlocks \cup {Popped}
  <2>1. RecordBlocks \subseteq RecordBlocks' /\ Popped \in RecordBlocks'
    BY PoppedSets
  <2>2. RecordBlocks' \subseteq RecordBlocks \cup {Popped}
    BY DEF RecordBlocks, PoppedType
  <2> QED BY <2>1, <2>2
<1>3. rows \in [Blocks -> Nat]
  BY DEF FileInv, TypeOK
<1>4. rows' \in [Blocks -> Nat]
  BY <1>1, <1>3
<1>5. ASSUME NEW b \in RecordBlocks' PROVE \E c \in ColumnCounts : rows'[b] <= RecordSlots[c]
  <2>1. CASE b = Popped
    BY <2>1, <1>1, <1>3
  <2>2. CASE b # Popped
    <3>1. b \in RecordBlocks /\ b \in Blocks
      BY <1>2, <2>2 DEF RecordBlocks
    <3>2. rows'[b] = rows[b]
      BY <1>3, <2>2, <3>1
    <3> QED BY <3>1, <3>2 DEF FileInv, TypeOK
  <2> QED BY <2>1, <2>2
<1> QED BY <1>2, <1>4, <1>5

(* Slots are numbers.                                                      *)
LEMMA SlotsPositive ==
  ASSUME NEW tb \in Table
  PROVE  /\ tb.num_columns \in ColumnCounts /\ RecordSlots[tb.num_columns] \in Nat
         /\ 0 <= RecordSlots[tb.num_columns] /\ 1 <= RecordSlots[tb.num_columns]
<1>1. tb.num_columns \in ColumnCounts
  BY DEF Table
<1>2. RecordSlots[tb.num_columns] \in Nat \ {0}
  BY <1>1, PagerAssumption
<1> QED BY <1>1, <1>2

(* initialize_table_record_block.                                          *)
LEMMA InitializeTableRecordBlockInv ==
  ASSUME IInv, InitializeTableRecordBlock
  PROVE  IInv'
<1>0. FileInv /\ RowsGoToRecords
  BY DEF IInv
<1> DEFINE tb == WithBlock(creating, Popped)
<1>1. /\ creating # NoTable /\ CanPop
      /\ db' = PoppedDb /\ type' = PoppedType("RECORD") /\ next_id' = GrownNext
      /\ rows' = [rows EXCEPT ![Popped] = 0]
      /\ tables' = WriteTable(tb)
      /\ creating' = NoTable /\ header' = header /\ offset' = offset
  BY DEF InitializeTableRecordBlock
<1>2. Popped \in Blocks /\ Popped \in Nat
  BY <1>0, <1>1, PoppedIsFree DEF Blocks
<1>3. creating \in Fit /\ creating \in Table
  BY <1>0, <1>1 DEF FileInv, Fitting, Fit
<1>4. /\ tb \in Table /\ tb.last_record_block_id = Popped
      /\ tb.block_id = creating.block_id /\ tb.offset = creating.offset
      /\ tb.num_columns = creating.num_columns
  BY <1>2, <1>3 DEF Table, WithBlock
<1>5. tb \in Fit
  BY <1>3, <1>4 DEF Fit, RealSize
<1> HIDE DEF tb
<1>6. /\ SchemaChain' /\ FreeChain' /\ BlocksAccounted'
      /\ next_id' \in [Blocks -> Nat] /\ db' \in Header
      /\ type' \in [Blocks -> BlockTypes]
  BY <1>0, <1>1, RecordPopKeepsSchema
<1>7. /\ DOMAIN tables' = Blocks
      /\ \A b \in Blocks : Page(tables'[b], offset[b])
      /\ \A b \in Blocks : \A p \in DOMAIN tables'[b] :
           \/ b = tb.block_id /\ p = tb.offset /\ tables'[b][p] = tb
           \/ /\ ~(b = tb.block_id /\ p = tb.offset)
              /\ p \in DOMAIN tables[b] /\ Alike(tables'[b][p], tables[b][p])
  BY <1>0, <1>1, <1>5, Written
<1>8. Fitting'
  BY <1>1, <1>7 DEF Fitting
<1>9. /\ RecordBlocks' = RecordBlocks \cup {Popped} /\ rows' \in [Blocks -> Nat]
      /\ \A b \in RecordBlocks' : \E c \in ColumnCounts : rows'[b] <= RecordSlots[c]
  <2>1. \E c \in ColumnCounts : 0 <= RecordSlots[c]
    BY <1>4, SlotsPositive
  <2> QED BY <1>0, <1>1, <2>1, RecordPopKeepsRows
<1>10. TypeOK'
  <2>1. offset' \in [Blocks -> Places] /\ header' \in Header
    BY <1>0, <1>1 DEF FileInv, TypeOK
  <2> QED
    BY <1>1, <1>6, <1>7, <1>8, <1>9, <2>1 DEF TypeOK, Fitting, Page, Fit
<1>11. RowsGoToRecords'
  <2>1. ASSUME NEW b \in Blocks, NEW p \in DOMAIN tables'[b]
        PROVE  tables'[b][p].last_record_block_id \in RecordBlocks'
    <3>1. CASE b = tb.block_id /\ p = tb.offset /\ tables'[b][p] = tb
      BY <3>1, <1>4, <1>9
    <3>2. CASE /\ ~(b = tb.block_id /\ p = tb.offset)
               /\ p \in DOMAIN tables[b] /\ Alike(tables'[b][p], tables[b][p])
      <4>1. ~IsBeingCreated(b, p)
        BY <3>2, <1>4 DEF IsBeingCreated
      <4>2. tables[b][p] \in Table
        BY <1>0, <3>2 DEF FileInv, Fitting, Page, Fit
      <4>3. tables'[b][p].last_record_block_id = tables[b][p].last_record_block_id
        BY <3>2, <4>2, AlikeSame
      <4> QED BY <1>0, <1>9, <3>2, <4>1, <4>3 DEF RowsGoToRecords
    <3> QED BY <1>7, <3>1, <3>2
  <2> QED BY <2>1, <1>1 DEF RowsGoToRecords
<1> QED
  BY <1>6, <1>8, <1>10, <1>11 DEF IInv, FileInv

-----------------------------------------------------------------------------
(* Writing a descriptor where its own block_id and offset say.             *)
LEMMA WriteTableInv ==
  ASSUME FileInv, RowsGoToRecords, creating = NoTable, NEW tb \in Fit,
         tables' = WriteTable(tb), offset' = offset, creating' = creating,
         RecordBlocks \subseteq RecordBlocks',
         tb.last_record_block_id \in RecordBlocks'
  PROVE  Fitting' /\ DOMAIN tables' = Blocks /\ RowsGoToRecords'
<1>1. /\ DOMAIN tables' = Blocks
      /\ \A b \in Blocks : Page(tables'[b], offset[b])
      /\ \A b \in Blocks : \A p \in DOMAIN tables'[b] :
           \/ b = tb.block_id /\ p = tb.offset /\ tables'[b][p] = tb
           \/ /\ ~(b = tb.block_id /\ p = tb.offset)
              /\ p \in DOMAIN tables[b] /\ Alike(tables'[b][p], tables[b][p])
  BY Written
<1>2. Fitting'
  BY <1>1 DEF Fitting
<1>3. ASSUME NEW b \in Blocks, NEW p \in DOMAIN tables'[b]
      PROVE  tables'[b][p].last_record_block_id \in RecordBlocks'
  <2>1. CASE p \in DOMAIN tables[b] /\ Alike(tables'[b][p], tables[b][p])
    <3>1. tables[b][p] \in Table
      BY <2>1 DEF FileInv, Fitting, Page, Fit
    <3>2. tables'[b][p].last_record_block_id = tables[b][p].last_record_block_id
      BY <2>1, <3>1, AlikeSame
    <3> QED BY <2>1, <3>2 DEF RowsGoToRecords, IsBeingCreated
  <2> QED BY <1>1, <2>1
<1> QED BY <1>1, <1>2, <1>3 DEF RowsGoToRecords

(* insert_record_to_table, through whatever descriptor.                    *)
LEMMA InsertThroughInv ==
  ASSUME IInv, creating = NoTable, NEW b \in Blocks, NEW p \in DOMAIN tables[b],
         InsertThrough(tables[b][p]), offset' = offset, creating' = creating
  PROVE  IInv'
<1>0. FileInv /\ RowsGoToRecords
  BY DEF IInv
<1>1. PICK tb : tb = tables[b][p]
  OBVIOUS
<1>2. tb \in Fit /\ tb \in Table
  BY <1>0, <1>1 DEF FileInv, Fitting, Page, Fit
<1> DEFINE last == tb.last_record_block_id
<1>3. last \in RecordBlocks /\ last \in Blocks
  BY <1>0, <1>1 DEF RowsGoToRecords, IsBeingCreated, RecordBlocks
<1>4. InsertThrough(tb)
  BY <1>1
<1>5. rows \in [Blocks -> Nat] /\ offset' \in [Blocks -> Places] /\ db \in Header
  BY <1>0 DEF FileInv, TypeOK
<1>6. CASE /\ RecordFits(tb, last)
           /\ rows' = [rows EXCEPT ![last] = @ + 1]
           /\ tables' = WriteTable([tb EXCEPT !.num_rows = @ + 1])
           /\ UNCHANGED <<db, type, next_id>>
           /\ header' = db'
  <2> DEFINE new == [tb EXCEPT !.num_rows = @ + 1]
  <2>1. new \in Fit /\ new.last_record_block_id = last
    BY <1>2 DEF Table, Fit, RealSize
  <2>2. RecordBlocks' = RecordBlocks
    BY <1>6 DEF RecordBlocks
  <2> HIDE DEF new
  <2>3. tables' = WriteTable(new)
    BY <1>6 DEF new
  <2>4. Fitting' /\ DOMAIN tables' = Blocks /\ RowsGoToRecords'
    BY <1>0, <1>3, <2>1, <2>2, <2>3, WriteTableInv
  <2>5. rows' \in [Blocks -> Nat]
    BY <1>3, <1>5, <1>6
  <2>6. ASSUME NEW x \in RecordBlocks' PROVE \E c \in ColumnCounts : rows'[x] <= RecordSlots[c]
    <3>1. x \in Blocks /\ x \in RecordBlocks
      BY <2>2 DEF RecordBlocks
    <3>2. CASE x = last
      <4>1. rows[last] < RecordSlots[tb.num_columns] /\ rows'[x] = rows[last] + 1
        BY <1>3, <1>5, <1>6, <3>2 DEF RecordFits
      <4>2. RecordSlots[tb.num_columns] \in Nat /\ tb.num_columns \in ColumnCounts
        BY <1>2, SlotsPositive
      <4>3. rows[last] \in Nat
        BY <1>3, <1>5
      <4>4. rows'[x] <= RecordSlots[tb.num_columns]
        BY <4>1, <4>2, <4>3
      <4> QED BY <4>2, <4>4
    <3>3. CASE x # last
      <4>1. rows'[x] = rows[x]
        BY <1>5, <1>6, <3>1, <3>3
      <4> QED BY <1>0, <3>1, <4>1 DEF FileInv, TypeOK
    <3> QED BY <3>2, <3>3
  <2>7. TypeOK'
    <3>1. type' \in [Blocks -> BlockTypes] /\ next_id' \in [Blocks -> Nat]
      BY <1>0, <1>6 DEF FileInv, TypeOK
    <3> QED BY <1>5, <1>6, <2>4, <2>5, <2>6, <3>1 DEF TypeOK, Fitting, Page, Fit
  <2>8. SchemaChain' /\ FreeChain' /\ BlocksAccounted'
    BY <1>0, <1>6 DEF FileInv, SchemaChain, FreeChain, BlocksAccounted, SchemaBlocks, FreeBlocks
  <2> QED
    BY <2>4, <2>7, <2>8 DEF IInv, FileInv
<1>7. CASE /\ CanPop
           /\ rows' = [rows EXCEPT ![Popped] = 1]
           /\ tables' = WriteTable(
                [tb EXCEPT !.num_rows = @ + 1, !.last_record_block_id = Popped])
           /\ db' = PoppedDb
           /\ type' = PoppedType("RECORD")
           /\ next_id' = ExtendedNext(last)
           /\ header' = db'
  <2> DEFINE new == [tb EXCEPT !.num_rows = @ + 1, !.last_record_block_id = Popped]
  <2>1. Popped \in Blocks /\ Popped \in Nat
    BY <1>0, <1>7, PoppedIsFree DEF Blocks
  <2>2. new \in Fit /\ new.last_record_block_id = Popped
    <3> DEFINE counted == [tb EXCEPT !.num_rows = @ + 1]
    <3>1. counted \in Table /\ counted.offset = tb.offset /\ counted.num_columns = tb.num_columns
      BY <1>2 DEF Table
    <3>2. new = [counted EXCEPT !.last_record_block_id = Popped]
      OBVIOUS
    <3> HIDE DEF counted
    <3>3. /\ new \in Table /\ new.last_record_block_id = Popped
          /\ new.offset = tb.offset /\ new.num_columns = tb.num_columns
      BY <2>1, <3>1, <3>2 DEF Table
    <3> QED
      BY <1>2, <3>3 DEF Fit, RealSize
  <2>3. /\ RecordBlocks' = RecordBlocks \cup {Popped} /\ rows' \in [Blocks -> Nat]
        /\ \A x \in RecordBlocks' : \E c \in ColumnCounts : rows'[x] <= RecordSlots[c]
    <3>1. \E c \in ColumnCounts : 1 <= RecordSlots[c]
      BY <1>2, SlotsPositive
    <3> QED BY <1>0, <1>7, <3>1, RecordPopKeepsRows
  <2> HIDE DEF new
  <2>4. tables' = WriteTable(new)
    BY <1>7 DEF new
  <2>5. Fitting' /\ DOMAIN tables' = Blocks /\ RowsGoToRecords'
    BY <1>0, <2>2, <2>3, <2>4, WriteTableInv
  <2>6. /\ SchemaChain' /\ FreeChain' /\ BlocksAccounted'
        /\ next_id' \in [Blocks -> Nat] /\ db' \in Header
        /\ type' \in [Blocks -> BlockTypes]
    BY <1>0, <1>3, <1>7, RecordPopKeepsSchema
  <2>7. TypeOK'
    BY <1>5, <1>7, <2>3, <2>5, <2>6 DEF TypeOK, Fitting, Page, Fit
  <2> QED
    BY <2>5, <2>6, <2>7 DEF IInv, FileInv
<1> QED
  BY <1>4, <1>6, <1>7 DEF InsertThrough, SaveHeader

(* insert_record_to_table.                                                 *)
LEMMA InsertRecordInv ==
  ASSUME IInv, NEW n \in Names, InsertRecord(n)
  PROVE  IInv'
<1>1. PICK b \in Blocks : \E p \in DOMAIN tables[b] : InsertThrough(tables[b][p])
  BY DEF InsertRecord
<1>2. PICK p \in DOMAIN tables[b] : InsertThrough(tables[b][p])
  BY <1>1
<1>3. creating = NoTable /\ creating' = creating /\ offset' = offset
  BY DEF InsertRecord
<1> QED BY <1>2, <1>3, InsertThroughInv

-----------------------------------------------------------------------------
(* delete_table_from_schema.  Its walk reads no byte twice.                *)
LEMMA ReadsApart ==
  ASSUME NEW b \in Blocks, NEW to \in Nat, Page(tables[b], to),
         NEW p \in Reads(b), NEW q \in Reads(b), p < q
  PROVE  End(tables[b], p) <= q
<1> DEFINE D == DOMAIN tables[b]
<1>1. \A x \in D : /\ x \in Nat /\ x \in 0 .. to
                   /\ End(tables[b], x) \in Nat /\ x < End(tables[b], x)
  <2> TAKE x \in D
  <2>1. /\ x \in Nat /\ x < to /\ End(tables[b], x) = x + RealSize(tables[b][x])
        /\ RealSize(tables[b][x]) \in Nat /\ SizeOfHead <= RealSize(tables[b][x])
    BY OfPage
  <2> QED BY <2>1 DEF SizeOfHead
<1>2. p \in D /\ q \in D
  BY DEF Reads
<1>3. PICK S \in SUBSET {o \in D : o < p} :
        SizeOfBlock \in S \cup {p} /\ \A o \in S : End(tables[b], o) \in S \cup {p}
  BY DEF Reads
<1>4. PICK T \in SUBSET {o \in D : o < q} :
        SizeOfBlock \in T \cup {q} /\ \A o \in T : End(tables[b], o) \in T \cup {q}
  BY DEF Reads
<1> DEFINE C == (S \cup {p}) \cap (T \cup {q})
<1>5. C \in SUBSET (0 .. to) /\ C # {}
  <2>1. C \subseteq D
    BY <1>2, <1>3, <1>4
  <2>2. SizeOfBlock \in C
    BY <1>3, <1>4
  <2> HIDE DEF C, D
  <2> QED BY <1>1, <2>1, <2>2
<1>6. PICK g \in C : \A x \in C : x <= g
  <2> HIDE DEF C
  <2> QED BY <1>5, Greatest
<1>7. g # q
  <2>1. \A x \in S \cup {p} : x \in Nat /\ x <= p
    BY <1>1, <1>2, <1>3
  <2>2. p \in Nat /\ q \in Nat /\ ~(q <= p)
    BY <1>1, <1>2
  <2> QED BY <1>6, <2>1, <2>2
<1>8. g \in T /\ End(tables[b], g) \in T \cup {q}
  BY <1>4, <1>6, <1>7
<1>9. g = p
  <2>1. SUFFICES ASSUME g \in S PROVE FALSE
    BY <1>6
  <2>2. End(tables[b], g) \in C
    BY <1>3, <1>8, <2>1
  <2>3. g \in Nat /\ End(tables[b], g) \in Nat /\ g < End(tables[b], g)
    BY <1>1, <1>3, <2>1
  <2> HIDE DEF C
  <2> QED BY <1>6, <2>2, <2>3
<1>10. \A x \in T \cup {q} : x <= q
  BY <1>1, <1>2, <1>4
<1> QED BY <1>8, <1>9, <1>10

(* The descriptors of a page are finitely many and have sizes.             *)
LEMMA SizesOfPage ==
  ASSUME NEW b \in Blocks, NEW to \in Nat, Page(tables[b], to),
         NEW G \in SUBSET DOMAIN tables[b]
  PROVE  /\ IsFiniteSet(G) /\ G \in SUBSET (0 .. to) /\ G \in SUBSET Nat
         /\ \A p \in G : /\ Sizes(b)[p] = RealSize(tables[b][p])
                         /\ Sizes(b)[p] \in Nat /\ 0 < Sizes(b)[p]
                         /\ End(tables[b], p) = p + Sizes(b)[p]
<1>1. \A p \in G : /\ p \in 0 .. to /\ p \in Nat
                   /\ Sizes(b)[p] = RealSize(tables[b][p])
                   /\ Sizes(b)[p] \in Nat /\ 0 < Sizes(b)[p]
                   /\ End(tables[b], p) = p + Sizes(b)[p]
  <2> TAKE p \in G
  <2>1. /\ p \in Nat /\ p < to /\ End(tables[b], p) = p + RealSize(tables[b][p])
        /\ RealSize(tables[b][p]) \in Nat /\ SizeOfHead <= RealSize(tables[b][p])
    BY OfPage
  <2>2. Sizes(b)[p] = RealSize(tables[b][p])
    BY DEF Sizes
  <2> QED BY <2>1, <2>2 DEF SizeOfHead
<1>2. IsFiniteSet(0 .. to)
  BY FS_Interval
<1>3. G \in SUBSET (0 .. to) /\ G \in SUBSET Nat
  BY <1>1
<1>4. IsFiniteSet(G)
  BY <1>2, <1>3, FS_Subset
<1> QED BY <1>1, <1>3, <1>4

(* The last of some descriptors ends where they all end.                   *)
LEMMA LastOfGroup ==
  ASSUME NEW b \in Blocks, NEW to \in Nat, Page(tables[b], to),
         NEW G \in SUBSET DOMAIN tables[b], G # {}
  PROVE  /\ Total(Sizes(b), G) \in Nat
         /\ \E p \in G : /\ \A q \in G : q <= p
                         /\ Before(b, G, p) \in Nat
                         /\ Total(Sizes(b), G) = Before(b, G, p) + Sizes(b)[p]
<1>1. /\ IsFiniteSet(G) /\ G \in SUBSET (0 .. to) /\ G \in SUBSET Nat
      /\ \A p \in G : Sizes(b)[p] \in Nat
  BY SizesOfPage
<1>2. PICK p \in G : \A q \in G : q <= p
  BY <1>1, Greatest
<1>3. p \in Nat /\ ~ \E q \in G : p < q
  BY <1>1, <1>2
<1>4. Total(Sizes(b), InFront(G, p)) + Sizes(b)[p] = Total(Sizes(b), G)
  BY <1>1, <1>3, InFrontNext
<1>5. Total(Sizes(b), InFront(G, p)) \in Nat /\ Total(Sizes(b), G) \in Nat
  BY <1>1, InFrontApart
<1>6. Before(b, G, p) = Total(Sizes(b), InFront(G, p))
  BY DEF Before, InFront
<1> QED BY <1>2, <1>4, <1>5, <1>6

(* What a walk reads still fits when it is moved together.                 *)
LEMMA KeptFits ==
  ASSUME NEW b \in Blocks, NEW to \in Nat, Page(tables[b], to), NEW G \in SUBSET Reads(b)
  PROVE  /\ Total(Sizes(b), G) \in Nat
         /\ SizeOfBlock + Total(Sizes(b), G) < BlockSize
         /\ \A p \in G : SizeOfBlock + Before(b, G, p) <= p
<1>1. G \in SUBSET DOMAIN tables[b]
  BY DEF Reads
<1>2. /\ IsFiniteSet(G) /\ G \in SUBSET (0 .. to) /\ G \in SUBSET Nat
      /\ \A p \in G : Sizes(b)[p] \in Nat /\ End(tables[b], p) = p + Sizes(b)[p]
  BY <1>1, SizesOfPage
<1>3. \A p \in G : SizeOfBlock <= p /\ End(tables[b], p) < BlockSize
  BY <1>1, OfPage
<1>4. \A p, q \in G : p < q => p + Sizes(b)[p] <= q
  <2>1. ASSUME NEW p \in G, NEW q \in G, p < q PROVE p + Sizes(b)[p] <= q
    <3>1. End(tables[b], p) <= q
      BY <2>1, ReadsApart
    <3> QED BY <1>2, <3>1
  <2> QED BY <2>1
<1>5. \A p \in G : SizeOfBlock + Total(Sizes(b), InFront(G, p)) <= p
  <2>1. SizeOfBlock \in Nat
    BY DEF SizeOfBlock
  <2> QED BY <1>2, <1>3, <1>4, <2>1, InFrontBelow
<1>6. \A p \in G : SizeOfBlock + Before(b, G, p) <= p
  BY <1>5 DEF Before, InFront
<1>7. CASE G = {}
  <2>1. Total(Sizes(b), G) = 0
    BY <1>7, TotalNone
  <2> QED BY <1>6, <2>1, PagerAssumption DEF SizeOfBlock
<1>8. CASE G # {}
  <2>1. /\ Total(Sizes(b), G) \in Nat
        /\ \E p \in G : /\ Before(b, G, p) \in Nat
                        /\ Total(Sizes(b), G) = Before(b, G, p) + Sizes(b)[p]
    BY <1>1, <1>8, LastOfGroup
  <2>2. PICK p \in G : /\ Before(b, G, p) \in Nat
                       /\ Total(Sizes(b), G) = Before(b, G, p) + Sizes(b)[p]
    BY <2>1
  <2>3. /\ SizeOfBlock + Before(b, G, p) <= p /\ p + Sizes(b)[p] < BlockSize
        /\ p \in Nat /\ Sizes(b)[p] \in Nat
    BY <1>2, <1>3, <1>6
  <2>4. SizeOfBlock + Total(Sizes(b), G) < BlockSize
    BY <2>2, <2>3, PagerAssumption DEF SizeOfBlock
  <2> QED BY <1>6, <2>1, <2>4
<1> QED BY <1>7, <1>8

(* Where descriptors go that are written one behind the other.             *)
LaidAt(from, b, G, p) == from + Before(b, G, p)

Stacked(from, b, G) ==
  /\ Total(Sizes(b), G) \in Nat
  /\ Page(Laid(from, b, G), from + Total(Sizes(b), G))
  /\ DOMAIN Laid(from, b, G) = {LaidAt(from, b, G, p) : p \in G}
  /\ \A p \in G : /\ Laid(from, b, G)[LaidAt(from, b, G, p)] = tables[b][p]
                  /\ LaidAt(from, b, G, p) \in Nat /\ from <= LaidAt(from, b, G, p)
                  /\ LaidAt(from, b, G, p) + Sizes(b)[p] <= from + Total(Sizes(b), G)
  /\ \A p, q \in G : p < q =>
       LaidAt(from, b, G, p) + Sizes(b)[p] <= LaidAt(from, b, G, q)
  /\ \A p, q \in G : LaidAt(from, b, G, p) = LaidAt(from, b, G, q) => p = q

LEMMA LaidIs ==
  ASSUME NEW b \in Blocks, NEW to \in Nat, Page(tables[b], to),
         NEW G \in SUBSET DOMAIN tables[b],
         NEW from \in Nat, SizeOfBlock <= from, from + Total(Sizes(b), G) < BlockSize
  PROVE  Stacked(from, b, G)
<1> DEFINE at(p) == LaidAt(from, b, G, p)
           all == Total(Sizes(b), G)
           laid == Laid(from, b, G)
<1>1. /\ IsFiniteSet(G) /\ G \in SUBSET Nat
      /\ \A p \in G : /\ Sizes(b)[p] = RealSize(tables[b][p])
                      /\ Sizes(b)[p] \in Nat /\ 0 < Sizes(b)[p]
  BY SizesOfPage
<1>2. all \in Nat
  BY <1>1, TotalNat
<1>3. \A p \in G : /\ Before(b, G, p) \in Nat
                   /\ Before(b, G, p) + Sizes(b)[p] <= all
                   /\ \A q \in G : p < q => Before(b, G, p) + Sizes(b)[p] <= Before(b, G, q)
  BY <1>1, InFrontApart DEF Before, InFront
<1> HIDE DEF all
<1>4. \A p \in G : at(p) \in Nat /\ from <= at(p) /\ at(p) + Sizes(b)[p] <= from + all
  BY <1>1, <1>2, <1>3 DEF LaidAt
<1>5. \A p, q \in G : p < q => at(p) + Sizes(b)[p] <= at(q)
  <2>1. ASSUME NEW p \in G, NEW q \in G, p < q PROVE at(p) + Sizes(b)[p] <= at(q)
    <3>1. /\ Before(b, G, p) \in Nat /\ Before(b, G, q) \in Nat /\ Sizes(b)[p] \in Nat
          /\ Before(b, G, p) + Sizes(b)[p] <= Before(b, G, q)
      BY <1>1, <1>3, <2>1
    <3> QED BY <3>1 DEF LaidAt
  <2> QED BY <2>1
<1>6. \A p, q \in G : at(p) = at(q) => p = q
  <2> SUFFICES ASSUME NEW p \in G, NEW q \in G, at(p) = at(q), p # q PROVE FALSE
    OBVIOUS
  <2>1. p \in Nat /\ q \in Nat /\ at(p) \in Nat /\ at(q) \in Nat
    BY <1>1, <1>4
  <2>2. ~(p < q)
    BY <1>1, <1>5, <2>1
  <2>3. ~(q < p)
    BY <1>1, <1>5, <2>1
  <2> QED BY <2>1, <2>2, <2>3
<1> HIDE DEF at
<1> DEFINE pl == [q \in G |-> from + Before(b, G, q)]
<1>7. /\ \A q \in G : pl[q] = at(q)
      /\ laid = [x \in {pl[q] : q \in G} |-> tables[b][CHOOSE q \in G : pl[q] = x]]
  BY DEF at, LaidAt, Laid
<1> HIDE DEF pl
<1>8. /\ DOMAIN laid = {at(p) : p \in G}
      /\ \A p \in G : at(p) \in DOMAIN laid /\ laid[at(p)] = tables[b][p]
      /\ laid = [x \in DOMAIN laid |-> laid[x]]
  <2> HIDE DEF laid
  <2>1. DOMAIN laid = {pl[q] : q \in G} /\ laid = [x \in DOMAIN laid |-> laid[x]]
    BY <1>7
  <2>2. ASSUME NEW p \in G PROVE laid[pl[p]] = tables[b][p]
    <3>1. (CHOOSE q \in G : pl[q] = pl[p]) = p
      BY <1>6, <1>7
    <3> QED BY <1>7, <3>1
  <2> QED BY <1>7, <2>1, <2>2
<1> HIDE DEF laid
<1>9. Page(laid, from + all)
  <2>1. ASSUME NEW x \in DOMAIN laid
        PROVE  /\ laid[x] \in Fit /\ End(laid, x) < BlockSize
               /\ x \in SizeOfBlock .. (from + all) - 1
    <3>1. PICK p \in G : x = at(p)
      BY <1>8
    <3>2. laid[x] = tables[b][p] /\ tables[b][p] \in Fit
      BY <1>8, <3>1 DEF Page
    <3>3. End(laid, x) = at(p) + Sizes(b)[p]
      BY <1>1, <3>1, <3>2 DEF End
    <3>4. /\ at(p) \in Nat /\ from <= at(p) /\ at(p) + Sizes(b)[p] <= from + all
          /\ Sizes(b)[p] \in Nat /\ 0 < Sizes(b)[p]
      BY <1>1, <1>4
    <3>5. from + all < BlockSize /\ BlockSize \in Nat
      BY PagerAssumption DEF all
    <3>6. x \in SizeOfBlock .. (from + all) - 1
      BY <1>2, <3>1, <3>4 DEF SizeOfBlock
    <3>7. End(laid, x) < BlockSize
      BY <1>2, <3>3, <3>4, <3>5
    <3> QED BY <3>2, <3>6, <3>7
  <2>2. laid \in [DOMAIN laid -> Fit]
    BY <1>8, <2>1
  <2> QED BY <2>1, <2>2 DEF Page
<1> QED BY <1>2, <1>4, <1>5, <1>6, <1>8, <1>9 DEF at, all, laid, Stacked

LEMMA LaidFrom ==
  ASSUME NEW b \in Blocks, NEW to \in Nat, Page(tables[b], to),
         NEW G \in SUBSET DOMAIN tables[b],
         NEW from \in Nat, SizeOfBlock <= from, from + Total(Sizes(b), G) < BlockSize,
         NEW x \in DOMAIN Laid(from, b, G)
  PROVE  \E p \in G : x = LaidAt(from, b, G, p) /\ Laid(from, b, G)[x] = tables[b][p]
<1>1. Stacked(from, b, G)
  BY LaidIs
<1>2. PICK p \in G : x = LaidAt(from, b, G, p)
  BY <1>1 DEF Stacked
<1>3. Laid(from, b, G)[LaidAt(from, b, G, p)] = tables[b][p]
  BY <1>1 DEF Stacked
<1> QED BY <1>2, <1>3

(* The moved descriptors fit in the last block, the kept ones in their own. *)
Deleted(b, moved, kept) ==
  LET last == db.schema_last_block_id
  IN  /\ last \in Blocks
      /\ b = last => moved = {}
      /\ offset[last] \in Nat /\ SizeOfBlock <= offset[last]
      /\ offset[last] + Total(Sizes(b), moved) < BlockSize
      /\ Total(Sizes(b), moved) \in Nat
      /\ SizeOfBlock + Total(Sizes(b), kept) < BlockSize
      /\ Total(Sizes(b), kept) \in Nat
      /\ Page(tables[b], offset[b]) /\ offset[b] \in Nat
      /\ Page(tables[last], offset[last])
      /\ DOMAIN tables' = Blocks /\ offset' \in [Blocks -> Places]
      /\ \A c \in Blocks :
           /\ tables'[c] = IF c = b THEN Laid(SizeOfBlock, b, kept)
                           ELSE IF c = last
                                THEN Over(tables[last], Laid(offset[last], b, moved))
                                ELSE tables[c]
           /\ offset'[c] = IF c = b THEN SizeOfBlock + Total(Sizes(b), kept)
                           ELSE IF c = last THEN offset[last] + Total(Sizes(b), moved)
                                ELSE offset[c]

LEMMA DeleteFromPages ==
  ASSUME FileInv, creating = NoTable, creating' = creating, NEW b \in Blocks, NEW pre,
         NEW survivors \in SUBSET Reads(b), NEW moved \in SUBSET survivors,
         FitInLast(b, survivors, moved), DeleteFrom(b, pre, moved, survivors \ moved)
  PROVE  Deleted(b, moved, survivors \ moved) /\ Fitting'
<1> DEFINE last == db.schema_last_block_id
           kept == survivors \ moved
<1>1. /\ last \in Blocks /\ DOMAIN tables = Blocks /\ offset \in [Blocks -> Places]
      /\ \A c \in Blocks : Page(tables[c], offset[c])
  BY LastSchemaBlock DEF FileInv, TypeOK, Fitting
<1>2. \A c \in Blocks : /\ offset[c] \in Nat /\ SizeOfBlock <= offset[c]
                        /\ offset[c] < BlockSize
  BY <1>1, PagerAssumption DEF Places, SizeOfBlock
<1>3. \A p \in moved : /\ b # last
                       /\ offset[last] + Before(b, moved, p) + RealSize(tables[b][p]) < BlockSize
  BY DEF FitInLast
<1>4. b = last => moved = {}
  BY <1>3
<1>5. moved \in SUBSET DOMAIN tables[b] /\ kept \in SUBSET DOMAIN tables[b]
  BY DEF Reads
<1>6. /\ offset[last] + Total(Sizes(b), moved) < BlockSize
      /\ Total(Sizes(b), moved) \in Nat
  <2>1. CASE moved = {}
    <3>1. Total(Sizes(b), moved) = 0
      BY <2>1, TotalNone
    <3> QED BY <1>1, <1>2, <3>1
  <2>2. CASE moved # {}
    <3>1. /\ Total(Sizes(b), moved) \in Nat
          /\ \E p \in moved : /\ Before(b, moved, p) \in Nat
                              /\ Total(Sizes(b), moved) = Before(b, moved, p) + Sizes(b)[p]
      BY <1>1, <1>2, <1>5, <2>2, LastOfGroup
    <3>2. PICK p \in moved : /\ Before(b, moved, p) \in Nat
                             /\ Total(Sizes(b), moved) = Before(b, moved, p) + Sizes(b)[p]
      BY <3>1
    <3>3. Sizes(b)[p] = RealSize(tables[b][p]) /\ Sizes(b)[p] \in Nat
      BY <1>1, <1>2, <1>5, SizesOfPage
    <3> QED BY <1>1, <1>2, <1>3, <3>1, <3>2, <3>3, PagerAssumption
  <2> QED BY <2>1, <2>2
<1>7. /\ SizeOfBlock + Total(Sizes(b), kept) < BlockSize
      /\ Total(Sizes(b), kept) \in Nat
  <2>1. kept \in SUBSET Reads(b)
    OBVIOUS
  <2> QED BY <1>1, <1>2, <2>1, KeptFits
<1> HIDE DEF kept
<1> DEFINE onLast == Laid(offset[last], b, moved)
           own == Laid(SizeOfBlock, b, kept)
<1>8. Page(onLast, offset[last] + Total(Sizes(b), moved))
  BY <1>1, <1>2, <1>5, <1>6, LaidIs DEF Stacked
<1>9. Page(own, SizeOfBlock + Total(Sizes(b), kept))
  <2>1. SizeOfBlock \in Nat /\ SizeOfBlock <= SizeOfBlock
    BY DEF SizeOfBlock
  <2> QED BY <1>1, <1>2, <1>5, <1>7, <2>1, LaidIs DEF Stacked
<1>10. Page(Over(tables[last], onLast), offset[last] + Total(Sizes(b), moved))
  <2>1. /\ offset[last] \in Nat /\ offset[last] + Total(Sizes(b), moved) \in Nat
        /\ offset[last] <= offset[last] + Total(Sizes(b), moved)
    BY <1>1, <1>2, <1>6
  <2> HIDE DEF onLast
  <2> QED BY <1>1, <1>8, <2>1, OverPage
<1>11. /\ tables' = [tables EXCEPT ![last] = Over(@, onLast), ![b] = own]
       /\ offset' = [offset EXCEPT ![last] = @ + Total(Sizes(b), moved),
                                   ![b] = SizeOfBlock + Total(Sizes(b), kept)]
  BY DEF DeleteFrom, kept
<1> HIDE DEF onLast, own
<1>12. /\ DOMAIN tables' = Blocks
       /\ \A c \in Blocks :
            /\ tables'[c] = IF c = b THEN own
                            ELSE IF c = last THEN Over(tables[last], onLast) ELSE tables[c]
            /\ offset'[c] = IF c = b THEN SizeOfBlock + Total(Sizes(b), kept)
                            ELSE IF c = last THEN offset[last] + Total(Sizes(b), moved)
                                 ELSE offset[c]
  BY <1>1, <1>11
<1>13. offset' \in [Blocks -> Places]
  <2>1. SizeOfBlock + Total(Sizes(b), kept) \in Places
    BY <1>7, PagerAssumption DEF Places, SizeOfBlock
  <2>2. offset[last] + Total(Sizes(b), moved) \in Places
    BY <1>1, <1>2, <1>6, PagerAssumption DEF Places, SizeOfBlock
  <2> QED BY <1>1, <1>11, <2>1, <2>2
<1>14. Fitting'
  <2>1. ASSUME NEW c \in Blocks PROVE Page(tables'[c], offset'[c])
    BY <1>1, <1>9, <1>10, <1>12
  <2> QED BY <2>1 DEF Fitting
<1> QED
  BY <1>1, <1>2, <1>4, <1>6, <1>7, <1>12, <1>13, <1>14 DEF kept, onLast, own, Deleted

(* Unlinking, appending and freeing the block of the dropped table keeps   *)
(* the schema chain and the free list, and gives no block to the records.  *)
LEMMA DeleteFromChains ==
  ASSUME FileInv, NEW b \in SchemaBlocks, NEW pre \in Blocks, NEW moved, NEW kept,
         Predecessor(pre, b), DeleteFrom(b, pre, moved, kept)
  PROVE  /\ SchemaChain' /\ FreeChain' /\ BlocksAccounted'
         /\ next_id' \in [Blocks -> Nat]
         /\ db' \in Header
         /\ type' \in [Blocks -> BlockTypes]
         /\ RecordBlocks' = RecordBlocks
<1> DEFINE last == db.schema_last_block_id
           head == db.schema_first_block_id
           first == IF pre = b THEN next_id[b] ELSE head
           unlinked == IF pre = b THEN next_id ELSE [next_id EXCEPT ![pre] = next_id[b]]
           Freed == /\ b # first /\ b # last
                    /\ type' = [type EXCEPT ![b] = "FREE"]
                    /\ next_id' = [unlinked EXCEPT ![b] = db.first_clean_block]
                    /\ db' = [db EXCEPT !.first_clean_block = b,
                                        !.schema_first_block_id = first]
           Kept == /\ next_id' = [unlinked EXCEPT ![last] = b, ![b] = b]
                   /\ db' = [db EXCEPT !.schema_first_block_id = first,
                                       !.schema_last_block_id = b]
                   /\ UNCHANGED type
<1>1. Freed \/ Kept
  BY DEF DeleteFrom
<1>2. /\ Chain(next_id, SchemaBlocks, head, last)
      /\ next_id[last] = last
      /\ IsFiniteSet(SchemaBlocks) /\ IsFiniteSet(FreeBlocks)
  BY BlocksFinite DEF FileInv, SchemaChain, SchemaBlocks, FreeBlocks, Chain
<1>3. /\ b \in Blocks /\ b \in Nat /\ last \in SchemaBlocks /\ last \in Blocks
      /\ head \in SchemaBlocks /\ pre \in SchemaBlocks
  BY LastSchemaBlock DEF SchemaBlocks, Blocks, Predecessor
<1>4. \/ pre = b /\ b = head
      \/ pre # b /\ b # head /\ next_id[pre] = b
  BY DEF Predecessor
<1>5. /\ next_id \in [Blocks -> Nat] /\ db \in Header
      /\ type \in [Blocks -> BlockTypes]
  BY DEF FileInv, TypeOK
<1>6. next_id[b] \in Nat /\ unlinked \in [Blocks -> Nat]
  BY <1>3, <1>5
<1>7. first \in Nat
  BY <1>5, <1>6 DEF Header
<1>8. \A c \in Blocks : unlinked[c] = IF pre # b /\ c = pre THEN next_id[b]
                                      ELSE next_id[c]
  BY <1>5
<1>9. PICK tail \in FreeBlocks : Chain(next_id, FreeBlocks, db.first_clean_block, tail)
  BY DEF FileInv, FreeChain
<1>10. db.first_clean_block \in Nat /\ db.first_clean_block \in FreeBlocks
  BY <1>5, <1>9 DEF Chain, Header
<1>11. \A c \in FreeBlocks : c \in Blocks /\ c \notin SchemaBlocks /\ unlinked[c] = next_id[c]
  BY <1>3, <1>8 DEF FreeBlocks, SchemaBlocks
<1>12. ASSUME b # last
       PROVE  Chain(unlinked, SchemaBlocks \ {b}, first, last)
  <2>1. \/ /\ b = head /\ first = next_id[b]
           /\ \A c \in SchemaBlocks \ {b} : unlinked[c] = next_id[c]
        \/ /\ b # head /\ first = head
           /\ \E p \in SchemaBlocks \ {b} :
                /\ next_id[p] = b /\ unlinked[p] = next_id[b]
                /\ \A c \in SchemaBlocks \ {b, p} : unlinked[c] = next_id[c]
    BY <1>3, <1>4, <1>8 DEF SchemaBlocks
  <2> HIDE DEF unlinked, first, head, last
  <2> QED
    BY <1>2, <1>12, <2>1, ChainUnlink
<1> HIDE DEF unlinked, first
<1>13. CASE Freed
  <2>1. /\ db' \in Header /\ db'.first_clean_block = b
        /\ db'.schema_first_block_id = first /\ db'.schema_last_block_id = last
        /\ db'.block_num = db.block_num
    BY <1>13, <1>3, <1>5, <1>7 DEF Header
  <2>2. /\ type' \in [Blocks -> BlockTypes]
        /\ \A c \in Blocks : type'[c] = IF c = b THEN "FREE" ELSE type[c]
    BY <1>13, <1>5 DEF BlockTypes
  <2>3. type[b] = "SCHEMA"
    BY DEF SchemaBlocks
  <2>4. /\ SchemaBlocks' = SchemaBlocks \ {b}
        /\ FreeBlocks' = FreeBlocks \cup {b}
        /\ RecordBlocks' = RecordBlocks
    BY <1>3, <2>2, <2>3 DEF SchemaBlocks, FreeBlocks, RecordBlocks
  <2>5. /\ next_id' \in [Blocks -> Nat]
        /\ \A c \in Blocks : next_id'[c] = IF c = b THEN db.first_clean_block
                                           ELSE unlinked[c]
    BY <1>13, <1>6, <1>10
  <2>6. SchemaChain'
    <3>1. \A c \in SchemaBlocks \ {b} : next_id'[c] = unlinked[c]
      BY <2>5 DEF SchemaBlocks
    <3>2. Chain(unlinked, SchemaBlocks \ {b}, first, last)
      BY <1>12, <1>13
    <3>3. Chain(next_id', SchemaBlocks \ {b}, first, last)
      BY <3>1, <3>2, ChainCongruence
    <3> QED
      BY <3>3, <2>1, <2>4 DEF SchemaChain
  <2>7. FreeChain'
    <3>1. \A c \in FreeBlocks : next_id'[c] = next_id[c]
      BY <1>11, <2>5
    <3>2. next_id'[b] = db.first_clean_block /\ b \notin FreeBlocks
      BY <1>3, <1>11, <2>5
    <3>3. Chain(next_id', FreeBlocks \cup {b}, b, tail)
      BY <1>2, <1>9, <3>1, <3>2, ChainPush
    <3> QED
      BY <3>3, <2>1, <2>4 DEF FreeChain
  <2>8. BlocksAccounted'
    BY <2>1, <2>2, <2>3 DEF FileInv, BlocksAccounted
  <2> QED
    BY <2>1, <2>2, <2>4, <2>5, <2>6, <2>7, <2>8
<1>14. CASE Kept
  <2>1. /\ db' \in Header /\ db'.first_clean_block = db.first_clean_block
        /\ db'.schema_first_block_id = first /\ db'.schema_last_block_id = b
        /\ db'.block_num = db.block_num
    <3> DEFINE db1 == [db EXCEPT !.schema_first_block_id = first]
    <3>1. /\ db1 \in Header /\ db1.first_clean_block = db.first_clean_block
          /\ db1.schema_first_block_id = first /\ db1.block_num = db.block_num
      BY <1>5, <1>7 DEF Header
    <3>2. db' = [db1 EXCEPT !.schema_last_block_id = b]
      BY <1>14
    <3> HIDE DEF db1
    <3> QED
      BY <1>3, <3>1, <3>2 DEF Header
  <2>2. /\ SchemaBlocks' = SchemaBlocks /\ FreeBlocks' = FreeBlocks
        /\ RecordBlocks' = RecordBlocks /\ type' = type
    BY <1>14 DEF SchemaBlocks, FreeBlocks, RecordBlocks
  <2>3. /\ next_id' \in [Blocks -> Nat]
        /\ \A c \in Blocks : next_id'[c] = IF c = b \/ c = last THEN b
                                           ELSE unlinked[c]
    BY <1>14, <1>3, <1>6
  <2>4. FreeChain'
    <3>1. \A c \in FreeBlocks : next_id'[c] = next_id[c]
      BY <1>3, <1>11, <2>3
    <3>2. Chain(next_id', FreeBlocks, db.first_clean_block, tail)
      BY <1>9, <3>1, ChainCongruence
    <3> QED
      BY <3>2, <2>1, <2>2 DEF FreeChain
  <2>5. BlocksAccounted'
    BY <2>1, <2>2 DEF FileInv, BlocksAccounted
  <2>6. SchemaChain'
    <3>1. CASE b # last
      <4>1. Chain(unlinked, SchemaBlocks \ {b}, first, last)
        BY <1>12, <3>1
      <4>2. /\ next_id'[last] = b /\ next_id'[b] = b
            /\ \A c \in (SchemaBlocks \ {b}) \ {last} : next_id'[c] = unlinked[c]
        BY <1>3, <2>3 DEF SchemaBlocks
      <4>3. IsFiniteSet(SchemaBlocks \ {b}) /\ b \notin SchemaBlocks \ {b}
        BY <1>2, FS_Subset
      <4>4. Chain(next_id', (SchemaBlocks \ {b}) \cup {b}, first, b)
        BY <4>1, <4>2, <4>3, ChainAppend
      <4>5. (SchemaBlocks \ {b}) \cup {b} = SchemaBlocks
        OBVIOUS
      <4> QED
        BY <4>4, <4>5, <2>1, <2>2 DEF SchemaChain
    <3>2. CASE b = last
      <4>1. first = head
        BY <1>2, <1>4, <3>2 DEF first
      <4>2. \A c \in SchemaBlocks : next_id'[c] = next_id[c]
        BY <1>2, <1>4, <1>8, <2>3, <3>2 DEF SchemaBlocks
      <4>3. Chain(next_id', SchemaBlocks, head, last)
        BY <1>2, <4>2, ChainCongruence
      <4> QED
        BY <4>1, <4>3, <3>2, <2>1, <2>2 DEF SchemaChain
    <3> QED BY <3>1, <3>2
  <2> QED
    BY <1>5, <2>1, <2>2, <2>3, <2>4, <2>5, <2>6
<1> QED
  BY <1>1, <1>13, <1>14

(* delete_table_from_schema keeps the inductive invariant.                 *)
LEMMA DeleteTableInv ==
  ASSUME IInv, NEW n \in Names, DeleteTable(n)
  PROVE  IInv'
<1>0. FileInv /\ RowsGoToRecords
  BY DEF IInv
<1>1. PICK b \in Blocks, pre \in Blocks :
        \E p \in DOMAIN tables[b] :
          /\ b \in SchemaBlocks /\ Predecessor(pre, b)
          /\ \E moved \in SUBSET (Reads(b) \ {p}) :
               /\ FitInLast(b, Reads(b) \ {p}, moved)
               /\ DeleteFrom(b, pre, moved, (Reads(b) \ {p}) \ moved)
  BY DEF DeleteTable, Found
<1>13. PICK survivors \in SUBSET Reads(b) :
         \E moved \in SUBSET survivors :
           /\ FitInLast(b, survivors, moved)
           /\ DeleteFrom(b, pre, moved, survivors \ moved)
  BY <1>1
<1>2. PICK moved \in SUBSET survivors :
        /\ FitInLast(b, survivors, moved)
        /\ DeleteFrom(b, pre, moved, survivors \ moved)
  BY <1>13
<1>3. /\ creating = NoTable /\ creating' = creating /\ header' = db'
      /\ rows' = rows
  BY DEF DeleteTable, SaveHeader
<1>4. /\ SchemaChain' /\ FreeChain' /\ BlocksAccounted'
      /\ next_id' \in [Blocks -> Nat] /\ db' \in Header
      /\ type' \in [Blocks -> BlockTypes] /\ RecordBlocks' = RecordBlocks
  BY <1>0, <1>1, <1>2, DeleteFromChains
<1> DEFINE last == db.schema_last_block_id
           kept == survivors \ moved
           laid == Laid(offset[last], b, moved)
           own == Laid(SizeOfBlock, b, kept)
<1>14. Deleted(b, moved, kept) /\ Fitting'
  BY <1>0, <1>2, <1>3, DeleteFromPages
<1>6. moved \in SUBSET DOMAIN tables[b] /\ kept \in SUBSET DOMAIN tables[b]
  BY DEF Reads
<1> HIDE DEF kept
<1>5. /\ last \in Blocks
      /\ offset[last] \in Nat /\ SizeOfBlock <= offset[last]
      /\ offset[last] + Total(Sizes(b), moved) < BlockSize
      /\ SizeOfBlock + Total(Sizes(b), kept) < BlockSize
      /\ Page(tables[b], offset[b]) /\ offset[b] \in Nat
      /\ DOMAIN tables' = Blocks /\ offset' \in [Blocks -> Places]
      /\ \A c \in Blocks :
           tables'[c] = IF c = b THEN own
                        ELSE IF c = last THEN Over(tables[last], laid) ELSE tables[c]
  BY <1>14 DEF Deleted
<1> HIDE DEF last
<1>7. \A x \in DOMAIN laid : \E p \in DOMAIN tables[b] : laid[x] = tables[b][p]
  <2> TAKE x \in DOMAIN laid
  <2>1. \E p \in moved : laid[x] = tables[b][p]
    BY <1>5, <1>6, LaidFrom
  <2> QED BY <1>6, <2>1
<1>8. \A x \in DOMAIN own : \E p \in DOMAIN tables[b] : own[x] = tables[b][p]
  <2>1. SizeOfBlock \in Nat /\ SizeOfBlock <= SizeOfBlock
    BY DEF SizeOfBlock
  <2> TAKE x \in DOMAIN own
  <2>2. \E p \in kept : own[x] = tables[b][p]
    BY <1>5, <1>6, <2>1, LaidFrom
  <2> QED BY <1>6, <2>2
<1> HIDE DEF laid, own
<1>9. TypeOK'
  <2>1. /\ header' \in Header /\ rows' \in [Blocks -> Nat]
        /\ \A x \in RecordBlocks' : \E c \in ColumnCounts : rows'[x] <= RecordSlots[c]
    BY <1>0, <1>3, <1>4 DEF FileInv, TypeOK
  <2> QED
    BY <1>3, <1>4, <1>5, <1>14, <2>1 DEF TypeOK, Fitting, Page, Fit
<1>10. \A c \in Blocks : \A p \in DOMAIN tables[c] :
         tables[c][p].last_record_block_id \in RecordBlocks /\ tables[c][p] \in Table
  BY <1>0, <1>3 DEF RowsGoToRecords, IsBeingCreated, FileInv, Fitting, Page, Fit
<1>11. ASSUME NEW c \in Blocks, NEW x \in DOMAIN tables'[c]
       PROVE  tables'[c][x].last_record_block_id \in RecordBlocks
  <2>1. CASE c = b
    BY <1>5, <1>8, <1>10, <2>1
  <2>2. CASE c # b /\ c = last
    <3>1. tables'[c] = Over(tables[last], laid)
      BY <1>5, <2>2
    <3>2. \/ x \in DOMAIN laid /\ tables'[c][x] = laid[x]
          \/ x \in DOMAIN tables[last] /\ Alike(tables'[c][x], tables[last][x])
      BY <3>1, OverIs
    <3>3. CASE x \in DOMAIN laid /\ tables'[c][x] = laid[x]
      BY <1>7, <1>10, <3>3
    <3>4. CASE x \in DOMAIN tables[last] /\ Alike(tables'[c][x], tables[last][x])
      BY <1>5, <1>10, <3>4, AlikeSame
    <3> QED BY <3>2, <3>3, <3>4
  <2>3. CASE c # b /\ c # last
    BY <1>5, <1>10, <2>3
  <2> QED BY <2>1, <2>2, <2>3
<1>12. RowsGoToRecords'
  BY <1>3, <1>4, <1>11 DEF RowsGoToRecords
<1> QED
  BY <1>4, <1>9, <1>12, <1>14 DEF IInv, FileInv

-----------------------------------------------------------------------------
(* Every step of the pager keeps the inductive invariant.                  *)
LEMMA NextInv == IInv /\ [Next]_vars => IInv'
<1> SUFFICES ASSUME IInv, [Next]_vars PROVE IInv'
  OBVIOUS
<1>1. ASSUME NEW n \in Names, NEW c \in ColumnCounts, InsertTable(n, c) PROVE IInv'
  BY <1>1, InsertTableInv
<1>2. CASE InitializeTableRecordBlock
  BY <1>2, InitializeTableRecordBlockInv
<1>3. ASSUME NEW n \in Names, InsertRecord(n) PROVE IInv'
  BY <1>3, InsertRecordInv
<1>4. ASSUME NEW n \in Names, DeleteTable(n) PROVE IInv'
  BY <1>4, DeleteTableInv
<1>5. CASE UNCHANGED vars
  BY <1>5 DEF vars, IInv, FileInv, Fitting, TypeOK, SchemaChain, FreeChain, BlocksAccounted,
     RowsGoToRecords, IsBeingCreated, SchemaBlocks, FreeBlocks, RecordBlocks
<1> QED
  BY <1>1, <1>2, <1>3, <1>4, <1>5 DEF Next

(* The inductive invariant holds in every reachable state, whatever the    *)
(* names, the sizes of the blocks and the calls the caller makes.          *)
THEOREM PagerInductive == Spec => []IInv
<1>1. Init => IInv
  BY InitInv
<1>2. IInv /\ [Next]_vars => IInv'
  BY NextInv
<1> QED
  BY <1>1, <1>2, PTL DEF Spec

(* No page is overfull and every field keeps its range.                    *)
THEOREM PagerTypeOK == Spec => []TypeOK
<1>1. IInv => TypeOK
  BY DEF IInv, FileInv
<1> QED
  BY <1>1, PagerInductive, PTL

(* The blocks marked SCHEMA are exactly those on the walk from the first   *)
(* schema block to the last, once each: no CREATE or DROP loses a block of *)
(* the schema or cuts the walk short.                                      *)
THEOREM PagerSchemaChain == Spec => []SchemaChain
<1>1. IInv => SchemaChain
  BY DEF IInv, FileInv
<1> QED
  BY <1>1, PagerInductive, PTL

(* The blocks marked FREE are exactly those on the free list: a block is   *)
(* never handed out while in use.                                          *)
THEOREM PagerFreeChain == Spec => []FreeChain
<1>1. IInv => FreeChain
  BY DEF IInv, FileInv
<1> QED
  BY <1>1, PagerInductive, PTL

(* The file grows by one page at a time and has no hole.                   *)
THEOREM PagerBlocksAccounted == Spec => []BlocksAccounted
<1>1. IInv => BlocksAccounted
  BY DEF IInv, FileInv
<1> QED
  BY <1>1, PagerInductive, PTL

(* insert_record_to_table writes rows to RECORD blocks only, even through  *)
(* descriptors that drops have moved and inserts have copied.              *)
THEOREM PagerRowsGoToRecords == Spec => []RowsGoToRecords
<1>1. IInv => RowsGoToRecords
  BY DEF IInv, FileInv
<1> QED
  BY <1>1, PagerInductive, PTL

-----------------------------------------------------------------------------
-----------------------------------------------------------------------------
(* The programs.                                                           *)

Kinds ==
  {"insert_table_to_schema", "initialize_table_record_block", "insert_record_to_table",
   "delete_table_from_schema", "initialize_first_free_block", "free"}

Asked ==
  [do : Kinds \ {"insert_table_to_schema"}, name : Names] \cup
  [do : {"insert_table_to_schema"}, name : Names, num_columns : ColumnCounts]

Line == [calls : SUBSET Asked, loop : BOOLEAN]

(* The calls of all the lines of a program are of these kinds.             *)
Only(program, kinds) ==
  \A l \in DOMAIN program : \A c \in program[l].calls : c.do \in kinds

CreateAndInsert ==
  {"insert_table_to_schema", "initialize_table_record_block", "insert_record_to_table"}

(* What a program of the pager's own five calls may do.                    *)
PagerCalls == CreateAndInsert \cup {"delete_table_from_schema"}

-----------------------------------------------------------------------------
(* Programs.                                                               *)

LEMMA OnlyConcat ==
  ASSUME NEW s \in Seq(Line), NEW t \in Seq(Line), NEW kinds,
         Only(s, kinds), Only(t, kinds)
  PROVE  s \o t \in Seq(Line) /\ Only(s \o t, kinds)
<1>1. ASSUME NEW l \in DOMAIN (s \o t), NEW c \in (s \o t)[l].calls
      PROVE  c.do \in kinds
  <2>1. CASE l \in DOMAIN s
    BY <1>1, <2>1 DEF Only
  <2>2. CASE l \notin DOMAIN s
    <3>1. l - Len(s) \in DOMAIN t /\ (s \o t)[l] = t[l - Len(s)]
      BY <2>2
    <3> QED BY <1>1, <3>1 DEF Only
  <2> QED BY <2>1, <2>2
<1> QED BY <1>1 DEF Only

LEMMA OnlyOne ==
  ASSUME NEW line_ \in Line, NEW kinds, \A c \in line_.calls : c.do \in kinds
  PROVE  <<line_>> \in Seq(Line) /\ Only(<<line_>>, kinds)
BY DEF Only

LEMMA OnlyNew ==
  ASSUME NEW n \in Names, NEW cols \in ColumnCounts
  PROVE  New(n, cols) \in Seq(Line) /\ Only(New(n, cols), CreateAndInsert)
<1> DEFINE a == Once(Creates(n, cols))
           b == Once(MakesBlock(n))
<1>1. a \in Line /\ \A c \in a.calls : c.do \in CreateAndInsert
  BY DEF Once, Creates, Asked, Line, Kinds, CreateAndInsert
<1>2. b \in Line /\ \A c \in b.calls : c.do \in CreateAndInsert
  BY DEF Once, MakesBlock, CallOn, Asked, Line, Kinds, CreateAndInsert
<1>3. New(n, cols) = <<a>> \o <<b>>
  BY <1>1, <1>2 DEF New
<1> HIDE DEF a, b
<1> QED BY <1>1, <1>2, <1>3, OnlyOne, OnlyConcat

LEMMA OnlyInserts ==
  ASSUME NEW n \in Names, NEW m \in Names
  PROVE  /\ <<Loop({Inserts(n)})>> \in Seq(Line)
         /\ Only(<<Loop({Inserts(n)})>>, CreateAndInsert)
         /\ <<Loop({Inserts(n), Inserts(m)})>> \in Seq(Line)
         /\ Only(<<Loop({Inserts(n), Inserts(m)})>>, CreateAndInsert)
<1>1. ASSUME NEW S \in SUBSET {Inserts(n), Inserts(m)}
      PROVE  Loop(S) \in Line /\ \A c \in Loop(S).calls : c.do \in CreateAndInsert
  BY DEF Loop, Inserts, CallOn, Asked, Line, Kinds, CreateAndInsert
<1> QED BY <1>1, OnlyOne

LEMMA OnlyAll ==
  ASSUME NEW S \in SUBSET (Create \cup Insert \cup Drop)
  PROVE  <<Loop(S)>> \in Seq(Line) /\ Only(<<Loop(S)>>, PagerCalls)
<1>1. \A c \in S : c \in Asked /\ c.do \in PagerCalls
  BY DEF Asked, Create, Insert, Drop, OfAll, Creates, MakesBlock, Inserts, Drops, CallOn, Kinds,
         PagerCalls, CreateAndInsert
<1>2. Loop(S) \in Line /\ \A c \in Loop(S).calls : c.do \in PagerCalls
  BY <1>1 DEF Loop, Line
<1> QED BY <1>2, OnlyOne

LEMMA OnlyFilled ==
  ASSUME NEW n \in Names, NEW cols \in ColumnCounts
  PROVE  FilledTable(n, cols) \in Seq(Line) /\ Only(FilledTable(n, cols), CreateAndInsert)
BY OnlyNew, OnlyInserts, OnlyConcat DEF FilledTable

LEMMA OnlyTwoTables ==
  /\ main \in Seq(Line) /\ Only(main, CreateAndInsert)
  /\ deletion_from_scheme = main
  /\ join_test \in Seq(Line) /\ Only(join_test, CreateAndInsert)
<1> USE CallersAssumption
<1>1. TwoTables \in Seq(Line) /\ Only(TwoTables, CreateAndInsert)
  BY OnlyNew, OnlyConcat DEF TwoTables
<1>2. join_test = TwoTables \o <<Loop({Inserts(tb1), Inserts(tb2)})>>
  BY DEF join_test
<1>3. join_test \in Seq(Line) /\ Only(join_test, CreateAndInsert)
  BY <1>1, <1>2, OnlyInserts, OnlyConcat
<1> DEFINE x == Loop({Inserts(tb1)})
           y == Loop({Inserts(tb2)})
<1>4. <<x>> \in Seq(Line) /\ <<y>> \in Seq(Line)
      /\ Only(<<x>>, CreateAndInsert) /\ Only(<<y>>, CreateAndInsert)
  BY OnlyInserts
<1>5. <<x, y>> = <<x>> \o <<y>>
  OBVIOUS
<1>6. <<x, y>> \in Seq(Line) /\ Only(<<x, y>>, CreateAndInsert)
  <2> HIDE DEF x, y
  <2> QED BY <1>4, <1>5, OnlyConcat
<1>7. main \in Seq(Line) /\ Only(main, CreateAndInsert)
  <2>1. main = TwoTables \o <<x, y>>
    BY DEF main
  <2> HIDE DEF x, y
  <2> QED BY <1>1, <1>6, <2>1, OnlyConcat
<1> QED BY <1>3, <1>7 DEF main, deletion_from_scheme

LEMMA OnlyTesting ==
  /\ testing_creation \in Seq(Line)
  /\ Only(testing_creation, CreateAndInsert \cup {"initialize_first_free_block"})
<1> USE CallersAssumption
<1> DEFINE kinds == CreateAndInsert \cup {"initialize_first_free_block"}
           f == Once(FirstFree(tb1))
           x == Loop({Inserts(tb1)})
<1>1. ASSUME NEW s \in Seq(Line), Only(s, CreateAndInsert) PROVE Only(s, kinds)
  BY <1>1 DEF Only
<1>2. f \in Line /\ \A c \in f.calls : c.do \in kinds
  BY DEF Once, FirstFree, CallOn, Asked, Line, Kinds
<1>3. <<f>> \in Seq(Line) /\ Only(<<f>>, kinds)
  <2> HIDE DEF f
  <2> QED BY <1>2, OnlyOne
<1>4. /\ New(tb1, 4) \in Seq(Line) /\ Only(New(tb1, 4), kinds)
      /\ New(tb2, 3) \in Seq(Line) /\ Only(New(tb2, 3), kinds)
      /\ <<x>> \in Seq(Line) /\ Only(<<x>>, kinds)
  BY <1>1, OnlyNew, OnlyInserts
<1>5. testing_creation = New(tb1, 4) \o <<f>> \o New(tb2, 3) \o <<x>>
  BY DEF testing_creation
<1> HIDE DEF f, x, kinds
<1>6. New(tb1, 4) \o <<f>> \in Seq(Line) /\ Only(New(tb1, 4) \o <<f>>, kinds)
  BY <1>3, <1>4, OnlyConcat
<1>7. /\ New(tb1, 4) \o <<f>> \o New(tb2, 3) \in Seq(Line)
      /\ Only(New(tb1, 4) \o <<f>> \o New(tb2, 3), kinds)
  BY <1>4, <1>6, OnlyConcat
<1>8. /\ New(tb1, 4) \o <<f>> \o New(tb2, 3) \o <<x>> \in Seq(Line)
      /\ Only(New(tb1, 4) \o <<f>> \o New(tb2, 3) \o <<x>>, kinds)
  BY <1>4, <1>7, OnlyConcat
<1> QED BY <1>5, <1>8 DEF kinds

LEMMA OnlyMeans ==
  ASSUME NEW s \in Seq(Line), NEW kinds, Only(s, kinds),
         NEW l \in DOMAIN s, NEW c \in s[l].calls
  PROVE  /\ c.do \in kinds /\ c.name \in Names
         /\ c.do = "insert_table_to_schema" => c.num_columns \in ColumnCounts
<1>1. s[l] \in Line
  BY ElementOfSeq, LenProperties
<1>2. c \in Asked
  BY <1>1 DEF Line
<1> QED BY <1>2 DEF Only, Asked

(* Only two programs free a table they are creating, only one initializes  *)
(* a free block again, two drop tables, and one of these inserts no row.   *)
LEMMA CallsMade ==
  ASSUME NEW p \in DOMAIN Programs \ WithoutBlocks,
         NEW l \in DOMAIN Programs[p], NEW c \in Programs[p][l].calls
  PROVE  /\ c.do # "free" /\ c.name \in Names
         /\ c.do = "insert_table_to_schema" => c.num_columns \in ColumnCounts
         /\ p \notin Dropping => c.do # "delete_table_from_schema"
         /\ p = "create_and_drop" => c.do # "insert_record_to_table"
         /\ p # "testing_creation" => c.do # "initialize_first_free_block"
<1> USE CallersAssumption
<1> DEFINE Means(e) ==
      /\ e.name \in Names
      /\ e.do = "insert_table_to_schema" => e.num_columns \in ColumnCounts
<1>1. CASE p \in {"create_and_insert", "create_and_drop", "all_calls"}
  <2>1. PICK S \in SUBSET (Create \cup Insert \cup Drop) :
          /\ Programs[p] = <<Loop(S)>>
          /\ p = "create_and_insert" => S \subseteq Create \cup Insert
          /\ p = "create_and_drop" => S \subseteq Create \cup Drop
    BY <1>1 DEF Programs
  <2>2. Programs[p] \in Seq(Line) /\ Only(Programs[p], PagerCalls)
    BY <2>1, OnlyAll
  <2>3. c.do \in PagerCalls /\ Means(c)
    BY <2>2, OnlyMeans
  <2>4. c \in S
    BY <2>1 DEF Loop
  <2>5. /\ c \in Create \cup Insert => c.do # "delete_table_from_schema"
        /\ c \in Create \cup Drop => c.do # "insert_record_to_table"
    BY DEF Create, Insert, Drop, OfAll, Creates, MakesBlock, Inserts, Drops, CallOn
  <2> QED BY <1>1, <2>1, <2>3, <2>4, <2>5 DEF PagerCalls, CreateAndInsert, Dropping
<1>2. CASE p \in {"main", "deletion_from_scheme", "join_test"}
  <2>1. Programs[p] \in {main, join_test}
    BY <1>2, OnlyTwoTables DEF Programs
  <2>2. Programs[p] \in Seq(Line) /\ Only(Programs[p], CreateAndInsert)
    BY <2>1, OnlyTwoTables
  <2>3. c.do \in CreateAndInsert /\ Means(c)
    BY <2>2, OnlyMeans
  <2> QED BY <1>2, <2>3 DEF CreateAndInsert
<1>3. CASE p \in {"insert_test", "select_test", "delete_test", "update_test"}
  <2>1. Programs[p] = FilledTable(tb2, 3)
    BY <1>3 DEF Programs, insert_test, select_test, delete_test, update_test
  <2>2. Programs[p] \in Seq(Line) /\ Only(Programs[p], CreateAndInsert)
    BY <2>1, OnlyFilled
  <2>3. c.do \in CreateAndInsert /\ Means(c)
    BY <2>2, OnlyMeans
  <2> QED BY <1>3, <2>3 DEF CreateAndInsert
<1>4. CASE p = "testing_creation"
  <2>1. Programs[p] = testing_creation
    BY <1>4 DEF Programs
  <2>2. Programs[p] \in Seq(Line) /\ Only(Programs[p], CreateAndInsert \cup {"initialize_first_free_block"})
    BY <2>1, OnlyTesting
  <2>3. /\ c.do \in CreateAndInsert \cup {"initialize_first_free_block"}
        /\ Means(c)
    BY <2>2, OnlyMeans
  <2> QED BY <1>4, <2>3 DEF CreateAndInsert
<1>5. p \in {"create_and_insert", "create_and_drop", "all_calls", "main",
             "deletion_from_scheme", "join_test", "insert_test", "select_test",
             "delete_test", "update_test", "testing_creation"}
  BY DEF Programs, WithoutBlocks
<1> QED BY <1>1, <1>2, <1>3, <1>4, <1>5

(* ... and those two do nothing else than create and free.                 *)
LEMMA CallsWithoutBlocks ==
  ASSUME NEW p \in WithoutBlocks,
         NEW l \in DOMAIN Programs[p], NEW c \in Programs[p][l].calls
  PROVE  /\ c.do \in {"insert_table_to_schema", "free"} /\ c.name \in Names
         /\ c.do = "insert_table_to_schema" => c.num_columns \in ColumnCounts
<1> USE CallersAssumption
<1> DEFINE kinds == {"insert_table_to_schema", "free"}
           a == Once(Creates(tb1, 4))
           b == Once(Frees(tb1))
           x == Loop({Creates(tb1, 4), Frees(tb1)})
           y == Loop({Creates(tb2, 4), Frees(tb2)})
<1>1. /\ a \in Line /\ \A e \in a.calls : e.do \in kinds
      /\ b \in Line /\ \A e \in b.calls : e.do \in kinds
      /\ x \in Line /\ \A e \in x.calls : e.do \in kinds
      /\ y \in Line /\ \A e \in y.calls : e.do \in kinds
  <2>1. ASSUME NEW n \in Names, NEW k \in ColumnCounts
        PROVE  /\ Once(Creates(n, k)) \in Line
               /\ \A e \in Once(Creates(n, k)).calls : e.do \in kinds
               /\ Once(Frees(n)) \in Line /\ \A e \in Once(Frees(n)).calls : e.do \in kinds
    BY DEF Once, Creates, Frees, CallOn, Asked, Line, Kinds
  <2>2. ASSUME NEW n \in Names, NEW k \in ColumnCounts
        PROVE  LET both == Loop({Creates(n, k), Frees(n)})
               IN  both \in Line /\ \A e \in both.calls : e.do \in kinds
    BY DEF Loop, Creates, Frees, CallOn, Asked, Line, Kinds
  <2> QED BY <2>1, <2>2
<1>2. CASE p = "test_scheme_addition"
  <2>1. Programs[p] = <<x>>
    BY <1>2 DEF Programs, test_scheme_addition
  <2> HIDE DEF x
  <2>2. Programs[p] \in Seq(Line) /\ Only(Programs[p], kinds)
    BY <1>1, <2>1, OnlyOne
  <2> QED BY <2>2, OnlyMeans
<1>3. CASE p = "check_scheme_return"
  <2>1. Programs[p] = <<a, b, y>>
    BY <1>3 DEF Programs, check_scheme_return
  <2> HIDE DEF a, b, y
  <2>2. Programs[p] \in Seq(Line) /\ Only(Programs[p], kinds)
    BY <1>1, <2>1 DEF Only
  <2> QED BY <2>2, OnlyMeans
<1> QED BY <1>2, <1>3 DEF WithoutBlocks

-----------------------------------------------------------------------------
(* The invariant.  What testing_creation writes again must be the only     *)
(* free block: nothing is ever freed, so the list has one block.           *)
CInv ==
  /\ caller \in DOMAIN Programs
  /\ FileInv
  /\ caller \notin WithoutBlocks => RowsGoToRecords
  /\ caller = "testing_creation" => Grows

(* Popping the only free block leaves the new one the only one.            *)
LEMMA PopKeepsOne ==
  ASSUME IInv, CanPop, Grows, NEW last \in Blocks, type[last] # "NONE",
         db'.first_clean_block = PoppedDb.first_clean_block,
         next_id' = GrownNext \/ next_id' = ExtendedNext(last)
  PROVE  Grows'
<1>0. FileInv
  BY DEF IInv, FileInv
<1> USE <1>0
<1> DEFINE g == db.block_num
<1>1. g \in Blocks /\ type[g] = "NONE" /\ Popped \in FreeBlocks
  BY PoppedIsFree
<1>2. Popped' = g
  <2>1. db \in Header
    BY DEF FileInv, TypeOK
  <2> QED BY <2>1 DEF Popped, PoppedDb, Header
<1>3. GrownNext \in [Blocks -> Nat \cup Blocks] /\ GrownNext[g] = g
  BY <1>1 DEF GrownNext, FileInv, TypeOK
<1>4. g # last /\ g # Popped
  BY <1>1 DEF FreeBlocks
<1>5. next_id'[g] = g
  BY <1>1, <1>3, <1>4 DEF ExtendedNext
<1> QED BY <1>2, <1>5 DEF Grows

LEMMA PagerKeepsOne ==
  ASSUME IInv, Grows,
         \/ \E n \in Names, k \in ColumnCounts : InsertTable(n, k)
         \/ InitializeTableRecordBlock
         \/ \E n \in Names : InsertRecord(n)
  PROVE  Grows'
<1>0. FileInv
  BY DEF IInv, FileInv
<1> USE <1>0
<1>1. ASSUME NEW n \in Names, NEW k \in ColumnCounts, InsertTable(n, k) PROVE Grows'
  <2> DEFINE last == db.schema_last_block_id
  <2>1. last \in Blocks /\ type[last] # "NONE"
    BY LastSchemaBlock DEF SchemaBlocks
  <2>2. CASE UNCHANGED <<db, next_id>>
    BY <2>2 DEF Grows, Popped
  <2>3. CASE /\ CanPop /\ db' = [PoppedDb EXCEPT !.schema_last_block_id = Popped]
             /\ next_id' = ExtendedNext(last)
    <3>1. db'.first_clean_block = PoppedDb.first_clean_block
      BY <2>3, PoppedDbType DEF Header
    <3> QED BY <2>1, <2>3, <3>1, PopKeepsOne
  <2> QED BY <1>1, <2>2, <2>3 DEF InsertTable
<1>2. CASE InitializeTableRecordBlock
  <2>1. Popped \in Blocks /\ type[Popped] # "NONE" /\ CanPop
    BY <1>2, PoppedIsFree DEF FreeBlocks, InitializeTableRecordBlock
  <2> QED BY <1>2, <2>1, PopKeepsOne DEF InitializeTableRecordBlock
<1>3. ASSUME NEW n \in Names, InsertRecord(n) PROVE Grows'
  <2>1. PICK b \in Blocks : \E i \in DOMAIN tables[b] : InsertThrough(tables[b][i])
    BY <1>3 DEF InsertRecord
  <2>2. PICK i \in DOMAIN tables[b] : InsertThrough(tables[b][i])
    BY <2>1
  <2> DEFINE last == tables[b][i].last_record_block_id
  <2>3. last \in Blocks /\ type[last] # "NONE"
    BY <1>3 DEF InsertRecord, IInv, RowsGoToRecords, IsBeingCreated, RecordBlocks
  <2>4. CASE UNCHANGED <<db, next_id>>
    BY <2>4 DEF Grows, Popped
  <2>5. CASE CanPop /\ db' = PoppedDb /\ next_id' = ExtendedNext(last)
    BY <2>3, <2>5, PopKeepsOne
  <2> QED BY <2>2, <2>4, <2>5 DEF InsertThrough
<1> QED BY <1>1, <1>2, <1>3

(* Writing the only free block again changes nothing.                      *)
LEMMA FirstFreeInv ==
  ASSUME IInv, Grows, InitializeFirstFreeBlock
  PROVE  IInv' /\ Grows'
<1>1. PICK tail \in FreeBlocks :
         Chain(next_id, FreeBlocks, db.first_clean_block, tail)
  BY DEF IInv, FileInv, FreeChain
<1>2. Popped \in Blocks /\ type[Popped] = "FREE" /\ next_id[Popped] = Popped
  BY <1>1 DEF Chain, Popped, FreeBlocks, Grows
<1>3. type' = type /\ next_id' = next_id
  BY <1>2 DEF InitializeFirstFreeBlock, IInv, FileInv, TypeOK
<1>4. UNCHANGED vars
  BY <1>3 DEF InitializeFirstFreeBlock, vars
<1>5. IInv'
  BY <1>4, NextInv
<1> QED BY <1>4, <1>5 DEF vars, Grows, Popped

LEMMA RunInv ==
  ASSUME CInv, caller \notin WithoutBlocks, Run
  PROVE  CInv'
<1>1. PICK c \in Programs[caller][line].calls : Call(c)
  BY DEF Run
<1>2. caller' = caller /\ caller \in DOMAIN Programs /\ line \in DOMAIN Programs[caller]
  BY DEF Run, CInv
<1>3. /\ c.do # "free" /\ c.name \in Names
      /\ c.do = "insert_table_to_schema" => c.num_columns \in ColumnCounts
      /\ caller = "testing_creation" => c.do # "delete_table_from_schema"
      /\ caller # "testing_creation" => c.do # "initialize_first_free_block"
  BY <1>2, CallsMade DEF Dropping
<1>4. IInv /\ (caller = "testing_creation" => Grows)
  BY DEF CInv, IInv, FileInv
<1>5. SUFFICES IInv' /\ (caller = "testing_creation" => Grows')
  BY <1>2 DEF CInv, IInv, FileInv
<1>6. CASE \/ \E n \in Names, k \in ColumnCounts : InsertTable(n, k)
           \/ InitializeTableRecordBlock
           \/ \E n \in Names : InsertRecord(n)
  <2>1. IInv'
    BY <1>4, <1>6, NextInv DEF Next
  <2>2. caller = "testing_creation" => Grows'
    BY <1>4, <1>6, PagerKeepsOne
  <2> QED BY <2>1, <2>2
<1>7. CASE c.do = "delete_table_from_schema" /\ \E n \in Names : DeleteTable(n)
  <2>1. IInv'
    BY <1>4, <1>7, NextInv DEF Next
  <2> QED BY <1>3, <1>7, <2>1
<1>8. CASE c.do = "initialize_first_free_block" /\ InitializeFirstFreeBlock
  BY <1>3, <1>4, <1>8, FirstFreeInv
<1> QED BY <1>1, <1>3, <1>6, <1>7, <1>8 DEF Call

(* A table that never gets a record block disturbs no chain.               *)
LEMMA RunWithoutBlocksInv ==
  ASSUME CInv, caller \in WithoutBlocks, Run
  PROVE  CInv'
<1>1. PICK c \in Programs[caller][line].calls : Call(c)
  BY DEF Run
<1>2. caller' = caller /\ caller \in DOMAIN Programs /\ line \in DOMAIN Programs[caller]
  BY DEF Run, CInv
<1>3. /\ c.do \in {"insert_table_to_schema", "free"} /\ c.name \in Names
      /\ c.do = "insert_table_to_schema" => c.num_columns \in ColumnCounts
  BY <1>2, CallsWithoutBlocks
<1>4. SUFFICES FileInv'
  BY <1>2 DEF CInv, WithoutBlocks
<1>5. CASE c.do = "insert_table_to_schema" /\ InsertTable(c.name, c.num_columns)
  BY <1>3, <1>5, InsertTableKeepsFile DEF CInv
<1>6. CASE FreeTable
  BY <1>6 DEF FreeTable, CInv, FileInv, Fitting, TypeOK, RecordBlocks, SchemaChain, FreeChain, BlocksAccounted,
              SchemaBlocks, FreeBlocks
<1> QED BY <1>1, <1>3, <1>5, <1>6 DEF Call

LEMMA CallersStep == CInv /\ [CNext]_cvars => CInv'
<1> SUFFICES ASSUME CInv, [CNext]_cvars PROVE CInv'
  OBVIOUS
<1>1. CASE Run
  BY <1>1, RunInv, RunWithoutBlocksInv
<1>2. CASE UNCHANGED <<vars, caller>>
  BY <1>2 DEF vars, CInv, FileInv, Fitting, TypeOK, SchemaChain, FreeChain, BlocksAccounted,
     RowsGoToRecords, IsBeingCreated, SchemaBlocks, FreeBlocks, RecordBlocks, Grows, Popped
<1> QED BY <1>1, <1>2 DEF CNext, LoopEnd, cvars

LEMMA CallersInductive == CSpec => []CInv
<1>1. CInit => CInv
  <2> SUFFICES ASSUME CInit PROVE CInv
    OBVIOUS
  <2>1. IInv
    BY InitInv DEF CInit
  <2>2. Grows
    BY PagerAssumption DEF CInit, Init, NewHeader, Grows, Popped, Blocks
  <2> QED BY <2>1, <2>2 DEF CInv, CInit, IInv, FileInv
<1> QED BY <1>1, CallersStep, PTL DEF CSpec

-----------------------------------------------------------------------------
(* Whatever execute_query or a function of main.c calls, and in whatever   *)
(* order: no page is overfull and every field keeps its range.             *)
THEOREM CallersTypeOK == CSpec => []TypeOK
<1>1. CInv => TypeOK
  BY DEF CInv, FileInv
<1> QED BY <1>1, CallersInductive, PTL

(* ... the schema chain is never cut and passes every SCHEMA block once,   *)
(* also with tables that never got a record block.                         *)
THEOREM CallersSchemaChain == CSpec => []SchemaChain
<1>1. CInv => SchemaChain
  BY DEF CInv, FileInv
<1> QED BY <1>1, CallersInductive, PTL

(* ... the free list holds exactly the FREE blocks, also behind the second *)
(* initialize_first_free_block of testing_creation.                        *)
THEOREM CallersFreeChain == CSpec => []FreeChain
<1>1. CInv => FreeChain
  BY DEF CInv, FileInv
<1> QED BY <1>1, CallersInductive, PTL

(* ... the file has no hole.                                               *)
THEOREM CallersBlocksAccounted == CSpec => []BlocksAccounted
<1>1. CInv => BlocksAccounted
  BY DEF CInv, FileInv
<1> QED BY <1>1, CallersInductive, PTL

(* ... and page 0 is behind the header in memory by no more than one pop,  *)
(* of a record block without rows.                                         *)
HeaderInv ==
  /\ CInv
  /\ creating # NoTable => header = db
  /\ SavedHeader

(* The header stays behind by the same pop.                                *)
LEMMA HeaderStays ==
  ASSUME HeaderInv, UNCHANGED <<db, header, rows>>, creating' \in {creating, NoTable},
         \A b \in RecordBlocks : b \in RecordBlocks' /\ next_id'[b] = next_id[b]
  PROVE  SavedHeader' /\ (creating' # NoTable => header' = db')
BY DEF HeaderInv, SavedHeader

LEMMA InitializeSavesHeader ==
  ASSUME HeaderInv, InitializeTableRecordBlock
  PROVE  SavedHeader' /\ creating' = NoTable
<1>1. /\ FileInv /\ CanPop /\ header = db /\ header' = header /\ creating' = NoTable
      /\ db' = PoppedDb /\ type' = PoppedType("RECORD") /\ next_id' = GrownNext
      /\ rows' = [rows EXCEPT ![Popped] = 0]
  BY DEF HeaderInv, CInv, InitializeTableRecordBlock
<1>2. /\ Popped \in Blocks /\ type[Popped] = "FREE"
      /\ Grows => type[db.block_num] = "NONE"
  BY <1>1, PoppedIsFree DEF FreeBlocks
<1>3. Popped \in RecordBlocks' /\ rows'[Popped] = 0
  BY <1>1, <1>2, PoppedSets DEF FileInv, TypeOK
<1>4. next_id'[Popped] = next_id[Popped]
  BY <1>1, <1>2 DEF GrownNext
<1>5. header'.first_clean_block = Popped
  BY <1>1 DEF Popped
<1>6. db' = IF next_id'[Popped] = Popped
            THEN [header' EXCEPT !.first_clean_block = header'.block_num,
                                 !.block_num = @ + 1]
            ELSE [header' EXCEPT !.first_clean_block = next_id'[Popped]]
  BY <1>1, <1>4 DEF PoppedDb, Grows
<1> QED BY <1>1, <1>3, <1>5, <1>6 DEF SavedHeader

LEMMA CallSavesHeader ==
  ASSUME HeaderInv, NEW c, Call(c)
  PROVE  SavedHeader' /\ (creating' # NoTable => header' = db')
<1>1. ASSUME NEW n, NEW k, InsertTable(n, k) PROVE header' = db'
  BY <1>1 DEF InsertTable, SaveHeader
<1>2. ASSUME NEW n, InsertRecord(n) \/ DeleteTable(n) PROVE header' = db'
  BY <1>2 DEF InsertRecord, InsertThrough, DeleteTable, SaveHeader
<1>3. CASE header' = db'
  BY <1>3 DEF SavedHeader
<1>4. CASE InitializeTableRecordBlock
  BY <1>4, InitializeSavesHeader
<1>5. CASE InitializeFirstFreeBlock
  <2>1. type[Popped] = "FREE"
    BY DEF HeaderInv, CInv, FileInv, FreeChain, Chain, FreeBlocks, Popped
  <2>2. \A b \in RecordBlocks : b \in RecordBlocks' /\ next_id'[b] = next_id[b]
    BY <1>5, <2>1 DEF InitializeFirstFreeBlock, RecordBlocks, HeaderInv, CInv, FileInv, TypeOK
  <2> QED BY <1>5, <2>2, HeaderStays DEF InitializeFirstFreeBlock
<1>6. CASE FreeTable
  BY <1>6, HeaderStays DEF FreeTable, RecordBlocks
<1> QED BY <1>1, <1>2, <1>3, <1>4, <1>5, <1>6 DEF Call

(* Whatever is called, page 0 is the header in memory, or lacks one pop of *)
(* the free list: that of the record block CREATE TABLE made last, which   *)
(* has no rows yet.                                                        *)
THEOREM HeaderSaved == CSpec => []SavedHeader
<1>1. CInit /\ CInv => HeaderInv
  BY DEF CInit, Init, HeaderInv, SavedHeader
<1>2. HeaderInv /\ [CNext]_cvars => HeaderInv'
  <2> SUFFICES ASSUME HeaderInv, [CNext]_cvars PROVE HeaderInv'
    OBVIOUS
  <2>1. CInv'
    BY CallersStep DEF HeaderInv
  <2>2. CASE Run
    BY <2>1, <2>2, CallSavesHeader DEF Run, HeaderInv
  <2>3. CASE UNCHANGED vars
    BY <2>1, <2>3, HeaderStays DEF vars, RecordBlocks, HeaderInv
  <2> QED BY <2>2, <2>3 DEF CNext, LoopEnd, cvars
<1>3. HeaderInv => SavedHeader
  BY DEF HeaderInv
<1> QED BY <1>1, <1>2, <1>3, CallersInductive, PTL DEF CSpec

-----------------------------------------------------------------------------
(* Pages on which one descriptor begins where the one before it ends, from *)
(* the first byte to the offset.                                           *)

Tiled(page, from, to) ==
  /\ from = to \/ from \in DOMAIN page
  /\ \A p \in DOMAIN page : /\ page[p].columns = "own"
                            /\ from <= p /\ End(page, p) <= to
                            /\ End(page, p) = to \/ End(page, p) \in DOMAIN page
  /\ \A p, q \in DOMAIN page : p < q => End(page, p) <= q

WholePages == \A b \in SchemaBlocks : Tiled(tables[b], SizeOfBlock, offset[b])

(* A walk reads all of such a page.                                        *)
LEMMA TiledReads ==
  ASSUME FileInv, NEW b \in SchemaBlocks, Tiled(tables[b], SizeOfBlock, offset[b])
  PROVE  Reads(b) = DOMAIN tables[b] /\ Readable(b)
<1> DEFINE page == tables[b]
           D == DOMAIN page
           to == offset[b]
<1>1. b \in Blocks /\ Page(page, to) /\ to \in Nat
  BY PagerAssumption DEF FileInv, TypeOK, Fitting, SchemaBlocks, Places, SizeOfBlock
<1>2. \A p \in D : p \in Nat /\ SizeOfBlock <= p /\ p < to /\ End(page, p) \in Nat
  <2> TAKE p \in D
  <2>1. /\ p \in Nat /\ SizeOfBlock <= p /\ p < to
        /\ End(page, p) = p + RealSize(page[p]) /\ RealSize(page[p]) \in Nat
    BY <1>1, OfPage
  <2> QED BY <2>1
<1>3. /\ SizeOfBlock = to \/ SizeOfBlock \in D
      /\ \A p \in D : End(page, p) = to \/ End(page, p) \in D
      /\ \A p, q \in D : p < q => End(page, p) <= q
  BY DEF Tiled
<1>4. ASSUME NEW p \in D PROVE p \in Reads(b)
  <2> DEFINE S == {o \in D : o < p}
  <2>1. SizeOfBlock \in S \cup {p}
    BY <1>2, <1>3 DEF SizeOfBlock
  <2>2. ASSUME NEW o \in S PROVE End(page, o) \in S \cup {p}
    <3>1. o \in D /\ o < p /\ End(page, o) <= p /\ p < to /\ End(page, o) \in Nat
          /\ p \in Nat /\ to \in Nat
      BY <1>1, <1>2, <1>3
    <3>2. End(page, o) \in D
      BY <1>3, <3>1
    <3> QED BY <3>1, <3>2
  <2>3. S \in SUBSET {o \in DOMAIN tables[b] : o < p}
    OBVIOUS
  <2> HIDE DEF S
  <2> QED BY <2>1, <2>2, <2>3 DEF Reads
<1>5. Reads(b) = D
  BY <1>4 DEF Reads
<1>6. Readable(b)
  <2> SUFFICES ASSUME to > SizeOfBlock
               PROVE  \E S \in SUBSET D :
                        /\ SizeOfBlock \in S
                        /\ \A o \in S : End(page, o) \in S \/ End(page, o) >= to
    BY DEF Readable
  <2>1. SizeOfBlock \in D
    BY <1>1, <1>3 DEF SizeOfBlock
  <2>2. \A o \in D : End(page, o) \in D \/ End(page, o) >= to
    BY <1>1, <1>2, <1>3
  <2> QED BY <2>1, <2>2
<1> QED BY <1>5, <1>6

(* What is written behind the last descriptor touches none.                *)
Joined(page, new) ==
  /\ DOMAIN Over(page, new) = DOMAIN page \cup DOMAIN new
  /\ \A p \in DOMAIN page : p \notin DOMAIN new /\ Over(page, new)[p] = page[p]
  /\ \A p \in DOMAIN new : Over(page, new)[p] = new[p]

LEMMA JoinedIs ==
  ASSUME NEW from \in Nat, NEW mid \in Nat, NEW to \in Nat, mid <= to,
         NEW page, Page(page, mid), Tiled(page, from, mid),
         NEW new, Page(new, to), Tiled(new, mid, to)
  PROVE  Joined(page, new)
<1> DEFINE loses(x, y) == \E q \in DOMAIN new : x < End(new, q) /\ q < y
           left == {p \in DOMAIN page : ~loses(p, p + SizeOfHead)}
<1>1. \A p \in DOMAIN page :
        /\ p \in Nat /\ p < mid /\ End(page, p) \in Nat /\ End(page, p) <= mid
        /\ p + SizeOfHead <= End(page, p)
  <2> TAKE p \in DOMAIN page
  <2>1. /\ p \in Nat /\ p < mid /\ End(page, p) = p + RealSize(page[p])
        /\ RealSize(page[p]) \in Nat /\ SizeOfHead <= RealSize(page[p])
    BY OfPage
  <2>2. End(page, p) <= mid
    BY DEF Tiled
  <2> QED BY <2>1, <2>2 DEF SizeOfHead
<1>2. \A q \in DOMAIN new : q \in Nat /\ mid <= q
  <2> TAKE q \in DOMAIN new
  <2>1. q \in Nat
    BY OfPage
  <2>2. mid <= q
    BY DEF Tiled
  <2> QED BY <2>1, <2>2
<1>3. \A p \in DOMAIN page : /\ ~loses(p, p + SizeOfHead) /\ ~loses(p, End(page, p))
                             /\ p \notin DOMAIN new
  BY <1>1, <1>2 DEF SizeOfHead
<1>4. Over(page, new) =
        [p \in left \cup DOMAIN new |->
           IF p \in DOMAIN new THEN new[p]
           ELSE IF loses(p, End(page, p)) THEN [page[p] EXCEPT !.columns = "overwritten"]
           ELSE page[p]]
  BY DEF Over
<1> HIDE DEF loses
<1>5. left = DOMAIN page
  BY <1>3
<1> QED BY <1>3, <1>4, <1>5 DEF Joined

LEMMA JoinedTiled ==
  ASSUME NEW from \in Nat, NEW mid \in Nat, NEW to \in Nat, from <= mid, mid <= to,
         NEW page, Page(page, mid), Tiled(page, from, mid),
         NEW new, Page(new, to), Tiled(new, mid, to)
  PROVE  Tiled(Over(page, new), from, to)
<1> DEFINE all == Over(page, new)
<1>1. /\ DOMAIN all = DOMAIN page \cup DOMAIN new
      /\ \A p \in DOMAIN page : p \notin DOMAIN new /\ all[p] = page[p]
      /\ \A p \in DOMAIN new : all[p] = new[p]
  <2>1. Joined(page, new)
    BY JoinedIs
  <2> QED BY <2>1 DEF Joined
<1> HIDE DEF all
<1>2. /\ \A p \in DOMAIN page : End(all, p) = End(page, p)
      /\ \A p \in DOMAIN new : End(all, p) = End(new, p)
  BY <1>1 DEF End
<1>3. \A p \in DOMAIN page : p \in Nat /\ p < mid /\ End(page, p) \in Nat
  <2> TAKE p \in DOMAIN page
  <2>1. /\ p \in Nat /\ p < mid /\ End(page, p) = p + RealSize(page[p])
        /\ RealSize(page[p]) \in Nat
    BY OfPage
  <2> QED BY <2>1
<1>4. \A q \in DOMAIN new : q \in Nat /\ End(new, q) \in Nat
  <2> TAKE q \in DOMAIN new
  <2>1. /\ q \in Nat /\ End(new, q) = q + RealSize(new[q]) /\ RealSize(new[q]) \in Nat
    BY OfPage
  <2> QED BY <2>1
<1>5. /\ from = mid \/ from \in DOMAIN page
      /\ \A p \in DOMAIN page : /\ page[p].columns = "own" /\ from <= p /\ End(page, p) <= mid
                                /\ End(page, p) = mid \/ End(page, p) \in DOMAIN page
      /\ \A p, q \in DOMAIN page : p < q => End(page, p) <= q
  BY DEF Tiled
<1>6. /\ mid = to \/ mid \in DOMAIN new
      /\ \A p \in DOMAIN new : /\ new[p].columns = "own" /\ mid <= p /\ End(new, p) <= to
                               /\ End(new, p) = to \/ End(new, p) \in DOMAIN new
      /\ \A p, q \in DOMAIN new : p < q => End(new, p) <= q
  BY DEF Tiled
<1>7. from = to \/ from \in DOMAIN all
  BY <1>1, <1>5, <1>6
<1>8. ASSUME NEW p \in DOMAIN all
      PROVE  /\ all[p].columns = "own" /\ from <= p /\ End(all, p) <= to
             /\ End(all, p) = to \/ End(all, p) \in DOMAIN all
  <2>1. CASE p \in DOMAIN page
    <3>1. End(page, p) <= to
      BY <1>3, <1>5, <2>1
    <3> QED BY <1>1, <1>2, <1>5, <1>6, <2>1, <3>1
  <2>2. CASE p \in DOMAIN new
    <3>1. from <= p
      BY <1>4, <1>6, <2>2
    <3> QED BY <1>1, <1>2, <1>6, <2>2, <3>1
  <2> QED BY <1>1, <2>1, <2>2
<1>9. ASSUME NEW p \in DOMAIN all, NEW q \in DOMAIN all, p < q PROVE End(all, p) <= q
  <2>1. CASE p \in DOMAIN page /\ q \in DOMAIN page
    BY <1>2, <1>5, <1>9, <2>1
  <2>2. CASE p \in DOMAIN new /\ q \in DOMAIN new
    BY <1>2, <1>6, <1>9, <2>2
  <2>3. CASE p \in DOMAIN page /\ q \in DOMAIN new
    BY <1>2, <1>3, <1>4, <1>5, <1>6, <2>3
  <2>4. CASE p \in DOMAIN new /\ q \in DOMAIN page
    <3>1. mid <= p /\ q < mid /\ p \in Nat /\ q \in Nat
      BY <1>3, <1>4, <1>6, <2>4
    <3> QED BY <1>9, <3>1
  <2> QED BY <1>1, <2>1, <2>2, <2>3, <2>4
<1>10. Tiled(all, from, to)
  BY <1>7, <1>8, <1>9 DEF Tiled
<1> QED BY <1>10 DEF all

(* One descriptor, and none, tile a page.                                  *)
LEMMA OneTiles ==
  ASSUME NEW tb \in Fit, tb.columns = "own"
  PROVE  Tiled(At(tb.offset, tb), tb.offset, tb.offset + RealSize(tb))
<1>1. tb.offset \in Nat /\ RealSize(tb) \in Nat
  BY Sized DEF Fit
<1>2. DOMAIN At(tb.offset, tb) = {tb.offset} /\ At(tb.offset, tb)[tb.offset] = tb
  BY DEF At
<1>3. End(At(tb.offset, tb), tb.offset) = tb.offset + RealSize(tb)
  BY <1>2 DEF End
<1> QED BY <1>1, <1>2, <1>3 DEF Tiled

(* Descriptors written one behind the other.                               *)
LEMMA LaidTiled ==
  ASSUME NEW b \in Blocks, NEW to \in Nat, Page(tables[b], to),
         NEW G \in SUBSET DOMAIN tables[b],
         NEW from \in Nat, SizeOfBlock <= from, from + Total(Sizes(b), G) < BlockSize,
         \A p \in G : tables[b][p].columns = "own"
  PROVE  Tiled(Laid(from, b, G), from, from + Total(Sizes(b), G))
<1> DEFINE laid == Laid(from, b, G)
           all == Total(Sizes(b), G)
           at(p) == LaidAt(from, b, G, p)
<1>1. /\ all \in Nat
      /\ DOMAIN laid = {at(p) : p \in G}
      /\ \A p \in G : /\ laid[at(p)] = tables[b][p]
                      /\ at(p) \in Nat /\ from <= at(p)
                      /\ at(p) + Sizes(b)[p] <= from + all
      /\ \A p, q \in G : p < q => at(p) + Sizes(b)[p] <= at(q)
  <2>1. Stacked(from, b, G)
    BY LaidIs
  <2> QED BY <2>1 DEF Stacked
<1>2. /\ IsFiniteSet(G) /\ G \in SUBSET Nat
      /\ \A p \in G : /\ Sizes(b)[p] = RealSize(tables[b][p])
                      /\ Sizes(b)[p] \in Nat /\ 0 < Sizes(b)[p]
  BY SizesOfPage
<1>3. \A p \in G : at(p) = from + Total(Sizes(b), InFront(G, p))
  BY DEF LaidAt, Before, InFront
<1>4. \A p \in G : /\ Total(Sizes(b), InFront(G, p)) \in Nat
                   /\ \/ Total(Sizes(b), InFront(G, p)) + Sizes(b)[p] = all
                      \/ \E q \in G : Total(Sizes(b), InFront(G, p)) + Sizes(b)[p]
                                        = Total(Sizes(b), InFront(G, q))
  <2> TAKE p \in G
  <2>1. Total(Sizes(b), InFront(G, p)) \in Nat
    BY <1>2, InFrontApart
  <2>2. \/ Total(Sizes(b), InFront(G, p)) + Sizes(b)[p] = all
        \/ \E q \in G : p < q /\ Total(Sizes(b), InFront(G, p)) + Sizes(b)[p]
                                   = Total(Sizes(b), InFront(G, q))
    BY <1>2, InFrontNext
  <2> QED BY <2>1, <2>2
<1>5. \A p \in G : at(p) + Sizes(b)[p] = from + all
                   \/ \E q \in G : at(p) + Sizes(b)[p] = at(q)
  <2> TAKE p \in G
  <2>1. PICK x \in Nat : x = Total(Sizes(b), InFront(G, p)) /\ at(p) = from + x
    BY <1>3, <1>4
  <2>2. CASE x + Sizes(b)[p] = all
    BY <1>2, <2>1, <2>2
  <2>3. CASE \E q \in G : x + Sizes(b)[p] = Total(Sizes(b), InFront(G, q))
    <3>1. PICK q \in G : x + Sizes(b)[p] = Total(Sizes(b), InFront(G, q))
      BY <2>3
    <3>2. at(q) = from + Total(Sizes(b), InFront(G, q))
      BY <1>3
    <3>3. at(p) + Sizes(b)[p] = at(q)
      BY <1>2, <2>1, <3>1, <3>2
    <3> QED BY <3>3
  <2> QED BY <1>4, <2>1, <2>2, <2>3
<1>6. from = from + all \/ from \in DOMAIN laid
  <2>1. CASE G = {}
    BY <2>1, TotalNone
  <2>2. CASE G # {}
    <3>1. PICK p \in G : \A q \in G : p <= q
      BY <1>2, <2>2, Least
    <3>2. InFront(G, p) = {}
      <4>1. G \subseteq Nat
        BY <1>2
      <4>2. \A q \in G : ~(q < p)
        BY <3>1, <4>1
      <4> QED BY <4>2 DEF InFront
    <3>3. Total(Sizes(b), InFront(G, p)) = 0
      BY <3>2, TotalNone
    <3>4. at(p) = from
      BY <1>3, <3>3
    <3> QED BY <1>1, <3>4
  <2> QED BY <2>1, <2>2
<1> HIDE DEF at, all, laid
<1>7. \A p \in G : End(laid, at(p)) = at(p) + Sizes(b)[p]
  BY <1>1, <1>2 DEF End
<1>8. ASSUME NEW x \in DOMAIN laid
      PROVE  /\ laid[x].columns = "own" /\ from <= x /\ End(laid, x) <= from + all
             /\ End(laid, x) = from + all \/ End(laid, x) \in DOMAIN laid
  <2>1. PICK p \in G : x = at(p)
    BY <1>1
  <2>2. End(laid, x) = at(p) + Sizes(b)[p]
    BY <1>7, <2>1
  <2> QED BY <1>1, <1>5, <2>1, <2>2
<1>9. ASSUME NEW x \in DOMAIN laid, NEW y \in DOMAIN laid, x < y PROVE End(laid, x) <= y
  <2>1. PICK p \in G, q \in G : x = at(p) /\ y = at(q)
    BY <1>1
  <2>2. p \in Nat /\ q \in Nat /\ at(p) \in Nat /\ at(q) \in Nat
        /\ Sizes(b)[p] \in Nat /\ Sizes(b)[q] \in Nat
    BY <1>1, <1>2
  <2>3. p < q
    <3>1. ~(q < p)
      <4>1. q < p => at(q) + Sizes(b)[q] <= at(p)
        BY <1>1
      <4> QED BY <1>9, <2>1, <2>2, <4>1
    <3>2. p # q
      BY <1>9, <2>1, <2>2
    <3> QED BY <2>2, <3>1, <3>2
  <2>4. at(p) + Sizes(b)[p] <= at(q)
    BY <1>1, <2>3
  <2> QED BY <1>7, <2>1, <2>4
<1>10. Tiled(laid, from, from + all)
  BY <1>6, <1>8, <1>9 DEF Tiled
<1> QED BY <1>10 DEF laid, all

(* A descriptor written where it is already changes no other.              *)
LEMMA WrittenInPlace ==
  ASSUME FileInv, NEW tb \in Fit, NEW b \in SchemaBlocks, NEW p \in DOMAIN tables[b],
         Tiled(tables[b], SizeOfBlock, offset[b]),
         tb.block_id = b, tb.offset = p, RealSize(tb) = RealSize(tables[b][p]),
         tb.columns = "own", tables' = WriteTable(tb)
  PROVE  /\ DOMAIN tables' = Blocks
         /\ \A c \in Blocks : c # b => tables'[c] = tables[c]
         /\ DOMAIN tables'[b] = DOMAIN tables[b]
         /\ \A q \in DOMAIN tables[b] : tables'[b][q] = IF q = p THEN tb ELSE tables[b][q]
         /\ Tiled(tables'[b], SizeOfBlock, offset[b])
<1> DEFINE page == tables[b]
           D == DOMAIN page
           new == At(p, tb)
           all == Over(page, new)
           loses(x, y) == \E q \in DOMAIN new : x < End(new, q) /\ q < y
           left == {q \in D : ~loses(q, q + SizeOfHead)}
<1>1. /\ b \in Blocks /\ Page(page, offset[b]) /\ offset[b] \in Nat
      /\ DOMAIN tables = Blocks
  BY PagerAssumption DEF FileInv, TypeOK, Fitting, SchemaBlocks, Places, SizeOfBlock
<1>2. \A q \in D : /\ q \in Nat /\ q < offset[b] /\ End(page, q) \in Nat
                   /\ q + SizeOfHead <= End(page, q)
  <2> TAKE q \in D
  <2>1. /\ q \in Nat /\ q < offset[b] /\ End(page, q) = q + RealSize(page[q])
        /\ RealSize(page[q]) \in Nat /\ SizeOfHead <= RealSize(page[q])
    BY <1>1, OfPage
  <2> QED BY <2>1 DEF SizeOfHead
<1>3. \A x, y \in D : x < y => End(page, x) <= y
  BY DEF Tiled
<1>4. DOMAIN new = {p} /\ new[p] = tb /\ End(new, p) = End(page, p)
  BY DEF At, End
<1>5. \A q \in D : q # p => ~loses(q, q + SizeOfHead) /\ ~loses(q, End(page, q))
  <2> SUFFICES ASSUME NEW q \in D, q # p
               PROVE  ~(q < End(page, p) /\ p < q + SizeOfHead)
                      /\ ~(q < End(page, p) /\ p < End(page, q))
    BY <1>4
  <2>1. /\ p \in Nat /\ q \in Nat /\ End(page, p) \in Nat /\ End(page, q) \in Nat
        /\ q + SizeOfHead \in Nat /\ q + SizeOfHead <= End(page, q)
    BY <1>2 DEF SizeOfHead
  <2>2. CASE p < q
    <3>1. End(page, p) <= q
      BY <1>3, <2>2
    <3> QED BY <2>1, <3>1
  <2>3. CASE q < p
    <3>1. End(page, q) <= p
      BY <1>3, <2>3
    <3> QED BY <2>1, <3>1
  <2> QED BY <2>1, <2>2, <2>3
<1>6. all = [q \in left \cup DOMAIN new |->
              IF q \in DOMAIN new THEN new[q]
              ELSE IF loses(q, End(page, q)) THEN [page[q] EXCEPT !.columns = "overwritten"]
              ELSE page[q]]
  BY DEF Over
<1> HIDE DEF loses
<1>7. left \cup DOMAIN new = D
  BY <1>4, <1>5
<1>8. DOMAIN all = D /\ \A q \in D : all[q] = IF q = p THEN tb ELSE page[q]
  BY <1>4, <1>5, <1>6, <1>7
<1>9. tables' = [tables EXCEPT ![b] = [q \in {x \in DOMAIN all : x < offset[b]} |-> all[q]]]
  BY DEF WriteTable
<1> HIDE DEF all, new
<1>10. {x \in DOMAIN all : x < offset[b]} = D
  BY <1>2, <1>8
<1>11. /\ DOMAIN tables' = Blocks /\ tables'[b] = [q \in D |-> all[q]]
       /\ \A c \in Blocks : c # b => tables'[c] = tables[c]
  BY <1>1, <1>9, <1>10
<1>12. DOMAIN tables'[b] = D /\ \A q \in D : tables'[b][q] = IF q = p THEN tb ELSE page[q]
  BY <1>8, <1>11
<1>13. \A q \in D : End(tables'[b], q) = End(page, q) /\ tables'[b][q].columns = "own"
  BY <1>12 DEF End, Tiled
<1>14. Tiled(tables'[b], SizeOfBlock, offset[b])
  BY <1>12, <1>13 DEF Tiled
<1> QED BY <1>11, <1>12, <1>14

-----------------------------------------------------------------------------
(* What the callers see of the schema.  The properties walk the chain of   *)
(* SCHEMA blocks as get_table_from_schema does; the proofs count the       *)
(* descriptors of those blocks wherever they are, which is the same        *)
(* number: the walk passes every SCHEMA block once, and reads all of it as *)
(* long as its descriptors tile it.                                        *)

(* A descriptor of the schema, by its block and its place there.           *)
Entries ==
  {e \in Blocks \X Places : e[1] \in SchemaBlocks /\ e[2] \in DOMAIN tables[e[1]]}

EntryName(e) == tables[e[1]][e[2]].name

Named(n) == {e \in Entries : EntryName(e) = n}

SmallerOf(a, b) == IF a <= b THEN a ELSE b

(* Following the links of a chain from its first block visits its blocks   *)
(* in the order of their numbers and then stays at the last.               *)
InOrder(walk, m, S, pos) ==
  /\ walk \in [0 .. m -> S]
  /\ \A k \in 0 .. m : pos[walk[k]] = SmallerOf(k + 1, Cardinality(S))

LEMMA ChainFollowed ==
  ASSUME NEW S, IsFiniteSet(S), NEW first, NEW last, NEW link, first \in S, last \in S,
         link[last] = last, NEW m, m \in Nat,
         NEW pos, pos \in [S -> 1 .. Cardinality(S)], Numbers(pos, link, S, first, last)
  PROVE  \E walk : Follows(walk, m, first, link) /\ InOrder(walk, m, S, pos)
<1> DEFINE n == Cardinality(S)
           Nth(k) == CHOOSE b \in S : pos[b] = SmallerOf(k + 1, n)
           walk == [k \in 0 .. m |-> Nth(k)]
<1>1. n \in Nat \ {0}
  <2>1. n \in Nat /\ pos[first] \in 1 .. n
    BY FS_CardinalityType
  <2> QED BY <2>1
<1>2. ASSUME NEW k \in 0 .. m PROVE Nth(k) \in S /\ pos[Nth(k)] = SmallerOf(k + 1, n)
  <2>1. SmallerOf(k + 1, n) \in 1 .. n
    BY <1>1 DEF SmallerOf
  <2>2. \E b \in S : pos[b] = SmallerOf(k + 1, n)
    BY <2>1, ChainNumbers
  <2> QED BY <2>2
<1>3. \A b, c \in S : pos[b] = pos[c] => b = c
  BY DEF Numbers
<1>4. pos[first] = 1 /\ pos[last] = n /\ \A b \in S \ {last} : link[b] \in S /\ pos[link[b]] = pos[b] + 1
  BY DEF Numbers
<1> HIDE DEF n, Nth
<1>5. ASSUME NEW k \in 0 .. m
      PROVE  Nth(k) = IF k = 0 THEN first ELSE link[Nth(k - 1)]
  <2>1. CASE k = 0
    <3>1. SmallerOf(k + 1, n) = 1
      BY <1>1, <2>1 DEF SmallerOf
    <3> QED BY <1>2, <1>3, <1>4, <2>1, <3>1
  <2>2. CASE k # 0
    <3> DEFINE p == Nth(k - 1)
    <3>1. k - 1 \in 0 .. m /\ k - 1 + 1 = k
      BY <2>2
    <3>2. p \in S /\ pos[p] = SmallerOf(k, n)
      BY <1>2, <3>1
    <3>3. Nth(k) \in S /\ pos[Nth(k)] = SmallerOf(k + 1, n)
      BY <1>2
    <3> HIDE DEF p
    <3>4. CASE p = last
      <4>1. SmallerOf(k, n) = n
        BY <1>4, <3>2, <3>4
      <4>2. SmallerOf(k + 1, n) = n
        BY <1>1, <4>1 DEF SmallerOf
      <4> QED BY <1>3, <1>4, <2>2, <3>3, <3>4, <4>2 DEF p
    <3>5. CASE p # last
      <4>1. SmallerOf(k, n) # n
        BY <1>3, <1>4, <3>2, <3>5
      <4>2. SmallerOf(k, n) = k /\ SmallerOf(k + 1, n) = k + 1
        BY <1>1, <4>1 DEF SmallerOf
      <4>3. link[p] \in S /\ pos[link[p]] = k + 1
        BY <1>4, <3>2, <3>5, <4>2
      <4> QED BY <1>3, <2>2, <3>3, <4>2, <4>3 DEF p
    <3> QED BY <3>4, <3>5
  <2> QED BY <2>1, <2>2
<1>6. Follows(walk, m, first, link)
  <2>1. \A k \in 0 .. m : walk[k] = IF k = 0 THEN first ELSE link[walk[k - 1]]
    <3> TAKE k \in 0 .. m
    <3>1. k # 0 => walk[k - 1] = Nth(k - 1)
      OBVIOUS
    <3> QED BY <1>5, <3>1
  <2>2. walk = [k \in 0 .. m |-> walk[k]]
    OBVIOUS
  <2> HIDE DEF walk
  <2> QED BY <2>1, <2>2 DEF Follows
<1>7. InOrder(walk, m, S, pos)
  BY <1>2 DEF InOrder, n
<1> QED BY <1>6, <1>7

(* SchemaWalk follows the links of the schema chain.                       *)
LEMMA WalkPasses ==
  ASSUME FileInv
  PROVE  \E pos \in [SchemaBlocks -> 1 .. Cardinality(SchemaBlocks)] :
           /\ Numbers(pos, next_id, SchemaBlocks, db.schema_first_block_id,
                      db.schema_last_block_id)
           /\ InOrder(SchemaWalk, MaxBlocks, SchemaBlocks, pos)
<1> DEFINE first == db.schema_first_block_id
           last == db.schema_last_block_id
           P(g) == Follows(g, MaxBlocks, first, next_id)
<1>1. /\ first \in SchemaBlocks /\ last \in SchemaBlocks /\ next_id[last] = last
      /\ IsFiniteSet(SchemaBlocks) /\ MaxBlocks \in Nat
  BY BlocksFinite, PagerAssumption DEF FileInv, SchemaChain, Chain, SchemaBlocks
<1>2. PICK pos \in [SchemaBlocks -> 1 .. Cardinality(SchemaBlocks)] :
        Numbers(pos, next_id, SchemaBlocks, first, last)
  BY DEF FileInv, SchemaChain, Chain
<1>3. PICK walk : /\ Follows(walk, MaxBlocks, first, next_id)
                  /\ InOrder(walk, MaxBlocks, SchemaBlocks, pos)
  <2> HIDE DEF first, last, P
  <2> QED BY <1>1, <1>2, ChainFollowed
<1>4. SchemaWalk = CHOOSE g : P(g)
  BY DEF SchemaWalk, Follows
<1>5. P(SchemaWalk)
  <2> HIDE DEF P
  <2>1. P(walk)
    BY <1>3 DEF P
  <2> QED BY <1>4, <2>1
<1>6. SchemaWalk = walk
  BY <1>1, <1>3, <1>5, FollowedOnce
<1> QED BY <1>2, <1>3, <1>6
-----------------------------------------------------------------------------
(* Counting what the walk passes.                                          *)

(* A bijection that maps part of a set to part of another one shows that   *)
(* the parts have one size.                                                *)
LEMMA SameSize ==
  ASSUME NEW S, NEW T, NEW h \in Bijection(S, T), IsFiniteSet(T),
         NEW A \in SUBSET S, NEW B \in SUBSET T, \A s \in S : s \in A <=> h[s] \in B
  PROVE  Cardinality(A) = Cardinality(B)
<1> DEFINE r == [s \in A |-> h[s]]
<1>1. /\ h \in [S -> T] /\ \A a, b \in S : h[a] = h[b] => a = b
      /\ \A t \in T : \E s \in S : h[s] = t
  BY Fun_BijectionProperties
<1>2. r \in [A -> B] /\ (\A a, b \in A : r[a] = r[b] => a = b)
  BY <1>1
<1>3. \A t \in B : \E s \in A : r[s] = t
  BY <1>1
<1>4. IsFiniteSet(B)
  BY FS_Subset
<1> HIDE DEF r
<1>5. r \in Bijection(A, B)
  BY <1>2, <1>3, Fun_IsBij
<1>6. ExistsBijection(B, A)
  BY <1>5, Fun_ExistsBij, Fun_ExistsBijSymmetric
<1> QED BY <1>4, <1>6, FS_Bijection

LEMMA PlacesFinite == IsFiniteSet(Blocks \X Places)
<1>1. IsFiniteSet(Blocks) /\ IsFiniteSet(Places)
  <2>1. SizeOfBlock \in Int /\ BlockSize - 1 \in Int
    BY PagerAssumption DEF SizeOfBlock
  <2> QED BY <2>1, BlocksFinite, FS_Interval DEF Places
<1> QED BY <1>1, FS_Product

LEMMA EntriesFinite == IsFiniteSet(Entries)
BY PlacesFinite, FS_Subset DEF Entries

(* Every descriptor of a SCHEMA block is one.                              *)
LEMMA EntryIs ==
  ASSUME FileInv, NEW b \in Blocks, NEW p
  PROVE  /\ <<b, p>> \in Entries <=> b \in SchemaBlocks /\ p \in DOMAIN tables[b]
         /\ p \in DOMAIN tables[b] => p \in Places /\ p \in Nat
<1>1. ASSUME p \in DOMAIN tables[b] PROVE p \in Places /\ p \in Nat
  <2>1. offset[b] \in Places /\ p \in SizeOfBlock .. offset[b] - 1
    BY <1>1 DEF FileInv, TypeOK
  <2> QED BY <2>1, PagerAssumption DEF Places, SizeOfBlock
<1> QED BY <1>1 DEF Entries

(* The walk passes every descriptor of a SCHEMA block, and passes it once. *)
LEMMA WalkIsEntries ==
  ASSUME FileInv, WholePages
  PROVE  \E h \in Bijection(WalkSlots, Entries) :
           \A s \in WalkSlots : h[s] = <<SchemaWalk[s[1]], s[2]>>
<1> DEFINE last == db.schema_last_block_id
           n == Cardinality(SchemaBlocks)
           h == [s \in WalkSlots |-> <<SchemaWalk[s[1]], s[2]>>]
<1>1. PICK pos \in [SchemaBlocks -> 1 .. n] :
        /\ Numbers(pos, next_id, SchemaBlocks, db.schema_first_block_id, last)
        /\ InOrder(SchemaWalk, MaxBlocks, SchemaBlocks, pos)
  BY WalkPasses
<1>2. n \in Nat \ {0} /\ n <= MaxBlocks /\ MaxBlocks \in Nat
  <2>1. SchemaBlocks \in SUBSET Blocks /\ Cardinality(Blocks) = MaxBlocks
    BY FS_Interval, PagerAssumption DEF SchemaBlocks, Blocks
  <2>2. n \in Nat /\ n <= MaxBlocks
    BY <2>1, BlocksFinite, FS_Subset, FS_CardinalityType
  <2>3. pos[last] \in 1 .. n
    BY <1>1, LastSchemaBlock
  <2> QED BY <2>2, <2>3, PagerAssumption
<1> HIDE DEF n
<1>3. \A k \in 0 .. MaxBlocks : /\ SchemaWalk[k] \in SchemaBlocks
                                 /\ pos[SchemaWalk[k]] = SmallerOf(k + 1, n)
  BY <1>1 DEF InOrder, n
<1>4. last \in SchemaBlocks /\ pos[last] = n /\ \A b, c \in SchemaBlocks : pos[b] = pos[c] => b = c
  BY <1>1, LastSchemaBlock DEF Numbers, n
<1>5. \A k \in 0 .. MaxBlocks : SchemaWalk[k] = last <=> k + 1 >= n
  <2> TAKE k \in 0 .. MaxBlocks
  <2>1. SmallerOf(k + 1, n) = n <=> k + 1 >= n
    BY <1>2 DEF SmallerOf
  <2> QED BY <1>3, <1>4, <2>1
<1>6. \A k \in 0 .. MaxBlocks : (\A j \in 0 .. k - 1 : SchemaWalk[j] # last) <=> k < n
  <2> TAKE k \in 0 .. MaxBlocks
  <2>1. ASSUME k < n, NEW j \in 0 .. k - 1 PROVE SchemaWalk[j] # last
    <3>1. j \in 0 .. MaxBlocks /\ ~(j + 1 >= n)
      BY <1>2, <2>1
    <3> QED BY <1>5, <3>1
  <2>2. ASSUME ~(k < n) PROVE \E j \in 0 .. k - 1 : SchemaWalk[j] = last
    <3>1. n - 1 \in 0 .. k - 1 /\ n - 1 \in 0 .. MaxBlocks /\ n - 1 + 1 >= n
      BY <1>2, <2>2
    <3> QED BY <1>5, <3>1
  <2> QED BY <2>1, <2>2
<1>7. \A b \in SchemaBlocks : Reads(b) = DOMAIN tables[b] /\ Readable(b)
  BY TiledReads DEF WholePages
<1>8. \A k \in 0 .. MaxBlocks :
        (\A j \in 0 .. k - 1 : SchemaWalk[j] # last /\ Readable(SchemaWalk[j])) <=> k < n
  <2> TAKE k \in 0 .. MaxBlocks
  <2>1. \A j \in 0 .. k - 1 : j \in 0 .. MaxBlocks
    BY <1>2
  <2> QED BY <1>3, <1>6, <1>7, <2>1
<1>9. \A s : s \in WalkSlots <=>
        \E k \in 0 .. MaxBlocks : /\ k < n /\ s = <<k, s[2]>>
                                  /\ s[2] \in DOMAIN tables[SchemaWalk[k]]
  <2> TAKE s
  <2>1. s \in WalkSlots <=>
          \E k \in 0 .. MaxBlocks :
            /\ \A j \in 0 .. k - 1 : SchemaWalk[j] # last /\ Readable(SchemaWalk[j])
            /\ s \in {k} \X Reads(SchemaWalk[k])
    BY DEF WalkSlots
  <2>2. \A k \in 0 .. MaxBlocks :
          s \in {k} \X Reads(SchemaWalk[k]) <=>
            s = <<k, s[2]>> /\ s[2] \in DOMAIN tables[SchemaWalk[k]]
    BY <1>3, <1>7
  <2> QED BY <1>8, <2>1, <2>2
<1>10. ASSUME NEW s \in WalkSlots
       PROVE  /\ s[1] \in 0 .. MaxBlocks /\ s[1] < n /\ s = <<s[1], s[2]>>
              /\ s[2] \in DOMAIN tables[SchemaWalk[s[1]]]
  BY <1>9
<1>11. h \in [WalkSlots -> Entries]
  <2> SUFFICES ASSUME NEW s \in WalkSlots PROVE <<SchemaWalk[s[1]], s[2]>> \in Entries
    OBVIOUS
  <2>1. SchemaWalk[s[1]] \in SchemaBlocks /\ SchemaWalk[s[1]] \in Blocks
    BY <1>3, <1>10 DEF SchemaBlocks
  <2> QED BY <1>10, <2>1, EntryIs
<1>12. \A s, t \in WalkSlots : h[s] = h[t] => s = t
  <2> SUFFICES ASSUME NEW s \in WalkSlots, NEW t \in WalkSlots,
                      SchemaWalk[s[1]] = SchemaWalk[t[1]], s[2] = t[2]
               PROVE  s = t
    OBVIOUS
  <2>1. /\ s[1] \in 0 .. MaxBlocks /\ s[1] < n /\ t[1] \in 0 .. MaxBlocks /\ t[1] < n
        /\ s = <<s[1], s[2]>> /\ t = <<t[1], t[2]>>
    BY <1>10
  <2>2. SmallerOf(s[1] + 1, n) = SmallerOf(t[1] + 1, n)
    BY <1>3, <2>1
  <2>3. s[1] = t[1]
    BY <1>2, <2>1, <2>2 DEF SmallerOf
  <2> QED BY <2>1, <2>3
<1>13. \A e \in Entries : \E s \in WalkSlots : h[s] = e
  <2> TAKE e \in Entries
  <2>1. e = <<e[1], e[2]>> /\ e[1] \in SchemaBlocks /\ e[2] \in DOMAIN tables[e[1]]
    BY DEF Entries
  <2> DEFINE k == pos[e[1]] - 1
             s == <<k, e[2]>>
  <2>2. pos[e[1]] \in 1 .. n
    BY <1>1, <2>1 DEF n
  <2>3. k \in 0 .. MaxBlocks /\ k < n /\ SmallerOf(k + 1, n) = pos[e[1]]
    BY <1>2, <2>2 DEF SmallerOf
  <2>4. SchemaWalk[k] = e[1]
    BY <1>3, <1>4, <2>1, <2>3
  <2> HIDE DEF k
  <2>5. s \in WalkSlots
    BY <1>9, <2>1, <2>3, <2>4
  <2> QED BY <2>1, <2>4, <2>5
<1>14. h \in Bijection(WalkSlots, Entries)
  <2> HIDE DEF h
  <2> QED BY <1>11, <1>12, <1>13, Fun_IsBij
<1> QED BY <1>14

(* So the properties count the descriptors of the SCHEMA blocks.           *)
Counted ==
  /\ TableCount = [n \in Names |-> Cardinality(Named(n))]
  /\ Descriptors = {tables[e[1]][e[2]] : e \in Entries}

LEMMA WalkCounts == FileInv /\ WholePages => Counted
<1> SUFFICES ASSUME FileInv, WholePages PROVE Counted
  OBVIOUS
<1>1. PICK h \in Bijection(WalkSlots, Entries) :
        \A s \in WalkSlots : h[s] = <<SchemaWalk[s[1]], s[2]>>
  BY WalkIsEntries
<1>2. /\ h \in [WalkSlots -> Entries]
      /\ \A t \in Entries : \E s \in WalkSlots : h[s] = t
  BY Fun_BijectionProperties
<1>4. ASSUME NEW n \in Names PROVE Cardinality(Matches(n)) = Cardinality(Named(n))
  <2>1. ASSUME NEW s \in WalkSlots PROVE s \in Matches(n) <=> h[s] \in Named(n)
    <3>1. h[s] \in Entries /\ h[s] = <<SchemaWalk[s[1]], s[2]>>
      BY <1>1, <1>2
    <3> QED BY <3>1 DEF EntryName, Matches, Named
  <2>2. Matches(n) \in SUBSET WalkSlots /\ Named(n) \in SUBSET Entries
    BY DEF Matches, Named
  <2> QED BY <2>1, <2>2, EntriesFinite, SameSize
<1>5. Descriptors = {tables[e[1]][e[2]] : e \in Entries}
  <2>1. ASSUME NEW s \in WalkSlots
        PROVE  \E e \in Entries : tables[SchemaWalk[s[1]]][s[2]] = tables[e[1]][e[2]]
    <3>1. h[s] \in Entries /\ h[s][1] = SchemaWalk[s[1]] /\ h[s][2] = s[2]
      BY <1>1, <1>2
    <3> QED BY <3>1
  <2>2. ASSUME NEW e \in Entries
        PROVE  \E s \in WalkSlots : tables[SchemaWalk[s[1]]][s[2]] = tables[e[1]][e[2]]
    <3>1. PICK s \in WalkSlots : h[s] = e
      BY <1>2
    <3>2. e[1] = SchemaWalk[s[1]] /\ e[2] = s[2]
      BY <1>1, <3>1
    <3> QED BY <3>2
  <2> QED BY <2>1, <2>2 DEF Descriptors
<1> QED BY <1>4, <1>5 DEF Counted, TableCount

-----------------------------------------------------------------------------
(* What each call does to the descriptors.                                 *)

TableAt(e) == tables[e[1]][e[2]]

(* The same descriptors, with what the call wrote into them.               *)
SameEntries ==
  /\ Entries' = Entries
  /\ \A e \in Entries : EntryName(e)' = EntryName(e)

(* One descriptor more, at place p of block b.                             *)
Added(b, p, tb) ==
  /\ <<b, p>> \notin Entries
  /\ Entries' = Entries \cup {<<b, p>>}
  /\ \A e \in Entries : TableAt(e)' = TableAt(e)
  /\ TableAt(<<b, p>>)' = tb

LEMMA EntryAdded ==
  ASSUME NEW b \in Blocks, NEW p \in Places, NEW tb,
         SchemaBlocks' = SchemaBlocks \cup {b},
         \A c \in Blocks : c # b => tables'[c] = tables[c],
         NEW D, DOMAIN tables'[b] = D \cup {p}, p \notin D,
         b \in SchemaBlocks => D = DOMAIN tables[b], b \notin SchemaBlocks => D = {},
         \A q \in D : tables'[b][q] = tables[b][q],
         tables'[b][p] = tb
  PROVE  Added(b, p, tb)
<1>1. <<b, p>> \notin Entries
  BY DEF Entries
<1>2. ASSUME NEW e \in Blocks \X Places
      PROVE  /\ e[1] \in SchemaBlocks' /\ e[2] \in DOMAIN tables'[e[1]] <=>
                  (e[1] \in SchemaBlocks /\ e[2] \in DOMAIN tables[e[1]]) \/ e = <<b, p>>
             /\ (e[1] \in SchemaBlocks /\ e[2] \in DOMAIN tables[e[1]]) =>
                  tables'[e[1]][e[2]] = tables[e[1]][e[2]]
  <2>1. e = <<e[1], e[2]>> /\ e[1] \in Blocks
    OBVIOUS
  <2>2. CASE e[1] = b
    BY <2>1, <2>2
  <2>3. CASE e[1] # b
    BY <2>1, <2>3
  <2> QED BY <2>2, <2>3
<1>3. Entries' = Entries \cup {<<b, p>>}
  BY <1>2 DEF Entries
<1>4. \A e \in Entries : TableAt(e)' = TableAt(e)
  BY <1>2 DEF Entries, TableAt
<1>5. TableAt(<<b, p>>)' = tb
  BY DEF TableAt
<1> QED BY <1>1, <1>3, <1>4, <1>5 DEF Added

(* insert_table_to_schema adds the descriptor it returns and no other.     *)
LEMMA InsertTableAdds ==
  ASSUME FileInv, WholePages, NEW n \in Names, NEW c \in ColumnCounts, InsertTable(n, c)
  PROVE  /\ WholePages'
         /\ \E b \in Blocks, p \in Places :
              Added(b, p, creating') /\ creating' = NewTable(n, c, b, p)
<1> DEFINE last == db.schema_last_block_id
           here == NewTable(n, c, last, offset[last])
           there == NewTable(n, c, Popped, SizeOfBlock)
<1>1. /\ last \in SchemaBlocks /\ last \in Blocks
      /\ offset \in [Blocks -> Places] /\ DOMAIN tables = Blocks
      /\ \A b \in Blocks : Page(tables[b], offset[b])
      /\ \A b \in SchemaBlocks : b \in Blocks /\ Tiled(tables[b], SizeOfBlock, offset[b])
  BY LastSchemaBlock DEF FileInv, TypeOK, Fitting, WholePages, SchemaBlocks
<1>2. SizeOfBlock \in Nat /\ offset[last] \in Places
      /\ offset[last] \in Nat /\ SizeOfBlock <= offset[last]
  BY <1>1, PagerAssumption DEF Places, SizeOfBlock
<1>3. CASE /\ RealSize(here) + offset[last] < BlockSize
           /\ creating' = here
           /\ tables' = [tables EXCEPT ![last] = Over(@, At(offset[last], here))]
           /\ offset' = [offset EXCEPT ![last] = @ + RealSize(here)]
           /\ UNCHANGED <<db, type, next_id, rows>>
  <2> DEFINE mid == offset[last]
             new == At(mid, here)
             to == mid + RealSize(here)
  <2>1. /\ here \in Table /\ here.block_id = last /\ here.offset = mid
        /\ RealSize(here) \in Nat /\ RealSize(here) >= SizeOfHead
    BY <1>1, <1>2, NewTableType, Sized
  <2>2. here.columns = "own" /\ here = creating'
    BY <1>3 DEF NewTable
  <2>3. here \in Fit
    BY <1>2, <1>3, <2>1 DEF Fit
  <2>4. /\ offset' = [offset EXCEPT ![last] = to]
        /\ tables' = [tables EXCEPT ![last] = Over(tables[last], new)]
    BY <1>3
  <2> HIDE DEF here, last
  <2>5. mid \in Nat /\ to \in Nat /\ mid < to /\ SizeOfBlock <= mid
    BY <1>2, <2>1 DEF SizeOfHead
  <2>6. Page(new, to) /\ DOMAIN new = {mid} /\ new[mid] = here
    BY <2>1, <2>3, <2>5, OneOnPage
  <2>7. Tiled(new, mid, to)
    BY <2>1, <2>2, <2>3, OneTiles
  <2> HIDE DEF mid, new, to
  <2>8. Page(tables[last], mid) /\ Tiled(tables[last], SizeOfBlock, mid)
    BY <1>1 DEF mid
  <2>9. Joined(tables[last], new)
    BY <1>2, <2>5, <2>6, <2>7, <2>8, JoinedIs
  <2>10. Tiled(Over(tables[last], new), SizeOfBlock, to)
    BY <1>2, <2>5, <2>6, <2>7, <2>8, JoinedTiled
  <2>11. /\ tables'[last] = Over(tables[last], new) /\ offset'[last] = to
         /\ \A b \in Blocks : b # last => tables'[b] = tables[b] /\ offset'[b] = offset[b]
         /\ SchemaBlocks' = SchemaBlocks
    BY <1>1, <1>3, <2>4 DEF SchemaBlocks
  <2>12. WholePages'
    <3>1. \A b \in SchemaBlocks : Tiled(tables'[b], SizeOfBlock, offset'[b])
      BY <1>1, <2>10, <2>11
    <3> QED BY <2>11, <3>1 DEF WholePages, Tiled, End, SizeOfBlock
  <2>13. Added(last, mid, here)
    <3> DEFINE D == DOMAIN tables[last]
    <3>1. /\ DOMAIN tables'[last] = D \cup {mid} /\ mid \notin D
          /\ \A q \in D : tables'[last][q] = tables[last][q]
          /\ tables'[last][mid] = here
      BY <2>6, <2>9, <2>11 DEF Joined
    <3>2. mid \in Places
      BY <1>2 DEF mid
    <3> QED BY <1>1, <2>11, <3>1, <3>2, EntryAdded
  <2> QED BY <1>1, <1>2, <2>2, <2>12, <2>13 DEF here, mid
<1>4. CASE /\ CanPop
           /\ creating' = there
           /\ tables' = [tables EXCEPT ![Popped] = At(SizeOfBlock, there)]
           /\ offset' = [offset EXCEPT ![Popped] = SizeOfBlock + RealSize(there)]
           /\ type' = PoppedType("SCHEMA")
  <2> DEFINE to == SizeOfBlock + RealSize(there)
  <2>1. SizeOfBlock \in Places /\ Popped \in Blocks
    BY <1>4, PoppedIsFree, PagerAssumption DEF SizeOfBlock, Places
  <2>2. there \in Table /\ there.block_id = Popped /\ there.offset = SizeOfBlock
    BY <2>1, NewTableType
  <2>3. there \in Fit
    BY <2>2, Sized DEF Fit
  <2>4. there.columns = "own"
    BY DEF NewTable
  <2>5. SchemaBlocks' = SchemaBlocks \cup {Popped} /\ Popped \notin SchemaBlocks
    BY <1>4, PoppedSets
  <2> HIDE DEF there
  <2>6. Tiled(At(SizeOfBlock, there), SizeOfBlock, to)
    BY <2>2, <2>3, <2>4, OneTiles
  <2>7. DOMAIN At(SizeOfBlock, there) = {SizeOfBlock}
        /\ At(SizeOfBlock, there)[SizeOfBlock] = there
    BY DEF At
  <2>8. /\ tables'[Popped] = At(SizeOfBlock, there) /\ offset'[Popped] = to
        /\ \A b \in Blocks : b # Popped => tables'[b] = tables[b] /\ offset'[b] = offset[b]
    BY <1>1, <1>4, <2>1
  <2> HIDE DEF to
  <2>9. WholePages'
    <3>1. \A b \in SchemaBlocks \cup {Popped} : Tiled(tables'[b], SizeOfBlock, offset'[b])
      BY <1>1, <2>5, <2>6, <2>8
    <3> QED BY <2>5, <3>1 DEF WholePages, Tiled, End, SizeOfBlock
  <2>10. Added(Popped, SizeOfBlock, there)
    <3> DEFINE D == {}
    <3>1. /\ DOMAIN tables'[Popped] = D \cup {SizeOfBlock} /\ SizeOfBlock \notin D
          /\ \A q \in D : tables'[Popped][q] = tables[Popped][q]
          /\ tables'[Popped][SizeOfBlock] = there
      BY <2>7, <2>8
    <3> HIDE DEF D
    <3>2. Popped \notin SchemaBlocks => D = {}
      BY DEF D
    <3> QED BY <2>1, <2>5, <2>8, <3>1, <3>2, EntryAdded
  <2>11. creating' = there
    BY <1>4 DEF there
  <2> QED BY <2>1, <2>9, <2>10, <2>11 DEF there
<1> QED BY <1>3, <1>4 DEF InsertTable

(* A descriptor written where it is keeps the others.                      *)
Place(tb) == <<tb.block_id, tb.offset>>

Rewritten(tb) ==
  /\ Entries' = Entries
  /\ \A e \in Entries : TableAt(e)' = IF e = Place(tb) THEN tb ELSE TableAt(e)

LEMMA WrittenKeeps ==
  ASSUME FileInv, WholePages, NEW tb \in Fit, Place(tb) \in Entries,
         RealSize(tb) = RealSize(TableAt(Place(tb))), tb.columns = "own",
         tables' = WriteTable(tb), offset' = offset, SchemaBlocks' = SchemaBlocks
  PROVE  WholePages' /\ Rewritten(tb)
<1> DEFINE b == tb.block_id
           p == tb.offset
<1>1. b \in SchemaBlocks /\ p \in DOMAIN tables[b] /\ RealSize(tb) = RealSize(tables[b][p])
  BY DEF Entries, Place, TableAt
<1>2. Tiled(tables[b], SizeOfBlock, offset[b])
  BY <1>1 DEF WholePages
<1> HIDE DEF b, p
<1>3. /\ \A c \in Blocks : c # b => tables'[c] = tables[c]
      /\ DOMAIN tables'[b] = DOMAIN tables[b]
      /\ \A q \in DOMAIN tables[b] : tables'[b][q] = IF q = p THEN tb ELSE tables[b][q]
      /\ Tiled(tables'[b], SizeOfBlock, offset[b])
  BY <1>1, <1>2, WrittenInPlace DEF b, p
<1>4. WholePages'
  <2>1. \A c \in SchemaBlocks : Tiled(tables'[c], SizeOfBlock, offset[c])
    BY <1>3 DEF WholePages, SchemaBlocks
  <2> QED BY <2>1 DEF WholePages, Tiled, End, SizeOfBlock
<1>5. Entries' = Entries
  <2>1. \A c \in Blocks : DOMAIN tables'[c] = DOMAIN tables[c]
    BY <1>3
  <2> QED BY <2>1 DEF Entries
<1>6. ASSUME NEW e \in Entries
      PROVE  tables'[e[1]][e[2]] = IF e = <<b, p>> THEN tb ELSE tables[e[1]][e[2]]
  <2>1. e = <<e[1], e[2]>> /\ e[1] \in Blocks /\ e[2] \in DOMAIN tables[e[1]]
    BY DEF Entries
  <2>2. CASE e[1] = b
    BY <1>3, <2>1, <2>2
  <2>3. CASE e[1] # b
    BY <1>3, <2>1, <2>3
  <2> QED BY <2>2, <2>3
<1> QED BY <1>4, <1>5, <1>6 DEF Rewritten, TableAt, Place, b, p

(* The descriptor being created is in the schema.                          *)
CreatingThere ==
  creating # NoTable => Place(creating) \in Entries /\ TableAt(Place(creating)) = creating

(* initialize_table_record_block writes that descriptor again.             *)
LEMMA InitializeKeeps ==
  ASSUME FileInv, WholePages, CreatingThere, InitializeTableRecordBlock
  PROVE  LET tb == WithBlock(creating, Popped)
         IN  /\ WholePages' /\ Rewritten(tb)
             /\ Place(tb) \in Entries /\ Place(tb) = Place(creating)
             /\ tb \in Table /\ tb.name = creating.name
             /\ tb.block_id = creating.block_id /\ tb.offset = creating.offset
             /\ tb.first_record_block_id = Popped /\ tb.last_record_block_id = Popped
             /\ tb.num_rows = creating.num_rows
<1> DEFINE tb == WithBlock(creating, Popped)
<1>1. /\ creating # NoTable /\ CanPop /\ type' = PoppedType("RECORD")
      /\ tables' = WriteTable(tb) /\ offset' = offset
  BY DEF InitializeTableRecordBlock
<1>2. creating \in Fit /\ creating \in Table /\ Popped \in Nat
  BY <1>1, PoppedIsFree DEF FileInv, Fitting, Fit, Blocks
<1>3. /\ tb \in Table /\ tb.name = creating.name /\ tb.num_columns = creating.num_columns
      /\ tb.block_id = creating.block_id /\ tb.offset = creating.offset
      /\ tb.first_record_block_id = Popped /\ tb.last_record_block_id = Popped
      /\ tb.num_rows = creating.num_rows /\ tb.columns = creating.columns
  BY <1>2 DEF WithBlock, Table
<1> HIDE DEF tb
<1>4. tb \in Fit /\ RealSize(tb) = RealSize(creating) /\ Place(tb) = Place(creating)
  BY <1>2, <1>3 DEF Fit, RealSize, Place
<1>5. SchemaBlocks' = SchemaBlocks
  BY <1>1, PoppedSets
<1>6. Place(tb) \in Entries /\ TableAt(Place(tb)) = creating
  BY <1>1, <1>4 DEF CreatingThere
<1>7. tb.columns = "own"
  <2>1. Place(tb)[1] \in SchemaBlocks /\ Place(tb)[2] \in DOMAIN tables[Place(tb)[1]]
    BY <1>6 DEF Entries
  <2>2. TableAt(Place(tb)).columns = "own"
    BY <2>1 DEF WholePages, Tiled, TableAt
  <2> QED BY <1>3, <1>6, <2>2
<1>8. WholePages' /\ Rewritten(tb)
  BY <1>1, <1>4, <1>5, <1>6, <1>7, WrittenKeeps
<1> QED BY <1>3, <1>4, <1>6, <1>8 DEF tb

(* A descriptor is where it was first written.                             *)
Unmoved == \A e \in Entries : e = Place(TableAt(e))

(* insert_record_to_table writes one descriptor again, not always the one  *)
(* it read: when none has been moved, it changes no name.                  *)
LEMMA ThroughTable ==
  ASSUME FileInv, NEW old \in Fit, InsertThrough(old)
  PROVE  \E tb \in Fit :
           /\ tb.name = old.name /\ Place(tb) = Place(old) /\ RealSize(tb) = RealSize(old)
           /\ tb.columns = old.columns
           /\ tables' = WriteTable(tb) /\ SchemaBlocks' = SchemaBlocks
<1> DEFINE counted == [old EXCEPT !.num_rows = @ + 1]
<1>0. old \in Table
  BY DEF Fit
<1>1. /\ counted \in Table /\ counted.name = old.name /\ counted.columns = old.columns
      /\ counted.block_id = old.block_id /\ counted.offset = old.offset
      /\ counted.num_columns = old.num_columns
  BY <1>0 DEF Table
<1>2. counted \in Fit /\ Place(counted) = Place(old) /\ RealSize(counted) = RealSize(old)
  BY <1>1 DEF Fit, RealSize, Place
<1>3. CASE tables' = WriteTable(counted) /\ UNCHANGED type
  <2>1. SchemaBlocks' = SchemaBlocks
    BY <1>3 DEF SchemaBlocks
  <2> HIDE DEF counted
  <2> QED BY <1>1, <1>2, <1>3, <2>1
<1>4. CASE /\ CanPop /\ type' = PoppedType("RECORD")
           /\ tables' = WriteTable([old EXCEPT !.num_rows = @ + 1,
                                               !.last_record_block_id = Popped])
  <2>1. SchemaBlocks' = SchemaBlocks /\ Popped \in Nat
    BY <1>4, PoppedSets, PoppedIsFree DEF Blocks
  <2> DEFINE tb == [counted EXCEPT !.last_record_block_id = Popped]
  <2>2. tables' = WriteTable(tb)
    BY <1>4
  <2> HIDE DEF counted
  <2>3. /\ tb \in Table /\ tb.name = old.name /\ tb.columns = old.columns
        /\ tb.block_id = old.block_id /\ tb.offset = old.offset
        /\ tb.num_columns = old.num_columns
    BY <1>1, <2>1 DEF Table
  <2> HIDE DEF tb
  <2>4. tb \in Fit /\ Place(tb) = Place(old) /\ RealSize(tb) = RealSize(old)
    BY <2>3 DEF Fit, RealSize, Place
  <2> QED BY <2>1, <2>2, <2>3, <2>4
<1> QED BY <1>3, <1>4 DEF InsertThrough

LEMMA InsertRecordKeeps ==
  ASSUME FileInv, WholePages, Unmoved, NEW n \in Names, InsertRecord(n)
  PROVE  WholePages' /\ SameEntries /\ Unmoved'
<1>1. PICK b \in Blocks : \E p \in DOMAIN tables[b] :
        Found(n, b, p) /\ tables[b][p].columns = "own" /\ InsertThrough(tables[b][p])
  BY DEF InsertRecord
<1>2. PICK p \in DOMAIN tables[b] :
        Found(n, b, p) /\ tables[b][p].columns = "own" /\ InsertThrough(tables[b][p])
  BY <1>1
<1> DEFINE old == tables[b][p]
<1>3. old \in Fit /\ <<b, p>> \in Entries
  <2>1. b \in SchemaBlocks
    BY <1>2 DEF Found
  <2> QED BY <2>1, EntryIs DEF FileInv, Fitting, Page
<1>4. PICK tb \in Fit :
        /\ tb.name = old.name /\ Place(tb) = Place(old) /\ RealSize(tb) = RealSize(old)
        /\ tb.columns = old.columns
        /\ tables' = WriteTable(tb) /\ SchemaBlocks' = SchemaBlocks
  <2> HIDE DEF old
  <2>1. InsertThrough(old)
    BY <1>2 DEF old
  <2> QED BY <1>3, <2>1, ThroughTable
<1>5. TableAt(<<b, p>>) = old
  BY DEF TableAt
<1>6. Place(old) = <<b, p>> /\ old.columns = "own"
  BY <1>2, <1>3, <1>5 DEF Unmoved
<1>7. offset' = offset
  BY DEF InsertRecord
<1> HIDE DEF old
<1>8. WholePages' /\ Rewritten(tb)
  BY <1>3, <1>4, <1>5, <1>6, <1>7, WrittenKeeps
<1>9. ASSUME NEW e \in Entries
      PROVE  TableAt(e)'.name = TableAt(e).name /\ Place(TableAt(e)') = e
  <2>1. CASE e = <<b, p>>
    BY <1>4, <1>5, <1>6, <1>8, <2>1 DEF Rewritten
  <2>2. CASE e # <<b, p>>
    BY <1>4, <1>6, <1>8, <2>2 DEF Rewritten, Unmoved
  <2> QED BY <2>1, <2>2
<1>10. SameEntries
  BY <1>8, <1>9 DEF Rewritten, SameEntries, EntryName, TableAt
<1>11. Unmoved'
  BY <1>8, <1>9 DEF Rewritten, Unmoved, Place, TableAt
<1> QED BY <1>8, <1>10, <1>11

-----------------------------------------------------------------------------
(* What delete_table_from_schema moves where.                              *)

(* The descriptor at place p of block b goes, and every other one is found *)
(* again in one place of the schema.                                       *)
Removed(b, p) ==
  \E g \in Bijection(Entries \ {<<b, p>>}, Entries') :
    \A e \in Entries \ {<<b, p>>} : tables'[g[e][1]][g[e][2]] = TableAt(e)

(* m and k say where the moved and the kept descriptors of block b go.     *)
MovedTo(b, last, moved, kept, m, k) ==
  /\ m \in [moved -> Places] /\ k \in [kept -> Places]
  /\ \A q, r \in moved : m[q] = m[r] => q = r
  /\ \A q, r \in kept : k[q] = k[r] => q = r
  /\ \A q \in moved : m[q] \notin DOMAIN tables[last]
  /\ b = last => moved = {}
  /\ DOMAIN tables'[b] = {k[q] : q \in kept}
  /\ \A q \in kept : tables'[b][k[q]] = tables[b][q]
  /\ b # last => /\ DOMAIN tables'[last] = DOMAIN tables[last] \cup {m[q] : q \in moved}
                 /\ \A q \in DOMAIN tables[last] : tables'[last][q] = tables[last][q]
                 /\ \A q \in moved : tables'[last][m[q]] = tables[b][q]
  /\ \A c \in Blocks : c # b /\ c # last => tables'[c] = tables[c]
  /\ \/ SchemaBlocks' = SchemaBlocks
     \/ SchemaBlocks' = SchemaBlocks \ {b} /\ kept = {} /\ b # last

LEMMA MovesKeepOthers ==
  ASSUME FileInv, NEW b \in SchemaBlocks, NEW last \in SchemaBlocks,
         NEW p \in DOMAIN tables[b],
         NEW moved, NEW kept, moved \cup kept = DOMAIN tables[b] \ {p}, moved \cap kept = {},
         NEW m, NEW k, MovedTo(b, last, moved, kept, m, k)
  PROVE  Removed(b, p)
<1> DEFINE S == Entries \ {<<b, p>>}
           g == [e \in S |-> IF e[1] = b
                             THEN IF e[2] \in moved THEN <<last, m[e[2]]>> ELSE <<b, k[e[2]]>>
                             ELSE e]
<1>1. /\ m \in [moved -> Places] /\ k \in [kept -> Places]
      /\ \A q, r \in moved : m[q] = m[r] => q = r
      /\ \A q, r \in kept : k[q] = k[r] => q = r
      /\ \A q \in moved : m[q] \notin DOMAIN tables[last]
      /\ b = last => moved = {}
      /\ DOMAIN tables'[b] = {k[q] : q \in kept}
      /\ \A q \in kept : tables'[b][k[q]] = tables[b][q]
      /\ b # last => /\ DOMAIN tables'[last] = DOMAIN tables[last] \cup {m[q] : q \in moved}
                     /\ \A q \in DOMAIN tables[last] : tables'[last][q] = tables[last][q]
                     /\ \A q \in moved : tables'[last][m[q]] = tables[b][q]
      /\ \A c \in Blocks : c # b /\ c # last => tables'[c] = tables[c]
      /\ \/ SchemaBlocks' = SchemaBlocks
         \/ SchemaBlocks' = SchemaBlocks \ {b} /\ kept = {} /\ b # last
  BY DEF MovedTo
<1>2. /\ b \in Blocks /\ last \in Blocks /\ \A c \in SchemaBlocks : c \in Blocks
      /\ last \in SchemaBlocks'
      /\ b \in SchemaBlocks' \/ kept = {}
      /\ \A c \in Blocks : c # b => (c \in SchemaBlocks' <=> c \in SchemaBlocks)
  BY <1>1 DEF SchemaBlocks
(* The places of the new schema.                                           *)
<1>3. \A e : e \in Entries <=> /\ e = <<e[1], e[2]>> /\ e[1] \in Blocks /\ e[2] \in Places
                               /\ e[1] \in SchemaBlocks /\ e[2] \in DOMAIN tables[e[1]]
  BY DEF Entries
<1>4. \A e : e \in Entries' <=> /\ e = <<e[1], e[2]>> /\ e[1] \in Blocks /\ e[2] \in Places
                                /\ e[1] \in SchemaBlocks' /\ e[2] \in DOMAIN tables'[e[1]]
  BY DEF Entries
<1>5. \A q \in DOMAIN tables[b] : q \in Places
  BY <1>2, EntryIs
<1>6. ASSUME NEW e \in S
      PROVE  \/ e[1] = b /\ e[2] \in moved /\ g[e] = <<last, m[e[2]]>>
             \/ e[1] = b /\ e[2] \in kept /\ g[e] = <<b, k[e[2]]>>
             \/ e[1] # b /\ g[e] = e
  <2>1. e \in Entries /\ e # <<b, p>>
    OBVIOUS
  <2>2. g[e] = IF e[1] = b
               THEN IF e[2] \in moved THEN <<last, m[e[2]]>> ELSE <<b, k[e[2]]>>
               ELSE e
    OBVIOUS
  <2> HIDE DEF g, S
  <2>3. e[1] = b => e[2] \in moved \cup kept
    BY <1>3, <2>1
  <2> QED BY <2>2, <2>3
<1>7. ASSUME NEW e \in S
      PROVE  g[e] \in Entries' /\ tables'[g[e][1]][g[e][2]] = tables[e[1]][e[2]]
  <2>0. e \in Entries
    OBVIOUS
  <2> HIDE DEF g, S
  <2>1. CASE e[1] = b /\ e[2] \in moved /\ g[e] = <<last, m[e[2]]>>
    <3>1. b # last /\ m[e[2]] \in Places /\ m[e[2]] \in DOMAIN tables'[last]
          /\ tables'[last][m[e[2]]] = tables[b][e[2]]
      BY <1>1, <2>1
    <3> QED BY <1>2, <1>4, <2>1, <3>1
  <2>2. CASE e[1] = b /\ e[2] \in kept /\ g[e] = <<b, k[e[2]]>>
    <3>1. k[e[2]] \in Places /\ k[e[2]] \in DOMAIN tables'[b] /\ b \in SchemaBlocks'
          /\ tables'[b][k[e[2]]] = tables[b][e[2]]
      BY <1>1, <1>2, <2>2
    <3> QED BY <1>2, <1>4, <2>2, <3>1
  <2>3. CASE e[1] # b /\ g[e] = e
    <3>1. /\ e = <<e[1], e[2]>> /\ e[1] \in Blocks /\ e[2] \in Places
          /\ e[1] \in SchemaBlocks' /\ e[2] \in DOMAIN tables[e[1]]
      BY <1>2, <1>3, <2>0, <2>3
    <3>2. e[2] \in DOMAIN tables'[e[1]] /\ tables'[e[1]][e[2]] = tables[e[1]][e[2]]
      BY <1>1, <2>3, <3>1
    <3> QED BY <1>4, <2>3, <3>1, <3>2
  <2> QED BY <1>6, <2>1, <2>2, <2>3
<1>8. ASSUME NEW e \in S, NEW f \in S, g[e] = g[f] PROVE e = f
  <2>0. e \in Entries /\ f \in Entries
    OBVIOUS
  <2>1. /\ e = <<e[1], e[2]>> /\ f = <<f[1], f[2]>>
        /\ e[2] \in DOMAIN tables[e[1]] /\ f[2] \in DOMAIN tables[f[1]]
    BY <1>3, <2>0
  <2> DEFINE A(x) == x[1] = b /\ x[2] \in moved /\ g[x] = <<last, m[x[2]]>>
             B(x) == x[1] = b /\ x[2] \in kept /\ g[x] = <<b, k[x[2]]>>
             C(x) == x[1] # b /\ g[x] = x
  <2>2. (A(e) \/ B(e) \/ C(e)) /\ (A(f) \/ B(f) \/ C(f))
    BY <1>6
  <2> HIDE DEF g, S
  <2>3. CASE A(e) /\ A(f)
    <3>1. <<last, m[e[2]]>> = <<last, m[f[2]]>>
      BY <1>8, <2>3
    <3>2. m[e[2]] = m[f[2]]
      BY <3>1
    <3>3. e[2] = f[2]
      BY <1>1, <2>3, <3>2
    <3> QED BY <2>1, <2>3, <3>3
  <2>4. CASE B(e) /\ B(f)
    <3>1. <<b, k[e[2]]>> = <<b, k[f[2]]>>
      BY <1>8, <2>4
    <3>2. k[e[2]] = k[f[2]]
      BY <3>1
    <3>3. e[2] = f[2]
      BY <1>1, <2>4, <3>2
    <3> QED BY <2>1, <2>4, <3>3
  <2>5. CASE C(e) /\ C(f)
    BY <1>8, <2>5
  <2>6. ASSUME NEW x, NEW y, A(x), B(y), g[x] = g[y] PROVE FALSE
    <3>1. last = b
      BY <2>6
    <3> QED BY <1>1, <2>6, <3>1
  <2>7. ASSUME NEW x, NEW y, A(x), C(y), g[x] = g[y], y[2] \in DOMAIN tables[y[1]] PROVE FALSE
    <3>1. y = <<last, m[x[2]]>>
      BY <2>7
    <3>2. y[1] = last /\ y[2] = m[x[2]]
      BY <3>1
    <3> QED BY <1>1, <2>7, <3>2
  <2>8. ASSUME NEW x, NEW y, B(x), C(y), g[x] = g[y] PROVE FALSE
    <3>1. y = <<b, k[x[2]]>>
      BY <2>8
    <3>2. y[1] = b
      BY <3>1
    <3> QED BY <2>8, <3>2
  <2> HIDE DEF A, B, C
  <2> QED BY <1>8, <2>1, <2>2, <2>3, <2>4, <2>5, <2>6, <2>7, <2>8
<1>9. ASSUME NEW t \in Entries' PROVE \E e \in S : g[e] = t
  <2>1. /\ t = <<t[1], t[2]>> /\ t[1] \in Blocks /\ t[2] \in Places
        /\ t[1] \in SchemaBlocks' /\ t[2] \in DOMAIN tables'[t[1]]
    BY <1>4
  <2>2. \A q \in DOMAIN tables[b] : q # p => <<b, q>> \in S
    BY <1>2, <1>3, <1>5
  <2>3. \A q \in moved \cup kept : q \in DOMAIN tables[b] /\ q # p
    OBVIOUS
  <2>4. CASE t[1] = b
    <3>1. PICK q \in kept : t[2] = k[q]
      BY <1>1, <2>1, <2>4
    <3> DEFINE e == <<b, q>>
    <3>2. e \in S /\ e[1] = b /\ e[2] = q /\ q \notin moved
      BY <2>2, <2>3
    <3>3. g[e] = <<b, k[q]>>
      <4> HIDE DEF e
      <4> QED BY <3>2
    <3> QED BY <2>1, <2>4, <3>1, <3>2, <3>3
  <2>5. CASE t[1] # b /\ t[1] = last /\ t[2] \notin DOMAIN tables[last]
    <3>1. PICK q \in moved : t[2] = m[q]
      BY <1>1, <2>1, <2>5
    <3> DEFINE e == <<b, q>>
    <3>2. e \in S /\ e[1] = b /\ e[2] = q
      BY <2>2, <2>3
    <3>3. g[e] = <<last, m[q]>>
      <4> HIDE DEF e
      <4> QED BY <3>2
    <3> QED BY <2>1, <2>5, <3>1, <3>2, <3>3
  <2>6. CASE t[1] # b /\ ~(t[1] = last /\ t[2] \notin DOMAIN tables[last])
    <3>1. t[1] \in SchemaBlocks /\ t[2] \in DOMAIN tables[t[1]]
      BY <1>1, <1>2, <2>1, <2>6
    <3>2. t \in Entries /\ t # <<b, p>>
      BY <1>3, <2>1, <2>6, <3>1
    <3>3. g[t] = t
      BY <2>6, <3>2
    <3> QED BY <3>2, <3>3
  <2> QED BY <2>4, <2>5, <2>6
<1>10. g \in [S -> Entries']
  <2>1. \A e \in S : g[e] \in Entries'
    BY <1>7
  <2>2. g = [e \in S |-> g[e]]
    OBVIOUS
  <2> HIDE DEF g, S
  <2> QED BY <2>1, <2>2
<1> HIDE DEF g
<1>11. g \in Bijection(S, Entries')
  <2> HIDE DEF S
  <2> QED BY <1>8, <1>9, <1>10, Fun_IsBij
<1>12. \A e \in S : tables'[g[e][1]][g[e][2]] = TableAt(e)
  BY <1>7 DEF TableAt
<1>13. PICK h \in Bijection(S, Entries') : h = g
  BY <1>11
<1>14. \A e \in S : tables'[h[e][1]][h[e][2]] = TableAt(e)
  BY <1>12, <1>13
<1> QED BY <1>14 DEF Removed

(* Where delete_table_from_schema lays them.                               *)
LEMMA DeleteTableRemoves ==
  ASSUME FileInv, WholePages, NEW n \in Names, DeleteTable(n)
  PROVE  /\ WholePages'
         /\ \E b \in SchemaBlocks : \E p \in DOMAIN tables[b] :
              tables[b][p].name = n /\ Removed(b, p)
<1>1. PICK b \in SchemaBlocks, pre \in Blocks :
        \E p \in DOMAIN tables[b] :
          /\ tables[b][p].name = n
          /\ \E moved \in SUBSET (Reads(b) \ {p}) :
               /\ FitInLast(b, Reads(b) \ {p}, moved)
               /\ DeleteFrom(b, pre, moved, (Reads(b) \ {p}) \ moved)
  BY DEF DeleteTable, Found, FirstMatch, Matches
<1>2. PICK p \in DOMAIN tables[b] :
        /\ tables[b][p].name = n
        /\ \E moved \in SUBSET (Reads(b) \ {p}) :
             /\ FitInLast(b, Reads(b) \ {p}, moved)
             /\ DeleteFrom(b, pre, moved, (Reads(b) \ {p}) \ moved)
  BY <1>1
<1>3. PICK moved \in SUBSET (Reads(b) \ {p}) :
        /\ FitInLast(b, Reads(b) \ {p}, moved)
        /\ DeleteFrom(b, pre, moved, (Reads(b) \ {p}) \ moved)
  BY <1>2
<1> DEFINE last == db.schema_last_block_id
           survivors == Reads(b) \ {p}
           kept == survivors \ moved
           mid == offset[last]
           to == mid + Total(Sizes(b), moved)
           end == SizeOfBlock + Total(Sizes(b), kept)
           laid == Laid(mid, b, moved)
           own == Laid(SizeOfBlock, b, kept)
           m == [q \in moved |-> LaidAt(mid, b, moved, q)]
           k == [q \in kept |-> LaidAt(SizeOfBlock, b, kept, q)]
<1>4. /\ b \in Blocks /\ last \in SchemaBlocks /\ last \in Blocks
      /\ Tiled(tables[b], SizeOfBlock, offset[b]) /\ Tiled(tables[last], SizeOfBlock, mid)
  BY LastSchemaBlock DEF WholePages, SchemaBlocks
<1>5. Reads(b) = DOMAIN tables[b]
  BY <1>4, TiledReads
<1>6. /\ moved \in SUBSET DOMAIN tables[b] /\ kept \in SUBSET DOMAIN tables[b]
      /\ moved \cup kept = DOMAIN tables[b] \ {p} /\ moved \cap kept = {}
  BY <1>3, <1>5
<1>7. Deleted(b, moved, kept)
  <2>1. creating = NoTable /\ creating' = creating
    BY DEF DeleteTable
  <2>2. survivors \in SUBSET Reads(b) /\ moved \in SUBSET survivors
    OBVIOUS
  <2> HIDE DEF survivors
  <2>3. FitInLast(b, survivors, moved) /\ DeleteFrom(b, pre, moved, survivors \ moved)
    BY <1>3 DEF survivors
  <2> QED BY <1>4, <2>1, <2>2, <2>3, DeleteFromPages
<1>8. \/ SchemaBlocks' = SchemaBlocks
      \/ SchemaBlocks' = SchemaBlocks \ {b} /\ kept = {} /\ b # last
  <2>1. \/ type' = type
        \/ type' = [type EXCEPT ![b] = "FREE"] /\ kept = {} /\ b # last
    BY <1>3 DEF DeleteFrom
  <2>2. type \in [Blocks -> BlockTypes]
    BY DEF FileInv, TypeOK
  <2> QED BY <1>4, <2>1, <2>2 DEF SchemaBlocks
<1> HIDE DEF last, kept, survivors
<1>9. /\ b = last => moved = {}
      /\ mid \in Nat /\ SizeOfBlock <= mid
      /\ to < BlockSize /\ end < BlockSize
      /\ Total(Sizes(b), moved) \in Nat /\ Total(Sizes(b), kept) \in Nat
      /\ Page(tables[b], offset[b]) /\ offset[b] \in Nat
      /\ Page(tables[last], mid)
      /\ DOMAIN tables' = Blocks
      /\ \A c \in Blocks :
           /\ tables'[c] = IF c = b THEN own
                           ELSE IF c = last THEN Over(tables[last], laid) ELSE tables[c]
           /\ offset'[c] = IF c = b THEN end ELSE IF c = last THEN to ELSE offset[c]
  BY <1>7 DEF Deleted, last
<1>10. /\ SizeOfBlock \in Nat /\ SizeOfBlock <= SizeOfBlock
       /\ to \in Nat /\ mid <= to /\ end \in Nat /\ SizeOfBlock <= end
  BY <1>9 DEF SizeOfBlock
<1>11. \A q \in DOMAIN tables[b] : tables[b][q].columns = "own"
  BY <1>4 DEF Tiled
<1> HIDE DEF mid
<1>12. Stacked(mid, b, moved) /\ Stacked(SizeOfBlock, b, kept)
  BY <1>4, <1>6, <1>9, <1>10, LaidIs
<1>13. Tiled(laid, mid, to) /\ Tiled(own, SizeOfBlock, end)
  BY <1>4, <1>6, <1>9, <1>10, <1>11, LaidTiled
<1>14. /\ Page(laid, to)
       /\ DOMAIN laid = {m[q] : q \in moved}
       /\ \A q \in moved : laid[m[q]] = tables[b][q] /\ m[q] \in Nat /\ mid <= m[q]
                           /\ m[q] + Sizes(b)[q] <= to
       /\ \A q, r \in moved : m[q] = m[r] => q = r
  BY <1>12 DEF Stacked
<1>15. /\ DOMAIN own = {k[q] : q \in kept}
       /\ \A q \in kept : own[k[q]] = tables[b][q] /\ k[q] \in Nat /\ SizeOfBlock <= k[q]
                          /\ k[q] + Sizes(b)[q] <= end
       /\ \A q, r \in kept : k[q] = k[r] => q = r
  BY <1>12 DEF Stacked
<1>16. m = [q \in moved |-> m[q]] /\ k = [q \in kept |-> k[q]]
  OBVIOUS
<1> HIDE DEF laid, own, m, k, to, end
<1>17. Joined(tables[last], laid) /\ Tiled(Over(tables[last], laid), SizeOfBlock, to)
  BY <1>4, <1>9, <1>10, <1>13, <1>14, JoinedIs, JoinedTiled
<1>18. WholePages'
  <2>1. \A c \in SchemaBlocks : Tiled(tables'[c], SizeOfBlock, offset'[c])
    <3> TAKE c \in SchemaBlocks
    <3>1. c \in Blocks /\ Tiled(tables[c], SizeOfBlock, offset[c])
      BY DEF WholePages, SchemaBlocks
    <3>2. CASE c = b
      BY <1>9, <1>13, <3>1, <3>2
    <3>3. CASE c # b /\ c = last
      BY <1>9, <1>17, <3>1, <3>3
    <3>4. CASE c # b /\ c # last
      BY <1>9, <3>1, <3>4
    <3> QED BY <3>2, <3>3, <3>4
  <2>2. \A c \in SchemaBlocks' : c \in SchemaBlocks
    BY <1>8
  <2> QED BY <2>1, <2>2 DEF WholePages, Tiled, End, SizeOfBlock
<1>19. \A q \in DOMAIN tables[b] : Sizes(b)[q] \in Nat /\ 0 < Sizes(b)[q]
  <2>1. DOMAIN tables[b] \in SUBSET DOMAIN tables[b]
    OBVIOUS
  <2>2. b \in Blocks /\ offset[b] \in Nat /\ Page(tables[b], offset[b])
    BY <1>4, <1>9
  <2>3. \A G \in SUBSET DOMAIN tables[b] : \A q \in G : Sizes(b)[q] \in Nat /\ 0 < Sizes(b)[q]
    BY <2>2, SizesOfPage
  <2> QED BY <2>1, <2>3
<1>20. m \in [moved -> Places] /\ k \in [kept -> Places]
  <2>1. \A q \in moved : m[q] \in Places
    <3> TAKE q \in moved
    <3>1. m[q] \in Nat /\ mid <= m[q] /\ m[q] + Sizes(b)[q] <= to
          /\ Sizes(b)[q] \in Nat /\ 0 < Sizes(b)[q]
      BY <1>6, <1>14, <1>19
    <3> QED BY <1>9, <1>10, <3>1, PagerAssumption DEF Places
  <2>2. \A q \in kept : k[q] \in Places
    <3> TAKE q \in kept
    <3>1. k[q] \in Nat /\ SizeOfBlock <= k[q] /\ k[q] + Sizes(b)[q] <= end
          /\ Sizes(b)[q] \in Nat /\ 0 < Sizes(b)[q]
      BY <1>6, <1>15, <1>19
    <3> QED BY <1>9, <1>10, <3>1, PagerAssumption DEF Places
  <2> QED BY <1>16, <2>1, <2>2
<1>21. MovedTo(b, last, moved, kept, m, k)
  <2>1. \A q \in moved : m[q] \in DOMAIN laid
    BY <1>14
  <2>2. \A q \in moved : m[q] \notin DOMAIN tables[last]
    BY <1>17, <2>1 DEF Joined
  <2>3. DOMAIN tables'[b] = {k[q] : q \in kept}
        /\ \A q \in kept : tables'[b][k[q]] = tables[b][q]
    BY <1>4, <1>9, <1>15
  <2>4. ASSUME b # last
        PROVE  /\ DOMAIN tables'[last] = DOMAIN tables[last] \cup {m[q] : q \in moved}
               /\ \A q \in DOMAIN tables[last] : tables'[last][q] = tables[last][q]
               /\ \A q \in moved : tables'[last][m[q]] = tables[b][q]
    <3>1. tables'[last] = Over(tables[last], laid)
      BY <1>4, <1>9, <2>4
    <3> QED BY <1>14, <1>17, <2>1, <3>1 DEF Joined
  <2>5. \A c \in Blocks : c # b /\ c # last => tables'[c] = tables[c]
    BY <1>9
  <2> QED BY <1>8, <1>9, <1>14, <1>15, <1>20, <2>2, <2>3, <2>4, <2>5 DEF MovedTo
<1>22. Removed(b, p)
  BY <1>4, <1>6, <1>21, MovesKeepOthers
<1> QED BY <1>2, <1>18, <1>22

-----------------------------------------------------------------------------
(* What each call does to the names.                                       *)

(* The names are counted before a step and behind it.                      *)
LEMMA CountedStep ==
  ASSUME FileInv, WholePages, FileInv', WholePages'
  PROVE  Counted /\ Counted'
<1>1. FileInv /\ WholePages => Counted
  BY WalkCounts
<1>2. FileInv' /\ WholePages' => Counted'
  BY WalkCounts, PTL
<1> QED BY <1>1, <1>2

LEMMA NamesKept ==
  ASSUME FileInv, WholePages, FileInv', WholePages', SameEntries
  PROVE  TableCount' = TableCount
<1>1. Counted /\ Counted'
  BY CountedStep
<1>2. \A n \in Names : Named(n)' = Named(n)
  BY DEF SameEntries, Named
<1> QED BY <1>1, <1>2 DEF Counted

LEMMA NameAdded ==
  ASSUME FileInv, WholePages, FileInv', WholePages', NEW n \in Names, NEW tb, tb.name = n,
         NEW b \in Blocks, NEW p \in Places, Added(b, p, tb)
  PROVE  Schema!Create(n)
<1>1. Counted /\ Counted'
  BY CountedStep
<1>2. /\ <<b, p>> \notin Entries
      /\ Entries' = Entries \cup {<<b, p>>}
      /\ \A e \in Entries : EntryName(e)' = EntryName(e)
      /\ EntryName(<<b, p>>)' = n
  BY DEF Added, EntryName, TableAt
<1>3. Named(n)' = Named(n) \cup {<<b, p>>} /\ <<b, p>> \notin Named(n)
  BY <1>2 DEF Named
<1>4. \A x \in Names \ {n} : Named(x)' = Named(x)
  BY <1>2 DEF Named
<1>5. IsFiniteSet(Named(n))
  BY EntriesFinite, FS_Subset DEF Named
<1>6. Cardinality(Named(n)') = Cardinality(Named(n)) + 1
  BY <1>3, <1>5, FS_AddElement
<1> QED BY <1>1, <1>4, <1>6 DEF Counted, Schema!Create

LEMMA NameRemoved ==
  ASSUME FileInv, WholePages, FileInv', WholePages', NEW n \in Names,
         NEW b \in SchemaBlocks, NEW p \in DOMAIN tables[b],
         tables[b][p].name = n, Removed(b, p)
  PROVE  Schema!Drop(n)
<1>1. Counted /\ Counted'
  BY CountedStep
<1>2. PICK g \in Bijection(Entries \ {<<b, p>>}, Entries') :
        \A e \in Entries \ {<<b, p>>} : tables'[g[e][1]][g[e][2]] = TableAt(e)
  BY DEF Removed
<1>3. <<b, p>> \in Entries /\ EntryName(<<b, p>>) = n
  <2>1. b \in Blocks
    BY DEF SchemaBlocks
  <2> QED BY <2>1, EntryIs DEF EntryName
<1>4. IsFiniteSet(Entries')
  <2>1. Entries' \in SUBSET (Blocks \X Places)
    BY DEF Entries
  <2> QED BY <2>1, PlacesFinite, FS_Subset
<1>5. ASSUME NEW x \in Names
      PROVE  Cardinality(Named(x)') = Cardinality(Named(x) \ {<<b, p>>})
  <2> DEFINE S == Entries \ {<<b, p>>}
             T == Entries'
             A == Named(x) \ {<<b, p>>}
             B == Named(x)'
  <2>1. A \in SUBSET S /\ B \in SUBSET T /\ IsFiniteSet(T)
    BY <1>4 DEF Named
  <2>2. ASSUME NEW e \in S PROVE e \in A <=> g[e] \in B
    <3>1. g[e] \in T
      BY <1>2, Fun_BijectionProperties
    <3>2. tables'[g[e][1]][g[e][2]].name = tables[e[1]][e[2]].name
      BY <1>2 DEF TableAt
    <3> QED BY <3>1, <3>2 DEF Named, EntryName
  <2> HIDE DEF S, T, A, B
  <2>3. g \in Bijection(S, T)
    BY <1>2 DEF S, T
  <2>4. Cardinality(A) = Cardinality(B)
    BY <2>1, <2>2, <2>3, SameSize
  <2> QED BY <2>4 DEF A, B
<1>6. \A x \in Names \ {n} : Named(x) \ {<<b, p>>} = Named(x)
  BY <1>3 DEF Named
<1>7. /\ Cardinality(Named(n) \ {<<b, p>>}) = Cardinality(Named(n)) - 1
      /\ Cardinality(Named(n)) \in Nat /\ Cardinality(Named(n)) > 0
  <2>1. <<b, p>> \in Named(n) /\ IsFiniteSet(Named(n))
    BY <1>3, EntriesFinite, FS_Subset DEF Named
  <2>2. /\ Cardinality(Named(n) \ {<<b, p>>}) = Cardinality(Named(n)) - 1
        /\ IsFiniteSet(Named(n) \ {<<b, p>>})
    BY <2>1, FS_RemoveElement
  <2>3. Cardinality(Named(n) \ {<<b, p>>}) \in Nat /\ Cardinality(Named(n)) \in Nat
    BY <2>1, <2>2, FS_CardinalityType
  <2> QED BY <2>2, <2>3
<1> QED BY <1>1, <1>5, <1>6, <1>7 DEF Counted, Schema!Drop

-----------------------------------------------------------------------------
(* The invariant of the programs that insert no rows behind a drop: the    *)
(* pages are whole, the descriptor being created is on one of them, and    *)
(* without drops nothing has moved.                                        *)

SchemaInv ==
  /\ CInv
  /\ caller # "all_calls" => WholePages /\ CreatingThere
  /\ caller \notin Dropping => Unmoved

(* What a step leaves of it beside CInv, and does to the names.            *)
KeepsSchema ==
  /\ WholePages'
  /\ CreatingThere'
  /\ caller \notin Dropping => Unmoved'
  /\ [Schema!Next]_TableCount

LEMMA InsertTableKeepsSchema ==
  ASSUME SchemaInv, caller # "all_calls", CInv',
         NEW n \in Names, NEW c \in ColumnCounts, InsertTable(n, c)
  PROVE  KeepsSchema
<1>1. FileInv /\ FileInv' /\ WholePages
  BY DEF SchemaInv, CInv
<1>2. WholePages'
  BY <1>1, InsertTableAdds
<1>3. PICK b \in Blocks, p \in Places :
        Added(b, p, creating') /\ creating' = NewTable(n, c, b, p)
  BY <1>1, InsertTableAdds
<1>4. PICK tb : tb = NewTable(n, c, b, p)
  OBVIOUS
<1>5. creating' = tb /\ Added(b, p, tb) /\ tb.name = n /\ Place(tb) = <<b, p>>
  BY <1>3, <1>4 DEF NewTable, Place
<1>6. CreatingThere'
  BY <1>5 DEF CreatingThere, Added, TableAt, Place
<1>7. Unmoved => Unmoved'
  <2> SUFFICES ASSUME Unmoved, NEW e \in Entries' PROVE e = Place(tables'[e[1]][e[2]])
    BY DEF Unmoved, TableAt, Place
  <2>1. CASE e \in Entries
    BY <1>5, <2>1 DEF Unmoved, Added, TableAt
  <2>2. CASE e = <<b, p>>
    BY <1>5, <2>2 DEF Added, TableAt
  <2> QED BY <1>5, <2>1, <2>2 DEF Added
<1>8. Schema!Next
  BY <1>1, <1>2, <1>5, NameAdded DEF Schema!Next
<1> QED BY <1>2, <1>6, <1>7, <1>8 DEF KeepsSchema, SchemaInv

LEMMA InitializeKeepsSchema ==
  ASSUME SchemaInv, caller # "all_calls", CInv', InitializeTableRecordBlock
  PROVE  KeepsSchema
<1>1. FileInv /\ FileInv' /\ WholePages /\ CreatingThere
  BY DEF SchemaInv, CInv
<1> DEFINE tb == WithBlock(creating, Popped)
<1>2. /\ WholePages' /\ Rewritten(tb)
      /\ Place(tb) \in Entries /\ Place(tb) = Place(creating)
      /\ tb.name = creating.name
  BY <1>1, InitializeKeeps
<1>3. creating # NoTable /\ creating' = NoTable
  BY DEF InitializeTableRecordBlock
<1>4. TableAt(Place(tb)) = creating
  BY <1>1, <1>2, <1>3 DEF CreatingThere
<1>5. PICK new : new = tb
  OBVIOUS
<1> HIDE DEF tb
<1>6. /\ Entries' = Entries
      /\ \A e \in Entries : tables'[e[1]][e[2]] = IF e = Place(new) THEN new ELSE TableAt(e)
  BY <1>2, <1>5 DEF Rewritten, TableAt
<1>7. CreatingThere'
  BY <1>3 DEF CreatingThere
<1>8. Unmoved => Unmoved'
  BY <1>5, <1>6 DEF Unmoved, TableAt, Place
<1>9. SameEntries
  BY <1>2, <1>4, <1>5, <1>6 DEF SameEntries, EntryName, TableAt
<1>10. TableCount' = TableCount
  BY <1>1, <1>2, <1>9, NamesKept
<1> QED BY <1>2, <1>7, <1>8, <1>10 DEF KeepsSchema, SchemaInv

LEMMA InsertRecordKeepsSchema ==
  ASSUME SchemaInv, caller \notin Dropping, CInv', NEW n \in Names, InsertRecord(n)
  PROVE  KeepsSchema
<1>1. FileInv /\ FileInv' /\ WholePages /\ Unmoved
  BY DEF SchemaInv, CInv, Dropping
<1>2. WholePages' /\ SameEntries /\ Unmoved'
  BY <1>1, InsertRecordKeeps
<1>3. creating = NoTable /\ creating' = creating
  BY DEF InsertRecord
<1>4. CreatingThere'
  BY <1>3 DEF CreatingThere
<1>5. TableCount' = TableCount
  BY <1>1, <1>2, NamesKept
<1> QED BY <1>2, <1>4, <1>5 DEF KeepsSchema

LEMMA DeleteTableKeepsSchema ==
  ASSUME SchemaInv, caller = "create_and_drop", CInv', NEW n \in Names, DeleteTable(n)
  PROVE  KeepsSchema
<1>1. FileInv /\ FileInv' /\ WholePages
  BY DEF SchemaInv, CInv
<1>2. WholePages'
  BY <1>1, DeleteTableRemoves
<1>3. PICK b \in SchemaBlocks : \E p \in DOMAIN tables[b] :
        tables[b][p].name = n /\ Removed(b, p)
  BY <1>1, DeleteTableRemoves
<1>4. Schema!Drop(n)
  BY <1>1, <1>2, <1>3, NameRemoved
<1>5. creating = NoTable /\ creating' = creating
  BY DEF DeleteTable
<1>6. CreatingThere'
  BY <1>5 DEF CreatingThere
<1> QED BY <1>2, <1>4, <1>6 DEF KeepsSchema, Schema!Next, Dropping

(* A step that writes no schema page.                                      *)
LEMMA PagesKeepSchema ==
  ASSUME SchemaInv, caller # "all_calls", FileInv', SchemaBlocks' = SchemaBlocks,
         UNCHANGED <<offset, tables>>, creating' \in {creating, NoTable}
  PROVE  KeepsSchema
<1>1. Entries' = Entries /\ \A e \in Entries : TableAt(e)' = TableAt(e)
  BY DEF Entries, TableAt
<1>2. SameEntries
  BY <1>1 DEF SameEntries, EntryName, TableAt
<1>3. WholePages'
  BY DEF SchemaInv, WholePages, Tiled, End, SizeOfBlock
<1>4. TableCount' = TableCount
  BY <1>2, <1>3, NamesKept DEF SchemaInv, CInv
<1>5. CreatingThere'
  BY <1>1 DEF SchemaInv, CreatingThere, TableAt, Place
<1>6. Unmoved => Unmoved'
  BY <1>1 DEF Unmoved, TableAt, Place
<1> QED BY <1>3, <1>4, <1>5, <1>6 DEF KeepsSchema, SchemaInv

LEMMA CallKeepsSchema ==
  ASSUME SchemaInv, caller # "all_calls", CInv', NEW c, c.name \in Names, Call(c),
         c.do = "insert_table_to_schema" => c.num_columns \in ColumnCounts,
         caller \notin Dropping => c.do # "delete_table_from_schema",
         caller = "create_and_drop" => c.do # "insert_record_to_table"
  PROVE  KeepsSchema
<1>1. FileInv /\ FileInv'
  BY DEF SchemaInv, CInv
<1>2. CASE c.do = "insert_table_to_schema" /\ InsertTable(c.name, c.num_columns)
  BY <1>2, InsertTableKeepsSchema
<1>3. CASE InitializeTableRecordBlock
  BY <1>3, InitializeKeepsSchema
<1>4. CASE c.do = "insert_record_to_table" /\ InsertRecord(c.name)
  BY <1>4, InsertRecordKeepsSchema DEF Dropping
<1>5. CASE c.do = "delete_table_from_schema" /\ DeleteTable(c.name)
  BY <1>5, DeleteTableKeepsSchema DEF Dropping
<1>6. CASE InitializeFirstFreeBlock
  <2>1. type[Popped] = "FREE"
    BY <1>1 DEF FileInv, FreeChain, Chain, FreeBlocks, Popped
  <2>2. SchemaBlocks' = SchemaBlocks
    BY <1>1, <1>6, <2>1 DEF InitializeFirstFreeBlock, SchemaBlocks, FileInv, TypeOK
  <2> QED BY <1>1, <1>6, <2>2, PagesKeepSchema DEF InitializeFirstFreeBlock
<1>7. CASE FreeTable
  <2>1. SchemaBlocks' = SchemaBlocks
    BY <1>7 DEF FreeTable, SchemaBlocks
  <2> QED BY <1>1, <1>7, <2>1, PagesKeepSchema DEF FreeTable
<1> QED BY <1>2, <1>3, <1>4, <1>5, <1>6, <1>7 DEF Call

LEMMA SchemaStep ==
  SchemaInv /\ [CNext]_cvars => SchemaInv' /\ (caller # "all_calls" => KeepsSchema)
<1> SUFFICES ASSUME SchemaInv, [CNext]_cvars
             PROVE  SchemaInv' /\ (caller # "all_calls" => KeepsSchema)
  OBVIOUS
<1>1. CInv' /\ caller' = caller
  BY CallersStep DEF SchemaInv, CNext, Run, LoopEnd, cvars
<1>2. CASE caller = "all_calls"
  BY <1>1, <1>2 DEF SchemaInv, Dropping
<1>3. CASE caller # "all_calls" /\ Run
  <2>1. PICK c \in Programs[caller][line].calls : Call(c)
    BY <1>3 DEF Run
  <2>2. caller \in DOMAIN Programs /\ line \in DOMAIN Programs[caller]
    BY <1>3 DEF Run, SchemaInv, CInv
  <2>3. /\ c.name \in Names
        /\ c.do = "insert_table_to_schema" => c.num_columns \in ColumnCounts
        /\ caller \notin Dropping => c.do # "delete_table_from_schema"
        /\ caller = "create_and_drop" => c.do # "insert_record_to_table"
    <3>1. CASE caller \in WithoutBlocks
      BY <2>2, <3>1, CallsWithoutBlocks
    <3>2. CASE caller \notin WithoutBlocks
      BY <2>2, <3>2, CallsMade
    <3> QED BY <3>1, <3>2
  <2>4. KeepsSchema
    BY <1>1, <1>3, <2>1, <2>3, CallKeepsSchema
  <2> QED BY <1>1, <2>4 DEF KeepsSchema, SchemaInv
<1>4. CASE caller # "all_calls" /\ UNCHANGED vars
  <2>1. FileInv' /\ SchemaBlocks' = SchemaBlocks
    BY <1>1, <1>4 DEF CInv, vars, SchemaBlocks
  <2>2. KeepsSchema
    BY <1>4, <2>1, PagesKeepSchema DEF vars
  <2> QED BY <1>1, <2>2 DEF KeepsSchema, SchemaInv
<1> QED BY <1>2, <1>3, <1>4 DEF CNext, LoopEnd, cvars

LEMMA NoEntries ==
  ASSUME Init
  PROVE  Entries = {} /\ WholePages /\ TableCount = [n \in Names |-> 0]
<1>1. \A b \in Blocks : DOMAIN tables[b] = {} /\ offset[b] = SizeOfBlock
  BY DEF Init
<1>2. Entries = {}
  BY <1>1 DEF Entries
<1>3. WholePages
  BY <1>1 DEF WholePages, Tiled, SchemaBlocks
<1>4. Counted
  <2>1. FileInv
    BY InitInv DEF IInv, FileInv
  <2> QED BY <1>3, <2>1, WalkCounts
<1>5. \A n \in Names : Cardinality(Named(n)) = 0
  BY <1>2, FS_EmptySet DEF Named
<1> QED BY <1>2, <1>3, <1>4, <1>5 DEF Counted

LEMMA SchemaInductive == CSpec => []SchemaInv
<1>1. CInit /\ CInv => SchemaInv
  <2> SUFFICES ASSUME CInit, CInv PROVE SchemaInv
    OBVIOUS
  <2>1. creating = NoTable /\ WholePages /\ Entries = {}
    BY NoEntries DEF CInit, Init
  <2> QED BY <2>1 DEF SchemaInv, CreatingThere, Unmoved
<1>2. SchemaInv /\ [CNext]_cvars => SchemaInv'
  BY SchemaStep
<1> QED BY <1>1, <1>2, CallersInductive, PTL DEF CSpec

-----------------------------------------------------------------------------
(* The theorems that rest on it: where rows go, and which tables there are. *)

(* Whoever makes record blocks for its tables inserts into RECORD blocks,  *)
(* however drops have moved the descriptors and wherever the write of a    *)
(* stale place has put one; and unless rows are inserted behind a drop,    *)
(* every walk reads every descriptor with the columns it was created with. *)
THEOREM CallersGoToRecords == CSpec => []CallersRowsGoToRecords
<1>1. SchemaInv => CallersRowsGoToRecords
  <2> SUFFICES ASSUME SchemaInv, caller \notin WithoutBlocks
               PROVE  RowsGoToRecords /\ (caller # "all_calls" => SchemaWhole)
    BY DEF CallersRowsGoToRecords
  <2>1. FileInv /\ RowsGoToRecords
    BY DEF SchemaInv, CInv
  <2>2. ASSUME caller # "all_calls", NEW b \in SchemaBlocks
        PROVE  Readable(b) /\ \A p \in DOMAIN tables[b] : tables[b][p].columns = "own"
    <3>1. Tiled(tables[b], SizeOfBlock, offset[b])
      BY <2>2 DEF SchemaInv, WholePages
    <3>2. Readable(b)
      BY <2>1, <3>1, TiledReads
    <3> QED BY <3>1, <3>2 DEF Tiled
  <2> QED BY <2>1, <2>2 DEF SchemaWhole
<1> QED BY <1>1, SchemaInductive, PTL

(* The schema implements the catalog, for every caller but the one that    *)
(* both drops tables and inserts rows: CREATE adds one table of the name,  *)
(* DROP removes one, wherever delete_table_from_schema moves the others,   *)
(* and no other call adds, removes or renames one.  What becomes of the    *)
(* tables when rows are inserted behind a drop is not stated here.         *)
THEOREM CatalogKept == CSpec => CallersKeepCatalog
<1>1. CInit => Schema!Init
  BY NoEntries DEF CInit, Schema!Init
<1>2. SchemaInv /\ [CNext]_cvars =>
        [(caller # "all_calls") => [Schema!Next]_TableCount]_cvars
  BY SchemaStep DEF KeepsSchema
<1> QED BY <1>1, <1>2, SchemaInductive, PTL DEF CSpec, CallersKeepCatalog

-----------------------------------------------------------------------------
(* The rows and the blocks of the tables.                                  *)

(* The blocks of a table are those of its strand.                          *)
LEMMA OwnedStrand ==
  ASSUME NEW tb, NEW S \in SUBSET Blocks,
         Strand(next_id, S, tb.first_record_block_id, tb.last_record_block_id)
  PROVE  OwnedBlocks(tb) = S
<1> DEFINE first == tb.first_record_block_id
           last == tb.last_record_block_id
           P(g) == Follows(g, MaxBlocks, first, next_id)
           w == CHOOSE g : P(g)
           D == {j \in 0 .. MaxBlocks : \A i \in 0 .. j - 1 : w[i] # last}
<1>1. IsFiniteSet(S) /\ Cardinality(S) <= MaxBlocks /\ MaxBlocks \in Nat
  <2>1. Cardinality(Blocks) = MaxBlocks /\ MaxBlocks \in Nat
    BY FS_Interval, PagerAssumption DEF Blocks
  <2> QED BY <2>1, BlocksFinite, FS_Subset
<1>2. \E g : P(g)
  BY <1>1, FollowedExists
<1>3. P(w)
  <2> HIDE DEF P
  <2> QED BY <1>2
<1>4. RecordWalk(tb) =
        [k \in {j \in 0 .. MaxBlocks : \A i \in 0 .. j - 1 :
                  i \notin {k \in 0 .. MaxBlocks : w[k] = last}} |-> w[k]]
  BY DEF RecordWalk, Follows
<1> HIDE DEF w, first, last
<1>5. D = {j \in 0 .. MaxBlocks : \A i \in 0 .. j - 1 :
             i \notin {k \in 0 .. MaxBlocks : w[k] = last}}
  BY <1>1
<1>6. RecordWalk(tb) = [k \in D |-> w[k]]
  <2> HIDE DEF D
  <2> QED BY <1>4, <1>5
<1>7. OwnedBlocks(tb) = {w[k] : k \in D}
  <2> HIDE DEF D
  <2> QED BY <1>6 DEF OwnedBlocks
<1>8. {w[k] : k \in D} = S
  BY <1>1, <1>3, StrandFollowed DEF first, last
<1> QED BY <1>7, <1>8

(* Popping a block and the record blocks.                                  *)

(* A pop changes no record block; the block popped becomes one, or not.    *)
LEMMA PoppedRecords ==
  ASSUME FileInv, CanPop, NEW t \in {"SCHEMA", "RECORD"}, type' = PoppedType(t)
  PROVE  /\ RecordBlocks' = IF t = "RECORD" THEN RecordBlocks \cup {Popped} ELSE RecordBlocks
         /\ Popped \in Blocks /\ Popped \notin RecordBlocks
         /\ \A c \in RecordBlocks : GrownNext[c] = next_id[c]
<1>1. type \in [Blocks -> BlockTypes] /\ next_id \in [Blocks -> Nat]
  BY DEF FileInv, TypeOK
<1>2. /\ type[Popped] = "FREE" /\ Popped \in Blocks
      /\ Grows => db.block_num \in Blocks /\ type[db.block_num] = "NONE"
  BY PoppedIsFree DEF FreeBlocks
<1>3. \A b \in Blocks :
        type'[b] = IF b = Popped THEN t
                   ELSE IF Grows /\ b = db.block_num THEN "FREE" ELSE type[b]
  BY DEF PoppedType
<1>4. RecordBlocks' = IF t = "RECORD" THEN RecordBlocks \cup {Popped} ELSE RecordBlocks
  BY <1>2, <1>3 DEF RecordBlocks
<1>5. Popped \notin RecordBlocks
  BY <1>2 DEF RecordBlocks
<1>6. \A c \in RecordBlocks : GrownNext[c] = next_id[c]
  BY <1>2 DEF RecordBlocks, GrownNext
<1> QED BY <1>2, <1>4, <1>5, <1>6

(* As long as no descriptor has moved, a row goes to the last block of the *)
(* table it is for, or to a block popped and linked behind it.             *)
LEMMA ThroughRows ==
  ASSUME FileInv, NEW old \in Fit, InsertThrough(old)
  PROVE  \E tb \in Fit :
           /\ Place(tb) = Place(old) /\ RealSize(tb) = RealSize(old)
           /\ tb.columns = old.columns
           /\ tables' = WriteTable(tb) /\ SchemaBlocks' = SchemaBlocks
           /\ tb.num_rows = old.num_rows + 1
           /\ tb.first_record_block_id = old.first_record_block_id
           /\ \/ /\ tb.last_record_block_id = old.last_record_block_id
                 /\ rows' = [rows EXCEPT ![old.last_record_block_id] = @ + 1]
                 /\ UNCHANGED <<type, next_id>>
              \/ /\ CanPop
                 /\ tb.last_record_block_id = Popped
                 /\ rows' = [rows EXCEPT ![Popped] = 1]
                 /\ type' = PoppedType("RECORD")
                 /\ next_id' = ExtendedNext(old.last_record_block_id)
<1> DEFINE counted == [old EXCEPT !.num_rows = @ + 1]
<1>0. old \in Table
  BY DEF Fit
<1>1. /\ counted \in Table /\ counted.num_rows = old.num_rows + 1
      /\ counted.columns = old.columns
      /\ counted.block_id = old.block_id /\ counted.offset = old.offset
      /\ counted.num_columns = old.num_columns
      /\ counted.first_record_block_id = old.first_record_block_id
      /\ counted.last_record_block_id = old.last_record_block_id
  BY <1>0 DEF Table
<1>2. counted \in Fit /\ Place(counted) = Place(old) /\ RealSize(counted) = RealSize(old)
  BY <1>1 DEF Fit, RealSize, Place
<1>3. CASE /\ rows' = [rows EXCEPT ![old.last_record_block_id] = @ + 1]
           /\ tables' = WriteTable(counted)
           /\ UNCHANGED <<db, type, next_id>>
  <2>1. SchemaBlocks' = SchemaBlocks
    BY <1>3 DEF SchemaBlocks
  <2> HIDE DEF counted
  <2> QED BY <1>1, <1>2, <1>3, <2>1
<1>4. CASE /\ CanPop /\ rows' = [rows EXCEPT ![Popped] = 1]
           /\ type' = PoppedType("RECORD")
           /\ tables' = WriteTable([old EXCEPT !.num_rows = @ + 1,
                                               !.last_record_block_id = Popped])
           /\ next_id' = ExtendedNext(old.last_record_block_id)
  <2>1. SchemaBlocks' = SchemaBlocks /\ Popped \in Nat
    BY <1>4, PoppedSets, PoppedIsFree DEF Blocks
  <2> DEFINE tb == [counted EXCEPT !.last_record_block_id = Popped]
  <2>2. tables' = WriteTable(tb)
    BY <1>4
  <2> HIDE DEF counted
  <2>3. /\ tb \in Table /\ tb.num_rows = counted.num_rows /\ tb.columns = counted.columns
        /\ tb.block_id = counted.block_id /\ tb.offset = counted.offset
        /\ tb.num_columns = counted.num_columns
        /\ tb.first_record_block_id = counted.first_record_block_id
        /\ tb.last_record_block_id = Popped
    BY <1>1, <2>1 DEF Table
  <2> HIDE DEF tb
  <2>4. tb \in Fit /\ Place(tb) = Place(counted) /\ RealSize(tb) = RealSize(counted)
    BY <1>2, <2>3 DEF Fit, RealSize, Place
  <2> QED BY <1>1, <1>2, <1>4, <2>1, <2>2, <2>3, <2>4
<1> QED BY <1>3, <1>4 DEF InsertThrough

LEMMA InsertRecordInPlace ==
  ASSUME FileInv, WholePages, Unmoved, NEW n \in Names, InsertRecord(n)
  PROVE  \E e \in Entries :
           /\ Entries' = Entries
           /\ \A f \in Entries \ {e} : TableAt(f)' = TableAt(f)
           /\ TableAt(e)'.num_rows = TableAt(e).num_rows + 1
           /\ TableAt(e)'.first_record_block_id = TableAt(e).first_record_block_id
           /\ \/ /\ TableAt(e)'.last_record_block_id = TableAt(e).last_record_block_id
                 /\ rows' = [rows EXCEPT ![TableAt(e).last_record_block_id] = @ + 1]
                 /\ UNCHANGED <<type, next_id>>
              \/ /\ CanPop
                 /\ TableAt(e)'.last_record_block_id = Popped
                 /\ rows' = [rows EXCEPT ![Popped] = 1]
                 /\ type' = PoppedType("RECORD")
                 /\ next_id' = ExtendedNext(TableAt(e).last_record_block_id)
<1>1. PICK b \in Blocks : \E p \in DOMAIN tables[b] :
        Found(n, b, p) /\ tables[b][p].columns = "own" /\ InsertThrough(tables[b][p])
  BY DEF InsertRecord
<1>2. PICK p \in DOMAIN tables[b] :
        Found(n, b, p) /\ tables[b][p].columns = "own" /\ InsertThrough(tables[b][p])
  BY <1>1
<1>3. PICK old : old = tables[b][p]
  OBVIOUS
<1>4. old \in Fit /\ <<b, p>> \in Entries /\ TableAt(<<b, p>>) = old
  <2>1. b \in SchemaBlocks
    BY <1>2 DEF Found
  <2> QED BY <1>3, <2>1, EntryIs DEF FileInv, Fitting, Page, TableAt
<1>5. Place(old) = <<b, p>> /\ old.columns = "own" /\ InsertThrough(old)
  BY <1>2, <1>3, <1>4 DEF Unmoved
<1>6. PICK tb \in Fit :
        /\ Place(tb) = Place(old) /\ RealSize(tb) = RealSize(old)
        /\ tb.columns = old.columns
        /\ tables' = WriteTable(tb) /\ SchemaBlocks' = SchemaBlocks
        /\ tb.num_rows = old.num_rows + 1
        /\ tb.first_record_block_id = old.first_record_block_id
        /\ \/ /\ tb.last_record_block_id = old.last_record_block_id
              /\ rows' = [rows EXCEPT ![old.last_record_block_id] = @ + 1]
              /\ UNCHANGED <<type, next_id>>
           \/ /\ CanPop
              /\ tb.last_record_block_id = Popped
              /\ rows' = [rows EXCEPT ![Popped] = 1]
              /\ type' = PoppedType("RECORD")
              /\ next_id' = ExtendedNext(old.last_record_block_id)
  BY <1>4, <1>5, ThroughRows
<1>7. offset' = offset
  BY DEF InsertRecord
<1>8. Rewritten(tb)
  BY <1>4, <1>5, <1>6, <1>7, WrittenKeeps
<1>9. PICK e \in Entries : e = <<b, p>>
  BY <1>4
<1>10. /\ Entries' = Entries /\ TableAt(e)' = tb /\ TableAt(e) = old
       /\ \A f \in Entries \ {e} : TableAt(f)' = TableAt(f)
  BY <1>4, <1>5, <1>6, <1>8, <1>9 DEF Rewritten
<1> QED BY <1>6, <1>10

(* Every table but the one being created has blocks of its own, which its  *)
(* links go through and whose rows it counts; together they are all the    *)
(* record blocks.                                                          *)

Filled(link, has, tb, S) ==
  /\ Strand(link, S, tb.first_record_block_id, tb.last_record_block_id)
  /\ Total(has, S) = tb.num_rows

BeingCreated(e) == creating # NoTable /\ e = Place(creating)

Shared(own) ==
  /\ \A e \in Entries : own[e] \in SUBSET RecordBlocks
  /\ \A e, f \in Entries : e # f => own[e] \cap own[f] = {}
  /\ \A x \in RecordBlocks : \E e \in Entries : x \in own[e]
  /\ \A e \in Entries :
       IF BeingCreated(e) THEN own[e] = {} /\ TableAt(e).num_rows = 0
       ELSE Filled(next_id, rows, TableAt(e), own[e])

Owned == \E own : Shared(own)

(* What happens to other blocks leaves a table as it was.                  *)
LEMMA FilledSame ==
  ASSUME NEW S, IsFiniteSet(S), NEW link, NEW link2, NEW has, NEW has2, NEW tb,
         Filled(link, has, tb, S), \A x \in S : link2[x] = link[x] /\ has2[x] = has[x]
  PROVE  Filled(link2, has2, tb, S)
<1>1. Strand(link2, S, tb.first_record_block_id, tb.last_record_block_id)
  BY StrandSame DEF Filled
<1>2. Total(has2, S) = Total(has, S)
  BY TotalSame
<1> QED BY <1>1, <1>2 DEF Filled

(* A row more in the last block of a table.                                *)
LEMMA FilledRaise ==
  ASSUME NEW S, IsFiniteSet(S), NEW link, NEW has, NEW has2, NEW tb, NEW new,
         Filled(link, has, tb, S), \A x \in S : has[x] \in Nat,
         has2[tb.last_record_block_id] = has[tb.last_record_block_id] + 1,
         \A x \in S \ {tb.last_record_block_id} : has2[x] = has[x],
         new.first_record_block_id = tb.first_record_block_id,
         new.last_record_block_id = tb.last_record_block_id,
         new.num_rows = tb.num_rows + 1
  PROVE  Filled(link, has2, new, S)
<1>1. tb.last_record_block_id \in S
  BY DEF Filled, Strand, Chain
<1>2. Total(has2, S) = Total(has, S) + 1
  BY <1>1, TotalRaise
<1> QED BY <1>2 DEF Filled

(* A row more in a new block behind it.                                    *)
LEMMA FilledAppend ==
  ASSUME NEW S, IsFiniteSet(S), NEW link, NEW link2, NEW has, NEW has2, NEW tb, NEW new,
         NEW b, b \notin S, Filled(link, has, tb, S), \A x \in S : has[x] \in Nat,
         link2[tb.last_record_block_id] = b,
         \A x \in S \ {tb.last_record_block_id} : link2[x] = link[x],
         has2[b] = 1, \A x \in S : has2[x] = has[x],
         new.first_record_block_id = tb.first_record_block_id,
         new.last_record_block_id = b,
         new.num_rows = tb.num_rows + 1
  PROVE  Filled(link2, has2, new, S \cup {b})
<1>1. Strand(link2, S \cup {b}, new.first_record_block_id, b)
  BY StrandAppend DEF Filled
<1>2. \A x \in S \cup {b} : has2[x] \in Nat
  OBVIOUS
<1>3. Total(has2, S \cup {b}) = has2[b] + Total(has2, S) /\ Total(has2, S) \in Nat
  BY <1>2, TotalAdd
<1>4. Total(has2, S) = Total(has, S) /\ has2[b] = 1
  BY TotalSame
<1>5. Total(has, S) = tb.num_rows
  BY DEF Filled
<1> QED BY <1>1, <1>3, <1>4, <1>5 DEF Filled

(* A step that leaves the record blocks and the descriptors alone.         *)
LEMMA OthersKeepOwned ==
  ASSUME FileInv, Owned, RecordBlocks' = RecordBlocks, Entries' = Entries,
         \A e \in Entries : TableAt(e)' = TableAt(e), creating' = creating,
         \A x \in RecordBlocks : next_id'[x] = next_id[x] /\ rows'[x] = rows[x]
  PROVE  Owned'
<1>1. PICK own : Shared(own)
  BY DEF Owned
<1>2. ASSUME NEW e \in Entries
      PROVE  IF BeingCreated(e)' THEN own[e] = {} /\ TableAt(e)'.num_rows = 0
             ELSE Filled(next_id', rows', TableAt(e)', own[e])
  <2>1. BeingCreated(e)' <=> BeingCreated(e)
    BY DEF BeingCreated, Place
  <2>2. own[e] \in SUBSET RecordBlocks /\ IsFiniteSet(own[e])
    BY <1>1, BlocksFinite, FS_Subset DEF Shared, RecordBlocks
  <2>3. CASE BeingCreated(e)
    BY <1>1, <2>1, <2>3 DEF Shared
  <2>4. CASE ~BeingCreated(e)
    <3>1. Filled(next_id, rows, TableAt(e), own[e])
      BY <1>1, <2>4 DEF Shared
    <3>2. Filled(next_id', rows', TableAt(e), own[e])
      BY <2>2, <3>1, FilledSame
    <3> QED BY <2>1, <2>4, <3>2
  <2> QED BY <2>3, <2>4
<1>3. Shared(own)'
  BY <1>1, <1>2 DEF Shared
<1> QED BY <1>3 DEF Owned

(* CREATE TABLE, first half: one more table, which has no block.           *)
LEMMA InsertTableOwns ==
  ASSUME FileInv, WholePages, Owned, NEW n \in Names, NEW c \in ColumnCounts,
         InsertTable(n, c)
  PROVE  Owned'
<1>1. PICK own : Shared(own)
  BY DEF Owned
<1>11. PICK b \in Blocks, p \in Places :
        Added(b, p, creating') /\ creating' = NewTable(n, c, b, p)
  BY InsertTableAdds
<1>3. PICK at : at = <<b, p>>
  OBVIOUS
<1>2. /\ at \notin Entries
      /\ Entries' = Entries \cup {at}
      /\ \A e \in Entries : TableAt(e)' = TableAt(e)
      /\ TableAt(at)' = creating'
  BY <1>3, <1>11 DEF Added, TableAt
<1>4. /\ creating = NoTable /\ TableAt(at)'.num_rows = 0
      /\ \A e : BeingCreated(e)' <=> e = at
  <2>1. creating = NoTable
    BY DEF InsertTable
  <2>2. creating' # NoTable
    BY <1>11, NewTableType, PagerAssumption
  <2>3. creating'.num_rows = 0 /\ creating'.block_id = b /\ creating'.offset = p
    BY <1>11 DEF NewTable
  <2> QED BY <1>2, <1>3, <2>1, <2>2, <2>3 DEF BeingCreated, Place
<1>5. /\ RecordBlocks' = RecordBlocks
      /\ \A x \in RecordBlocks : next_id'[x] = next_id[x] /\ rows'[x] = rows[x]
  <2>1. CASE UNCHANGED <<db, type, next_id, rows>>
    BY <2>1 DEF RecordBlocks
  <2>2. CASE /\ CanPop /\ type' = PoppedType("SCHEMA")
             /\ next_id' = ExtendedNext(db.schema_last_block_id)
             /\ rows' = [rows EXCEPT ![Popped] = 0]
    <3>1. /\ RecordBlocks' = RecordBlocks /\ Popped \notin RecordBlocks
          /\ \A x \in RecordBlocks : GrownNext[x] = next_id[x]
      BY <2>2, PoppedRecords
    <3>2. db.schema_last_block_id \notin RecordBlocks
      BY LastSchemaBlock DEF RecordBlocks, SchemaBlocks
    <3>3. ASSUME NEW x \in RecordBlocks
          PROVE  next_id'[x] = next_id[x] /\ rows'[x] = rows[x]
      <4>1. x # Popped /\ x # db.schema_last_block_id /\ x \in Blocks
        BY <3>1, <3>2 DEF RecordBlocks
      <4>2. next_id'[x] = GrownNext[x]
        BY <2>2, <4>1 DEF ExtendedNext, GrownNext
      <4>3. rows'[x] = rows[x]
        BY <2>2, <4>1 DEF FileInv, TypeOK
      <4> QED BY <3>1, <4>2, <4>3
    <3> QED BY <3>1, <3>3
  <2> QED BY <2>1, <2>2 DEF InsertTable
<1>6. PICK more : more = [e \in Entries \cup {at} |-> IF e = at THEN {} ELSE own[e]]
  OBVIOUS
<1>7. more[at] = {} /\ \A e \in Entries : e # at /\ more[e] = own[e]
  BY <1>2, <1>3, <1>6
<1>8. ASSUME NEW e \in Entries PROVE Filled(next_id', rows', TableAt(e)', more[e])
  <2>1. own[e] \in SUBSET RecordBlocks /\ IsFiniteSet(own[e])
    BY <1>1, BlocksFinite, FS_Subset DEF Shared, RecordBlocks
  <2>2. Filled(next_id, rows, TableAt(e), own[e])
    BY <1>1, <1>4 DEF Shared, BeingCreated
  <2>3. Filled(next_id', rows', TableAt(e), own[e])
    BY <1>5, <2>1, <2>2, FilledSame
  <2> QED BY <1>2, <1>7, <2>3
<1>9. /\ \A e \in Entries' : more[e] \in SUBSET RecordBlocks'
      /\ \A e, f \in Entries' : e # f => more[e] \cap more[f] = {}
      /\ \A x \in RecordBlocks' : \E e \in Entries' : x \in more[e]
  BY <1>1, <1>2, <1>3, <1>5, <1>7 DEF Shared
<1>10. Shared(more)'
  BY <1>2, <1>3, <1>4, <1>7, <1>8, <1>9 DEF Shared
<1> QED BY <1>10 DEF Owned

(* ... and the second half: the block popped for it, without rows.         *)
LEMMA InitializeOwns ==
  ASSUME FileInv, WholePages, Owned, CreatingThere, InitializeTableRecordBlock
  PROVE  Owned'
<1>1. PICK own : Shared(own)
  BY DEF Owned
<1>2. PICK at : at = Place(creating)
  OBVIOUS
<1>3. PICK tb : tb = WithBlock(creating, Popped)
  OBVIOUS
<1>4. /\ at \in Entries /\ Entries' = Entries
      /\ \A e \in Entries : TableAt(e)' = IF e = at THEN tb ELSE TableAt(e)
      /\ tb.first_record_block_id = Popped /\ tb.last_record_block_id = Popped
      /\ tb.num_rows = creating.num_rows
  BY <1>2, <1>3, InitializeKeeps DEF Rewritten
<1>5. PICK b : b = Popped
  OBVIOUS
<1>6. /\ creating # NoTable /\ creating' = NoTable /\ CanPop
      /\ type' = PoppedType("RECORD") /\ next_id' = GrownNext
      /\ rows' = [rows EXCEPT ![b] = 0]
  BY <1>5 DEF InitializeTableRecordBlock
<1>7. /\ RecordBlocks' = RecordBlocks \cup {b} /\ b \in Blocks /\ b \notin RecordBlocks
      /\ \A x \in RecordBlocks : next_id'[x] = next_id[x]
  BY <1>5, <1>6, PoppedRecords
<1>8. rows'[b] = 0 /\ \A x \in RecordBlocks : rows'[x] = rows[x]
  BY <1>6, <1>7 DEF FileInv, TypeOK, RecordBlocks
<1>9. tb.num_rows = 0 /\ own[at] = {}
  <2>1. BeingCreated(at) /\ TableAt(at) = creating
    BY <1>2, <1>6 DEF BeingCreated, CreatingThere
  <2>2. creating.num_rows = 0 /\ own[at] = {}
    BY <1>1, <1>4, <2>1 DEF Shared
  <2> QED BY <1>4, <2>2
<1>10. PICK more : more = [e \in Entries |-> IF e = at THEN {b} ELSE own[e]]
  OBVIOUS
<1>11. ASSUME NEW e \in Entries PROVE Filled(next_id', rows', TableAt(e)', more[e])
  <2>1. CASE e = at
    <3>1. Strand(next_id', {b}, b, b)
      BY StrandOne
    <3>2. Total(rows', {b}) = rows'[b]
      BY <1>8, TotalOne
    <3>3. TableAt(e)' = tb /\ more[e] = {b}
      BY <1>4, <1>10, <2>1
    <3> QED BY <1>4, <1>5, <1>8, <1>9, <3>1, <3>2, <3>3 DEF Filled
  <2>2. CASE e # at
    <3>1. own[e] \in SUBSET RecordBlocks /\ IsFiniteSet(own[e])
      BY <1>1, BlocksFinite, FS_Subset DEF Shared, RecordBlocks
    <3>2. Filled(next_id, rows, TableAt(e), own[e])
      BY <1>1, <1>2, <2>2 DEF Shared, BeingCreated
    <3>3. Filled(next_id', rows', TableAt(e), own[e])
      BY <1>7, <1>8, <3>1, <3>2, FilledSame
    <3> QED BY <1>4, <1>10, <2>2, <3>3
  <2> QED BY <2>1, <2>2
<1>12. /\ \A e \in Entries : more[e] \in SUBSET (RecordBlocks \cup {b})
       /\ \A e, f \in Entries : e # f => more[e] \cap more[f] = {}
       /\ \A x \in RecordBlocks \cup {b} : \E e \in Entries : x \in more[e]
  <2>1. more[at] = {b} /\ \A e \in Entries \ {at} : more[e] = own[e]
    BY <1>4, <1>10
  <2>2. \A e \in Entries : own[e] \in SUBSET RecordBlocks
    BY <1>1 DEF Shared
  <2>3. \A e, f \in Entries : e # f => own[e] \cap own[f] = {}
    BY <1>1 DEF Shared
  <2>4. \A x \in RecordBlocks : \E e \in Entries \ {at} : x \in own[e]
    BY <1>1, <1>9 DEF Shared
  <2> QED BY <1>4, <1>7, <2>1, <2>2, <2>3, <2>4
<1>13. \A e : ~BeingCreated(e)'
  BY <1>6 DEF BeingCreated
<1>14. Shared(more)'
  BY <1>4, <1>7, <1>11, <1>12, <1>13 DEF Shared
<1> QED BY <1>14 DEF Owned

(* INSERT: one row more at the end of one table.                           *)
LEMMA InsertRecordOwns ==
  ASSUME FileInv, WholePages, Owned, Unmoved, NEW n \in Names, InsertRecord(n)
  PROVE  Owned'
<1>1. PICK own : Shared(own)
  BY DEF Owned
<1>2. PICK e \in Entries :
        /\ Entries' = Entries
        /\ \A f \in Entries \ {e} : TableAt(f)' = TableAt(f)
        /\ TableAt(e)'.num_rows = TableAt(e).num_rows + 1
        /\ TableAt(e)'.first_record_block_id = TableAt(e).first_record_block_id
        /\ \/ /\ TableAt(e)'.last_record_block_id = TableAt(e).last_record_block_id
              /\ rows' = [rows EXCEPT ![TableAt(e).last_record_block_id] = @ + 1]
              /\ UNCHANGED <<type, next_id>>
           \/ /\ CanPop
              /\ TableAt(e)'.last_record_block_id = Popped
              /\ rows' = [rows EXCEPT ![Popped] = 1]
              /\ type' = PoppedType("RECORD")
              /\ next_id' = ExtendedNext(TableAt(e).last_record_block_id)
  BY InsertRecordInPlace
<1>3. PICK last : last = TableAt(e).last_record_block_id
  OBVIOUS
<1>4. \A f : ~BeingCreated(f) /\ ~BeingCreated(f)'
  BY DEF InsertRecord, BeingCreated
<1>5. /\ \A f \in Entries : own[f] \in SUBSET RecordBlocks /\ IsFiniteSet(own[f])
      /\ \A f \in Entries : Filled(next_id, rows, TableAt(f), own[f])
      /\ \A f \in Entries \ {e} : own[e] \cap own[f] = {}
  BY <1>1, <1>4, BlocksFinite, FS_Subset DEF Shared, RecordBlocks
<1>6. last \in own[e] /\ last \in RecordBlocks /\ last \in Blocks
  BY <1>3, <1>5 DEF Filled, Strand, Chain, RecordBlocks
<1>7. /\ rows \in [Blocks -> Nat] /\ next_id \in [Blocks -> Nat]
      /\ \A x \in RecordBlocks : x \in Blocks /\ rows[x] \in Nat
  BY PagerAssumption DEF FileInv, TypeOK, RecordBlocks
<1>8. CASE /\ TableAt(e)'.last_record_block_id = last
           /\ rows' = [rows EXCEPT ![last] = @ + 1]
           /\ UNCHANGED <<type, next_id>>
  <2>1. RecordBlocks' = RecordBlocks
    BY <1>8 DEF RecordBlocks
  <2>2. rows'[last] = rows[last] + 1 /\ \A x \in RecordBlocks \ {last} : rows'[x] = rows[x]
    BY <1>6, <1>7, <1>8
  <2>3. Filled(next_id', rows', TableAt(e)', own[e])
    <3>1. \A x \in own[e] : rows[x] \in Nat
      BY <1>5, <1>7
    <3>2. \A x \in own[e] \ {last} : rows'[x] = rows[x]
      BY <1>5, <2>2
    <3>3. next_id' = next_id /\ Filled(next_id, rows, TableAt(e), own[e]) /\ IsFiniteSet(own[e])
      BY <1>5, <1>8
    <3>4. /\ TableAt(e)'.num_rows = TableAt(e).num_rows + 1
          /\ TableAt(e)'.first_record_block_id = TableAt(e).first_record_block_id
          /\ TableAt(e)'.last_record_block_id = TableAt(e).last_record_block_id
      BY <1>2, <1>3, <1>8
    <3>5. Filled(next_id, rows', TableAt(e)', own[e])
      BY <1>3, <2>2, <3>1, <3>2, <3>3, <3>4, FilledRaise
    <3> QED BY <3>3, <3>5
  <2>4. ASSUME NEW f \in Entries \ {e} PROVE Filled(next_id', rows', TableAt(f)', own[f])
    <3>1. \A x \in own[f] : rows'[x] = rows[x] /\ next_id'[x] = next_id[x]
      BY <1>5, <1>6, <1>8, <2>2
    <3>2. Filled(next_id', rows', TableAt(f), own[f])
      BY <1>5, <3>1, FilledSame
    <3> QED BY <1>2, <3>2
  <2>5. Shared(own)'
    BY <1>1, <1>2, <1>4, <2>1, <2>3, <2>4 DEF Shared
  <2> QED BY <2>5 DEF Owned
<1>9. CASE /\ CanPop
           /\ TableAt(e)'.last_record_block_id = Popped
           /\ rows' = [rows EXCEPT ![Popped] = 1]
           /\ type' = PoppedType("RECORD")
           /\ next_id' = ExtendedNext(last)
  <2>1. PICK b : b = Popped
    OBVIOUS
  <2>2. /\ RecordBlocks' = RecordBlocks \cup {b} /\ b \in Blocks /\ b \notin RecordBlocks
        /\ \A x \in RecordBlocks : GrownNext[x] = next_id[x]
    BY <1>9, <2>1, PoppedRecords
  <2>3. /\ rows'[b] = 1 /\ next_id'[last] = b
        /\ \A x \in RecordBlocks : rows'[x] = rows[x]
        /\ \A x \in RecordBlocks \ {last} : next_id'[x] = next_id[x]
    <3>1. rows'[b] = 1 /\ \A x \in RecordBlocks : rows'[x] = rows[x]
      BY <1>7, <1>9, <2>1, <2>2
    <3>2. last # b
      BY <1>6, <2>2
    <3>3. GrownNext = [c \in Blocks |-> GrownNext[c]]
      BY DEF GrownNext
    <3>4. next_id'[last] = b /\ \A x \in RecordBlocks \ {last} : next_id'[x] = GrownNext[x]
      BY <1>6, <1>7, <1>9, <2>1, <2>2, <3>2, <3>3 DEF ExtendedNext
    <3> QED BY <2>2, <3>1, <3>4
  <2>4. PICK more : more = [f \in Entries |-> IF f = e THEN own[e] \cup {b} ELSE own[f]]
    OBVIOUS
  <2>5. more[e] = own[e] \cup {b} /\ \A f \in Entries \ {e} : more[f] = own[f]
    BY <2>4
  <2>6. Filled(next_id', rows', TableAt(e)', own[e] \cup {b})
    <3>1. \A x \in own[e] : rows[x] \in Nat /\ rows'[x] = rows[x]
      BY <1>5, <1>7, <2>3
    <3>2. \A x \in own[e] \ {last} : next_id'[x] = next_id[x]
      BY <1>5, <2>3
    <3>3. /\ Filled(next_id, rows, TableAt(e), own[e]) /\ IsFiniteSet(own[e])
          /\ b \notin own[e]
      BY <1>5, <2>2
    <3>4. /\ TableAt(e)'.num_rows = TableAt(e).num_rows + 1
          /\ TableAt(e)'.first_record_block_id = TableAt(e).first_record_block_id
          /\ TableAt(e)'.last_record_block_id = b
      BY <1>2, <1>9, <2>1
    <3> QED BY <1>3, <2>3, <3>1, <3>2, <3>3, <3>4, FilledAppend
  <2>7. ASSUME NEW f \in Entries \ {e} PROVE Filled(next_id', rows', TableAt(f)', own[f])
    <3>1. \A x \in own[f] : rows'[x] = rows[x] /\ next_id'[x] = next_id[x]
      BY <1>5, <1>6, <2>3
    <3>2. Filled(next_id', rows', TableAt(f), own[f])
      BY <1>5, <3>1, FilledSame
    <3> QED BY <1>2, <3>2
  <2>8. /\ \A f \in Entries : more[f] \in SUBSET (RecordBlocks \cup {b})
        /\ \A f, g \in Entries : f # g => more[f] \cap more[g] = {}
        /\ \A x \in RecordBlocks \cup {b} : \E f \in Entries : x \in more[f]
    <3>1. /\ \A f, g \in Entries : f # g => own[f] \cap own[g] = {}
          /\ \A x \in RecordBlocks : \E f \in Entries : x \in own[f]
          /\ \A f \in Entries : b \notin own[f]
      BY <1>1, <1>5, <2>2 DEF Shared
    <3> QED BY <1>5, <2>5, <3>1
  <2>9. \A f \in Entries : Filled(next_id', rows', TableAt(f)', more[f])
    BY <2>5, <2>6, <2>7
  <2>10. Entries' = Entries /\ \A f : ~BeingCreated(f)'
    BY <1>2, <1>4
  <2>11. Shared(more)'
    BY <2>2, <2>8, <2>9, <2>10 DEF Shared
  <2> QED BY <2>11 DEF Owned
<1> QED BY <1>2, <1>3, <1>8, <1>9

(* Whoever drops no table and makes a block for each keeps them apart.     *)
Separate == caller \in Keeping \ WithoutBlocks => Owned

LEMMA OwnedStep ==
  ASSUME SchemaInv, Separate, [CNext]_cvars
  PROVE  Separate'
<1>1. /\ caller' = caller /\ FileInv
      /\ caller \notin Dropping => Unmoved /\ WholePages /\ CreatingThere
  BY DEF SchemaInv, Dropping, CInv, CNext, Run, LoopEnd, cvars
<1> SUFFICES ASSUME caller \in Keeping \ WithoutBlocks PROVE Owned'
  BY <1>1 DEF Separate
<1>2. /\ Owned /\ Unmoved /\ WholePages /\ CreatingThere
      /\ caller \in DOMAIN Programs \ WithoutBlocks /\ caller \notin Dropping
  BY <1>1 DEF Separate, Keeping
<1>3. CASE Run
  <2>1. PICK c \in Programs[caller][line].calls : Call(c)
    BY <1>3 DEF Run
  <2>2. line \in DOMAIN Programs[caller]
    BY <1>3 DEF Run
  <2>3. /\ c.do # "free" /\ c.name \in Names /\ c.do # "delete_table_from_schema"
        /\ c.do = "insert_table_to_schema" => c.num_columns \in ColumnCounts
    BY <1>2, <2>2, CallsMade
  <2>4. CASE c.do = "insert_table_to_schema" /\ InsertTable(c.name, c.num_columns)
    BY <1>1, <1>2, <2>3, <2>4, InsertTableOwns
  <2>5. CASE InitializeTableRecordBlock
    BY <1>1, <1>2, <2>5, InitializeOwns
  <2>6. CASE InsertRecord(c.name)
    BY <1>1, <1>2, <2>3, <2>6, InsertRecordOwns
  <2>7. CASE InitializeFirstFreeBlock
    <3>1. type[Popped] = "FREE"
      BY <1>1 DEF FileInv, FreeChain, Chain, FreeBlocks, Popped
    <3>2. RecordBlocks' = RecordBlocks /\ SchemaBlocks' = SchemaBlocks
      BY <1>1, <2>7, <3>1 DEF InitializeFirstFreeBlock, SchemaBlocks, RecordBlocks, FileInv, TypeOK
    <3>3. \A x \in RecordBlocks : next_id'[x] = next_id[x] /\ rows'[x] = rows[x]
      BY <1>1, <2>7, <3>1 DEF InitializeFirstFreeBlock, RecordBlocks, FileInv, TypeOK
    <3>4. UNCHANGED <<tables, creating>>
      BY <2>7 DEF InitializeFirstFreeBlock
    <3>5. Entries' = Entries /\ \A e \in Entries : TableAt(e)' = TableAt(e)
      BY <3>2, <3>4 DEF Entries, TableAt
    <3> QED BY <1>1, <1>2, <3>2, <3>3, <3>4, <3>5, OthersKeepOwned
  <2> QED BY <2>1, <2>3, <2>4, <2>5, <2>6, <2>7 DEF Call
<1>4. CASE UNCHANGED vars
  <2>1. UNCHANGED <<type, next_id, tables, rows, creating>>
    BY <1>4 DEF vars
  <2>2. RecordBlocks' = RecordBlocks /\ Entries' = Entries
    BY <2>1 DEF RecordBlocks, Entries, SchemaBlocks
  <2>3. \A e \in Entries : TableAt(e)' = TableAt(e)
    BY <2>1 DEF TableAt
  <2> QED BY <1>1, <1>2, <2>1, <2>2, <2>3, OthersKeepOwned
<1> QED BY <1>3, <1>4 DEF CNext, LoopEnd, cvars

LEMMA OwnedInductive == CSpec => []Separate
<1>1. CInit => Separate
  <2> SUFFICES ASSUME CInit PROVE Owned
    BY DEF Separate
  <2>1. Entries = {} /\ RecordBlocks = {}
    <3>1. RecordBlocks = {}
      BY DEF CInit, Init, RecordBlocks
    <3> QED BY <3>1, NoEntries DEF CInit
  <2> QED BY <2>1 DEF Owned, Shared
<1>2. SchemaInv /\ Separate /\ [CNext]_cvars => Separate'
  BY OwnedStep
<1> QED BY <1>1, <1>2, SchemaInductive, PTL DEF CSpec

(* Each descriptor the walk passes is one of those, with its blocks.       *)
LEMMA OwnersFound ==
  ASSUME FileInv, WholePages, creating = NoTable, NEW own, Shared(own)
  PROVE  /\ \A tb \in Descriptors : \E e \in Entries :
              tb = TableAt(e) /\ OwnedBlocks(tb) = own[e] /\ Total(rows, own[e]) = tb.num_rows
         /\ \A e \in Entries : TableAt(e) \in Descriptors
<1>1. Descriptors = {tables[e[1]][e[2]] : e \in Entries}
  BY WalkCounts DEF Counted
<1>2. ASSUME NEW e \in Entries
      PROVE  OwnedBlocks(TableAt(e)) = own[e] /\ Total(rows, own[e]) = TableAt(e).num_rows
  <2>1. own[e] \in SUBSET Blocks /\ Filled(next_id, rows, TableAt(e), own[e])
    BY DEF Shared, BeingCreated, RecordBlocks
  <2>2. OwnedBlocks(TableAt(e)) = own[e]
    BY <2>1, OwnedStrand DEF Filled
  <2> QED BY <2>1, <2>2 DEF Filled
<1> QED BY <1>1, <1>2 DEF TableAt

-----------------------------------------------------------------------------
(* Whoever drops no table, in whatever order and however many rows of      *)
(* however many tables are inserted: walking a table from its first block  *)
(* to its last finds the rows its descriptor counts.                       *)
THEOREM RowsCountedAlways == CSpec => []CallersRowsCounted
<1>1. SchemaInv /\ Separate => CallersRowsCounted
  <2> SUFFICES ASSUME SchemaInv, Separate, caller \in Keeping \ WithoutBlocks,
                      creating = NoTable, NEW tb \in Descriptors
               PROVE  Total(rows, OwnedBlocks(tb)) = tb.num_rows
    BY DEF CallersRowsCounted, RowsCounted
  <2>1. PICK own : Shared(own)
    BY DEF Separate, Owned
  <2>2. PICK e \in Entries :
          OwnedBlocks(tb) = own[e] /\ Total(rows, own[e]) = tb.num_rows
    BY <2>1, OwnersFound DEF SchemaInv, CInv, Keeping, Dropping
  <2> QED BY <2>2
<1> QED BY <1>1, SchemaInductive, OwnedInductive, PTL

(* ... and every record block is on the walk of exactly one table.         *)
THEOREM RecordsOwnedAlways == CSpec => []CallersRecordsOwned
<1>1. SchemaInv /\ Separate => CallersRecordsOwned
  <2> SUFFICES ASSUME SchemaInv, Separate, caller \in Keeping \ WithoutBlocks,
                      creating = NoTable
               PROVE  /\ UNION {OwnedBlocks(tb) : tb \in Descriptors} = RecordBlocks
                      /\ \A s, t \in Descriptors :
                           OwnedBlocks(s) \cap OwnedBlocks(t) # {} => s = t
    BY DEF CallersRecordsOwned, RecordsOwned
  <2>1. PICK own : Shared(own)
    BY DEF Separate, Owned
  <2>2. /\ \A tb \in Descriptors : \E e \in Entries :
             tb = TableAt(e) /\ OwnedBlocks(tb) = own[e]
        /\ \A e \in Entries : TableAt(e) \in Descriptors /\ OwnedBlocks(TableAt(e)) = own[e]
    <3>1. FileInv /\ WholePages
      BY DEF SchemaInv, CInv, Keeping, Dropping
    <3>2. /\ \A tb \in Descriptors : \E e \in Entries :
               tb = TableAt(e) /\ OwnedBlocks(tb) = own[e] /\ Total(rows, own[e]) = tb.num_rows
          /\ \A e \in Entries : TableAt(e) \in Descriptors
      BY <2>1, <3>1, OwnersFound
    <3>3. ASSUME NEW e \in Entries PROVE OwnedBlocks(TableAt(e)) = own[e]
      <4>1. own[e] \in SUBSET Blocks /\ Filled(next_id, rows, TableAt(e), own[e])
        BY <2>1 DEF Shared, BeingCreated, RecordBlocks
      <4> QED BY <4>1, OwnedStrand DEF Filled
    <3> QED BY <3>2, <3>3
  <2>3. ASSUME NEW s \in Descriptors, NEW t \in Descriptors,
               OwnedBlocks(s) \cap OwnedBlocks(t) # {}
        PROVE  s = t
    <3>1. PICK e \in Entries : s = TableAt(e) /\ OwnedBlocks(s) = own[e]
      BY <2>2
    <3>2. PICK f \in Entries : t = TableAt(f) /\ OwnedBlocks(t) = own[f]
      BY <2>2
    <3>3. e = f
      BY <2>1, <2>3, <3>1, <3>2 DEF Shared
    <3> QED BY <3>1, <3>2, <3>3
  <2>4. ASSUME NEW x
        PROVE  x \in UNION {OwnedBlocks(tb) : tb \in Descriptors} <=> x \in RecordBlocks
    <3>1. ASSUME NEW tb \in Descriptors, x \in OwnedBlocks(tb) PROVE x \in RecordBlocks
      BY <2>1, <2>2, <3>1 DEF Shared
    <3>2. ASSUME x \in RecordBlocks
          PROVE  \E tb \in Descriptors : x \in OwnedBlocks(tb)
      <4>1. PICK e \in Entries : x \in own[e]
        BY <2>1, <3>2 DEF Shared
      <4> QED BY <2>2, <4>1
    <3> QED BY <3>1, <3>2
  <2> QED BY <2>3, <2>4
<1> QED BY <1>1, SchemaInductive, OwnedInductive, PTL
=============================================================================
