# LabDBAQL in TLA+

LabDBAQL is a small database server in C.  A client parses AQL, sends each
query as JSON over one TCP connection and prints what comes back; the server
decodes it, runs it on a file of 4096-byte blocks and answers.  This directory
holds TLA+ models of it, the TLC configurations that check them on small
instances, and TLAPS proofs about them.  Line numbers refer to this commit.

## The system: inventory

| part | source | state it keeps | operations | what makes it correct |
|---|---|---|---|---|
| block file ("pager") | `src/db/pager.c`, `database.h` | the header in memory and on page 0, the block headers (`type`, `next_id`, `offset`), the free list, the schema chain, the table descriptors | `initialize_schema`, `insert_table_to_schema`, `initialize_table_record_block`, `get_table_from_schema`, `insert_record_to_table`, `delete_table_from_schema` | the chain of SCHEMA blocks and the list of FREE blocks stay lists, disjoint and complete; a block has one owner; a table found by name is a table created and not dropped |
| row operations | `src/db/query.c` 631-726, 932-1098, `pager.c` 266-310 | the rows and links of a table's record blocks; a resume offset between two calls of a select | select, update, delete of rows | a select returns each row once, in order, across chunks; a delete removes what the condition matches and nothing else |
| conditions | `query.c` 89-580 and the loops at 676-699, 836-861, 951-969, 1030-1048 | none (`flag`, `temp_flag`, the previous relation) | comparing two values; folding a list of conditions | the fold means what the AQL filters mean |
| inner join | `query.c` 728-930 | two resume offsets | the nested loop with resumption | every matching pair once |
| row codec | `table.c` | the bytes of a record | setting and getting the field of a column by its name; formatting for the answer | a field written is the field read, and no field reaches into another |
| conversation | `server_transport.c` 908-1176, `client_transport.c` 620-643 | the two byte streams and the two buffers | send a query, execute it, answer in chunks, end with a zero block, print | the client gets back to its prompt; an answer is printed under the query it answers |
| query codec | `client_transport.c` 10-618, `server_transport.c` 12-866 | none | AST to JSON, JSON to `query_to_execute` | what the server runs is what was parsed |
| AQL front end | `aql/aql.l`, `aql.y`, `ast.c`; the generated `lexer.c` and `aql.tab.c` in `cmake-build-debug` | the scanner's state and what it puts back; the parser's two stacks and its lookahead; the AST | scanning, shifting and reducing by tables, the constructors | tokens are those of the rules; the sentences of the grammar and no others are taken; the AST is the query |
| mains and timing tests | `client.c`, `server.c`, `db/main.c` | sockets; test tables | connect, accept; filling a file and timing it | the file is sound whoever fills it |
| `open_database`, `get_database` | declared in `database.h` 48-49, defined nowhere in the repository | - | opening a file | external |

The parts meet in `execute_query` (`server_transport.c` 908): it looks the
table up in the schema, calls one pager or row operation and writes the answer.
The server is one thread and one connection, so operations never interleave;
what is hard here is the long sequence of calls that leaves the file in a
state nobody tried, the state read before a write and used after it
(`get_table_from_schema` returns a copy of a descriptor with its old place),
limits of blocks and buffers, and two processes sharing a byte stream without
message boundaries.

What is hard, part by part, with the line where it bites and the property that
watches it, is the list `hazards` of `PROJECT.json`.

## Plan

The order is that of the layers, the file first because everything stands on it:

1. `Chains`, `Pager`: the block file.  Its abstract specification is `Catalog`,
   the schema as a bag of table names.  `ChainProofs` and `CallersProofs` prove
   its invariants.
2. `Callers`: the programs that call the pager.  It extends `Pager`, and its runs
   are the runs of the pager; `CallersProofs` carries the invariants over to it,
   and proves of it that the schema implements `Catalog`, and what every table
   owns.
3. `Filters`: conditions on a row.  `FiltersProofs` proves what the fold means.
4. `Wire`: the two processes and the two byte streams.  `WireProofs` proves
   that they stay in step and what is printed.
5. `Rows`: the rows of one table under insert, select, update and delete.  Its
   abstract specification is `RowStore`, a bag of rows, and `RowsProofs` proves
   that it implements it.
6. `Join`: the nested loop and the places it resumes from; `JoinProofs`.
7. `Scanner` (with `ScannerTables`) and `Parser` (with `ParserTables`, `Ast`,
   `Grammar` and `Spelling`): from characters to tokens, from tokens to nodes.
   `Automaton` says what the tables of the parser encode, and `ParserProofs`
   proves from it that they take the grammar.
8. `Codec`: from the parsed query to what `execute_query` does with it, and
   `Records`, which extends it by the row an INSERT then builds.  `CodecProofs`
   proves what arrives, what is run and what the row holds.

How they fit together, along the way of a query: `Scanner` finds the rules,
`Parser` takes the tokens they return and builds the AST, `Codec` carries it to
`execute_query`, which calls a pager or a row operation (`Pager` through
`Callers`, `Records` for the row, `Rows`, `Join`); `Filters` is one turn of the
loops that `Rows` and `Join` step through, which take the set of rows it lets
pass as given; `Wire` carries the parts of an answer that `Rows` and `Join`
produce each time a buffer is full.  The server is one thread: what is
concurrent is in `Wire`, and what is composed by interleaving is composed there.

## The modules and the code

Below, P is `src/db/pager.c`, Q `src/db/query.c`, S
`src/transport/server_transport.c` and C `src/transport/client_transport.c`.
`PROJECT.json` has the lines of every definition under `map`.

### Pager

A block is the page of the same number.  `type`, `next_id`, `offset`, `tables` and
`rows` are what the pages hold: the block header, the descriptors of a SCHEMA page
and the number of rows of a RECORD page.  `header` is page 0; `db` is the copy in
memory.  A descriptor is as long as its columns make it (`RealSize`, from
`get_real_table_size`), so a place in a SCHEMA page is a byte: `tables[b]` is a
function from the bytes at which a descriptor begins.  Rows are counted:
`RecordSlots` is how many of a table's satisfy `offset + size < block_size`.

| action | code |
|---|---|
| `Init` | `initialize_schema` |
| `InsertTable` | `insert_table_to_schema`, with `get_empty_scheme_block` when the last block is full |
| `InitializeTableRecordBlock` | `initialize_table_record_block`; the header is not saved, as in the code |
| `InsertRecord` | `get_table_from_schema`, then `insert_record_to_table` through the copy it returned |
| `DeleteTable` | `delete_table_from_schema` with `write_to_last_schema_block` |

Two things are easily read over.  A descriptor carries the place it was first
written to, and an insert writes it back *there* (P:503-505), though a drop may have
moved it.  `WriteTable` makes that write at its byte, whatever is there by now
(`Over`): a descriptor that loses a byte of its first 64, its name and its fields, is
a descriptor no more; one that loses bytes of its columns only is still found, with
`columns = "overwritten"`; and what lies behind the offset of the page is read by
nobody.  A walk over a page (`Reads`) goes from each descriptor to where it ends, and
comes to nothing past bytes that are no descriptor.  And a popped block is written
with the link its buffer holds, which differs between the functions that pop.

CREATE is the two calls the server makes one after the other; `creating` is the
table between them.

### Callers

A program is a list of lines, and a line is one call or a loop that makes some
calls any number of times: how often, and with rows of which values, is data.
`create_and_insert`, `create_and_drop` and `all_calls` are what `execute_query`
does for a user (REMOVE TABLE gets no name through, see below, so what the server
gets done is the first).  The others bear the names of the functions of
`src/db/main.c`.  Three of these do what the server does not: two make tables
that never get a record block and free them (`FreeTable`), and one calls
`initialize_first_free_block` a second time on a file in use
(`InitializeFirstFreeBlock`).  Their tables have four columns, or three.  The caller
decides which properties hold: counts and owners of rows are stated of the programs
that drop nothing, and all that is said of the names in the schema is said of those
that insert no row behind a drop.  `all_calls` does, and loses tables by it.

### Rows

One table.  A page keeps what was written behind its offset, so a read too far
returns something.  `run` holds the locals of the call in progress: the copy of
the block, the place in it, `pre_id`, `next_id` and the copy of the last block
in a delete.  Each turn of a loop is a step.  Nothing else runs in between, but
these copies go stale while the call itself writes the file.

| action | code |
|---|---|
| `Insert` | `insert_record_to_table`; a new block is written with the page of the old one |
| `UpdateStart`, `UpdateRow`, `UpdateEnd` | `update_records_in_table` |
| `SelectStart`, `SelectRow`, `SelectResume`, `SelectEnd` | `select_records_from_table` and the caller's loop around it |
| `DeleteStart`, `DeleteRow`, `DeleteSkipBlock`, `DeleteCompactBlock`, `DeleteEnd` | `delete_records_from_table` with `write_to_last_record_block` |

`held` is an auxiliary variable: the bag of rows at the end of the last call,
through which `Rows` refines `RowStore`.  A row has a fixed number of bytes, so
`RowsAssumption` has finitely many values.  What is chosen from a sequence, by a
select or as the rows a compaction keeps, is `Chosen`: `SelectSeq` as a recursive
function, which can be proved about.

### Filters

One turn of the loop over a list of conditions is `LookAt`.  `flag`,
`temp_flag` and `next_relation` are the variables of the code; `k` is the
position of its list pointer.  `loop` tells the loop of select, update and
delete from the one of the join, which differ in where a comparison is folded
(Q:687, Q:690).  `CheckStrings` has the fall-through of Q:210.

### Join

A cursor `[blk, off]` is the place the code codes into one number, and `Coded`
and `Start` are that coding.  `LeftRow` and `RightRow` are one turn of each
loop, `Return` the end of the call, and `Call` the next one by the caller.

### Wire

The two streams are `requests` and `replies`.  Bytes are labelled with the
query, the part and the place they come from, so that the properties can say
whose answer is printed.  `ClientRead` takes any number of the bytes that are
there: a stream has no messages.  `ServerWrite` sends `PTR` bytes of a part,
since `sizeof(buff)` is that of a pointer (S:1013).  `execute_query` is the
choice of an answer.

### Codec

`Send` is `query_to_json`, and `ClientCrash` its end in a join that returns a column
without its row: the parser leaves that row a null pointer, and C:473 compares it.
`Decode`, `DecodeComparison` and `DecodeEnd` are
`server_decode_json`, one step per comparison, because its locals outlive a turn
(`slots`).  `DecodeCrash` is the outcome where a pointer that was never set is
followed.  `Execute` is what `execute_query` hands on.  A variable that was never
set holds `Garbage` or what the last turn left in it: each is an outcome.

### Records

One step per field of an INSERT (S:938-955).  `get_column_offset_by_name` finds
the first column of a name and `get_column_size_by_name` the last, and a value is
copied by the size of its column: what lies behind a shorter value comes along as
`Garbage`.  `FollowGarbage` is the list whose `next` was never set.

### Scanner

`yy_current_state`, `yy_last_accepting_state` and `yy_act` are the scanner's;
`passed` and `ahead` are the characters between its pointers.  `Read` is one turn
of its loop (`lexer.c` 808-837) through the compressed tables, `Act` what follows
a match or a jam, `EndOfBuffer` the end of the input.  `Rules` is `aql.l`, written
as patterns, against which the tables are checked: `open` and `longest` say what
of each pattern is left and which match is the longest.  The text of a token is
not kept, so the state space is finite and complete for texts of any length.

### Parser

`yyss`, `yyvs` and `yychar` are the variables of `yyparse`.  `ReadToken`, `Shift`,
`Reduce` and `Refuse` are its labels, through the tables of `ParserTables`, with
the semantic actions of `aql.y` calling the constructors of `Ast`.  Two
references are not in the code: `Grammar` derives from the rules of `aql.y` what
may follow the tokens read so far (`follow`), and `Spelling` writes an AST out as
the lexemes it stands for.  `LeavesNoToken`, the first half of `SaysWhatWasTyped`,
is that no token of the next query has been taken when one is returned: the next
`yyparse` begins without a lookahead.

`Automaton` is a reading of the tables: the items each state stands for
(`Kernels`, `Items`), and as `AutomatonFits` what is to be true of them and the
tables together (a shift or a goto leads to the state with the items moved on by
a symbol, a state reduces by its one complete item, the tokens that may follow a
part are not shifted where the part ends).  All of it is about constants: TLC
decides it whenever it runs `parser`.

## The runs

| run | instance | what it shows |
|---|---|---|
| `callers` | 2 names, tables of 1, 3 and 4 columns in blocks of 425 bytes, 2 or 3 rows to a block; files of up to 7 blocks for create and drop, 5 for all calls, 6 for the others | every program keeps the chains and appends rows to RECORD blocks; those that drop nothing keep rows counted and owned; what a restart finds on page 0; unless rows are inserted after a drop, walks over the schema find whole descriptors and the file implements `Catalog` (`CallersKeepCatalog`) |
| `filters` | all lists of up to 3 conditions of the three kinds compared, and one condition of every relation on integers and strings, both loops | the fold is the meaning |
| `wire` | buffer of 6, chunk of 2, 3 queries, answers of 1 or 2 parts | the client returns; step is kept; the answer is printed |
| `rows` | 2 values, 2 slots, 5 blocks, 5 rows, first block recycled or not, orderly deletes | no block lost or shared, counts right, selects exact, calls return, `RowStore` implemented |
| `join` | all pairs of tables of up to 4 rows in 1 or 2 blocks; rooms of 1, 2, 9 | no wrong or repeated pair; one buffer's worth is complete; the loop ends |
| `codec` | four tables, every kind of query, rows named alike and apart, all lists of 1 comparison and many of 2; INSERTs of 1 and 2 fields of all columns, types and lengths | what is carried is carried right; lists arrive whole; the row built reads back as what was typed |
| `scanner` | all 255 bytes, texts of any length | the tables are the rules: the longest match, the first rule, exact put-back |
| `parser` | up to 12 names, and bounded numbers of every other token (`SmallLimits`); a stack of 17 | the tables take the sentences of the grammar and refuse at the first wrong token; values on the stack have the type of their symbol; the AST says what was typed |
| `callers_moved`, `wire_empty`, `rows_two_blocks`, `join_chunks` | as above | the four disagreements below |

Why the bounds are enough.  A block has room for three descriptors of one column,
for two of three, for one of three beside one of four, but not for two of four
columns: whether a descriptor fits depends on which are there already, and those of
104, 184 and 224 bytes come to lie at many different bytes.  Seven blocks hold three
schema blocks with a table each, or two with up to three in one, so a drop hits the
first, a middle, the last and the only block, and its survivors fit in the last
block, partly fit or are none.  Two names give equal names as well as different ones.
Six blocks hold two tables of which one has three record blocks, taken from the
free list by turns, and the two tables of the programs of `main.c`.  With all calls
five blocks are enough for a descriptor to be moved to the front of its page, and to
be written back over the head or the columns of a table that came after, or over its
own columns; a move to another page would need a sixth, and is in `create_and_drop`.
The proofs have no such bound.  In `rows` five rows on pages of two need three blocks: a
first, a middle and a last one.  A join of two tables of two blocks each has a
resume at every place of both.  Three queries in `wire` are one answer behind,
and one more to see it.  A `filters` list of three has every way of opening,
continuing and closing a group; the proofs cover the other lengths.  The lexemes
of `parser` suffice for every rule of the grammar, each list with two elements
and one or two of them in one query, and the stack of 17 is reached, so that
memory runs out in some of them.  The lists of `codec` have what the loop over
comparisons keeps from one turn to the next; a third comparison would repeat the
second.

`CHECK_DEADLOCK FALSE` is set throughout.  `Callers`, `Rows` and `Wire` stop at
their bound (no block, row or query left), and otherwise the user may stop.
`Filters`, `Join`, `Codec`, `Records` and `Parser` model one call that comes to its
end, `Scanner` an input that does.

## Fairness

`Wire` assumes weak fairness of the client's read and of the server: two
processes the system schedules, and a stream that delivers.  Nothing makes a
user ask.  `Rows` assumes it of the steps of a call that has begun, `Join` of
its loop: one thread that runs.  There is no fairness elsewhere, and no
liveness property.

## What is proved

TLAPS checks these for every value of the constants that meets the module's
ASSUME; nothing else is assumed, and TLC evaluates the ASSUMEs on every run.

**The block file** (the first part of `CallersProofs`, from `PagerAssumption`): `PagerTypeOK`,
`PagerSchemaChain`, `PagerFreeChain`, `PagerBlocksAccounted` and
`PagerRowsGoToRecords`, for tables of any numbers of columns.
None of these is inductive alone.  That the schema chain survives a CREATE
needs the popped block to be outside it, which is `FreeChain`; that the free
list survives growth needs the new page to be unused, which is
`BlocksAccounted`; that an INSERT does not relink a block of either chain needs
`RowsGoToRecords`; and that a descriptor written at its old place stays in its page
needs `Fitting`, which has every descriptor end before the block does both where it
is and where it was first.  `IInv` is their conjunction, and it is inductive:
`InitInv`, `NextInv` with a lemma per action, `PagerInductive`.  A write over a page
either leaves a descriptor its fields or ends it (`OverIs`, `OverPage`): this is why
no stale write, wherever it lands, makes a descriptor that points at no record block.

The chains are handled by lemmas of their own in `ChainProofs`: appending behind
the last block (`ChainAppend`), putting a block in front (`ChainPush`), the block
behind the first (`ChainSuccessor`), a chain of one block (`ChainSingleton`),
links outside the chain (`ChainCongruence`) and unlinking any block but the
last (`ChainUnlink`).  Each gives the numbering of the new chain from that of
the old one, so there is no induction over a chain.  Its second half has what
following the links of a chain finds (`FollowedOnce`, `StrandFollowed`) and sums
over its blocks (`TotalAdd`); where these need induction over a number it is the
least counterexample that is refuted (`Least`).  `DeleteFromChains` puts a
drop together from them: the block is unlinked, and then appended or pushed on
the free list.

**Whoever calls** (the second part, from `CallersAssumption` as well):
`CallersTypeOK`, `CallersSchemaChain`, `CallersFreeChain`,
`CallersBlocksAccounted` and `CallersGoToRecords`, of `CSpec`.  `CallsMade` and
`CallsWithoutBlocks` say which calls a program can make, so that a step is one of
the pager (`NextInv`) or one of the two it does not have.  Two things had to be
found.  A program that frees a table before it gets a record block leaves a
descriptor without one, so `RowsGoToRecords` fails for it and cannot be part of
what keeps the file in order: `FileInv` is the rest of `IInv`, and creating
tables needs no more.  And a second `initialize_first_free_block` would cut the
free list behind its head, were there anything behind it: `CInv` has `Grows` for
that program, the free list of one block that a file has until something is
freed (`PopKeepsOne`), and then writing the head again changes nothing
(`FirstFreeInv`).

**What the callers see** (the last part of `CallersProofs`, from the same
assumptions), of `CSpec`: `CallersGoToRecords`, `CatalogKept`, `HeaderSaved`,
`RowsCountedAlways` and `RecordsOwnedAlways`.  The properties walk the blocks the
way the code does.  Of `all_calls` only the chains, page 0 and the blocks that rows
go to are proved: `CatalogKept` and the half of `CallersGoToRecords` about whole
pages (`SchemaWhole`) leave it out, since there the code does lose tables.  For the
others the pages are `Tiled`, each descriptor beginning where the one in front of it
ends (`TiledReads`: a walk reads all of such a page), which a CREATE, a move and a
compaction keep (`JoinedTiled`, `LaidTiled`).  `WalkIsEntries` gives a bijection
between what the walk over the schema passes and the descriptors of the SCHEMA
blocks (`Entries`), wherever they are; from there on nothing is walked.  A CREATE
adds one entry (`InsertTableAdds`); a DROP moves some and compacts others, and
`MovesKeepOthers` finds for every other one the place it is in now, again by a
bijection.  `SchemaInv` is what is needed beside `CInv`: the whole pages
(`WholePages`), the descriptor in memory while a table is created is the one in the
file (`CreatingThere`), and without drops each descriptor is where it says
(`Unmoved`), so that an INSERT writes the one it read (`InsertRecordInPlace`).
`HeaderSaved` has its own invariant, `HeaderInv`: page 0 is the header in memory
while a table is created, and behind it afterwards by the one pop.
For programs that drop nothing `Separate` gives every entry a set of record blocks:
the sets are disjoint and are all of them, the links run through each from the
first block to the last (`Strand`), and its rows are `num_rows` (`Filled`).  The last
block of a table links to whatever the free list had behind it, which is why a
`Strand` says nothing of that link.  `OwnedStrand` and `OwnersFound` lead back to the
walk and the sum of the properties.

**Conditions** (`FiltersProofs`, from `ListsAssumption`): `FiltersTypeOK`,
`FiltersJoinMeaning` and `FiltersTableMeaning`, for rows and lists of any
content and lists of any length.  The meaning is stated over positions in the
list and not as a fold: `Holds(e)` for the group that ends at `e`, by a choice
of the condition where the last OR branch starts.  `HoldsStep` shows that one
more condition changes it the way `Combine` does.  The invariant `SoFar` says
what the two flags are in the middle of a list: together the completed groups
and the current one so far, and apart each of its own, but the latter only
while nothing of the current group went into `flag`.  That distinction is why
the proof needs `OrOnValuesOnly` for the loop of select, update and delete, and
not for the one of the join.

**The join** (`JoinProofs`, from the assumptions of `Join`): `JoinTypeOK`,
`JoinSoundAlways` and `JoinExactInOneBuffer`, for any tables in any blocks, any
condition and any buffer, across calls.  That no pair comes twice needs an order:
the answer is in that of the two cursors (`Ordered`), no pair is ahead of the
left one (`LeftPast`), and of those at it none is ahead of the right one
(`RightPast`).  The number that codes a cursor gives it back (`StartCoded`), which
takes a little arithmetic with `%` and `\div`.  `JoinExactInOneBuffer` adds that
every matching pair the cursors have passed has been answered, as long as the
buffer is not full (`CompleteSoFar`), and counts: a full buffer of different
pairs is all of them (`FullIsAll`).

**The conversation** (`WireProofs`, from the assumptions of `Wire`):
`WireTypeOK`, `WireStaysInStep` and `WireWholeAnswer`, for every buffer and chunk,
every set of answers and any number of queries.  `InSync` says, while the client
reads, how far the server can be: the beginning of an answer is on its
way (`Open`), or all of it with the terminator (`Closed`).  Then a whole read
either starts with a byte of the answer, or takes the last zeros.  For
`WireWholeAnswer` the invariant `Delivered(r)` splits the bytes written so far at
the place r the client has read up to: their text is on the screen, no more of
the buffer has been touched, and the rest is on its way.  With at most two parts
there is at most one read that can leave bytes of an earlier one behind the
later, and it is longer; with three this fails, as it does in the code.

**The rows of a table** (`RowsProofs`, from `RowsAssumption`): `RowsTypeOK`,
`RowsBlocksOnce`, `RowsCountedRight`, `SelectsExactly` and `RowsImplementStore`,
the refinement of `RowStore`, for any values, any size of page and any number of
blocks and rows.  They are stated of callers that keep to `Orderly`, which is what
`OrderlyDeletes` says and what the run `rows` has; for others they are false, as
`rows_two_blocks` shows.  `RowsInvariant` proves the invariant they follow from:
`Inv` is `FileTyped`, and that there are a sequence `c` of the blocks of the table
and one `f` of the free ones (`Shape`: all blocks are in one of them, what lies in
front of an offset is a row, and a table of several blocks has no empty one), for
which the call in progress is as far as `Calls(c)` says.  There is a part for each
call.  `Selecting` and `Stopped` have the rows chosen up to a place in the whole
table; `Updating` has the bag of the old rows, of which those up to the place are
changed; `Marking` has the copy of a page marked up to its place, in front of the
one block with rows to delete or in it; `Passing` is a delete with nothing left to
do, whose stale `curr` and `next_id` only have to lead somewhere in the table.

Three things carry the proof.  The rows of a table are those of its blocks put one
behind the other (`Lays`), so that a place in a block is a place in the table
(`NextPlace`, `PlaceOf`).  Rows are counted by value and by block (`Count`,
`Weights`), and the sums over blocks (`Total` of `ChainProofs`) are compared before
and after a step: insert raises one block by one row (`InsertCounts`), compacting
takes from one block what it gives to another (`MoveTotals`, `CompactTotals`), and
the bag of the store follows (`OneMore`, `ChangedCounts`, `DeletedCounts`).  And a
list of blocks stays one when a block is put behind it (`ListedAppend`) or in front
of it (`ListedPush`), or unlinked (`Unlinked`); the latter is where a delete needs
its rows in the first two blocks, since `pre_id` is right for no other.  The
compaction, `DeleteCompactInv`, takes the largest share: the block compacted can be
the last one, the first one, both or neither, and can be freed or become the last.

**A query on its way, and its row** (`CodecProofs`, from the assumptions of `Codec`
and `Records`): `RecordsTyped`, `AskedIsRun`, `ListsArrive` and
`RowReadsBackAlways`, of `RecordsSpec`, for any queries with FILTERs of any number
and length, any fields and any tables.  `QueriesAssumption` is what `aql.y` builds:
two loops in a join and one table otherwise, a FILTER in the kinds that have one and
no FILTER empty.  `GarbageAssumption` keeps what stands for memory never set apart
from the kinds of a query.  `LayoutAssumption` is what `create_column` (`ast.c`:316)
gives a column: the size typed for a string, in eight bits, and that of the type
otherwise.  `InsertAssumption` has the table of an INSERT exist.

`RecordsInvariant` proves what they follow from.  `CInv` has the object, unless the
client stopped, as
`query_to_json` wrote it, the header read from it (`Header`), and as many
comparisons as the server has come to, each with the relations of the one sent
and, where both sides read it in full, its operands (`Compared`).  The client sends
a list of FILTERs and the server counts comparisons through all of them:
`ListsSent` shows that both flattened lists have the same comparison at each place
(`Joins` of `ChainProofs` says where each FILTER starts).  For every outcome of a
variable that was not set there is a case, and `Carried` is what excludes the wrong
ones.  `RInv` adds the row (`Building`): each byte of a column is `Cell`, that of the
last field copied so far with the column's name, a zero if there was none, and
garbage behind the value's end.  That a copy changes no other column needs the
columns apart (`Offsets`, `OffsetsGrow`, `Apart`), and that names differ, since the
place is looked up by the first column of a name and the size by the last
(`CalledOne`).  `Slice` then reads a column back.

**The parser** (`ParserProofs`, from `ParserAssumption` and `AutomatonFits`):
`ParserTypeOK`, `ParserParsesTheGrammar` and `ParserLeavesNoToken`, for texts of any
length, whatever values their tokens have, and every `YYMAXDEPTH`.  `AutomatonFits`
has no parameter: the assumption is a statement about the tables in the file and
the rules of `aql.y`, which TLC finds true; the rest is proved.

`TypesInv` has the stack as a path of the automaton (`IsPath`), and the values on it
of the types of its symbols (`ValuesFit`).  `PathBack` then says that a complete item
in the top state has its symbols on the stack, so that a reduction pops its rule
and finds a state that expects the left-hand side (`Reduction`): no action reads a
member of the union that was not the one written.

`FollowInv` compares the stack with `follow`, what the grammar lets follow.  That
nothing wrong is taken is `History`: each state of the path has a set of forms that
may follow it, each symbol on the path leads from one to the next (`Reaches`), and
the last set is `follow`.  Each item of a state on the path can still be completed
(`HistoryLive`), so there is a sentence that goes on.  That nothing is refused which
could follow is the converse, `Explained`: a form that may follow is what an item of
the top state lacks, and behind it what the rules begun below lack (`Behind`).  A token that begins such a form is one
the top state expects, or one that may come behind a rule complete there
(`FollowOf`), and `NoConflict` excludes a shift where the parser has to reduce.  A
default reduction is made before the token is compared with anything, so `Accounts` keeps
this for the token that waits while rules are reduced.  What a part begins with is
found by opening it three times (`Lower`, `Descend`), which is as deep as this
grammar goes, so no induction over derivations is needed.

Only model-checked, on the instances above: `Scanner` (`LongestMatch` and its types),
whose references `Rests` and `NextState` are RECURSIVE operators, but whose run is
complete; `SaysWhatWasTyped` beyond `LeavesNoToken`, for the RECURSIVE lists of
`Spelling`; and all liveness (`Returns`), which the prover does not reach.

## Where the code departs from what is said of it

Four runs end in a counterexample; `findings` in `PROJECT.json` quotes the text
on each side.

- `callers_moved`: after CREATE, CREATE, DROP of the first and CREATE, a row inserted
  in the second table is counted in the descriptor it had before the drop, over the
  one created last (P:503-505, P:316-330).
- `wire_empty`: after a selection that finds nothing the client reads every
  later answer one behind (S:1173, C:634-640).
- `rows_two_blocks`: a delete of rows in two blocks loses rows it does not name
  (Q:1012, Q:1060-1088).
- `join_chunks`: a join longer than one buffer misses pairs (Q:911).

Because of these some properties are stated under a condition: the programs but
`all_calls` in `CallersKeepCatalog`, `Orderly` in
`Rows`, `NoEmptyPart` and `Len(a) <= 2` in `Wire`, one buffer in
`JoinExactInOneCall`, `Carried` in `Codec`.  Each excludes cases in which the code
does fail; they are not claimed to be the weakest such conditions.

Met on the way, visible in the modules, and not given runs of their own:

- `!=` on strings has no `break` and goes on to LIKE, so it takes equal strings
  too (Q:210, against `aql/aql.l`:40): `CheckStrings`.
- A comparison whose column is on the right has type VALUE_COLUMN and is passed
  over (Q:682).  An OR of two columns, or of two values, reaches over the end of
  its FILTER (Q:687, Q:690): `OrOnValuesOnly`.
- A block emptied by a delete that stays the last one makes select return a row
  behind the end (Q:647).  The first block of a table may still be linked into
  the free list, and a delete that compacts it loses the table: `Orderly`.
- With three parts or more an answer shows bytes of an earlier part
  (C:635-638).  Of every part only `sizeof(char*)` bytes leave the server.
- REMOVE TABLE takes the address of a JSON node for the name, so it removes
  nothing (S:52; `src/queries.txt`:6): what the server gets done of `Callers` is
  `create_and_insert`.
- The columns of a new table are an array of a frame that has returned (S:48).
- UPDATE takes its columns from a query that was never set; the filters of
  UPDATE, REMOVE and RETURN of fields travel without the names of their columns
  and without their type.
- The type of the first comparison is sent for all of them (C:297), so a list
  whose comparisons are of different types is read wrongly.
- A name on the right is not read (S:420), and the join reads the left one
  again in its place (S:835).
- RETURN of fields returns all columns (`src/queries.txt`:66-72).  RETURN of
  two rows sends an empty object (C:455-458; `src/queries.txt`:76-87).
- With filters a join looks its right column up in the left table (S:1141).
- A join that returns a column without its row stops the client (`aql/aql.y`:183,
  C:473): `ClientCrash`.
- The names before the points are compared with the tables in filters and with
  the loops' rows in fields: `Carried` asks that the two agree, and that the two
  rows have different names, since fields of a shared one all go to the left.  A column a join
  compares that its table does not have is looked up to NULL, which is then read;
  `Carried` asks that there is one.
- Floats are unpacked as doubles into a float (S:90; `src/queries.txt`:15).
- TRUE reads as 0, `atoi` of a word (`aql/aql.l`:62), and the size of a VARCHAR is
  kept in eight bits, so that 256 is 0 (`aql/ast.c`:316): `AsTyped` in `Parser`.
- UPDATE with filters forgets its loop (`aql/ast.c`:95): `LoopLost`.
- `yyparse` returns 1, 0 or 2 when it has no query, and the client uses that as
  the address of one (C:624-625).
- Two columns of one name are one place with the size of the other
  (`src/db/table.c`:106, 117): `RowReadsBack` asks for different names.  A string
  as long as its column has no end there.
- `create_table` and `create_record` have no return statement (`src/db/table.c`);
  `Records` takes it that the record is what the compiler leaves in the register.

## What is not modelled

- Time between page writes.  An operation of `Pager` is one step: nothing in
  the code recovers from a stop in between, and the server has one thread.
  `SavedHeader` compares the page 0 a restart would find with memory.
- What is read from bytes that are part of a descriptor.  After a write over the
  middle of one (P:503-505, only in `all_calls`) the code reads on through what is
  left: through bytes that are no descriptor, or a number of columns whose columns
  are another table's.  The model loses the descriptors behind the former, and has
  no step for an INSERT through the latter or a DROP from a page with the former.
  Such a write goes into a SCHEMA page or, when that has been freed or given to rows
  meanwhile, into one no table is read from; what it does to the rows there, which
  are numbers here, is left out.
- The lengths of rows and of the JSON text, and with them writes past a buffer
  (Q:707, C:629, S:658).
- Broken connections.  Neither `communicate` loop leaves on one.
- Memory management, allocation failure, and everything undefined that is not
  the value of a variable never set.
- How a value is formatted for an answer (`integer_to_string` to `simp_str_str` in
  `table.c`): layout.
- The refilling of the scanner's buffer: a token that its end cuts is scanned
  again from its first character, to the same state.  Printing and destroying an
  AST.
- The connects and accepts of `client.c` and `server.c`, and what the functions of
  `main.c` select, update, delete and time: the rows are those of `Rows` and
  `Join`, the rest is measurement.
- `open_database` and `get_database`, which have no definition to model.
