-------------------------------- MODULE Codec --------------------------------
(***************************************************************************)
(* A query on its way from the parser to the tables: the client writes it  *)
(* as a JSON object (query_to_json), the server reads the object back      *)
(* (server_decode_json) and execute_query acts on what it has read.        *)
(*                                                                         *)
(* An object is a function from its keys.  Unpacking a key that is not     *)
(* there leaves the variable as it was, and most variables here have never *)
(* been set: Garbage stands for what such memory holds.  The variables of  *)
(* the loop over comparisons may still hold what the last one left there.  *)
(* The length of the text is not modelled: the object fits the buffer.     *)
(* Nor are the bytes behind a variable that an unpack too wide for it      *)
(* overwrites.                                                             *)
(***************************************************************************)
EXTENDS Integers, SequencesExt

CONSTANTS
  Queries,   \* the queries a user may type, as the parser builds them
  Columns,   \* Columns[t]: the names of the columns of table t
  Garbage

VARIABLES
  q,          \* the query
  pc,
  root,       \* the object sent
  qte,        \* the query_to_execute of the server
  slots,      \* rrf_ct, rrf_lo and rrf_ro of the server's loop
  effect      \* what execute_query does

vars == <<q, pc, root, qte, slots, effect>>

JoinKinds == {"RETURN_ROW_JOIN", "RETURN_ROW_JOIN_FILTER",
              "RETURN_FIELDS_JOIN", "RETURN_FIELDS_JOIN_FILTER"}

Kinds == JoinKinds \cup
  {"CREATE_TBL", "REMOVE_TBL", "SIMPLE_INSERT", "COMPLEX_INSERT",
   "UPDATE_ALL", "UPDATE_FILTER", "REMOVE_ALL", "REMOVE_FILTER",
   "RETURN_ROW", "RETURN_ROW_FILTER", "RETURN_FIELDS", "RETURN_FIELDS_FILTER"}

FilterKinds ==
  {"UPDATE_FILTER", "REMOVE_FILTER", "RETURN_ROW_FILTER", "RETURN_FIELDS_FILTER",
   "RETURN_ROW_JOIN_FILTER", "RETURN_FIELDS_JOIN_FILTER"}

(* A literal is [type, value]; that of a REFERENCE is [row, name], the row *)
(* "" when the query names the column alone.                               *)
Literal ==
  [type : {"INTEGER", "FLOAT", "BOOL", "STRING", "REFERENCE"},
   value : Seq(STRING) \ {<<>>}]

Comparison ==
  [left : Literal, right : Literal, relation : STRING, next_relation : STRING]

(* A FILTER is a list of comparisons.  What a kind of query does not have  *)
(* is an empty list here, and the join of no loops anything.               *)
ParsedQuery ==
  [kind : Kinds,
   loops : Seq([row : STRING, table : STRING]),
   params : Seq([name : STRING, type : STRING, value : Seq(STRING)]),
   filters : Seq(Seq(Comparison) \ {<<>>}),
   fields : Seq([row : STRING, name : STRING]),
   join : [left : STRING, right : STRING]]

(* What the grammar builds.  A query about one table has its name as that  *)
(* of its only loop.                                                       *)
ASSUME QueriesAssumption ==
  /\ Queries \subseteq ParsedQuery
  /\ \A query \in Queries :
       /\ Len(query.loops) = IF query.kind \in JoinKinds THEN 2 ELSE 1
       /\ query.filters # <<>> <=> query.kind \in FilterKinds

ASSUME GarbageAssumption == Garbage \notin Kinds \cup {"ARRAY", "OK"}

ComparisonType(c) ==
  CASE c.left.type # "REFERENCE" /\ c.right.type # "REFERENCE" -> "VALUE_VALUE"
    [] c.left.type # "REFERENCE" /\ c.right.type = "REFERENCE" -> "VALUE_COLUMN"
    [] c.left.type = "REFERENCE" /\ c.right.type # "REFERENCE" -> "COLUMN_VALUE"
    [] c.left.type = "REFERENCE" /\ c.right.type = "REFERENCE" -> "COLUMN_COLUMN"

-----------------------------------------------------------------------------
(* The client.                                                             *)

(* The two kinds whose filters are written out in full.                    *)
Typed == {"RETURN_ROW_FILTER", "RETURN_FIELDS_JOIN_FILTER"}

SentOperand(kind, literal) ==
  IF literal.type = "REFERENCE" /\ kind \notin Typed THEN [type |-> "REFERENCE"]
  ELSE literal

(* The type sent with every comparison is that of the first one.           *)
SentComparison(query, c) ==
  LET left == SentOperand(query.kind, c.left)
      right == SentOperand(query.kind, c.right)
  IN  IF query.kind \in Typed
      THEN [left_operand |-> left, right_operand |-> right,
            comparison |-> c.relation, relation |-> c.next_relation,
            comparison_type |-> ComparisonType(query.filters[1][1])]
      ELSE [left_operand |-> left, right_operand |-> right,
            comparison |-> c.relation, relation |-> c.next_relation]

SentFilters(query) ==
  [f \in DOMAIN query.filters |->
     [c \in DOMAIN query.filters[f] |-> SentComparison(query, query.filters[f][c])]]

(* A field goes to the table whose loop has its row name, to the left one  *)
(* if both have, and nowhere if none has.                                  *)
ReturnColumnsLeft(query, i) == query.fields   \* mutant: the row is not looked at

ReturnColumns(query, i) ==
  IF i = 2 /\ query.loops[1].row = query.loops[2].row THEN <<>>
  ELSE SelectSeq(query.fields, LAMBDA f : f.row = query.loops[i].row)

SentTable(query, i, joint_column) ==
  [name |-> query.loops[i].table,
   joint_column |-> joint_column,
   return_columns |-> ReturnColumns(query, i)]

(* Which kinds of query send which keys.                                   *)
Senders ==
  [kind |-> Kinds \ {"RETURN_ROW_JOIN", "RETURN_ROW_JOIN_FILTER"},
   return_value |->
     Kinds \ {"COMPLEX_INSERT", "RETURN_ROW_JOIN", "RETURN_ROW_JOIN_FILTER"},
   table |-> Kinds \ ({"COMPLEX_INSERT"} \cup JoinKinds),
   params |-> {"CREATE_TBL", "SIMPLE_INSERT"},
   columns |-> {"UPDATE_ALL", "UPDATE_FILTER", "RETURN_FIELDS", "RETURN_FIELDS_FILTER"},
   filters |-> {"UPDATE_FILTER", "REMOVE_FILTER", "RETURN_ROW_FILTER",
                "RETURN_FIELDS_FILTER", "RETURN_FIELDS_JOIN_FILTER"},
   left |-> {"RETURN_FIELDS_JOIN", "RETURN_FIELDS_JOIN_FILTER"},
   right |-> {"RETURN_FIELDS_JOIN", "RETURN_FIELDS_JOIN_FILTER"}]

Part(query, key) ==
  CASE key = "kind" -> query.kind
    [] key = "return_value" ->
         IF query.kind \in JoinKinds \cup {"RETURN_ROW", "RETURN_ROW_FILTER",
                                           "RETURN_FIELDS", "RETURN_FIELDS_FILTER"}
         THEN "ARRAY" ELSE "OK"
    [] key = "table" -> query.loops[1].table
    [] key = "params" -> query.params
    [] key = "columns" -> IF query.kind \in {"UPDATE_ALL", "UPDATE_FILTER"}
                          THEN query.params ELSE query.fields
    [] key = "filters" -> SentFilters(query)
    [] key = "left" -> SentTable(query, 1, query.join.left)
    [] key = "right" -> SentTable(query, 2, query.join.right)

query_to_json(query) ==
  [key \in {x \in DOMAIN Senders : query.kind \in Senders[x]} |-> Part(query, key)]

Nothing == [kind |-> Garbage]

Init ==
  /\ q \in Queries
  /\ pc = "parsed"
  /\ root = <<>>
  /\ qte = Garbage /\ effect = Nothing
  /\ slots = [ct |-> Garbage, lo |-> Garbage, ro |-> Garbage]

(* A join compares the row of every field to return; that of a column      *)
(* named alone is a null pointer.                                          *)
ComparesNull(query) ==
  /\ query.kind \in {"RETURN_FIELDS_JOIN", "RETURN_FIELDS_JOIN_FILTER"}
  /\ \E i \in DOMAIN query.fields : query.fields[i].row = ""

Send ==
  /\ pc = "parsed"
  /\ ~ComparesNull(q)
  /\ root' = query_to_json(q)
  /\ pc' = "sent"
  /\ UNCHANGED <<q, qte, slots, effect>>

(* The client stops before anything is sent.                               *)
ClientCrash ==
  /\ pc = "parsed"
  /\ ComparesNull(q)
  /\ pc' = "client_crashed"
  /\ UNCHANGED <<q, root, qte, slots, effect>>
-----------------------------------------------------------------------------
(* The server.                                                             *)

Unpacked(object, key) == IF key \in DOMAIN object THEN object[key] ELSE Garbage

(* A float is unpacked with "f", which stores a double in its place.       *)
Value(literal) ==
  IF literal.type = "FLOAT" THEN Garbage ELSE Unpacked(literal, "value")

(* A field of the record to insert.  create_record_field sets no next, so  *)
(* the list may go on behind the last field.                               *)
Fields(params) ==
  [i \in DOMAIN params |-> [params[i] EXCEPT !.value = Value(params[i])]]

Records == LET fields == Fields(root.params)
           IN  {fields, Append(fields, Garbage)}

(* The columns of CREATE are an array on the stack of server_decode_json,  *)
(* which has returned when they are used.  REMOVE TABLE takes the address  *)
(* of a JSON string for the name.                                          *)
Decoded ==
  LET kind == Unpacked(root, "kind")
      common == [kind |-> kind,
                 return_value |-> Unpacked(root, "return_value"),
                 table_name |-> IF kind = "REMOVE_TBL" THEN Garbage
                                ELSE Unpacked(root, "table"),
                 rec |-> Garbage,
                 condition |-> <<>>,
                 left |-> Unpacked(root, "left"),
                 right |-> Unpacked(root, "right")]
  IN  CASE kind = "CREATE_TBL" ->
             {[common EXCEPT !.rec = r] : r \in {root.params, Garbage}}
        [] kind = "SIMPLE_INSERT" ->
             {[common EXCEPT !.rec = r] : r \in Records}
        [] OTHER -> {common}

(* The kinds whose comparisons server_decode_json reads.                   *)
Conditioned == {"UPDATE_ALL", "UPDATE_FILTER", "REMOVE_ALL", "REMOVE_FILTER",
                "RETURN_ROW_FILTER", "RETURN_FIELDS_FILTER",
                "RETURN_FIELDS_JOIN_FILTER"}

Decode ==
  /\ pc = "sent"
  /\ qte' \in Decoded
  /\ pc' = IF qte'.kind \in Conditioned THEN "comparing" ELSE "decoded"
  /\ UNCHANGED <<q, root, slots, effect>>

Operand(belongs, type, value) ==
  [belongs_to_table |-> belongs, type |-> type, value |-> value]

(* The join cuts "table.column" at its point; a word before it that names  *)
(* neither table leaves the operand unset.                                 *)
Named(operand) ==
  LET words == operand.value
  IN  CASE Len(words) = 2 /\ words[1] = qte.left.name -> {Operand("LEFT", "STRING", <<words[2]>>)}
        [] Len(words) = 2 /\ words[1] # qte.left.name /\ words[1] = qte.right.name ->
             {Operand("RIGHT", "STRING", <<words[2]>>)}
        [] OTHER -> {slots.lo, Garbage}

Left(operand) ==
  IF operand.type # "REFERENCE" THEN {Operand("LEFT", operand.type, Value(operand))}
  ELSE IF qte.kind = "RETURN_FIELDS_JOIN_FILTER" THEN Named(operand)
  ELSE {Operand("LEFT", "STRING", Unpacked(operand, "value"))}

(* A name on the right is not read.                                        *)
RightOfRight(operand) ==     \* mutant: the right operand is of the right table
  IF operand.type = "REFERENCE" THEN {slots.ro, Garbage}
  ELSE {Operand("RIGHT", operand.type, Value(operand))}

Right(operand) ==
  IF operand.type = "REFERENCE" THEN {slots.ro, Garbage}
  ELSE {Operand("LEFT", operand.type, Value(operand))}

(* For a name on the right the join reads the left operand once more: a    *)
(* name that has been cut, which has no second word, or a pointer that was *)
(* never set.                                                              *)
ReadsLeftAgain(c) ==
  qte.kind = "RETURN_FIELDS_JOIN_FILTER" /\ c.right_operand.type = "REFERENCE"

MustCrash(c) ==
  /\ ReadsLeftAgain(c)
  /\ c.left_operand.type = "REFERENCE"
  /\ c.left_operand.value[1] \in {qte.left.name, qte.right.name}

(* The length of a name that was not sent is taken from garbage.           *)
MayCrash(c) ==
  \/ MustCrash(c)
  \/ ReadsLeftAgain(c) /\ c.left_operand.type # "REFERENCE"
  \/ c.left_operand.type = "REFERENCE" /\ "value" \notin DOMAIN c.left_operand

Comparisons == IF "filters" \in DOMAIN root THEN FlattenSeq(root.filters) ELSE <<>>

NextRelationSwapped(c) == c.comparison   \* mutant: unpacked from the wrong key

NextRelation(c) == c.relation

NextComparison == Len(qte.condition) + 1

DecodeComparison ==
  /\ pc = "comparing"
  /\ NextComparison <= Len(Comparisons)
  /\ LET c == Comparisons[NextComparison]
     IN  /\ ~MustCrash(c)
         /\ \E ct \in IF "comparison_type" \in DOMAIN c THEN {c.comparison_type}
                      ELSE {slots.ct, Garbage},
               lo \in Left(c.left_operand),
               ro \in Right(c.right_operand) :
              /\ slots' = [ct |-> ct, lo |-> lo, ro |-> ro]
              /\ qte' = [qte EXCEPT !.condition =
                           Append(@, [type |-> ct, left |-> lo, right |-> ro,
                                      relation |-> c.comparison,
                                      next_relation |-> NextRelation(c)])]
  /\ UNCHANGED <<q, pc, root, effect>>

DecodeCrash ==
  /\ pc = "comparing"
  /\ NextComparison <= Len(Comparisons)
  /\ MayCrash(Comparisons[NextComparison])
  /\ pc' = "crashed"
  /\ UNCHANGED <<q, root, qte, slots, effect>>

(* Without a comparison query_condition was never set.                     *)
DecodeEnd ==
  /\ pc = "comparing"
  /\ NextComparison > Len(Comparisons)
  /\ qte' = [qte EXCEPT !.condition = IF @ = <<>> THEN Garbage ELSE @]
  /\ pc' = "decoded"
  /\ UNCHANGED <<q, root, slots, effect>>

Names(fields) == [i \in DOMAIN fields |-> fields[i].name]

(* get_column_by_name returns NULL where no column has the name.           *)
ColumnOf(table, name) == IF name \in Range(Columns[table]) THEN name ELSE Garbage

Joining(table, in) ==
  [name |-> table.name,
   col_to_join |-> ColumnOf(in, table.joint_column),
   view |-> Names(table.return_columns)]

Does(kind, table, rec, condition, view, left, right) ==
  [kind |-> kind, table |-> table, rec |-> rec, condition |-> condition,
   view |-> view, left |-> left, right |-> right]

(* execute_query.  UPDATE takes its columns from a query that was not      *)
(* read; select returns all columns whichever were asked for; the join     *)
(* with filters looks the right column up in the left table.               *)
Executed ==
  LET e == qte
      on(table, rec, condition, view) ==
        Does(e.kind, table, rec, condition, view, Garbage, Garbage)
      joins(in, condition) ==
        Does(e.kind, Garbage, Garbage, condition, Garbage,
             Joining(e.left, e.left.name), Joining(e.right, in))
  IN  IF Garbage \in {e.kind, e.return_value} THEN Nothing
      ELSE CASE e.kind = "CREATE_TBL" -> on(e.table_name, e.rec, <<>>, <<>>)
             [] e.kind = "REMOVE_TBL" -> on(e.table_name, <<>>, <<>>, <<>>)
             [] e.kind = "SIMPLE_INSERT" -> on(e.table_name, e.rec, <<>>, <<>>)
             [] e.kind \in {"UPDATE_ALL", "UPDATE_FILTER"} ->
                  on(e.table_name, Garbage, e.condition, <<>>)
             [] e.kind \in {"REMOVE_ALL", "REMOVE_FILTER"} ->
                  on(e.table_name, <<>>, e.condition, <<>>)
             [] e.kind \in {"RETURN_ROW", "RETURN_FIELDS"} ->
                  on(e.table_name, <<>>, <<>>, Columns[e.table_name])
             [] e.kind \in {"RETURN_ROW_FILTER", "RETURN_FIELDS_FILTER"} ->
                  on(e.table_name, <<>>, e.condition, Columns[e.table_name])
             [] e.kind = "RETURN_FIELDS_JOIN" -> joins(e.right.name, <<>>)
             [] e.kind = "RETURN_FIELDS_JOIN_FILTER" -> joins(e.left.name, e.condition)

Execute ==
  /\ pc = "decoded"
  /\ effect' = Executed
  /\ pc' = "done"
  /\ UNCHANGED <<q, root, qte, slots>>

Next ==
  Send \/ ClientCrash \/ Decode \/ DecodeComparison \/ DecodeCrash \/ DecodeEnd \/ Execute

Spec == Init /\ [][Next]_vars

-----------------------------------------------------------------------------
(* What the query asks for.                                                *)

RowOf(reference) == IF Len(reference) = 2 THEN reference[1] ELSE q.loops[1].row

AskedOperand(literal) ==
  IF literal.type # "REFERENCE" THEN Operand("LEFT", literal.type, literal.value)
  ELSE Operand(IF RowOf(literal.value) = q.loops[1].row THEN "LEFT" ELSE "RIGHT",
               "STRING", <<Last(literal.value)>>)

AskedComparison(c) ==
  [type |-> ComparisonType(c), left |-> AskedOperand(c.left),
   right |-> AskedOperand(c.right), relation |-> c.relation,
   next_relation |-> c.next_relation]

AskedList == FlattenSeq(q.filters)

AskedCondition == [i \in DOMAIN AskedList |-> AskedComparison(AskedList[i])]

AskedJoin(loop, joint_column) ==
  [name |-> loop.table, col_to_join |-> joint_column,
   view |-> Names(SelectSeq(q.fields, LAMBDA f : f.row = loop.row))]

Asked ==
  IF q.kind \in JoinKinds
  THEN Does(q.kind, Garbage, Garbage, AskedCondition, Garbage,
            AskedJoin(q.loops[1], q.join.left), AskedJoin(q.loops[2], q.join.right))
  ELSE Does(q.kind, q.loops[1].table, q.params, AskedCondition,
            CASE q.kind \in {"RETURN_ROW", "RETURN_ROW_FILTER"} -> Columns[q.loops[1].table]
              [] q.kind \in {"RETURN_FIELDS", "RETURN_FIELDS_FILTER"} -> Names(q.fields)
              [] OTHER -> <<>>,
            Garbage, Garbage)

(* The record may have more behind the fields asked for.                   *)
DoesAsAsked ==
  /\ effect # Nothing
  /\ q.kind = "SIMPLE_INSERT" => IsPrefix(Asked.rec, effect.rec)
  /\ [effect EXCEPT !.rec = Garbage] = [Asked EXCEPT !.rec = Garbage]

-----------------------------------------------------------------------------
(* The queries that are written and read in full.                          *)

ReadInFull(c) ==
  /\ c.left.type # "FLOAT"
  /\ c.right.type \notin {"FLOAT", "REFERENCE"}
  /\ ComparisonType(c) = ComparisonType(q.filters[1][1])

(* A column is named bare in a select, and behind its table in a join.     *)
NamedInFull(literal) ==
  IF q.kind \in JoinKinds
  THEN Len(literal.value) = 2 /\ \E i \in DOMAIN q.loops : literal.value[1] = q.loops[i].table
  ELSE Len(literal.value) = 1

(* The columns a join compares are columns of its tables, and its rows     *)
(* have two names.                                                         *)
JoinsColumns ==
  /\ q.loops[1].row # q.loops[2].row
  /\ q.join.left \in Range(Columns[q.loops[1].table])
  /\ q.join.right \in Range(Columns[q.loops[2].table])

Carried ==
  /\ q.kind \in {"SIMPLE_INSERT", "RETURN_ROW", "RETURN_ROW_FILTER",
                 "RETURN_FIELDS_JOIN", "RETURN_FIELDS_JOIN_FILTER"}
  /\ \A i \in DOMAIN q.params : q.params[i].type # "FLOAT"
  /\ \A i \in DOMAIN AskedList :
       /\ ReadInFull(AskedList[i])
       /\ AskedList[i].left.type = "REFERENCE" => NamedInFull(AskedList[i].left)
  /\ q.kind \in JoinKinds => JoinsColumns
  /\ q.kind = "RETURN_FIELDS_JOIN_FILTER" =>
       /\ \A i \in DOMAIN q.loops : q.loops[i].row = q.loops[i].table
       /\ q.join.right \in Range(Columns[q.loops[1].table])

-----------------------------------------------------------------------------
(* Operands of the right table come from joins only, and an INSERT or a    *)
(* selection of rows stops neither the client nor the server.              *)
TypeOK ==
  /\ pc \in {"parsed", "sent", "comparing", "decoded", "done", "crashed", "client_crashed"}
  /\ \A s \in {slots.lo, slots.ro} :
       \/ s = Garbage
       \/ s.belongs_to_table = "LEFT"
       \/ q.kind = "RETURN_FIELDS_JOIN_FILTER" /\ s = slots.lo
  /\ pc \in {"crashed", "client_crashed"} =>
       q.kind \notin {"SIMPLE_INSERT", "RETURN_ROW", "RETURN_ROW_FILTER"}

(* INSERT, RETURN of rows and joins that return fields do what was asked,  *)
(* with values that are no floats, comparisons of one type whose right     *)
(* side is a value, and columns named as the server expects them.          *)
RunsWhatWasAsked == pc = "done" /\ Carried => DoesAsAsked

(* Whatever becomes of its operands, a list of comparisons arrives whole,  *)
(* in order, with the relations between them and the ends of the FILTERs.  *)
ListsKept ==
  pc = "done" /\ AskedList # <<>> /\ q.kind # "RETURN_ROW_JOIN_FILTER" =>
    /\ Len(qte.condition) = Len(AskedList)
    /\ \A i \in DOMAIN AskedList :
         /\ qte.condition[i].relation = AskedList[i].relation
         /\ qte.condition[i].next_relation = AskedList[i].next_relation
=============================================================================
