------------------------------- MODULE Records -------------------------------
(***************************************************************************)
(* The row an INSERT builds: the fields that Codec carried to              *)
(* execute_query are copied one by one into the bytes of a record, each at *)
(* the place its column's name gives (table.c).                            *)
(*                                                                         *)
(* A byte is Zero, a pair <<value, i>> for the i-th byte of a value, or    *)
(* Garbage for what lies behind a value.  The copy behind the end of the   *)
(* record that equal column names allow is left out, and the table exists. *)
(***************************************************************************)
EXTENDS Codec

CONSTANTS
  Layout,     \* Layout[t]: the columns of table t, as [name, type, size]
  Length(_)   \* the number of characters of the value of a string

Width(type) == IF type = "BOOL" THEN 1 ELSE 4

(* A string column has the size it was created with, any other the size of *)
(* its type (ast.c).                                                       *)
ASSUME LayoutAssumption ==
  \A t \in DOMAIN Layout :
    /\ Layout[t] \in Seq([name : STRING, type : {"INTEGER", "FLOAT", "BOOL", "STRING"},
                          size : 0 .. 255])
    /\ Columns[t] = Names(Layout[t])
    /\ \A i \in DOMAIN Layout[t] :
         Layout[t][i].type # "STRING" => Layout[t][i].size = Width(Layout[t][i].type)

ASSUME InsertAssumption ==
  \A query \in Queries : query.kind = "SIMPLE_INSERT" =>
    /\ query.loops[1].table \in DOMAIN Layout
    /\ \A i \in DOMAIN query.params : Length(query.params[i].value) \in Nat

VARIABLES
  data,       \* the bytes of the record
  field,      \* the field that is copied next
  building    \* "no", "fields", "built" or "crashed"

recordsVars == <<vars, data, field, building>>

Zero == <<>>

(* The places of the columns of the table with a name.                     *)
Called(table, name) == {i \in DOMAIN Layout[table] : Layout[table][i].name = name}

SizeBefore(table, i) ==
  LET size[k \in 0 .. Len(Layout[table])] ==
        IF k = 0 THEN 0 ELSE size[k - 1] + Layout[table][k].size
  IN  size[i - 1]

(* The first column of that name says where, the last one how much; with   *)
(* no such column nothing is copied.                                       *)
get_column_offset_by_name(table, name) ==
  IF Called(table, name) = {} THEN -1
  ELSE SizeBefore(table, Min(Called(table, name)))

get_column_size_by_name(table, name) ==
  IF Called(table, name) = {} THEN 0 ELSE Layout[table][Max(Called(table, name))].size

Bytes(literal) ==
  IF literal.type = "STRING"
  THEN Append([i \in 1..Length(literal.value) |-> <<literal.value, i>>], Zero)
  ELSE [i \in 1..Width(literal.type) |-> <<literal.value, i>>]

CopiedWhole(table, name, literal) ==   \* mutant: the size of the value is copied
  LET offset == get_column_offset_by_name(table, name)
      bytes == Bytes(literal)
  IN  [at \in DOMAIN data |->
         IF offset # -1 /\ at - offset \in DOMAIN bytes THEN bytes[at - offset] ELSE data[at]]

(* memcpy takes as many bytes as the column has, whatever the value has.   *)
Copied(table, name, literal) ==
  LET offset == get_column_offset_by_name(table, name)
      bytes == Bytes(literal)
  IN  [at \in DOMAIN data |->
         IF at \in (offset + 1)..(offset + get_column_size_by_name(table, name))
         THEN IF at - offset \in DOMAIN bytes THEN bytes[at - offset] ELSE Garbage
         ELSE data[at]]

RecordsInit ==
  /\ Init
  /\ data = <<>>
  /\ field = 1
  /\ building = "no"

CodecStep ==
  /\ Next
  /\ UNCHANGED <<data, field, building>>

create_record ==
  /\ building = "no"
  /\ pc = "done"
  /\ effect.kind = "SIMPLE_INSERT"
  /\ data' = [i \in 1..SizeBefore(effect.table, Len(Layout[effect.table]) + 1) |-> Zero]
  /\ building' = "fields"
  /\ UNCHANGED <<vars, field>>

InsertField ==
  /\ building = "fields"
  /\ field <= Len(effect.rec)
  /\ effect.rec[field] # Garbage
  /\ data' = Copied(effect.table, effect.rec[field].name, effect.rec[field])
  /\ field' = field + 1
  /\ UNCHANGED <<vars, building>>

(* The list goes on behind its last field: a next that was never set.      *)
FollowGarbage ==
  /\ building = "fields"
  /\ field <= Len(effect.rec)
  /\ effect.rec[field] = Garbage
  /\ building' = "crashed"
  /\ UNCHANGED <<vars, data, field>>

FieldsEnd ==
  /\ building = "fields"
  /\ field > Len(effect.rec)
  /\ building' = "built"
  /\ UNCHANGED <<vars, data, field>>

RecordsNext == CodecStep \/ create_record \/ InsertField \/ FollowGarbage \/ FieldsEnd

RecordsSpec == RecordsInit /\ [][RecordsNext]_recordsVars
-----------------------------------------------------------------------------
(* What the getters of table.c copy out of the record.                     *)
Read(table, name) ==
  LET offset == get_column_offset_by_name(table, name)
  IN  SubSeq(data, offset + 1, offset + get_column_size_by_name(table, name))

Naming(name) == {i \in DOMAIN q.params : q.params[i].name = name}

(* What the getter of a column's type makes of the bytes of a column: the  *)
(* bytes of the number, or the characters up to the zero.                  *)
Holds(column, bytes, literal) ==
  IF column.type = "STRING"
  THEN Length(literal.value) < column.size =>
         IsPrefix(Bytes(literal), bytes)
  ELSE Bytes(literal) = bytes

(* Once its row is built, an INSERT into a table with different column     *)
(* names has put every value the user typed where its column is read, the  *)
(* last one if a column is named twice, and left zeros in the columns not  *)
(* named; a value of another type or length than its column harms none but *)
(* that one.  Floats do not arrive, and a string that fills its column has *)
(* no end.                                                                 *)
RowReadsBack ==
  building = "built" /\ IsInjective(Columns[effect.table]) =>
    \A i \in DOMAIN Layout[effect.table] :
      LET column == Layout[effect.table][i]
          bytes == Read(effect.table, column.name)
      IN  IF Naming(column.name) = {} THEN \A j \in DOMAIN bytes : bytes[j] = Zero
          ELSE LET last == q.params[Max(Naming(column.name))]
               IN  last.type = column.type /\ last.type # "FLOAT" =>
                     Holds(column, bytes, last)
=============================================================================
