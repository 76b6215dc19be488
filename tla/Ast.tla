--------------------------------- MODULE Ast ---------------------------------
(***************************************************************************)
(* The nodes of a parsed query and the constructors of aql/ast.c.  A node  *)
(* is the record of the fields its constructor sets: a field that is not   *)
(* there is memory from malloc that nothing has written.  Every list ends  *)
(* in a node without `next'.  `node' is the C type.  Names and strings are *)
(* copied whole; the room for them is not modelled.                        *)
(***************************************************************************)
EXTENDS Integers, Sequences, TLC

Node(type, fields) ==
  [f \in {"node"} \cup DOMAIN fields |-> IF f = "node" THEN type ELSE fields[f]]

(* The assignments `$1->next = $3' of the grammar.                         *)
LinkedNot(first, rest) == first       \* mutant: the rest of the list is lost

Linked(first, rest) ==
  [f \in {"next"} \cup DOMAIN first |-> IF f = "next" THEN rest ELSE first[f]]

-----------------------------------------------------------------------------
(* The six kinds of query, each with its own pointer.                      *)

Query(type, body) == Node("query", [type |-> type, body |-> body])

create_create_table(name, column) ==
  Node("create_table", [name |-> name, column |-> column])

create_remove_table(name) == Node("remove_table", [name |-> name])

create_record_fields(rf) == Node("record_fields", [rf |-> rf])

create_loop_insert_records(row_name, tb_name, rfs) ==
  Node("insert_records", [type |-> "COMPLEX_INSERT", row_name |-> row_name,
                          table_name |-> tb_name, rfs |-> rfs])

create_insert_records(name, rf) ==
  Node("insert_records", [type |-> "SIMPLE_INSERT", table_name |-> name,
                          rfs |-> create_record_fields(rf)])

create_update_records(name, rf) ==
  Node("update_records", [type |-> "UPDATE_ALL", table_name |-> name, rf |-> rf])

(* The loop is not kept.                                                   *)
create_update_records_filter(loop, f, upd_row, rf, upd_tb) ==
  Node("update_records", [type |-> "UPDATE_FILTER", filter |-> f, rf |-> rf,
                          row_name |-> upd_row, table_name |-> upd_tb])

create_remove_records(name) ==
  Node("remove_records", [type |-> "REMOVE_ALL", table_name |-> name])

create_remove_records_filter(loop, f, rem_row, rem_tb) ==
  Node("remove_records", [type |-> "REMOVE_FILTER", loop |-> loop, filter |-> f,
                          row_name |-> rem_row, table_name |-> rem_tb])

(* The eight create_return_* functions: they differ in what they are given *)
(* besides the first loop.                                                 *)
create_return(type, left, rest) ==
  Node("return_records", [type |-> type, left_loop |-> left] @@ rest)

Filtered(f) == [filter |-> f]
Row(name) == [left_return_name |-> name]
FieldList(f) == [f |-> f]
Joined(right, join_condition) ==
  [right_loop |-> right, join_condition |-> join_condition]
RowPair(left_row, right_row) ==
  [left_return_name |-> left_row, right_return_name |-> right_row]

-----------------------------------------------------------------------------
NULL == <<>>

(* The relation to the next comparison: OR 0, AND 1.                       *)
NONE == 2

create_field(first, second) == Node("field", [row_name |-> first, name |-> second])

create_loop(row_name, table_name) ==
  Node("loop", [row_name |-> row_name, table_name |-> table_name])

create_record_field(name, value) ==
  Node("record_field", [name |-> name, value |-> value])

create_literal(type, value) == Node("literal", [type |-> type, value |-> value])

(* "first.second", or the column name alone.                               *)
create_reference_literal(first, second) ==
  create_literal("REFERENCE_AST", IF first = NULL THEN second ELSE first \o second)

(* A size is of one byte.                                                  *)
create_column(name, type, size) ==
  Node("column",
       [name |-> name, type |-> type,
        size |-> CASE type = "INTEGER_AST" -> 4
                   [] type = "FLOAT_AST" -> 4
                   [] type = "BOOLEAN_AST" -> 1
                   [] type = "VARCHAR_AST" -> size % 256])

create_filter_bare(c) == c             \* mutant: the list node is not made

create_filter(c) == Node("filter", [comparison |-> c])

Side(literal) == IF literal.type = "REFERENCE_AST" THEN "COLUMN" ELSE "VALUE"

(* create_complex_comparison; create_comparison is the case NONE.           *)
create_comparison_swapped(left, right, cmp, op) ==   \* mutant: operands swapped
  Node("comparison",
       [type |-> <<Side(left), Side(right)>>,
        left_operand |-> right, right_operand |-> left,
        relation |-> cmp, comparison_relation |-> op])

create_comparison(left, right, cmp, op) ==
  Node("comparison",
       [type |-> <<Side(left), Side(right)>>,
        left_operand |-> left, right_operand |-> right,
        relation |-> cmp, comparison_relation |-> op])

(* No type is set.                                                         *)
create_join_condition(left_row, left_field, right_row, right_field) ==
  Node("comparison",
       [left_operand |-> create_reference_literal(left_row, left_field),
        right_operand |-> create_reference_literal(right_row, right_field),
        relation |-> 0])
=============================================================================
