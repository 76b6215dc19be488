------------------------------- MODULE Spelling -------------------------------
(***************************************************************************)
(* A parsed query written out again as lexemes, to compare with what was   *)
(* typed.  A list is over at a node without `next'.                        *)
(***************************************************************************)
EXTENDS Parser

Word(token, text) == <<[token |-> token, text |-> text]>>

Mark(token) == Word(token, 0)

Name(strval) == Word("STRING", strval[1])

Dotted(reference) ==
  IF Len(reference) = 1 THEN Name(reference)
  ELSE Name(<<reference[1]>>) \o Mark("DOT") \o Name(<<reference[2]>>)

RECURSIVE List(_, _, _)
List(Write(_), separator, first) ==
  IF "next" \in DOMAIN first
  THEN Write(first) \o separator \o List(Write, separator, first.next)
  ELSE Write(first)

Literal(l) ==
  CASE l.type = "INTEGER_AST" -> Word("INTVAL", l.value)
    [] l.type = "FLOAT_AST" -> Word("FLOATVAL", l.value)
    [] l.type = "BOOLEAN_AST" -> Word("BOOLVAL", l.value)
    [] l.type = "VARCHAR_AST" -> Mark("QUOTE") \o Name(l.value) \o Mark("QUOTE")
    [] l.type = "REFERENCE_AST" -> Dotted(l.value)

ColumnText(c) ==
  Name(c.name) \o Mark("COLON") \o
  CASE c.type = "INTEGER_AST" -> Mark("INTEGER")
    [] c.type = "FLOAT_AST" -> Mark("FLOAT")
    [] c.type = "BOOLEAN_AST" -> Mark("BOOLEAN")
    [] c.type = "VARCHAR_AST" ->
         Mark("VARCHAR") \o Mark("OB") \o Word("INTVAL", c.size) \o Mark("CB")

RecordField(rf) == Name(rf.name) \o Mark("COLON") \o Literal(rf.value)

Record(rf) == Mark("OCB") \o List(RecordField, Mark("COMMA"), rf) \o Mark("CCB")

RecordOf(rfs) == Record(rfs.rf)

LoopText(l) == Mark("FOR") \o Name(l.row_name) \o Mark("IN") \o Name(l.table_name)

Operands(c, between) == Literal(c.left_operand) \o between \o Literal(c.right_operand)

Comparison(c) ==
  Operands(c, Word("CMP", c.relation)) \o
  IF c.comparison_relation = NONE THEN <<>> ELSE Word("OP", c.comparison_relation)

FilterText(f) == Mark("FILTER") \o List(Comparison, <<>>, f.comparison)

FiltersOf(body) ==
  IF "filter" \in DOMAIN body THEN List(FilterText, <<>>, body.filter) ELSE <<>>

FieldText(f) == Dotted(f.row_name \o f.name)

Returned(r) ==
  CASE "f" \in DOMAIN r ->
         Mark("OCB") \o List(FieldText, Mark("COMMA"), r.f) \o Mark("CCB")
    [] "right_return_name" \in DOMAIN r ->
         Name(r.left_return_name) \o Mark("COMMA") \o Name(r.right_return_name)
    [] OTHER -> Name(r.left_return_name)

JoinText(r) ==
  IF "right_loop" \notin DOMAIN r THEN <<>>
  ELSE LoopText(r.right_loop) \o Mark("FILTER") \o Operands(r.join_condition, Mark("EQUAL"))

InTable(body) == Mark("IN") \o Name(body.table_name)

(* The loop of an UPDATE with filters cannot be written: it was not kept.  *)
Written(query) ==
  LET b == query.body
      type == IF "type" \in DOMAIN b THEN b.type ELSE query.type
  IN
  CASE type = "create_table" ->
         Mark("CREATE") \o Mark("TABLE") \o Name(b.name) \o Mark("OCB") \o
         List(ColumnText, Mark("COMMA"), b.column) \o Mark("CCB")
    [] type = "remove_table" -> Mark("REMOVE") \o Mark("TABLE") \o Name(b.name)
    [] type = "SIMPLE_INSERT" -> Mark("INSERT") \o RecordOf(b.rfs) \o InTable(b)
    [] type = "COMPLEX_INSERT" ->
         Mark("FOR") \o Name(b.row_name) \o Mark("IN") \o Mark("OSB") \o
         List(RecordOf, Mark("COMMA"), b.rfs) \o
         Mark("CSB") \o Mark("INSERT") \o InTable(b)
    [] type = "UPDATE_ALL" ->
         Mark("UPDATE") \o Mark("WITH") \o Record(b.rf) \o InTable(b)
    [] type = "UPDATE_FILTER" ->
         FiltersOf(b) \o Mark("UPDATE") \o Name(b.row_name) \o Mark("WITH") \o
         Record(b.rf) \o InTable(b)
    [] type = "REMOVE_ALL" -> Mark("REMOVE") \o InTable(b)
    [] type = "REMOVE_FILTER" ->
         LoopText(b.loop) \o FiltersOf(b) \o Mark("REMOVE") \o Name(b.row_name) \o
         InTable(b)
    [] OTHER ->
         LoopText(b.left_loop) \o JoinText(b) \o FiltersOf(b) \o Mark("RETURN") \o
         Returned(b)

LoopLost(query) == query.body.node = "update_records" /\ query.body.type = "UPDATE_FILTER"

LoopLength == 4

-----------------------------------------------------------------------------
(* The query returned, written out, is what was typed up to its semicolon: *)
(* names, lists, operands and operators all in their places, and no token  *)
(* of the next query has been taken, which the next call would forget.     *)
(* UPDATE with filters has lost its loop, TRUE reads as FALSE and the size *)
(* of a VARCHAR is cut to a byte.                                          *)
AsTyped ==
  [i \in DOMAIN typed |->
     CASE typed[i].token = "BOOLVAL" -> [typed[i] EXCEPT !.text = 0]
       [] i > 2 /\ typed[i].token = "INTVAL" /\ typed[i - 2].token = "VARCHAR" ->
            [typed[i] EXCEPT !.text = @ % 256]
       [] OTHER -> typed[i]]

SaysWhatWasTyped ==
  /\ LeavesNoToken
  /\ result.node = "query" =>
       Written(result) \o Mark("SEMICOLON") =
         IF LoopLost(result) THEN SubSeq(AsTyped, LoopLength + 1, Len(typed)) ELSE AsTyped
=============================================================================
