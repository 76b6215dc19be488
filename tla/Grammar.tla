------------------------------- MODULE Grammar -------------------------------
(***************************************************************************)
(* The language of queries: the rules of aql/aql.y, numbered as the parser *)
(* numbers them, and what may follow the tokens read so far, found by      *)
(* deriving from the left.                                                 *)
(***************************************************************************)
EXTENDS Naturals, Sequences

Rule(lhs, rhs) == [lhs |-> lhs, rhs |-> rhs]

Rules == <<
  Rule("$accept", <<"input", "$end">>),
  Rule("input", <<>>),
  Rule("input", <<"input", "query", "SEMICOLON">>),
  Rule("query", <<"create_table">>),
  Rule("query", <<"remove_table">>),
  Rule("query", <<"insert_records">>),
  Rule("query", <<"update_records">>),
  Rule("query", <<"remove_records">>),
  Rule("query", <<"return_records">>),
  Rule("create_table", <<"CREATE", "TABLE", "STRING", "OCB", "columns", "CCB">>),
  Rule("columns", <<"column">>),
  Rule("columns", <<"column", "COMMA", "columns">>),
  Rule("column", <<"STRING", "COLON", "INTEGER">>),
  Rule("column", <<"STRING", "COLON", "FLOAT">>),
  Rule("column", <<"STRING", "COLON", "BOOLEAN">>),
  Rule("column", <<"STRING", "COLON", "VARCHAR", "OB", "INTVAL", "CB">>),
  Rule("remove_table", <<"REMOVE", "TABLE", "STRING">>),
  Rule("insert_records", <<"INSERT", "OCB", "record_fields", "CCB", "IN",
                           "STRING">>),
  Rule("insert_records", <<"FOR", "STRING", "IN", "OSB", "records_fields",
                           "CSB", "INSERT", "IN", "STRING">>),
  Rule("records_fields", <<"OCB", "record_fields", "CCB">>),
  Rule("records_fields", <<"OCB", "record_fields", "CCB", "COMMA",
                           "records_fields">>),
  Rule("record_fields", <<"record_field">>),
  Rule("record_fields", <<"record_field", "COMMA", "record_fields">>),
  Rule("record_field", <<"STRING", "COLON", "value">>),
  Rule("update_records", <<"UPDATE", "WITH", "OCB", "record_fields", "CCB",
                           "IN", "STRING">>),
  Rule("update_records", <<"loop", "filters", "UPDATE", "STRING", "WITH",
                           "OCB", "record_fields", "CCB", "IN", "STRING">>),
  Rule("remove_records", <<"REMOVE", "IN", "STRING">>),
  Rule("remove_records", <<"loop", "filters", "REMOVE", "STRING", "IN",
                           "STRING">>),
  Rule("return_records", <<"loop", "RETURN", "STRING">>),
  Rule("return_records", <<"loop", "filters", "RETURN", "STRING">>),
  Rule("return_records", <<"loop", "RETURN", "OCB", "fields", "CCB">>),
  Rule("return_records", <<"loop", "filters", "RETURN", "OCB", "fields", "CCB">>),
  Rule("return_records", <<"loop", "loop", "join_condition", "RETURN",
                           "STRING", "COMMA", "STRING">>),
  Rule("return_records", <<"loop", "loop", "join_condition", "filters",
                           "RETURN", "STRING", "COMMA", "STRING">>),
  Rule("return_records", <<"loop", "loop", "join_condition", "RETURN", "OCB",
                           "fields", "CCB">>),
  Rule("return_records", <<"loop", "loop", "join_condition", "filters",
                           "RETURN", "OCB", "fields", "CCB">>),
  Rule("loop", <<"FOR", "STRING", "IN", "STRING">>),
  Rule("filters", <<"FILTER", "filter">>),
  Rule("filters", <<"FILTER", "filter", "filters">>),
  Rule("filter", <<"compare_operand", "CMP", "compare_operand">>),
  Rule("filter", <<"compare_operand", "CMP", "compare_operand", "OP", "filter">>),
  Rule("join_condition", <<"FILTER", "STRING", "DOT", "STRING", "EQUAL",
                           "STRING", "DOT", "STRING">>),
  Rule("compare_operand", <<"value">>),
  Rule("compare_operand", <<"column_name">>),
  Rule("column_name", <<"STRING">>),
  Rule("column_name", <<"STRING", "DOT", "STRING">>),
  Rule("value", <<"INTVAL">>),
  Rule("value", <<"FLOATVAL">>),
  Rule("value", <<"BOOLVAL">>),
  Rule("value", <<"QUOTE", "STRING", "QUOTE">>),
  Rule("fields", <<"STRING">>),
  Rule("fields", <<"STRING", "COMMA", "fields">>),
  Rule("fields", <<"STRING", "DOT", "STRING">>),
  Rule("fields", <<"STRING", "DOT", "STRING", "COMMA", "fields">>) >>

RuleNumbers == DOMAIN Rules

Nonterminals == {Rules[r].lhs : r \in RuleNumbers}

RulesOf(X) == {r \in RuleNumbers : Rules[r].lhs = X}

Alternatives == [X \in Nonterminals |-> {Rules[r].rhs : r \in RulesOf(X)}]

-----------------------------------------------------------------------------
(* What a form derives by one rule for its first symbol.                   *)
Opens(form) ==
  IF form # <<>> /\ Head(form) \in Nonterminals
  THEN {rhs \o Tail(form) : rhs \in Alternatives[Head(form)]}
  ELSE {form}

OpensAll(forms) == UNION {Opens(f) : f \in forms}

(* The forms with a token in front that derive from a set of forms.  No    *)
(* part of a query needs more than three rules to come to its first token. *)
Opened(forms) == OpensAll(OpensAll(OpensAll(forms)))

After(forms, token) ==
  {Tail(f) : f \in {g \in Opened(forms) : g # <<>> /\ Head(g) = token}}

(* One query, what the rule of the left-recursive input puts behind it.    *)
Sentence == {<<"query", "SEMICOLON">>}
=============================================================================
