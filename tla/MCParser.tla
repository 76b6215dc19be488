------------------------------- MODULE MCParser -------------------------------
(* An instance of Parser for TLC: what may be typed, and how much of it. *)
EXTENDS Spelling, Automaton

SomeTexts == [INTVAL |-> {5, 260}, BOOLVAL |-> {1}, OP |-> {0, 1}, CMP |-> {6}]

Keywords == {"CREATE", "REMOVE", "TABLE", "INSERT", "UPDATE", "WITH", "RETURN", "SEMICOLON",
             "INTEGER", "FLOAT", "BOOLEAN", "VARCHAR", "OB", "CB", "OSB", "CSB", "EQUAL",
             "OP", "$end"}

AtMost(n, S) == [of |-> S, most |-> n]

SmallLimits ==
  {AtMost(1, {t}) : t \in Keywords}
  \cup {AtMost(2, {t}) : t \in {"IN", "FOR", "FILTER", "CMP", "COLON",
                              "COMMA", "OCB", "CCB", "QUOTE"}}
  \cup {AtMost(1, {"INTVAL", "FLOATVAL", "BOOLVAL"}),
         AtMost(3, {"INTVAL", "FLOATVAL", "BOOLVAL", "QUOTE", "DOT"}),
         AtMost(4, {"CMP", "COMMA", "COLON", "EQUAL"}),
         AtMost(3, {"DOT"}), AtMost(12, {"STRING"})}
=============================================================================
