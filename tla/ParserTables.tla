----------------------------- MODULE ParserTables -----------------------------
(***************************************************************************)
(* The tables of the parser generated from aql/aql.y.  The parser counts   *)
(* states, symbols and rules from 0, a sequence from 1: At reads them.     *)
(***************************************************************************)
EXTENDS Integers, Sequences

At(table, i) == table[i + 1]

YYFINAL == 2
YYLAST == 160
YYNTOKENS == 35
YYPACT_NINF == -73

(* The symbols: the tokens, then the nonterminals. *)
yytname == <<
  "$end", "error", "$undefined", "CREATE", "REMOVE", "TABLE", "INSERT",
  "IN", "UPDATE", "WITH", "RETURN", "FOR", "FILTER", "INTEGER", "FLOAT",
  "BOOLEAN", "VARCHAR", "OP", "CMP", "INTVAL", "FLOATVAL", "BOOLVAL",
  "STRING", "COLON", "SEMICOLON", "COMMA", "OB", "CB", "OCB", "CCB", "OSB",
  "CSB", "DOT", "EQUAL", "QUOTE", "$accept", "input", "query",
  "create_table", "columns", "column", "remove_table", "insert_records",
  "records_fields", "record_fields", "record_field", "update_records",
  "remove_records", "return_records", "loop", "filters", "filter",
  "join_condition", "compare_operand", "column_name", "value", "fields">>

(* Where the row of a state begins in yytable. *)
yypact == <<
  -73, 12, -73, 5, 35, -15, 18, 17, 24, -73, -73, -73, -73, -73, -73, 34,
  27, 36, 37, 39, 28, 53, -73, 6, 40, -17, 51, 21, 41, -73, -73, 42, 43, 46,
  39, 2, -73, 44, 57, -73, -73, -73, 47, 48, 55, 50, -73, -73, 52, 45, 54,
  58, 8, 59, -13, 66, 39, 56, -73, 49, 1, 60, 61, 62, 63, -73, -17, 64, 13,
  65, 75, 77, -73, 44, 67, 69, 68, -73, 70, -73, 80, 39, 71, 44, 72, -73,
  -73, -73, 74, 73, 76, 44, 15, 78, 79, 81, 38, -73, 59, -73, 82, 83, 93,
  -73, 84, -17, 85, 86, 87, 88, 44, -73, 39, -73, -73, -73, -73, 89, -73,
  -73, 92, 96, 44, -73, 97, -73, -73, 98, 94, 95, 102, 49, 100, -73, 99,
  -73, -73, 104, 101, -73, -73, 103, 105, -73, -73, -73>>

(* The rule a state reduces by when its row says nothing; 0 is an error. *)
yydefact == <<
  2, 0, 1, 0, 0, 0, 0, 0, 0, 4, 5, 6, 7, 8, 9, 0, 0, 0, 0, 0, 0, 0, 3, 0, 0,
  0, 0, 0, 0, 17, 27, 0, 0, 22, 0, 0, 29, 0, 0, 47, 48, 49, 45, 0, 38, 0,
  44, 43, 0, 0, 0, 0, 0, 0, 0, 0, 0, 0, 37, 0, 51, 0, 0, 0, 0, 39, 0, 0, 0,
  0, 0, 0, 30, 0, 0, 0, 11, 24, 0, 23, 0, 0, 0, 0, 0, 31, 46, 50, 40, 0, 0,
  0, 0, 0, 0, 0, 0, 10, 0, 18, 0, 0, 0, 52, 53, 0, 0, 0, 0, 0, 0, 28, 0, 32,
  13, 14, 15, 0, 12, 25, 20, 0, 0, 41, 0, 33, 35, 0, 0, 0, 0, 0, 0, 54, 0,
  34, 36, 0, 0, 21, 19, 0, 0, 16, 42, 26>>

(* Where the column of a nonterminal begins in yytable. *)
yypgoto == <<
  -73, -73, -73, -73, -10, -73, -73, -73, -26, -34, -73, -73, -73, -73, 91,
  -35, 9, -73, 90, -73, 106, -72>>

(* The state a nonterminal leads to when its column says nothing. *)
yydefgoto == <<
  0, 1, 8, 9, 75, 76, 10, 11, 82, 32, 33, 12, 13, 14, 15, 27, 44, 49, 45,
  46, 47, 61>>

(* The state to shift to. *)
yytable == <<
  57, 95, 39, 40, 41, 42, 39, 40, 41, 65, 16, 103, 2, 19, 69, 3, 4, 43, 5,
  108, 6, 43, 79, 7, 58, 50, 83, 20, 36, 51, 72, 52, 59, 84, 37, 90, 73,
  109, 128, 21, 17, 91, 18, 110, 23, 24, 25, 101, 22, 28, 133, 114, 115,
  116, 117, 68, 34, 25, 29, 30, 35, 31, 38, 48, 62, 54, 60, 25, 66, 53, 64,
  56, 55, 78, 67, 92, 70, 81, 129, 63, 71, 74, 93, 58, 86, 80, 94, 100, 118,
  85, 96, 105, 99, 98, 104, 106, 89, 87, 97, 121, 111, 107, 102, 132, 119,
  139, 26, 112, 125, 122, 113, 142, 120, 127, 123, 130, 126, 131, 124, 134,
  135, 138, 140, 136, 137, 144, 0, 145, 143, 0, 0, 141, 0, 0, 0, 0, 0, 0, 0,
  0, 0, 0, 0, 0, 0, 0, 0, 0, 0, 0, 0, 0, 0, 0, 0, 0, 88, 0, 0, 0, 77>>

(* The symbol or the state an entry of yytable belongs to. *)
yycheck == <<
  34, 73, 19, 20, 21, 22, 19, 20, 21, 44, 5, 83, 0, 28, 49, 3, 4, 34, 6, 91,
  8, 34, 56, 11, 22, 4, 25, 9, 22, 8, 22, 10, 30, 32, 28, 22, 28, 22, 110,
  22, 5, 28, 7, 28, 10, 11, 12, 81, 24, 22, 122, 13, 14, 15, 16, 10, 28, 12,
  22, 22, 7, 22, 22, 12, 7, 23, 22, 12, 18, 28, 22, 25, 29, 7, 22, 10, 22,
  28, 112, 32, 22, 22, 7, 22, 22, 29, 9, 7, 98, 29, 23, 17, 22, 25, 22, 22,
  32, 34, 29, 6, 22, 25, 31, 7, 22, 131, 15, 28, 22, 25, 29, 7, 29, 25, 105,
  26, 29, 25, 33, 22, 22, 19, 22, 29, 29, 22, -1, 22, 27, -1, -1, 32, -1,
  -1, -1, -1, -1, -1, -1, -1, -1, -1, -1, -1, -1, -1, -1, -1, -1, -1, -1,
  -1, -1, -1, -1, -1, 66, -1, -1, -1, 54>>

(* The symbol whose shift leads to a state. *)
yystos == <<
  0, 36, 0, 3, 4, 6, 8, 11, 37, 38, 41, 42, 46, 47, 48, 49, 5, 5, 7, 28, 9,
  22, 24, 10, 11, 12, 49, 50, 22, 22, 22, 22, 44, 45, 28, 7, 22, 28, 22, 19,
  20, 21, 22, 34, 51, 53, 54, 55, 12, 52, 4, 8, 10, 28, 23, 29, 25, 44, 22,
  30, 22, 56, 7, 32, 22, 50, 18, 22, 10, 50, 22, 22, 22, 28, 22, 39, 40, 55,
  7, 44, 29, 28, 43, 25, 32, 29, 22, 34, 53, 32, 22, 28, 10, 7, 9, 56, 23,
  29, 25, 22, 7, 44, 31, 56, 22, 17, 22, 25, 56, 22, 28, 22, 28, 29, 13, 14,
  15, 16, 39, 22, 29, 6, 25, 51, 33, 22, 29, 25, 56, 44, 26, 25, 7, 56, 22,
  22, 29, 29, 19, 43, 22, 32, 7, 27, 22, 22>>

(* The nonterminal a rule reduces to. *)
yyr1 == <<
  0, 35, 36, 36, 37, 37, 37, 37, 37, 37, 38, 39, 39, 40, 40, 40, 40, 41, 42,
  42, 43, 43, 44, 44, 45, 46, 46, 47, 47, 48, 48, 48, 48, 48, 48, 48, 48,
  49, 50, 50, 51, 51, 52, 53, 53, 54, 54, 55, 55, 55, 55, 56, 56, 56, 56>>

(* The length of the right-hand side of a rule. *)
yyr2 == <<
  0, 2, 0, 3, 1, 1, 1, 1, 1, 1, 6, 1, 3, 3, 3, 3, 6, 3, 6, 9, 3, 5, 1, 3, 3,
  7, 10, 3, 6, 3, 4, 5, 6, 7, 8, 7, 8, 4, 2, 3, 3, 5, 8, 1, 1, 1, 3, 1, 1,
  1, 3, 1, 3, 3, 5>>
=============================================================================
