---------------------------- MODULE ScannerTables ----------------------------
(***************************************************************************)
(* The tables of the scanner generated from aql/aql.l.  The scanner counts *)
(* from 0, a sequence from 1: Cell reads them.                             *)
(***************************************************************************)
EXTENDS Integers, Sequences

Cell(table, i) == table[i + 1]

YY_NUM_RULES == 42
YY_END_OF_BUFFER == 43
YY_STATE_EOF == YY_END_OF_BUFFER + 1

YY_JAM_BASE == 302     \* yy_base of a state that nothing leaves
YY_TEMPLATES == 117    \* the first of the states that only yy_def leads to

(* The rule a state accepts; 0 is none. *)
yy_accept == <<
  0, 0, 0, 43, 42, 41, 40, 42, 35, 25, 26, 42, 32, 31, 36, 33, 34, 19, 24,
  20, 39, 39, 39, 39, 39, 39, 39, 39, 39, 39, 39, 39, 29, 30, 27, 28, 23,
  41, 18, 36, 0, 36, 39, 21, 17, 22, 39, 39, 39, 39, 39, 39, 39, 10, 15,
  39, 39, 39, 39, 39, 39, 37, 16, 39, 39, 39, 39, 39, 9, 39, 39, 39, 39,
  39, 39, 39, 39, 39, 39, 39, 39, 39, 39, 39, 39, 39, 39, 39, 38, 39, 39,
  6, 39, 39, 38, 39, 12, 39, 39, 39, 39, 3, 39, 39, 39, 1, 7, 4, 39, 2, 8,
  5, 39, 13, 11, 14, 0>>

(* The class of a character. *)
yy_ec == <<
  0, 1, 1, 1, 1, 1, 1, 1, 1, 2, 3, 1, 1, 1, 1, 1, 1, 1, 1, 1, 1, 1, 1, 1,
  1, 1, 1, 1, 1, 1, 1, 1, 2, 4, 1, 1, 1, 1, 1, 5, 6, 7, 1, 8, 9, 8, 10, 1,
  11, 11, 11, 11, 11, 11, 11, 11, 11, 11, 12, 13, 14, 15, 16, 1, 1, 17,
  18, 19, 20, 21, 22, 23, 24, 25, 26, 26, 27, 28, 29, 30, 31, 26, 32, 33,
  34, 35, 36, 37, 26, 26, 26, 38, 1, 39, 1, 26, 1, 40, 41, 42, 43, 44, 45,
  46, 47, 48, 26, 26, 49, 50, 51, 52, 53, 26, 54, 55, 56, 57, 58, 59, 26,
  26, 26, 60, 1, 61, 62, 1, 1, 1, 1, 1, 1, 1, 1, 1, 1, 1, 1, 1, 1, 1, 1,
  1, 1, 1, 1, 1, 1, 1, 1, 1, 1, 1, 1, 1, 1, 1, 1, 1, 1, 1, 1, 1, 1, 1, 1,
  1, 1, 1, 1, 1, 1, 1, 1, 1, 1, 1, 1, 1, 1, 1, 1, 1, 1, 1, 1, 1, 1, 1, 1,
  1, 1, 1, 1, 1, 1, 1, 1, 1, 1, 1, 1, 1, 1, 1, 1, 1, 1, 1, 1, 1, 1, 1, 1,
  1, 1, 1, 1, 1, 1, 1, 1, 1, 1, 1, 1, 1, 1, 1, 1, 1, 1, 1, 1, 1, 1, 1, 1,
  1, 1, 1, 1, 1, 1, 1, 1, 1, 1, 1, 1, 1, 1, 1, 1, 1>>

(* The class of a class, for the states from YY_TEMPLATES on. *)
yy_meta == <<
  0, 1, 1, 1, 1, 1, 1, 1, 1, 1, 2, 2, 1, 1, 1, 1, 1, 2, 2, 2, 2, 2, 2, 2,
  2, 2, 2, 2, 2, 2, 2, 2, 2, 2, 2, 2, 2, 2, 1, 1, 2, 2, 2, 2, 2, 2, 2, 2,
  2, 2, 2, 2, 2, 2, 2, 2, 2, 2, 2, 2, 1, 1, 1>>

(* Where the row of a state begins in yy_nxt. *)
yy_base == <<
  0, 0, 0, 298, 302, 295, 302, 281, 302, 302, 302, 284, 302, 302, 53, 302,
  302, 279, 278, 277, 55, 56, 57, 281, 65, 58, 61, 59, 62, 66, 60, 73,
  302, 302, 302, 302, 302, 287, 302, 63, 276, 112, 275, 302, 302, 302, 81,
  97, 89, 102, 108, 110, 94, 120, 272, 118, 124, 115, 121, 126, 122, 269,
  268, 128, 127, 133, 129, 169, 267, 149, 150, 151, 163, 172, 174, 173,
  177, 181, 179, 182, 187, 191, 192, 197, 194, 196, 201, 215, 265, 200,
  217, 264, 205, 229, 262, 214, 260, 227, 232, 237, 220, 259, 242, 250,
  233, 255, 204, 159, 234, 137, 135, 86, 247, 78, 75, 71, 302, 76>>

(* The state to look at when a row says nothing. *)
yy_def == <<
  0, 116, 1, 116, 116, 116, 116, 116, 116, 116, 116, 116, 116, 116, 117,
  116, 116, 116, 116, 116, 117, 117, 117, 117, 117, 117, 117, 117, 117,
  117, 117, 117, 116, 116, 116, 116, 116, 116, 116, 116, 116, 117, 117,
  116, 116, 116, 117, 117, 117, 117, 117, 117, 117, 117, 117, 117, 117,
  117, 117, 117, 117, 116, 117, 117, 117, 117, 117, 117, 117, 117, 117,
  117, 117, 117, 117, 117, 117, 117, 117, 117, 117, 117, 117, 117, 117,
  117, 117, 117, 117, 117, 117, 117, 117, 117, 117, 117, 117, 117, 117,
  117, 117, 117, 117, 117, 117, 117, 117, 117, 117, 117, 117, 117, 117,
  117, 117, 117, 0, 116>>

(* The next state. *)
yy_nxt == <<
  0, 4, 5, 6, 7, 8, 9, 10, 11, 12, 13, 14, 15, 16, 17, 18, 19, 20, 21, 22,
  23, 23, 24, 23, 23, 25, 23, 23, 23, 23, 26, 23, 27, 23, 28, 29, 30, 31,
  32, 33, 20, 21, 22, 23, 23, 24, 23, 23, 25, 23, 23, 23, 26, 23, 27, 23,
  28, 29, 30, 31, 34, 35, 36, 40, 41, 116, 116, 116, 116, 116, 116, 116,
  116, 40, 39, 116, 116, 59, 42, 56, 55, 116, 49, 116, 46, 116, 47, 53,
  116, 48, 50, 116, 51, 54, 57, 52, 116, 58, 60, 116, 59, 62, 56, 55, 116,
  49, 46, 116, 47, 53, 64, 48, 116, 50, 51, 54, 57, 52, 116, 58, 116, 60,
  40, 41, 62, 116, 68, 63, 116, 65, 116, 116, 116, 64, 116, 66, 116, 116,
  116, 116, 67, 75, 73, 116, 79, 116, 71, 116, 68, 63, 74, 65, 72, 69, 70,
  78, 77, 66, 76, 116, 116, 116, 67, 81, 75, 73, 80, 79, 71, 116, 83, 84,
  74, 116, 72, 69, 70, 78, 77, 116, 76, 85, 116, 116, 116, 81, 82, 116,
  80, 116, 89, 116, 116, 83, 84, 88, 90, 116, 86, 87, 92, 116, 116, 85,
  116, 91, 116, 116, 94, 82, 116, 116, 95, 89, 116, 116, 93, 98, 88, 90,
  86, 87, 104, 92, 116, 116, 96, 116, 91, 97, 116, 94, 99, 100, 102, 95,
  101, 116, 93, 116, 98, 103, 116, 116, 116, 104, 106, 116, 96, 110, 105,
  97, 116, 108, 99, 100, 102, 116, 109, 101, 116, 107, 113, 111, 103, 116,
  114, 112, 106, 116, 116, 110, 116, 105, 116, 116, 108, 116, 116, 115,
  61, 109, 116, 107, 113, 116, 111, 61, 114, 37, 112, 116, 45, 44, 43, 39,
  38, 37, 116, 116, 116, 115, 3, 116, 116, 116, 116, 116, 116, 116, 116,
  116, 116, 116, 116, 116, 116, 116, 116, 116, 116, 116, 116, 116, 116,
  116, 116, 116, 116, 116, 116, 116, 116, 116, 116, 116, 116, 116, 116,
  116, 116, 116, 116, 116, 116, 116, 116, 116, 116, 116, 116, 116, 116,
  116, 116, 116, 116, 116, 116, 116, 116, 116, 116, 116, 116>>

(* The state a place in yy_nxt belongs to. *)
yy_chk == <<
  0, 1, 1, 1, 1, 1, 1, 1, 1, 1, 1, 1, 1, 1, 1, 1, 1, 1, 1, 1, 1, 1, 1, 1,
  1, 1, 1, 1, 1, 1, 1, 1, 1, 1, 1, 1, 1, 1, 1, 1, 1, 1, 1, 1, 1, 1, 1, 1,
  1, 1, 1, 1, 1, 1, 1, 1, 1, 1, 1, 1, 1, 1, 1, 14, 14, 20, 21, 22, 25, 27,
  30, 26, 28, 39, 39, 24, 29, 30, 117, 28, 27, 115, 24, 31, 20, 114, 21,
  25, 113, 22, 24, 46, 24, 26, 28, 24, 111, 29, 31, 48, 30, 46, 28, 27,
  52, 24, 20, 47, 21, 25, 48, 22, 49, 24, 24, 26, 28, 24, 50, 29, 51, 31,
  41, 41, 46, 57, 52, 47, 55, 49, 53, 58, 60, 48, 56, 50, 59, 64, 63, 66,
  51, 58, 56, 65, 64, 110, 55, 109, 52, 47, 57, 49, 55, 53, 53, 63, 60,
  50, 59, 69, 70, 71, 51, 66, 58, 56, 65, 64, 55, 107, 69, 70, 57, 72, 55,
  53, 53, 63, 60, 67, 59, 71, 73, 75, 74, 66, 67, 76, 65, 78, 75, 77, 79,
  69, 70, 74, 76, 80, 72, 73, 78, 81, 82, 71, 84, 77, 85, 83, 80, 67, 89,
  86, 81, 75, 106, 92, 79, 84, 74, 76, 72, 73, 92, 78, 95, 87, 82, 90, 77,
  83, 100, 80, 85, 86, 89, 81, 87, 97, 79, 93, 84, 90, 98, 104, 108, 92,
  95, 99, 82, 100, 93, 83, 102, 98, 85, 86, 89, 112, 99, 87, 103, 97, 104,
  102, 90, 105, 108, 103, 95, 101, 96, 100, 94, 93, 91, 88, 98, 68, 62,
  112, 61, 99, 54, 97, 104, 42, 102, 40, 108, 37, 103, 23, 19, 18, 17, 11,
  7, 5, 3, 0, 0, 112, 116, 116, 116, 116, 116, 116, 116, 116, 116, 116,
  116, 116, 116, 116, 116, 116, 116, 116, 116, 116, 116, 116, 116, 116,
  116, 116, 116, 116, 116, 116, 116, 116, 116, 116, 116, 116, 116, 116,
  116, 116, 116, 116, 116, 116, 116, 116, 116, 116, 116, 116, 116, 116,
  116, 116, 116, 116, 116, 116, 116, 116, 116, 116, 116>>
=============================================================================
