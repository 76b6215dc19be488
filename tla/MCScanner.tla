------------------------------ MODULE MCScanner ------------------------------
(* An instance of Scanner for TLC: every byte but 0 may be typed. *)
EXTENDS Scanner

AllBytes == 1 .. 255
=============================================================================
