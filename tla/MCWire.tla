------------------------------- MODULE MCWire -------------------------------
(* Instances of Wire for TLC: a buffer holds three chunks of two bytes. *)
EXTENDS Wire

(* A short row, OK, a row that is cut, and two parts.  A selection that    *)
(* finds nothing has one empty part; one whose last row filled the buffer  *)
(* has an empty part behind it.                                            *)
SomeAnswers == {<<1>>, <<2>>, <<3>>, <<2, 1>>, <<4, 2>>, <<0>>, <<2, 0>>}
=============================================================================
