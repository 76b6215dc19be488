------------------------------- MODULE Catalog -------------------------------
(***************************************************************************)
(* What the schema of db/pager.c promises its caller: a bag of names.      *)
(* CREATE TABLE puts one in, whether or not it is there already, and DROP  *)
(* TABLE takes one out.                                                    *)
(***************************************************************************)
EXTENDS Naturals

CONSTANT Names

VARIABLE catalog

Init == catalog = [n \in Names |-> 0]

Create(n) == catalog' = [catalog EXCEPT ![n] = @ + 1]

Drop(n) == catalog[n] > 0 /\ catalog' = [catalog EXCEPT ![n] = @ - 1]

Next == \E n \in Names : Create(n) \/ Drop(n)

Spec == Init /\ [][Next]_catalog
=============================================================================
