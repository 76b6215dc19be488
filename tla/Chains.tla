-------------------------------- MODULE Chains --------------------------------
(***************************************************************************)
(* Singly linked lists of blocks whose last block is linked to itself, the *)
(* shape of the schema chain and of the free list in db/pager.c.           *)
(* What is kept for the blocks of a set is added up.                       *)
(***************************************************************************)
EXTENDS Integers, FiniteSets

(* pos numbers the blocks of S in the order the links pass them.           *)
Numbers(pos, link, S, first, last) ==
  /\ pos[first] = 1 /\ pos[last] = Cardinality(S)
  /\ \A b, c \in S : pos[b] = pos[c] => b = c
  /\ \A b \in S \ {last} : link[b] \in S /\ pos[link[b]] = pos[b] + 1

(* The links lead from `first' to `last' through every block of S once.    *)
Chain(link, S, first, last) ==
  /\ first \in S /\ last \in S
  /\ link[last] = last
  /\ \E pos \in [S -> 1 .. Cardinality(S)] : Numbers(pos, link, S, first, last)

(* The sum of f over S, one element after the other.                       *)
Some(T) == CHOOSE x \in T : TRUE

Total(f, S) ==
  LET sum[T \in SUBSET S] == IF T = {} THEN 0 ELSE f[Some(T)] + sum[T \ {Some(T)}]
  IN  sum[S]
=============================================================================
