-------------------------------- MODULE MCJoin --------------------------------
(* Instances of Join for TLC: tables of up to four rows in blocks of two. *)
EXTENDS Join

Keys == {1, 2}

BlocksOf(n) == [1 .. n -> Keys]

SomeTables ==
  {<<b>> : b \in BlocksOf(0) \cup BlocksOf(1) \cup BlocksOf(2)} \cup
  {<<b, c>> : b \in BlocksOf(2), c \in BlocksOf(1) \cup BlocksOf(2)}

SomeConds == {{1}, Keys}
===============================================================================
