----------------------------- MODULE RowsProofs -----------------------------
(***************************************************************************)
(* The rows of a table, proved for any set of values, any size of a page   *)
(* and any bounds: what Rows checks on a small table holds of every one,   *)
(* and Rows implements RowStore.                                           *)
(*                                                                         *)
(* The invariant, Inv, says that there is a sequence c of the blocks of    *)
(* the table and a sequence f of the free ones (Shape), and for the call   *)
(* in progress how far it is and what it has done so far (Calls): a select *)
(* has the rows named up to its place, an update has changed those and a   *)
(* delete has marked those of one block, or has nothing left to delete.    *)
(* The rows are counted by value and by block (Weights); steps that move   *)
(* rows between blocks keep the totals, so that the bag of the table can   *)
(* be compared with the store's.                                           *)
(***************************************************************************)
EXTENDS Rows, ChainProofs, SequenceTheorems

(* The rows chosen from a sequence, one after the other.                   *)
Chooses(f, n, rows, S) ==
  f = [m \in 0 .. n |->
        IF m = 0 THEN <<>>
        ELSE IF rows[m] \in S THEN Append(f[m - 1], rows[m]) ELSE f[m - 1]]

(* Only one function of 0 .. n chooses rows like that.                     *)
LEMMA ChoosesSame ==
  ASSUME NEW rows, NEW S, NEW n \in Nat, NEW m \in Nat, m <= n, NEW f, NEW g,
         Chooses(f, n, rows, S), Chooses(g, m, rows, S)
  PROVE  \A k \in 0 .. m : g[k] = f[k]
<1> DEFINE N == {k \in 0 .. m : g[k] # f[k]}
<1>1. SUFFICES ASSUME N # {} PROVE FALSE
  OBVIOUS
<1>2. PICK k \in N : \A y \in N : k <= y
  <2>1. N \in SUBSET Nat
    OBVIOUS
  <2> HIDE DEF N
  <2> QED BY <1>1, <2>1, Least
<1>3. /\ f[k] = IF k = 0 THEN <<>>
                ELSE IF rows[k] \in S THEN Append(f[k - 1], rows[k]) ELSE f[k - 1]
      /\ g[k] = IF k = 0 THEN <<>>
                ELSE IF rows[k] \in S THEN Append(g[k - 1], rows[k]) ELSE g[k - 1]
  <2>1. k \in 0 .. m /\ k \in 0 .. n
    OBVIOUS
  <2> QED BY <2>1 DEF Chooses
<1>4. k # 0
  BY <1>3
<1>5. k - 1 \in 0 .. m /\ ~(k <= k - 1)
  BY <1>4
<1>6. g[k - 1] = f[k - 1]
  BY <1>2, <1>5
<1> QED BY <1>3, <1>6

(* It can be continued by one row.                                         *)
LEMMA ChoosesMore ==
  ASSUME NEW rows, NEW S, NEW n \in Nat, NEW f, Chooses(f, n, rows, S)
  PROVE  \E g : Chooses(g, n + 1, rows, S)
<1> DEFINE Next1(m) == IF m = 0 THEN <<>>
                       ELSE IF rows[m] \in S THEN Append(f[m - 1], rows[m]) ELSE f[m - 1]
           g == [m \in 0 .. n + 1 |-> Next1(m)]
<1>1. \A m \in 0 .. n : f[m] = Next1(m)
  BY DEF Chooses
<1>2. ASSUME NEW m \in 0 .. n + 1
      PROVE  g[m] = IF m = 0 THEN <<>>
                    ELSE IF rows[m] \in S THEN Append(g[m - 1], rows[m]) ELSE g[m - 1]
  <2>1. CASE m = 0
    BY <2>1
  <2>2. CASE m # 0
    <3>1. m - 1 \in 0 .. n /\ m - 1 \in 0 .. n + 1
      BY <2>2
    <3>2. g[m - 1] = f[m - 1]
      BY <1>1, <3>1
    <3> QED BY <2>2, <3>2
  <2> QED BY <2>1, <2>2
<1>3. g = [m \in 0 .. n + 1 |-> g[m]]
  OBVIOUS
<1> HIDE DEF g
<1>4. Chooses(g, n + 1, rows, S)
  BY <1>2, <1>3 DEF Chooses
<1> QED BY <1>4

(* It exists for every length.                                             *)
LEMMA ChoosesExists ==
  ASSUME NEW rows, NEW S
  PROVE  \A n \in Nat : \E f : Chooses(f, n, rows, S)
<1> DEFINE N == {n \in Nat : ~ \E f : Chooses(f, n, rows, S)}
<1>1. SUFFICES ASSUME N # {} PROVE FALSE
  OBVIOUS
<1>2. PICK n \in N : \A y \in N : n <= y
  <2>1. N \in SUBSET Nat
    OBVIOUS
  <2> HIDE DEF N
  <2> QED BY <1>1, <2>1, Least
<1>3. n # 0
  <2>1. Chooses([m \in 0 .. 0 |-> <<>>], 0, rows, S)
    BY DEF Chooses
  <2> QED BY <2>1
<1>4. n - 1 \in Nat /\ ~(n <= n - 1) /\ n - 1 + 1 = n
  BY <1>3
<1>5. PICK f : Chooses(f, n - 1, rows, S)
  BY <1>2, <1>4
<1>6. \E g : Chooses(g, n - 1 + 1, rows, S)
  BY <1>4, <1>5, ChoosesMore
<1> QED BY <1>2, <1>4, <1>6

(* The model's Chosen is that function's last value.                       *)
LEMMA ChosenIs ==
  ASSUME NEW rows, NEW S, NEW n \in Nat
  PROVE  \E f : Chooses(f, n, rows, S) /\ Chosen(rows, n, S) = f[n]
<1> DEFINE f == CHOOSE f : Chooses(f, n, rows, S)
<1>1. Chooses(f, n, rows, S)
  BY ChoosesExists
<1>2. Chosen(rows, n, S) = f[n]
  BY DEF Chosen, Chooses
<1> HIDE DEF f
<1> QED BY <1>1, <1>2

(* Of no rows none is chosen.                                              *)
LEMMA ChosenNone ==
  ASSUME NEW rows, NEW S
  PROVE  Chosen(rows, 0, S) = <<>>
<1>1. PICK f : Chooses(f, 0, rows, S) /\ Chosen(rows, 0, S) = f[0]
  BY ChosenIs
<1> QED BY <1>1 DEF Chooses

(* One more row is chosen if it is in S.                                   *)
LEMMA ChosenNext ==
  ASSUME NEW rows, NEW S, NEW n \in Nat
  PROVE  Chosen(rows, n + 1, S) =
           IF rows[n + 1] \in S THEN Append(Chosen(rows, n, S), rows[n + 1])
           ELSE Chosen(rows, n, S)
<1>1. PICK f : Chooses(f, n, rows, S) /\ Chosen(rows, n, S) = f[n]
  BY ChosenIs
<1>2. PICK g : Chooses(g, n + 1, rows, S) /\ Chosen(rows, n + 1, S) = g[n + 1]
  BY ChosenIs
<1>3. PICK k : k = n + 1
  OBVIOUS
<1>4. k \in Nat /\ k # 0 /\ k \in 0 .. k /\ k - 1 = n /\ n <= k /\ n \in 0 .. n
  BY <1>3
<1>5. f[n] = g[n]
  BY <1>1, <1>2, <1>3, <1>4, ChoosesSame
<1>6. g[k] = IF rows[k] \in S THEN Append(g[k - 1], rows[k]) ELSE g[k - 1]
  BY <1>2, <1>3, <1>4 DEF Chooses
<1> QED BY <1>1, <1>2, <1>3, <1>4, <1>5, <1>6
-----------------------------------------------------------------------------
(* How many of the first n entries of f are in P.                          *)
Count(f, n, P) == Cardinality({j \in 1 .. n : f[j] \in P})

(* A count lies between 0 and n.                                           *)
LEMMA CountNat ==
  ASSUME NEW n \in Nat, NEW f, NEW P
  PROVE  /\ IsFiniteSet({j \in 1 .. n : f[j] \in P})
         /\ Count(f, n, P) \in Nat /\ Count(f, n, P) <= n
<1>1. IsFiniteSet(1 .. n) /\ Cardinality(1 .. n) = n
  BY FS_Interval
<1>2. {j \in 1 .. n : f[j] \in P} \in SUBSET (1 .. n)
  OBVIOUS
<1> QED BY <1>1, <1>2, FS_Subset, FS_CardinalityType DEF Count

(* It depends on the first n entries only.                                 *)
LEMMA CountSame ==
  ASSUME NEW n \in Nat, NEW f, NEW g, NEW P, NEW Q,
         \A j \in 1 .. n : f[j] \in P <=> g[j] \in Q
  PROVE  Count(f, n, P) = Count(g, n, Q)
<1>1. {j \in 1 .. n : f[j] \in P} = {j \in 1 .. n : g[j] \in Q}
  OBVIOUS
<1> QED BY <1>1 DEF Count

(* One more entry counts if it is in P.                                    *)
LEMMA CountNext ==
  ASSUME NEW n \in Nat, NEW f, NEW P
  PROVE  Count(f, n + 1, P) = Count(f, n, P) + (IF f[n + 1] \in P THEN 1 ELSE 0)
<1> DEFINE A == {j \in 1 .. n : f[j] \in P}
           B == {j \in 1 .. n + 1 : f[j] \in P}
<1>1. IsFiniteSet(A) /\ Cardinality(A) \in Nat
  BY CountNat DEF Count
<1>2. CASE f[n + 1] \in P
  <2>1. B = A \cup {n + 1} /\ n + 1 \notin A
    BY <1>2
  <2> HIDE DEF A, B
  <2>2. Cardinality(B) = Cardinality(A) + 1
    BY <1>1, <2>1, FS_AddElement
  <2> QED BY <1>2, <2>2 DEF Count, A, B
<1>3. CASE f[n + 1] \notin P
  <2>1. B = A
    BY <1>3
  <2> QED BY <1>1, <1>3, <2>1 DEF Count
<1> QED BY <1>2, <1>3

(* Of no entries none counts.                                              *)
LEMMA CountNone ==
  ASSUME NEW n \in Nat, NEW f, NEW P
  PROVE  /\ Count(f, n, P) = 0 <=> \A j \in 1 .. n : f[j] \notin P
         /\ Count(f, 0, P) = 0
<1>1. IsFiniteSet({j \in 1 .. n : f[j] \in P})
  BY CountNat
<1>2. Count(f, n, P) = 0 <=> {j \in 1 .. n : f[j] \in P} = {}
  BY <1>1, FS_EmptySet DEF Count
<1>3. {j \in 1 .. 0 : f[j] \in P} = {}
  OBVIOUS
<1> QED BY <1>2, <1>3, FS_EmptySet DEF Count

(* All count if all are in P.                                              *)
LEMMA CountAll ==
  ASSUME NEW n \in Nat, NEW f, NEW P, \A j \in 1 .. n : f[j] \in P
  PROVE  Count(f, n, P) = n
<1>1. {j \in 1 .. n : f[j] \in P} = 1 .. n
  OBVIOUS
<1>2. Cardinality(1 .. n) = n
  BY FS_Interval
<1>3. Count(f, n, P) = Cardinality(1 .. n)
  BY <1>1 DEF Count
<1> QED BY <1>2, <1>3

(* The entries of g and then those of h.                                   *)
LEMMA CountJoin ==
  ASSUME NEW m \in Nat, NEW n \in Nat, NEW f, NEW g, NEW h, NEW P,
         \A j \in 1 .. m : f[j] \in P <=> g[j] \in P,
         \A j \in 1 .. n : f[m + j] \in P <=> h[j] \in P
  PROVE  Count(f, m + n, P) = Count(g, m, P) + Count(h, n, P)
<1> DEFINE Bad(k) == Count(f, m + k, P) # Count(g, m, P) + Count(h, k, P)
           N == {k \in 0 .. n : Bad(k)}
<1>1. SUFFICES ASSUME N # {} PROVE FALSE
  OBVIOUS
<1>2. PICK k \in N : \A y \in N : k <= y
  <2>1. N \in SUBSET Nat
    OBVIOUS
  <2> HIDE DEF N
  <2> QED BY <1>1, <2>1, Least
<1>3. Count(f, m, P) = Count(g, m, P) /\ Count(g, m, P) \in Nat
  <2>1. Count(f, m, P) = Count(g, m, P)
    BY CountSame
  <2> QED BY <2>1, CountNat
<1>4. k # 0
  <2>1. Count(h, 0, P) = 0 /\ m + 0 = m
    BY CountNone
  <2> QED BY <1>3, <2>1
<1>5. PICK l \in Nat : k = l + 1
  <2>1. k - 1 \in Nat /\ k = (k - 1) + 1
    BY <1>4
  <2> QED BY <2>1
<1>6. ~(k <= l) /\ l \in 0 .. n /\ k \in 1 .. n /\ m + l \in Nat /\ m + k = (m + l) + 1
  BY <1>5
<1>7. Count(f, m + l, P) = Count(g, m, P) + Count(h, l, P)
  BY <1>2, <1>6
<1>8. Count(f, (m + l) + 1, P) = Count(f, m + l, P) + (IF f[(m + l) + 1] \in P THEN 1 ELSE 0)
  BY <1>6, CountNext
<1>9. Count(h, l + 1, P) = Count(h, l, P) + (IF h[l + 1] \in P THEN 1 ELSE 0)
  BY CountNext
<1>10. f[(m + l) + 1] \in P <=> h[l + 1] \in P
  BY <1>5, <1>6
<1>11. Count(h, l, P) \in Nat
  BY CountNat
<1>12. Count(f, m + k, P) = Count(g, m, P) + Count(h, k, P)
  BY <1>3, <1>5, <1>6, <1>7, <1>8, <1>9, <1>10, <1>11
<1> QED BY <1>12
-----------------------------------------------------------------------------
(* FlattenSeq joins its sequences.                                         *)
LEMMA FlattenJoins ==
  ASSUME NEW V, NEW n \in Nat \ {0}, NEW seqs, DOMAIN seqs = 1 .. n, Len(seqs) = n,
         \A i \in 1 .. n : seqs[i] \in Seq(V)
  PROVE  FlattenSeq(seqs) \in Seq(V) /\ \E at : Joins(FlattenSeq(seqs), at, n, seqs)
<1> DEFINE fl == CHOOSE f : Flattens(f, n, seqs)
<1>1. Flattens(fl, n, seqs)
  BY FlattensExists
<1>2. FlattenSeq(seqs) = fl[n]
  BY DEF FlattenSeq, Flattens
<1> HIDE DEF fl
<1> QED BY <1>1, <1>2, FlattensJoins
-----------------------------------------------------------------------------
(* Places that do not fall stay apart.                                     *)
LEMMA PlacesGrow ==
  ASSUME NEW n \in Nat, NEW at \in [1 .. n + 1 -> Nat],
         \A i \in 1 .. n : at[i] <= at[i + 1]
  PROVE  \A i \in 1 .. n + 1 : \A j \in i .. n + 1 : at[i] <= at[j]
<1> SUFFICES ASSUME NEW i \in 1 .. n + 1 PROVE \A j \in i .. n + 1 : at[i] <= at[j]
  OBVIOUS
<1> DEFINE N == {k \in i .. n + 1 : ~(at[i] <= at[k])}
<1>1. SUFFICES ASSUME N # {} PROVE FALSE
  OBVIOUS
<1>2. PICK k \in N : \A y \in N : k <= y
  <2>1. N \in SUBSET Nat
    OBVIOUS
  <2> HIDE DEF N
  <2> QED BY <1>1, <2>1, Least
<1>3. at[i] \in Nat /\ at[k] \in Nat /\ k \in i .. n + 1 /\ k # i
  OBVIOUS
<1>4. PICK l \in 1 .. n : k = l + 1 /\ l \in i .. n + 1
  <2>1. k - 1 \in 1 .. n /\ k = k - 1 + 1 /\ k - 1 \in i .. n + 1
    BY <1>3
  <2> QED BY <2>1
<1>5. at[i] <= at[l]
  <2>1. ~(k <= l)
    BY <1>4
  <2> QED BY <1>2, <1>4, <2>1
<1>6. at[l] <= at[l + 1] /\ at[l] \in Nat
  <2>1. l \in 1 .. n + 1
    BY <1>4
  <2> QED BY <1>4, <2>1
<1> QED BY <1>3, <1>4, <1>5, <1>6

(* The rows of blocks used up to their offsets, in order.                  *)
Texts(blocks, used, page) ==
  [i \in DOMAIN blocks |-> [s \in 1 .. used[blocks[i]] |-> page[blocks[i]][s].v]]

Lays(rows, at, blocks, used, page) ==
  /\ rows \in Seq(Values)
  /\ at \in [1 .. Len(blocks) + 1 -> Nat] /\ at[1] = 0
  /\ \A i \in 1 .. Len(blocks) : at[i + 1] = at[i] + used[blocks[i]]
  /\ Len(rows) = at[Len(blocks) + 1]
  /\ \A i \in 1 .. Len(blocks) : \A s \in 1 .. used[blocks[i]] :
       rows[at[i] + s] = page[blocks[i]][s].v

(* What lies in front of the offsets is rows.                              *)
Filled(blocks, used, page) ==
  \A i \in 1 .. Len(blocks) : \A s \in 1 .. used[blocks[i]] :
    page[blocks[i]][s].v \in Values /\ page[blocks[i]][s].valid = TRUE

(* The rows of the blocks of a table do lie one block after the other.     *)
LEMMA LaysExists ==
  ASSUME NEW blocks \in Seq(Blocks), Len(blocks) # 0, NEW used \in [Blocks -> 0 .. Slots],
         NEW page, Filled(blocks, used, page)
  PROVE  \E at : Lays(FlattenSeq(Texts(blocks, used, page)), at, blocks, used, page)
<1>1. PICK n \in Nat \ {0} : n = Len(blocks)
  OBVIOUS
<1>2. PICK seqs : seqs = Texts(blocks, used, page)
  OBVIOUS
<1>3. DOMAIN blocks = 1 .. n /\ \A i \in 1 .. n : used[blocks[i]] \in Nat
  BY <1>1, RowsAssumption
<1>4. DOMAIN seqs = 1 .. n
  BY <1>2, <1>3 DEF Texts
<1>5. ASSUME NEW i \in 1 .. n
      PROVE  /\ seqs[i] \in Seq(Values) /\ Len(seqs[i]) = used[blocks[i]]
             /\ \A s \in 1 .. used[blocks[i]] : seqs[i][s] = page[blocks[i]][s].v
  <2>1. PICK m \in Nat : m = used[blocks[i]]
    BY <1>3
  <2>2. seqs[i] = [s \in 1 .. m |-> page[blocks[i]][s].v]
    BY <1>2, <1>3, <2>1 DEF Texts
  <2>3. \A s \in 1 .. m : page[blocks[i]][s].v \in Values
    BY <1>1, <2>1 DEF Filled
  <2>4. seqs[i] \in Seq(Values) /\ Len(seqs[i]) = m
    BY <2>2, <2>3
  <2> QED BY <2>1, <2>2, <2>4
<1>6. Len(seqs) = n
  <2>1. seqs = [i \in 1 .. n |-> seqs[i]] /\ \A i \in 1 .. n : seqs[i] \in Seq(Values)
    BY <1>2, <1>3, <1>5 DEF Texts
  <2>2. [i \in 1 .. n |-> seqs[i]] \in Seq(Seq(Values)) /\ Len([i \in 1 .. n |-> seqs[i]]) = n
    BY <2>1
  <2> QED BY <2>1, <2>2
<1>7. /\ FlattenSeq(seqs) \in Seq(Values)
      /\ \E at : Joins(FlattenSeq(seqs), at, n, seqs)
  BY <1>4, <1>5, <1>6, FlattenJoins
<1>8. PICK at : Joins(FlattenSeq(seqs), at, n, seqs)
  BY <1>7
<1>9. Lays(FlattenSeq(seqs), at, blocks, used, page)
  BY <1>1, <1>5, <1>7, <1>8 DEF Joins, Lays
<1> QED BY <1>2, <1>9

(* How many rows of a block hold a value of P, for every block.            *)
Column(page) == [s \in 1 .. Slots |-> page[s].v]
Weights(used, page, P) == [b \in Blocks |-> Count(Column(page[b]), used[b], P)]

(* Weights are numbers, none above the offset of its block.                *)
LEMMA WeightsNat ==
  ASSUME NEW used \in [Blocks -> 0 .. Slots], NEW page, NEW P, NEW b \in Blocks
  PROVE  /\ Weights(used, page, P)[b] \in Nat
         /\ Weights(used, page, P)[b] = Count(Column(page[b]), used[b], P)
<1>1. used[b] \in Nat
  BY RowsAssumption
<1>2. Count(Column(page[b]), used[b], P) \in Nat
  BY <1>1, CountNat
<1> QED BY <1>2 DEF Weights

(* The first d indices of a list name d blocks, and the next one another.  *)
LEMMA FirstOnes ==
  ASSUME NEW blocks \in Seq(Blocks), NEW k \in Nat, k + 1 <= Len(blocks),
         \A i, j \in 1 .. Len(blocks) : blocks[i] = blocks[j] => i = j
  PROVE  /\ {blocks[i] : i \in 1 .. k + 1} = {blocks[i] : i \in 1 .. k} \cup {blocks[k + 1]}
         /\ blocks[k + 1] \notin {blocks[i] : i \in 1 .. k}
<1>1. \A i \in 1 .. k : i \in 1 .. Len(blocks) /\ i \in 1 .. k + 1
  OBVIOUS
<1>2. k + 1 \in 1 .. Len(blocks) /\ \A i \in 1 .. k : i # k + 1
  OBVIOUS
<1>3. \A i \in 1 .. k + 1 : i \in 1 .. k \/ i = k + 1
  OBVIOUS
<1>4. blocks[k + 1] \notin {blocks[i] : i \in 1 .. k}
  BY <1>1, <1>2
<1>5. PICK m : m = k + 1
  OBVIOUS
<1>6. \A i \in 1 .. m : i \in 1 .. k \/ i = m
  BY <1>3, <1>5
<1>7. m \in 1 .. m /\ \A i \in 1 .. k : i \in 1 .. m
  BY <1>5
<1>8. {blocks[i] : i \in 1 .. m} = {blocks[i] : i \in 1 .. k} \cup {blocks[m]}
  BY <1>6, <1>7
<1> QED BY <1>4, <1>5, <1>8

(* The rows of a table are those of its blocks, counted together.          *)
LEMMA LaysCount ==
  ASSUME NEW blocks \in Seq(Blocks), NEW used \in [Blocks -> 0 .. Slots], NEW page,
         \A i, j \in 1 .. Len(blocks) : blocks[i] = blocks[j] => i = j,
         NEW rows, NEW at, Lays(rows, at, blocks, used, page), NEW P
  PROVE  Count(rows, Len(rows), P) = Total(Weights(used, page, P), Range(blocks))
<1> DEFINE n == Len(blocks)
           S(k) == {blocks[i] : i \in 1 .. k}
           W == Weights(used, page, P)
           Bad(k) == ~(Count(rows, at[k + 1], P) = Total(W, S(k)) /\ IsFiniteSet(S(k)))
           N == {k \in 0 .. n : Bad(k)}
<1>0. n \in Nat /\ Range(blocks) = S(n)
  BY DEF Range
<1>1. N = {}
  <2>1. SUFFICES ASSUME N # {} PROVE FALSE
    OBVIOUS
  <2>2. PICK k \in N : \A y \in N : k <= y
    <3>1. N \in SUBSET Nat
      OBVIOUS
    <3> HIDE DEF N
    <3> QED BY <2>1, <3>1, Least
  <2>3. k # 0
    <3>1. S(0) = {} /\ IsFiniteSet({}) /\ at[0 + 1] = 0
      BY FS_EmptySet DEF Lays
    <3>2. Count(rows, 0, P) = 0
      BY CountNone
    <3>3. Total(W, {}) = 0
      BY TotalNone
    <3> HIDE DEF W
    <3> QED BY <3>1, <3>2, <3>3
  <2>4. PICK l \in Nat : k = l + 1
    <3>1. k - 1 \in Nat /\ k = k - 1 + 1
      BY <2>3
    <3> QED BY <3>1
  <2>5. l \in 0 .. n /\ ~(k <= l) /\ l + 1 <= n /\ l + 1 \in 1 .. n
    BY <2>4
  <2>6. Count(rows, at[l + 1], P) = Total(W, S(l)) /\ IsFiniteSet(S(l))
    BY <2>2, <2>5
  <2>7. PICK b : b = blocks[l + 1]
    OBVIOUS
  <2>8. S(l + 1) = S(l) \cup {b} /\ b \notin S(l)
    BY <2>5, <2>7, FirstOnes
  <2>9. IsFiniteSet(S(l + 1))
    <3> HIDE DEF S
    <3> QED BY <2>6, <2>8, FS_AddElement
  <2>10. b \in Blocks /\ used[b] \in 0 .. Slots /\ used[b] \in Nat /\ S(l) \subseteq Blocks
    <3>1. blocks[l + 1] \in Blocks /\ \A i \in 1 .. l : blocks[i] \in Blocks
      BY <2>5
    <3> QED BY <2>7, <3>1, RowsAssumption
  <2>11. W[b] = Count(Column(page[b]), used[b], P) /\ \A c \in S(l) \cup {b} : W[c] \in Nat
    BY <2>10, WeightsNat
  <2>12. Total(W, S(l) \cup {b}) = W[b] + Total(W, S(l)) /\ Total(W, S(l)) \in Nat
    <3> HIDE DEF S, W
    <3> QED BY <2>6, <2>8, <2>11, TotalAdd
  <2>13. at[k] \in Nat /\ at[k + 1] = at[k] + used[b]
    <3>1. k \in 1 .. n /\ k \in 1 .. n + 1 /\ b = blocks[k]
      BY <2>4, <2>5, <2>7
    <3> QED BY <3>1 DEF Lays
  <2>14. PICK m \in Nat : m = at[l + 1] /\ m = at[k]
    BY <2>4, <2>13
  <2>15. \A j \in 1 .. used[b] : rows[m + j] = Column(page[b])[j]
    <3>1. \A j \in 1 .. used[b] : rows[m + j] = page[b][j].v
      BY <2>5, <2>7, <2>14 DEF Lays
    <3>2. \A j \in 1 .. used[b] : j \in 1 .. Slots
      BY <2>10, RowsAssumption
    <3> QED BY <3>1, <3>2 DEF Column
  <2>16. Count(rows, m + used[b], P) = Count(rows, m, P) + Count(Column(page[b]), used[b], P)
    <3>1. PICK h : h = Column(page[b])
      OBVIOUS
    <3>2. \A j \in 1 .. used[b] : rows[m + j] \in P <=> h[j] \in P
      BY <2>15, <3>1
    <3>3. \A j \in 1 .. m : rows[j] \in P <=> rows[j] \in P
      OBVIOUS
    <3>4. Count(rows, m + used[b], P) = Count(rows, m, P) + Count(h, used[b], P)
      BY <2>10, <3>2, <3>3, CountJoin
    <3> QED BY <3>1, <3>4
  <2>17. W[b] \in Nat
    BY <2>11
  <2>18. Count(rows, at[k + 1], P) = Total(W, S(k))
    <3>1. Count(rows, at[k + 1], P) = Total(W, S(l)) + W[b]
      BY <2>6, <2>11, <2>13, <2>14, <2>16
    <3>2. S(k) = S(l) \cup {b}
      BY <2>4, <2>8
    <3> HIDE DEF W, S
    <3> QED BY <3>1, <3>2, <2>12, <2>17
  <2> HIDE DEF W, S
  <2> QED BY <2>4, <2>9, <2>18
<1>2. Count(rows, at[n + 1], P) = Total(W, S(n))
  <2>1. n \in 0 .. n
    BY <1>0
  <2> HIDE DEF W, S, n
  <2> QED BY <1>1, <2>1
<1> QED BY <1>0, <1>2 DEF Lays
-----------------------------------------------------------------------------
(* The links lead from `first' to `last' through the blocks of list.       *)
Listed(list, first, last, link) ==
  /\ list \in Seq(Blocks) /\ Len(list) # 0
  /\ \A i, j \in 1 .. Len(list) : list[i] = list[j] => i = j
  /\ list[1] = first /\ list[Len(list)] = last
  /\ \A i \in 1 .. Len(list) - 1 : link[list[i]] = list[i + 1]

(* A list without repetition is no longer than the file.                   *)
LEMMA ListedFits ==
  ASSUME NEW list, NEW first, NEW last, NEW link, Listed(list, first, last, link)
  PROVE  Len(list) \in Nat /\ Len(list) <= MaxBlocks
<1>1. PICK n \in Nat : n = Len(list)
  BY DEF Listed
<1> DEFINE f == [i \in 1 .. n |-> list[i]]
<1>2. f \in [1 .. n -> Blocks]
  BY <1>1 DEF Listed
<1>3. \A i, j \in 1 .. n : f[i] = f[j] => i = j
  BY <1>1 DEF Listed
<1> HIDE DEF f
<1>4. IsFiniteSet(Blocks) /\ Cardinality(Blocks) = MaxBlocks /\ IsFiniteSet(1 .. n) /\ Cardinality(1 .. n) = n
  BY FS_Interval, RowsAssumption DEF Blocks
<1>5. ~(MaxBlocks < n)
  BY <1>2, <1>3, <1>4, FS_PigeonHole
<1> QED BY <1>1, <1>5, RowsAssumption

(* Its blocks are the ones reached from its first.                         *)
LEMMA ListedFollowed ==
  ASSUME NEW list, NEW first, NEW last, NEW link, Listed(list, first, last, link),
         NEW w, Follows(w, MaxBlocks, first, link)
  PROVE  \A i \in 1 .. Len(list) : w[i - 1] = list[i]
<1>1. PICK n \in Nat : n = Len(list) /\ n <= MaxBlocks
  BY ListedFits
<1>2. \A k \in 0 .. MaxBlocks : w[k] = IF k = 0 THEN first ELSE link[w[k - 1]]
  BY DEF Follows
<1> DEFINE N == {k \in 1 .. n : w[k - 1] # list[k]}
<1>3. SUFFICES ASSUME N # {} PROVE FALSE
  BY <1>1
<1>4. PICK k \in N : \A y \in N : k <= y
  <2>1. N \in SUBSET Nat
    OBVIOUS
  <2> HIDE DEF N
  <2> QED BY <1>3, <2>1, Least
<1>5. k # 1
  <2>1. w[0] = first /\ list[1] = first /\ 1 - 1 = 0
    BY <1>2, RowsAssumption DEF Listed
  <2> QED BY <2>1
<1>6. PICK l \in 1 .. n - 1 : k = l + 1
  <2>1. k - 1 \in 1 .. n - 1 /\ k = (k - 1) + 1
    BY <1>1, <1>5
  <2> QED BY <2>1
<1>7. w[l - 1] = list[l]
  <2>1. l \in 1 .. n /\ ~(k <= l)
    BY <1>1, <1>6
  <2> QED BY <1>4, <2>1
<1>8. w[l] = link[w[l - 1]]
  <2>1. l \in 0 .. MaxBlocks /\ l # 0
    BY <1>1, <1>6, RowsAssumption
  <2> QED BY <1>2, <2>1
<1>9. link[list[l]] = list[l + 1]
  BY <1>1, <1>6 DEF Listed
<1>10. k - 1 = l
  BY <1>6
<1> QED BY <1>6, <1>7, <1>8, <1>9, <1>10

(* The model's walk of a table reads the list.                             *)
LEMMA ListedRead ==
  ASSUME NEW list, NEW first, NEW last, NEW link, Listed(list, first, last, link),
         NEW w, Follows(w, MaxBlocks, first, link),
         NEW D \in SUBSET (1 .. MaxBlocks + 1),
         \A i \in 1 .. MaxBlocks + 1 : i \in D <=> \A n \in 0 .. i - 2 : w[n] # last
  PROVE  D = 1 .. Len(list) /\ [i \in D |-> w[i - 1]] = list
<1>1. PICK n \in Nat : n = Len(list) /\ n <= MaxBlocks /\ n # 0
  BY ListedFits DEF Listed
<1>2. \A i \in 1 .. n : w[i - 1] = list[i]
  BY <1>1, ListedFollowed
<1>3. \A i \in 1 .. n : list[i] = last => i = n
  BY <1>1 DEF Listed
<1>4. list[n] = last
  BY <1>1 DEF Listed
<1>5. ASSUME NEW i \in 1 .. MaxBlocks + 1 PROVE i \in D <=> i <= n
  <2>1. ASSUME i <= n, NEW m \in 0 .. i - 2 PROVE w[m] # last
    <3>1. m + 1 \in 1 .. n /\ m + 1 # n /\ m + 1 - 1 = m
      BY <1>1, <2>1
    <3>2. PICK j \in 1 .. n : j = m + 1 /\ j # n /\ j - 1 = m
      BY <3>1
    <3> QED BY <1>2, <1>3, <3>2
  <2>2. ASSUME ~(i <= n) PROVE \E m \in 0 .. i - 2 : w[m] = last
    <3>1. n - 1 \in 0 .. i - 2 /\ n \in 1 .. n
      BY <1>1, <2>2, RowsAssumption
    <3>2. w[n - 1] = last
      BY <1>2, <1>4, <3>1
    <3> QED BY <3>1, <3>2
  <2> QED BY <2>1, <2>2
<1>6. D = 1 .. n
  <2>1. D \subseteq 1 .. MaxBlocks + 1
    OBVIOUS
  <2>2. \A i \in 1 .. n : i \in 1 .. MaxBlocks + 1 /\ i <= n
    BY <1>1, RowsAssumption
  <2>3. \A i \in 1 .. MaxBlocks + 1 : i <= n => i \in 1 .. n
    BY <1>1, RowsAssumption
  <2> QED BY <1>5, <2>1, <2>2, <2>3
<1>7. list = [i \in 1 .. n |-> list[i]]
  BY <1>1 DEF Listed
<1>8. [i \in D |-> w[i - 1]] = [i \in 1 .. n |-> list[i]]
  BY <1>2, <1>6
<1> QED BY <1>1, <1>6, <1>7, <1>8

(* The walk of a free list, which ends in itself, meets the blocks of the  *)
(* list.                                                                   *)
LEMMA ListedWalked ==
  ASSUME NEW list, NEW first, NEW last, NEW link, Listed(list, first, last, link),
         link[last] = last,
         NEW w, Follows(w, MaxBlocks, first, link)
  PROVE  {w[n] : n \in 0 .. MaxBlocks} = Range(list)
<1>1. PICK n \in Nat : n = Len(list) /\ n <= MaxBlocks /\ n # 0
  BY ListedFits DEF Listed
<1>2. \A i \in 1 .. n : w[i - 1] = list[i]
  BY <1>1, ListedFollowed
<1>3. \A k \in 0 .. MaxBlocks : w[k] = IF k = 0 THEN first ELSE link[w[k - 1]]
  BY DEF Follows
<1>4. list[n] = last /\ DOMAIN list = 1 .. n
  BY <1>1 DEF Listed
<1> DEFINE N == {k \in Nat : k \in 0 .. MaxBlocks /\ k >= n /\ w[k] # last}
<1>5. N = {}
  <2>1. SUFFICES ASSUME N # {} PROVE FALSE
    OBVIOUS
  <2>2. PICK k \in N : \A y \in N : k <= y
    <3>1. N \in SUBSET Nat
      OBVIOUS
    <3> HIDE DEF N
    <3> QED BY <2>1, <3>1, Least
  <2>3. k - 1 \in Nat /\ k - 1 \in 0 .. MaxBlocks /\ ~(k <= k - 1) /\ k # 0
    BY <1>1, RowsAssumption
  <2>4. w[k - 1] = last
    <3>1. CASE k = n
      <4>1. n \in 1 .. n
        BY <1>1
      <4> QED BY <1>2, <1>4, <3>1, <4>1
    <3>2. CASE k # n
      <4>1. k - 1 >= n
        BY <1>1, <3>2
      <4> QED BY <2>2, <2>3, <4>1
    <3> QED BY <3>1, <3>2
  <2>5. w[k] = link[w[k - 1]]
    BY <1>3, <2>3
  <2> QED BY <2>4, <2>5
<1>6. ASSUME NEW k \in 0 .. MaxBlocks PROVE \E i \in 1 .. n : w[k] = list[i]
  <2>1. CASE k >= n
    <3>1. w[k] = last /\ n \in 1 .. n
      BY <1>1, <1>5, <2>1
    <3> QED BY <1>4, <3>1
  <2>2. CASE ~(k >= n)
    <3>1. PICK i \in 1 .. n : i - 1 = k
      <4>1. k + 1 \in 1 .. n /\ (k + 1) - 1 = k
        BY <1>1, <2>2
      <4> QED BY <4>1
    <3> QED BY <1>2, <3>1
  <2> QED BY <2>1, <2>2
<1>7. ASSUME NEW i \in 1 .. n PROVE \E k \in 0 .. MaxBlocks : w[k] = list[i]
  <2>1. i - 1 \in 0 .. MaxBlocks
    BY <1>1, RowsAssumption
  <2> QED BY <1>2, <2>1
<1>8. Range(list) = {list[i] : i \in 1 .. n}
  BY <1>4 DEF Range
<1> QED BY <1>6, <1>7, <1>8
-----------------------------------------------------------------------------
(* What the walks of the model find.                                       *)
LEMMA HopFollows == Follows(Hop, MaxBlocks, tb.first_record_block_id, next_id)
<1> DEFINE w == CHOOSE w : Follows(w, MaxBlocks, tb.first_record_block_id, next_id)
<1>1. Follows(w, MaxBlocks, tb.first_record_block_id, next_id)
  <2>1. MaxBlocks \in Nat
    BY RowsAssumption
  <2> QED BY <2>1, FollowedExists
<1>2. Hop = w
  BY DEF Hop, Follows
<1> QED BY <1>1, <1>2

(* The blocks of a table that is listed, and its rows.                     *)
ReadsRight ==
  \A c : Listed(c, tb.first_record_block_id, tb.last_record_block_id, next_id) =>
    TableBlocks = c /\ TableRows = FlattenSeq(Texts(c, offset, slots))

(* In this state, and in the next one.                                     *)
LEMMA TableRead == ReadsRight
<1> SUFFICES ASSUME NEW c,
                    Listed(c, tb.first_record_block_id, tb.last_record_block_id, next_id)
             PROVE  TableBlocks = c /\ TableRows = FlattenSeq(Texts(c, offset, slots))
  BY DEF ReadsRight
<1>1. PICK w : w = Hop /\ Follows(w, MaxBlocks, tb.first_record_block_id, next_id)
  BY HopFollows
<1>2. PICK last : last = tb.last_record_block_id
  OBVIOUS
<1>3. PICK D : D = {i \in 1 .. MaxBlocks + 1 :
                       \A n \in 0 .. i - 2 : n \notin {m \in 0 .. MaxBlocks : w[m] = last}}
  OBVIOUS
<1>4. D \in SUBSET (1 .. MaxBlocks + 1)
  BY <1>3
<1>5. ASSUME NEW i \in 1 .. MaxBlocks + 1
      PROVE  i \in D <=> \A n \in 0 .. i - 2 : w[n] # last
  <2>1. \A n \in 0 .. i - 2 : n \in 0 .. MaxBlocks
    BY RowsAssumption
  <2> QED BY <1>3, <2>1
<1>6. [i \in D |-> w[i - 1]] = c
  <2>1. PICK first, link :
          /\ first = tb.first_record_block_id /\ link = next_id
          /\ Listed(c, first, last, link) /\ Follows(w, MaxBlocks, first, link)
    BY <1>1, <1>2
  <2>2. D = 1 .. Len(c) /\ [i \in D |-> w[i - 1]] = c
    <3> HIDE <1>3
    <3> QED BY <1>4, <1>5, <2>1, ListedRead
  <2> QED BY <2>2
<1>7. TableBlocks = c
  BY <1>1, <1>2, <1>3, <1>6 DEF TableBlocks
<1>8. TableRows = FlattenSeq(Texts(c, offset, slots))
  BY <1>7 DEF TableRows, RowsOf, Texts
<1> QED BY <1>7, <1>8

(* The same where the table is read after a step.                          *)
LEMMA TableReadNext == ReadsRight'
BY TableRead, PTL

FreeRight ==
  \A f, last : Listed(f, db.first_clean_block, last, next_id) /\ next_id[last] = last =>
    FreeChain = Range(f)

(* The walk of the free list meets its blocks.                             *)
LEMMA FreeRead == FreeRight
<1> SUFFICES ASSUME NEW f, NEW last, Listed(f, db.first_clean_block, last, next_id),
                    next_id[last] = last
             PROVE  FreeChain = Range(f)
  BY DEF FreeRight
<1> DEFINE w == CHOOSE w : Follows(w, MaxBlocks, db.first_clean_block, next_id)
<1>1. Follows(w, MaxBlocks, db.first_clean_block, next_id)
  <2>1. MaxBlocks \in Nat
    BY RowsAssumption
  <2> QED BY <2>1, FollowedExists
<1>2. FreeChain = {w[n] : n \in 0 .. MaxBlocks}
  BY DEF FreeChain, Follows
<1> HIDE DEF w
<1> QED BY <1>1, <1>2, ListedWalked
-----------------------------------------------------------------------------
(* The inductive invariant.                                                *)
FileTyped ==
  /\ db \in [first_clean_block : Blocks, block_num : 4 .. MaxBlocks + 1]
  /\ tb \in [first_record_block_id : Blocks, last_record_block_id : Blocks,
             num_rows : 0 .. MaxRows]
  /\ next_id \in [Blocks -> Blocks] /\ offset \in [Blocks -> 0 .. Slots]
  /\ slots \in [Blocks -> [1 .. Slots -> [v : Values \cup {0}, valid : BOOLEAN]]]

(* The free list has the blocks of f: all that are not used.  What lies    *)
(* behind block_num has never been linked.                                 *)
FreeOn(f, head, link, used) ==
  /\ Listed(f, head.first_clean_block, f[Len(f)], link)
  /\ link[f[Len(f)]] = f[Len(f)]
  /\ used \cap Range(f) = {} /\ used \cup Range(f) = 2 .. head.block_num - 1
  /\ \A b \in Blocks : b >= head.block_num => link[b] = b

(* The table has the blocks of c, the free list those of f.                *)
Shape(c, f) ==
  /\ Listed(c, tb.first_record_block_id, tb.last_record_block_id, next_id)
  /\ FreeOn(f, db, next_id, Range(c))
  /\ Filled(c, offset, slots)
  /\ Len(c) # 1 => \A i \in 1 .. Len(c) : offset[c[i]] # 0

All(c) == FlattenSeq(Texts(c, offset, slots))

Quiet(c) == held = Counted(All(c)) /\ tb.num_rows = Len(All(c))

(* What has been selected are the rows named up to the place reached.      *)
Selecting(c) ==
  \E at, S, off : \E k \in 1 .. Len(c) :
    /\ Quiet(c) /\ Lays(All(c), at, c, offset, slots)
    /\ off \in 0 .. offset[c[k]]
    /\ run = [op |-> "select", cond |-> S, got |-> Chosen(All(c), at[k] + off, S),
              curr |-> Open(c[k]), off |-> off]

Stopped(c) ==
  \E at, S, off : \E k \in 1 .. Len(c) :
    /\ Quiet(c) /\ Lays(All(c), at, c, offset, slots)
    /\ off \in 1 .. offset[c[k]]
    /\ run = [op |-> "full", cond |-> S, got |-> Chosen(All(c), at[k] + off, S),
              block_offset |-> off + c[k] * BlockSize]

(* The rows up to the place reached are changed, those behind it are not.  *)
Changed(rows, old, m, S, v) ==
  /\ old \in Seq(Values) /\ Len(rows) = Len(old)
  /\ \A j \in 1 .. Len(old) : rows[j] = IF j <= m /\ old[j] \in S THEN v ELSE old[j]

Updating(c) ==
  \E at, off, old : \E S \in SUBSET Values, v \in Values, k \in 1 .. Len(c) :
    /\ Lays(All(c), at, c, offset, slots)
    /\ tb.num_rows = Len(All(c)) /\ held = Counted(old)
    /\ Changed(All(c), old, at[k] + off, S, v)
    /\ off \in 0 .. offset[c[k]]
    /\ run = [op |-> "update", cond |-> S, value |-> v, curr |-> Open(c[k]),
              off |-> off, i |-> at[k] + off]

(* Delete in front of the end of block d, the one with rows to delete: the *)
(* copy of the block it is in has those up to the place reached marked.    *)
MarkedTo(page, off, S) ==
  [s \in 1 .. Slots |-> IF s <= off /\ page[s].v \in S
                       THEN [v |-> page[s].v, valid |-> FALSE] ELSE page[s]]

OnlyIn(c, d, S) ==
  /\ d \in {1, 2} /\ d <= Len(c) /\ next_id[c[Len(c)]] = c[Len(c)]
  /\ \A i \in 1 .. Len(c) : i = d <=> Weights(offset, slots, S)[c[i]] # 0
  /\ d = Len(c) /\ d # 1 => Weights(offset, slots, S)[c[d]] < offset[c[d]]

MarkingAt(c, d, S, off, k) ==
  /\ Quiet(c) /\ S \in SUBSET Values /\ OnlyIn(c, d, S) /\ k \in {1, 2} /\ k <= d
  /\ off \in Nat /\ off < offset[c[k]]
  /\ run = [op |-> "delete", cond |-> S,
            curr |-> [id |-> c[k], next_id |-> next_id[c[k]], offset |-> offset[c[k]],
                      page |-> MarkedTo(slots[c[k]], off, S)],
            off |-> off, i |-> IF k = 1 THEN off ELSE offset[c[1]] + off,
            pre_id |-> c[1], next_id |-> next_id[c[1]], last |-> Open(c[Len(c)]),
            deleted_rows |-> Count(Column(slots[c[k]]), off, S),
            block_flag |-> Count(Column(slots[c[k]]), off, S) # 0]

Marking(c) == \E d, S, off, k : MarkingAt(c, d, S, off, k)

(* Delete with nothing left to delete: it only goes on counting.           *)
Ahead(c, curr, off, i, next) ==
  /\ \E k \in 1 .. Len(c) : curr = Open(c[k]) /\ off \in Nat /\ off < offset[c[k]]
  /\ \/ next \in Range(c)
     \/ Len(c) = 1 /\ i = off /\ tb.num_rows = offset[c[1]]

PassingAt(c, S, curr, off, i, pre_id, next, last, gone) ==
  /\ S \in SUBSET Values /\ \A j \in 1 .. Len(c) : Weights(offset, slots, S)[c[j]] = 0
  /\ gone \in Nat /\ tb.num_rows - gone = Len(All(c))
  /\ Counted(All(c)) = Store!Deleted(held, S)
  /\ i \in Nat /\ i <= tb.num_rows
  /\ i < tb.num_rows => Ahead(c, curr, off, i, next)
  /\ run = [op |-> "delete", cond |-> S, curr |-> curr, off |-> off, i |-> i,
            pre_id |-> pre_id, next_id |-> next, last |-> last,
            deleted_rows |-> gone, block_flag |-> FALSE]

Passing(c) ==
  \E S, curr, off, i, pre_id, next, last, gone :
    PassingAt(c, S, curr, off, i, pre_id, next, last, gone)

Calls(c) ==
  \/ run = Idle /\ Quiet(c)
  \/ Selecting(c) \/ Stopped(c) \/ Updating(c) \/ Marking(c) \/ Passing(c)

Inv == FileTyped /\ \E c, f : Shape(c, f) /\ Calls(c)
-----------------------------------------------------------------------------
(* The bag of a sequence of rows counts each value in it.                  *)
LEMMA CountedIs ==
  ASSUME NEW rows \in Seq(Values)
  PROVE  /\ Counted(rows) = [x \in Values |-> Count(rows, Len(rows), {x})]
         /\ Counted(rows) \in [Values -> Nat]
<1>1. DOMAIN rows = 1 .. Len(rows) /\ Len(rows) \in Nat
  OBVIOUS
<1>2. \A x : {j \in DOMAIN rows : rows[j] = x} = {j \in 1 .. Len(rows) : rows[j] \in {x}}
  BY <1>1
<1>3. Counted(rows) = [x \in Values |-> Count(rows, Len(rows), {x})]
  BY <1>2 DEF Counted, Count
<1>4. \A x \in Values : Count(rows, Len(rows), {x}) \in Nat
  BY <1>1, CountNat
<1> QED BY <1>3, <1>4

(* The rows of a table, counted block by block.                            *)
LEMMA AllIs ==
  ASSUME NEW c, NEW first, NEW last, NEW link, Listed(c, first, last, link),
         NEW used \in [Blocks -> 0 .. Slots], NEW page, Filled(c, used, page),
         NEW rows, rows = FlattenSeq(Texts(c, used, page))
  PROVE  /\ rows \in Seq(Values)
         /\ \E at : Lays(rows, at, c, used, page)
         /\ \A P : Count(rows, Len(rows), P) = Total(Weights(used, page, P), Range(c))
         /\ Len(rows) = Total(Weights(used, page, Values), Range(c))
<1>1. c \in Seq(Blocks) /\ Len(c) # 0 /\ \A i, j \in 1 .. Len(c) : c[i] = c[j] => i = j
  BY DEF Listed
<1>2. PICK at : Lays(rows, at, c, used, page)
  BY <1>1, LaysExists
<1>3. rows \in Seq(Values)
  BY <1>2 DEF Lays
<1>4. \A P : Count(rows, Len(rows), P) = Total(Weights(used, page, P), Range(c))
  BY <1>1, <1>2, LaysCount
<1>5. Count(rows, Len(rows), Values) = Len(rows)
  BY <1>3, CountAll
<1> QED BY <1>2, <1>3, <1>4, <1>5

(* A list is a sequence of blocks that has a first one and a last one.     *)
LEMMA ListedOn ==
  ASSUME NEW c, NEW first, NEW last, NEW link, Listed(c, first, last, link)
  PROVE  /\ Range(c) = {c[i] : i \in 1 .. Len(c)} /\ Range(c) \subseteq Blocks
         /\ IsFiniteSet(Range(c)) /\ Len(c) \in Nat \ {0}
         /\ first \in Range(c) /\ last \in Range(c)
<1>1. PICK n \in Nat \ {0} : n = Len(c) /\ DOMAIN c = 1 .. n
  BY DEF Listed
<1>2. Range(c) = {c[i] : i \in 1 .. n}
  BY <1>1 DEF Range
<1>3. Range(c) \subseteq Blocks
  BY <1>1, <1>2 DEF Listed
<1>4. IsFiniteSet(Blocks)
  BY FS_Interval, RowsAssumption DEF Blocks
<1>5. IsFiniteSet(Range(c))
  BY <1>3, <1>4, FS_Subset
<1>6. first = c[1] /\ last = c[n] /\ 1 \in 1 .. n /\ n \in 1 .. n
  BY <1>1 DEF Listed
<1> QED BY <1>1, <1>2, <1>3, <1>5, <1>6
-----------------------------------------------------------------------------
(* Blocks put behind a list, in front of it, and taken from its front.     *)
LEMMA ListedSame ==
  ASSUME NEW c, NEW first, NEW last, NEW link, NEW link2, Listed(c, first, last, link),
         \A b \in Range(c) \ {last} : link2[b] = link[b]
  PROVE  Listed(c, first, last, link2)
<1>1. PICK n \in Nat \ {0} : n = Len(c) /\ Range(c) = {c[i] : i \in 1 .. n}
  BY ListedOn
<1>2. \A i \in 1 .. n - 1 : i \in 1 .. n /\ n \in 1 .. n /\ i # n
  BY <1>1
<1>3. \A i \in 1 .. n - 1 : c[i] \in Range(c) \ {last}
  BY <1>1, <1>2 DEF Listed
<1> QED BY <1>1, <1>3 DEF Listed

(* A block behind the last one.                                            *)
LEMMA ListedAppend ==
  ASSUME NEW c, NEW first, NEW last, NEW link, NEW link2, Listed(c, first, last, link),
         NEW b \in Blocks, b \notin Range(c), link2[last] = b,
         \A x \in Range(c) \ {last} : link2[x] = link[x]
  PROVE  /\ Listed(Append(c, b), first, b, link2)
         /\ Range(Append(c, b)) = Range(c) \cup {b}
<1>1. PICK n \in Nat \ {0} : n = Len(c) /\ Range(c) = {c[i] : i \in 1 .. n}
  BY ListedOn
<1>2. PICK m \in Nat : m = n + 1
  OBVIOUS
<1>3. PICK d : d = Append(c, b)
  OBVIOUS
<1>4. /\ d \in Seq(Blocks) /\ Len(d) = m /\ d[m] = b
      /\ \A i \in 1 .. n : d[i] = c[i]
  BY <1>1, <1>2, <1>3 DEF Listed
<1>5. \A i \in 1 .. m : i \in 1 .. n \/ i = m
  BY <1>2
<1>6. \A i \in 1 .. n : c[i] \in Range(c) /\ c[i] # b /\ i \in 1 .. m
  BY <1>1, <1>2
<1>7. \A i, j \in 1 .. n : c[i] = c[j] => i = j
  BY <1>1 DEF Listed
<1>8. \A i, j \in 1 .. m : d[i] = d[j] => i = j
  BY <1>4, <1>5, <1>6, <1>7
<1>9. ASSUME NEW i \in 1 .. m - 1 PROVE link2[d[i]] = d[i + 1]
  <2>1. CASE i = n
    <3>1. c[n] = last /\ n \in 1 .. n
      BY <1>1 DEF Listed
    <3> QED BY <1>2, <1>4, <2>1, <3>1
  <2>2. CASE i # n
    <3>1. i \in 1 .. n - 1 /\ i \in 1 .. n /\ i + 1 \in 1 .. n /\ n \in 1 .. n
      BY <1>2, <2>2
    <3>2. c[i] # last /\ link[c[i]] = c[i + 1]
      BY <1>1, <1>7, <2>2, <3>1 DEF Listed
    <3> QED BY <1>4, <1>6, <3>1, <3>2
  <2> QED BY <2>1, <2>2
<1>10. d[1] = first
  <2>1. 1 \in 1 .. n /\ c[1] = first
    BY DEF Listed
  <2> QED BY <1>4, <2>1
<1>11. Listed(d, first, b, link2)
  BY <1>2, <1>4, <1>8, <1>9, <1>10 DEF Listed
<1>12. Range(d) = Range(c) \cup {b}
  <2>1. Range(d) = {d[i] : i \in 1 .. m}
    BY <1>4, <1>11, ListedOn
  <2>2. m \in 1 .. m
    BY <1>2
  <2> QED BY <1>1, <1>4, <1>5, <1>6, <2>1, <2>2
<1> QED BY <1>3, <1>11, <1>12

(* A list without its first block.                                         *)
LEMMA ListedTail ==
  ASSUME NEW c, NEW first, NEW last, NEW link, Listed(c, first, last, link), Len(c) # 1
  PROVE  /\ Listed(Tail(c), link[first], last, link)
         /\ Range(Tail(c)) = Range(c) \ {first}
         /\ Len(Tail(c)) = Len(c) - 1 /\ \A i \in 1 .. Len(c) - 1 : Tail(c)[i] = c[i + 1]
         /\ link[first] = c[2] /\ first # last
<1>1. PICK n \in Nat \ {0, 1} : n = Len(c) /\ Range(c) = {c[i] : i \in 1 .. n}
  BY ListedOn
<1>2. PICK m \in Nat \ {0} : m = n - 1
  <2>1. n - 1 \in Nat \ {0}
    OBVIOUS
  <2> QED BY <2>1
<1>3. PICK d : d = Tail(c)
  OBVIOUS
<1>4. /\ d \in Seq(Blocks) /\ Len(d) = m
      /\ \A i \in 1 .. m : d[i] = c[i + 1]
  <2>1. c \in Seq(Blocks) /\ c # <<>>
    BY <1>1 DEF Listed
  <2> QED BY <1>1, <1>2, <1>3, <2>1, HeadTailProperties
<1>5. \A i, j \in 1 .. n : c[i] = c[j] => i = j
  BY <1>1 DEF Listed
<1>6. \A i \in 1 .. m : i + 1 \in 1 .. n /\ i + 1 # 1
  BY <1>2
<1>7. \A i, j \in 1 .. m : d[i] = d[j] => i = j
  <2> TAKE i, j \in 1 .. m
  <2>1. d[i] = d[j] => i + 1 = j + 1
    BY <1>4, <1>5, <1>6
  <2> QED BY <2>1
<1>8. ASSUME NEW i \in 1 .. m - 1 PROVE link[d[i]] = d[i + 1]
  <2>1. i \in 1 .. m /\ i + 1 \in 1 .. m /\ i + 1 \in 1 .. n - 1
    BY <1>2
  <2>2. PICK j \in 1 .. n - 1 : j = i + 1
    BY <2>1
  <2>3. link[c[j]] = c[j + 1]
    BY <1>1 DEF Listed
  <2> QED BY <1>4, <2>1, <2>2, <2>3
<1>9. d[1] = c[2] /\ link[first] = c[2] /\ d[m] = last /\ first # last
  <2>1. 1 \in 1 .. n - 1 /\ 1 \in 1 .. m /\ m \in 1 .. m /\ m + 1 = n /\ 1 + 1 = 2 /\ 1 \in 1 .. n /\ n \in 1 .. n
    BY <1>2
  <2>2. c[1] = first /\ c[n] = last /\ link[c[1]] = c[1 + 1]
    BY <1>1, <2>1 DEF Listed
  <2>3. d[1] = c[1 + 1] /\ d[m] = c[m + 1]
    BY <1>4, <2>1
  <2>4. first # last
    BY <1>1, <1>5, <2>1, <2>2
  <2> QED BY <2>1, <2>2, <2>3, <2>4
<1>10. Listed(d, link[first], last, link)
  BY <1>4, <1>7, <1>8, <1>9 DEF Listed
<1>11. Range(d) = Range(c) \ {first}
  <2>1. Range(d) = {d[i] : i \in 1 .. m}
    BY <1>4, <1>10, ListedOn
  <2>2. c[1] = first /\ 1 \in 1 .. n
    BY DEF Listed
  <2>3. ASSUME NEW i \in 1 .. n, i # 1 PROVE \E j \in 1 .. m : c[i] = d[j]
    <3>1. PICK j \in 1 .. m : j + 1 = i
      <4>1. i - 1 \in 1 .. m /\ (i - 1) + 1 = i
        BY <1>2, <2>3
      <4> QED BY <4>1
    <3> QED BY <1>4, <3>1
  <2>4. \A j \in 1 .. m : d[j] \in Range(c) /\ d[j] # first
    BY <1>1, <1>4, <1>5, <1>6, <2>2
  <2> QED BY <1>1, <2>1, <2>2, <2>3, <2>4
<1> QED BY <1>1, <1>2, <1>3, <1>4, <1>9, <1>10, <1>11

(* A block in front of the first one.                                      *)
LEMMA ListedPush ==
  ASSUME NEW c, NEW first, NEW last, NEW link, NEW link2, Listed(c, first, last, link),
         NEW b \in Blocks, b \notin Range(c), link2[b] = first,
         \A x \in Range(c) \ {last} : link2[x] = link[x]
  PROVE  /\ Listed(<<b>> \o c, b, last, link2)
         /\ Range(<<b>> \o c) = Range(c) \cup {b}
         /\ Len(<<b>> \o c) = Len(c) + 1 /\ (<<b>> \o c)[1] = b
         /\ \A i \in 1 .. Len(c) : (<<b>> \o c)[i + 1] = c[i]
<1>1. PICK n \in Nat \ {0} : n = Len(c) /\ Range(c) = {c[i] : i \in 1 .. n}
  BY ListedOn
<1>2. PICK m \in Nat : m = n + 1
  OBVIOUS
<1>3. PICK d : d = <<b>> \o c
  OBVIOUS
<1>4. /\ d \in Seq(Blocks) /\ Len(d) = m /\ d[1] = b
      /\ \A i \in 1 .. n : d[i + 1] = c[i]
  <2>1. /\ <<b>> \in Seq(Blocks) /\ c \in Seq(Blocks) /\ Len(<<b>>) = 1 /\ <<b>>[1] = b
    BY DEF Listed
  <2>2. d \in Seq(Blocks) /\ Len(d) = 1 + n
    BY <1>1, <1>3, <2>1
  <2>3. \A i \in 1 .. m : d[i] = IF i <= 1 THEN <<b>>[i] ELSE c[i - 1]
    BY <1>1, <1>2, <1>3, <2>1, ConcatProperties
  <2>4. d[1] = b
    BY <1>2, <2>1, <2>3
  <2>5. ASSUME NEW i \in 1 .. n PROVE d[i + 1] = c[i]
    <3>1. PICK j \in 1 .. m : j = i + 1 /\ ~(j <= 1) /\ j - 1 = i
      BY <1>2
    <3> QED BY <2>3, <3>1
  <2> QED BY <1>2, <2>2, <2>4, <2>5
<1>5. \A i \in 1 .. m : i = 1 \/ \E j \in 1 .. n : i = j + 1
  <2> TAKE i \in 1 .. m
  <2>1. i # 1 => i - 1 \in 1 .. n /\ i = (i - 1) + 1
    BY <1>2
  <2> QED BY <2>1
<1>6. \A i, j \in 1 .. n : c[i] = c[j] => i = j
  BY <1>1 DEF Listed
<1>7. \A i \in 1 .. n : c[i] \in Range(c) /\ c[i] # b
  BY <1>1
<1>8. ASSUME NEW i \in 1 .. m, NEW j \in 1 .. m, d[i] = d[j] PROVE i = j
  <2>1. CASE i = 1 /\ j = 1
    BY <2>1
  <2>2. CASE i = 1 /\ j # 1
    BY <1>4, <1>5, <1>7, <1>8, <2>2
  <2>3. CASE i # 1 /\ j = 1
    BY <1>4, <1>5, <1>7, <1>8, <2>3
  <2>4. CASE i # 1 /\ j # 1
    <3>1. PICK k \in 1 .. n : i = k + 1
      BY <1>5, <2>4
    <3>2. PICK l \in 1 .. n : j = l + 1
      BY <1>5, <2>4
    <3>3. d[i] = c[k] /\ d[j] = c[l]
      BY <1>4, <3>1, <3>2
    <3> QED BY <1>6, <1>8, <3>1, <3>2, <3>3
  <2> QED BY <2>1, <2>2, <2>3, <2>4
<1>9. ASSUME NEW i \in 1 .. m - 1 PROVE link2[d[i]] = d[i + 1]
  <2>1. CASE i = 1
    <3>1. d[1 + 1] = c[1] /\ c[1] = first
      BY <1>1, <1>4 DEF Listed
    <3> QED BY <1>4, <2>1, <3>1
  <2>2. CASE i # 1
    <3>1. PICK j \in 1 .. n - 1 : i = j + 1
      <4>1. i - 1 \in 1 .. n - 1 /\ i = (i - 1) + 1
        BY <1>2, <2>2
      <4> QED BY <4>1
    <3>2. j \in 1 .. n /\ i \in 1 .. n /\ n \in 1 .. n /\ j # n
      BY <1>2, <3>1
    <3>3. d[i] = c[j] /\ d[i + 1] = c[i]
      BY <1>4, <3>1, <3>2
    <3>4. link[c[j]] = c[j + 1] /\ c[n] = last
      BY <1>1 DEF Listed
    <3>5. c[j] # last
      BY <1>6, <3>2, <3>4
    <3> QED BY <1>7, <3>1, <3>2, <3>3, <3>4, <3>5
  <2> QED BY <2>1, <2>2
<1>10. d[m] = last
  <2>1. d[n + 1] = c[n] /\ c[n] = last
    BY <1>1, <1>4 DEF Listed
  <2> QED BY <1>2, <2>1
<1>11. Listed(d, b, last, link2)
  <2>1. Len(d) = m /\ m \in Nat /\ m # 0
    BY <1>2, <1>4
  <2> QED BY <1>4, <1>8, <1>9, <1>10, <2>1 DEF Listed
<1>12. Range(d) = Range(c) \cup {b}
  <2>1. Range(d) = {d[i] : i \in 1 .. m}
    BY <1>4, <1>11, ListedOn
  <2>2. 1 \in 1 .. m /\ \A i \in 1 .. n : i + 1 \in 1 .. m
    BY <1>2
  <2>3. ASSUME NEW i \in 1 .. m PROVE d[i] \in Range(c) \cup {b}
    <3>1. CASE i = 1
      BY <1>4, <3>1
    <3>2. CASE i # 1
      <4>1. PICK j \in 1 .. n : i = j + 1
        BY <1>5, <3>2
      <4>2. d[i] = c[j]
        BY <1>4, <4>1
      <4> QED BY <1>7, <4>2
    <3> QED BY <3>1, <3>2
  <2>4. \A i \in 1 .. n : c[i] \in Range(d)
    <3> TAKE i \in 1 .. n
    <3>1. PICK j \in 1 .. m : j = i + 1 /\ d[j] = c[i]
      BY <1>4, <2>2
    <3> QED BY <2>1, <3>1
  <2>5. b \in Range(d)
    BY <1>4, <2>1, <2>2
  <2> QED BY <1>1, <2>1, <2>3, <2>4, <2>5
<1> QED BY <1>1, <1>2, <1>3, <1>4, <1>11, <1>12

(* A new table has block 2 alone; every block behind it is free.           *)
LEMMA InitInv == Init => Inv
<1> SUFFICES ASSUME Init PROVE Inv
  OBVIOUS
<1>1. /\ db = [first_clean_block |-> 3, block_num |-> 4]
      /\ tb = [first_record_block_id |-> 2, last_record_block_id |-> 2, num_rows |-> 0]
      /\ next_id \in [Blocks -> Blocks] /\ \A b \in Blocks : b # 2 => next_id[b] = b
      /\ offset = [b \in Blocks |-> 0]
      /\ slots = [b \in Blocks |-> [s \in 1 .. Slots |-> NoRow]]
      /\ run = Idle /\ held = [x \in Values |-> 0]
      /\ 2 \in Blocks /\ 3 \in Blocks
  <2>1. 2 \in Blocks /\ 3 \in Blocks
    BY RowsAssumption DEF Blocks
  <2> QED BY <2>1 DEF Init
<1>2. FileTyped
  <2>1. NoRow \in [v : Values \cup {0}, valid : BOOLEAN]
    BY DEF NoRow
  <2>2. slots \in [Blocks -> [1 .. Slots -> [v : Values \cup {0}, valid : BOOLEAN]]]
    BY <1>1, <2>1
  <2>3. offset \in [Blocks -> 0 .. Slots]
    BY <1>1, RowsAssumption
  <2>4. db.first_clean_block \in Blocks /\ db.block_num \in 4 .. MaxBlocks + 1 /\ 0 \in 0 .. MaxRows
    BY <1>1, RowsAssumption
  <2> QED BY <1>1, <2>2, <2>3, <2>4 DEF FileTyped
<1>3. PICK c : c = <<2>>
  OBVIOUS
<1>4. PICK f : f = <<3>>
  OBVIOUS
<1>5. /\ c \in Seq(Blocks) /\ Len(c) = 1 /\ c[1] = 2 /\ f \in Seq(Blocks) /\ Len(f) = 1 /\ f[1] = 3
      /\ Range(c) = {2} /\ Range(f) = {3}
  <2>1. DOMAIN c = {1} /\ DOMAIN f = {1}
    BY <1>3, <1>4
  <2> QED BY <1>1, <1>3, <1>4, <2>1 DEF Range
<1>6. Shape(c, f)
  <2>1. Listed(c, 2, 2, next_id) /\ Listed(f, 3, 3, next_id)
    BY <1>5 DEF Listed
  <2>2. Filled(c, offset, slots)
    <3>1. \A i \in 1 .. Len(c) : offset[c[i]] = 0
      BY <1>1, <1>5
    <3> QED BY <3>1 DEF Filled
  <2>3. {2} \cup {3} = 2 .. 4 - 1
    OBVIOUS
  <2>4. \A b \in Blocks : b >= 4 => next_id[b] = b
    BY <1>1
  <2> QED BY <1>1, <1>5, <2>1, <2>2, <2>3, <2>4 DEF Shape, FreeOn
<1>7. Quiet(c)
  <2>1. PICK rows : rows = All(c)
    OBVIOUS
  <2>2. /\ rows \in Seq(Values)
        /\ \A P : Count(rows, Len(rows), P) = Total(Weights(offset, slots, P), Range(c))
        /\ Len(rows) = Total(Weights(offset, slots, Values), Range(c))
    <3>1. offset \in [Blocks -> 0 .. Slots]
      BY <1>2 DEF FileTyped
    <3> QED BY <1>6, <2>1, <3>1, AllIs DEF Shape, All
  <2>3. ASSUME NEW P PROVE Total(Weights(offset, slots, P), Range(c)) = 0
    <3>1. Weights(offset, slots, P)[2] = 0
      BY <1>1, CountNone DEF Weights
    <3> QED BY <1>5, <3>1, TotalOne
  <2>4. Counted(rows) = [x \in Values |-> Count(rows, Len(rows), {x})]
    BY <2>2, CountedIs
  <2>5. \A x \in Values : Count(rows, Len(rows), {x}) = 0
    BY <2>2, <2>3
  <2>6. held = Counted(rows)
    BY <1>1, <2>4, <2>5
  <2> QED BY <1>1, <2>1, <2>2, <2>3, <2>6 DEF Quiet
<1> QED BY <1>1, <1>2, <1>6, <1>7 DEF Inv, Calls
-----------------------------------------------------------------------------
(* Which call is in progress tells which part of the invariant holds.      *)
LEMMA CallOf ==
  ASSUME NEW c, Calls(c)
  PROVE  /\ run.op \in {"idle", "select", "full", "update", "delete"}
         /\ run.op = "idle" => run = Idle /\ Quiet(c)
         /\ run.op = "select" => Selecting(c)
         /\ run.op = "full" => Stopped(c)
         /\ run.op = "update" => Updating(c)
         /\ run.op = "delete" => Marking(c) \/ Passing(c)
<1>1. run = Idle => run.op = "idle"
  BY DEF Idle
<1>2. Selecting(c) => run.op = "select"
  BY DEF Selecting
<1>3. Stopped(c) => run.op = "full"
  BY DEF Stopped
<1>4. Updating(c) => run.op = "update"
  BY DEF Updating
<1>5. Marking(c) => run.op = "delete"
  BY DEF Marking, MarkingAt
<1>6. Passing(c) => run.op = "delete"
  BY DEF Passing, PassingAt
<1> QED BY <1>1, <1>2, <1>3, <1>4, <1>5, <1>6 DEF Calls

(* One row more that holds v, and no other change.                         *)
LEMMA OneMore ==
  ASSUME NEW rows \in Seq(Values), NEW rows2 \in Seq(Values), NEW v \in Values,
         \A P : Count(rows2, Len(rows2), P) = Count(rows, Len(rows), P) + (IF v \in P THEN 1 ELSE 0)
  PROVE  /\ Len(rows2) = Len(rows) + 1
         /\ Counted(rows2) = Store!Inserted(Counted(rows), v)
<1>1. Count(rows, Len(rows), Values) = Len(rows) /\ Count(rows2, Len(rows2), Values) = Len(rows2)
  BY CountAll
<1>2. /\ Counted(rows) = [x \in Values |-> Count(rows, Len(rows), {x})]
      /\ Counted(rows2) = [x \in Values |-> Count(rows2, Len(rows2), {x})]
      /\ Counted(rows) \in [Values -> Nat]
  BY CountedIs
<1>3. \A x \in Values : Counted(rows2)[x] = Counted(rows)[x] + (IF v = x THEN 1 ELSE 0)
  BY <1>2
<1>4. Counted(rows2) = [Counted(rows) EXCEPT ![v] = @ + 1]
  <2>1. PICK bag \in [Values -> Nat] : bag = Counted(rows)
    BY <1>2
  <2>2. PICK bag2 : bag2 = Counted(rows2)
    OBVIOUS
  <2>3. bag2 = [x \in Values |-> bag2[x]]
    BY <1>2, <2>2
  <2>4. \A x \in Values : bag2[x] = bag[x] + (IF v = x THEN 1 ELSE 0)
    BY <1>3, <2>1, <2>2
  <2>5. bag2[v] = bag[v] + 1
    BY <2>4
  <2>6. \A x \in Values : x # v => bag2[x] = bag[x]
    BY <2>1, <2>4
  <2>7. [bag EXCEPT ![v] = @ + 1] = [x \in Values |-> IF x = v THEN bag[v] + 1 ELSE bag[x]]
    BY <2>1
  <2>8. bag2 = [bag EXCEPT ![v] = @ + 1]
    BY <2>3, <2>5, <2>6, <2>7
  <2> QED BY <2>1, <2>2, <2>8
<1> QED BY <1>1, <1>4 DEF Store!Inserted

(* If one row of value v is added to the blocks, the bag of the table is   *)
(* too.                                                                    *)
LEMMA InsertCounts ==
  ASSUME FileTyped, FileTyped', NEW c, NEW f, Shape(c, f), Quiet(c),
         NEW c2, NEW f2, Shape(c2, f2)',
         NEW v \in Values, held' = Counted(TableRows'), tb'.num_rows = tb.num_rows + 1,
         \A P : Total(Weights(offset', slots', P), Range(c2)) =
                 Total(Weights(offset, slots, P), Range(c)) + (IF v \in P THEN 1 ELSE 0)
  PROVE  Quiet(c2)' /\ held' = Store!Inserted(held, v)
<1>1. PICK rows : rows = All(c)
  OBVIOUS
<1>2. PICK rows2 : rows2 = FlattenSeq(Texts(c2, offset', slots'))
  OBVIOUS
<1>3. /\ rows \in Seq(Values)
      /\ \A P : Count(rows, Len(rows), P) = Total(Weights(offset, slots, P), Range(c))
  <2>1. offset \in [Blocks -> 0 .. Slots]
    BY DEF FileTyped
  <2> QED BY <1>1, <2>1, AllIs DEF All, Shape
<1>4. /\ rows2 \in Seq(Values)
      /\ \A P : Count(rows2, Len(rows2), P) = Total(Weights(offset', slots', P), Range(c2))
  <2>1. offset' \in [Blocks -> 0 .. Slots]
    BY DEF FileTyped
  <2>2. /\ Listed(c2, tb'.first_record_block_id, tb'.last_record_block_id, next_id')
        /\ Filled(c2, offset', slots')
    BY DEF Shape
  <2> QED BY <1>2, <2>1, <2>2, AllIs
<1>5. \A P : Count(rows2, Len(rows2), P) = Count(rows, Len(rows), P) + (IF v \in P THEN 1 ELSE 0)
  BY <1>3, <1>4
<1>6. Len(rows2) = Len(rows) + 1 /\ Counted(rows2) = Store!Inserted(Counted(rows), v)
  BY <1>3, <1>4, <1>5, OneMore
<1>7. TableRows' = rows2
  BY <1>2, TableReadNext DEF ReadsRight, Shape
<1>8. All(c2)' = rows2
  BY <1>2 DEF All
<1>9. held' = Counted(rows2) /\ held = Counted(rows) /\ tb.num_rows = Len(rows)
  BY <1>1, <1>7 DEF Quiet
<1>10. Quiet(c2)'
  <2>1. held' = Counted(All(c2)')
    BY <1>8, <1>9
  <2>2. tb'.num_rows = Len(All(c2)')
    BY <1>6, <1>8, <1>9
  <2> QED BY <2>1, <2>2 DEF Quiet, Counted
<1> QED BY <1>6, <1>9, <1>10

(* An insert into the last block.                                          *)
LEMMA InsertFits ==
  ASSUME FileTyped, NEW c, NEW f, Shape(c, f), Quiet(c), run = Idle,
         NEW v \in Values, Insert(v), ~Pops
  PROVE  FileTyped' /\ Shape(c, f)' /\ Quiet(c)' /\ run' = Idle
         /\ held' = Store!Inserted(held, v)
<1>1. PICK last \in Blocks : last = tb.last_record_block_id
  BY DEF FileTyped
<1>2. PICK off \in 0 .. Slots : off = offset[last] /\ off < Slots
  BY <1>1 DEF FileTyped, Pops, Fits
<1>3. PICK row : row = [v |-> v, valid |-> TRUE]
  OBVIOUS
<1>4. /\ db' = db /\ next_id' = next_id /\ run' = Idle
      /\ slots' = [slots EXCEPT ![last] = [slots[last] EXCEPT ![off + 1] = row]]
      /\ offset' = [offset EXCEPT ![last] = off + 1]
      /\ tb' = [tb EXCEPT !.last_record_block_id = last, !.num_rows = @ + 1]
      /\ held' = Counted(TableRows') /\ tb.num_rows < MaxRows
  BY <1>1, <1>2, <1>3 DEF Insert, GrownDb, InsertOffset
<1>5. /\ tb'.first_record_block_id = tb.first_record_block_id
      /\ tb'.last_record_block_id = tb.last_record_block_id
      /\ tb'.num_rows = tb.num_rows + 1
      /\ tb' \in [first_record_block_id : Blocks, last_record_block_id : Blocks,
                  num_rows : 0 .. MaxRows]
  <2>1. PICK first \in Blocks : first = tb.first_record_block_id
    BY DEF FileTyped
  <2>2. PICK num \in 0 .. MaxRows : num = tb.num_rows
    BY DEF FileTyped
  <2>3. tb' = [first_record_block_id |-> first, last_record_block_id |-> last, num_rows |-> num + 1]
    BY <1>4, <2>1, <2>2 DEF FileTyped
  <2>4. num + 1 \in 0 .. MaxRows
    BY <1>4, <2>2, RowsAssumption
  <2> QED BY <1>1, <2>1, <2>2, <2>3, <2>4
<1>6. off + 1 \in 1 .. Slots /\ off \in Nat /\ row \in [v : Values \cup {0}, valid : BOOLEAN]
  BY <1>2, <1>3, RowsAssumption
<1>7. FileTyped'
  <2>1. offset' \in [Blocks -> 0 .. Slots]
    BY <1>4, <1>6 DEF FileTyped
  <2>2. slots' \in [Blocks -> [1 .. Slots -> [v : Values \cup {0}, valid : BOOLEAN]]]
    BY <1>4, <1>6 DEF FileTyped
  <2> QED BY <1>4, <1>5, <2>1, <2>2 DEF FileTyped
<1>8. /\ offset'[last] = off + 1
      /\ slots'[last][off + 1] = row
      /\ \A s \in 1 .. off : slots'[last][s] = slots[last][s]
      /\ \A b \in Blocks \ {last} : offset'[b] = offset[b] /\ slots'[b] = slots[b]
  <2>1. slots'[last] = [slots[last] EXCEPT ![off + 1] = row]
    BY <1>4 DEF FileTyped
  <2>2. \A s \in 1 .. off : s \in 1 .. Slots /\ s # off + 1
    BY <1>2, RowsAssumption
  <2>3. slots[last] \in [1 .. Slots -> [v : Values \cup {0}, valid : BOOLEAN]]
    BY DEF FileTyped
  <2> QED BY <1>4, <1>6, <2>1, <2>2, <2>3 DEF FileTyped
<1>9. Listed(c, tb.first_record_block_id, last, next_id) /\ Filled(c, offset, slots)
  BY <1>1 DEF Shape
<1>10. Filled(c, offset', slots')
  <2> SUFFICES ASSUME NEW i \in 1 .. Len(c), NEW s \in 1 .. offset'[c[i]]
               PROVE  slots'[c[i]][s].v \in Values /\ slots'[c[i]][s].valid = TRUE
    BY DEF Filled
  <2>1. c[i] \in Blocks
    BY <1>9 DEF Listed
  <2>2. CASE c[i] = last
    <3>1. CASE s = off + 1
      BY <2>2, <3>1, <1>3, <1>8
    <3>2. CASE s # off + 1
      <4>1. s \in 1 .. off
        BY <2>2, <3>2, <1>6, <1>8
      <4> QED BY <2>2, <4>1, <1>2, <1>8, <1>9 DEF Filled
    <3> QED BY <3>1, <3>2
  <2>3. CASE c[i] # last
    BY <2>1, <2>3, <1>8, <1>9 DEF Filled
  <2> QED BY <2>2, <2>3
<1>11. Shape(c, f)'
  <2>1. Len(c) # 1 => \A i \in 1 .. Len(c) : offset'[c[i]] # 0
    <3>1. \A i \in 1 .. Len(c) : c[i] \in Blocks
      BY <1>9 DEF Listed
    <3>2. off + 1 # 0
      BY <1>6
    <3> QED BY <1>8, <3>1, <3>2 DEF Shape
  <2> QED BY <1>4, <1>5, <1>10, <2>1 DEF Shape
<1>12. ASSUME NEW P
       PROVE  Total(Weights(offset', slots', P), Range(c)) =
              Total(Weights(offset, slots, P), Range(c)) + (IF v \in P THEN 1 ELSE 0)
  <2>1. PICK W : W = Weights(offset, slots, P)
    OBVIOUS
  <2>2. PICK W2 : W2 = Weights(offset', slots', P)
    OBVIOUS
  <2>3. last \in Range(c) /\ Range(c) \subseteq Blocks /\ IsFiniteSet(Range(c))
    BY <1>9, ListedOn
  <2>4. /\ \A b \in Blocks : W[b] \in Nat /\ W[b] = Count(Column(slots[b]), offset[b], P)
        /\ \A b \in Blocks : W2[b] = Count(Column(slots'[b]), offset'[b], P)
    <3>1. offset \in [Blocks -> 0 .. Slots] /\ offset' \in [Blocks -> 0 .. Slots]
      BY <1>7 DEF FileTyped
    <3> QED BY <2>1, <2>2, <3>1, WeightsNat
  <2>5. \A b \in Range(c) \ {last} : W2[b] = W[b]
    BY <1>8, <2>3, <2>4
  <2>6. W2[last] = W[last] + (IF v \in P THEN 1 ELSE 0)
    <3>1. PICK h : h = Column(slots'[last])
      OBVIOUS
    <3>2. PICK g : g = Column(slots[last])
      OBVIOUS
    <3>3. h[off + 1] = v /\ \A s \in 1 .. off : h[s] = g[s]
      <4>1. \A s \in 1 .. off : s \in 1 .. Slots
        BY <1>2, RowsAssumption
      <4> QED BY <1>3, <1>6, <1>8, <3>1, <3>2, <4>1 DEF Column
    <3>4. Count(h, off + 1, P) = Count(h, off, P) + (IF h[off + 1] \in P THEN 1 ELSE 0)
      BY <1>6, CountNext
    <3>5. Count(h, off, P) = Count(g, off, P)
      BY <1>6, <3>3, CountSame
    <3> QED BY <1>2, <1>8, <2>4, <3>1, <3>2, <3>3, <3>4, <3>5
  <2>7. CASE v \in P
    <3>1. Total(W2, Range(c)) = Total(W, Range(c)) + 1
      BY <2>3, <2>4, <2>5, <2>6, <2>7, TotalRaise
    <3> QED BY <2>1, <2>2, <2>7, <3>1
  <2>8. CASE v \notin P
    <3>1. \A b \in Range(c) : W2[b] = W[b]
      BY <2>3, <2>4, <2>5, <2>6, <2>8
    <3>2. Total(W2, Range(c)) = Total(W, Range(c))
      BY <2>3, <3>1, TotalSame
    <3>3. Total(W, Range(c)) \in Nat
      BY <2>3, <2>4, TotalNat
    <3> QED BY <2>1, <2>2, <2>8, <3>2, <3>3
  <2> QED BY <2>7, <2>8
<1>13. Quiet(c)' /\ held' = Store!Inserted(held, v)
  <2>1. held' = Counted(TableRows') /\ tb'.num_rows = tb.num_rows + 1
    BY <1>4, <1>5
  <2> QED BY <1>7, <1>11, <1>12, <2>1, InsertCounts
<1> QED BY <1>4, <1>7, <1>11, <1>13

(* The free list once its first block is popped: a new block follows the   *)
(* last one.                                                               *)
Popped ==
  IF Grows THEN [first_clean_block |-> db.block_num, block_num |-> db.block_num + 1]
  ELSE [db EXCEPT !.first_clean_block = next_id[@]]

Roomy == Grows => db.block_num <= MaxBlocks

SameBut(link, link2, S) == \A b \in Blocks \ S : link2[b] = link[b]

(* What the pop leaves is a free list without the block popped.            *)
LEMMA PoppedFree ==
  ASSUME FileTyped, NEW c, NEW f, Shape(c, f), Roomy,
         NEW first, first = db.first_clean_block, NEW db2, db2 = Popped,
         NEW link, SameBut(next_id, link, Range(c) \cup {first})
  PROVE  /\ first \in Blocks /\ first \in Range(f) /\ first \notin Range(c)
         /\ db2 \in [first_clean_block : Blocks, block_num : 4 .. MaxBlocks + 1]
         /\ \E g : FreeOn(g, db2, link, Range(c) \cup {first})
<1>1. PICK last : last = f[Len(f)]
  OBVIOUS
<1>2. /\ Listed(f, first, last, next_id) /\ next_id[last] = last
      /\ Range(c) \cap Range(f) = {}
      /\ Range(c) \cup Range(f) = 2 .. db.block_num - 1
      /\ \A b \in Blocks : b >= db.block_num => next_id[b] = b
  BY <1>1 DEF Shape, FreeOn
<1>3. first \in Range(f) /\ last \in Range(f) /\ Range(f) \subseteq Blocks /\ first \notin Range(c)
  BY <1>2, ListedOn
<1>0. \A b \in Blocks : b \notin Range(c) /\ b # first => link[b] = next_id[b]
  BY DEF SameBut
<1>4. PICK num \in 4 .. MaxBlocks + 1 : num = db.block_num
  BY DEF FileTyped
<1>5. next_id[first] \in Blocks /\ db = [first_clean_block |-> first, block_num |-> num]
  BY <1>3, <1>4 DEF FileTyped
<1>6. CASE Grows
  <2>1. next_id[first] = first /\ num <= MaxBlocks
    BY <1>4, <1>6 DEF Grows, Roomy
  <2>2. Len(f) = 1
    <3>1. SUFFICES ASSUME Len(f) # 1 PROVE FALSE
      OBVIOUS
    <3>2. next_id[first] = f[2] /\ Listed(f, first, last, next_id) /\ Len(f) \in Nat \ {0}
      BY <1>2, <3>1, ListedTail, ListedOn
    <3>3. PICK n \in Nat \ {0, 1} : n = Len(f)
      BY <3>1, <3>2
    <3>4. 1 \in 1 .. n /\ 2 \in 1 .. n
      OBVIOUS
    <3>5. f[1] = first /\ f[1] # f[2]
      BY <1>2, <3>3, <3>4 DEF Listed
    <3> QED BY <2>1, <3>2, <3>5
  <2>3. Range(f) = {first}
    <3>1. Range(f) = {f[i] : i \in 1 .. 1} /\ f[1] = first
      BY <1>2, <2>2, ListedOn DEF Listed
    <3> QED BY <3>1
  <2>4. db2 = [first_clean_block |-> num, block_num |-> num + 1]
    BY <1>4, <1>6 DEF Popped
  <2>5. num \in Blocks /\ num \notin Range(c) /\ num # first
    <3>1. num \in Blocks /\ num \notin 2 .. num - 1
      BY <2>1, <1>4, RowsAssumption DEF Blocks
    <3> QED BY <1>0, <1>2, <1>3, <1>4, <3>1
  <2>6. PICK g : g = <<num>>
    OBVIOUS
  <2>7. g \in Seq(Blocks) /\ Len(g) = 1 /\ g[1] = num /\ Range(g) = {num}
    <3>1. DOMAIN g = {1}
      BY <2>6
    <3> QED BY <2>5, <2>6, <3>1 DEF Range
  <2>8. link[num] = num
    BY <1>0, <1>2, <1>4, <2>5
  <2>9. Listed(g, num, num, link)
    BY <2>7, <2>8 DEF Listed
  <2>10. (Range(c) \cup {first}) \cup {num} = 2 .. (num + 1) - 1
    <3>1. (2 .. num - 1) \cup {num} = 2 .. (num + 1) - 1
      BY <1>4
    <3> QED BY <1>2, <1>4, <2>3, <3>1
  <2>11. \A b \in Blocks : b >= num + 1 => link[b] = b
    <3> SUFFICES ASSUME NEW b \in Blocks, b >= num + 1 PROVE link[b] = b
      OBVIOUS
    <3>1. b >= num /\ b \notin 2 .. num - 1
      BY <1>4 DEF Blocks
    <3> QED BY <1>0, <1>2, <1>3, <1>4, <3>1
  <2>12. num + 1 \in 4 .. MaxBlocks + 1
    BY <1>4, <2>1, RowsAssumption
  <2>13. FreeOn(g, db2, link, Range(c) \cup {first})
    BY <1>2, <1>3, <2>4, <2>5, <2>7, <2>8, <2>9, <2>10, <2>11 DEF FreeOn
  <2>14. db2 \in [first_clean_block : Blocks, block_num : 4 .. MaxBlocks + 1]
    BY <2>4, <2>5, <2>12
  <2> QED BY <1>3, <2>13, <2>14
<1>7. CASE ~Grows
  <2>1. next_id[first] # first
    BY <1>7 DEF Grows
  <2>2. Len(f) # 1
    BY <1>2, <2>1 DEF Listed
  <2>3. PICK g : g = Tail(f)
    OBVIOUS
  <2>4. /\ Listed(g, next_id[first], last, next_id)
        /\ Range(g) = Range(f) \ {first} /\ first # last
    BY <1>2, <2>2, <2>3, ListedTail
  <2>5. db2 = [first_clean_block |-> next_id[first], block_num |-> num]
    BY <1>5, <1>7 DEF Popped
  <2>6. \A b \in Range(g) : link[b] = next_id[b]
    BY <1>0, <1>2, <1>3, <2>4
  <2>7. Listed(g, next_id[first], last, link) /\ link[last] = last
    <3>1. last \in Range(g)
      BY <1>3, <2>4
    <3> QED BY <1>2, <2>4, <2>6, <3>1, ListedSame
  <2>8. g[Len(g)] = last
    BY <2>4 DEF Listed
  <2>9. \A b \in Blocks : b >= num => link[b] = b
    <3> SUFFICES ASSUME NEW b \in Blocks, b >= num PROVE link[b] = b
      OBVIOUS
    <3>1. b \notin 2 .. num - 1
      BY <1>4 DEF Blocks
    <3> QED BY <1>0, <1>2, <1>3, <1>4, <3>1
  <2>10. /\ (Range(c) \cup {first}) \cap Range(g) = {}
         /\ (Range(c) \cup {first}) \cup Range(g) = 2 .. num - 1
    BY <1>2, <1>3, <1>4, <2>4
  <2>11. FreeOn(g, db2, link, Range(c) \cup {first})
    BY <2>5, <2>7, <2>8, <2>9, <2>10 DEF FreeOn
  <2>12. db2 \in [first_clean_block : Blocks, block_num : 4 .. MaxBlocks + 1]
    BY <1>4, <1>5, <2>5
  <2> QED BY <1>3, <2>11, <2>12
<1> QED BY <1>6, <1>7

(* An insert into a block popped for it.                                   *)
LEMMA InsertPops ==
  ASSUME FileTyped, NEW c, NEW f, Shape(c, f), Quiet(c), run = Idle,
         NEW v \in Values, Insert(v), Pops
  PROVE  /\ FileTyped' /\ run' = Idle /\ held' = Store!Inserted(held, v)
         /\ \E c2, f2 : Shape(c2, f2)' /\ Quiet(c2)'
<1>1. PICK last \in Blocks : last = tb.last_record_block_id
  BY DEF FileTyped
<1>2. ~(offset[last] < Slots) /\ offset[last] # 0
  BY <1>1, RowsAssumption DEF FileTyped, Pops, Fits
<1>3. PICK row : row = [v |-> v, valid |-> TRUE]
  OBVIOUS
<1>4. PICK blk : blk = db.first_clean_block
  OBVIOUS
<1>5. PICK db2 : db2 = Popped
  OBVIOUS
<1>6. /\ db' = db2 /\ run' = Idle
      /\ next_id' = [next_id EXCEPT ![last] = blk, ![blk] = blk]
      /\ slots' = [slots EXCEPT ![blk] = [slots[last] EXCEPT ![1] = row]]
      /\ offset' = [offset EXCEPT ![blk] = 1]
      /\ tb' = [tb EXCEPT !.last_record_block_id = blk, !.num_rows = @ + 1]
      /\ held' = Counted(TableRows') /\ tb.num_rows < MaxRows
      /\ Roomy
  BY <1>1, <1>3, <1>4, <1>5 DEF Insert, GrownDb, InsertOffset, Popped, Roomy
<1>7. PICK link : link = next_id'
  OBVIOUS
<1>8. Listed(c, tb.first_record_block_id, last, next_id) /\ Filled(c, offset, slots)
  BY <1>1 DEF Shape
<1>9. /\ last \in Range(c) /\ Range(c) \subseteq Blocks /\ IsFiniteSet(Range(c))
      /\ Len(c) \in Nat \ {0} /\ Range(c) = {c[i] : i \in 1 .. Len(c)}
  BY <1>8, ListedOn
<1>10. SameBut(next_id, link, Range(c) \cup {blk})
  BY <1>6, <1>7, <1>9 DEF FileTyped, SameBut
<1>11. /\ blk \in Blocks /\ blk \notin Range(c)
       /\ db2 \in [first_clean_block : Blocks, block_num : 4 .. MaxBlocks + 1]
       /\ \E g : FreeOn(g, db2, link, Range(c) \cup {blk})
  <2>1. Roomy
    BY <1>6
  <2> QED BY <1>4, <1>5, <1>10, <2>1, PoppedFree
<1>12. PICK g : FreeOn(g, db2, link, Range(c) \cup {blk})
  BY <1>11
<1>13. /\ link[last] = blk /\ link[blk] = blk /\ last # blk
       /\ \A b \in Range(c) \ {last} : link[b] = next_id[b]
  BY <1>6, <1>7, <1>9, <1>11 DEF FileTyped
<1>14. PICK d : d = Append(c, blk)
  OBVIOUS
<1>15. Listed(d, tb.first_record_block_id, blk, link) /\ Range(d) = Range(c) \cup {blk}
  <2>1. PICK first : first = tb.first_record_block_id
    OBVIOUS
  <2>2. Listed(c, first, last, next_id)
    BY <1>8, <2>1
  <2>3. Listed(Append(c, blk), first, blk, link) /\ Range(Append(c, blk)) = Range(c) \cup {blk}
    BY <1>11, <1>13, <2>2, ListedAppend
  <2> QED BY <1>14, <2>1, <2>3
<1>16. /\ tb'.first_record_block_id = tb.first_record_block_id
       /\ tb'.last_record_block_id = blk
       /\ tb'.num_rows = tb.num_rows + 1
       /\ tb' \in [first_record_block_id : Blocks, last_record_block_id : Blocks,
                   num_rows : 0 .. MaxRows]
  <2>1. PICK first \in Blocks : first = tb.first_record_block_id
    BY DEF FileTyped
  <2>2. PICK num \in 0 .. MaxRows : num = tb.num_rows
    BY DEF FileTyped
  <2>3. tb' = [first_record_block_id |-> first, last_record_block_id |-> blk, num_rows |-> num + 1]
    BY <1>6, <2>1, <2>2 DEF FileTyped
  <2>4. num + 1 \in 0 .. MaxRows
    BY <1>6, <2>2, RowsAssumption
  <2> QED BY <1>11, <2>1, <2>2, <2>3, <2>4
<1>17. row \in [v : Values \cup {0}, valid : BOOLEAN] /\ 1 \in 1 .. Slots /\ 1 \in 0 .. Slots
  BY <1>3, RowsAssumption
<1>18. FileTyped'
  <2>1. offset' \in [Blocks -> 0 .. Slots]
    BY <1>6, <1>17 DEF FileTyped
  <2>2. slots' \in [Blocks -> [1 .. Slots -> [v : Values \cup {0}, valid : BOOLEAN]]]
    BY <1>6, <1>17 DEF FileTyped
  <2>3. next_id' \in [Blocks -> Blocks]
    BY <1>6, <1>11 DEF FileTyped
  <2> QED BY <1>6, <1>11, <1>16, <2>1, <2>2, <2>3 DEF FileTyped
<1>19. /\ offset'[blk] = 1 /\ slots'[blk][1] = row
       /\ \A b \in Range(c) : offset'[b] = offset[b] /\ slots'[b] = slots[b]
  <2>1. slots'[blk] = [slots[last] EXCEPT ![1] = row]
    BY <1>6, <1>11 DEF FileTyped
  <2>2. slots[last] \in [1 .. Slots -> [v : Values \cup {0}, valid : BOOLEAN]]
    BY DEF FileTyped
  <2> QED BY <1>6, <1>9, <1>11, <1>17, <2>1, <2>2 DEF FileTyped
<1>20. /\ Len(d) = Len(c) + 1 /\ d[Len(c) + 1] = blk
       /\ \A i \in 1 .. Len(c) : d[i] = c[i] /\ d[i] \in Range(c)
  BY <1>8, <1>9, <1>11, <1>14 DEF Listed
<1>21. \A i \in 1 .. Len(d) : i \in 1 .. Len(c) \/ d[i] = blk
  <2>1. PICK n \in Nat : n = Len(c) /\ Len(d) = n + 1 /\ d[n + 1] = blk
    BY <1>9, <1>20
  <2>2. \A i \in 1 .. n + 1 : i \in 1 .. n \/ i = n + 1
    BY <2>1
  <2> QED BY <2>1, <2>2
<1>22. Filled(d, offset', slots')
  <2> SUFFICES ASSUME NEW i \in 1 .. Len(d), NEW s \in 1 .. offset'[d[i]]
               PROVE  slots'[d[i]][s].v \in Values /\ slots'[d[i]][s].valid = TRUE
    BY DEF Filled
  <2>1. CASE i \in 1 .. Len(c)
    <3>1. d[i] = c[i] /\ slots'[d[i]] = slots[c[i]] /\ offset'[d[i]] = offset[c[i]]
      BY <1>19, <1>20, <2>1
    <3> QED BY <1>8, <2>1, <3>1 DEF Filled
  <2>2. CASE d[i] = blk
    <3>1. s = 1
      BY <1>19, <2>2
    <3> QED BY <1>3, <1>19, <2>2, <3>1
  <2> QED BY <1>21, <2>1, <2>2
<1>23. \A i \in 1 .. Len(d) : offset'[d[i]] # 0
  <2>1. ASSUME NEW i \in 1 .. Len(c) PROVE offset[c[i]] # 0
    <3>1. CASE Len(c) = 1
      BY <1>2, <1>8, <3>1 DEF Listed
    <3>2. CASE Len(c) # 1
      BY <3>2 DEF Shape
    <3> QED BY <3>1, <3>2
  <2> QED BY <1>19, <1>20, <1>21, <2>1
<1>24. Shape(d, g)'
  <2>1. Listed(d, tb'.first_record_block_id, tb'.last_record_block_id, next_id')
    BY <1>7, <1>15, <1>16
  <2>2. FreeOn(g, db', next_id', Range(d))
    BY <1>6, <1>7, <1>12, <1>15
  <2> QED BY <1>22, <1>23, <2>1, <2>2 DEF Shape
<1>25. ASSUME NEW P
       PROVE  Total(Weights(offset', slots', P), Range(d)) =
              Total(Weights(offset, slots, P), Range(c)) + (IF v \in P THEN 1 ELSE 0)
  <2>1. PICK W : W = Weights(offset, slots, P)
    OBVIOUS
  <2>2. PICK W2 : W2 = Weights(offset', slots', P)
    OBVIOUS
  <2>3. /\ \A b \in Blocks : W[b] \in Nat /\ W[b] = Count(Column(slots[b]), offset[b], P)
        /\ \A b \in Blocks : W2[b] \in Nat /\ W2[b] = Count(Column(slots'[b]), offset'[b], P)
    <3>1. offset \in [Blocks -> 0 .. Slots] /\ offset' \in [Blocks -> 0 .. Slots]
      BY <1>18 DEF FileTyped
    <3> QED BY <2>1, <2>2, <3>1, WeightsNat
  <2>4. \A b \in Range(c) : W2[b] = W[b]
    BY <1>9, <1>19, <2>3
  <2>5. W2[blk] = IF v \in P THEN 1 ELSE 0
    <3>1. PICK h : h = Column(slots'[blk])
      OBVIOUS
    <3>2. h[0 + 1] = v
      BY <1>3, <1>17, <1>19, <3>1 DEF Column
    <3>3. Count(h, 0 + 1, P) = Count(h, 0, P) + (IF h[0 + 1] \in P THEN 1 ELSE 0)
      BY CountNext
    <3>4. Count(h, 0, P) = 0 /\ 0 + 1 = 1
      BY CountNone
    <3> QED BY <1>11, <1>19, <2>3, <3>1, <3>2, <3>3, <3>4
  <2>6. Total(W2, Range(c)) = Total(W, Range(c))
    BY <1>9, <2>4, TotalSame
  <2>7. /\ Total(W2, Range(c) \cup {blk}) = W2[blk] + Total(W2, Range(c))
        /\ Total(W2, Range(c)) \in Nat
    <3>1. \A b \in Range(c) \cup {blk} : W2[b] \in Nat
      BY <1>9, <1>11, <2>3
    <3> QED BY <1>9, <1>11, <3>1, TotalAdd
  <2> QED BY <1>15, <2>1, <2>2, <2>5, <2>6, <2>7
<1>26. Quiet(d)' /\ held' = Store!Inserted(held, v)
  BY <1>6, <1>16, <1>18, <1>24, <1>25, InsertCounts
<1> QED BY <1>6, <1>18, <1>24, <1>26
-----------------------------------------------------------------------------
(* An insert keeps the invariant and adds the row to the table.            *)
LEMMA InsertInv ==
  ASSUME FileTyped, NEW c, NEW f, Shape(c, f), Calls(c), NEW v \in Values, Insert(v)
  PROVE  Inv' /\ held' = Store!Inserted(held, v)
<1>1. run = Idle /\ Quiet(c)
  BY CallOf DEF Insert
<1>2. CASE Pops
  <2>1. /\ FileTyped' /\ run' = Idle /\ held' = Store!Inserted(held, v)
        /\ \E c2, f2 : Shape(c2, f2)' /\ Quiet(c2)'
    BY <1>1, <1>2, InsertPops
  <2> QED BY <2>1 DEF Inv, Calls
<1>3. CASE ~Pops
  <2>1. FileTyped' /\ Shape(c, f)' /\ Quiet(c)' /\ run' = Idle /\ held' = Store!Inserted(held, v)
    BY <1>1, <1>3, InsertFits
  <2> QED BY <2>1 DEF Inv, Calls
<1> QED BY <1>2, <1>3
-----------------------------------------------------------------------------
(* What a step that leaves the file alone keeps.                           *)
FileVars == <<db, tb, next_id, offset, slots>>

(* The file part of the invariant, and the rows, stay as they are.         *)
LEMMA FileKept ==
  ASSUME FileTyped, NEW c, NEW f, Shape(c, f), FileVars' = FileVars
  PROVE  /\ FileTyped' /\ Shape(c, f)' /\ All(c)' = All(c)
         /\ offset' = offset /\ slots' = slots /\ tb' = tb /\ next_id' = next_id
         /\ \A b : Open(b)' = Open(b)
         /\ held' = held /\ Quiet(c) => Quiet(c)'
<1>1. db' = db /\ tb' = tb /\ next_id' = next_id /\ offset' = offset /\ slots' = slots
  BY DEF FileVars
<1>2. All(c)' = All(c)
  BY <1>1 DEF All
<1>3. FileTyped'
  BY <1>1 DEF FileTyped
<1>4. Shape(c, f)'
  BY <1>1 DEF Shape
<1>5. \A b : Open(b)' = Open(b)
  BY <1>1 DEF Open
<1>6. held' = held /\ Quiet(c) => Quiet(c)'
  BY <1>1, <1>2 DEF Quiet
<1> QED BY <1>1, <1>2, <1>3, <1>4, <1>5, <1>6

(* The rows of the table and the places they begin at in each block.       *)
LEMMA AllLaid ==
  ASSUME FileTyped, NEW c, NEW f, Shape(c, f)
  PROVE  /\ All(c) \in Seq(Values) /\ Len(All(c)) \in Nat
         /\ \E at : Lays(All(c), at, c, offset, slots)
         /\ Len(c) \in Nat \ {0} /\ c[1] = tb.first_record_block_id
         /\ c[Len(c)] = tb.last_record_block_id
         /\ \A i \in 1 .. Len(c) : c[i] \in Blocks /\ offset[c[i]] \in 0 .. Slots
         /\ \A i, j \in 1 .. Len(c) : c[i] = c[j] => i = j
<1>1. Listed(c, tb.first_record_block_id, tb.last_record_block_id, next_id) /\ Filled(c, offset, slots)
  BY DEF Shape
<1>2. offset \in [Blocks -> 0 .. Slots]
  BY DEF FileTyped
<1>3. PICK rows : rows = All(c)
  OBVIOUS
<1>4. rows \in Seq(Values) /\ \E at : Lays(rows, at, c, offset, slots)
  <2>1. rows = FlattenSeq(Texts(c, offset, slots))
    BY <1>3 DEF All
  <2>2. PICK first, last, link : Listed(c, first, last, link)
    BY <1>1
  <2>3. PICK used, page : used \in [Blocks -> 0 .. Slots] /\ used = offset /\ page = slots
    BY <1>2
  <2> QED BY <1>1, <2>1, <2>2, <2>3, AllIs
<1>5. c \in Seq(Blocks) /\ Len(c) # 0
  BY <1>1 DEF Listed
<1>6. Len(c) \in Nat \ {0}
  BY <1>5
<1>7. \A i \in 1 .. Len(c) : c[i] \in Blocks /\ offset[c[i]] \in 0 .. Slots
  BY <1>2, <1>5
<1>8. /\ c[1] = tb.first_record_block_id /\ c[Len(c)] = tb.last_record_block_id
      /\ \A i, j \in 1 .. Len(c) : c[i] = c[j] => i = j
  BY <1>1 DEF Listed
<1> QED BY <1>3, <1>4, <1>6, <1>7, <1>8

(* The row behind the place select and update have reached is the next one *)
(* of the table.                                                           *)
LEMMA NextPlace ==
  ASSUME FileTyped, NEW c, NEW f, Shape(c, f),
         NEW at, Lays(All(c), at, c, offset, slots),
         NEW k \in 1 .. Len(c), NEW off \in 0 .. offset[c[k]],
         run.curr = Open(c[k]), run.off = off,
         k # Len(c) \/ off # offset[c[k]]
  PROVE  \E l \in 1 .. Len(c) : \E s \in 1 .. offset[c[l]] :
           /\ Here = Open(c[l]) /\ Place = s
           /\ at[l] + s = (at[k] + off) + 1 /\ at[k] + off \in Nat
           /\ All(c)[(at[k] + off) + 1] = slots[c[l]][s].v
<1>1. PICK n \in Nat \ {0} : n = Len(c)
  BY AllLaid
<1>2. PICK m \in 0 .. Slots : m = offset[c[k]]
  BY AllLaid
<1>3. Open(c[k]).offset = m /\ Open(c[k]).next_id = next_id[c[k]]
  BY <1>2 DEF Open
<1>4. at[k] \in Nat /\ at[k + 1] = at[k] + m
  BY <1>1, <1>2 DEF Lays
<1>5. CASE off = m
  <2>1. AtEnd
    BY <1>2, <1>3, <1>5, RowsAssumption DEF AtEnd
  <2>2. k \in 1 .. n - 1
    BY <1>1, <1>2, <1>5
  <2>3. PICK l \in 1 .. n : l = k + 1
    BY <2>2
  <2>4. next_id[c[k]] = c[l]
    BY <1>1, <2>2, <2>3 DEF Shape, Listed
  <2>5. Here = Open(c[l]) /\ Place = 1
    BY <1>3, <2>1, <2>4 DEF Here, Place
  <2>6. 1 \in 1 .. offset[c[l]]
    <3>1. n # 1
      BY <2>2
    <3>2. offset[c[l]] # 0
      BY <1>1, <2>3, <3>1 DEF Shape
    <3>3. offset[c[l]] \in 0 .. Slots
      BY <1>1, <2>3, AllLaid
    <3> QED BY <3>2, <3>3, RowsAssumption
  <2>7. at[l] + 1 = (at[k] + off) + 1 /\ at[k] + off \in Nat
    BY <1>4, <1>5, <2>3, RowsAssumption
  <2>8. All(c)[at[l] + 1] = slots[c[l]][1].v
    BY <1>1, <2>3, <2>6 DEF Lays
  <2> QED BY <1>1, <2>3, <2>5, <2>6, <2>7, <2>8
<1>6. CASE off # m
  <2>1. ~AtEnd /\ off \in Nat /\ off < m
    BY <1>2, <1>3, <1>6, RowsAssumption DEF AtEnd
  <2>2. PICK s \in 1 .. m : s = off + 1
    <3>1. off + 1 \in 1 .. m
      BY <1>2, <2>1, RowsAssumption
    <3> QED BY <3>1
  <2>3. Here = Open(c[k]) /\ Place = s
    BY <2>1, <2>2 DEF Here, Place
  <2>4. at[k] + s = (at[k] + off) + 1 /\ at[k] + off \in Nat
    BY <1>4, <2>1, <2>2
  <2>5. All(c)[at[k] + s] = slots[c[k]][s].v
    BY <1>2, <2>2 DEF Lays
  <2> QED BY <1>2, <2>2, <2>3, <2>4, <2>5
<1> QED BY <1>5, <1>6
-----------------------------------------------------------------------------
(* Select.                                                                 *)
LEMMA SelectStartInv ==
  ASSUME FileTyped, NEW c, NEW f, Shape(c, f), Calls(c), NEW S, SelectStart(S)
  PROVE  Inv' /\ held' = held
<1>1. Quiet(c) /\ FileVars' = FileVars /\ held' = held
  BY CallOf DEF SelectStart, FileVars
<1>2. /\ FileTyped' /\ Shape(c, f)' /\ All(c)' = All(c) /\ Quiet(c)'
      /\ offset' = offset /\ slots' = slots /\ \A b : Open(b)' = Open(b)
  BY <1>1, FileKept
<1>3. PICK at : Lays(All(c), at, c, offset, slots)
  BY AllLaid
<1>4. /\ 1 \in 1 .. Len(c) /\ c[1] = tb.first_record_block_id /\ 0 \in 0 .. offset[c[1]]
  <2>1. PICK n \in Nat \ {0} : n = Len(c)
    BY AllLaid
  <2>2. 1 \in 1 .. n
    OBVIOUS
  <2>3. offset[c[1]] \in 0 .. Slots
    BY <2>1, <2>2, AllLaid
  <2>4. 0 \in 0 .. offset[c[1]]
    BY <2>3, RowsAssumption
  <2> QED BY <2>1, <2>2, <2>4, AllLaid
<1>5. Chosen(All(c), at[1] + 0, S) = <<>>
  <2>1. at[1] + 0 = 0
    BY <1>3 DEF Lays
  <2> QED BY <2>1, ChosenNone
<1>6. run' = [op |-> "select", cond |-> S, got |-> Chosen(All(c)', at[1] + 0, S),
              curr |-> Open(c[1])', off |-> 0]
  BY <1>2, <1>4, <1>5 DEF SelectStart
<1>7. Selecting(c)'
  BY <1>2, <1>3, <1>4, <1>6 DEF Selecting
<1> QED BY <1>1, <1>2, <1>7 DEF Inv, Calls

(* The number a full select returns names its block and its offset.        *)
LEMMA Coded ==
  ASSUME NEW b \in Nat, NEW off \in 0 .. Slots
  PROVE  /\ (off + b * BlockSize) % BlockSize = off
         /\ (off + b * BlockSize) \div BlockSize = b
BY RowsAssumption DEF BlockSize

(* A call that goes on where the last one stopped.                         *)
LEMMA SelectResumeInv ==
  ASSUME FileTyped, NEW c, NEW f, Shape(c, f), Calls(c), SelectResume
  PROVE  Inv' /\ held' = held
<1>1. Stopped(c) /\ FileVars' = FileVars /\ held' = held
  BY CallOf DEF SelectResume, FileVars
<1>2. PICK at, S, off : \E k \in 1 .. Len(c) :
        /\ Quiet(c) /\ Lays(All(c), at, c, offset, slots)
        /\ off \in 1 .. offset[c[k]]
        /\ run = [op |-> "full", cond |-> S, got |-> Chosen(All(c), at[k] + off, S),
                  block_offset |-> off + c[k] * BlockSize]
  BY <1>1 DEF Stopped
<1>3. PICK k \in 1 .. Len(c) :
        /\ Quiet(c) /\ Lays(All(c), at, c, offset, slots)
        /\ off \in 1 .. offset[c[k]]
        /\ run = [op |-> "full", cond |-> S, got |-> Chosen(All(c), at[k] + off, S),
                  block_offset |-> off + c[k] * BlockSize]
  BY <1>2
<1>4. /\ FileTyped' /\ Shape(c, f)' /\ All(c)' = All(c) /\ Quiet(c)'
      /\ offset' = offset /\ slots' = slots /\ \A b : Open(b)' = Open(b)
  BY <1>1, <1>3, FileKept
<1>5. off \in 0 .. Slots /\ off \in 0 .. offset[c[k]] /\ c[k] \in Nat
  <2>1. offset[c[k]] \in 0 .. Slots /\ c[k] \in Blocks
    BY AllLaid
  <2> QED BY <1>3, <2>1, RowsAssumption DEF Blocks
<1>6. run.block_offset % BlockSize = off /\ run.block_offset \div BlockSize = c[k]
  BY <1>3, <1>5, Coded
<1>7. run' = [op |-> "select", cond |-> S, got |-> Chosen(All(c)', at[k] + off, S),
              curr |-> Open(c[k])', off |-> off]
  BY <1>3, <1>4, <1>6 DEF SelectResume, ResumeOff
<1>8. Selecting(c)'
  BY <1>3, <1>4, <1>5, <1>7 DEF Selecting
<1> QED BY <1>1, <1>4, <1>8 DEF Inv, Calls

(* What a select has reached.                                              *)
LEMMA SelectAt ==
  ASSUME FileTyped, NEW c, NEW f, Shape(c, f), Calls(c), run.op = "select"
  PROVE  \E at, S, off : \E k \in 1 .. Len(c) :
           /\ Quiet(c) /\ Lays(All(c), at, c, offset, slots)
           /\ off \in 0 .. offset[c[k]]
           /\ run = [op |-> "select", cond |-> S, got |-> Chosen(All(c), at[k] + off, S),
                     curr |-> Open(c[k]), off |-> off]
           /\ SelectMore <=> (k # Len(c) \/ off # offset[c[k]])
<1>1. Selecting(c)
  BY CallOf
<1>2. PICK at, S, off : \E k \in 1 .. Len(c) :
        /\ Quiet(c) /\ Lays(All(c), at, c, offset, slots)
        /\ off \in 0 .. offset[c[k]]
        /\ run = [op |-> "select", cond |-> S, got |-> Chosen(All(c), at[k] + off, S),
                  curr |-> Open(c[k]), off |-> off]
  BY <1>1 DEF Selecting
<1>3. PICK k \in 1 .. Len(c) :
        /\ Quiet(c) /\ Lays(All(c), at, c, offset, slots)
        /\ off \in 0 .. offset[c[k]]
        /\ run = [op |-> "select", cond |-> S, got |-> Chosen(All(c), at[k] + off, S),
                  curr |-> Open(c[k]), off |-> off]
  BY <1>2
<1>4. offset[c[k]] \in Nat /\ (off < offset[c[k]] <=> off # offset[c[k]])
  <2>1. offset[c[k]] \in 0 .. Slots
    BY AllLaid
  <2> QED BY <1>3, <2>1, RowsAssumption
<1>5. c[k] # tb.last_record_block_id <=> k # Len(c)
  <2>1. Len(c) \in 1 .. Len(c) /\ c[Len(c)] = tb.last_record_block_id
    BY AllLaid
  <2> QED BY <2>1, AllLaid
<1>6. Open(c[k]).id = c[k] /\ Open(c[k]).offset = offset[c[k]]
  BY DEF Open
<1>7. run.off = off /\ run.curr = Open(c[k])
  BY <1>3
<1>8. SelectMore <=> (k # Len(c) \/ off # offset[c[k]])
  BY <1>4, <1>5, <1>6, <1>7 DEF SelectMore
<1> QED BY <1>3, <1>8

(* One row looked at; the call may return after a row it selects.          *)
LEMMA SelectRowInv ==
  ASSUME FileTyped, NEW c, NEW f, Shape(c, f), Calls(c), SelectRow
  PROVE  Inv' /\ held' = held
<1>1. run.op = "select" /\ SelectMore /\ FileVars' = FileVars /\ held' = held
  BY DEF SelectRow, FileVars
<1>2. PICK at, S, off : \E k \in 1 .. Len(c) :
        /\ Quiet(c) /\ Lays(All(c), at, c, offset, slots)
        /\ off \in 0 .. offset[c[k]]
        /\ run = [op |-> "select", cond |-> S, got |-> Chosen(All(c), at[k] + off, S),
                  curr |-> Open(c[k]), off |-> off]
        /\ SelectMore <=> (k # Len(c) \/ off # offset[c[k]])
  BY <1>1, SelectAt
<1>3. PICK k \in 1 .. Len(c) :
        /\ Quiet(c) /\ Lays(All(c), at, c, offset, slots)
        /\ off \in 0 .. offset[c[k]]
        /\ run = [op |-> "select", cond |-> S, got |-> Chosen(All(c), at[k] + off, S),
                  curr |-> Open(c[k]), off |-> off]
        /\ (k # Len(c) \/ off # offset[c[k]])
  BY <1>1, <1>2
<1>4. /\ FileTyped' /\ Shape(c, f)' /\ All(c)' = All(c) /\ Quiet(c)'
      /\ offset' = offset /\ slots' = slots /\ \A b : Open(b)' = Open(b)
  BY <1>1, <1>3, FileKept
<1>5. PICK l \in 1 .. Len(c) : \E s \in 1 .. offset[c[l]] :
           /\ Here = Open(c[l]) /\ Place = s
           /\ at[l] + s = (at[k] + off) + 1 /\ at[k] + off \in Nat
           /\ All(c)[(at[k] + off) + 1] = slots[c[l]][s].v
  <2>1. run.curr = Open(c[k]) /\ run.off = off
    BY <1>3
  <2> QED BY <1>3, <2>1, NextPlace
<1>6. PICK s \in 1 .. offset[c[l]] :
           /\ Here = Open(c[l]) /\ Place = s
           /\ at[l] + s = (at[k] + off) + 1 /\ at[k] + off \in Nat
           /\ All(c)[(at[k] + off) + 1] = slots[c[l]][s].v
  BY <1>5
<1>7. PICK v : v = slots[c[l]][s].v /\ v = Here.page[Place].v
  BY <1>6 DEF Open
<1>8. PICK got : got = IF v \in S THEN Append(run.got, v) ELSE run.got
  OBVIOUS
<1>9. got = Chosen(All(c), at[l] + s, S)
  <2>1. PICK m \in Nat : m = at[k] + off /\ at[l] + s = m + 1
    BY <1>6
  <2>2. run.got = Chosen(All(c), m, S) /\ All(c)[m + 1] = v
    BY <1>3, <1>6, <1>7, <2>1
  <2>3. Chosen(All(c), m + 1, S) = IF All(c)[m + 1] \in S THEN Append(Chosen(All(c), m, S), All(c)[m + 1])
                                  ELSE Chosen(All(c), m, S)
    BY ChosenNext
  <2> QED BY <1>8, <2>1, <2>2, <2>3
<1>10. s \in 0 .. offset[c[l]]
  <2>1. offset[c[l]] \in 0 .. Slots
    BY AllLaid
  <2> QED BY <2>1, RowsAssumption
<1>11. \/ run' = [run EXCEPT !.curr = Here, !.off = Place, !.got = got]
       \/ run' = [op |-> "full", cond |-> run.cond, got |-> got,
                  block_offset |-> Place + Here.id * BlockSize]
  BY <1>3, <1>7, <1>8 DEF SelectRow
<1>12. CASE run' = [run EXCEPT !.curr = Here, !.off = Place, !.got = got]
  <2>1. run' = [op |-> "select", cond |-> S, got |-> got, curr |-> Open(c[l]), off |-> s]
    BY <1>3, <1>6, <1>12
  <2>2. run' = [op |-> "select", cond |-> S, got |-> Chosen(All(c)', at[l] + s, S),
                curr |-> Open(c[l])', off |-> s]
    BY <1>4, <1>9, <2>1
  <2>3. Selecting(c)'
    BY <1>3, <1>4, <1>10, <2>2 DEF Selecting
  <2> QED BY <1>1, <1>4, <2>3 DEF Inv, Calls
<1>13. CASE run' = [op |-> "full", cond |-> run.cond, got |-> got,
                    block_offset |-> Place + Here.id * BlockSize]
  <2>1. run' = [op |-> "full", cond |-> S, got |-> Chosen(All(c)', at[l] + s, S),
                block_offset |-> s + c[l] * BlockSize]
    <3>1. Open(c[l]).id = c[l] /\ run.cond = S
      BY <1>3 DEF Open
    <3> QED BY <1>4, <1>6, <1>9, <1>13, <3>1
  <2>2. Stopped(c)'
    BY <1>3, <1>4, <2>1 DEF Stopped
  <2> QED BY <1>1, <1>4, <2>2 DEF Inv, Calls
<1> QED BY <1>11, <1>12, <1>13

(* The end of a select leaves the table alone.                             *)
LEMMA SelectEndInv ==
  ASSUME FileTyped, NEW c, NEW f, Shape(c, f), Calls(c), SelectEnd
  PROVE  Inv' /\ held' = held
<1>1. run.op = "select" /\ FileVars' = FileVars /\ held' = held /\ run' = Idle
  BY DEF SelectEnd, FileVars
<1>2. Quiet(c)
  BY <1>1, CallOf DEF Selecting
<1>3. FileTyped' /\ Shape(c, f)' /\ Quiet(c)'
  BY <1>1, <1>2, FileKept
<1> QED BY <1>1, <1>3 DEF Inv, Calls

(* At its end a select has all the rows named.                             *)
LEMMA SelectDone ==
  ASSUME FileTyped, NEW c, NEW f, Shape(c, f), Calls(c)
  PROVE  SelectExact
<1> SUFFICES ASSUME run.op = "select", ~SelectMore
             PROVE  run.got = Chosen(TableRows, Len(TableRows), run.cond)
  BY DEF SelectExact
<1>1. PICK at, S, off : \E k \in 1 .. Len(c) :
        /\ Quiet(c) /\ Lays(All(c), at, c, offset, slots)
        /\ off \in 0 .. offset[c[k]]
        /\ run = [op |-> "select", cond |-> S, got |-> Chosen(All(c), at[k] + off, S),
                  curr |-> Open(c[k]), off |-> off]
        /\ SelectMore <=> (k # Len(c) \/ off # offset[c[k]])
  BY SelectAt
<1>2. PICK k \in 1 .. Len(c) :
        /\ Lays(All(c), at, c, offset, slots) /\ off \in 0 .. offset[c[k]]
        /\ run = [op |-> "select", cond |-> S, got |-> Chosen(All(c), at[k] + off, S),
                  curr |-> Open(c[k]), off |-> off]
        /\ k = Len(c) /\ off = offset[c[k]]
  BY <1>1
<1>3. at[k] + off = Len(All(c))
  BY <1>2 DEF Lays
<1>4. TableRows = All(c)
  BY TableRead DEF Shape, ReadsRight, All
<1> QED BY <1>2, <1>3, <1>4
-----------------------------------------------------------------------------
-----------------------------------------------------------------------------
(* The places of the rows, when one row is changed.                        *)
Places(at, n, size) ==
  /\ at \in [1 .. n + 1 -> Nat] /\ at[1] = 0
  /\ \A i \in 1 .. n : size[i] \in Nat /\ at[i + 1] = at[i] + size[i]

(* A row is at one place only.                                             *)
LEMMA PlacesOnce ==
  ASSUME NEW n \in Nat, NEW size, NEW at, NEW at2, Places(at, n, size), Places(at2, n, size)
  PROVE  at2 = at
<1> USE DEF Places
<1> DEFINE N == {i \in 1 .. n + 1 : at2[i] # at[i]}
<1>1. SUFFICES ASSUME N # {} PROVE FALSE
  <2>1. ASSUME N = {} PROVE at2 = at
    <3>1. \A i \in 1 .. n + 1 : at2[i] = at[i]
      BY <2>1
    <3>2. PICK D : D = 1 .. n + 1
      OBVIOUS
    <3> QED BY <3>1, <3>2
  <2> QED BY <2>1
<1>2. PICK k \in N : \A y \in N : k <= y
  <2>1. N \in SUBSET Nat
    OBVIOUS
  <2> HIDE DEF N
  <2> QED BY <1>1, <2>1, Least
<1>3. PICK l \in 1 .. n : k = l + 1
  <2>1. k # 1
    OBVIOUS
  <2>2. k - 1 \in 1 .. n /\ k = (k - 1) + 1
    BY <2>1
  <2> QED BY <2>2
<1>4. l \in 1 .. n + 1 /\ ~(k <= l)
  BY <1>3
<1>5. at2[l] = at[l]
  BY <1>2, <1>4
<1> QED BY <1>2, <1>3, <1>5

(* Every row is at some place.                                             *)
LEMMA PlaceOf ==
  ASSUME NEW n \in Nat, NEW at, NEW size, Places(at, n, size),
         NEW last, last = at[n + 1], NEW j \in 1 .. last
  PROVE  \E i \in 1 .. n : \E s \in 1 .. size[i] : j = at[i] + s
<1> USE DEF Places
<1> DEFINE N == {i \in 1 .. n + 1 : j <= at[i]}
<1>1. N # {}
  <2>1. n + 1 \in 1 .. n + 1 /\ at[n + 1] \in Nat
    OBVIOUS
  <2>2. j <= at[n + 1]
    BY <2>1
  <2> QED BY <2>1, <2>2
<1>2. PICK k \in N : \A y \in N : k <= y
  <2>1. N \in SUBSET Nat
    OBVIOUS
  <2> HIDE DEF N
  <2> QED BY <1>1, <2>1, Least
<1>3. PICK l \in 1 .. n : k = l + 1
  <2>0. j \in Nat /\ j >= 1
    <3>1. at[n + 1] \in Nat
      OBVIOUS
    <3> QED BY <3>1
  <2>1. k # 1
    BY <2>0
  <2>2. k - 1 \in 1 .. n /\ k = (k - 1) + 1
    BY <2>1
  <2> QED BY <2>2
<1>4. l \in 1 .. n + 1 /\ ~(k <= l)
  BY <1>3
<1>5. ~(j <= at[l])
  BY <1>2, <1>4
<1>6. j <= at[l] + size[l] /\ at[l] \in Nat /\ size[l] \in Nat /\ j \in Nat
  <2>1. at[n + 1] \in Nat
    OBVIOUS
  <2> QED BY <1>2, <1>3, <1>4, <2>1
<1>7. j - at[l] \in 1 .. size[l] /\ j = at[l] + (j - at[l])
  BY <1>5, <1>6
<1> QED BY <1>7

(* The pages hold the same values but for place t of block l.              *)
SameElse(c, used, page, page2, l, t) ==
  \A i \in 1 .. Len(c) : \A s \in 1 .. used[c[i]] :
    i # l \/ s # t => page2[c[i]][s].v = page[c[i]][s].v

Replaced(rows, rows2, p, x) ==
  /\ Len(rows2) = Len(rows) /\ rows2[p] = x
  /\ \A j \in 1 .. Len(rows) : j # p => rows2[j] = rows[j]

(* Changing that place changes one row of the table.                       *)
LEMMA LaysChange ==
  ASSUME NEW c \in Seq(Blocks), NEW used \in [Blocks -> 0 .. Slots],
         NEW page, NEW page2, NEW rows, NEW at, Lays(rows, at, c, used, page),
         NEW rows2, NEW at2, Lays(rows2, at2, c, used, page2),
         NEW l \in 1 .. Len(c), NEW t \in 1 .. used[c[l]],
         SameElse(c, used, page, page2, l, t)
  PROVE  at2 = at /\ Replaced(rows, rows2, at[l] + t, page2[c[l]][t].v)
<1> DEFINE size == [i \in 1 .. Len(c) |-> used[c[i]]]
<1>0. PICK n \in Nat : n = Len(c)
  OBVIOUS
<1>1. \A i \in 1 .. n : size[i] = used[c[i]] /\ size[i] \in Nat
  BY <1>0, RowsAssumption
<1> HIDE DEF size
<1>2. Places(at, n, size)
  BY <1>0, <1>1 DEF Lays, Places
<1>3. Places(at2, n, size)
  BY <1>0, <1>1 DEF Lays, Places
<1>4. at2 = at
  BY <1>2, <1>3, PlacesOnce
<1>5. Len(rows) = at[Len(c) + 1] /\ Len(rows2) = Len(rows)
  BY <1>4 DEF Lays
<1>6. ASSUME NEW j \in 1 .. Len(rows), j # at[l] + t PROVE rows2[j] = rows[j]
  <2>0. PICK last : last = Len(rows) /\ last = at[n + 1]
    BY <1>0, <1>5
  <2>1. PICK i \in 1 .. n : \E s \in 1 .. size[i] : j = at[i] + s
    BY <1>2, <2>0, PlaceOf
  <2>2. PICK s \in 1 .. used[c[i]] : j = at[i] + s
    BY <1>1, <2>1
  <2>3. i # l \/ s # t
    BY <1>6, <2>2
  <2>4. rows[at[i] + s] = page[c[i]][s].v /\ rows2[at[i] + s] = page2[c[i]][s].v
    BY <1>0, <1>4, <2>2 DEF Lays
  <2> QED BY <1>0, <2>2, <2>3, <2>4 DEF SameElse
<1>7. rows2[at[l] + t] = page2[c[l]][t].v
  BY <1>4 DEF Lays
<1> QED BY <1>4, <1>5, <1>6, <1>7 DEF Replaced
-----------------------------------------------------------------------------
(* Rows counted over sets of values.                                       *)
LEMMA CountBoth ==
  ASSUME NEW n \in Nat, NEW f, NEW P, NEW Q, P \cap Q = {}
  PROVE  Count(f, n, P \cup Q) = Count(f, n, P) + Count(f, n, Q)
<1> DEFINE A == {j \in 1 .. n : f[j] \in P}
           B == {j \in 1 .. n : f[j] \in Q}
<1>1. IsFiniteSet(A) /\ IsFiniteSet(B)
  BY CountNat
<1>2. {j \in 1 .. n : f[j] \in P \cup Q} = A \cup B /\ A \cap B = {}
  OBVIOUS
<1>3. Cardinality(A \cup B) = Cardinality(A) + Cardinality(B) - Cardinality(A \cap B)
  <2> HIDE DEF A, B
  <2> QED BY <1>1, FS_Union
<1>4. Cardinality(A \cap B) = 0
  BY <1>2, FS_EmptySet
<1>5. Cardinality(A) \in Nat /\ Cardinality(B) \in Nat
  BY <1>1, FS_CardinalityType
<1> QED BY <1>2, <1>3, <1>4, <1>5 DEF Count

(* The rows of S are those of each value of S together.                    *)
LEMMA CountTotal ==
  ASSUME NEW rows \in Seq(Values), NEW S \in SUBSET Values
  PROVE  Total(Counted(rows), S) = Count(rows, Len(rows), S)
<1>0. PICK n \in Nat : n = Len(rows)
  OBVIOUS
<1>1. PICK bag : bag = Counted(rows)
  OBVIOUS
<1>2. bag \in [Values -> Nat] /\ \A x \in Values : bag[x] = Count(rows, n, {x})
  BY <1>0, <1>1, CountedIs
<1>3. \A T \in SUBSET Values : IsFiniteSet(T) /\ Cardinality(T) \in Nat
  <2> TAKE T \in SUBSET Values
  <2>1. IsFiniteSet(T)
    BY RowsAssumption, FS_Subset
  <2> QED BY <2>1, FS_CardinalityType
<1> DEFINE Good(T) == Total(bag, T) = Count(rows, n, T)
           N == {k \in Nat : \E T \in SUBSET Values : Cardinality(T) = k /\ ~Good(T)}
<1>4. SUFFICES ASSUME ~Good(S) PROVE FALSE
  BY <1>0, <1>1
<1>5. N # {}
  <2>1. Cardinality(S) \in N
    BY <1>3, <1>4
  <2> QED BY <2>1
<1>6. PICK k \in N : \A y \in N : k <= y
  <2>1. N \in SUBSET Nat
    OBVIOUS
  <2> HIDE DEF N
  <2> QED BY <1>5, <2>1, Least
<1>7. PICK T \in SUBSET Values : Cardinality(T) = k /\ ~Good(T)
  BY <1>6
<1>8. T # {}
  <2>1. Total(bag, {}) = 0
    BY TotalNone
  <2>2. Count(rows, n, {}) = 0
    BY CountNone
  <2>3. Good({})
    BY <2>1, <2>2
  <2> HIDE DEF Good
  <2> QED BY <1>7, <2>3
<1>9. PICK x \in T : TRUE
  BY <1>8
<1>10. PICK R : R = T \ {x}
  OBVIOUS
<1>11. R \in SUBSET Values /\ T = R \cup {x} /\ x \notin R /\ x \in Values /\ R \cap {x} = {}
  BY <1>10
<1>12. IsFiniteSet(R) /\ Cardinality(R) = k - 1 /\ Cardinality(R) \in Nat
  BY <1>3, <1>7, <1>9, <1>10, <1>11, FS_RemoveElement
<1>13. Good(R)
  <2>1. ~(k <= Cardinality(R))
    BY <1>12
  <2>2. Cardinality(R) \notin N
    BY <1>6, <2>1
  <2> HIDE DEF Good
  <2> QED BY <1>11, <1>12, <2>2
<1>14. Total(bag, R \cup {x}) = bag[x] + Total(bag, R)
  <2>1. \A y \in R \cup {x} : bag[y] \in Nat
    BY <1>2, <1>11
  <2> QED BY <1>11, <1>12, <2>1, TotalAdd
<1>15. Count(rows, n, R \cup {x}) = Count(rows, n, R) + Count(rows, n, {x})
  BY <1>11, CountBoth
<1>16. Count(rows, n, R) \in Nat /\ Count(rows, n, {x}) \in Nat
  BY CountNat
<1>17. Good(T)
  BY <1>2, <1>11, <1>13, <1>14, <1>15, <1>16
<1> QED BY <1>7, <1>17

(* All the rows of S changed to v.                                         *)
LEMMA ChangedCounts ==
  ASSUME NEW rows \in Seq(Values), NEW old, NEW m \in Nat, NEW S \in SUBSET Values,
         NEW v \in Values, Changed(rows, old, m, S, v), Len(rows) <= m
  PROVE  Counted(rows) = Store!Updated(Counted(old), S, v)
<1>1. PICK n \in Nat : n = Len(rows) /\ n = Len(old)
  BY DEF Changed
<1>2. old \in Seq(Values) /\ \A j \in 1 .. n : rows[j] = IF old[j] \in S THEN v ELSE old[j]
  BY <1>1 DEF Changed
<1>3. PICK bag : bag = Counted(old)
  OBVIOUS
<1>4. PICK bag2 : bag2 = Counted(rows)
  OBVIOUS
<1>5. /\ bag \in [Values -> Nat] /\ \A x \in Values : bag[x] = Count(old, n, {x})
      /\ bag2 \in [Values -> Nat] /\ \A x \in Values : bag2[x] = Count(rows, n, {x})
  BY <1>1, <1>2, <1>3, <1>4, CountedIs
<1>6. PICK moved : moved = Total(bag, S)
  OBVIOUS
<1>7. moved = Count(old, n, S) /\ moved \in Nat
  <2>1. Count(old, n, S) \in Nat
    BY CountNat
  <2> QED BY <1>1, <1>2, <1>3, <1>6, <2>1, CountTotal
<1>8. PICK left : left = [x \in Values |-> IF x \in S THEN 0 ELSE bag[x]]
  OBVIOUS
<1>9. Store!Updated(bag, S, v) = [left EXCEPT ![v] = @ + moved]
  BY <1>6, <1>8 DEF Store!Updated, Store!Deleted, Store!MapThenSumSet, Store!MapThenFoldSet,
                    Total, Adds, Some
<1>10. ASSUME NEW x \in Values, x # v PROVE bag2[x] = left[x]
  <2>1. CASE x \in S
    <3>1. \A j \in 1 .. n : rows[j] \notin {x}
      BY <1>2, <1>10, <2>1
    <3>2. Count(rows, n, {x}) = 0
      BY <3>1, CountNone
    <3> QED BY <1>5, <1>8, <2>1, <3>2
  <2>2. CASE x \notin S
    <3>1. \A j \in 1 .. n : rows[j] \in {x} <=> old[j] \in {x}
      BY <1>2, <1>10, <2>2
    <3>2. Count(rows, n, {x}) = Count(old, n, {x})
      BY <3>1, CountSame
    <3> QED BY <1>5, <1>8, <2>2, <3>2
  <2> QED BY <2>1, <2>2
<1>11. bag2[v] = left[v] + moved
  <2>1. CASE v \in S
    <3>1. \A j \in 1 .. n : rows[j] \in {v} <=> old[j] \in S
      BY <1>2, <2>1
    <3>2. Count(rows, n, {v}) = Count(old, n, S)
      BY <3>1, CountSame
    <3> QED BY <1>5, <1>7, <1>8, <2>1, <3>2
  <2>2. CASE v \notin S
    <3>1. \A j \in 1 .. n : rows[j] \in {v} <=> old[j] \in S \cup {v}
      BY <1>2
    <3>2. Count(rows, n, {v}) = Count(old, n, S \cup {v})
      BY <3>1, CountSame
    <3>3. Count(old, n, S \cup {v}) = Count(old, n, S) + Count(old, n, {v})
      BY <2>2, CountBoth
    <3>4. Count(old, n, {v}) \in Nat
      BY CountNat
    <3>5. bag2[v] = Count(old, n, S) + Count(old, n, {v})
      BY <1>5, <3>2, <3>3
    <3>6. left[v] = Count(old, n, {v})
      BY <1>5, <1>8, <2>2
    <3> QED BY <1>7, <3>4, <3>5, <3>6
  <2> QED BY <2>1, <2>2
<1>12. bag2 = [left EXCEPT ![v] = @ + moved]
  <2>1. bag2 = [x \in Values |-> bag2[x]]
    BY <1>5
  <2>2. [left EXCEPT ![v] = @ + moved] = [x \in Values |-> IF x = v THEN left[v] + moved ELSE left[x]]
    BY <1>8
  <2>3. \A x \in Values : bag2[x] = IF x = v THEN left[v] + moved ELSE left[x]
    BY <1>10, <1>11
  <2> QED BY <2>1, <2>2, <2>3
<1> QED BY <1>3, <1>4, <1>9, <1>12
-----------------------------------------------------------------------------
-----------------------------------------------------------------------------
(* Update.                                                                 *)
LEMMA UpdateStartInv ==
  ASSUME FileTyped, NEW c, NEW f, Shape(c, f), Calls(c),
         NEW S \in SUBSET Values, NEW v \in Values, UpdateStart(S, v)
  PROVE  Inv' /\ held' = held
<1>1. Quiet(c) /\ FileVars' = FileVars /\ held' = held
  BY CallOf DEF UpdateStart, FileVars
<1>2. /\ FileTyped' /\ Shape(c, f)' /\ All(c)' = All(c) /\ tb' = tb
      /\ offset' = offset /\ slots' = slots /\ \A b : Open(b)' = Open(b)
  BY <1>1, FileKept
<1>3. PICK at : Lays(All(c), at, c, offset, slots)
  BY AllLaid
<1>4. /\ 1 \in 1 .. Len(c) /\ c[1] = tb.first_record_block_id /\ 0 \in 0 .. offset[c[1]]
  <2>1. PICK n \in Nat \ {0} : n = Len(c)
    BY AllLaid
  <2>2. 1 \in 1 .. n
    OBVIOUS
  <2>3. offset[c[1]] \in 0 .. Slots
    BY <2>1, <2>2, AllLaid
  <2>4. 0 \in 0 .. offset[c[1]]
    BY <2>3, RowsAssumption
  <2> QED BY <2>1, <2>2, <2>4, AllLaid
<1>5. at[1] + 0 = 0
  BY <1>3 DEF Lays
<1>6. Changed(All(c), All(c), at[1] + 0, S, v)
  <2>1. All(c) \in Seq(Values) /\ \A j \in 1 .. Len(All(c)) : ~(j <= 0)
    BY AllLaid
  <2> QED BY <1>5, <2>1 DEF Changed
<1>7. run' = [op |-> "update", cond |-> S, value |-> v, curr |-> Open(c[1])', off |-> 0,
              i |-> at[1] + 0]
  BY <1>2, <1>4, <1>5 DEF UpdateStart
<1>8. tb'.num_rows = Len(All(c)') /\ held' = Counted(All(c))
  BY <1>1, <1>2 DEF Quiet
<1>9. Updating(c)'
  BY <1>2, <1>3, <1>4, <1>6, <1>7, <1>8 DEF Updating
<1> QED BY <1>1, <1>2, <1>9 DEF Inv, Calls

(* One more row looked at, and changed if it is one of S.                  *)
LEMMA ChangedNext ==
  ASSUME NEW rows, NEW rows2, NEW old, NEW m \in Nat, NEW S \in SUBSET Values, NEW v \in Values,
         Changed(rows, old, m, S, v), Len(rows2) = Len(rows),
         \A j \in 1 .. Len(rows) : j # m + 1 => rows2[j] = rows[j],
         rows2[m + 1] = IF rows[m + 1] \in S THEN v ELSE rows[m + 1]
  PROVE  Changed(rows2, old, m + 1, S, v)
<1>1. PICK n \in Nat : n = Len(old) /\ n = Len(rows)
  BY DEF Changed
<1>2. \A j \in 1 .. n : rows[j] = IF j <= m /\ old[j] \in S THEN v ELSE old[j]
  BY <1>1 DEF Changed
<1>3. ASSUME NEW j \in 1 .. n
      PROVE  rows2[j] = IF j <= m + 1 /\ old[j] \in S THEN v ELSE old[j]
  <2>1. CASE j = m + 1
    <3>1. ~(j <= m) /\ j <= m + 1
      BY <2>1
    <3>2. rows[j] = old[j]
      BY <1>2, <3>1
    <3> QED BY <2>1, <3>1, <3>2
  <2>2. CASE j # m + 1
    <3>1. j <= m + 1 <=> j <= m
      BY <2>2
    <3>2. rows2[j] = rows[j]
      BY <1>1, <2>2
    <3> QED BY <1>2, <3>1, <3>2
  <2> QED BY <2>1, <2>2
<1> QED BY <1>1, <1>3 DEF Changed

(* One row looked at by update.                                            *)
LEMMA UpdateRowInv ==
  ASSUME FileTyped, NEW c, NEW f, Shape(c, f), Calls(c), UpdateRow
  PROVE  Inv' /\ held' = held
<1>1. run.op = "update" /\ held' = held /\ run.i < tb.num_rows
      /\ db' = db /\ tb' = tb /\ next_id' = next_id /\ offset' = offset
  BY DEF UpdateRow
<1>2. Updating(c)
  BY <1>1, CallOf
<1>3. PICK at, off, old : \E S \in SUBSET Values, v \in Values, k \in 1 .. Len(c) :
        /\ Lays(All(c), at, c, offset, slots)
        /\ tb.num_rows = Len(All(c)) /\ held = Counted(old)
        /\ Changed(All(c), old, at[k] + off, S, v)
        /\ off \in 0 .. offset[c[k]]
        /\ run = [op |-> "update", cond |-> S, value |-> v, curr |-> Open(c[k]),
                  off |-> off, i |-> at[k] + off]
  BY <1>2 DEF Updating
<1>4. PICK S \in SUBSET Values, v \in Values, k \in 1 .. Len(c) :
        /\ Lays(All(c), at, c, offset, slots)
        /\ tb.num_rows = Len(All(c)) /\ held = Counted(old)
        /\ Changed(All(c), old, at[k] + off, S, v)
        /\ off \in 0 .. offset[c[k]]
        /\ run = [op |-> "update", cond |-> S, value |-> v, curr |-> Open(c[k]),
                  off |-> off, i |-> at[k] + off]
  BY <1>3
<1>5. PICK rows \in Seq(Values) : rows = All(c)
  BY AllLaid
<1>6. k # Len(c) \/ off # offset[c[k]]
  <2>1. SUFFICES ASSUME k = Len(c), off = offset[c[k]] PROVE FALSE
    OBVIOUS
  <2>2. at[k] + off = Len(rows) /\ Len(rows) \in Nat
    BY <1>4, <1>5, <2>1 DEF Lays
  <2>3. run.i = at[k] + off /\ tb.num_rows = Len(rows)
    BY <1>4, <1>5
  <2> QED BY <1>1, <2>2, <2>3
<1>7. PICK l \in 1 .. Len(c) : \E s \in 1 .. offset[c[l]] :
           /\ Here = Open(c[l]) /\ Place = s
           /\ at[l] + s = (at[k] + off) + 1 /\ at[k] + off \in Nat
           /\ All(c)[(at[k] + off) + 1] = slots[c[l]][s].v
  <2>1. run.curr = Open(c[k]) /\ run.off = off
    BY <1>4
  <2> QED BY <1>4, <1>6, <2>1, NextPlace
<1>8. PICK s \in 1 .. offset[c[l]] :
           /\ Here = Open(c[l]) /\ Place = s
           /\ at[l] + s = (at[k] + off) + 1 /\ at[k] + off \in Nat
           /\ All(c)[(at[k] + off) + 1] = slots[c[l]][s].v
  BY <1>7
<1>9. PICK m \in Nat : m = at[k] + off /\ at[l] + s = m + 1
  BY <1>8
<1>10. PICK b \in Blocks : b = c[l]
  BY AllLaid
<1>11. /\ slots \in [Blocks -> [1 .. Slots -> [v : Values \cup {0}, valid : BOOLEAN]]]
       /\ offset[b] \in 0 .. Slots
  BY <1>10 DEF FileTyped
<1>12. s \in 1 .. Slots /\ s \in 0 .. offset[b]
  BY <1>10, <1>11, RowsAssumption
<1>13. PICK x : x = slots[b][s].v /\ x = rows[m + 1]
  BY <1>5, <1>8, <1>9, <1>10
<1>14. PICK page : page = IF x \in S THEN [slots[b] EXCEPT ![s].v = v] ELSE slots[b]
  OBVIOUS
<1>15. /\ slots' = [slots EXCEPT ![b] = page]
       /\ run' = [op |-> "update", cond |-> S, value |-> v,
                  curr |-> [Open(b) EXCEPT !.page = page], off |-> s, i |-> m + 1]
  <2>1. Here = Open(b) /\ Open(b).page = slots[b] /\ Open(b).id = b /\ Place = s
    BY <1>8, <1>10 DEF Open
  <2>2. /\ slots' = IF x \in S THEN [slots EXCEPT ![b] = page] ELSE slots
        /\ run' = [run EXCEPT !.curr = [Open(b) EXCEPT !.page = page], !.off = s, !.i = @ + 1]
    <3>1. run.cond = S /\ run.value = v /\ Here.page[Place].v = x
      BY <1>4, <1>10, <1>13, <2>1
    <3>2. CASE x \in S
      BY <1>14, <2>1, <3>1, <3>2 DEF UpdateRow
    <3>3. CASE x \notin S
      BY <1>14, <2>1, <3>1, <3>3 DEF UpdateRow
    <3> QED BY <3>2, <3>3
  <2>3. x \notin S => slots = [slots EXCEPT ![b] = page]
    BY <1>11, <1>14
  <2>4. run' = [op |-> "update", cond |-> S, value |-> v,
                curr |-> [Open(b) EXCEPT !.page = page], off |-> s, i |-> m + 1]
    BY <1>4, <1>9, <2>2
  <2> QED BY <2>2, <2>3, <2>4
<1>16. /\ page \in [1 .. Slots -> [v : Values \cup {0}, valid : BOOLEAN]]
       /\ page[s].v = IF x \in S THEN v ELSE x
       /\ page[s].valid = slots[b][s].valid
       /\ \A t \in 1 .. Slots : t # s => page[t] = slots[b][t]
  <2>1. slots[b] \in [1 .. Slots -> [v : Values \cup {0}, valid : BOOLEAN]]
    BY <1>11
  <2> QED BY <1>12, <1>13, <1>14, <2>1
<1>17. slots'[b] = page /\ \A y \in Blocks : y # b => slots'[y] = slots[y]
  BY <1>11, <1>15
<1>18. FileTyped'
  <2>1. slots' \in [Blocks -> [1 .. Slots -> [v : Values \cup {0}, valid : BOOLEAN]]]
    BY <1>11, <1>15, <1>16
  <2> QED BY <1>1, <2>1 DEF FileTyped
<1>19. ASSUME NEW i \in 1 .. Len(c), NEW t \in 1 .. offset[c[i]]
       PROVE  /\ slots'[c[i]][t].valid = slots[c[i]][t].valid
              /\ i # l \/ t # s => slots'[c[i]][t].v = slots[c[i]][t].v
              /\ i = l /\ t = s => slots'[c[i]][t].v \in Values \cup {slots[c[i]][t].v}
  <2>1. c[i] \in Blocks /\ offset[c[i]] \in 0 .. Slots
    BY AllLaid
  <2>2. t \in 1 .. Slots
    BY <2>1, RowsAssumption
  <2>3. i # l => c[i] # b
    BY <1>10, AllLaid
  <2>4. CASE i = l /\ t = s
    BY <1>10, <1>13, <1>16, <1>17, <2>4
  <2>5. CASE i = l /\ t # s
    BY <1>10, <1>16, <1>17, <2>2, <2>5
  <2>6. CASE i # l
    BY <1>17, <2>1, <2>3, <2>6
  <2> QED BY <2>4, <2>5, <2>6
<1>20. Filled(c, offset, slots) /\ Filled(c, offset, slots')
  <2>1. Filled(c, offset, slots)
    BY DEF Shape
  <2>2. ASSUME NEW i \in 1 .. Len(c), NEW t \in 1 .. offset[c[i]]
        PROVE  slots'[c[i]][t].v \in Values /\ slots'[c[i]][t].valid = TRUE
    <3>1. slots[c[i]][t].v \in Values /\ slots[c[i]][t].valid = TRUE
      BY <2>1 DEF Filled
    <3> QED BY <1>19, <3>1
  <2> QED BY <2>1, <2>2 DEF Filled
<1>21. Shape(c, f)'
  BY <1>1, <1>20 DEF Shape
<1>22. PICK rows2 : rows2 = FlattenSeq(Texts(c, offset, slots'))
  OBVIOUS
<1>23. \E at2 : Lays(rows2, at2, c, offset, slots')
  <2>1. PICK page2 : page2 = slots'
    OBVIOUS
  <2>2. c \in Seq(Blocks) /\ Len(c) # 0 /\ offset \in [Blocks -> 0 .. Slots]
    BY DEF Shape, Listed, FileTyped
  <2>3. Filled(c, offset, page2)
    BY <1>20, <2>1
  <2>4. \E at2 : Lays(FlattenSeq(Texts(c, offset, page2)), at2, c, offset, page2)
    BY <2>2, <2>3, LaysExists
  <2> QED BY <1>22, <2>1, <2>4
<1>24. PICK at2 : Lays(rows2, at2, c, offset, slots')
  BY <1>23
<1>25. /\ at2 = at /\ Len(rows2) = Len(rows)
       /\ \A j \in 1 .. Len(rows) : j # at[l] + s => rows2[j] = rows[j]
       /\ rows2[at[l] + s] = slots'[c[l]][s].v
  <2>1. PICK page2 : page2 = slots'
    OBVIOUS
  <2>2. Lays(rows, at, c, offset, slots) /\ Lays(rows2, at2, c, offset, page2)
    BY <1>4, <1>5, <1>24, <2>1
  <2>3. SameElse(c, offset, slots, page2, l, s)
    BY <1>19, <2>1 DEF SameElse
  <2>4. c \in Seq(Blocks) /\ offset \in [Blocks -> 0 .. Slots]
    BY DEF Shape, Listed, FileTyped
  <2>5. at2 = at /\ Replaced(rows, rows2, at[l] + s, page2[c[l]][s].v)
    BY <2>2, <2>3, <2>4, LaysChange
  <2> QED BY <2>1, <2>5 DEF Replaced
<1>26. Changed(rows2, old, m + 1, S, v)
  <2>1. rows2[m + 1] = IF rows[m + 1] \in S THEN v ELSE rows[m + 1]
    BY <1>9, <1>10, <1>13, <1>16, <1>17, <1>25
  <2>2. \A j \in 1 .. Len(rows) : j # m + 1 => rows2[j] = rows[j]
    BY <1>9, <1>25
  <2>3. Changed(rows, old, m, S, v)
    BY <1>4, <1>5, <1>9
  <2> QED BY <1>25, <2>1, <2>2, <2>3, ChangedNext
<1>27. All(c)' = rows2
  BY <1>1, <1>22 DEF All
<1>28. run' = [op |-> "update", cond |-> S, value |-> v, curr |-> Open(c[l])', off |-> s,
               i |-> at[l] + s]
  <2>1. Open(b)' = [Open(b) EXCEPT !.page = page]
    BY <1>1, <1>17 DEF Open
  <2> QED BY <1>9, <1>10, <1>15, <2>1
<1>29. tb'.num_rows = Len(All(c)') /\ held' = Counted(old)
  BY <1>1, <1>4, <1>5, <1>25, <1>27
<1>30. Updating(c)'
  BY <1>1, <1>9, <1>10, <1>12, <1>24, <1>25, <1>26, <1>27, <1>28, <1>29 DEF Updating
<1> QED BY <1>1, <1>18, <1>21, <1>30 DEF Inv, Calls

(* All rows have been looked at.                                           *)
LEMMA UpdateEndInv ==
  ASSUME FileTyped, NEW c, NEW f, Shape(c, f), Calls(c), UpdateEnd
  PROVE  Inv' /\ \E S \in SUBSET Values, v \in Values : held' = Store!Updated(held, S, v)
<1>1. run.op = "update" /\ run.i >= tb.num_rows /\ run' = Idle /\ FileVars' = FileVars
      /\ held' = Counted(TableRows)
  BY DEF UpdateEnd, FileVars
<1>2. Updating(c)
  BY <1>1, CallOf
<1>3. PICK at, off, old : \E S \in SUBSET Values, v \in Values, k \in 1 .. Len(c) :
        /\ Lays(All(c), at, c, offset, slots)
        /\ tb.num_rows = Len(All(c)) /\ held = Counted(old)
        /\ Changed(All(c), old, at[k] + off, S, v)
        /\ off \in 0 .. offset[c[k]]
        /\ run = [op |-> "update", cond |-> S, value |-> v, curr |-> Open(c[k]),
                  off |-> off, i |-> at[k] + off]
  BY <1>2 DEF Updating
<1>4. PICK S \in SUBSET Values, v \in Values, k \in 1 .. Len(c) :
        /\ Lays(All(c), at, c, offset, slots)
        /\ tb.num_rows = Len(All(c)) /\ held = Counted(old)
        /\ Changed(All(c), old, at[k] + off, S, v)
        /\ off \in 0 .. offset[c[k]]
        /\ run = [op |-> "update", cond |-> S, value |-> v, curr |-> Open(c[k]),
                  off |-> off, i |-> at[k] + off]
  BY <1>3
<1>5. PICK rows \in Seq(Values) : rows = All(c)
  BY AllLaid
<1>6. TableRows = rows
  BY <1>5, TableRead DEF Shape, ReadsRight, All
<1>7. PICK m \in Nat : m = at[k] + off
  <2>1. offset[c[k]] \in 0 .. Slots /\ Len(c) \in Nat
    BY AllLaid
  <2>2. at[k] \in Nat /\ off \in Nat
    BY <1>4, <2>1, RowsAssumption DEF Lays
  <2> QED BY <2>2
<1>8. Len(rows) <= m
  <2>1. run.i = m /\ tb.num_rows = Len(rows)
    BY <1>4, <1>5, <1>7
  <2> QED BY <1>1, <2>1
<1>9. held' = Store!Updated(held, S, v)
  <2>1. Changed(rows, old, m, S, v) /\ held = Counted(old)
    BY <1>4, <1>5, <1>7
  <2>2. Counted(rows) = Store!Updated(Counted(old), S, v)
    BY <1>8, <2>1, ChangedCounts
  <2> QED BY <1>1, <1>6, <2>1, <2>2
<1>10. FileTyped' /\ Shape(c, f)' /\ All(c)' = All(c) /\ tb' = tb
  BY <1>1, FileKept
<1>11. Quiet(c)'
  BY <1>1, <1>4, <1>5, <1>6, <1>10 DEF Quiet
<1> QED BY <1>1, <1>9, <1>10, <1>11 DEF Inv, Calls
-----------------------------------------------------------------------------
-----------------------------------------------------------------------------
(* Compacting a block.                                                     *)
LEMMA TotalZero ==
  ASSUME NEW T, IsFiniteSet(T), NEW f, \A x \in T : f[x] = 0
  PROVE  Total(f, T) = 0
<1>1. \A R \in SUBSET T : IsFiniteSet(R) /\ Cardinality(R) \in Nat
  <2> TAKE R \in SUBSET T
  <2>1. IsFiniteSet(R)
    BY FS_Subset
  <2> QED BY <2>1, FS_CardinalityType
<1> DEFINE Good(R) == Total(f, R) = 0
           N == {k \in Nat : \E R \in SUBSET T : Cardinality(R) = k /\ ~Good(R)}
<1>2. SUFFICES ASSUME ~Good(T) PROVE FALSE
  OBVIOUS
<1>3. N # {}
  <2>1. Cardinality(T) \in N
    BY <1>1, <1>2
  <2> QED BY <2>1
<1>4. PICK k \in N : \A y \in N : k <= y
  <2>1. N \in SUBSET Nat
    OBVIOUS
  <2> HIDE DEF N
  <2> QED BY <1>3, <2>1, Least
<1>5. PICK R \in SUBSET T : Cardinality(R) = k /\ ~Good(R)
  BY <1>4
<1>6. R # {}
  BY <1>5, TotalNone
<1>7. PICK x \in R : TRUE
  BY <1>6
<1>8. PICK Q : Q = R \ {x}
  OBVIOUS
<1>9. Q \in SUBSET T /\ R = Q \cup {x} /\ x \notin Q
  BY <1>8
<1>10. IsFiniteSet(Q) /\ Cardinality(Q) = k - 1 /\ Cardinality(Q) \in Nat
  BY <1>1, <1>5, <1>7, <1>8, <1>9, FS_RemoveElement
<1>11. Good(Q)
  <2>1. ~(k <= Cardinality(Q))
    BY <1>10
  <2>2. Cardinality(Q) \notin N
    BY <1>4, <2>1
  <2> HIDE DEF Good
  <2> QED BY <1>9, <1>10, <2>2
<1>12. Total(f, Q \cup {x}) = f[x] + Total(f, Q)
  <2>1. \A y \in Q \cup {x} : f[y] \in Nat
    BY <1>9
  <2> QED BY <1>9, <1>10, <2>1, TotalAdd
<1>13. f[x] = 0
  OBVIOUS
<1>14. Good(R)
  BY <1>9, <1>11, <1>12, <1>13
<1> QED BY <1>5, <1>14

(* A page whose first n slots are rows.                                    *)
Pages == [1 .. Slots -> [v : Values \cup {0}, valid : BOOLEAN]]
Rowed(page, n) ==
  page \in Pages /\ \A s \in 1 .. n : page[s].v \in Values /\ page[s].valid = TRUE

LiveRows == [v : Values, valid : {TRUE}]

(* Marking the next row.                                                   *)
LEMMA MarkedIs ==
  ASSUME NEW page \in Pages, NEW off, NEW S
  PROVE  /\ MarkedTo(page, off, S) \in Pages
         /\ \A s \in 1 .. Slots : MarkedTo(page, off, S)[s].v = page[s].v
         /\ Column(MarkedTo(page, off, S)) = Column(page)
<1>1. PICK marked : marked = MarkedTo(page, off, S)
  OBVIOUS
<1>2. marked = [s \in 1 .. Slots |-> IF s <= off /\ page[s].v \in S
                                     THEN [v |-> page[s].v, valid |-> FALSE] ELSE page[s]]
  BY <1>1 DEF MarkedTo
<1>3. ASSUME NEW s \in 1 .. Slots
      PROVE  marked[s] \in [v : Values \cup {0}, valid : BOOLEAN] /\ marked[s].v = page[s].v
  <2>1. page[s] \in [v : Values \cup {0}, valid : BOOLEAN]
    BY DEF Pages
  <2>2. CASE s <= off /\ page[s].v \in S
    <3>1. marked[s] = [v |-> page[s].v, valid |-> FALSE]
      BY <1>2, <2>2
    <3> QED BY <2>1, <3>1
  <2>3. CASE ~(s <= off /\ page[s].v \in S)
    <3>1. marked[s] = page[s]
      BY <1>2, <2>3
    <3> QED BY <2>1, <3>1
  <2> QED BY <2>2, <2>3
<1>4. marked \in Pages
  <2>1. marked = [s \in 1 .. Slots |-> marked[s]]
    BY <1>2
  <2> QED BY <1>3, <2>1 DEF Pages
<1>5. Column(marked) = Column(page)
  BY <1>3 DEF Column
<1> QED BY <1>1, <1>3, <1>4, <1>5

(* What is kept of the first m rows of a page whose first n are marked.    *)
Keeps(kept, page, m, S) ==
  /\ kept \in Seq(LiveRows) /\ Len(kept) <= m
  /\ \A P : Count(Column(kept), Len(kept), P) = Count(Column(page), m, P \ S)

(* Of no rows none is kept.                                                *)
LEMMA KeepsNone ==
  ASSUME NEW page, NEW S
  PROVE  Keeps(<<>>, page, 0, S)
<1>1. <<>> \in Seq(LiveRows) /\ Len(<<>>) = 0
  OBVIOUS
<1>2. \A P : Count(Column(<<>>), 0, P) = 0 /\ Count(Column(page), 0, P \ S) = 0
  BY CountNone
<1> QED BY <1>1, <1>2 DEF Keeps

(* One more row is kept unless it is of S.                                 *)
LEMMA KeepsNext ==
  ASSUME NEW page, NEW S, NEW kept, NEW m \in Nat, m + 1 <= Slots, Keeps(kept, page, m, S),
         NEW row \in LiveRows, row.v = page[m + 1].v, page[m + 1].v \notin S
  PROVE  Keeps(Append(kept, row), page, m + 1, S)
<1>1. PICK n \in Nat : n = Len(kept) /\ n <= m
  BY DEF Keeps
<1>2. PICK more : more = Append(kept, row)
  OBVIOUS
<1>3. /\ more \in Seq(LiveRows) /\ Len(more) = n + 1 /\ more[n + 1] = row
      /\ \A j \in 1 .. n : more[j] = kept[j]
  BY <1>1, <1>2 DEF Keeps
<1>4. n + 1 \in 1 .. Slots /\ m + 1 \in 1 .. Slots /\ \A j \in 1 .. n : j \in 1 .. Slots
  BY <1>1, RowsAssumption
<1>5. ASSUME NEW P
      PROVE  Count(Column(more), n + 1, P) = Count(Column(page), m + 1, P \ S)
  <2>1. PICK g : g = Column(more)
    OBVIOUS
  <2>2. PICK h : h = Column(kept)
    OBVIOUS
  <2>3. PICK w : w = Column(page)
    OBVIOUS
  <2>4. \A j \in 1 .. n : g[j] = h[j]
    BY <1>3, <1>4, <2>1, <2>2 DEF Column
  <2>5. g[n + 1] = page[m + 1].v /\ w[m + 1] = page[m + 1].v
    BY <1>3, <1>4, <2>1, <2>3 DEF Column
  <2>6. Count(g, n + 1, P) = Count(g, n, P) + (IF g[n + 1] \in P THEN 1 ELSE 0)
    BY CountNext
  <2>7. Count(w, m + 1, P \ S) = Count(w, m, P \ S) + (IF w[m + 1] \in P \ S THEN 1 ELSE 0)
    BY CountNext
  <2>8. Count(g, n, P) = Count(h, n, P)
    BY <2>4, CountSame
  <2>9. Count(h, n, P) = Count(w, m, P \ S)
    BY <1>1, <2>2, <2>3 DEF Keeps
  <2>10. g[n + 1] \in P <=> w[m + 1] \in P \ S
    BY <2>5
  <2> QED BY <2>1, <2>3, <2>6, <2>7, <2>8, <2>9, <2>10
<1> QED BY <1>1, <1>2, <1>3, <1>5 DEF Keeps

(* What is kept depends on those rows only.                                *)
LEMMA KeepsOver ==
  ASSUME NEW page, NEW S, NEW kept, NEW m \in Nat, m + 1 <= Slots, Keeps(kept, page, m, S),
         page[m + 1].v \in S
  PROVE  Keeps(kept, page, m + 1, S)
<1>1. PICK n \in Nat : n = Len(kept) /\ n <= m
  BY DEF Keeps
<1>2. ASSUME NEW P
      PROVE  Count(Column(kept), n, P) = Count(Column(page), m + 1, P \ S)
  <2>1. PICK w : w = Column(page)
    OBVIOUS
  <2>2. w[m + 1] \notin P \ S
    BY <2>1 DEF Column
  <2>3. Count(w, m + 1, P \ S) = Count(w, m, P \ S) + (IF w[m + 1] \in P \ S THEN 1 ELSE 0)
    BY CountNext
  <2>4. Count(Column(kept), n, P) = Count(w, m, P \ S)
    BY <1>1, <2>1 DEF Keeps
  <2>5. Count(w, m, P \ S) \in Nat
    BY CountNat
  <2> QED BY <2>1, <2>2, <2>3, <2>4, <2>5
<1> QED BY <1>1, <1>2 DEF Keeps

(* The model's Kept of a marked page.                                      *)
LEMMA KeptIs ==
  ASSUME NEW n \in 0 .. Slots, NEW page, Rowed(page, n), NEW S \in SUBSET Values
  PROVE  Keeps(Kept(MarkedTo(page, n, S), n), page, n, S)
<1>0. n \in Nat /\ n <= Slots
  BY RowsAssumption
<1>1. PICK marked : marked = MarkedTo(page, n, S)
  OBVIOUS
<1> DEFINE Good(m) == Keeps(Chosen(marked, m, ValidRows), page, m, S)
           N == {m \in 0 .. n : ~Good(m)}
<1>2. SUFFICES ASSUME ~Good(n) PROVE FALSE
  BY <1>1 DEF Kept
<1>3. N # {}
  <2>1. n \in 0 .. n
    BY <1>0
  <2> HIDE DEF Good
  <2> QED BY <1>2, <2>1
<1>4. PICK k \in N : \A y \in N : k <= y
  <2>1. N \in SUBSET Nat
    OBVIOUS
  <2> HIDE DEF N
  <2> QED BY <1>3, <2>1, Least
<1>5. k # 0
  <2>1. Good(0)
    BY ChosenNone, KeepsNone
  <2> HIDE DEF Good
  <2> QED BY <1>4, <2>1
<1>6. PICK m \in Nat : k = m + 1
  <2>1. k - 1 \in Nat /\ k = (k - 1) + 1
    BY <1>5
  <2> QED BY <2>1
<1>7. m \in 0 .. n /\ ~(k <= m) /\ m + 1 <= n /\ m + 1 \in 1 .. n /\ m + 1 <= Slots /\ m + 1 \in 1 .. Slots
  <2>1. k \in 0 .. n
    OBVIOUS
  <2> HIDE DEF N
  <2> QED BY <1>0, <1>6, <2>1, RowsAssumption
<1>8. Good(m)
  <2> HIDE DEF Good
  <2> QED BY <1>4, <1>7
<1>9. PICK row : row = page[m + 1]
  OBVIOUS
<1>10. row \in LiveRows /\ row \in [v : Values \cup {0}, valid : BOOLEAN] /\ row.v \in Values
  <2>1. row.v \in Values /\ row.valid = TRUE /\ row \in [v : Values \cup {0}, valid : BOOLEAN]
    BY <1>7, <1>9 DEF Rowed, Pages
  <2> QED BY <2>1 DEF LiveRows
<1>11. marked[m + 1] = IF row.v \in S THEN [v |-> row.v, valid |-> FALSE] ELSE row
  BY <1>1, <1>7, <1>9 DEF MarkedTo
<1>12. PICK kept : kept = Chosen(marked, m, ValidRows)
  OBVIOUS
<1>13. Chosen(marked, m + 1, ValidRows) =
         IF marked[m + 1] \in ValidRows THEN Append(kept, marked[m + 1]) ELSE kept
  BY <1>12, ChosenNext
<1>14. Keeps(kept, page, m, S)
  BY <1>8, <1>12
<1>15. CASE row.v \in S
  <2>1. marked[m + 1] = [v |-> row.v, valid |-> FALSE]
    BY <1>11, <1>15
  <2>2. marked[m + 1] \notin ValidRows
    BY <2>1 DEF ValidRows
  <2>3. Keeps(kept, page, m + 1, S)
    BY <1>7, <1>9, <1>14, <1>15, KeepsOver
  <2> QED BY <1>4, <1>6, <1>13, <2>2, <2>3
<1>16. CASE row.v \notin S
  <2>1. marked[m + 1] = row
    BY <1>11, <1>16
  <2>2. row \in ValidRows
    BY <1>10 DEF ValidRows, LiveRows, NoRow
  <2>3. Keeps(Append(kept, row), page, m + 1, S)
    BY <1>7, <1>9, <1>10, <1>14, <1>16, KeepsNext
  <2> QED BY <1>4, <1>6, <1>13, <2>1, <2>2, <2>3
<1> QED BY <1>15, <1>16

(* Rows written to a page behind its first at ones.                        *)
CountsBoth(page2, to, page, at, rows, n) ==
  \A P : Count(Column(page2), to, P) = Count(Column(page), at, P) + Count(Column(rows), n, P)

(* Written adds the rows and their counts.                                 *)
LEMMA WrittenIs ==
  ASSUME NEW page, NEW at \in Nat, Rowed(page, at), NEW rows \in Seq(LiveRows),
         NEW n, n = Len(rows), NEW to, to = at + n, to <= Slots,
         NEW page2, page2 = Written(page, at, rows)
  PROVE  Rowed(page2, to) /\ CountsBoth(page2, to, page, at, rows, n)
<1>1. n \in Nat /\ n = Len(rows)
  OBVIOUS
<1>2. page2 = Written(page, at, rows)
  OBVIOUS
<1>3. page2 = [s \in 1 .. Slots |-> IF s \in at + 1 .. at + n THEN rows[s - at] ELSE page[s]]
  BY <1>1, <1>2 DEF Written
<1>4. ASSUME NEW j \in 1 .. n
      PROVE  at + j \in 1 .. Slots /\ j \in 1 .. Slots /\ page2[at + j] = rows[j] /\ rows[j] \in LiveRows
  <2>1. at + j \in 1 .. Slots /\ j \in 1 .. Slots /\ at + j \in at + 1 .. at + n /\ (at + j) - at = j
    BY <1>1, RowsAssumption
  <2>2. rows[j] \in LiveRows
    BY <1>1
  <2>3. PICK s \in 1 .. Slots : s = at + j /\ s \in at + 1 .. at + n /\ s - at = j
    BY <2>1
  <2> QED BY <1>3, <2>1, <2>2, <2>3
<1>5. ASSUME NEW s \in 1 .. at PROVE s \in 1 .. Slots /\ page2[s] = page[s]
  <2>1. s \in 1 .. Slots /\ s \notin at + 1 .. at + n
    BY <1>1, RowsAssumption
  <2> QED BY <1>3, <2>1
<1>6. page2 \in Pages
  <2> SUFFICES ASSUME NEW s \in 1 .. Slots PROVE page2[s] \in [v : Values \cup {0}, valid : BOOLEAN]
    BY <1>3 DEF Pages
  <2>1. CASE s \in at + 1 .. at + n
    <3>1. s - at \in 1 .. n
      BY <2>1
    <3>2. page2[s] = rows[s - at] /\ rows[s - at] \in LiveRows
      BY <1>1, <1>3, <2>1, <3>1
    <3> QED BY <3>2 DEF LiveRows
  <2>2. CASE s \notin at + 1 .. at + n
    BY <1>3, <2>2 DEF Rowed, Pages
  <2> QED BY <2>1, <2>2
<1>7. ASSUME NEW s \in 1 .. at + n PROVE page2[s].v \in Values /\ page2[s].valid = TRUE
  <2>1. CASE s <= at
    <3>1. s \in 1 .. at
      BY <2>1
    <3> QED BY <1>5, <3>1 DEF Rowed
  <2>2. CASE ~(s <= at)
    <3>1. PICK j \in 1 .. n : s = at + j
      <4>1. s - at \in 1 .. n /\ s = at + (s - at)
        BY <2>2
      <4> QED BY <4>1
    <3>2. page2[s] \in LiveRows
      BY <1>4, <3>1
    <3> QED BY <3>2 DEF LiveRows
  <2> QED BY <2>1, <2>2
<1>8. ASSUME NEW P
      PROVE  Count(Column(page2), at + n, P) = Count(Column(page), at, P) + Count(Column(rows), n, P)
  <2>1. PICK h : h = Column(page2)
    OBVIOUS
  <2>2. PICK g : g = Column(page)
    OBVIOUS
  <2>3. PICK w : w = Column(rows)
    OBVIOUS
  <2>4. \A j \in 1 .. at : h[j] = g[j]
    BY <1>5, <2>1, <2>2 DEF Column
  <2>5. \A j \in 1 .. n : h[at + j] = w[j]
    BY <1>4, <2>1, <2>3 DEF Column
  <2>6. \A j \in 1 .. at : h[j] \in P <=> g[j] \in P
    BY <2>4
  <2>7. \A j \in 1 .. n : h[at + j] \in P <=> w[j] \in P
    BY <2>5
  <2>8. Count(h, at + n, P) = Count(g, at, P) + Count(w, n, P)
    BY <2>6, <2>7, CountJoin
  <2> QED BY <2>1, <2>2, <2>3, <2>8
<1> QED BY <1>1, <1>2, <1>6, <1>7, <1>8 DEF Rowed, CountsBoth
-----------------------------------------------------------------------------
(* Of the rows kept of block page, some go behind the rows of lpage and    *)
(* the others to its own front.                                            *)
Shifts(page, m, S, lpage, loff, lpage2, loff2, cpage2, stay) ==
  \A P : \E a \in Nat :
    /\ Count(Column(lpage2), loff2, P) = Count(Column(lpage), loff, P) + a
    /\ Count(Column(cpage2), stay, P) + a = Count(Column(page), m, P \ S)

(* The two parts of what is kept have its rows between them.               *)
LEMMA PartOf ==
  ASSUME NEW V, NEW kept \in Seq(V), NEW n \in Nat, n = Len(kept), NEW k \in 0 .. n
  PROVE  /\ SubSeq(kept, 1, k) \in Seq(V) /\ Len(SubSeq(kept, 1, k)) = k
         /\ \A j \in 1 .. k : SubSeq(kept, 1, k)[j] = kept[j]
         /\ SubSeq(kept, k + 1, n) \in Seq(V) /\ Len(SubSeq(kept, k + 1, n)) = n - k
         /\ \A j \in 1 .. n - k : SubSeq(kept, k + 1, n)[j] = kept[k + j]
<1>1. k \in Nat /\ k <= n /\ k + 1 \in Nat
  OBVIOUS
<1>2. /\ SubSeq(kept, 1, k) \in Seq(V) /\ Len(SubSeq(kept, 1, k)) = k
      /\ \A j \in 1 .. k : SubSeq(kept, 1, k)[j] = kept[j]
  <2>1. \A j \in 1 .. k : j \in 1 .. n
    OBVIOUS
  <2>2. Len(SubSeq(kept, 1, k)) = k /\ SubSeq(kept, 1, k) \in Seq(V)
    BY <2>1
  <2>3. \A j \in 1 .. k : SubSeq(kept, 1, k)[j] = kept[1 + j - 1]
    BY <2>1
  <2>4. \A j \in 1 .. k : 1 + j - 1 = j
    OBVIOUS
  <2> QED BY <2>2, <2>3, <2>4
<1>3. /\ SubSeq(kept, k + 1, n) \in Seq(V) /\ Len(SubSeq(kept, k + 1, n)) = n - k
      /\ \A j \in 1 .. n - k : SubSeq(kept, k + 1, n)[j] = kept[k + j]
  <2>1. \A j \in k + 1 .. n : j \in 1 .. n
    BY <1>1
  <2>2. Len(SubSeq(kept, k + 1, n)) = n - k /\ SubSeq(kept, k + 1, n) \in Seq(V)
    BY <1>1, <2>1
  <2>3. \A j \in 1 .. n - k : SubSeq(kept, k + 1, n)[j] = kept[k + 1 + j - 1]
    BY <1>1, <2>1
  <2>4. \A j \in 1 .. n - k : k + 1 + j - 1 = k + j
    OBVIOUS
  <2> QED BY <2>2, <2>3, <2>4
<1> QED BY <1>2, <1>3

(* Compacting shifts the rows kept, whichever of the two pages they end    *)
(* in.                                                                     *)
LEMMA Compacted ==
  ASSUME NEW m \in 0 .. Slots, NEW page, Rowed(page, m), NEW S \in SUBSET Values,
         NEW marked, marked = MarkedTo(page, m, S), NEW kept, kept = Kept(marked, m),
         NEW lpage, NEW loff \in 0 .. Slots, Rowed(lpage, loff),
         NEW n, n = Len(kept), NEW moves \in 0 .. n, NEW loff2, loff2 = loff + moves,
         loff2 <= Slots,
         NEW lpage2, lpage2 = Written(lpage, loff, SubSeq(kept, 1, moves)),
         NEW cpage2, cpage2 = Written(marked, 0, SubSeq(kept, moves + 1, n)),
         NEW stay, stay = n - moves
  PROVE  /\ Rowed(lpage2, loff2) /\ Rowed(cpage2, stay)
         /\ Shifts(page, m, S, lpage, loff, lpage2, loff2, cpage2, stay)
<1>1. Keeps(kept, page, m, S)
  BY KeptIs
<1>2. n \in Nat /\ n <= m /\ m \in Nat /\ loff \in Nat /\ kept \in Seq(LiveRows)
  BY <1>1, RowsAssumption DEF Keeps
<1>3. PICK front : front = SubSeq(kept, 1, moves)
  OBVIOUS
<1>4. PICK back : back = SubSeq(kept, moves + 1, n)
  OBVIOUS
<1>5. /\ front \in Seq(LiveRows) /\ Len(front) = moves /\ \A j \in 1 .. moves : front[j] = kept[j]
      /\ back \in Seq(LiveRows) /\ Len(back) = stay /\ \A j \in 1 .. stay : back[j] = kept[moves + j]
  BY <1>2, <1>3, <1>4, PartOf
<1>6. moves \in Nat /\ stay \in Nat /\ moves + stay = n /\ n <= Slots
  BY <1>2, RowsAssumption
<1>7. /\ Rowed(lpage2, loff2)
      /\ \A P : Count(Column(lpage2), loff2, P) = Count(Column(lpage), loff, P) + Count(Column(front), moves, P)
  <2>1. loff + Len(front) <= Slots /\ loff + Len(front) = loff2 /\ Len(front) = moves
    BY <1>5
  <2>2. lpage2 = Written(lpage, loff, front)
    BY <1>3
  <2>3. Rowed(lpage2, loff2) /\ CountsBoth(lpage2, loff2, lpage, loff, front, moves)
    BY <1>2, <1>5, <2>1, <2>2, WrittenIs
  <2> QED BY <2>3 DEF CountsBoth
<1>8. /\ Rowed(cpage2, stay)
      /\ \A P : Count(Column(cpage2), stay, P) = Count(Column(back), stay, P)
  <2>1. Rowed(marked, 0)
    <3>1. page \in Pages
      BY DEF Rowed
    <3>2. marked \in Pages
      BY <3>1, MarkedIs
    <3> QED BY <3>2 DEF Rowed
  <2>2. 0 + Len(back) <= Slots /\ 0 + Len(back) = stay /\ Len(back) = stay
    BY <1>5, <1>6, RowsAssumption
  <2>3. cpage2 = Written(marked, 0, back)
    BY <1>4
  <2>4. Rowed(cpage2, stay) /\ CountsBoth(cpage2, stay, marked, 0, back, stay)
    <3>1. 0 \in Nat /\ stay = 0 + stay /\ stay <= Slots /\ stay = Len(back)
      BY <1>5, <1>6, RowsAssumption
    <3> QED BY <1>5, <2>1, <2>3, <3>1, WrittenIs
  <2>5. ASSUME NEW P PROVE Count(Column(cpage2), stay, P) = Count(Column(back), stay, P)
    <3>1. Count(Column(marked), 0, P) = 0
      BY CountNone
    <3>2. Count(Column(back), stay, P) \in Nat
      BY <1>6, CountNat
    <3>3. Count(Column(cpage2), stay, P) = Count(Column(marked), 0, P) + Count(Column(back), stay, P)
      BY <2>4 DEF CountsBoth
    <3> QED BY <3>1, <3>2, <3>3
  <2> QED BY <2>2, <2>4, <2>5
<1>9. ASSUME NEW P
      PROVE  Count(Column(front), moves, P) + Count(Column(back), stay, P) =
               Count(Column(page), m, P \ S)
  <2>1. PICK f : f = Column(kept)
    OBVIOUS
  <2>2. PICK g : g = Column(front)
    OBVIOUS
  <2>3. PICK h : h = Column(back)
    OBVIOUS
  <2>4. \A j \in 1 .. moves : f[j] \in P <=> g[j] \in P
    <3>1. \A j \in 1 .. moves : j \in 1 .. Slots
      BY <1>6, RowsAssumption
    <3> QED BY <1>5, <2>1, <2>2, <3>1 DEF Column
  <2>5. \A j \in 1 .. stay : f[moves + j] \in P <=> h[j] \in P
    <3>1. \A j \in 1 .. stay : j \in 1 .. Slots /\ moves + j \in 1 .. Slots
      BY <1>6, RowsAssumption
    <3> QED BY <1>5, <2>1, <2>3, <3>1 DEF Column
  <2>6. Count(f, moves + stay, P) = Count(g, moves, P) + Count(h, stay, P)
    BY <1>6, <2>4, <2>5, CountJoin
  <2>7. Count(f, n, P) = Count(Column(page), m, P \ S)
    BY <1>1, <2>1 DEF Keeps
  <2> QED BY <1>6, <2>2, <2>3, <2>6, <2>7
<1>10. Shifts(page, m, S, lpage, loff, lpage2, loff2, cpage2, stay)
  <2> SUFFICES ASSUME NEW P
               PROVE  \E a \in Nat :
                        /\ Count(Column(lpage2), loff2, P) = Count(Column(lpage), loff, P) + a
                        /\ Count(Column(cpage2), stay, P) + a = Count(Column(page), m, P \ S)
    BY DEF Shifts
  <2>1. Count(Column(front), moves, P) \in Nat /\ Count(Column(back), stay, P) \in Nat
    BY <1>6, CountNat
  <2> QED BY <1>7, <1>8, <1>9, <2>1
<1> QED BY <1>7, <1>8, <1>10
-----------------------------------------------------------------------------
-----------------------------------------------------------------------------
(* Delete, where it only marks rows or passes them.                        *)
LEMMA MarkingPlace ==
  ASSUME FileTyped, NEW c, NEW f, Shape(c, f), NEW d, NEW S, NEW off, NEW k,
         MarkingAt(c, d, S, off, k)
  PROVE  \E at : /\ Lays(All(c), at, c, offset, slots) /\ k \in 1 .. Len(c)
                 /\ at[k] \in Nat /\ run.i = at[k] + off
                 /\ at[k + 1] = at[k] + offset[c[k]] /\ at[k + 1] <= tb.num_rows
                 /\ k = Len(c) => at[k + 1] = tb.num_rows
<1>1. PICK at : Lays(All(c), at, c, offset, slots)
  BY AllLaid
<1>2. PICK n \in Nat \ {0} : n = Len(c)
  BY AllLaid
<1>3. k \in {1, 2} /\ k <= d /\ d \in {1, 2} /\ d <= n /\ Quiet(c)
  BY <1>2 DEF MarkingAt, OnlyIn
<1>4. k \in 1 .. n
  BY <1>3
<1>5. \A i \in 1 .. n : offset[c[i]] \in Nat
  <2>1. \A i \in 1 .. n : offset[c[i]] \in 0 .. Slots
    BY <1>2, AllLaid
  <2> QED BY <2>1, RowsAssumption
<1>6. /\ at \in [1 .. n + 1 -> Nat] /\ at[1] = 0
      /\ \A i \in 1 .. n : at[i + 1] = at[i] + offset[c[i]]
      /\ at[n + 1] = tb.num_rows
  BY <1>1, <1>2, <1>3 DEF Lays, Quiet
<1>7. at[k] \in Nat /\ at[k + 1] = at[k] + offset[c[k]]
  BY <1>4, <1>6
<1>8. at[k + 1] <= at[n + 1]
  <2>1. \A i \in 1 .. n : at[i] <= at[i + 1]
    <3> TAKE i \in 1 .. n
    <3>1. at[i] \in Nat /\ offset[c[i]] \in Nat /\ at[i + 1] = at[i] + offset[c[i]]
      BY <1>5, <1>6
    <3> QED BY <3>1
  <2>2. \A i \in 1 .. n + 1 : \A j \in i .. n + 1 : at[i] <= at[j]
    BY <1>6, <2>1, PlacesGrow
  <2>3. PICK i \in 1 .. n + 1 : i = k + 1
    BY <1>4
  <2>4. n + 1 \in i .. n + 1
    OBVIOUS
  <2> QED BY <2>2, <2>3, <2>4
<1>9. run.i = at[k] + off
  <2>1. run.i = IF k = 1 THEN off ELSE offset[c[1]] + off
    BY DEF MarkingAt
  <2>2. off \in Nat
    BY DEF MarkingAt
  <2>3. CASE k = 1
    BY <1>6, <2>1, <2>2, <2>3
  <2>4. CASE k = 2
    <3>1. at[1 + 1] = at[1] + offset[c[1]] /\ offset[c[1]] \in Nat
      BY <1>4, <1>5, <1>6, <2>4
    <3> QED BY <1>6, <2>1, <2>4, <3>1
  <2> QED BY <1>3, <2>3, <2>4
<1> QED BY <1>1, <1>2, <1>4, <1>6, <1>7, <1>8, <1>9

(* The locals of a delete that marks.                                      *)
MarkingLocals(c, S, off, k, curr, i, pre, next, last, gone, was) ==
  /\ curr = [id |-> c[k], next_id |-> next_id[c[k]], offset |-> offset[c[k]],
             page |-> MarkedTo(slots[c[k]], off, S)]
  /\ i = IF k = 1 THEN off ELSE offset[c[1]] + off
  /\ pre = c[1] /\ next = next_id[c[1]] /\ last = Open(c[Len(c)])
  /\ run = [op |-> "delete", cond |-> S, curr |-> curr, off |-> off, i |-> i,
            pre_id |-> pre, next_id |-> next, last |-> last,
            deleted_rows |-> gone, block_flag |-> was]

(* They have those values.                                                 *)
LEMMA MarkingRun ==
  ASSUME NEW c, NEW d, NEW S, NEW off, NEW k, MarkingAt(c, d, S, off, k)
  PROVE  \E curr, i, pre, next, last, gone, was :
           MarkingLocals(c, S, off, k, curr, i, pre, next, last, gone, was)
<1>1. PICK curr : curr = [id |-> c[k], next_id |-> next_id[c[k]], offset |-> offset[c[k]],
                          page |-> MarkedTo(slots[c[k]], off, S)]
  OBVIOUS
<1>2. PICK i : i = IF k = 1 THEN off ELSE offset[c[1]] + off
  OBVIOUS
<1>3. PICK pre, next, last : pre = c[1] /\ next = next_id[c[1]] /\ last = Open(c[Len(c)])
  OBVIOUS
<1>4. PICK gone, was : gone = Count(Column(slots[c[k]]), off, S) /\ was = (gone # 0)
  OBVIOUS
<1>5. run = [op |-> "delete", cond |-> S, curr |-> curr, off |-> off, i |-> i,
             pre_id |-> pre, next_id |-> next, last |-> last,
             deleted_rows |-> gone, block_flag |-> was]
  BY <1>1, <1>2, <1>3, <1>4 DEF MarkingAt
<1>6. MarkingLocals(c, S, off, k, curr, i, pre, next, last, gone, was)
  BY <1>1, <1>2, <1>3, <1>5 DEF MarkingLocals
<1> QED BY <1>6

(* The next row marked, or found not to be of S.                           *)
LEMMA MarkingStep ==
  ASSUME FileTyped, NEW c, NEW f, Shape(c, f), NEW d, NEW S, NEW off, NEW k,
         MarkingAt(c, d, S, off, k), NEW b, b = c[k], NEW m, m = offset[b]
  PROVE  /\ k \in 1 .. Len(c) /\ b \in Blocks /\ m \in 0 .. Slots /\ off + 1 \in 1 .. m
         /\ run.i + 1 <= tb.num_rows /\ run.i \in Nat
         /\ k # Len(c) \/ off + 1 # m => run.i + 1 < tb.num_rows \/ off + 1 = m
         /\ k = Len(c) /\ off + 1 = m => run.i + 1 = tb.num_rows
         /\ BlockDone <=> off + 1 = m
         /\ Hit <=> slots[b][off + 1].v \in S
         /\ Count(Column(slots[b]), off + 1, S) = run.deleted_rows + (IF Hit THEN 1 ELSE 0)
         /\ run.deleted_rows \in Nat
         /\ Count(Column(slots[b]), off + 1, S) # 0 <=> (run.block_flag \/ Hit)
         /\ Marked = [id |-> b, next_id |-> next_id[b], offset |-> m,
                      page |-> MarkedTo(slots[b], off + 1, S)]
<1>1. PICK at : /\ Lays(All(c), at, c, offset, slots) /\ k \in 1 .. Len(c)
                /\ at[k] \in Nat /\ run.i = at[k] + off
                /\ at[k + 1] = at[k] + m /\ at[k + 1] <= tb.num_rows
                /\ k = Len(c) => at[k + 1] = tb.num_rows
  BY MarkingPlace
<1>2. b \in Blocks /\ m \in 0 .. Slots /\ m \in Nat
  <2>1. b \in Blocks /\ m \in 0 .. Slots
    BY <1>1, AllLaid
  <2> QED BY <2>1, RowsAssumption
<1>3. off \in Nat /\ off < m
  BY DEF MarkingAt
<1>4. off + 1 \in 1 .. m /\ off + 1 \in 1 .. Slots
  BY <1>2, <1>3, RowsAssumption
<1>5. tb.num_rows \in Nat
  <2>1. tb.num_rows \in 0 .. MaxRows
    BY DEF FileTyped
  <2> QED BY <2>1, RowsAssumption
<1>6. run.i + 1 <= tb.num_rows /\ run.i \in Nat /\ (off + 1 # m => run.i + 1 < tb.num_rows)
      /\ (k = Len(c) /\ off + 1 = m => run.i + 1 = tb.num_rows)
  <2>1. PICK a, i, num : a = at[k] /\ i = run.i /\ num = tb.num_rows
    OBVIOUS
  <2>2. /\ a \in Nat /\ i = a + off /\ num \in Nat /\ a + m <= num
        /\ k = Len(c) => a + m = num
    BY <1>1, <1>5, <2>1
  <2>3. i \in Nat /\ i + 1 <= num /\ (off + 1 # m => i + 1 < num)
    BY <1>2, <1>3, <2>2
  <2>4. k = Len(c) /\ off + 1 = m => i + 1 = num
    BY <1>2, <1>3, <2>2
  <2> QED BY <2>1, <2>3, <2>4
<1>7. PICK page : page = slots[b]
  OBVIOUS
<1>8. page \in Pages
  BY <1>2, <1>7 DEF FileTyped, Pages
<1>9. /\ run.off = off /\ run.cond = S
      /\ run.curr = [id |-> b, next_id |-> next_id[b], offset |-> m, page |-> MarkedTo(page, off, S)]
      /\ run.deleted_rows = Count(Column(page), off, S)
      /\ run.block_flag = (Count(Column(page), off, S) # 0)
  BY <1>7 DEF MarkingAt
<1>10. BlockDone <=> off + 1 = m
  <2>1. run.curr.offset = m
    BY <1>9
  <2> QED BY <1>2, <1>3, <1>5, <1>6, <1>9, <2>1 DEF BlockDone
<1>11. Hit <=> page[off + 1].v \in S
  <2>1. run.curr.page = MarkedTo(page, off, S)
    BY <1>9
  <2>2. MarkedTo(page, off, S)[off + 1].v = page[off + 1].v
    BY <1>4, <1>8, MarkedIs
  <2> QED BY <1>9, <2>1, <2>2 DEF Hit
<1>12. /\ Count(Column(page), off + 1, S) = Count(Column(page), off, S) + (IF Hit THEN 1 ELSE 0)
       /\ Count(Column(page), off, S) \in Nat
  <2>1. PICK h : h = Column(page)
    OBVIOUS
  <2>2. h[off + 1] = page[off + 1].v
    BY <1>4, <2>1 DEF Column
  <2>3. Count(h, off + 1, S) = Count(h, off, S) + (IF h[off + 1] \in S THEN 1 ELSE 0)
    BY <1>3, CountNext
  <2>4. Count(h, off, S) \in Nat
    BY <1>3, CountNat
  <2> QED BY <1>11, <2>1, <2>2, <2>3, <2>4
<1>13. Marked = [id |-> b, next_id |-> next_id[b], offset |-> m,
                 page |-> MarkedTo(page, off + 1, S)]
  <2>1. PICK old : old = MarkedTo(page, off, S)
    OBVIOUS
  <2>2. PICK new : new = MarkedTo(page, off + 1, S)
    OBVIOUS
  <2>3. PICK n : n = off + 1
    OBVIOUS
  <2>4. /\ old = [s \in 1 .. Slots |-> IF s <= off /\ page[s].v \in S
                                       THEN [v |-> page[s].v, valid |-> FALSE] ELSE page[s]]
        /\ new = [s \in 1 .. Slots |-> IF s <= n /\ page[s].v \in S
                                       THEN [v |-> page[s].v, valid |-> FALSE] ELSE page[s]]
    BY <2>1, <2>2, <2>3 DEF MarkedTo
  <2>5. \A s \in 1 .. Slots : s # n => (s <= n <=> s <= off)
    BY <1>3, <2>3
  <2>6. n \in 1 .. Slots /\ ~(n <= off) /\ n <= n
    BY <1>3, <1>4, <2>3
  <2>7. old[n] = page[n] /\ page[n] \in [v : Values \cup {0}, valid : BOOLEAN]
    BY <1>8, <2>4, <2>6 DEF Pages
  <2>8. CASE Hit
    <3>1. page[n].v \in S
      BY <1>11, <2>3, <2>8
    <3>2. [old[n] EXCEPT !.valid = FALSE] = [v |-> page[n].v, valid |-> FALSE]
      <4>1. PICK r \in [v : Values \cup {0}, valid : BOOLEAN] : r = page[n] /\ r = old[n]
        BY <2>7
      <4>2. PICK r2 : r2 = [r EXCEPT !.valid = FALSE]
        OBVIOUS
      <4>3. r2 = [v |-> r.v, valid |-> FALSE]
        BY <4>2
      <4> QED BY <4>1, <4>2, <4>3
    <3>3. new = [old EXCEPT ![n].valid = FALSE]
      BY <2>4, <2>5, <2>6, <2>7, <3>1, <3>2
    <3>4. Marked = [run.curr EXCEPT !.page[run.off + 1].valid = FALSE]
      BY <2>8 DEF Marked
    <3> QED BY <1>9, <2>1, <2>2, <2>3, <3>3, <3>4
  <2>9. CASE ~Hit
    <3>1. page[n].v \notin S
      BY <1>11, <2>3, <2>9
    <3>2. new = old
      BY <2>4, <2>5, <2>6, <3>1
    <3> QED BY <1>9, <2>1, <2>2, <2>9, <3>2 DEF Marked
  <2> QED BY <2>8, <2>9
<1>14. Count(Column(page), off + 1, S) # 0 <=> (run.block_flag \/ Hit)
  <2>1. PICK x \in Nat : x = Count(Column(page), off, S)
    BY <1>12
  <2>2. run.block_flag <=> x # 0
    BY <1>9, <2>1
  <2>3. CASE Hit
    BY <1>12, <2>1, <2>3
  <2>4. CASE ~Hit
    BY <1>12, <2>1, <2>2, <2>4
  <2> QED BY <2>3, <2>4
<1> QED BY <1>1, <1>2, <1>4, <1>6, <1>7, <1>9, <1>10, <1>11, <1>12, <1>13, <1>14
-----------------------------------------------------------------------------
(* A table without rows of S has none in any of its places.                *)
LEMMA NoneOf ==
  ASSUME FileTyped, NEW b \in Blocks, NEW S
  PROVE  /\ Weights(offset, slots, S)[b] = 0 <=> \A s \in 1 .. offset[b] : slots[b][s].v \notin S
         /\ Weights(offset, slots, S)[b] = Cardinality(Hits(b, S))
         /\ Weights(offset, slots, S)[b] \in Nat
<1>1. PICK m \in 0 .. Slots : m = offset[b]
  BY DEF FileTyped
<1>2. m \in Nat /\ \A s \in 1 .. m : s \in 1 .. Slots
  BY RowsAssumption
<1>3. PICK h : h = Column(slots[b])
  OBVIOUS
<1>4. \A s \in 1 .. m : h[s] = slots[b][s].v
  BY <1>2, <1>3 DEF Column
<1>5. Weights(offset, slots, S)[b] = Count(h, m, S) /\ Weights(offset, slots, S)[b] \in Nat
  <2>1. offset \in [Blocks -> 0 .. Slots]
    BY DEF FileTyped
  <2> QED BY <1>1, <1>3, <2>1, WeightsNat
<1>6. Count(h, m, S) = 0 <=> \A s \in 1 .. m : h[s] \notin S
  BY <1>2, CountNone
<1>7. Count(h, m, S) = Cardinality(Hits(b, S))
  <2>1. Hits(b, S) = {s \in 1 .. m : h[s] \in S}
    BY <1>1, <1>4 DEF Hits
  <2> QED BY <2>1 DEF Count
<1> QED BY <1>1, <1>4, <1>5, <1>6, <1>7

(* The next row passed is not of S.                                        *)
LEMMA PassingStep ==
  ASSUME FileTyped, NEW c, NEW f, Shape(c, f), NEW S, NEW curr, NEW off, NEW i, NEW next,
         NEW pre_id, NEW last, NEW gone,
         PassingAt(c, S, curr, off, i, pre_id, next, last, gone), i < tb.num_rows
  PROVE  \E k \in 1 .. Len(c) :
           /\ curr = Open(c[k]) /\ off \in Nat /\ off + 1 \in 1 .. offset[c[k]]
           /\ offset[c[k]] \in 0 .. Slots
           /\ BlockDone <=> off + 1 >= offset[c[k]] \/ i + 1 >= tb.num_rows
           /\ ~Hit /\ Marked = curr
<1>1. PICK k \in 1 .. Len(c) : curr = Open(c[k]) /\ off \in Nat /\ off < offset[c[k]]
  BY DEF PassingAt, Ahead
<1>2. PICK m \in 0 .. Slots : m = offset[c[k]]
  BY AllLaid
<1>3. off + 1 \in 1 .. m
  BY <1>1, <1>2, RowsAssumption
<1>4. run.curr = Open(c[k]) /\ run.off = off /\ run.cond = S /\ run.i = i
  BY <1>1 DEF PassingAt
<1>5. Open(c[k]).offset = m /\ Open(c[k]).page = slots[c[k]]
  BY <1>2 DEF Open
<1>6. slots[c[k]][off + 1].v \notin S
  <2>1. c[k] \in Blocks /\ Weights(offset, slots, S)[c[k]] = 0
    BY AllLaid DEF PassingAt
  <2> QED BY <1>2, <1>3, <2>1, NoneOf
<1>7. ~Hit
  BY <1>4, <1>5, <1>6 DEF Hit
<1>8. Marked = curr
  BY <1>1, <1>4, <1>7 DEF Marked
<1>9. BlockDone <=> off + 1 >= m \/ i + 1 >= tb.num_rows
  BY <1>4, <1>5 DEF BlockDone
<1> QED BY <1>1, <1>2, <1>3, <1>7, <1>8, <1>9

(* num_rows loses the rows deleted: the table has as many again.           *)
LEMMA DeleteEndInv ==
  ASSUME FileTyped, NEW c, NEW f, Shape(c, f), Calls(c), DeleteEnd
  PROVE  Inv' /\ \E S \in SUBSET Values : held' = Store!Deleted(held, S)
<1>1. /\ run.op = "delete" /\ run.i >= tb.num_rows /\ run' = Idle
      /\ tb' = [tb EXCEPT !.num_rows = @ - run.deleted_rows]
      /\ db' = db /\ next_id' = next_id /\ offset' = offset /\ slots' = slots
      /\ held' = Counted(TableRows')
  BY DEF DeleteEnd
<1>2. PICK num \in 0 .. MaxRows : num = tb.num_rows
  BY DEF FileTyped
<1>3. ~Marking(c)
  <2>1. SUFFICES ASSUME NEW d, NEW S, NEW off, NEW k, MarkingAt(c, d, S, off, k) PROVE FALSE
    BY DEF Marking
  <2>2. run.i + 1 <= tb.num_rows /\ run.i \in Nat
    BY <2>1, MarkingStep
  <2> QED BY <1>1, <1>2, <2>2, RowsAssumption
<1>4. Passing(c)
  BY <1>1, <1>3, CallOf
<1>5. PICK S, curr, off, i, pre_id, next, last, gone :
        PassingAt(c, S, curr, off, i, pre_id, next, last, gone)
  BY <1>4 DEF Passing
<1>6. PICK rows \in Seq(Values) : rows = All(c)
  BY AllLaid
<1>7. /\ S \in SUBSET Values /\ gone \in Nat /\ num - gone = Len(rows)
      /\ Counted(rows) = Store!Deleted(held, S) /\ run.deleted_rows = gone
  BY <1>2, <1>5, <1>6 DEF PassingAt
<1>8. /\ tb'.num_rows = Len(rows) /\ tb'.first_record_block_id = tb.first_record_block_id
      /\ tb'.last_record_block_id = tb.last_record_block_id
      /\ tb' \in [first_record_block_id : Blocks, last_record_block_id : Blocks,
                  num_rows : 0 .. MaxRows]
  <2>1. PICK tb0 \in [first_record_block_id : Blocks, last_record_block_id : Blocks,
                      num_rows : 0 .. MaxRows] : tb0 = tb
    BY DEF FileTyped
  <2>2. tb' = [tb0 EXCEPT !.num_rows = num - gone]
    BY <1>1, <1>2, <1>7, <2>1
  <2>3. num - gone \in 0 .. MaxRows
    <3>1. Len(rows) \in Nat
      OBVIOUS
    <3> QED BY <1>7, <3>1, RowsAssumption
  <2>4. tb'.num_rows = num - gone
    BY <2>1, <2>2
  <2> QED BY <1>7, <2>1, <2>2, <2>3, <2>4
<1>9. FileTyped'
  BY <1>1, <1>8 DEF FileTyped
<1>10. Shape(c, f)'
  BY <1>1, <1>8 DEF Shape
<1>11. All(c)' = rows
  BY <1>1, <1>6 DEF All
<1>12. TableRows' = rows
  <2>1. Listed(c, tb'.first_record_block_id, tb'.last_record_block_id, next_id')
    BY <1>10 DEF Shape
  <2>2. TableRows' = FlattenSeq(Texts(c, offset', slots'))
    BY <2>1, TableReadNext DEF ReadsRight
  <2> QED BY <1>11, <2>2 DEF All
<1>13. Quiet(c)'
  BY <1>1, <1>8, <1>11, <1>12 DEF Quiet
<1>14. held' = Store!Deleted(held, S)
  BY <1>1, <1>7, <1>12
<1> QED BY <1>1, <1>7, <1>9, <1>10, <1>13, <1>14 DEF Inv, Calls

(* One row behind which the block goes on.                                 *)
LEMMA DeleteRowInv ==
  ASSUME FileTyped, NEW c, NEW f, Shape(c, f), Calls(c), DeleteRow
  PROVE  Inv' /\ held' = held
<1>1. /\ run.op = "delete" /\ run.i < tb.num_rows /\ ~BlockDone /\ FileVars' = FileVars /\ held' = held
      /\ run' = [run EXCEPT !.curr = Marked, !.off = @ + 1, !.i = @ + 1,
                            !.block_flag = @ \/ Hit,
                            !.deleted_rows = @ + (IF Hit THEN 1 ELSE 0)]
  BY DEF DeleteRow, FileVars
<1>2. /\ FileTyped' /\ Shape(c, f)' /\ All(c)' = All(c) /\ (Quiet(c) => Quiet(c)')
      /\ offset' = offset /\ slots' = slots /\ tb' = tb /\ next_id' = next_id
      /\ \A b : Open(b)' = Open(b)
  BY <1>1, FileKept
<1>3. CASE Marking(c)
  <2>1. PICK d, S, off, k : MarkingAt(c, d, S, off, k)
    BY <1>3 DEF Marking
  <2>2. PICK b : b = c[k]
    OBVIOUS
  <2>3. PICK m : m = offset[b]
    OBVIOUS
  <2>4. /\ m \in 0 .. Slots /\ off + 1 \in 1 .. m
        /\ BlockDone <=> off + 1 = m
        /\ Count(Column(slots[b]), off + 1, S) = run.deleted_rows + (IF Hit THEN 1 ELSE 0)
        /\ Count(Column(slots[b]), off + 1, S) # 0 <=> (run.block_flag \/ Hit)
        /\ Marked = [id |-> b, next_id |-> next_id[b], offset |-> m,
                     page |-> MarkedTo(slots[b], off + 1, S)]
    BY <2>1, <2>2, <2>3, MarkingStep
  <2>5. PICK n : n = off + 1
    OBVIOUS
  <2>6. n \in Nat /\ n < m /\ off \in Nat /\ k \in {1, 2}
    <3>1. off \in Nat /\ k \in {1, 2}
      BY <2>1 DEF MarkingAt
    <3> QED BY <1>1, <2>4, <2>5, <3>1, RowsAssumption
  <2>7. PICK i0 : i0 = IF k = 1 THEN off ELSE offset[c[1]] + off
    OBVIOUS
  <2>8. i0 + 1 = IF k = 1 THEN n ELSE offset[c[1]] + n
    <3>1. 1 \in 1 .. Len(c)
      <4>1. Len(c) \in Nat \ {0}
        BY AllLaid
      <4> QED BY <4>1
    <3>2. offset[c[1]] \in 0 .. Slots
      BY <3>1, AllLaid
    <3> QED BY <2>5, <2>6, <2>7, <3>2, RowsAssumption
  <2>9. PICK curr, gone, was, pre, next, last :
          /\ pre = c[1] /\ next = next_id[c[1]] /\ last = Open(c[Len(c)])
          /\ run = [op |-> "delete", cond |-> S, curr |-> curr, off |-> off, i |-> i0,
                    pre_id |-> pre, next_id |-> next, last |-> last,
                    deleted_rows |-> gone, block_flag |-> was]
    <3>1. PICK curr, i, pre, next, last, gone, was :
            MarkingLocals(c, S, off, k, curr, i, pre, next, last, gone, was)
      BY <2>1, MarkingRun
    <3>2. /\ pre = c[1] /\ next = next_id[c[1]] /\ last = Open(c[Len(c)])
          /\ run = [op |-> "delete", cond |-> S, curr |-> curr, off |-> off, i |-> i0,
                    pre_id |-> pre, next_id |-> next, last |-> last,
                    deleted_rows |-> gone, block_flag |-> was]
      BY <2>7, <3>1 DEF MarkingLocals
    <3> QED BY <3>2
  <2>10. PICK marked : marked = Marked
    OBVIOUS
  <2>11. PICK flag : flag = (run.block_flag \/ Hit)
    OBVIOUS
  <2>12. PICK num : num = run.deleted_rows + (IF Hit THEN 1 ELSE 0)
    OBVIOUS
  <2>13. run' = [op |-> "delete", cond |-> S, curr |-> marked, off |-> n, i |-> i0 + 1,
                 pre_id |-> pre, next_id |-> next, last |-> last,
                 deleted_rows |-> num, block_flag |-> flag]
    <3>1. run' = [run EXCEPT !.curr = marked, !.off = run.off + 1, !.i = run.i + 1,
                             !.block_flag = flag, !.deleted_rows = num]
      BY <1>1, <2>10, <2>11, <2>12
    <3>2. run.off + 1 = n /\ run.i + 1 = i0 + 1
      BY <2>5, <2>9
    <3> QED BY <2>9, <3>1, <3>2
  <2>14. flag = (Count(Column(slots[b]), n, S) # 0)
    <3>1. (run.block_flag \/ Hit) <=> Count(Column(slots[b]), n, S) # 0
      BY <2>4, <2>5
    <3> QED BY <2>11, <3>1
  <2>15. run' = [op |-> "delete", cond |-> S,
                 curr |-> [id |-> b, next_id |-> next_id'[b], offset |-> offset'[b],
                           page |-> MarkedTo(slots'[b], n, S)],
                 off |-> n, i |-> IF k = 1 THEN n ELSE offset'[c[1]] + n,
                 pre_id |-> c[1], next_id |-> next_id'[c[1]], last |-> Open(c[Len(c)])',
                 deleted_rows |-> Count(Column(slots'[b]), n, S),
                 block_flag |-> Count(Column(slots'[b]), n, S) # 0]
    BY <1>2, <2>3, <2>4, <2>5, <2>8, <2>9, <2>10, <2>12, <2>13, <2>14
  <2>16. OnlyIn(c, d, S)'
    BY <1>2, <2>1 DEF OnlyIn, MarkingAt, Weights
  <2>17. MarkingAt(c, d, S, n, k)'
    <3>1. Quiet(c)' /\ S \in SUBSET Values /\ k <= d
      BY <1>2, <2>1 DEF MarkingAt
    <3> QED BY <1>2, <2>2, <2>3, <2>6, <2>15, <2>16, <3>1 DEF MarkingAt
  <2> QED BY <1>1, <1>2, <2>17 DEF Inv, Calls, Marking
<1>4. CASE Passing(c)
  <2>1. PICK S, curr, off, i, pre_id, next, last, gone :
          PassingAt(c, S, curr, off, i, pre_id, next, last, gone)
    BY <1>4 DEF Passing
  <2>2. run.i = i
    BY <2>1 DEF PassingAt
  <2>3. PICK k \in 1 .. Len(c) :
           /\ curr = Open(c[k]) /\ off \in Nat /\ off + 1 \in 1 .. offset[c[k]]
           /\ offset[c[k]] \in 0 .. Slots
           /\ BlockDone <=> off + 1 >= offset[c[k]] \/ i + 1 >= tb.num_rows
           /\ ~Hit /\ Marked = curr
    BY <1>1, <2>1, <2>2, PassingStep
  <2>4. PICK m \in Nat : m = offset[c[k]]
    BY <2>3, RowsAssumption
  <2>5. off + 1 \in Nat /\ off + 1 < m /\ i \in Nat /\ i + 1 \in Nat /\ i + 1 < tb.num_rows
    <3>1. i \in Nat
      BY <2>1 DEF PassingAt
    <3>2. tb.num_rows \in 0 .. MaxRows
      BY DEF FileTyped
    <3>3. PICK num \in Nat : num = tb.num_rows
      BY <3>2, RowsAssumption
    <3>4. ~(off + 1 >= m) /\ ~(i + 1 >= num) /\ off \in Nat
      BY <1>1, <2>3, <2>4, <3>3
    <3> QED BY <3>1, <3>3, <3>4
  <2>6. PICK o : o = off + 1
    OBVIOUS
  <2>7. PICK j : j = i + 1
    OBVIOUS
  <2>8. Ahead(c, curr, o, j, next)'
    <3>1. Ahead(c, curr, off, i, next)
      BY <1>1, <2>1, <2>2 DEF PassingAt
    <3>2. \/ next \in Range(c)
          \/ Len(c) = 1 /\ j = o /\ tb.num_rows = offset[c[1]]
      BY <2>6, <2>7, <3>1 DEF Ahead
    <3>3. curr = Open(c[k])' /\ o \in Nat /\ o < offset'[c[k]]
      BY <1>2, <2>3, <2>4, <2>5, <2>6
    <3> QED BY <1>2, <3>2, <3>3 DEF Ahead
  <2>9. run = [op |-> "delete", cond |-> S, curr |-> curr, off |-> off, i |-> i,
            pre_id |-> pre_id, next_id |-> next, last |-> last,
            deleted_rows |-> gone, block_flag |-> FALSE] /\ gone \in Nat
    BY <2>1 DEF PassingAt
  <2>10. run' = [op |-> "delete", cond |-> S, curr |-> curr, off |-> o, i |-> j,
            pre_id |-> pre_id, next_id |-> next, last |-> last,
            deleted_rows |-> gone, block_flag |-> FALSE]
    <3>1. PICK flag : flag = (run.block_flag \/ Hit)
      OBVIOUS
    <3>2. PICK num : num = run.deleted_rows + (IF Hit THEN 1 ELSE 0)
      OBVIOUS
    <3>3. flag = FALSE
      <4>1. run.block_flag = FALSE
        BY <2>9
      <4> QED BY <2>3, <3>1, <4>1
    <3>4. num = gone
      BY <2>3, <2>9, <3>2
    <3>5. run' = [run EXCEPT !.curr = curr, !.off = run.off + 1, !.i = run.i + 1,
                             !.block_flag = flag, !.deleted_rows = num]
      BY <1>1, <2>3, <3>1, <3>2
    <3>6. run.off + 1 = o /\ run.i + 1 = j
      BY <2>6, <2>7, <2>9
    <3> QED BY <2>9, <3>3, <3>4, <3>5, <3>6
  <2>11. /\ S \in SUBSET Values /\ \A l \in 1 .. Len(c) : Weights(offset, slots, S)[c[l]] = 0
         /\ tb.num_rows - gone = Len(All(c))
         /\ Counted(All(c)) = Store!Deleted(held, S)
    BY <2>1 DEF PassingAt
  <2>12. \A l \in 1 .. Len(c) : Weights(offset', slots', S)[c[l]] = 0
    BY <1>2, <2>11 DEF Weights
  <2>13. j <= tb.num_rows
    <3>1. tb.num_rows \in 0 .. MaxRows
      BY DEF FileTyped
    <3> QED BY <2>5, <2>7, <3>1, RowsAssumption
  <2>14. PassingAt(c, S, curr, o, j, pre_id, next, last, gone)'
    BY <1>1, <1>2, <2>5, <2>7, <2>8, <2>9, <2>10, <2>11, <2>12, <2>13 DEF PassingAt
  <2> QED BY <1>1, <1>2, <2>14 DEF Inv, Calls, Passing
<1> QED BY <1>1, <1>3, <1>4, CallOf
-----------------------------------------------------------------------------
(* The rows of S gone, and no other change.                                *)
LEMMA DeletedCounts ==
  ASSUME NEW rows \in Seq(Values), NEW rows2 \in Seq(Values), NEW S \in SUBSET Values,
         \A P : Count(rows2, Len(rows2), P) = Count(rows, Len(rows), P \ S)
  PROVE  /\ Counted(rows2) = Store!Deleted(Counted(rows), S)
         /\ Len(rows2) = Len(rows) - Count(rows, Len(rows), S)
         /\ Count(rows, Len(rows), S) \in Nat
<1>1. Len(rows) \in Nat /\ Len(rows2) \in Nat
  OBVIOUS
<1>2. /\ Counted(rows) = [x \in Values |-> Count(rows, Len(rows), {x})]
      /\ Counted(rows2) = [x \in Values |-> Count(rows2, Len(rows2), {x})]
  BY CountedIs
<1>3. ASSUME NEW x \in Values
      PROVE  Counted(rows2)[x] = IF x \in S THEN 0 ELSE Counted(rows)[x]
  <2>1. CASE x \in S
    <3>1. {x} \ S = {}
      BY <2>1
    <3>2. Count(rows, Len(rows), {}) = 0
      BY <1>1, CountNone
    <3> QED BY <1>2, <2>1, <3>1, <3>2
  <2>2. CASE x \notin S
    <3>1. {x} \ S = {x}
      BY <2>2
    <3> QED BY <1>2, <2>2, <3>1
  <2> QED BY <2>1, <2>2
<1>4. Counted(rows2) = Store!Deleted(Counted(rows), S)
  <2>1. PICK bag : bag = Counted(rows)
    OBVIOUS
  <2>2. PICK bag2 : bag2 = Counted(rows2)
    OBVIOUS
  <2>3. bag2 = [x \in Values |-> bag2[x]]
    BY <1>2, <2>2
  <2>4. \A x \in Values : bag2[x] = IF x \in S THEN 0 ELSE bag[x]
    BY <1>3, <2>1, <2>2
  <2> QED BY <2>1, <2>2, <2>3, <2>4 DEF Store!Deleted
<1>5. Len(rows2) = Len(rows) - Count(rows, Len(rows), S)
  <2>1. Count(rows, Len(rows), Values) = Len(rows) /\ Count(rows2, Len(rows2), Values) = Len(rows2)
    BY CountAll
  <2>2. (Values \ S) \cap S = {} /\ (Values \ S) \cup S = Values
    OBVIOUS
  <2>3. Count(rows, Len(rows), Values) =
          Count(rows, Len(rows), Values \ S) + Count(rows, Len(rows), S)
    BY <1>1, <2>2, CountBoth
  <2>4. /\ Count(rows, Len(rows), Values \ S) \in Nat /\ Count(rows, Len(rows), S) \in Nat
    BY <1>1, CountNat
  <2>5. Count(rows2, Len(rows2), Values) = Count(rows, Len(rows), Values \ S)
    OBVIOUS
  <2> QED BY <1>1, <2>1, <2>3, <2>4, <2>5
<1>6. Count(rows, Len(rows), S) \in Nat
  BY <1>1, CountNat
<1> QED BY <1>4, <1>5, <1>6

(* A delete that finds no row changes nothing.                             *)
LEMMA NothingDeleted ==
  ASSUME FileTyped, NEW c, NEW f, Shape(c, f), NEW S \in SUBSET Values,
         \A i \in 1 .. Len(c) : Weights(offset, slots, S)[c[i]] = 0
  PROVE  Counted(All(c)) = Store!Deleted(Counted(All(c)), S)
<1>1. PICK rows \in Seq(Values) : rows = All(c)
  BY AllLaid
<1>2. Len(rows) \in Nat
  OBVIOUS
<1>3. Count(rows, Len(rows), S) = 0
  <2>1. Listed(c, tb.first_record_block_id, tb.last_record_block_id, next_id) /\ Filled(c, offset, slots)
    BY DEF Shape
  <2>2. offset \in [Blocks -> 0 .. Slots]
    BY DEF FileTyped
  <2>3. Count(rows, Len(rows), S) = Total(Weights(offset, slots, S), Range(c))
    BY <1>1, <2>1, <2>2, AllIs DEF All
  <2>4. IsFiniteSet(Range(c)) /\ Range(c) = {c[i] : i \in 1 .. Len(c)}
    BY <2>1, ListedOn
  <2>5. \A b \in Range(c) : Weights(offset, slots, S)[b] = 0
    BY <2>4
  <2> QED BY <2>3, <2>4, <2>5, TotalZero
<1>4. \A j \in 1 .. Len(rows) : rows[j] \notin S
  BY <1>2, <1>3, CountNone
<1>5. \A P : Count(rows, Len(rows), P) = Count(rows, Len(rows), P \ S)
  <2> TAKE P
  <2>1. \A j \in 1 .. Len(rows) : rows[j] \in P <=> rows[j] \in P \ S
    BY <1>4
  <2> QED BY <1>2, <2>1, CountSame
<1> QED BY <1>1, <1>5, DeletedCounts

(* What an orderly delete asks of the file.                                *)
LEMMA OrderlyIs ==
  ASSUME FileTyped, NEW c, NEW f, Shape(c, f), NEW S, Orderly(S)
  PROVE  \/ \A i \in 1 .. Len(c) : Weights(offset, slots, S)[c[i]] = 0
         \/ \E d : OnlyIn(c, d, S)
<1>1. PICK n \in Nat \ {0} : n = Len(c)
  BY AllLaid
<1>2. TableBlocks = c /\ c \in Seq(Blocks) /\ DOMAIN c = 1 .. n
  <2>1. Listed(c, tb.first_record_block_id, tb.last_record_block_id, next_id)
    BY DEF Shape
  <2>2. c \in Seq(Blocks)
    BY <2>1 DEF Listed
  <2> QED BY <1>1, <2>1, <2>2, TableRead DEF ReadsRight
<1>3. PICK hit : hit = {i \in 1 .. n : Hits(c[i], S) # {}}
  OBVIOUS
<1>4. /\ Cardinality(hit) <= 1 /\ hit \subseteq {1, 2}
      /\ hit # {} => next_id[tb.last_record_block_id] = tb.last_record_block_id
      /\ \A i \in hit : i = n /\ i # 1 => Cardinality(Hits(c[i], S)) < offset[c[i]]
  BY <1>1, <1>2, <1>3 DEF Orderly
<1>5. \A i \in 1 .. n : /\ i \in hit <=> Weights(offset, slots, S)[c[i]] # 0
                        /\ Weights(offset, slots, S)[c[i]] = Cardinality(Hits(c[i], S))
  <2> TAKE i \in 1 .. n
  <2>1. c[i] \in Blocks
    BY <1>1, AllLaid
  <2>2. /\ Weights(offset, slots, S)[c[i]] = 0
             <=> \A s \in 1 .. offset[c[i]] : slots[c[i]][s].v \notin S
        /\ Weights(offset, slots, S)[c[i]] = Cardinality(Hits(c[i], S))
    BY <2>1, NoneOf
  <2>3. i \in hit <=> \E s \in 1 .. offset[c[i]] : slots[c[i]][s].v \in S
    BY <1>3 DEF Hits
  <2> QED BY <2>2, <2>3
<1>6. CASE hit = {}
  BY <1>1, <1>5, <1>6
<1>7. CASE hit # {}
  <2>1. PICK d \in hit : TRUE
    BY <1>7
  <2>2. d \in {1, 2} /\ d \in 1 .. n /\ d <= n
    BY <1>3, <1>4, <2>1
  <2>3. \A i \in hit : i = d
    <3> SUFFICES ASSUME NEW i \in hit, i # d PROVE FALSE
      OBVIOUS
    <3>1. IsFiniteSet(hit)
      <4>1. IsFiniteSet({1, 2})
        <5>1. PICK T : T = {1}
          OBVIOUS
        <5>2. IsFiniteSet(T) /\ T \cup {2} = {1, 2}
          BY <5>1, FS_Singleton
        <5> QED BY <5>2, FS_AddElement
      <4> QED BY <1>4, <4>1, FS_Subset
    <3>2. {d, i} \subseteq hit /\ Cardinality({d, i}) = 2 /\ IsFiniteSet({d, i})
      <4>1. IsFiniteSet({i}) /\ Cardinality({i}) = 1
        BY FS_Singleton
      <4>2. PICK T : T = {i}
        OBVIOUS
      <4>3. T \cup {d} = {d, i} /\ d \notin T
        BY <4>2
      <4>4. Cardinality(T \cup {d}) = Cardinality(T) + 1 /\ IsFiniteSet(T \cup {d})
        BY <4>1, <4>2, <4>3, FS_AddElement
      <4> QED BY <2>1, <4>1, <4>2, <4>3, <4>4
    <3>3. Cardinality({d, i}) <= Cardinality(hit) /\ Cardinality(hit) \in Nat
      BY <3>1, <3>2, FS_Subset, FS_CardinalityType
    <3> QED BY <1>4, <3>2, <3>3
  <2>4. next_id[c[n]] = c[n]
    BY <1>1, <1>4, <1>7, AllLaid
  <2>5. \A i \in 1 .. n : i = d <=> Weights(offset, slots, S)[c[i]] # 0
    BY <1>5, <2>1, <2>3
  <2>6. d = n /\ d # 1 => Weights(offset, slots, S)[c[d]] < offset[c[d]]
    BY <1>4, <1>5, <2>1, <2>2
  <2>7. OnlyIn(c, d, S)
    BY <1>1, <2>2, <2>4, <2>5, <2>6 DEF OnlyIn
  <2> QED BY <2>7
<1> QED BY <1>6, <1>7

(* The first block has rows if the table has.                              *)
LEMMA FirstPlace ==
  ASSUME FileTyped, NEW c, NEW f, Shape(c, f), Len(All(c)) # 0
  PROVE  /\ offset[c[1]] \in Nat /\ 0 < offset[c[1]]
         /\ \/ next_id[c[1]] \in Range(c)
            \/ Len(c) = 1 /\ Len(All(c)) = offset[c[1]]
<1>1. PICK n \in Nat \ {0} : n = Len(c)
  BY AllLaid
<1>2. 1 \in 1 .. n /\ offset[c[1]] \in 0 .. Slots /\ offset[c[1]] \in Nat
  <2>1. 1 \in 1 .. n
    OBVIOUS
  <2>2. offset[c[1]] \in 0 .. Slots
    BY <1>1, <2>1, AllLaid
  <2> QED BY <2>1, <2>2, RowsAssumption
<1>3. CASE n = 1
  <2>1. PICK at : Lays(All(c), at, c, offset, slots)
    BY AllLaid
  <2>2. at[1] = 0 /\ at[1 + 1] = at[1] + offset[c[1]] /\ Len(All(c)) = at[1 + 1]
    BY <1>1, <1>2, <1>3, <2>1 DEF Lays
  <2>3. Len(All(c)) = offset[c[1]]
    BY <1>2, <2>2
  <2> QED BY <1>1, <1>2, <1>3, <2>3
<1>4. CASE n # 1
  <2>1. offset[c[1]] # 0
    BY <1>1, <1>2, <1>4 DEF Shape
  <2>2. 1 \in 1 .. n - 1 /\ 1 + 1 \in 1 .. n
    BY <1>4
  <2>3. next_id[c[1]] = c[1 + 1]
    BY <1>1, <2>2 DEF Shape, Listed
  <2>4. c[1 + 1] \in Range(c)
    <3>1. Range(c) = {c[i] : i \in 1 .. Len(c)}
      BY ListedOn DEF Shape
    <3> QED BY <1>1, <2>2, <3>1
  <2> QED BY <1>2, <2>1, <2>3, <2>4
<1> QED BY <1>3, <1>4

(* A delete begins to mark in the first block, or has nothing to mark.     *)
LEMMA DeleteStartInv ==
  ASSUME OrderlyDeletes, FileTyped, NEW c, NEW f, Shape(c, f), Calls(c),
         NEW S \in SUBSET Values, DeleteStart(S)
  PROVE  Inv' /\ held' = held
<1>1. Quiet(c) /\ FileVars' = FileVars /\ held' = held /\ Orderly(S)
  BY CallOf DEF DeleteStart, FileVars
<1>2. /\ FileTyped' /\ Shape(c, f)' /\ All(c)' = All(c) /\ tb' = tb /\ next_id' = next_id
      /\ offset' = offset /\ slots' = slots /\ (\A b : Open(b)' = Open(b)) /\ Quiet(c)'
  BY <1>1, FileKept
<1>3. /\ 1 \in 1 .. Len(c) /\ c[1] = tb.first_record_block_id /\ Len(c) \in Nat \ {0}
      /\ c[Len(c)] = tb.last_record_block_id
  <2>1. PICK n \in Nat \ {0} : n = Len(c)
    BY AllLaid
  <2>2. 1 \in 1 .. n
    OBVIOUS
  <2> QED BY <2>1, <2>2, AllLaid
<1>4. run' = [op |-> "delete", cond |-> S, curr |-> Open(c[1]), off |-> 0, i |-> 0,
              pre_id |-> c[1], next_id |-> next_id[c[1]], last |-> Open(c[Len(c)]),
              deleted_rows |-> 0, block_flag |-> FALSE]
  BY <1>3 DEF DeleteStart
<1>5. held = Counted(All(c)) /\ tb.num_rows = Len(All(c)) /\ tb.num_rows \in Nat
  BY <1>1, AllLaid DEF Quiet
<1>6. CASE \A i \in 1 .. Len(c) : Weights(offset, slots, S)[c[i]] = 0
  <2>1. PICK curr, next, last : curr = Open(c[1]) /\ next = next_id[c[1]] /\ last = Open(c[Len(c)])
    OBVIOUS
  <2>2. 0 < tb.num_rows => Ahead(c, curr, 0, 0, next)
    BY <1>3, <1>5, <2>1, FirstPlace DEF Ahead
  <2>3. Counted(All(c)) = Store!Deleted(held, S)
    BY <1>5, <1>6, NothingDeleted
  <2>4. Ahead(c, curr, 0, 0, next)' <=> Ahead(c, curr, 0, 0, next)
    BY <1>2 DEF Ahead
  <2>5. Counted(All(c)') = Store!Deleted(held', S)
    BY <1>1, <1>2, <2>3
  <2>6. \A i \in 1 .. Len(c) : Weights(offset', slots', S)[c[i]] = 0
    BY <1>2, <1>6 DEF Weights
  <2>7. tb'.num_rows - 0 = Len(All(c)') /\ 0 <= tb'.num_rows /\ tb'.num_rows = tb.num_rows
    BY <1>2, <1>5
  <2>8. run' = [op |-> "delete", cond |-> S, curr |-> curr, off |-> 0, i |-> 0,
              pre_id |-> c[1], next_id |-> next, last |-> last,
              deleted_rows |-> 0, block_flag |-> FALSE]
    BY <1>4, <2>1
  <2>9. PassingAt(c, S, curr, 0, 0, c[1], next, last, 0)'
    BY <2>2, <2>4, <2>5, <2>6, <2>7, <2>8 DEF PassingAt
  <2> QED BY <1>1, <1>2, <2>9 DEF Inv, Calls, Passing
<1>7. CASE \E d : OnlyIn(c, d, S)
  <2>1. PICK d : OnlyIn(c, d, S)
    BY <1>7
  <2>2. OnlyIn(c, d, S)'
    BY <1>2, <2>1 DEF OnlyIn, Weights
  <2>3. d \in 1 .. Len(c) /\ d \in {1, 2}
    BY <1>3, <2>1 DEF OnlyIn
  <2>4. /\ c[1] \in Blocks /\ offset[c[1]] \in Nat /\ 0 < offset[c[1]]
    <3>1. c[1] \in Blocks /\ offset[c[1]] \in 0 .. Slots
      BY <1>3, AllLaid
    <3>2. offset[c[1]] # 0
      <4>1. CASE d = 1
        <5>1. Weights(offset, slots, S)[c[1]] # 0
          BY <1>3, <2>1, <4>1 DEF OnlyIn
        <5>2. Weights(offset, slots, S)[c[1]] = 0 <=>
                \A s \in 1 .. offset[c[1]] : slots[c[1]][s].v \notin S
          BY <3>1, NoneOf
        <5>3. ~(\E s \in 1 .. 0 : TRUE)
          OBVIOUS
        <5> QED BY <5>1, <5>2, <5>3
      <4>2. CASE d = 2
        <5>1. PICK n \in Nat \ {0} : n = Len(c) /\ d \in 1 .. n
          BY <1>3, <2>3
        <5>2. n # 1
          BY <4>2, <5>1
        <5> QED BY <1>3, <5>1, <5>2 DEF Shape
      <4> QED BY <2>3, <4>1, <4>2
    <3> QED BY <3>1, <3>2, RowsAssumption
  <2>5. PICK page : page = slots[c[1]]
    OBVIOUS
  <2>6. MarkedTo(page, 0, S) = page
    <3>1. page \in Pages
      BY <2>4, <2>5 DEF FileTyped, Pages
    <3>2. \A s \in 1 .. Slots : ~(s <= 0)
      OBVIOUS
    <3>3. MarkedTo(page, 0, S) = [s \in 1 .. Slots |-> page[s]]
      BY <3>2 DEF MarkedTo
    <3> QED BY <3>1, <3>3 DEF Pages
  <2>7. Count(Column(page), 0, S) = 0
    BY CountNone
  <2>8. run' = [op |-> "delete", cond |-> S,
            curr |-> [id |-> c[1], next_id |-> next_id'[c[1]], offset |-> offset'[c[1]],
                      page |-> MarkedTo(slots'[c[1]], 0, S)],
            off |-> 0, i |-> IF 1 = 1 THEN 0 ELSE offset'[c[1]] + 0,
            pre_id |-> c[1], next_id |-> next_id'[c[1]], last |-> Open(c[Len(c)])',
            deleted_rows |-> Count(Column(slots'[c[1]]), 0, S),
            block_flag |-> Count(Column(slots'[c[1]]), 0, S) # 0]
    <3>1. Open(c[1]) = [id |-> c[1], next_id |-> next_id[c[1]], offset |-> offset[c[1]],
                        page |-> page]
      BY <2>5 DEF Open
    <3> QED BY <1>2, <1>4, <2>5, <2>6, <2>7, <3>1
  <2>9. MarkingAt(c, d, S, 0, 1)'
    <3>1. 1 <= d /\ 0 < offset'[c[1]]
      BY <1>2, <2>3, <2>4
    <3> QED BY <1>2, <2>2, <2>8, <3>1 DEF MarkingAt
  <2> QED BY <1>1, <1>2, <2>9 DEF Inv, Calls, Marking
<1> QED BY <1>1, <1>6, <1>7, OrderlyIs
-----------------------------------------------------------------------------
(* A page of which no row is marked is the page that was read.             *)
LEMMA MarkedNone ==
  ASSUME NEW page \in Pages, NEW S
  PROVE  MarkedTo(page, 0, S) = page /\ Count(Column(page), 0, S) = 0
<1>1. \A s \in 1 .. Slots : ~(s <= 0)
  OBVIOUS
<1>2. MarkedTo(page, 0, S) = [s \in 1 .. Slots |-> page[s]]
  BY <1>1 DEF MarkedTo
<1> QED BY <1>2, CountNone DEF Pages

(* A block without rows to delete is left for the next.                    *)
LEMMA DeleteSkipBlockInv ==
  ASSUME FileTyped, NEW c, NEW f, Shape(c, f), Calls(c), DeleteSkipBlock
  PROVE  Inv' /\ held' = held
<1>1. /\ run.op = "delete" /\ run.i < tb.num_rows /\ BlockDone /\ ~run.block_flag /\ ~Hit
      /\ FileVars' = FileVars /\ held' = held
      /\ run' = Turned(run.next_id, run.last)
  BY DEF DeleteSkipBlock, FileVars
<1>2. /\ FileTyped' /\ Shape(c, f)' /\ All(c)' = All(c) /\ (Quiet(c) => Quiet(c)')
      /\ offset' = offset /\ slots' = slots /\ tb' = tb /\ next_id' = next_id
      /\ \A b : Open(b)' = Open(b)
  BY <1>1, FileKept
<1>3. PICK n \in Nat \ {0} : n = Len(c)
  BY AllLaid
<1>4. run' = [run EXCEPT !.curr = Open(run.next_id), !.off = 0, !.i = run.i + 1,
                         !.pre_id = run.curr.id, !.last = run.last, !.block_flag = FALSE,
                         !.deleted_rows = run.deleted_rows + 0]
  <2>1. [id |-> run.next_id, next_id |-> next_id'[run.next_id], offset |-> offset'[run.next_id],
         page |-> slots'[run.next_id]] = Open(run.next_id)
    BY <1>2 DEF Open
  <2>2. PICK num : num = run.deleted_rows + (IF Hit THEN 1 ELSE 0)
    OBVIOUS
  <2>3. num = run.deleted_rows + 0
    BY <1>1, <2>2
  <2>4. run' = [run EXCEPT !.curr = Open(run.next_id), !.off = 0, !.i = run.i + 1,
                         !.pre_id = run.curr.id, !.last = run.last, !.block_flag = FALSE,
                         !.deleted_rows = num]
    BY <1>1, <2>1, <2>2 DEF Turned
  <2> QED BY <2>3, <2>4
<1>5. CASE Marking(c)
  <2>1. PICK d, S, off, k : MarkingAt(c, d, S, off, k)
    BY <1>5 DEF Marking
  <2>2. PICK b : b = c[k]
    OBVIOUS
  <2>3. PICK m : m = offset[b]
    OBVIOUS
  <2>4. /\ k \in 1 .. n /\ b \in Blocks /\ off + 1 = m
        /\ Count(Column(slots[b]), off + 1, S) = 0
    BY <1>1, <1>3, <2>1, <2>2, <2>3, MarkingStep
  <2>5. OnlyIn(c, d, S) /\ k \in {1, 2} /\ k <= d
    BY <2>1 DEF MarkingAt
  <2>6. d \in {1, 2} /\ d <= n /\ Weights(offset, slots, S)[c[d]] # 0
    <3>1. d \in {1, 2} /\ d <= n
      BY <1>3, <2>5 DEF OnlyIn
    <3>2. d \in 1 .. n
      BY <3>1
    <3> QED BY <1>3, <2>5, <3>1, <3>2 DEF OnlyIn
  <2>7. Weights(offset, slots, S)[b] = 0
    <3>1. offset \in [Blocks -> 0 .. Slots]
      BY DEF FileTyped
    <3>2. Weights(offset, slots, S)[b] = Count(Column(slots[b]), m, S)
      BY <2>3, <2>4, <3>1, WeightsNat
    <3> QED BY <2>4, <3>2
  <2>8. k = 1 /\ d = 2 /\ n # 1 /\ 2 \in 1 .. n /\ 1 \in 1 .. n - 1
    <3>1. k # d
      BY <2>2, <2>6, <2>7
    <3>2. k = 1 /\ d = 2
      BY <2>5, <2>6, <3>1
    <3> QED BY <2>6, <3>2
  <2>9. next_id[c[1]] = c[2]
    <3>1. 1 + 1 = 2
      OBVIOUS
    <3>2. next_id[c[1]] = c[1 + 1]
      BY <1>3, <2>8 DEF Shape, Listed
    <3> QED BY <3>1, <3>2
  <2>10. c[2] \in Blocks /\ offset[c[2]] \in Nat /\ 0 < offset[c[2]]
    <3>1. c[2] \in Blocks /\ offset[c[2]] \in 0 .. Slots
      BY <1>3, <2>8, AllLaid
    <3>2. offset[c[2]] # 0
      BY <1>3, <2>8 DEF Shape
    <3> QED BY <3>1, <3>2, RowsAssumption
  <2>11. PICK page : page = slots[c[2]]
    OBVIOUS
  <2>12. MarkedTo(page, 0, S) = page /\ Count(Column(page), 0, S) = 0
    <3>1. page \in Pages
      BY <2>10, <2>11 DEF FileTyped, Pages
    <3> QED BY <3>1, MarkedNone
  <2>13. PICK curr, gone, was, pre, next, last :
          /\ pre = c[1] /\ next = next_id[c[1]] /\ last = Open(c[n])
          /\ curr.id = c[1]
          /\ run = [op |-> "delete", cond |-> S, curr |-> curr, off |-> off, i |-> off,
                    pre_id |-> pre, next_id |-> next, last |-> last,
                    deleted_rows |-> gone, block_flag |-> was]
    <3>1. PICK curr, i, pre, next, last, gone, was :
            MarkingLocals(c, S, off, k, curr, i, pre, next, last, gone, was)
      BY <2>1, MarkingRun
    <3>2. i = off /\ curr.id = c[1]
      BY <2>8, <3>1 DEF MarkingLocals
    <3>3. /\ pre = c[1] /\ next = next_id[c[1]] /\ last = Open(c[n])
          /\ run = [op |-> "delete", cond |-> S, curr |-> curr, off |-> off, i |-> off,
                    pre_id |-> pre, next_id |-> next, last |-> last,
                    deleted_rows |-> gone, block_flag |-> was]
      BY <1>3, <3>1, <3>2 DEF MarkingLocals
    <3> QED BY <3>2, <3>3
  <2>14. gone + 0 = 0
    <3>1. run.deleted_rows = gone
      BY <2>13
    <3>2. Count(Column(slots[b]), off + 1, S) = run.deleted_rows + (IF Hit THEN 1 ELSE 0)
          /\ run.deleted_rows \in Nat
      BY <2>1, <2>2, <2>3, MarkingStep
    <3> QED BY <1>1, <2>4, <3>1, <3>2
  <2>15. PICK open : open = Open(next)
    OBVIOUS
  <2>16. run' = [op |-> "delete", cond |-> S, curr |-> open, off |-> 0, i |-> off + 1,
                 pre_id |-> pre, next_id |-> next, last |-> last,
                 deleted_rows |-> gone + 0, block_flag |-> FALSE]
    <3>1. PICK r : r = run
      OBVIOUS
    <3>2. /\ r.next_id = next /\ r.i = off /\ r.curr.id = pre /\ r.last = last
          /\ r.deleted_rows = gone
      BY <2>13, <3>1
    <3>3. PICK i, num : i = off + 1 /\ num = gone + 0
      OBVIOUS
    <3>4. run' = [r EXCEPT !.curr = open, !.off = 0, !.i = i, !.pre_id = pre, !.last = last,
                           !.block_flag = FALSE, !.deleted_rows = num]
      BY <1>4, <2>15, <3>1, <3>2, <3>3
    <3>5. run' = [op |-> "delete", cond |-> S, curr |-> open, off |-> 0, i |-> i,
                 pre_id |-> pre, next_id |-> next, last |-> last,
                 deleted_rows |-> num, block_flag |-> FALSE]
      BY <2>13, <3>1, <3>4
    <3> QED BY <3>3, <3>5
  <2>17. run' = [op |-> "delete", cond |-> S,
            curr |-> [id |-> c[2], next_id |-> next_id'[c[2]], offset |-> offset'[c[2]],
                      page |-> MarkedTo(slots'[c[2]], 0, S)],
            off |-> 0, i |-> IF 2 = 1 THEN 0 ELSE offset'[c[1]] + 0,
            pre_id |-> c[1], next_id |-> next_id'[c[1]], last |-> Open(c[Len(c)])',
            deleted_rows |-> Count(Column(slots'[c[2]]), 0, S),
            block_flag |-> Count(Column(slots'[c[2]]), 0, S) # 0]
    <3>1. open = [id |-> c[2], next_id |-> next_id'[c[2]], offset |-> offset'[c[2]],
                  page |-> MarkedTo(slots'[c[2]], 0, S)]
      BY <1>2, <2>9, <2>11, <2>12, <2>13, <2>15 DEF Open
    <3>2. off + 1 = offset'[c[1]] + 0
      <4>1. off \in Nat
        BY <2>1 DEF MarkingAt
      <4>2. offset'[c[1]] = m
        BY <1>2, <2>2, <2>3, <2>8
      <4>3. m = off + 1
        BY <2>4
      <4> QED BY <4>1, <4>2, <4>3
    <3>3. Count(Column(slots'[c[2]]), 0, S) = 0
      BY <1>2, <2>11, <2>12
    <3>4. last = Open(c[Len(c)])' /\ pre = c[1] /\ next = next_id'[c[1]]
      BY <1>2, <1>3, <2>13
    <3>5. PICK i : i = IF 2 = 1 THEN 0 ELSE offset'[c[1]] + 0
      OBVIOUS
    <3>6. i = off + 1
      BY <3>2, <3>5
    <3> QED BY <2>14, <2>16, <3>1, <3>3, <3>4, <3>5, <3>6
  <2>18. OnlyIn(c, 2, S)'
    BY <1>2, <2>5, <2>8 DEF OnlyIn, Weights
  <2>19. MarkingAt(c, 2, S, 0, 2)'
    <3>1. Quiet(c)' /\ S \in SUBSET Values
      BY <1>2, <2>1 DEF MarkingAt
    <3>2. 0 < offset'[c[2]]
      BY <1>2, <2>10
    <3> QED BY <2>17, <2>18, <3>1, <3>2 DEF MarkingAt
  <2> QED BY <1>1, <1>2, <2>19 DEF Inv, Calls, Marking
<1>6. CASE Passing(c)
  <2>1. PICK S, curr, off, i, pre_id, next, last, gone :
          PassingAt(c, S, curr, off, i, pre_id, next, last, gone)
    BY <1>6 DEF Passing
  <2>2. run = [op |-> "delete", cond |-> S, curr |-> curr, off |-> off, i |-> i,
            pre_id |-> pre_id, next_id |-> next, last |-> last,
            deleted_rows |-> gone, block_flag |-> FALSE] /\ gone \in Nat /\ i \in Nat
    BY <2>1 DEF PassingAt
  <2>3. i < tb.num_rows
    BY <1>1, <2>2
  <2>4. PICK k \in 1 .. Len(c) :
           /\ curr = Open(c[k]) /\ off \in Nat /\ off + 1 \in 1 .. offset[c[k]]
           /\ offset[c[k]] \in 0 .. Slots
           /\ off + 1 >= offset[c[k]] \/ i + 1 >= tb.num_rows
    BY <1>1, <2>1, <2>3, PassingStep
  <2>5. PICK num \in Nat : num = tb.num_rows
    <3>1. tb.num_rows \in 0 .. MaxRows
      BY DEF FileTyped
    <3> QED BY <3>1, RowsAssumption
  <2>6. PICK m \in Nat : m = offset[c[k]]
    BY <2>4, RowsAssumption
  <2>7. PICK j : j = i + 1
    OBVIOUS
  <2>8. PICK open : open = Open(next)
    OBVIOUS
  <2>9. j < num => Ahead(c, open, 0, j, next)
    <3> SUFFICES ASSUME j < num PROVE Ahead(c, open, 0, j, next)
      OBVIOUS
    <3>1. next \in Range(c)
      <4>1. SUFFICES ASSUME Len(c) = 1, i = off, tb.num_rows = offset[c[1]] PROVE FALSE
        BY <2>1, <2>3 DEF PassingAt, Ahead
      <4>2. k = 1
        BY <2>4, <4>1
      <4>3. num = m
        BY <2>5, <2>6, <4>1, <4>2
      <4>4. off + 1 >= m \/ off + 1 >= num
        BY <2>4, <2>5, <2>6, <4>1
      <4> QED BY <2>2, <2>7, <4>1, <4>3, <4>4
    <3>2. PICK l \in 1 .. n : next = c[l]
      <4>1. Range(c) = {c[x] : x \in 1 .. Len(c)}
        BY ListedOn DEF Shape
      <4> QED BY <1>3, <3>1, <4>1
    <3>3. 0 < offset[c[l]]
      <4>1. offset[c[l]] \in 0 .. Slots
        BY <1>3, AllLaid
      <4>2. offset[c[l]] # 0
        <5>1. CASE n = 1
          <6>1. l = 1 /\ k = 1
            BY <1>3, <2>4, <5>1
          <6>2. m # 0
            BY <2>4, <2>6
          <6> QED BY <2>6, <6>1, <6>2
        <5>2. CASE n # 1
          BY <1>3, <5>2 DEF Shape
        <5> QED BY <5>1, <5>2
      <4> QED BY <4>1, <4>2, RowsAssumption
    <3> QED BY <1>3, <2>8, <3>1, <3>2, <3>3 DEF Ahead
  <2>10. Ahead(c, open, 0, j, next)' <=> Ahead(c, open, 0, j, next)
    BY <1>2 DEF Ahead
  <2>11. /\ S \in SUBSET Values /\ \A l \in 1 .. Len(c) : Weights(offset, slots, S)[c[l]] = 0
         /\ tb.num_rows - gone = Len(All(c))
         /\ Counted(All(c)) = Store!Deleted(held, S)
    BY <2>1 DEF PassingAt
  <2>12. \A l \in 1 .. Len(c) : Weights(offset', slots', S)[c[l]] = 0
    BY <1>2, <2>11 DEF Weights
  <2>13. j \in Nat /\ j <= num
    BY <2>2, <2>3, <2>5, <2>7
  <2>14. PICK pre : pre = curr.id
    OBVIOUS
  <2>15. run' = [op |-> "delete", cond |-> S, curr |-> open, off |-> 0, i |-> j,
            pre_id |-> pre, next_id |-> next, last |-> last,
            deleted_rows |-> gone, block_flag |-> FALSE]
    <3>1. PICK r : r = run
      OBVIOUS
    <3>2. /\ r.next_id = next /\ r.i = i /\ r.curr.id = pre /\ r.last = last
          /\ r.deleted_rows = gone
      BY <2>2, <2>14, <3>1
    <3>3. gone + 0 = gone
      BY <2>2
    <3>4. run' = [r EXCEPT !.curr = open, !.off = 0, !.i = j, !.pre_id = pre, !.last = last,
                           !.block_flag = FALSE, !.deleted_rows = gone]
      BY <1>4, <2>7, <2>8, <3>1, <3>2, <3>3
    <3> QED BY <2>2, <3>1, <3>4
  <2>16. PassingAt(c, S, open, 0, j, pre, next, last, gone)'
    BY <1>1, <1>2, <2>2, <2>5, <2>9, <2>10, <2>11, <2>12, <2>13, <2>15 DEF PassingAt
  <2> QED BY <1>1, <1>2, <2>16 DEF Inv, Calls, Passing
<1> QED BY <1>1, <1>5, <1>6, CallOf
-----------------------------------------------------------------------------
(* A block other than the last taken out of a list: one of the first two,  *)
(* the only ones the delete loop unlinks properly.                         *)
Unhooks(c, d, first, last, link, first2, link2) ==
  /\ Listed(c, first, last, link)
  /\ d \in {1, 2} /\ d \in 1 .. Len(c) /\ d # Len(c)
  /\ first2 = IF d = 1 THEN link[c[d]] ELSE first
  /\ d = 2 => link2[first] = link[c[d]]
  /\ \A x \in Range(c) \ {c[d], last} : (x = first /\ d = 2) \/ link2[x] = link[x]

(* What is left is a list.                                                 *)
LEMMA Unlinked ==
  ASSUME NEW c, NEW d, NEW first, NEW last, NEW link, NEW first2, NEW link2,
         Unhooks(c, d, first, last, link, first2, link2)
  PROVE  /\ link[c[d]] \in Range(c) \ {c[d]}
         /\ \E r : Listed(r, first2, last, link2) /\ Range(r) = Range(c) \ {c[d]}
<1>0. PICK cur, next : cur = c[d] /\ next = link[cur]
  OBVIOUS
<1>00. /\ Listed(c, first, last, link) /\ d \in {1, 2} /\ d \in 1 .. Len(c) /\ d # Len(c)
      /\ first2 = (IF d = 1 THEN next ELSE first) /\ (d = 2 => link2[first] = next)
      /\ \A x \in Range(c) \ {cur, last} : (x = first /\ d = 2) \/ link2[x] = link[x]
  BY <1>0 DEF Unhooks
<1>1. PICK n \in Nat \ {0} : n = Len(c)
  BY <1>00, ListedOn
<1>2. /\ c \in Seq(Blocks) /\ \A i, j \in 1 .. n : c[i] = c[j] => i = j
      /\ c[1] = first /\ c[n] = last /\ Range(c) = {c[i] : i \in 1 .. n}
      /\ \A i \in 1 .. n - 1 : link[c[i]] = c[i + 1]
  <2>1. /\ c \in Seq(Blocks) /\ \A i, j \in 1 .. Len(c) : c[i] = c[j] => i = j
        /\ c[1] = first /\ c[Len(c)] = last
        /\ \A i \in 1 .. Len(c) - 1 : link[c[i]] = c[i + 1]
    BY <1>00 DEF Listed
  <2>2. Range(c) = {c[i] : i \in 1 .. Len(c)}
    BY <1>00, ListedOn
  <2> QED BY <1>1, <2>1, <2>2
<1>3. d \in 1 .. n - 1 /\ d + 1 \in 1 .. n
  BY <1>1, <1>00
<1>4. next = c[d + 1] /\ next \in Range(c) /\ next # cur
  <2>1. next = c[d + 1]
    BY <1>0, <1>2, <1>3
  <2>2. d # d + 1 /\ d \in 1 .. n
    BY <1>3
  <2> QED BY <1>0, <1>2, <1>3, <2>1, <2>2
<1>5. /\ Listed(Tail(c), c[2], last, link) /\ Range(Tail(c)) = Range(c) \ {first}
      /\ Len(Tail(c)) = n - 1 /\ (\A i \in 1 .. n - 1 : Tail(c)[i] = c[i + 1])
      /\ link[first] = c[2] /\ first # last
  <2>1. Len(c) # 1 /\ Listed(c, first, last, link)
    BY <1>1, <1>3, <1>00
  <2>2. /\ Listed(Tail(c), link[first], last, link) /\ Range(Tail(c)) = Range(c) \ {first}
        /\ Len(Tail(c)) = Len(c) - 1 /\ \A i \in 1 .. Len(c) - 1 : Tail(c)[i] = c[i + 1]
    BY <2>1, ListedTail
  <2>3. link[first] = c[2] /\ first # last
    BY <2>1, ListedTail
  <2> QED BY <1>1, <2>2, <2>3
<1>6. CASE d = 1
  <2>1. cur = first /\ next = c[2] /\ first2 = next
    BY <1>0, <1>2, <1>5, <1>6, <1>00
  <2>2. \A x \in Range(Tail(c)) \ {last} : link2[x] = link[x]
    BY <1>5, <1>6, <1>00, <2>1
  <2>3. Listed(Tail(c), first2, last, link)
    BY <1>5, <2>1
  <2>4. Listed(Tail(c), first2, last, link2)
    BY <2>2, <2>3, ListedSame
  <2> QED BY <1>0, <1>4, <1>5, <2>1, <2>4
<1>7. CASE d = 2
  <2>1. PICK t : t = Tail(c)
    OBVIOUS
  <2>2. /\ Listed(t, cur, last, link) /\ Len(t) = n - 1 /\ Len(t) # 1
        /\ Range(t) = Range(c) \ {first}
    BY <1>0, <1>1, <1>2, <1>3, <1>5, <1>7, <2>1
  <2>3. PICK u : u = Tail(t)
    OBVIOUS
  <2>4. /\ Listed(u, next, last, link) /\ Range(u) = Range(t) \ {cur} /\ cur # last
    BY <1>0, <2>2, <2>3, ListedTail
  <2>5. first \in Blocks /\ first \notin Range(u) /\ first # cur
    <3>1. first \in Range(c) /\ Range(c) \subseteq Blocks
      BY <1>00, ListedOn
    <3>2. first # cur
      <4>1. 1 \in 1 .. n /\ 2 \in 1 .. n
        BY <1>3, <1>7
      <4> QED BY <1>0, <1>2, <1>7, <4>1
    <3> QED BY <2>2, <2>4, <3>1, <3>2
  <2>6. link2[first] = next /\ \A x \in Range(u) \ {last} : link2[x] = link[x]
    BY <1>7, <1>00, <2>2, <2>4, <2>5
  <2>7. /\ Listed(<<first>> \o u, first, last, link2)
        /\ Range(<<first>> \o u) = Range(u) \cup {first}
    BY <2>4, <2>5, <2>6, ListedPush
  <2>8. Range(u) \cup {first} = Range(c) \ {cur} /\ first2 = first
    <3>1. first \in Range(c)
      BY <1>00, ListedOn
    <3> QED BY <1>7, <1>00, <2>2, <2>4, <2>5, <3>1
  <2> QED BY <1>0, <1>4, <2>7, <2>8
<1> QED BY <1>6, <1>7, <1>00

(* The free list, when links of the table change.                          *)
LEMMA FreeSame ==
  ASSUME NEW f, NEW head, NEW link, NEW link2, NEW used, FreeOn(f, head, link, used),
         used \subseteq Blocks, SameBut(link, link2, used), head.block_num \in Nat
  PROVE  FreeOn(f, head, link2, used)
<1>1. PICK last : last = f[Len(f)]
  OBVIOUS
<1>2. /\ Listed(f, head.first_clean_block, last, link) /\ link[last] = last
      /\ used \cap Range(f) = {} /\ used \cup Range(f) = 2 .. head.block_num - 1
      /\ \A b \in Blocks : b >= head.block_num => link[b] = b
  BY <1>1 DEF FreeOn
<1>3. Range(f) \subseteq Blocks /\ last \in Range(f)
  BY <1>2, ListedOn
<1>4. \A b \in Range(f) : link2[b] = link[b]
  BY <1>2, <1>3 DEF SameBut
<1>5. Listed(f, head.first_clean_block, last, link2) /\ link2[last] = last
  BY <1>2, <1>3, <1>4, ListedSame
<1>6. \A b \in Blocks : b >= head.block_num => link2[b] = b
  <2> TAKE b \in Blocks
  <2> HAVE b >= head.block_num
  <2>1. b \notin 2 .. head.block_num - 1
    BY DEF Blocks
  <2> QED BY <1>2, <2>1 DEF SameBut
<1> QED BY <1>1, <1>2, <1>5, <1>6 DEF FreeOn

(* A block of the table becomes the first free one.                        *)
LEMMA FreePush ==
  ASSUME NEW f, NEW head, NEW link, NEW link2, NEW used, FreeOn(f, head, link, used),
         used \subseteq Blocks, SameBut(link, link2, used), head.block_num \in Nat,
         NEW cur \in used, link2[cur] = head.first_clean_block,
         NEW head2, head2.first_clean_block = cur, head2.block_num = head.block_num
  PROVE  FreeOn(<<cur>> \o f, head2, link2, used \ {cur})
<1>1. PICK last : last = f[Len(f)]
  OBVIOUS
<1>2. FreeOn(f, head, link2, used)
  BY FreeSame
<1>3. /\ Listed(f, head.first_clean_block, last, link2) /\ link2[last] = last
      /\ used \cap Range(f) = {} /\ used \cup Range(f) = 2 .. head.block_num - 1
      /\ \A b \in Blocks : b >= head.block_num => link2[b] = b
  BY <1>1, <1>2 DEF FreeOn
<1>4. /\ Listed(<<cur>> \o f, cur, last, link2)
      /\ Range(<<cur>> \o f) = Range(f) \cup {cur}
      /\ Len(<<cur>> \o f) = Len(f) + 1
      /\ \A i \in 1 .. Len(f) : (<<cur>> \o f)[i + 1] = f[i]
  <2>1. cur \in Blocks /\ cur \notin Range(f)
    BY <1>3
  <2> QED BY <1>3, <2>1, ListedPush
<1>5. PICK g : g = <<cur>> \o f
  OBVIOUS
<1>6. g[Len(g)] = last
  <2>1. Len(f) \in Nat \ {0} /\ Len(f) \in 1 .. Len(f)
    BY <1>3, ListedOn
  <2> QED BY <1>1, <1>4, <1>5, <2>1
<1>7. (used \ {cur}) \cap Range(g) = {} /\ (used \ {cur}) \cup Range(g) = 2 .. head.block_num - 1
  BY <1>3, <1>4, <1>5
<1>8. FreeOn(g, head2, link2, used \ {cur})
  BY <1>3, <1>4, <1>5, <1>6, <1>7 DEF FreeOn
<1> QED BY <1>5, <1>8

(* Rows moved from one block to another are still as many.                 *)
MovesOnly(T, cur, la, g, g2) ==
  /\ IsFiniteSet(T) /\ cur \in T /\ la \in T /\ cur # la
  /\ \A x \in T : g[x] \in Nat /\ g2[x] \in Nat
  /\ \A x \in T \ {cur, la} : g2[x] = g[x]
  /\ g2[cur] + g2[la] = g[cur] + g[la]

(* What one block of T loses another gains.                                *)
LEMMA MoveTotals ==
  ASSUME NEW T, NEW cur, NEW la, NEW g, NEW g2, MovesOnly(T, cur, la, g, g2)
  PROVE  /\ Total(g2, T) = Total(g, T)
         /\ g2[cur] = 0 => Total(g2, T \ {cur}) = Total(g, T)
<1>0. /\ IsFiniteSet(T) /\ cur \in T /\ la \in T /\ cur # la
      /\ \A x \in T : g[x] \in Nat /\ g2[x] \in Nat
      /\ \A x \in T \ {cur, la} : g2[x] = g[x]
      /\ g2[cur] + g2[la] = g[cur] + g[la]
  BY DEF MovesOnly
<1>1. PICK U : U = T \ {cur, la}
  OBVIOUS
<1>2. PICK V : V = T \ {cur}
  OBVIOUS
<1>3. /\ V = U \cup {la} /\ T = V \cup {cur} /\ la \notin U /\ cur \notin V
      /\ U \subseteq T /\ V \subseteq T
  BY <1>0, <1>1, <1>2
<1>4. IsFiniteSet(U) /\ IsFiniteSet(V)
  BY <1>0, <1>3, FS_Subset
<1>5. Total(g2, U) = Total(g, U)
  <2>1. \A x \in U : g2[x] = g[x]
    BY <1>0, <1>1
  <2> QED BY <1>4, <2>1, TotalSame
<1>6. /\ Total(g, V) = g[la] + Total(g, U) /\ Total(g, U) \in Nat
      /\ Total(g2, V) = g2[la] + Total(g2, U)
  <2>1. (\A x \in U \cup {la} : g[x] \in Nat) /\ (\A x \in U \cup {la} : g2[x] \in Nat)
    BY <1>0, <1>3
  <2> QED BY <1>3, <1>4, <2>1, TotalAdd
<1>7. Total(g, T) = g[cur] + Total(g, V) /\ Total(g2, T) = g2[cur] + Total(g2, V)
  <2>1. (\A x \in V \cup {cur} : g[x] \in Nat) /\ (\A x \in V \cup {cur} : g2[x] \in Nat)
    BY <1>0, <1>3
  <2> QED BY <1>3, <1>4, <2>1, TotalAdd
<1>8. g[cur] \in Nat /\ g[la] \in Nat /\ g2[cur] \in Nat /\ g2[la] \in Nat
  BY <1>0
<1> QED BY <1>0, <1>2, <1>5, <1>6, <1>7, <1>8

(* A block without rows of S has as many of P with them as without.        *)
LEMMA WithoutNone ==
  ASSUME FileTyped, NEW b \in Blocks, NEW S, Weights(offset, slots, S)[b] = 0, NEW P
  PROVE  Weights(offset, slots, P \ S)[b] = Weights(offset, slots, P)[b]
<1>1. PICK m \in 0 .. Slots : m = offset[b]
  BY DEF FileTyped
<1>2. m \in Nat
  BY RowsAssumption
<1>3. PICK h : h = Column(slots[b])
  OBVIOUS
<1>4. \A Q : Weights(offset, slots, Q)[b] = Count(h, m, Q)
  <2>1. offset \in [Blocks -> 0 .. Slots]
    BY DEF FileTyped
  <2> QED BY <1>1, <1>3, <2>1, WeightsNat
<1>5. \A j \in 1 .. m : h[j] \notin S
  BY <1>2, <1>4, CountNone
<1>6. \A j \in 1 .. m : h[j] \in P \ S <=> h[j] \in P
  BY <1>5
<1>7. Count(h, m, P \ S) = Count(h, m, P)
  BY <1>2, <1>6, CountSame
<1> QED BY <1>4, <1>7
-----------------------------------------------------------------------------
(* What compacting block cur, the d-th, writes: moves of its rows go       *)
(* behind those of the last block la, stay of them to its own front.       *)
Compacts(c, d, S, i, cur, m, b, la, loff, kept, moves, stay, freed, last2) ==
  /\ d \in {1, 2} /\ d \in 1 .. Len(c) /\ OnlyIn(c, d, S) /\ S \in SUBSET Values
  /\ cur = c[d] /\ m = offset[cur] /\ b = next_id[cur]
  /\ la = c[Len(c)] /\ loff = offset[la]
  /\ kept = Kept(MarkedTo(slots[cur], m, S), m)
  /\ moves \in 0 .. Len(kept) /\ loff + moves <= Slots /\ (d = Len(c) => moves = 0)
  /\ stay = Len(kept) - moves
  /\ freed \in BOOLEAN /\ (freed <=> stay = 0 /\ d # Len(c))
  /\ i \in Nat /\ i <= tb.num_rows /\ (d = Len(c) => i = tb.num_rows)
  /\ tb' = [tb EXCEPT !.first_record_block_id = IF d = 1 THEN b ELSE c[1],
                      !.last_record_block_id = IF freed THEN la ELSE cur]
  /\ db' = IF freed THEN [db EXCEPT !.first_clean_block = cur] ELSE db
  /\ next_id' = [IF d = 1 THEN next_id ELSE [next_id EXCEPT ![c[1]] = b]
                 EXCEPT ![la] = IF freed THEN la ELSE cur,
                        ![cur] = IF freed THEN db.first_clean_block ELSE cur]
  /\ offset' = [offset EXCEPT ![la] = loff + moves, ![cur] = stay]
  /\ slots' = [slots EXCEPT
                 ![la] = Written(slots[la], loff, SubSeq(kept, 1, moves)),
                 ![cur] = Written(MarkedTo(slots[cur], m, S), 0,
                                  SubSeq(kept, moves + 1, Len(kept)))]
  /\ held' = held
  /\ run' = [op |-> "delete", cond |-> S, curr |-> Open(b)', off |-> 0, i |-> i,
             pre_id |-> cur, next_id |-> b, last |-> last2,
             deleted_rows |-> Count(Column(slots[cur]), m, S), block_flag |-> FALSE]

(* What the step that compacts computes.                                   *)
LEMMA CompactStep ==
  ASSUME FileTyped, NEW c, NEW f, Shape(c, f), Calls(c), DeleteCompactBlock
  PROVE  /\ \E d, S, i, cur, m, b, la, loff, kept, moves, stay, freed, last2 :
              Compacts(c, d, S, i, cur, m, b, la, loff, kept, moves, stay, freed, last2)
         /\ Quiet(c)
<1>1. run.op = "delete" /\ run.i < tb.num_rows /\ BlockDone /\ (run.block_flag \/ Hit)
  BY DEF DeleteCompactBlock
<1>2. ~Passing(c)
  <2>1. SUFFICES ASSUME NEW S, NEW curr, NEW off, NEW i, NEW pre_id, NEW next, NEW last, NEW gone,
                        PassingAt(c, S, curr, off, i, pre_id, next, last, gone)
                 PROVE  FALSE
    BY DEF Passing
  <2>2. run.i = i /\ run.block_flag = FALSE
    BY <2>1 DEF PassingAt
  <2>3. ~Hit
    BY <1>1, <2>1, <2>2, PassingStep
  <2> QED BY <1>1, <2>2, <2>3
<1>3. PICK d, S, off, k : MarkingAt(c, d, S, off, k)
  BY <1>1, <1>2, CallOf DEF Marking
<1>4. PICK cur : cur = c[k]
  OBVIOUS
<1>5. PICK m : m = offset[cur]
  OBVIOUS
<1>6. PICK b : b = next_id[cur]
  OBVIOUS
<1>7. PICK page : page = slots[cur]
  OBVIOUS
<1>8. PICK n \in Nat \ {0} : n = Len(c)
  BY AllLaid
<1>9. PICK la : la = c[n]
  OBVIOUS
<1>10. PICK loff : loff = offset[la]
  OBVIOUS
<1>11. PICK lpage : lpage = slots[la]
  OBVIOUS
<1>12. /\ k \in 1 .. n /\ cur \in Blocks /\ m \in 0 .. Slots /\ off + 1 = m
       /\ run.i + 1 <= tb.num_rows /\ run.i \in Nat
       /\ k = n => run.i + 1 = tb.num_rows
       /\ Count(Column(page), m, S) = run.deleted_rows + (IF Hit THEN 1 ELSE 0)
       /\ Count(Column(page), m, S) # 0
       /\ Marked = [id |-> cur, next_id |-> b, offset |-> m, page |-> MarkedTo(page, m, S)]
  BY <1>1, <1>3, <1>4, <1>5, <1>6, <1>7, <1>8, MarkingStep
<1>13. /\ OnlyIn(c, d, S) /\ S \in SUBSET Values /\ Quiet(c)
       /\ run.pre_id = c[1] /\ run.last = Open(la) /\ run.cond = S
       /\ run.op = "delete"
  BY <1>3, <1>8, <1>9 DEF MarkingAt
<1>14. k = d /\ d \in {1, 2} /\ next_id[la] = la
  <2>1. Weights(offset, slots, S)[cur] # 0
    <3>1. offset \in [Blocks -> 0 .. Slots]
      BY DEF FileTyped
    <3> QED BY <1>5, <1>7, <1>12, <3>1, WeightsNat
  <2> QED BY <1>4, <1>8, <1>9, <1>12, <1>13, <2>1 DEF OnlyIn
<1>15. /\ la \in Blocks /\ loff \in 0 .. Slots /\ n \in 1 .. n
       /\ \A x, y \in 1 .. n : c[x] = c[y] => x = y
       /\ tb.first_record_block_id = c[1] /\ tb.last_record_block_id = la
  <2>1. n \in 1 .. n
    OBVIOUS
  <2> QED BY <1>8, <1>9, <1>10, <2>1, AllLaid
<1>16. (cur = la <=> d = n) /\ (c[1] = cur <=> d = 1)
  <2>1. 1 \in 1 .. n
    OBVIOUS
  <2> QED BY <1>4, <1>9, <1>12, <1>14, <1>15, <2>1
<1> DEFINE curr == Marked
           same == curr.id = run.last.id
           kept == Kept(curr.page, curr.offset)
           moves == IF RoomIn(run.last, same) < Len(kept) THEN RoomIn(run.last, same)
                    ELSE Len(kept)
           stay == Len(kept) - moves
           first == IF run.pre_id = curr.id THEN curr.next_id ELSE tb.first_record_block_id
           freed == stay = 0 /\ curr.id \notin {first, tb.last_record_block_id}
           last == [run.last EXCEPT
                      !.page = Written(@, run.last.offset, SubSeq(kept, 1, moves)),
                      !.offset = @ + moves,
                      !.next_id = IF freed THEN @ ELSE curr.id]
           pre == IF run.pre_id = curr.id THEN next_id
                  ELSE [next_id EXCEPT ![run.pre_id] = curr.next_id]
<1>17. /\ tb' = [tb EXCEPT !.first_record_block_id = first,
                           !.last_record_block_id = IF freed THEN @ ELSE curr.id]
       /\ db' = IF freed THEN [db EXCEPT !.first_clean_block = curr.id] ELSE db
       /\ next_id' = [pre EXCEPT ![last.id] = last.next_id,
                            ![curr.id] = IF freed THEN db.first_clean_block ELSE curr.id]
       /\ offset' = [offset EXCEPT ![last.id] = last.offset, ![curr.id] = stay]
       /\ slots' = [slots EXCEPT ![last.id] = last.page,
                            ![curr.id] = Written(curr.page, 0, SubSeq(kept, moves + 1, Len(kept)))]
       /\ held' = held
       /\ run' = [Turned(curr.next_id, last) EXCEPT !.next_id = curr.next_id]
  BY DEF DeleteCompactBlock
<1>18. PICK marked : marked = MarkedTo(page, m, S)
  OBVIOUS
<1>19. curr.id = cur /\ curr.next_id = b /\ curr.offset = m /\ curr.page = marked
  BY <1>12, <1>18
<1>20. run.last = [id |-> la, next_id |-> la, offset |-> loff, page |-> lpage]
  BY <1>10, <1>11, <1>13, <1>14 DEF Open
<1>21. same <=> d = n
  <2>1. run.last.id = la
    BY <1>20
  <2> QED BY <1>16, <1>19, <2>1
<1>22. PICK kept0 : kept0 = kept
  OBVIOUS
<1>23. kept0 = Kept(marked, m) /\ Len(kept0) \in Nat /\ Len(kept0) <= m
  <2>1. kept0 = Kept(marked, m)
    BY <1>19, <1>22
  <2>2. Rowed(page, m)
    <3>1. page \in Pages
      BY <1>7, <1>12 DEF FileTyped, Pages
    <3>2. \A s \in 1 .. m : page[s].v \in Values /\ page[s].valid = TRUE
      <4>1. Filled(c, offset, slots)
        BY DEF Shape
      <4> QED BY <1>4, <1>5, <1>7, <1>8, <1>12, <4>1 DEF Filled
    <3> QED BY <3>1, <3>2 DEF Rowed
  <2>3. Keeps(kept0, page, m, S)
    BY <1>12, <1>13, <1>18, <2>1, <2>2, KeptIs
  <2>4. kept0 \in Seq(LiveRows) /\ Len(kept0) <= m
    BY <2>3 DEF Keeps
  <2> QED BY <2>1, <2>4
<1>24. PICK room : room = RoomIn(run.last, same)
  OBVIOUS
<1>25. (room \in Nat /\ loff + room <= Slots) \/ (d = n /\ room = 0)
  <2>1. room = IF same THEN 0 ELSE Slots - run.last.offset
    BY <1>24 DEF RoomIn
  <2>2. run.last.offset = loff
    BY <1>20
  <2>3. CASE d = n
    BY <1>21, <2>1, <2>3
  <2>4. CASE d # n
    <3>1. room = Slots - loff
      BY <1>21, <2>1, <2>2, <2>4
    <3> QED BY <1>15, <3>1, RowsAssumption
  <2> QED BY <2>3, <2>4
<1>26. PICK moves0 : moves0 = moves
  OBVIOUS
<1>27. moves0 \in 0 .. Len(kept0) /\ loff + moves0 <= Slots /\ (d = n => moves0 = 0)
  <2>1. moves0 = IF room < Len(kept0) THEN room ELSE Len(kept0)
    BY <1>22, <1>24, <1>26
  <2>2. PICK l \in Nat : l = Len(kept0)
    BY <1>23
  <2>3. d = n => room = 0
    <3>1. d = n => same
      BY <1>21
    <3> QED BY <1>24, <3>1 DEF RoomIn
  <2> QED BY <1>15, <1>25, <2>1, <2>2, <2>3, RowsAssumption
<1>28. PICK stay0 : stay0 = stay
  OBVIOUS
<1>29. stay0 = Len(kept0) - moves0
  BY <1>22, <1>26, <1>28
<1>30. PICK first0 : first0 = first
  OBVIOUS
<1>31. first0 = IF d = 1 THEN b ELSE c[1]
  BY <1>13, <1>15, <1>16, <1>19, <1>30
<1>32. cur \notin {first0, la} <=> d # n
  <2>1. CASE d = n
    BY <1>16, <2>1
  <2>2. CASE d # n
    <3>1. b # cur
      <4>1. d \in 1 .. n - 1 /\ d + 1 \in 1 .. n /\ d # d + 1
        BY <1>12, <1>14, <2>2
      <4>2. \A x \in 1 .. n - 1 : next_id[c[x]] = c[x + 1]
        BY <1>8 DEF Shape, Listed
      <4>3. b = c[d + 1]
        BY <1>4, <1>6, <1>14, <4>1, <4>2
      <4> QED BY <1>4, <1>12, <1>14, <1>15, <4>1, <4>3
    <3> QED BY <1>16, <1>31, <2>2, <3>1
  <2> QED BY <2>1, <2>2
<1>33. PICK freed0 : freed0 = freed
  OBVIOUS
<1>34. freed0 \in BOOLEAN /\ (freed0 <=> stay0 = 0 /\ d # n)
  BY <1>15, <1>19, <1>28, <1>30, <1>32, <1>33
<1>35. PICK last0 : last0 = last
  OBVIOUS
<1>36. last0 = [id |-> la, next_id |-> IF freed0 THEN la ELSE cur, offset |-> loff + moves0,
                page |-> Written(lpage, loff, SubSeq(kept0, 1, moves0))]
  <2>1. PICK r : r = run.last
    OBVIOUS
  <2>2. last0 = [r EXCEPT !.page = Written(r.page, r.offset, SubSeq(kept0, 1, moves0)),
                          !.offset = r.offset + moves0,
                          !.next_id = IF freed0 THEN r.next_id ELSE cur]
    BY <1>19, <1>22, <1>26, <1>33, <1>35, <2>1
  <2>3. r.page = lpage /\ r.offset = loff /\ r.next_id = la
    BY <1>20, <2>1
  <2>4. PICK p2, o2, n2 : /\ p2 = Written(lpage, loff, SubSeq(kept0, 1, moves0))
                          /\ o2 = loff + moves0 /\ n2 = IF freed0 THEN la ELSE cur
    OBVIOUS
  <2>5. last0 = [r EXCEPT !.page = p2, !.offset = o2, !.next_id = n2]
    BY <2>2, <2>3, <2>4
  <2>6. r = [id |-> la, next_id |-> la, offset |-> loff, page |-> lpage]
    BY <1>20, <2>1
  <2>7. last0 = [id |-> la, next_id |-> n2, offset |-> o2, page |-> p2]
    BY <2>5, <2>6
  <2> QED BY <2>4, <2>7
<1>37. PICK pre0 : pre0 = pre
  OBVIOUS
<1>38. pre0 = IF d = 1 THEN next_id ELSE [next_id EXCEPT ![c[1]] = b]
  BY <1>13, <1>16, <1>19, <1>37
<1>39. PICK num : num = Count(Column(page), m, S)
  OBVIOUS
<1>40. run' = [op |-> "delete", cond |-> S, curr |-> Open(b)', off |-> 0, i |-> run.i + 1,
               pre_id |-> cur, next_id |-> b, last |-> last0,
               deleted_rows |-> num, block_flag |-> FALSE]
  <2>1. PICK open : open = Open(b)'
    OBVIOUS
  <2>2. PICK j : j = run.i + 1
    OBVIOUS
  <2>3. PICK r : r = run
    OBVIOUS
  <2>4. run.curr.id = cur
    BY <1>3, <1>4 DEF MarkingAt
  <2>5. run.deleted_rows + (IF Hit THEN 1 ELSE 0) = num
    BY <1>12, <1>39
  <2>6. Turned(b, last0) = [r EXCEPT !.curr = open, !.off = 0, !.i = j, !.pre_id = cur,
                                     !.last = last0, !.block_flag = FALSE, !.deleted_rows = num]
    BY <2>1, <2>2, <2>3, <2>4, <2>5 DEF Turned, Open
  <2>7. PICK curr1, i1, pre1, next1, last1, gone1, flag1 :
          MarkingLocals(c, S, off, k, curr1, i1, pre1, next1, last1, gone1, flag1)
    BY <1>3, MarkingRun
  <2>8. PICK t : t = Turned(b, last0)
    OBVIOUS
  <2>9. t = [op |-> "delete", cond |-> S, curr |-> open, off |-> 0, i |-> j,
             pre_id |-> cur, next_id |-> next1, last |-> last0,
             deleted_rows |-> num, block_flag |-> FALSE]
    <3>1. r = [op |-> "delete", cond |-> S, curr |-> curr1, off |-> off, i |-> i1,
               pre_id |-> pre1, next_id |-> next1, last |-> last1,
               deleted_rows |-> gone1, block_flag |-> flag1]
      BY <2>3, <2>7 DEF MarkingLocals
    <3> QED BY <2>6, <2>8, <3>1
  <2>10. run' = [t EXCEPT !.next_id = b]
    BY <1>17, <1>19, <1>35, <2>8
  <2>11. run' = [op |-> "delete", cond |-> S, curr |-> open, off |-> 0, i |-> j,
                 pre_id |-> cur, next_id |-> b, last |-> last0,
                 deleted_rows |-> num, block_flag |-> FALSE]
    BY <2>9, <2>10
  <2> QED BY <2>1, <2>2, <2>11
<1>41. /\ last0.id = la /\ last0.next_id = (IF freed0 THEN la ELSE cur)
       /\ last0.offset = loff + moves0
       /\ last0.page = Written(lpage, loff, SubSeq(kept0, 1, moves0))
  BY <1>36
<1>42. /\ tb' = [tb EXCEPT !.first_record_block_id = first0,
                           !.last_record_block_id = IF freed0 THEN @ ELSE cur]
       /\ db' = IF freed0 THEN [db EXCEPT !.first_clean_block = cur] ELSE db
       /\ next_id' = [pre0 EXCEPT ![last0.id] = last0.next_id,
                            ![cur] = IF freed0 THEN db.first_clean_block ELSE cur]
       /\ offset' = [offset EXCEPT ![last0.id] = last0.offset, ![cur] = stay0]
       /\ slots' = [slots EXCEPT ![last0.id] = last0.page,
                            ![cur] = Written(marked, 0, SubSeq(kept0, moves0 + 1, Len(kept0)))]
  BY <1>17, <1>19, <1>22, <1>26, <1>28, <1>30, <1>33, <1>35, <1>37
<1> HIDE DEF curr, same, kept, moves, stay, first, freed, last, pre
<1>43. PICK i : i = run.i + 1
  OBVIOUS
<1>44. i \in Nat /\ i <= tb.num_rows /\ (d = Len(c) => i = tb.num_rows)
  BY <1>8, <1>12, <1>14, <1>43
<1>45. Compacts(c, d, S, i, cur, m, b, la, loff, kept0, moves0, stay0, freed0, last0)
  <2>1. d \in {1, 2} /\ d \in 1 .. Len(c) /\ cur = c[d] /\ la = c[Len(c)] /\ freed0 \in BOOLEAN
        /\ kept0 = Kept(MarkedTo(slots[cur], m, S), m) /\ (freed0 <=> stay0 = 0 /\ d # Len(c))
        /\ (d = Len(c) => moves0 = 0)
    BY <1>4, <1>7, <1>8, <1>9, <1>12, <1>14, <1>18, <1>23, <1>27, <1>34
  <2>2. tb' = [tb EXCEPT !.first_record_block_id = IF d = 1 THEN b ELSE c[1],
                         !.last_record_block_id = IF freed0 THEN la ELSE cur]
    BY <1>15, <1>31, <1>42
  <2>3. next_id' = [IF d = 1 THEN next_id ELSE [next_id EXCEPT ![c[1]] = b]
                    EXCEPT ![la] = IF freed0 THEN la ELSE cur,
                           ![cur] = IF freed0 THEN db.first_clean_block ELSE cur]
    BY <1>38, <1>41, <1>42
  <2>4. offset' = [offset EXCEPT ![la] = loff + moves0, ![cur] = stay0]
    BY <1>41, <1>42
  <2>5. slots' = [slots EXCEPT
                 ![la] = Written(slots[la], loff, SubSeq(kept0, 1, moves0)),
                 ![cur] = Written(MarkedTo(slots[cur], m, S), 0,
                                  SubSeq(kept0, moves0 + 1, Len(kept0)))]
    BY <1>7, <1>11, <1>18, <1>41, <1>42
  <2>6. run' = [op |-> "delete", cond |-> S, curr |-> Open(b)', off |-> 0, i |-> i,
             pre_id |-> cur, next_id |-> b, last |-> last0,
             deleted_rows |-> Count(Column(slots[cur]), m, S), block_flag |-> FALSE]
    BY <1>7, <1>39, <1>40, <1>43
  <2> QED BY <1>5, <1>6, <1>10, <1>13, <1>17, <1>27, <1>29, <1>42, <1>44,
             <2>1, <2>2, <2>3, <2>4, <2>5, <2>6 DEF Compacts
<1> QED BY <1>13, <1>45
-----------------------------------------------------------------------------
(* The offsets and pages after it.                                         *)
CompactedFile(c, S, cur, m, la, loff, moves, stay) ==
  /\ offset' \in [Blocks -> 0 .. Slots] /\ slots' \in [Blocks -> Pages]
  /\ \A x \in Blocks \ {cur, la} : offset'[x] = offset[x] /\ slots'[x] = slots[x]
  /\ offset'[cur] = stay /\ Rowed(slots'[cur], stay)
  /\ la # cur => /\ offset'[la] = loff + moves /\ Rowed(slots'[la], loff + moves)
                 /\ Shifts(slots[cur], m, S, slots[la], loff, slots'[la], loff + moves,
                           slots'[cur], stay)
  /\ la = cur => \A P : Count(Column(slots'[cur]), stay, P) = Count(Column(slots[cur]), m, P \ S)

(* It writes rows and offsets only.                                        *)
LEMMA CompactPages ==
  ASSUME FileTyped, NEW c, NEW f, Shape(c, f), NEW d, NEW S, NEW i, NEW cur, NEW m, NEW b,
         NEW la, NEW loff, NEW kept, NEW moves, NEW stay, NEW freed, NEW last2,
         Compacts(c, d, S, i, cur, m, b, la, loff, kept, moves, stay, freed, last2)
  PROVE  /\ CompactedFile(c, S, cur, m, la, loff, moves, stay) /\ stay \in 0 .. Slots
         /\ d # Len(c) <=> la # cur
<1>1. /\ d \in 1 .. Len(c) /\ S \in SUBSET Values /\ cur = c[d] /\ m = offset[cur]
      /\ la = c[Len(c)] /\ loff = offset[la]
      /\ moves \in 0 .. Len(kept) /\ loff + moves <= Slots /\ (d = Len(c) => moves = 0)
      /\ stay = Len(kept) - moves
      /\ offset' = [offset EXCEPT ![la] = loff + moves, ![cur] = stay]
  BY DEF Compacts
<1>2. PICK n \in Nat \ {0} : n = Len(c)
  BY AllLaid
<1>3. PICK page : page = slots[cur]
  OBVIOUS
<1>4. PICK lpage : lpage = slots[la]
  OBVIOUS
<1>5. PICK marked : marked = MarkedTo(page, m, S)
  OBVIOUS
<1>6. PICK len : len = Len(kept)
  OBVIOUS
<1>7. /\ kept = Kept(marked, m)
      /\ slots' = [slots EXCEPT ![la] = Written(lpage, loff, SubSeq(kept, 1, moves)),
                                ![cur] = Written(marked, 0, SubSeq(kept, moves + 1, len))]
  BY <1>3, <1>4, <1>5, <1>6 DEF Compacts
<1>8. /\ cur \in Blocks /\ la \in Blocks /\ m \in 0 .. Slots /\ loff \in 0 .. Slots
      /\ (d # n <=> la # cur) /\ n \in 1 .. n
  <2>1. n \in 1 .. n
    OBVIOUS
  <2> QED BY <1>1, <1>2, <2>1, AllLaid
<1>9. Rowed(page, m) /\ Rowed(lpage, loff)
  <2>1. page \in Pages /\ lpage \in Pages
    BY <1>3, <1>4, <1>8 DEF FileTyped, Pages
  <2>2. Filled(c, offset, slots)
    BY DEF Shape
  <2>3. /\ \A s \in 1 .. m : page[s].v \in Values /\ page[s].valid = TRUE
        /\ \A s \in 1 .. loff : lpage[s].v \in Values /\ lpage[s].valid = TRUE
    BY <1>1, <1>2, <1>3, <1>4, <1>8, <2>2 DEF Filled
  <2> QED BY <2>1, <2>3 DEF Rowed
<1>10. len \in Nat /\ len <= m
  <2>1. Keeps(kept, page, m, S)
    BY <1>1, <1>5, <1>7, <1>8, <1>9, KeptIs
  <2> QED BY <1>6, <2>1 DEF Keeps
<1>11. moves \in 0 .. len /\ stay = len - moves /\ moves \in Nat /\ stay \in Nat /\ stay \in 0 .. Slots
       /\ loff + moves \in 0 .. Slots
  <2>1. moves \in 0 .. len /\ stay = len - moves
    BY <1>1, <1>6
  <2>2. moves \in Nat /\ stay \in Nat /\ stay <= len
    BY <1>10, <2>1
  <2>3. stay \in 0 .. Slots
    BY <1>8, <1>10, <2>2, RowsAssumption
  <2>4. loff + moves \in 0 .. Slots
    BY <1>1, <1>8, <1>10, <2>1, <2>2, RowsAssumption
  <2> QED BY <2>1, <2>2, <2>3, <2>4
<1>12. PICK lpage2 : lpage2 = Written(lpage, loff, SubSeq(kept, 1, moves))
  OBVIOUS
<1>13. PICK cpage2 : cpage2 = Written(marked, 0, SubSeq(kept, moves + 1, len))
  OBVIOUS
<1>14. PICK loff2 : loff2 = loff + moves
  OBVIOUS
<1>15. /\ Rowed(lpage2, loff2) /\ Rowed(cpage2, stay)
       /\ Shifts(page, m, S, lpage, loff, lpage2, loff2, cpage2, stay)
  <2>1. loff2 <= Slots
    BY <1>1, <1>14
  <2>2. S \in SUBSET Values /\ m \in 0 .. Slots /\ loff \in 0 .. Slots
    BY <1>1, <1>8
  <2>3. kept = Kept(marked, m) /\ moves \in 0 .. len /\ stay = len - moves
    BY <1>7, <1>11
  <2> QED BY <1>5, <1>6, <1>9, <1>12, <1>13, <1>14, <2>1, <2>2, <2>3, Compacted
<1>16. ASSUME la = cur, NEW P
       PROVE  Count(Column(cpage2), stay, P) = Count(Column(page), m, P \ S)
  <2>1. moves = 0
    BY <1>1, <1>2, <1>8, <1>16
  <2>2. PICK none : none = 0
    OBVIOUS
  <2>3. Rowed(page, none) /\ none \in 0 .. Slots /\ none \in 0 .. len /\ none + none = none
        /\ moves = none /\ none <= Slots
    <3>1. \A s : s \notin 1 .. 0
      OBVIOUS
    <3>2. none \in 0 .. Slots /\ none \in 0 .. len /\ none + none = none /\ none <= Slots
      BY <1>10, <2>2, RowsAssumption
    <3> QED BY <1>9, <2>1, <2>2, <3>1, <3>2 DEF Rowed
  <2>4. PICK other : other = Written(page, none, SubSeq(kept, 1, none))
    OBVIOUS
  <2>5. stay = len - none /\ cpage2 = Written(marked, 0, SubSeq(kept, none + 1, len))
    BY <1>11, <1>13, <2>3
  <2>6. Shifts(page, m, S, page, none, other, none, cpage2, stay)
    <3>1. none = none + none
      BY <2>3
    <3> QED BY <1>1, <1>5, <1>6, <1>7, <1>8, <1>9, <2>3, <2>4, <2>5, <3>1, Compacted
  <2>7. PICK a \in Nat : /\ Count(Column(other), none, P) = Count(Column(page), none, P) + a
                         /\ Count(Column(cpage2), stay, P) + a = Count(Column(page), m, P \ S)
    BY <2>6 DEF Shifts
  <2>8. Count(Column(other), none, P) = 0 /\ Count(Column(page), none, P) = 0
    BY <2>2, CountNone
  <2>9. Count(Column(cpage2), stay, P) \in Nat
    BY <1>11, CountNat
  <2> QED BY <2>7, <2>8, <2>9
<1>17. /\ slots'[cur] = cpage2 /\ (la # cur => slots'[la] = lpage2)
       /\ offset'[cur] = stay /\ (la # cur => offset'[la] = loff2)
       /\ \A x \in Blocks \ {cur, la} : offset'[x] = offset[x] /\ slots'[x] = slots[x]
  BY <1>1, <1>7, <1>8, <1>12, <1>13, <1>14 DEF FileTyped
<1>18. offset' \in [Blocks -> 0 .. Slots] /\ slots' \in [Blocks -> Pages]
  <2>1. lpage2 \in Pages /\ cpage2 \in Pages
    BY <1>15 DEF Rowed
  <2>2. slots \in [Blocks -> Pages] /\ offset \in [Blocks -> 0 .. Slots]
    BY DEF FileTyped, Pages
  <2> QED BY <1>1, <1>7, <1>11, <1>12, <1>13, <2>1, <2>2
<1>19. CompactedFile(c, S, cur, m, la, loff, moves, stay)
  BY <1>3, <1>4, <1>14, <1>15, <1>16, <1>17, <1>18 DEF CompactedFile
<1> QED BY <1>2, <1>8, <1>11, <1>19

(* The blocks of the table and the free ones after it.                     *)
LEMMA CompactLists ==
  ASSUME FileTyped, NEW c, NEW f, Shape(c, f), NEW d, NEW S, NEW i, NEW cur, NEW m, NEW b,
         NEW la, NEW loff, NEW kept, NEW moves, NEW stay, NEW freed, NEW last2,
         Compacts(c, d, S, i, cur, m, b, la, loff, kept, moves, stay, freed, last2)
  PROVE  /\ db' \in [first_clean_block : Blocks, block_num : 4 .. MaxBlocks + 1]
         /\ tb' \in [first_record_block_id : Blocks, last_record_block_id : Blocks,
                     num_rows : 0 .. MaxRows]
         /\ tb'.num_rows = tb.num_rows /\ next_id' \in [Blocks -> Blocks]
         /\ d # Len(c) => b \in Range(c) \ {cur}
         /\ \E c2, f2 :
              /\ Listed(c2, tb'.first_record_block_id, tb'.last_record_block_id, next_id')
              /\ FreeOn(f2, db', next_id', Range(c2))
              /\ Range(c2) = IF freed THEN Range(c) \ {cur} ELSE Range(c)
<1>1. /\ d \in {1, 2} /\ d \in 1 .. Len(c) /\ cur = c[d] /\ b = next_id[cur]
      /\ la = c[Len(c)] /\ next_id[la] = la
      /\ freed \in BOOLEAN /\ (freed <=> stay = 0 /\ d # Len(c))
  BY DEF Compacts, OnlyIn
<1>2. PICK n \in Nat \ {0} : n = Len(c)
  BY AllLaid
<1>3. PICK first : first = tb.first_record_block_id
  OBVIOUS
<1>4. /\ Listed(c, first, la, next_id) /\ tb.last_record_block_id = la /\ c[1] = first
      /\ FreeOn(f, db, next_id, Range(c))
  BY <1>1, <1>3 DEF Shape, Listed
<1>5. /\ Range(c) = {c[x] : x \in 1 .. n} /\ Range(c) \subseteq Blocks
      /\ IsFiniteSet(Range(c)) /\ first \in Range(c) /\ la \in Range(c)
      /\ cur \in Range(c) /\ \A x, y \in 1 .. n : c[x] = c[y] => x = y
  <2>1. \A x, y \in 1 .. n : c[x] = c[y] => x = y
    BY <1>2, AllLaid
  <2> QED BY <1>1, <1>2, <1>4, <2>1, ListedOn
<1>6. (d # n <=> la # cur) /\ (d = 1 <=> cur = first)
  <2>1. n \in 1 .. n /\ 1 \in 1 .. n
    OBVIOUS
  <2> QED BY <1>1, <1>2, <1>4, <1>5, <2>1
<1>7. PICK link : link = next_id'
  OBVIOUS
<1>8. PICK free \in Blocks : free = db.first_clean_block
  BY DEF FileTyped
<1>9. PICK tail, head : tail = (IF freed THEN la ELSE cur) /\ head = (IF freed THEN free ELSE cur)
  OBVIOUS
<1>10. link = [IF d = 1 THEN next_id ELSE [next_id EXCEPT ![first] = b]
               EXCEPT ![la] = tail, ![cur] = head]
  BY <1>4, <1>7, <1>8, <1>9 DEF Compacts
<1>11. b \in Blocks /\ tail \in Blocks /\ head \in Blocks
  BY <1>1, <1>5, <1>8, <1>9 DEF FileTyped
<1>12. next_id \in [Blocks -> Blocks] /\ first \in Blocks /\ la \in Blocks /\ cur \in Blocks
  BY <1>5 DEF FileTyped
<1>13. PICK pre : pre = IF d = 1 THEN next_id ELSE [next_id EXCEPT ![first] = b]
  OBVIOUS
<1>14. /\ pre \in [Blocks -> Blocks] /\ (d # 1 => pre[first] = b)
       /\ \A x \in Blocks : x # first \/ d = 1 => pre[x] = next_id[x]
  <2>1. CASE d = 1
    BY <1>12, <1>13, <2>1
  <2>2. CASE d # 1
    <3>1. pre = [next_id EXCEPT ![first] = b]
      BY <1>13, <2>2
    <3> QED BY <1>11, <1>12, <2>2, <3>1
  <2> QED BY <2>1, <2>2
<1>15. link = [pre EXCEPT ![la] = tail, ![cur] = head]
  BY <1>10, <1>13
<1>16. /\ link \in [Blocks -> Blocks] /\ link[cur] = head /\ (la # cur => link[la] = tail)
       /\ \A x \in Blocks \ {cur, la} : link[x] = pre[x]
  BY <1>11, <1>12, <1>14, <1>15
<1>17. SameBut(next_id, link, Range(c))
  <2>1. \A x \in Blocks \ Range(c) : link[x] = pre[x] /\ pre[x] = next_id[x]
    BY <1>5, <1>14, <1>16
  <2> QED BY <2>1 DEF SameBut
<1>18. /\ db' \in [first_clean_block : Blocks, block_num : 4 .. MaxBlocks + 1]
       /\ db.block_num \in Nat
       /\ freed => db'.first_clean_block = cur /\ db'.block_num = db.block_num
       /\ ~freed => db' = db
  <2>1. PICK db0 \in [first_clean_block : Blocks, block_num : 4 .. MaxBlocks + 1] : db0 = db
    BY DEF FileTyped
  <2>2. db0.block_num \in Nat
    BY <2>1, RowsAssumption
  <2>3. db' = IF freed THEN [db0 EXCEPT !.first_clean_block = cur] ELSE db0
    BY <2>1 DEF Compacts
  <2> QED BY <1>12, <2>1, <2>2, <2>3
<1>19. PICK first2, end2 : first2 = (IF d = 1 THEN b ELSE first) /\ end2 = (IF freed THEN la ELSE cur)
  OBVIOUS
<1>20. /\ tb'.first_record_block_id = first2 /\ tb'.last_record_block_id = end2
       /\ tb'.num_rows = tb.num_rows
       /\ tb' \in [first_record_block_id : Blocks, last_record_block_id : Blocks,
                   num_rows : 0 .. MaxRows]
  <2>1. PICK tb0 \in [first_record_block_id : Blocks, last_record_block_id : Blocks,
                      num_rows : 0 .. MaxRows] : tb0 = tb
    BY DEF FileTyped
  <2>2. tb' = [tb0 EXCEPT !.first_record_block_id = first2, !.last_record_block_id = end2]
    BY <1>4, <1>19, <2>1 DEF Compacts
  <2>3. first2 \in Blocks /\ end2 \in Blocks
    BY <1>11, <1>12, <1>19
  <2> QED BY <2>1, <2>2, <2>3
<1>21. CASE d = n
  <2>1. cur = la /\ b = la /\ ~freed /\ head = cur /\ tail = cur
    BY <1>1, <1>2, <1>6, <1>9, <1>21
  <2>2. first2 = first /\ end2 = la
    BY <1>6, <1>19, <2>1
  <2>3. d # 1 => next_id[first] = b
    <3> HAVE d # 1
    <3>1. d = 2 /\ 1 \in 1 .. n - 1 /\ 1 + 1 = 2
      BY <1>1, <1>21
    <3>2. next_id[c[1]] = c[1 + 1]
      BY <1>2, <1>4, <3>1 DEF Listed
    <3> QED BY <1>1, <1>2, <1>4, <1>21, <2>1, <3>1, <3>2
  <2>4. \A x \in Blocks : link[x] = next_id[x]
    <3> TAKE x \in Blocks
    <3>1. CASE x = cur
      BY <1>1, <1>16, <2>1, <3>1
    <3>2. CASE x # cur
      <4>1. link[x] = pre[x]
        BY <1>16, <2>1, <3>2
      <4> QED BY <1>14, <2>3, <4>1
    <3> QED BY <3>1, <3>2
  <2>5. Listed(c, first, la, link)
    BY <1>4, <1>5, <2>4, ListedSame
  <2>6. FreeOn(f, db', link, Range(c))
    BY <1>4, <1>5, <1>17, <1>18, <2>1, FreeSame
  <2>7. Listed(c, tb'.first_record_block_id, tb'.last_record_block_id, next_id')
    BY <1>7, <1>20, <2>2, <2>5
  <2> QED BY <1>2, <1>7, <1>16, <1>18, <1>20, <1>21, <2>1, <2>6, <2>7
<1>22. CASE d # n
  <2>1. la # cur /\ b = next_id[cur]
    BY <1>1, <1>6, <1>22
  <2>2. d = 2 => link[first] = b
    <3> HAVE d = 2
    <3>1. first # cur
      BY <1>6
    <3>2. first # la
      <4>1. 1 \in 1 .. n /\ n \in 1 .. n /\ n # 1
        BY <1>1, <1>2, <1>22
      <4> QED BY <1>1, <1>2, <1>4, <1>5, <4>1
    <3>3. pre[first] = b
      BY <1>14
    <3> QED BY <1>12, <1>16, <3>1, <3>2, <3>3
  <2>3. \A x \in Range(c) \ {cur, la} : (x = first /\ d = 2) \/ link[x] = next_id[x]
    BY <1>1, <1>5, <1>14, <1>16
  <2>4. /\ b \in Range(c) /\ b # cur
        /\ \E r : Listed(r, first2, la, link) /\ Range(r) = Range(c) \ {cur}
    <3>1. Unhooks(c, d, first, la, next_id, first2, link)
      BY <1>1, <1>2, <1>4, <1>19, <1>22, <2>2, <2>3 DEF Unhooks
    <3> QED BY <1>1, <3>1, Unlinked
  <2>5. PICK r : Listed(r, first2, la, link) /\ Range(r) = Range(c) \ {cur}
    BY <2>4
  <2>6. CASE freed
    <3>1. end2 = la /\ link[cur] = db.first_clean_block
      BY <1>8, <1>9, <1>16, <1>19, <2>6
    <3>2. FreeOn(<<cur>> \o f, db', link, Range(c) \ {cur})
      BY <1>4, <1>5, <1>17, <1>18, <2>6, <3>1, FreePush
    <3>3. Listed(r, tb'.first_record_block_id, tb'.last_record_block_id, next_id')
      BY <1>7, <1>20, <2>5, <3>1
    <3> QED BY <1>7, <1>16, <1>18, <1>20, <2>4, <2>5, <2>6, <3>2, <3>3
  <2>7. CASE ~freed
    <3>1. end2 = cur /\ link[la] = cur
      BY <1>9, <1>16, <1>19, <2>1, <2>7
    <3>2. PICK c2 : c2 = Append(r, cur)
      OBVIOUS
    <3>3. Listed(c2, first2, cur, link) /\ Range(c2) = Range(r) \cup {cur}
      <4>1. PICK link2 : link2 = link
        OBVIOUS
      <4>2. cur \in Blocks /\ cur \notin Range(r) /\ \A x \in Range(r) \ {la} : link2[x] = link[x]
        BY <1>12, <2>5, <4>1
      <4>3. Listed(r, first2, la, link) /\ link2[la] = cur
        BY <2>5, <3>1, <4>1
      <4>4. Listed(Append(r, cur), first2, cur, link2)
        BY <4>2, <4>3, ListedAppend
      <4>5. Range(Append(r, cur)) = Range(r) \cup {cur}
        <5>1. r \in Seq(Blocks) /\ Len(r) \in Nat /\ DOMAIN r = 1 .. Len(r)
          BY <2>5 DEF Listed
        <5>2. /\ DOMAIN c2 = 1 .. Len(r) + 1 /\ c2[Len(r) + 1] = cur
              /\ \A x \in 1 .. Len(r) : c2[x] = r[x]
          BY <3>2, <5>1
        <5>3. /\ Range(c2) = {c2[x] : x \in 1 .. Len(r) + 1}
              /\ Range(r) = {r[x] : x \in 1 .. Len(r)}
          BY <5>1, <5>2 DEF Range
        <5> QED BY <3>2, <5>1, <5>2, <5>3
      <4> QED BY <3>2, <4>1, <4>4, <4>5
    <3>4. Range(c2) = Range(c)
      BY <1>5, <2>5, <3>3
    <3>5. FreeOn(f, db', link, Range(c2))
      BY <1>4, <1>5, <1>17, <1>18, <2>7, <3>4, FreeSame
    <3>6. Listed(c2, tb'.first_record_block_id, tb'.last_record_block_id, next_id')
      BY <1>7, <1>20, <3>1, <3>3
    <3> QED BY <1>7, <1>16, <1>18, <1>20, <2>4, <2>7, <3>4, <3>5, <3>6
  <2> QED BY <1>1, <2>6, <2>7
<1> QED BY <1>21, <1>22
-----------------------------------------------------------------------------
(* Compacting keeps the rows that are not to be deleted, of every value.   *)
Moved(c, S, P, cur, la) ==
  /\ \A x \in Blocks : /\ Weights(offset', slots', P)[x] \in Nat
                       /\ Weights(offset, slots, P \ S)[x] \in Nat
  /\ \A x \in Range(c) \ {cur, la} :
       Weights(offset', slots', P)[x] = Weights(offset, slots, P \ S)[x]
  /\ la = cur => Weights(offset', slots', P)[cur] = Weights(offset, slots, P \ S)[cur]
  /\ la # cur => Weights(offset', slots', P)[cur] + Weights(offset', slots', P)[la] =
                 Weights(offset, slots, P \ S)[cur] + Weights(offset, slots, P \ S)[la]

(* The two blocks have as many rows of P between them as before, but for   *)
(* those of S; the others keep theirs.                                     *)
LEMMA CompactWeights ==
  ASSUME FileTyped, NEW c, NEW f, Shape(c, f), NEW d, NEW S, NEW i, NEW cur, NEW m, NEW b,
         NEW la, NEW loff, NEW kept, NEW moves, NEW stay, NEW freed, NEW last2,
         Compacts(c, d, S, i, cur, m, b, la, loff, kept, moves, stay, freed, last2),
         NEW P
  PROVE  Moved(c, S, P, cur, la)
<1>1. /\ d \in 1 .. Len(c) /\ OnlyIn(c, d, S) /\ cur = c[d] /\ la = c[Len(c)]
      /\ m = offset[cur] /\ loff = offset[la]
  BY DEF Compacts
<1>2. CompactedFile(c, S, cur, m, la, loff, moves, stay)
  BY CompactPages
<1>3. PICK W : W = Weights(offset, slots, P \ S)
  OBVIOUS
<1>4. PICK W1 : W1 = Weights(offset, slots, P)
  OBVIOUS
<1>5. PICK W2 : W2 = Weights(offset', slots', P)
  OBVIOUS
<1>6. /\ \A x \in Blocks : W[x] \in Nat /\ W[x] = Count(Column(slots[x]), offset[x], P \ S)
      /\ \A x \in Blocks : W1[x] \in Nat /\ W1[x] = Count(Column(slots[x]), offset[x], P)
      /\ \A x \in Blocks : W2[x] \in Nat /\ W2[x] = Count(Column(slots'[x]), offset'[x], P)
  <2>1. offset \in [Blocks -> 0 .. Slots] /\ offset' \in [Blocks -> 0 .. Slots]
    BY <1>2 DEF FileTyped, CompactedFile
  <2> QED BY <1>3, <1>4, <1>5, <2>1, WeightsNat
<1>7. Range(c) \subseteq Blocks /\ Range(c) = {c[x] : x \in 1 .. Len(c)} /\ cur \in Blocks
      /\ la \in Blocks /\ la \in Range(c)
  <2>1. Listed(c, tb.first_record_block_id, la, next_id)
    BY <1>1 DEF Shape, Listed
  <2> QED BY <1>1, <2>1, ListedOn
<1>8. \A x \in Range(c) \ {cur} : W[x] = W1[x]
  <2> TAKE x \in Range(c) \ {cur}
  <2>1. PICK l \in 1 .. Len(c) : x = c[l]
    BY <1>7
  <2>2. l # d
    BY <1>1, <2>1
  <2>3. Weights(offset, slots, S)[x] = 0
    BY <1>1, <2>1, <2>2 DEF OnlyIn
  <2> QED BY <1>3, <1>4, <1>7, <2>3, WithoutNone
<1>9. \A x \in Range(c) \ {cur, la} : W2[x] = W[x]
  <2> TAKE x \in Range(c) \ {cur, la}
  <2>1. x \in Blocks \ {cur, la} /\ x \in Range(c) \ {cur}
    BY <1>7
  <2>2. offset'[x] = offset[x] /\ slots'[x] = slots[x]
    BY <1>2, <2>1 DEF CompactedFile
  <2>3. W2[x] = W1[x]
    BY <1>6, <2>1, <2>2
  <2> QED BY <1>8, <2>1, <2>3
<1>10. la = cur => W2[cur] = W[cur]
  <2> HAVE la = cur
  <2>1. offset'[cur] = stay
        /\ Count(Column(slots'[cur]), stay, P) = Count(Column(slots[cur]), m, P \ S)
    BY <1>2 DEF CompactedFile
  <2>2. W2[cur] = Count(Column(slots'[cur]), stay, P) /\ W[cur] = Count(Column(slots[cur]), m, P \ S)
    BY <1>1, <1>6, <1>7, <2>1
  <2> QED BY <2>1, <2>2
<1>11. la # cur => W2[cur] + W2[la] = W[cur] + W[la]
  <2> HAVE la # cur
  <2>1. PICK a \in Nat :
          /\ Count(Column(slots'[la]), loff + moves, P) = Count(Column(slots[la]), loff, P) + a
          /\ Count(Column(slots'[cur]), stay, P) + a = Count(Column(slots[cur]), m, P \ S)
    BY <1>2 DEF CompactedFile, Shifts
  <2>2. W2[la] = W1[la] + a /\ W2[cur] + a = W[cur]
    BY <1>1, <1>2, <1>6, <1>7, <2>1 DEF CompactedFile
  <2>3. W[la] = W1[la] /\ W[la] \in Nat /\ W2[cur] \in Nat
    BY <1>6, <1>7, <1>8
  <2> QED BY <2>2, <2>3
<1> QED BY <1>3, <1>5, <1>6, <1>9, <1>10, <1>11 DEF Moved

(* Blocks that keep a row, and rows only.                                  *)
LEMMA CompactFilled ==
  ASSUME FileTyped, NEW c, NEW f, Shape(c, f), NEW d, NEW S, NEW i, NEW cur, NEW m, NEW b,
         NEW la, NEW loff, NEW kept, NEW moves, NEW stay, NEW freed, NEW last2,
         Compacts(c, d, S, i, cur, m, b, la, loff, kept, moves, stay, freed, last2)
  PROVE  /\ \A x \in Range(c) : \A s \in 1 .. offset'[x] :
              slots'[x][s].v \in Values /\ slots'[x][s].valid = TRUE
         /\ Len(c) # 1 => \A x \in Range(c) : (x = cur /\ freed) \/ offset'[x] # 0
<1>1. /\ d \in 1 .. Len(c) /\ OnlyIn(c, d, S) /\ S \in SUBSET Values
      /\ cur = c[d] /\ la = c[Len(c)]
      /\ m = offset[cur] /\ loff = offset[la] /\ moves \in 0 .. Len(kept)
      /\ (freed <=> stay = 0 /\ d # Len(c))
  BY DEF Compacts
<1>2. CompactedFile(c, S, cur, m, la, loff, moves, stay) /\ (d # Len(c) <=> la # cur)
  BY CompactPages
<1>3. /\ Range(c) \subseteq Blocks /\ Range(c) = {c[x] : x \in 1 .. Len(c)}
      /\ cur \in Blocks /\ la \in Blocks /\ Len(c) \in 1 .. Len(c)
  <2>1. Listed(c, tb.first_record_block_id, la, next_id)
    BY <1>1 DEF Shape, Listed
  <2>2. Len(c) \in Nat \ {0}
    BY <2>1, ListedOn
  <2>3. Len(c) \in 1 .. Len(c)
    BY <2>2
  <2> QED BY <1>1, <2>1, <2>3, ListedOn
<1>4. ASSUME NEW x \in Range(c), NEW s \in 1 .. offset'[x]
      PROVE  slots'[x][s].v \in Values /\ slots'[x][s].valid = TRUE
  <2>1. CASE x = cur
    BY <1>2, <2>1 DEF CompactedFile, Rowed
  <2>2. CASE x = la /\ la # cur
    BY <1>2, <2>2 DEF CompactedFile, Rowed
  <2>3. CASE x \notin {cur, la}
    <3>1. offset'[x] = offset[x] /\ slots'[x] = slots[x]
      BY <1>2, <1>3, <2>3 DEF CompactedFile
    <3>2. PICK l \in 1 .. Len(c) : x = c[l]
      BY <1>3
    <3> QED BY <3>1, <3>2 DEF Shape, Filled
  <2> QED BY <2>1, <2>2, <2>3
<1>5. ASSUME Len(c) # 1, NEW x \in Range(c), ~(x = cur /\ freed) PROVE offset'[x] # 0
  <2>1. \A l \in 1 .. Len(c) : offset[c[l]] # 0
    BY <1>5 DEF Shape
  <2>2. CASE x = cur /\ d # Len(c)
    <3>1. stay # 0 /\ offset'[cur] = stay
      BY <1>1, <1>2, <1>5, <2>2 DEF CompactedFile
    <3> QED BY <2>2, <3>1
  <2>3. CASE x = cur /\ d = Len(c)
    <3>1. SUFFICES ASSUME stay = 0 PROVE FALSE
      BY <1>2, <2>3 DEF CompactedFile
    <3>2. PICK page : page = slots[cur]
      OBVIOUS
    <3>3. Count(Column(slots'[cur]), stay, Values) = Count(Column(page), m, Values \ S)
      BY <1>2, <2>3, <3>2 DEF CompactedFile
    <3>4. Count(Column(slots'[cur]), 0, Values) = 0
      BY CountNone
    <3>5. m \in 0 .. Slots /\ m \in Nat /\ Weights(offset, slots, S)[cur] = Count(Column(page), m, S)
          /\ Weights(offset, slots, S)[cur] \in Nat
      <4>1. offset \in [Blocks -> 0 .. Slots]
        BY DEF FileTyped
      <4>2. m \in 0 .. Slots
        BY <1>1, <1>3, <4>1
      <4> QED BY <1>1, <1>3, <3>2, <4>1, <4>2, WeightsNat, RowsAssumption
    <3>6. Count(Column(page), m, Values) = m
      <4>1. \A s \in 1 .. m : Column(page)[s] \in Values
        <5>1. \A s \in 1 .. m : s \in 1 .. Slots /\ page[s].v \in Values
          <6>1. \A s \in 1 .. m : s \in 1 .. Slots
            BY <3>5, RowsAssumption
          <6> QED BY <1>1, <1>3, <3>2, <6>1 DEF Shape, Filled
        <5> QED BY <5>1 DEF Column
      <4> QED BY <3>5, <4>1, CountAll
    <3>7. Count(Column(page), m, Values) =
            Count(Column(page), m, Values \ S) + Count(Column(page), m, S)
      <4>1. (Values \ S) \cap S = {} /\ (Values \ S) \cup S = Values
        BY <1>1
      <4> QED BY <3>5, <4>1, CountBoth
    <3>8. Weights(offset, slots, S)[cur] < m
      BY <1>1, <1>5, <2>3 DEF OnlyIn
    <3> QED BY <3>1, <3>3, <3>4, <3>5, <3>6, <3>7, <3>8
  <2>4. CASE x = la /\ la # cur
    <3>1. offset'[la] = loff + moves /\ loff # 0
      BY <1>1, <1>2, <1>3, <2>1, <2>4 DEF CompactedFile
    <3>2. loff \in 0 .. Slots
      BY <1>1, <1>3 DEF FileTyped
    <3>3. loff \in Nat /\ moves \in Nat
      <4>1. loff \in Nat
        BY <3>2, RowsAssumption
      <4> QED BY <1>1, <4>1
    <3> QED BY <2>4, <3>1, <3>3
  <2>5. CASE x \notin {cur, la}
    <3>1. offset'[x] = offset[x]
      BY <1>2, <1>3, <2>5 DEF CompactedFile
    <3>2. PICK l \in 1 .. Len(c) : x = c[l]
      BY <1>3
    <3> QED BY <2>1, <3>1, <3>2
  <2> QED BY <2>2, <2>3, <2>4, <2>5
<1> QED BY <1>4, <1>5

(* The rows counted over the whole table.                                  *)
LEMMA CompactTotals ==
  ASSUME FileTyped, NEW c, NEW f, Shape(c, f), NEW d, NEW S, NEW i, NEW cur, NEW m, NEW b,
         NEW la, NEW loff, NEW kept, NEW moves, NEW stay, NEW freed, NEW last2,
         Compacts(c, d, S, i, cur, m, b, la, loff, kept, moves, stay, freed, last2),
         NEW T, T = IF freed THEN Range(c) \ {cur} ELSE Range(c)
  PROVE  /\ \A P : Total(Weights(offset', slots', P), T) =
                     Total(Weights(offset, slots, P \ S), Range(c))
         /\ \A x \in T : Weights(offset', slots', S)[x] = 0
         /\ Total(Weights(offset, slots, S), Range(c)) = Count(Column(slots[cur]), m, S)
<1>1. /\ d \in 1 .. Len(c) /\ OnlyIn(c, d, S) /\ cur = c[d] /\ la = c[Len(c)]
      /\ m = offset[cur] /\ freed \in BOOLEAN /\ (freed <=> stay = 0 /\ d # Len(c))
  BY DEF Compacts
<1>2. CompactedFile(c, S, cur, m, la, loff, moves, stay) /\ (d # Len(c) <=> la # cur)
  BY CompactPages
<1>3. /\ Range(c) \subseteq Blocks /\ Range(c) = {c[x] : x \in 1 .. Len(c)}
      /\ IsFiniteSet(Range(c)) /\ cur \in Range(c) /\ la \in Range(c)
  <2>1. Listed(c, tb.first_record_block_id, la, next_id)
    BY <1>1 DEF Shape, Listed
  <2> QED BY <1>1, <2>1, ListedOn
<1>4. offset \in [Blocks -> 0 .. Slots] /\ offset' \in [Blocks -> 0 .. Slots]
  BY <1>2 DEF FileTyped, CompactedFile
<1>5. ASSUME NEW P
      PROVE  Total(Weights(offset', slots', P), T) = Total(Weights(offset, slots, P \ S), Range(c))
  <2>1. PICK W : W = Weights(offset, slots, P \ S)
    OBVIOUS
  <2>2. PICK W2 : W2 = Weights(offset', slots', P)
    OBVIOUS
  <2>3. /\ \A x \in Range(c) : W[x] \in Nat /\ W2[x] \in Nat
        /\ \A x \in Range(c) \ {cur, la} : W2[x] = W[x]
        /\ la = cur => W2[cur] = W[cur]
        /\ la # cur => W2[cur] + W2[la] = W[cur] + W[la]
    BY <1>3, <2>1, <2>2, CompactWeights DEF Moved
  <2>4. CASE la = cur
    <3>1. ~freed
      BY <1>1, <1>2, <2>4
    <3>2. \A x \in Range(c) : W2[x] = W[x]
      BY <2>3, <2>4
    <3>3. Total(W2, Range(c)) = Total(W, Range(c))
      BY <1>3, <3>2, TotalSame
    <3> QED BY <2>1, <2>2, <3>1, <3>3
  <2>5. CASE la # cur
    <3>1. /\ Total(W2, Range(c)) = Total(W, Range(c))
          /\ W2[cur] = 0 => Total(W2, Range(c) \ {cur}) = Total(W, Range(c))
      <4>1. MovesOnly(Range(c), cur, la, W, W2)
        BY <1>3, <2>3, <2>5 DEF MovesOnly
      <4> QED BY <4>1, MoveTotals
    <3>2. CASE freed
      <4>1. W2[cur] = Count(Column(slots'[cur]), 0, P)
        <5>1. offset'[cur] = 0
          BY <1>1, <1>2, <3>2 DEF CompactedFile
        <5> QED BY <1>3, <1>4, <2>2, <5>1, WeightsNat
      <4>2. W2[cur] = 0
        BY <4>1, CountNone
      <4> QED BY <2>1, <2>2, <3>1, <3>2, <4>2
    <3>3. CASE ~freed
      BY <2>1, <2>2, <3>1, <3>3
    <3> QED BY <1>1, <3>2, <3>3
  <2> QED BY <2>4, <2>5
<1>6. \A x \in Range(c) : Weights(offset', slots', S)[x] = 0
  <2>1. PICK W : W = Weights(offset, slots, S \ S)
    OBVIOUS
  <2>2. PICK W2 : W2 = Weights(offset', slots', S)
    OBVIOUS
  <2>3. /\ \A x \in Range(c) : W[x] \in Nat /\ W2[x] \in Nat
        /\ \A x \in Range(c) \ {cur, la} : W2[x] = W[x]
        /\ la = cur => W2[cur] = W[cur]
        /\ la # cur => W2[cur] + W2[la] = W[cur] + W[la]
    BY <1>3, <2>1, <2>2, CompactWeights DEF Moved
  <2>4. ASSUME NEW x \in Range(c) PROVE W[x] = 0
    <3>1. PICK E : E = S \ S
      OBVIOUS
    <3>2. PICK k \in Nat : k = offset[x] /\ k \in 0 .. Slots
      <4>1. offset[x] \in 0 .. Slots
        BY <1>3, <1>4
      <4> QED BY <4>1, RowsAssumption
    <3>3. W[x] = Count(Column(slots[x]), k, E)
      BY <1>3, <1>4, <2>1, <3>1, <3>2, WeightsNat
    <3>4. Count(Column(slots[x]), k, E) = 0
      BY <3>1, CountNone
    <3> QED BY <3>3, <3>4
  <2>5. la # cur => W2[cur] = 0 /\ W2[la] = 0
    <3> HAVE la # cur
    <3>1. W2[cur] + W2[la] = W[cur] + W[la]
      BY <2>3
    <3>2. W[cur] = 0 /\ W[la] = 0 /\ W2[cur] \in Nat /\ W2[la] \in Nat
      BY <1>3, <2>3, <2>4
    <3> QED BY <3>1, <3>2
  <2> QED BY <1>3, <2>2, <2>3, <2>4, <2>5
<1>7. Total(Weights(offset, slots, S), Range(c)) = Count(Column(slots[cur]), m, S)
  <2>1. PICK W : W = Weights(offset, slots, S)
    OBVIOUS
  <2>2. \A x \in Range(c) : W[x] \in Nat
    BY <1>3, <1>4, <2>1, WeightsNat
  <2>3. \A x \in Range(c) \ {cur} : W[x] = 0
    <3> TAKE x \in Range(c) \ {cur}
    <3>1. PICK l \in 1 .. Len(c) : x = c[l]
      BY <1>3
    <3>2. l # d
      BY <1>1, <3>1
    <3> QED BY <1>1, <2>1, <3>1, <3>2 DEF OnlyIn
  <2>4. PICK U : U = Range(c) \ {cur}
    OBVIOUS
  <2>5. IsFiniteSet(U) /\ Range(c) = U \cup {cur} /\ cur \notin U
    BY <1>3, <2>4, FS_Subset
  <2>6. Total(W, U) = 0
    BY <2>3, <2>4, <2>5, TotalZero
  <2>7. Total(W, U \cup {cur}) = W[cur] + Total(W, U)
    <3>1. \A x \in U \cup {cur} : W[x] \in Nat
      BY <2>2, <2>5
    <3> QED BY <2>5, <3>1, TotalAdd
  <2>8. W[cur] = Count(Column(slots[cur]), m, S) /\ W[cur] \in Nat
    BY <1>1, <1>3, <1>4, <2>1, WeightsNat
  <2> QED BY <2>1, <2>5, <2>6, <2>7, <2>8
<1> QED BY <1>5, <1>6, <1>7
-----------------------------------------------------------------------------
(* Once its block is compacted a delete has nothing left to delete.        *)
LEMMA DeleteCompactInv ==
  ASSUME FileTyped, NEW c, NEW f, Shape(c, f), Calls(c), DeleteCompactBlock
  PROVE  Inv' /\ held' = held
<1>1. PICK d, S, i, cur, m, b, la, loff, kept, moves, stay, freed, last2 :
        Compacts(c, d, S, i, cur, m, b, la, loff, kept, moves, stay, freed, last2)
  BY CompactStep
<1>2. held = Counted(All(c)) /\ tb.num_rows = Len(All(c))
  BY CompactStep DEF Quiet
<1>3. /\ d \in 1 .. Len(c) /\ cur = c[d] /\ la = c[Len(c)] /\ S \in SUBSET Values
      /\ freed \in BOOLEAN /\ (freed <=> stay = 0 /\ d # Len(c))
      /\ i \in Nat /\ i <= tb.num_rows /\ (d = Len(c) => i = tb.num_rows) /\ held' = held
  BY <1>1 DEF Compacts
<1>4. CompactedFile(c, S, cur, m, la, loff, moves, stay) /\ (d # Len(c) <=> la # cur)
  BY <1>1, CompactPages
<1>5. offset' \in [Blocks -> 0 .. Slots] /\ slots' \in [Blocks -> Pages]
  BY <1>4 DEF CompactedFile
<1>6. /\ db' \in [first_clean_block : Blocks, block_num : 4 .. MaxBlocks + 1]
      /\ tb' \in [first_record_block_id : Blocks, last_record_block_id : Blocks,
                  num_rows : 0 .. MaxRows]
      /\ tb'.num_rows = tb.num_rows /\ next_id' \in [Blocks -> Blocks]
      /\ d # Len(c) => b \in Range(c) \ {cur}
  BY <1>1, CompactLists
<1>7. PICK c2, f2 :
        /\ Listed(c2, tb'.first_record_block_id, tb'.last_record_block_id, next_id')
        /\ FreeOn(f2, db', next_id', Range(c2))
        /\ Range(c2) = IF freed THEN Range(c) \ {cur} ELSE Range(c)
  BY <1>1, CompactLists
<1>8. PICK T : T = Range(c2)
  OBVIOUS
<1>9. T = (IF freed THEN Range(c) \ {cur} ELSE Range(c)) /\ T \subseteq Range(c)
  BY <1>3, <1>7, <1>8
<1>10. /\ T = {c2[x] : x \in 1 .. Len(c2)} /\ Len(c2) \in Nat \ {0}
       /\ \A x, y \in 1 .. Len(c2) : c2[x] = c2[y] => x = y
  BY <1>7, <1>8, ListedOn DEF Listed
<1>11. Range(c) = {c[x] : x \in 1 .. Len(c)} /\ Range(c) \subseteq Blocks
  BY ListedOn DEF Shape
<1>12. FileTyped'
  BY <1>5, <1>6 DEF FileTyped, Pages
<1>13. Filled(c2, offset', slots')
  <2>1. \A x \in Range(c) : \A s \in 1 .. offset'[x] :
          slots'[x][s].v \in Values /\ slots'[x][s].valid = TRUE
    BY <1>1, CompactFilled
  <2> QED BY <1>9, <1>10, <2>1 DEF Filled
<1>14. Len(c2) # 1 => \A x \in 1 .. Len(c2) : offset'[c2[x]] # 0
  <2> HAVE Len(c2) # 1
  <2>1. Len(c) # 1
    <3>1. SUFFICES ASSUME Len(c) = 1 PROVE FALSE
      OBVIOUS
    <3>2. PICK n \in Nat \ {0} : n = Len(c2) /\ n # 1
      BY <1>10
    <3>3. 1 \in 1 .. n /\ 2 \in 1 .. n
      BY <3>2
    <3>4. c2[1] \in Range(c) /\ c2[2] \in Range(c) /\ c2[1] # c2[2]
      BY <1>9, <1>10, <3>2, <3>3
    <3>5. \A x \in Range(c) : x = c[1]
      BY <1>11, <3>1
    <3> QED BY <3>4, <3>5
  <2>2. \A x \in Range(c) : (x = cur /\ freed) \/ offset'[x] # 0
    BY <1>1, <2>1, CompactFilled
  <2> QED BY <1>9, <1>10, <2>2
<1>15. Shape(c2, f2)'
  BY <1>7, <1>13, <1>14 DEF Shape
<1>16. PICK rows : rows = All(c)
  OBVIOUS
<1>17. PICK rows2 : rows2 = FlattenSeq(Texts(c2, offset', slots'))
  OBVIOUS
<1>18. /\ rows \in Seq(Values)
       /\ \A P : Count(rows, Len(rows), P) = Total(Weights(offset, slots, P), Range(c))
  <2>1. offset \in [Blocks -> 0 .. Slots]
    BY DEF FileTyped
  <2> QED BY <1>16, <2>1, AllIs DEF All, Shape
<1>19. /\ rows2 \in Seq(Values)
       /\ \A P : Count(rows2, Len(rows2), P) = Total(Weights(offset', slots', P), Range(c2))
  <2>1. offset' \in [Blocks -> 0 .. Slots]
    BY <1>5
  <2>2. Filled(c2, offset', slots')
    BY <1>13
  <2>3. Listed(c2, tb'.first_record_block_id, tb'.last_record_block_id, next_id')
    BY <1>7
  <2> QED BY <1>17, <2>1, <2>2, <2>3, AllIs
<1>20. PICK hits : hits = Count(Column(slots[cur]), m, S)
  OBVIOUS
<1>21. /\ \A P : Total(Weights(offset', slots', P), T) =
                   Total(Weights(offset, slots, P \ S), Range(c))
       /\ \A x \in T : Weights(offset', slots', S)[x] = 0
       /\ Total(Weights(offset, slots, S), Range(c)) = hits
  BY <1>1, <1>9, <1>20, CompactTotals
<1>22. \A P : Count(rows2, Len(rows2), P) = Count(rows, Len(rows), P \ S)
  BY <1>8, <1>18, <1>19, <1>21
<1>23. /\ Counted(rows2) = Store!Deleted(Counted(rows), S)
       /\ Len(rows2) = Len(rows) - hits /\ hits \in Nat
  <2>1. Count(rows, Len(rows), S) = hits
    BY <1>18, <1>21
  <2> QED BY <1>3, <1>18, <1>19, <1>22, <2>1, DeletedCounts
<1>24. All(c2)' = rows2
  BY <1>17 DEF All
<1>25. PICK open : open = Open(b)'
  OBVIOUS
<1>26. Ahead(c2, open, 0, i, b)' \/ ~(i < tb'.num_rows)
  <2> SUFFICES ASSUME i < tb'.num_rows PROVE Ahead(c2, open, 0, i, b)'
    OBVIOUS
  <2>1. d # Len(c)
    <3>1. tb.num_rows \in 0 .. MaxRows
      BY DEF FileTyped
    <3>2. i # tb.num_rows
      BY <1>3, <1>6, <3>1, RowsAssumption
    <3> QED BY <1>3, <3>2
  <2>2. b \in Range(c) /\ b # cur /\ b \in T
    BY <1>6, <1>9, <2>1
  <2>3. PICK k \in 1 .. Len(c2) : b = c2[k]
    BY <1>10, <2>2
  <2>4. Len(c) # 1
    <3>1. \A x \in 1 .. 1 : x = 1
      OBVIOUS
    <3>2. PICK k2 \in 1 .. Len(c) : b = c[k2]
      BY <1>11, <2>2
    <3> QED BY <1>3, <2>2, <3>1, <3>2
  <2>5. offset'[b] # 0
    BY <1>1, <2>2, <2>4, CompactFilled
  <2>6. 0 < offset'[b]
    <3>1. offset'[b] \in 0 .. Slots
      BY <1>5, <1>11, <2>2
    <3> QED BY <2>5, <3>1, RowsAssumption
  <2>7. open = Open(c2[k])' /\ 0 \in Nat /\ 0 < offset'[c2[k]] /\ b \in Range(c2)
    BY <1>8, <1>25, <2>2, <2>3, <2>6
  <2> QED BY <2>7 DEF Ahead
<1>27. run' = [op |-> "delete", cond |-> S, curr |-> open, off |-> 0, i |-> i,
               pre_id |-> cur, next_id |-> b, last |-> last2,
               deleted_rows |-> hits, block_flag |-> FALSE]
  BY <1>1, <1>20, <1>25 DEF Compacts
<1>28. PassingAt(c2, S, open, 0, i, cur, b, last2, hits)'
  <2>1. \A x \in 1 .. Len(c2) : Weights(offset', slots', S)[c2[x]] = 0
    BY <1>10, <1>21
  <2>2. tb'.num_rows - hits = Len(All(c2)') /\ i <= tb'.num_rows
    BY <1>2, <1>3, <1>6, <1>16, <1>23, <1>24
  <2>3. Counted(rows2) = Store!Deleted(held', S)
    BY <1>2, <1>3, <1>16, <1>23
  <2>4. Counted(All(c2)') = Store!Deleted(held', S)
    BY <1>24, <2>3
  <2>5. Counted(All(c2))' = Counted(All(c2)')
    BY DEF Counted
  <2> QED BY <1>3, <1>23, <1>26, <1>27, <2>1, <2>2, <2>4, <2>5 DEF PassingAt
<1> QED BY <1>3, <1>12, <1>15, <1>28 DEF Inv, Calls, Passing
-----------------------------------------------------------------------------
(* Every step keeps the invariant and does to the bag of rows what the     *)
(* store promises.                                                         *)
LEMMA StepKept ==
  ASSUME OrderlyDeletes, Inv, [Next]_vars
  PROVE  Inv' /\ [Store!Next]_held
<1>1. FileTyped
  BY DEF Inv
<1>2. PICK c, f : Shape(c, f) /\ Calls(c)
  BY DEF Inv
<1>3. ASSUME NEW v \in Values, Insert(v) PROVE Inv' /\ held' = Store!Inserted(held, v)
  BY <1>1, <1>2, <1>3, InsertInv
<1>4. ASSUME NEW S \in SUBSET Values, SelectStart(S) PROVE Inv' /\ held' = held
  BY <1>1, <1>2, <1>4, SelectStartInv
<1>5. ASSUME NEW S \in SUBSET Values, DeleteStart(S) PROVE Inv' /\ held' = held
  BY <1>1, <1>2, <1>5, DeleteStartInv
<1>6. ASSUME NEW S \in SUBSET Values, NEW v \in Values, UpdateStart(S, v)
      PROVE  Inv' /\ held' = held
  BY <1>1, <1>2, <1>6, UpdateStartInv
<1>7. CASE UpdateRow
  BY <1>1, <1>2, <1>7, UpdateRowInv
<1>8. CASE UpdateEnd
  <2>1. Inv' /\ \E S \in SUBSET Values, v \in Values : held' = Store!Updated(held, S, v)
    BY <1>1, <1>2, <1>8, UpdateEndInv
  <2> QED BY <2>1 DEF Store!Next
<1>9. CASE SelectRow
  BY <1>1, <1>2, <1>9, SelectRowInv
<1>10. CASE SelectResume
  BY <1>1, <1>2, <1>10, SelectResumeInv
<1>11. CASE SelectEnd
  BY <1>1, <1>2, <1>11, SelectEndInv
<1>12. CASE DeleteRow
  BY <1>1, <1>2, <1>12, DeleteRowInv
<1>13. CASE DeleteSkipBlock
  BY <1>1, <1>2, <1>13, DeleteSkipBlockInv
<1>14. CASE DeleteCompactBlock
  BY <1>1, <1>2, <1>14, DeleteCompactInv
<1>15. CASE DeleteEnd
  <2>1. Inv' /\ \E S \in SUBSET Values : held' = Store!Deleted(held, S)
    BY <1>1, <1>2, <1>15, DeleteEndInv
  <2> QED BY <2>1 DEF Store!Next
<1>16. CASE UNCHANGED vars
  <2>1. /\ db' = db /\ tb' = tb /\ next_id' = next_id /\ offset' = offset /\ slots' = slots
        /\ run' = run /\ held' = held
    BY <1>16 DEF vars
  <2>2. FileTyped' /\ Shape(c, f)'
    BY <1>1, <1>2, <2>1 DEF FileTyped, Shape
  <2>3. /\ All(c)' = All(c) /\ \A x : Open(x)' = Open(x)
        /\ \A P : Weights(offset, slots, P)' = Weights(offset, slots, P)
    BY <2>1 DEF All, Open, Weights
  <2>4. Quiet(c)' <=> Quiet(c)
    BY <2>1, <2>3 DEF Quiet, Counted
  <2>5. Selecting(c)' <=> Selecting(c)
    BY <2>1, <2>3, <2>4 DEF Selecting
  <2>6. Stopped(c)' <=> Stopped(c)
    BY <2>1, <2>3, <2>4 DEF Stopped
  <2>7. ASSUME Updating(c) PROVE Updating(c)'
    <3>1. PICK rows : rows = All(c)
      OBVIOUS
    <3>2. PICK at, off, old : \E S \in SUBSET Values, v \in Values, k \in 1 .. Len(c) :
            /\ Lays(All(c), at, c, offset, slots)
            /\ tb.num_rows = Len(All(c)) /\ held = Counted(old)
            /\ Changed(All(c), old, at[k] + off, S, v)
            /\ off \in 0 .. offset[c[k]]
            /\ run = [op |-> "update", cond |-> S, value |-> v, curr |-> Open(c[k]),
                      off |-> off, i |-> at[k] + off]
      BY <2>7 DEF Updating
    <3>3. PICK S \in SUBSET Values, v \in Values, k \in 1 .. Len(c) :
            /\ Lays(rows, at, c, offset, slots)
            /\ tb.num_rows = Len(rows) /\ held = Counted(old)
            /\ Changed(rows, old, at[k] + off, S, v)
            /\ off \in 0 .. offset[c[k]]
            /\ run = [op |-> "update", cond |-> S, value |-> v, curr |-> Open(c[k]),
                      off |-> off, i |-> at[k] + off]
      BY <3>1, <3>2
    <3>4. All(c)' = rows /\ held' = Counted(old) /\ Open(c[k])' = Open(c[k])
      BY <2>1, <2>3, <3>1, <3>3
    <3>5. /\ Lays(rows, at, c, offset', slots')
          /\ tb'.num_rows = Len(rows) /\ held' = Counted(old)
          /\ Changed(rows, old, at[k] + off, S, v)
          /\ off \in 0 .. offset'[c[k]]
          /\ run' = [op |-> "update", cond |-> S, value |-> v, curr |-> Open(c[k])',
                     off |-> off, i |-> at[k] + off]
      BY <2>1, <3>3, <3>4
    <3> QED BY <3>4, <3>5 DEF Updating
  <2>8. \A d, S : OnlyIn(c, d, S)' <=> OnlyIn(c, d, S)
    BY <2>1, <2>3 DEF OnlyIn
  <2>9. \A d, S, off, k : MarkingAt(c, d, S, off, k)' <=> MarkingAt(c, d, S, off, k)
    BY <2>1, <2>3, <2>4, <2>8 DEF MarkingAt
  <2>10. \A curr, off, i, next : Ahead(c, curr, off, i, next)' <=> Ahead(c, curr, off, i, next)
    BY <2>1, <2>3 DEF Ahead
  <2>11. \A S, curr, off, i, pre_id, next, last, gone :
           PassingAt(c, S, curr, off, i, pre_id, next, last, gone)' <=>
             PassingAt(c, S, curr, off, i, pre_id, next, last, gone)
    BY <2>1, <2>3, <2>10 DEF PassingAt, Counted
  <2>12. (Marking(c)' <=> Marking(c)) /\ (Passing(c)' <=> Passing(c))
    BY <2>9, <2>11 DEF Marking, Passing
  <2>13. Calls(c)'
    BY <1>2, <2>1, <2>4, <2>5, <2>6, <2>7, <2>12 DEF Calls
  <2> QED BY <2>1, <2>2, <2>13 DEF Inv
<1>17. ASSUME NEW v \in Values, held' = Store!Inserted(held, v) PROVE Store!Next
  BY <1>17 DEF Store!Next
<1> QED BY <1>3, <1>4, <1>5, <1>6, <1>7, <1>8, <1>9, <1>10, <1>11, <1>12, <1>13, <1>14, <1>15,
          <1>16, <1>17 DEF Next, Step
-----------------------------------------------------------------------------
(* The rows and their blocks are in order in every state, whatever the     *)
(* values, the size of a page, of the file and of the table, as long as    *)
(* the rows a delete names are where the delete loop copes with them       *)
(* (Orderly).  Without that the theorem is false: see RowsTwoBlocks.       *)
THEOREM RowsInvariant == OrderlyDeletes /\ Spec => []Inv
<1> SUFFICES ASSUME OrderlyDeletes PROVE Spec => []Inv
  OBVIOUS
<1>1. Inv /\ [Next]_vars => Inv'
  BY StepKept
<1> QED BY <1>1, InitInv, PTL DEF Spec

(* Links and offsets stay inside the file and its pages through every      *)
(* insert, update, select and compaction (pager.c:103-331,                 *)
(* query.c:610-1110).                                                      *)
THEOREM RowsTypeOK == OrderlyDeletes /\ Spec => []TypeOK
<1>1. Inv => TypeOK
  <2> SUFFICES ASSUME Inv PROVE TypeOK
    OBVIOUS
  <2>1. FileTyped /\ run.op \in {"idle", "select", "full", "update", "delete"}
    BY CallOf DEF Inv
  <2> QED BY <2>1 DEF FileTyped, TypeOK
<1> QED BY <1>1, RowsInvariant, PTL

(* Between two calls no block is lost and none is used twice: popping a    *)
(* block for an insert and giving one back after a compaction keep the     *)
(* table and the free list apart (pager.c:291-297).                        *)
THEOREM RowsBlocksOnce == OrderlyDeletes /\ Spec => []BlocksOnce
<1>1. Inv => BlocksOnce
  <2> SUFFICES ASSUME Inv PROVE BlocksOnce
    OBVIOUS
  <2>1. PICK c, f : Shape(c, f)
    BY DEF Inv
  <2>2. TableBlocks = c
    BY <2>1, TableRead DEF ReadsRight, Shape
  <2>3. FreeChain = Range(f)
    BY <2>1, FreeRead DEF FreeRight, Shape, FreeOn
  <2> QED BY <2>1, <2>2, <2>3 DEF BlocksOnce, Shape, FreeOn
<1> QED BY <1>1, RowsInvariant, PTL

(* Between two calls num_rows, which bounds the loops of update and        *)
(* delete, is the number of rows select finds on the chain.                *)
THEOREM RowsCountedRight == OrderlyDeletes /\ Spec => []RowsCounted
<1>1. Inv => RowsCounted
  <2> SUFFICES ASSUME Inv, run.op = "idle" PROVE tb.num_rows = Len(TableRows)
    BY DEF RowsCounted
  <2>1. PICK c, f : Shape(c, f) /\ Calls(c)
    BY DEF Inv
  <2>2. Quiet(c)
    BY <2>1, CallOf
  <2>3. TableRows = All(c)
    BY <2>1, TableRead DEF ReadsRight, Shape, All
  <2> QED BY <2>2, <2>3 DEF Quiet
<1> QED BY <1>1, RowsInvariant, PTL

(* A select that is called until it returns 0 has returned every row its   *)
(* conditions name, once and in order, wherever its buffer was full        *)
(* (query.c:634, 714-716).                                                 *)
THEOREM SelectsExactly == OrderlyDeletes /\ Spec => []SelectExact
<1>1. Inv => SelectExact
  BY SelectDone DEF Inv
<1> QED BY <1>1, RowsInvariant, PTL

(* Every step changes the bag of rows as RowStore says, or leaves it:      *)
(* insert adds one row, update changes and delete removes all the rows     *)
(* named and no other.                                                     *)
THEOREM RowsImplementStore == OrderlyDeletes /\ Spec => RowsKept
<1> SUFFICES ASSUME OrderlyDeletes PROVE Spec => RowsKept
  OBVIOUS
<1>1. Init => Store!Init
  BY DEF Init, Store!Init
<1>2. Inv /\ [Next]_vars => [Store!Next]_held
  BY StepKept
<1>3. Spec => []Inv
  BY RowsInvariant
<1> QED BY <1>1, <1>2, <1>3, PTL DEF Spec, RowsKept, Store!Spec
=============================================================================
