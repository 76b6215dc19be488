----------------------------- MODULE ChainProofs -----------------------------
(* Lemmas about chains: what appending, unlinking, pushing and popping a   *)
(* block does to one, what following its links finds, and what numbers     *)
(* kept for its blocks add up to; and about lists of lists.                *)
EXTENDS Chains, Sequences, FiniteSetTheorems, FunctionTheorems, SequenceTheorems,
        WellFoundedInduction, TLAPS

(* A chain stays one when links outside it change.                         *)
LEMMA ChainCongruence ==
  ASSUME NEW S, NEW first, NEW last, NEW link, NEW link2,
         Chain(link, S, first, last),
         \A c \in S : link2[c] = link[c]
  PROVE  Chain(link2, S, first, last)
BY DEF Chain, Numbers

(* Linking the last block to a new one that is linked to itself makes the  *)
(* new block the last.                                                     *)
LEMMA ChainAppend ==
  ASSUME NEW S, IsFiniteSet(S), NEW first, NEW last, NEW b, b \notin S,
         NEW link, NEW link2,
         Chain(link, S, first, last),
         link2[last] = b, link2[b] = b,
         \A c \in S \ {last} : link2[c] = link[c]
  PROVE  Chain(link2, S \cup {b}, first, b)
<1> DEFINE n == Cardinality(S)
           T == S \cup {b}
<1>1. PICK pos \in [S -> 1 .. n] : Numbers(pos, link, S, first, last)
  BY DEF Chain
<1>2. n \in Nat /\ Cardinality(T) = n + 1
  BY FS_AddElement, FS_CardinalityType
<1> DEFINE pos2 == [c \in T |-> IF c = b THEN n + 1 ELSE pos[c]]
<1>3. first \in S /\ last \in S
  BY DEF Chain
<1> HIDE DEF n
<1>4. pos2 \in [T -> 1 .. n + 1]
  BY <1>1, <1>2
<1>5. pos2[first] = 1 /\ pos2[b] = n + 1
  BY <1>1, <1>3 DEF Numbers
<1>6. \A c, d \in T : pos2[c] = pos2[d] => c = d
  BY <1>1, <1>2 DEF Numbers
<1>7. \A c \in T \ {b} : link2[c] \in T /\ pos2[link2[c]] = pos2[c] + 1
  <2> TAKE c \in T \ {b}
  <2>1. CASE c = last
    BY <2>1, <1>1, <1>3 DEF Numbers, n
  <2>2. CASE c # last
    BY <2>2, <1>1, <1>3 DEF Numbers
  <2> QED BY <2>1, <2>2
<1>8. Numbers(pos2, link2, T, first, b)
  BY <1>2, <1>5, <1>6, <1>7 DEF Numbers
<1> QED
  BY <1>2, <1>3, <1>4, <1>8 DEF Chain

(* Putting a block in front of the first and linking it there makes it the *)
(* first.                                                                  *)
LEMMA ChainPush ==
  ASSUME NEW S, IsFiniteSet(S), NEW first, NEW last, NEW b, b \notin S,
         NEW link, NEW link2,
         Chain(link, S, first, last),
         link2[b] = first,
         \A c \in S : link2[c] = link[c]
  PROVE  Chain(link2, S \cup {b}, b, last)
<1> DEFINE n == Cardinality(S)
           T == S \cup {b}
<1>1. PICK pos \in [S -> 1 .. n] : Numbers(pos, link, S, first, last)
  BY DEF Chain
<1>2. n \in Nat /\ Cardinality(T) = n + 1
  BY FS_AddElement, FS_CardinalityType
<1> DEFINE pos2 == [c \in T |-> IF c = b THEN 1 ELSE pos[c] + 1]
<1>3. first \in S /\ last \in S /\ link2[last] = last
  BY DEF Chain
<1>4. pos[last] = n
  BY <1>1 DEF Numbers
<1> HIDE DEF n
<1>5. pos2 \in [T -> 1 .. n + 1]
  BY <1>1, <1>2
<1>6. pos2[b] = 1 /\ pos2[last] = n + 1
  BY <1>3, <1>4
<1>7. \A c, d \in T : pos2[c] = pos2[d] => c = d
  BY <1>1, <1>2 DEF Numbers
<1>8. \A c \in T \ {last} : link2[c] \in T /\ pos2[link2[c]] = pos2[c] + 1
  <2> TAKE c \in T \ {last}
  <2>1. CASE c = b
    BY <2>1, <1>1, <1>3 DEF Numbers
  <2>2. CASE c # b
    BY <2>2, <1>1, <1>3 DEF Numbers
  <2> QED BY <2>1, <2>2
<1>9. Numbers(pos2, link2, T, b, last)
  BY <1>2, <1>6, <1>7, <1>8 DEF Numbers
<1> QED
  BY <1>2, <1>3, <1>5, <1>9 DEF Chain

(* A block other than the last is followed by another one.                 *)
LEMMA ChainSuccessor ==
  ASSUME NEW S, NEW first, NEW last, NEW link, NEW b \in S,
         IsFiniteSet(S), Chain(link, S, first, last), b # last
  PROVE  link[b] \in S /\ link[b] # b
<1>1. PICK pos \in [S -> 1 .. Cardinality(S)] :
         Numbers(pos, link, S, first, last)
  BY DEF Chain
<1>2. Cardinality(S) \in Nat
  BY FS_CardinalityType
<1> QED
  BY <1>1, <1>2 DEF Numbers

(* A chain whose first block is also its last has no other block.          *)
LEMMA ChainSingleton ==
  ASSUME NEW S, NEW last, NEW link,
         IsFiniteSet(S), Chain(link, S, last, last)
  PROVE  S = {last}
<1>1. PICK pos \in [S -> 1 .. Cardinality(S)] :
         Numbers(pos, link, S, last, last)
  BY DEF Chain
<1>2. Cardinality(S) = 1 /\ last \in S
  BY <1>1 DEF Numbers, Chain
<1>3. \A b \in S : pos[b] = 1
  BY <1>1, <1>2
<1> QED
  BY <1>1, <1>2, <1>3 DEF Numbers

(* Unlinking a block other than the last: the block before it, if any, is  *)
(* linked to the one after it, or the one after it becomes the first.      *)
LEMMA ChainUnlink ==
  ASSUME NEW S, IsFiniteSet(S), NEW first, NEW last, NEW b \in S, b # last,
         NEW link, NEW link2, NEW first2,
         Chain(link, S, first, last),
         \/ /\ b = first /\ first2 = link[b]
            /\ \A c \in S \ {b} : link2[c] = link[c]
         \/ /\ b # first /\ first2 = first
            /\ \E pre \in S \ {b} :
                 /\ link[pre] = b /\ link2[pre] = link[b]
                 /\ \A c \in S \ {b, pre} : link2[c] = link[c]
  PROVE  Chain(link2, S \ {b}, first2, last)
<1> DEFINE n == Cardinality(S)
           T == S \ {b}
<1>1. PICK pos \in [S -> 1 .. n] : Numbers(pos, link, S, first, last)
  BY DEF Chain
<1>2. n \in Nat /\ Cardinality(T) = n - 1
  BY FS_RemoveElement, FS_CardinalityType
<1>3. first \in S /\ last \in S /\ link[last] = last /\ pos[last] = n /\ pos[first] = 1
  BY <1>1 DEF Chain, Numbers
<1> DEFINE pos2 == [c \in T |-> IF pos[c] > pos[b] THEN pos[c] - 1 ELSE pos[c]]
<1>4. link[b] \in T /\ pos[link[b]] = pos[b] + 1
  BY <1>1, <1>2 DEF Numbers
<1> HIDE DEF n
<1>5. \A c, d \in S : pos[c] = pos[d] => c = d
  BY <1>1 DEF Numbers
<1>6. pos2 \in [T -> 1 .. n - 1]
  <2> SUFFICES ASSUME NEW c \in T
               PROVE  (IF pos[c] > pos[b] THEN pos[c] - 1 ELSE pos[c]) \in 1 .. n - 1
    OBVIOUS
  <2>1. pos[c] \in 1 .. n /\ pos[b] \in 1 .. n /\ pos[c] # pos[b]
    BY <1>1, <1>5
  <2> QED
    BY <2>1, <1>2
<1>7. \A c, d \in T : pos2[c] = pos2[d] => c = d
  <2> TAKE c, d \in T
  <2>1. /\ pos[c] \in 1 .. n /\ pos[d] \in 1 .. n /\ pos[b] \in 1 .. n
        /\ pos[c] # pos[b] /\ pos[d] # pos[b]
    BY <1>1, <1>5
  <2> QED
    BY <2>1, <1>5, <1>2
<1>8. pos2[last] = n - 1 /\ last \in T
  BY <1>1, <1>2, <1>3, <1>5
<1>9. first2 \in T /\ pos2[first2] = 1
  <2>1. CASE b = first
    BY <2>1, <1>3, <1>4
  <2>2. CASE b # first
    BY <2>2, <1>1, <1>2, <1>3
  <2> QED BY <2>1, <2>2
<1>10. \A c \in S \ {last} : link[c] \in S /\ pos[link[c]] = pos[c] + 1
  BY <1>1 DEF Numbers
<1>11. ASSUME NEW c \in T \ {last}, link[c] # b, link2[c] = link[c]
       PROVE  link2[c] \in T /\ pos2[link2[c]] = pos2[c] + 1
  <2>1. link[c] \in T /\ pos[link[c]] = pos[c] + 1
    BY <1>10, <1>11
  <2>2. pos[c] \in 1 .. n /\ pos[b] \in 1 .. n /\ pos[link[c]] # pos[b]
    BY <1>1, <1>5, <1>10, <1>11
  <2>3. pos[c] # pos[b]
    BY <1>5
  <2> QED
    BY <2>1, <2>2, <2>3, <1>11, <1>2
<1>12. ASSUME NEW c \in T \ {last}, link[c] = b, link2[c] = link[b]
       PROVE  link2[c] \in T /\ pos2[link2[c]] = pos2[c] + 1
  <2>1. pos[b] = pos[c] + 1 /\ pos[c] \in 1 .. n
    BY <1>1, <1>10, <1>12
  <2> QED
    BY <2>1, <1>2, <1>4, <1>12
<1>13. \A c \in T \ {last} : link2[c] \in T /\ pos2[link2[c]] = pos2[c] + 1
  <2> TAKE c \in T \ {last}
  <2>1. CASE b = first
    <3>1. link[c] # b
      BY <2>1, <1>1, <1>3, <1>10
    <3> QED
      BY <3>1, <2>1, <1>11
  <2>2. CASE b # first
    <3>1. PICK pre \in S \ {b} :
            /\ link[pre] = b /\ link2[pre] = link[b]
            /\ \A d \in S \ {b, pre} : link2[d] = link[d]
      BY <2>2
    <3>2. CASE c = pre
      BY <3>1, <3>2, <1>12
    <3>3. CASE c # pre
      <4>1. pre # last
        BY <3>1, <1>3
      <4>2. link[c] # b
        <5>1. pos[c] \in 1 .. n /\ pos[pre] \in 1 .. n /\ pos[c] # pos[pre]
          BY <3>3, <1>1, <1>5
        <5>2. pos[link[pre]] = pos[pre] + 1 /\ pos[link[c]] = pos[c] + 1
          BY <4>1, <1>10
        <5> QED
          BY <5>1, <5>2, <3>1
      <4> QED
        BY <4>2, <3>1, <3>3, <1>11
    <3> QED BY <3>2, <3>3
  <2> QED BY <2>1, <2>2
<1>14. Numbers(pos2, link2, T, first2, last)
  BY <1>2, <1>7, <1>8, <1>9, <1>13 DEF Numbers
<1>15. link2[last] = last
  BY <1>3, <1>8
<1> QED
  BY <1>2, <1>6, <1>8, <1>9, <1>14, <1>15 DEF Chain

-----------------------------------------------------------------------------
(* The blocks of a chain are numbered without a gap.                       *)
LEMMA ChainNumbers ==
  ASSUME NEW S, IsFiniteSet(S), NEW first, NEW last, NEW link,
         NEW pos \in [S -> 1 .. Cardinality(S)], Numbers(pos, link, S, first, last)
  PROVE  \A k \in 1 .. Cardinality(S) : \E b \in S : pos[b] = k
<1> DEFINE n == Cardinality(S)
           image == {pos[b] : b \in S}
<1>1. n \in Nat /\ IsFiniteSet(1 .. n) /\ Cardinality(1 .. n) = n
  BY FS_CardinalityType, FS_Interval
<1>2. \A b, c \in S : pos[b] = pos[c] => b = c
  BY DEF Numbers
<1> DEFINE f == [b \in S |-> pos[b]]
<1>3. f \in Bijection(S, image)
  <2>1. f \in [S -> image]
    OBVIOUS
  <2>2. \A b, c \in S : f[b] = f[c] => b = c
    BY <1>2
  <2>3. \A y \in image : \E b \in S : f[b] = y
    OBVIOUS
  <2> HIDE DEF f, image
  <2> QED BY <2>1, <2>2, <2>3, Fun_IsBij
<1>4. Cardinality(image) = n
  <2>1. ExistsBijection(S, image)
    BY <1>3, Fun_ExistsBij
  <2> HIDE DEF image
  <2> QED BY <2>1, FS_Bijection
<1>5. image \in SUBSET (1 .. n)
  OBVIOUS
<1>6. image = 1 .. n
  <2> HIDE DEF image, n
  <2> QED BY <1>1, <1>4, <1>5, FS_Subset
<1> QED BY <1>6

(* A set of numbers has a least one.                                       *)
LEMMA Least ==
  ASSUME NEW N \in SUBSET Nat, N # {}
  PROVE  \E n \in N : \A y \in N : n <= y
<1> DEFINE Less == {ss \in Nat \X Nat : ss[1] < ss[2]}
<1>1. Less = OpToRel(<, Nat)
  BY DEF OpToRel
<1>2. IsWellFoundedOn(Less, Nat)
  BY <1>1, NatLessThanWellFounded
<1>3. PICK n \in N : \A y \in N : ~(<<y, n>> \in Less)
  <2> HIDE DEF Less
  <2> QED BY <1>2, WFMin
<1>4. ASSUME NEW y \in N PROVE n <= y
  <2>1. <<y, n>> \notin Less /\ y \in Nat /\ n \in Nat
    BY <1>3
  <2> QED BY <2>1
<1> QED BY <1>4

(* The walk that follows links from a block, m of them.                    *)
Follows(walk, m, first, link) ==
  walk = [k \in 0 .. m |-> IF k = 0 THEN first ELSE link[walk[k - 1]]]

(* Links can be followed from any block.                                   *)
LEMMA FollowedExists ==
  ASSUME NEW first, NEW link
  PROVE  \A m \in Nat : \E w : Follows(w, m, first, link)
<1> DEFINE N == {m \in Nat : ~ \E w : Follows(w, m, first, link)}
<1>1. SUFFICES ASSUME N # {} PROVE FALSE
  OBVIOUS
<1>2. PICK m \in N : \A y \in N : m <= y
  <2>1. N \in SUBSET Nat
    OBVIOUS
  <2> HIDE DEF N
  <2> QED BY <1>1, <2>1, Least
<1>3. m # 0
  <2>1. Follows([k \in 0 .. 0 |-> first], 0, first, link)
    BY DEF Follows
  <2> QED BY <2>1
<1>4. m - 1 \in Nat /\ ~(m <= m - 1) /\ m \in Nat
  BY <1>3
<1>5. PICK w : Follows(w, m - 1, first, link)
  BY <1>2, <1>4
<1> DEFINE v == [k \in 0 .. m |-> IF k = 0 THEN first ELSE link[w[k - 1]]]
<1>6. \A k \in 0 .. m - 1 : w[k] = IF k = 0 THEN first ELSE link[w[k - 1]]
  BY <1>5 DEF Follows
<1>7. ASSUME NEW k \in 0 .. m
      PROVE  v[k] = IF k = 0 THEN first ELSE link[v[k - 1]]
  <2>1. CASE k = 0
    BY <2>1
  <2>2. CASE k # 0
    <3>1. k - 1 \in 0 .. m - 1 /\ k - 1 \in 0 .. m
      BY <1>4, <2>2
    <3>2. v[k - 1] = w[k - 1]
      BY <1>6, <3>1
    <3> QED BY <2>2, <3>2
  <2> QED BY <2>1, <2>2
<1>8. v = [k \in 0 .. m |-> v[k]]
  OBVIOUS
<1> HIDE DEF v
<1>9. Follows(v, m, first, link)
  BY <1>7, <1>8 DEF Follows
<1> QED BY <1>2, <1>9

(* ... and in one way.                                                     *)
LEMMA FollowedOnce ==
  ASSUME NEW m \in Nat, NEW first, NEW link, NEW v, NEW w,
         Follows(v, m, first, link), Follows(w, m, first, link)
  PROVE  v = w
<1> DEFINE T == {k \in 0 .. m : v[k] # w[k]}
<1>1. v = [k \in 0 .. m |-> v[k]] /\ w = [k \in 0 .. m |-> w[k]]
  BY DEF Follows
<1>2. \A k \in 0 .. m : /\ v[k] = IF k = 0 THEN first ELSE link[v[k - 1]]
                        /\ w[k] = IF k = 0 THEN first ELSE link[w[k - 1]]
  BY DEF Follows
<1>3. SUFFICES ASSUME T # {} PROVE FALSE
  BY <1>1
<1>4. PICK k \in T : \A y \in T : k <= y
  <2>1. T \in SUBSET Nat
    OBVIOUS
  <2> HIDE DEF T
  <2> QED BY <1>3, <2>1, Least
<1>5. k # 0 /\ k \in 0 .. m
  BY <1>2
<1>6. k - 1 \in 0 .. m /\ ~(k <= k - 1)
  BY <1>5
<1>7. v[k - 1] = w[k - 1]
  BY <1>4, <1>6
<1> QED BY <1>2, <1>5, <1>7

-----------------------------------------------------------------------------
(* Lists that end at a known block, whatever that block is linked to.      *)

Strand(link, S, first, last) ==
  \E own : Chain(own, S, first, last) /\ \A c \in S \ {last} : own[c] = link[c]

LEMMA StrandOne ==
  ASSUME NEW x, NEW link
  PROVE  Strand(link, {x}, x, x)
<1> DEFINE own == [c \in {x} |-> x]
           pos == [c \in {x} |-> 1]
<1>1. Cardinality({x}) = 1
  BY FS_Singleton
<1>2. pos \in [{x} -> 1 .. Cardinality({x})] /\ Numbers(pos, own, {x}, x, x)
  BY <1>1 DEF Numbers
<1>3. Chain(own, {x}, x, x)
  BY <1>2 DEF Chain
<1> QED BY <1>3 DEF Strand

LEMMA StrandSame ==
  ASSUME NEW S, NEW first, NEW last, NEW link, NEW link2,
         Strand(link, S, first, last), \A c \in S : link2[c] = link[c]
  PROVE  Strand(link2, S, first, last)
BY DEF Strand

LEMMA StrandAppend ==
  ASSUME NEW S, IsFiniteSet(S), NEW first, NEW last, NEW b, b \notin S,
         NEW link, NEW link2, Strand(link, S, first, last),
         link2[last] = b, \A c \in S \ {last} : link2[c] = link[c]
  PROVE  Strand(link2, S \cup {b}, first, b)
<1>1. PICK own : Chain(own, S, first, last) /\ \A c \in S \ {last} : own[c] = link[c]
  BY DEF Strand
<1> DEFINE longer == [c \in S \cup {b} |-> IF c = last \/ c = b THEN b ELSE own[c]]
<1>2. last \in S
  BY <1>1 DEF Chain
<1>3. longer[last] = b /\ longer[b] = b /\ \A c \in S \ {last} : longer[c] = own[c]
  BY <1>2
<1> HIDE DEF longer
<1>4. Chain(longer, S \cup {b}, first, b)
  BY <1>1, <1>3, ChainAppend
<1>5. \A c \in (S \cup {b}) \ {b} : longer[c] = link2[c]
  BY <1>1, <1>3
<1> QED BY <1>4, <1>5 DEF Strand

(* Following the links up to the last block finds all of them.             *)
LEMMA StrandFollowed ==
  ASSUME NEW S, IsFiniteSet(S), NEW first, NEW last, NEW link, NEW m \in Nat,
         Strand(link, S, first, last), Cardinality(S) <= m,
         NEW w, Follows(w, m, first, link)
  PROVE  {w[k] : k \in {j \in 0 .. m : \A i \in 0 .. j - 1 : w[i] # last}} = S
<1> DEFINE n == Cardinality(S)
           D == {j \in 0 .. m : \A i \in 0 .. j - 1 : w[i] # last}
<1>1. PICK own : Chain(own, S, first, last) /\ \A c \in S \ {last} : own[c] = link[c]
  BY DEF Strand
<1>2. PICK pos \in [S -> 1 .. n] : Numbers(pos, own, S, first, last)
  BY <1>1 DEF Chain
<1>3. first \in S /\ last \in S /\ n \in Nat \ {0} /\ n <= m
  <2>1. first \in S /\ last \in S /\ n \in Nat
    BY <1>1, FS_CardinalityType DEF Chain
  <2>2. pos[first] \in 1 .. n
    BY <1>2, <2>1
  <2> QED BY <2>1, <2>2
<1>4. \A k \in 1 .. n : \E b \in S : pos[b] = k
  BY <1>2, ChainNumbers
<1>5. /\ pos[first] = 1 /\ pos[last] = n /\ \A b, c \in S : pos[b] = pos[c] => b = c
      /\ \A b \in S \ {last} : link[b] \in S /\ pos[link[b]] = pos[b] + 1
  BY <1>1, <1>2 DEF Numbers
<1> HIDE DEF n
<1>6. \A k \in 0 .. m : w[k] = IF k = 0 THEN first ELSE link[w[k - 1]]
  BY DEF Follows
<1>7. \A k \in 0 .. n - 1 : w[k] \in S /\ pos[w[k]] = k + 1
  <2> DEFINE N == {k \in 0 .. n - 1 : ~(w[k] \in S /\ pos[w[k]] = k + 1)}
  <2>1. SUFFICES ASSUME N # {} PROVE FALSE
    OBVIOUS
  <2>2. PICK k \in N : \A y \in N : k <= y
    <3>1. N \in SUBSET Nat
      BY <1>3
    <3> HIDE DEF N
    <3> QED BY <2>1, <3>1, Least
  <2>3. k \in 0 .. n - 1 /\ k \in 0 .. m /\ k \in Nat
    BY <1>3
  <2>4. k # 0
    <3>1. 0 \in 0 .. m /\ 0 + 1 = 1
      BY <1>3
    <3>2. w[0] = first
      BY <1>6, <3>1
    <3>3. w[0] \in S /\ pos[w[0]] = 0 + 1
      BY <1>3, <1>5, <3>1, <3>2
    <3> QED BY <3>3
  <2>5. k - 1 \in 0 .. n - 1 /\ ~(k <= k - 1)
    BY <1>3, <2>3, <2>4
  <2>6. w[k - 1] \in S /\ pos[w[k - 1]] = k - 1 + 1
    BY <2>2, <2>5
  <2>7. pos[w[k - 1]] = k /\ k # n
    BY <1>3, <2>3, <2>6
  <2>8. w[k - 1] # last
    BY <1>5, <2>7
  <2>9. w[k] = link[w[k - 1]]
    BY <1>6, <2>3, <2>4
  <2>10. w[k] \in S /\ pos[w[k]] = k + 1
    BY <1>5, <2>6, <2>7, <2>8, <2>9
  <2> QED BY <2>10
<1>8. D = 0 .. n - 1
  <2>1. ASSUME NEW j \in 0 .. m, j < n, NEW i \in 0 .. j - 1 PROVE w[i] # last
    <3>1. i \in 0 .. n - 1 /\ i + 1 # n
      BY <1>3, <2>1
    <3> QED BY <1>5, <1>7, <3>1
  <2>2. ASSUME NEW j \in 0 .. m, ~(j < n) PROVE \E i \in 0 .. j - 1 : w[i] = last
    <3>1. n - 1 \in 0 .. n - 1 /\ n - 1 \in 0 .. j - 1 /\ n - 1 + 1 = n
      BY <1>3, <2>2
    <3>2. w[n - 1] \in S /\ pos[w[n - 1]] = n
      BY <1>7, <3>1
    <3> QED BY <1>3, <1>5, <3>1, <3>2
  <2>3. \A j \in 0 .. m : j \in D <=> j < n
    BY <2>1, <2>2
  <2>4. \A j \in 0 .. n - 1 : j \in 0 .. m /\ j < n
    BY <1>3
  <2>5. \A j \in 0 .. m : j < n => j \in 0 .. n - 1
    BY <1>3
  <2>6. D \subseteq 0 .. m
    OBVIOUS
  <2> HIDE DEF D
  <2> QED BY <2>3, <2>4, <2>5, <2>6
<1>9. ASSUME NEW b \in S PROVE \E k \in 0 .. n - 1 : w[k] = b
  <2>1. pos[b] \in 1 .. n
    BY <1>2 DEF n
  <2>2. pos[b] - 1 \in 0 .. n - 1 /\ pos[b] - 1 + 1 = pos[b]
    BY <1>3, <2>1
  <2>3. w[pos[b] - 1] \in S /\ pos[w[pos[b] - 1]] = pos[b]
    BY <1>7, <2>2
  <2> QED BY <1>5, <2>2, <2>3
<1> HIDE DEF D
<1>10. {w[k] : k \in D} = S
  BY <1>7, <1>8, <1>9
<1> QED BY <1>10 DEF D

-----------------------------------------------------------------------------
(* Adding up what is kept for some blocks.                                 *)

(* g adds up f over the sets of D, taking out one element after the other. *)
Adds(g, f, D) == g = [T \in D |-> IF T = {} THEN 0 ELSE f[Some(T)] + g[T \ {Some(T)}]]

LEMMA SomeOfIt ==
  ASSUME NEW T, IsFiniteSet(T), T # {}
  PROVE  /\ Some(T) \in T /\ IsFiniteSet(T \ {Some(T)})
         /\ Cardinality(T) \in Nat \ {0}
         /\ Cardinality(T \ {Some(T)}) = Cardinality(T) - 1
<1>1. Some(T) \in T
  BY DEF Some
<1>2. /\ Cardinality(T \ {Some(T)}) = Cardinality(T) - 1 /\ IsFiniteSet(T \ {Some(T)})
      /\ Cardinality(T) \in Nat /\ Cardinality(T \ {Some(T)}) \in Nat
  BY <1>1, FS_RemoveElement, FS_CardinalityType
<1> QED BY <1>1, <1>2

LEMMA AddsExists ==
  ASSUME NEW S, IsFiniteSet(S), NEW f
  PROVE  \E g : Adds(g, f, SUBSET S)
<1> DEFINE Upto(n) == {T \in SUBSET S : Cardinality(T) <= n}
           N == {n \in Nat : ~ \E g : Adds(g, f, Upto(n))}
<1>1. \A T \in SUBSET S : IsFiniteSet(T) /\ Cardinality(T) \in Nat /\ Cardinality(T) <= Cardinality(S)
  BY FS_Subset, FS_CardinalityType
<1>2. N = {}
  <2>1. SUFFICES ASSUME N # {} PROVE FALSE
    OBVIOUS
  <2>2. PICK n \in N : \A y \in N : n <= y
    <3>1. N \in SUBSET Nat
      OBVIOUS
    <3> HIDE DEF N
    <3> QED BY <2>1, <3>1, Least
  <2>3. n # 0
    <3> DEFINE g == [T \in Upto(0) |-> 0]
    <3>1. \A T \in Upto(0) : T = {}
      BY <1>1, FS_EmptySet
    <3>2. Adds(g, f, Upto(0))
      <4>1. g = [T \in Upto(0) |-> IF T = {} THEN 0 ELSE f[Some(T)] + g[T \ {Some(T)}]]
        BY <3>1
      <4> QED BY <4>1 DEF Adds
    <3> QED BY <3>2
  <2>4. n - 1 \in Nat /\ ~(n <= n - 1) /\ n \in Nat
    BY <2>3
  <2>5. PICK g : Adds(g, f, Upto(n - 1))
    BY <2>2, <2>4
  <2> DEFINE h == [T \in Upto(n) |-> IF T = {} THEN 0 ELSE f[Some(T)] + g[T \ {Some(T)}]]
  <2>6. ASSUME NEW T \in Upto(n), T # {}
        PROVE  h[T \ {Some(T)}] = g[T \ {Some(T)}]
    <3> DEFINE R == T \ {Some(T)}
    <3>1. R \in Upto(n - 1) /\ R \in Upto(n)
      <4>1. T \in SUBSET S /\ Cardinality(T) <= n
        OBVIOUS
      <4>2. R \in SUBSET S /\ Cardinality(R) = Cardinality(T) - 1 /\ Cardinality(T) \in Nat
        BY <1>1, <2>6, <4>1, SomeOfIt
      <4>3. Cardinality(R) <= n - 1 /\ Cardinality(R) <= n
        BY <2>4, <4>1, <4>2
      <4> HIDE DEF R
      <4> QED BY <4>2, <4>3
    <3> HIDE DEF R, Upto
    <3>2. g[R] = IF R = {} THEN 0 ELSE f[Some(R)] + g[R \ {Some(R)}]
      BY <2>5, <3>1 DEF Adds
    <3>3. h[R] = IF R = {} THEN 0 ELSE f[Some(R)] + g[R \ {Some(R)}]
      BY <3>1
    <3> QED BY <3>2, <3>3 DEF R
  <2> HIDE DEF Upto
  <2>7. h = [T \in Upto(n) |-> IF T = {} THEN 0 ELSE f[Some(T)] + h[T \ {Some(T)}]]
    <3>1. \A T \in Upto(n) : h[T] = IF T = {} THEN 0 ELSE f[Some(T)] + h[T \ {Some(T)}]
      BY <2>6
    <3>2. h = [T \in Upto(n) |-> h[T]]
      OBVIOUS
    <3> HIDE DEF h
    <3> QED BY <3>1, <3>2
  <2>8. Adds(h, f, Upto(n))
    <3> HIDE DEF h
    <3> QED BY <2>7 DEF Adds
  <2> QED BY <2>2, <2>8
<1>3. Cardinality(S) \in Nat
  BY FS_CardinalityType
<1>4. Upto(Cardinality(S)) = SUBSET S
  BY <1>1
<1> HIDE DEF Upto
<1>5. \E g : Adds(g, f, Upto(Cardinality(S)))
  BY <1>2, <1>3
<1> QED BY <1>4, <1>5

(* It finds the same sum wherever the summands are the same.               *)
LEMMA AddsSame ==
  ASSUME NEW S, NEW S2, NEW f, NEW f2, NEW g, NEW g2,
         Adds(g, f, SUBSET S), Adds(g2, f2, SUBSET S2),
         NEW U, IsFiniteSet(U), U \subseteq S, U \subseteq S2, \A x \in U : f[x] = f2[x]
  PROVE  g[U] = g2[U]
<1> DEFINE N == {n \in Nat : \E T \in SUBSET U : Cardinality(T) = n /\ g[T] # g2[T]}
<1>1. \A T \in SUBSET U : IsFiniteSet(T) /\ Cardinality(T) \in Nat
  BY FS_Subset, FS_CardinalityType
<1>2. N = {}
  <2>1. SUFFICES ASSUME N # {} PROVE FALSE
    OBVIOUS
  <2>2. PICK n \in N : \A y \in N : n <= y
    <3>1. N \in SUBSET Nat
      OBVIOUS
    <3> HIDE DEF N
    <3> QED BY <2>1, <3>1, Least
  <2>3. PICK T \in SUBSET U : Cardinality(T) = n /\ g[T] # g2[T]
    OBVIOUS
  <2>4. /\ g[T] = IF T = {} THEN 0 ELSE f[Some(T)] + g[T \ {Some(T)}]
        /\ g2[T] = IF T = {} THEN 0 ELSE f2[Some(T)] + g2[T \ {Some(T)}]
    <3>1. T \in SUBSET S /\ T \in SUBSET S2
      OBVIOUS
    <3> QED BY <3>1 DEF Adds
  <2>5. T # {}
    BY <2>3, <2>4
  <2>6. /\ Some(T) \in T /\ n \in Nat \ {0}
        /\ Cardinality(T \ {Some(T)}) = n - 1
    BY <1>1, <2>3, <2>5, SomeOfIt
  <2>7. n - 1 \in Nat /\ ~(n <= n - 1)
    BY <2>6
  <2>8. g[T \ {Some(T)}] = g2[T \ {Some(T)}]
    <3>1. T \ {Some(T)} \in SUBSET U
      OBVIOUS
    <3> QED BY <2>2, <2>6, <2>7, <3>1
  <2> QED BY <2>3, <2>4, <2>5, <2>6, <2>8
<1>3. U \in SUBSET U
  OBVIOUS
<1> QED BY <1>1, <1>2, <1>3

Sums(g, f, D) ==
  \A T \in D : g[T] \in Nat /\ \A x \in T : g[T] = f[x] + g[T \ {x}]

(* ... and in whatever order the summands are taken.                       *)
LEMMA AddsAny ==
  ASSUME NEW S, IsFiniteSet(S), NEW f, \A x \in S : f[x] \in Nat, NEW g, Adds(g, f, SUBSET S)
  PROVE  Sums(g, f, SUBSET S)
<1> DEFINE Good(T) == g[T] \in Nat /\ \A x \in T : g[T] = f[x] + g[T \ {x}]
           N == {n \in Nat : \E T \in SUBSET S : Cardinality(T) = n /\ ~Good(T)}
<1>1. \A T \in SUBSET S : IsFiniteSet(T) /\ Cardinality(T) \in Nat
  BY FS_Subset, FS_CardinalityType
<1>2. \A T \in SUBSET S : g[T] = IF T = {} THEN 0 ELSE f[Some(T)] + g[T \ {Some(T)}]
  BY DEF Adds
<1>3. N = {}
  <2>1. SUFFICES ASSUME N # {} PROVE FALSE
    OBVIOUS
  <2>2. PICK n \in N : \A y \in N : n <= y
    <3>1. N \in SUBSET Nat
      OBVIOUS
    <3> HIDE DEF N
    <3> QED BY <2>1, <3>1, Least
  <2>3. PICK T \in SUBSET S : Cardinality(T) = n /\ ~Good(T)
    OBVIOUS
  <2>4. T # {}
    <3>1. T = {} => g[T] = 0
      BY <1>2
    <3> QED BY <2>3, <3>1
  <2> DEFINE a == Some(T)
  <2>5. a \in T /\ n \in Nat \ {0} /\ g[T] = f[a] + g[T \ {a}]
    BY <1>1, <1>2, <2>3, <2>4, SomeOfIt
  <2> HIDE DEF a
  <2>6. ASSUME NEW x \in T PROVE Good(T \ {x})
    <3>1. T \ {x} \in SUBSET S /\ Cardinality(T \ {x}) = n - 1
      BY <1>1, <2>3, FS_RemoveElement
    <3>2. n - 1 \in Nat /\ ~(n <= n - 1)
      BY <2>5
    <3> HIDE DEF Good
    <3> QED BY <2>2, <3>1, <3>2
  <2>7. g[T] \in Nat
    <3>1. f[a] \in Nat /\ g[T \ {a}] \in Nat
      BY <2>5, <2>6
    <3> QED BY <2>5, <3>1
  <2>8. ASSUME NEW x \in T, x # a PROVE g[T] = f[x] + g[T \ {x}]
    <3> DEFINE R == (T \ {a}) \ {x}
    <3>1. R = (T \ {x}) \ {a} /\ x \in T \ {a} /\ a \in T \ {x}
      BY <2>5, <2>8
    <3>2. g[T \ {a}] = f[x] + g[R]
      BY <2>5, <2>6, <3>1
    <3>3. g[T \ {x}] = f[a] + g[R]
      BY <2>6, <3>1
    <3>4. g[R] \in Nat
      <4>1. R \in SUBSET S /\ Cardinality(T \ {a}) = n - 1 /\ IsFiniteSet(T \ {a})
        BY <1>1, <2>3, <2>5, FS_RemoveElement
      <4>2. Cardinality(R) = n - 2 /\ Cardinality(R) \in Nat
        <5>1. Cardinality(R) = Cardinality(T \ {a}) - 1
          BY <3>1, <4>1, FS_RemoveElement
        <5>2. Cardinality(R) \in Nat
          BY <1>1, <4>1
        <5>3. n - 1 - 1 = n - 2
          BY <2>5
        <5> QED BY <4>1, <5>1, <5>2, <5>3
      <4>3. n - 2 \in Nat /\ ~(n <= n - 2)
        BY <2>5, <4>2
      <4> HIDE DEF R
      <4>4. Good(R)
        <5> HIDE DEF Good
        <5> QED BY <2>2, <4>1, <4>2, <4>3
      <4> QED BY <4>4
    <3>5. f[a] \in Nat /\ f[x] \in Nat
      BY <2>5
    <3> HIDE DEF R
    <3> QED BY <2>5, <3>2, <3>3, <3>4, <3>5
  <2> QED BY <2>3, <2>5, <2>7, <2>8
<1>4. \A T \in SUBSET S : Good(T)
  <2> HIDE DEF Good
  <2> QED BY <1>1, <1>3
<1> QED BY <1>4 DEF Sums

LEMMA TotalAdds ==
  ASSUME NEW S, NEW f
  PROVE  Total(f, S) = (CHOOSE g : Adds(g, f, SUBSET S))[S]
BY DEF Total, Adds

LEMMA TotalIs ==
  ASSUME NEW S, IsFiniteSet(S), NEW f
  PROVE  \E g : Adds(g, f, SUBSET S) /\ Total(f, S) = g[S]
<1> DEFINE g == CHOOSE g : Adds(g, f, SUBSET S)
<1>1. Adds(g, f, SUBSET S)
  BY AddsExists
<1>2. Total(f, S) = g[S]
  BY TotalAdds
<1> HIDE DEF g
<1> QED BY <1>1, <1>2

LEMMA TotalSame ==
  ASSUME NEW S, IsFiniteSet(S), NEW f, NEW f2, \A x \in S : f2[x] = f[x]
  PROVE  Total(f2, S) = Total(f, S)
<1>1. PICK g : Adds(g, f, SUBSET S) /\ Total(f, S) = g[S]
  BY TotalIs
<1>2. PICK g2 : Adds(g2, f2, SUBSET S) /\ Total(f2, S) = g2[S]
  BY TotalIs
<1> QED BY <1>1, <1>2, AddsSame

LEMMA TotalAdd ==
  ASSUME NEW S, IsFiniteSet(S), NEW b, b \notin S, NEW f, \A x \in S \cup {b} : f[x] \in Nat
  PROVE  /\ Total(f, S \cup {b}) = f[b] + Total(f, S)
         /\ Total(f, S) \in Nat
<1>1. PICK T : T = S \cup {b}
  OBVIOUS
<1>2. IsFiniteSet(T) /\ \A x \in T : f[x] \in Nat
  BY <1>1, FS_AddElement
<1>3. S \in SUBSET T /\ T \in SUBSET T /\ b \in T /\ T \ {b} = S
  BY <1>1
<1>4. PICK g : Adds(g, f, SUBSET S) /\ Total(f, S) = g[S]
  BY TotalIs
<1>5. PICK h : Adds(h, f, SUBSET T) /\ Total(f, T) = h[T]
  BY <1>2, TotalIs
<1>6. Sums(h, f, SUBSET T)
  BY <1>2, <1>5, AddsAny
<1>7. h[T] = f[b] + h[S] /\ h[S] \in Nat
  BY <1>3, <1>6 DEF Sums
<1>8. h[S] = g[S]
  BY <1>3, <1>4, <1>5, AddsSame
<1> QED BY <1>1, <1>4, <1>5, <1>7, <1>8

LEMMA TotalNone ==
  ASSUME NEW f
  PROVE  Total(f, {}) = 0
<1> DEFINE g == CHOOSE g : Adds(g, f, SUBSET {})
<1>1. Adds(g, f, SUBSET {})
  BY FS_EmptySet, AddsExists
<1>2. Total(f, {}) = g[{}]
  BY TotalAdds
<1> HIDE DEF g
<1> QED BY <1>1, <1>2 DEF Adds

LEMMA TotalNat ==
  ASSUME NEW S, IsFiniteSet(S), NEW f, \A x \in S : f[x] \in Nat
  PROVE  Total(f, S) \in Nat
<1>1. PICK g : Adds(g, f, SUBSET S) /\ Total(f, S) = g[S]
  BY TotalIs
<1>2. Sums(g, f, SUBSET S)
  BY <1>1, AddsAny
<1>3. S \in SUBSET S
  OBVIOUS
<1> QED BY <1>1, <1>2, <1>3 DEF Sums

LEMMA TotalOne ==
  ASSUME NEW b, NEW f, f[b] \in Nat
  PROVE  Total(f, {b}) = f[b]
<1>1. {} \cup {b} = {b} /\ IsFiniteSet({}) /\ b \notin {}
  BY FS_EmptySet
<1>2. Total(f, {} \cup {b}) = f[b] + Total(f, {}) /\ Total(f, {}) \in Nat
  BY <1>1, TotalAdd
<1> QED BY <1>1, <1>2, TotalNone

LEMMA TotalRaise ==
  ASSUME NEW S, IsFiniteSet(S), NEW b \in S, NEW f, NEW f2,
         \A x \in S : f[x] \in Nat, f2[b] = f[b] + 1, \A x \in S \ {b} : f2[x] = f[x]
  PROVE  Total(f2, S) = Total(f, S) + 1
<1> DEFINE R == S \ {b}
<1>1. IsFiniteSet(R) /\ b \notin R /\ R \cup {b} = S
  BY FS_RemoveElement
<1>2. \A x \in R : f2[x] = f[x] /\ f[x] \in Nat
  OBVIOUS
<1> HIDE DEF R
<1>3. f[b] \in Nat /\ \A x \in R \cup {b} : f[x] \in Nat /\ f2[x] \in Nat
  BY <1>1, <1>2
<1>4. Total(f, S) = f[b] + Total(f, R) /\ Total(f, R) \in Nat
  BY <1>1, <1>3, TotalAdd
<1>5. Total(f2, S) = f2[b] + Total(f2, R)
  BY <1>1, <1>3, TotalAdd
<1>6. Total(f2, R) = Total(f, R)
  BY <1>1, <1>2, TotalSame
<1> QED BY <1>3, <1>4, <1>5, <1>6

(* More summands add up to no less.                                        *)
LEMMA TotalMonotone ==
  ASSUME NEW B, IsFiniteSet(B), NEW A \in SUBSET B, NEW f, \A x \in B : f[x] \in Nat
  PROVE  Total(f, A) <= Total(f, B)
<1>1. PICK h : Adds(h, f, SUBSET B) /\ Total(f, B) = h[B]
  BY TotalIs
<1>2. Sums(h, f, SUBSET B)
  BY <1>1, AddsAny
<1>3. IsFiniteSet(A) /\ \A T \in SUBSET B : IsFiniteSet(T) /\ Cardinality(T) \in Nat
  BY FS_Subset, FS_CardinalityType
<1>4. PICK g : Adds(g, f, SUBSET A) /\ Total(f, A) = g[A]
  BY <1>3, TotalIs
<1>5. h[A] = g[A]
  <2>1. A \subseteq B /\ A \subseteq A /\ \A x \in A : f[x] = f[x]
    OBVIOUS
  <2>2. IsFiniteSet(A) /\ Adds(h, f, SUBSET B) /\ Adds(g, f, SUBSET A)
    BY <1>1, <1>3, <1>4
  <2> QED BY ONLY <2>1, <2>2, AddsSame
<1> DEFINE Less(T) == A \subseteq T /\ ~(h[A] <= h[T])
           N == {n \in Nat : \E T \in SUBSET B : Cardinality(T) = n /\ Less(T)}
<1>6. N = {}
  <2>1. SUFFICES ASSUME N # {} PROVE FALSE
    OBVIOUS
  <2>2. PICK n \in N : \A y \in N : n <= y
    <3>1. N \in SUBSET Nat
      OBVIOUS
    <3> HIDE DEF N
    <3> QED BY <2>1, <3>1, Least
  <2>3. PICK T \in SUBSET B : Cardinality(T) = n /\ Less(T)
    OBVIOUS
  <2>4. h[T] \in Nat /\ h[A] \in Nat
    BY <1>2 DEF Sums
  <2>5. PICK x \in T : x \notin A
    BY <2>3, <2>4
  <2>6. T \ {x} \in SUBSET B /\ Cardinality(T \ {x}) = n - 1 /\ A \subseteq T \ {x}
    BY <1>3, <2>3, <2>5, FS_RemoveElement
  <2>7. h[T] = f[x] + h[T \ {x}] /\ f[x] \in Nat /\ h[T \ {x}] \in Nat
    BY <1>2, <2>6 DEF Sums
  <2>8. Less(T \ {x})
    BY <2>3, <2>4, <2>6, <2>7
  <2>9. n - 1 \in N /\ ~(n <= n - 1)
    <3>1. Cardinality(T \ {x}) \in Nat
      BY <1>3, <2>6
    <3> HIDE DEF Less
    <3> QED BY <2>6, <2>8, <3>1
  <2> HIDE DEF N
  <2> QED BY <2>2, <2>9
<1>7. ~Less(B)
  <2>1. Cardinality(B) \in Nat /\ B \in SUBSET B
    BY <1>3
  <2> HIDE DEF Less
  <2> QED BY <1>6, <2>1
<1> QED BY <1>1, <1>4, <1>5, <1>7

-----------------------------------------------------------------------------
(* Things of some length at places, and what is in front of each.          *)
InFront(S, p) == {q \in S : q < p}

(* Places below a bound have a greatest one.                               *)
LEMMA Greatest ==
  ASSUME NEW m \in Nat, NEW S \in SUBSET (0 .. m), S # {}
  PROVE  \E p \in S : \A q \in S : q <= p
<1> DEFINE N == {m - p : p \in S}
<1>0. \A p \in S : p \in 0 .. m /\ m - p \in Nat
  OBVIOUS
<1>1. N \in SUBSET Nat /\ N # {}
  <2>1. \A n \in N : n \in Nat
    BY <1>0
  <2>2. N # {}
    OBVIOUS
  <2> HIDE DEF N
  <2> QED BY <2>1, <2>2
<1>2. PICK n \in N : \A y \in N : n <= y
  <2> HIDE DEF N
  <2> QED BY <1>1, Least
<1>3. PICK p \in S : n = m - p
  OBVIOUS
<1>4. ASSUME NEW q \in S PROVE q <= p
  <2>1. n <= m - q
    BY <1>2
  <2>2. q \in 0 .. m /\ p \in 0 .. m
    BY <1>0
  <2> QED BY ONLY <1>3, <2>1, <2>2, m \in Nat
<1> QED BY <1>4

(* Put one behind the other they do not overlap.                           *)
LEMMA InFrontApart ==
  ASSUME NEW S \in SUBSET Nat, IsFiniteSet(S), NEW f, \A x \in S : f[x] \in Nat,
         NEW p \in S
  PROVE  /\ Total(f, InFront(S, p)) \in Nat /\ Total(f, S) \in Nat
         /\ Total(f, InFront(S, p)) + f[p] <= Total(f, S)
         /\ \A q \in S : p < q =>
              Total(f, InFront(S, p)) + f[p] <= Total(f, InFront(S, q))
<1> DEFINE P == InFront(S, p)
<1>1. P \in SUBSET S /\ p \notin P
  BY DEF InFront
<1>2. IsFiniteSet(P)
  BY <1>1, FS_Subset
<1>3. Total(f, P \cup {p}) = f[p] + Total(f, P) /\ Total(f, P) \in Nat
  BY <1>1, <1>2, TotalAdd
<1>4. P \cup {p} \in SUBSET S
  BY <1>1
<1>5. Total(f, P \cup {p}) <= Total(f, S) /\ Total(f, S) \in Nat
  BY <1>4, TotalMonotone, TotalNat
<1>6. ASSUME NEW q \in S, p < q
      PROVE  Total(f, P) + f[p] <= Total(f, InFront(S, q))
  <2>1. P \cup {p} \in SUBSET InFront(S, q)
    <3>1. \A x \in S : x < p => x < q
      <4>1. \A x \in S : x \in Int
        OBVIOUS
      <4> QED BY <1>6, <4>1
    <3> QED BY <1>6, <3>1 DEF InFront
  <2>2. InFront(S, q) \in SUBSET S
    BY DEF InFront
  <2>3. IsFiniteSet(InFront(S, q)) /\ \A x \in InFront(S, q) : f[x] \in Nat
    BY <2>2, FS_Subset
  <2>4. Total(f, P \cup {p}) <= Total(f, InFront(S, q))
    BY <2>1, <2>3, TotalMonotone
  <2>5. f[p] \in Nat
    OBVIOUS
  <2> QED BY <1>3, <2>4, <2>5
<1>7. f[p] \in Nat
  OBVIOUS
<1> QED BY <1>3, <1>5, <1>6, <1>7

(* ... and leave no gap.                                                   *)
LEMMA InFrontNext ==
  ASSUME NEW S \in SUBSET Nat, IsFiniteSet(S),
         NEW f, \A x \in S : f[x] \in Nat, NEW p \in S
  PROVE  \/ Total(f, InFront(S, p)) + f[p] = Total(f, S)
         \/ \E q \in S : p < q /\ Total(f, InFront(S, p)) + f[p] = Total(f, InFront(S, q))
<1> DEFINE P == InFront(S, p)
           R == {q \in S : p < q}
<1>1. P \in SUBSET S /\ p \notin P
  BY DEF InFront
<1>2. IsFiniteSet(P)
  BY <1>1, FS_Subset
<1>3. Total(f, P \cup {p}) = f[p] + Total(f, P) /\ Total(f, P) \in Nat /\ f[p] \in Nat
  BY <1>1, <1>2, TotalAdd
<1>4. CASE R = {}
  <2>1. P \cup {p} = S
    <3>1. \A x \in S : x < p \/ x = p
      <4>1. \A x \in S : x \in Int /\ ~(p < x)
        BY <1>4
      <4> QED BY <4>1
    <3> QED BY <3>1 DEF InFront
  <2> QED BY <1>3, <2>1
<1>5. CASE R # {}
  <2>1. PICK q \in R : \A y \in R : q <= y
    <3>1. R \subseteq S /\ S \subseteq Nat
      OBVIOUS
    <3> HIDE DEF R
    <3> QED BY <1>5, <3>1, Least
  <2>2. q \in S /\ p < q
    OBVIOUS
  <2>3. InFront(S, q) = P \cup {p}
    <3>1. ASSUME NEW x \in S PROVE x < q <=> (x < p \/ x = p)
      <4>1. x > p => q <= x
        BY <2>1
      <4>2. x \in Int /\ p \in Int /\ q \in Int
        BY <2>2
      <4> HIDE DEF R
      <4> QED BY <2>2, <4>1, <4>2
    <3> QED BY <3>1 DEF InFront
  <2> HIDE DEF R, P
  <2>4. Total(f, P) + f[p] = Total(f, InFront(S, q))
    BY <1>3, <2>3
  <2> QED BY <2>2, <2>4 DEF P
<1> QED BY <1>4, <1>5

(* What was apart and begins behind `from' moves only to the front.        *)
LEMMA InFrontBelow ==
  ASSUME NEW m \in Nat, NEW S \in SUBSET (0 .. m), IsFiniteSet(S),
         NEW f, \A x \in S : f[x] \in Nat, NEW from \in Nat, \A x \in S : from <= x,
         \A x, y \in S : x < y => x + f[x] <= y
  PROVE  \A p \in S : from + Total(f, InFront(S, p)) <= p
<1> DEFINE N == {p \in S : ~(from + Total(f, InFront(S, p)) <= p)}
<1>1. SUFFICES ASSUME N # {} PROVE FALSE
  OBVIOUS
<1>2. PICK p \in N : \A y \in N : p <= y
  <2>1. N \subseteq S /\ S \subseteq Nat
    OBVIOUS
  <2> HIDE DEF N
  <2> QED BY <1>1, <2>1, Least
<1> DEFINE P == InFront(S, p)
<1>3. p \in S /\ p \in Nat /\ P \in SUBSET S /\ P \in SUBSET (0 .. m) /\ IsFiniteSet(P)
  <2>1. P \in SUBSET S
    BY DEF InFront
  <2>2. p \in S /\ S \subseteq 0 .. m /\ 0 .. m \subseteq Nat
    OBVIOUS
  <2> HIDE DEF P
  <2> QED BY <2>1, <2>2, FS_Subset
<1>4. P # {}
  <2>1. P = {} => Total(f, P) = 0
    BY TotalNone
  <2>2. from <= p
    BY <1>3
  <2> QED BY <1>2, <2>1, <2>2
<1>5. PICK q \in P : \A y \in P : y <= q
  BY <1>3, <1>4, Greatest
<1>6. q \in S /\ q < p /\ q \in Nat
  BY <1>5 DEF InFront
<1>7. P = InFront(S, q) \cup {q} /\ q \notin InFront(S, q)
  <2>1. ASSUME NEW x \in S PROVE x < p <=> (x < q \/ x = q)
    <3>1. x < p => x <= q
      BY <1>5 DEF InFront
    <3>2. x \in Int /\ p \in Int /\ q \in Int
      BY <1>3, <1>6
    <3> QED BY <1>6, <3>1, <3>2
  <2>2. ~(q < q)
    BY <1>6
  <2> QED BY <1>6, <2>1, <2>2 DEF InFront
<1>8. from + Total(f, InFront(S, q)) <= q
  <2>1. q \notin N
    BY <1>2, <1>3, <1>6
  <2> QED BY <1>6, <2>1
<1>9. IsFiniteSet(InFront(S, q)) /\ \A x \in InFront(S, q) \cup {q} : f[x] \in Nat
  <2>1. InFront(S, q) \in SUBSET S
    BY DEF InFront
  <2> QED BY <1>6, <2>1, FS_Subset
<1>10. Total(f, P) = f[q] + Total(f, InFront(S, q)) /\ Total(f, InFront(S, q)) \in Nat
  BY <1>7, <1>9, TotalAdd
<1>11. q + f[q] <= p /\ f[q] \in Nat
  BY <1>3, <1>6
<1>12. from + Total(f, P) <= p
  <2> HIDE DEF P, N
  <2> QED BY <1>3, <1>6, <1>8, <1>10, <1>11
<1> QED BY <1>2, <1>12

-----------------------------------------------------------------------------
(* Sequences put one behind the other.                                     *)
Flattens(f, n, seqs) ==
  f = [i \in 1 .. n |-> IF i = 1 THEN seqs[i] ELSE f[i - 1] \o seqs[i]]

(* Its recursion exists for every number of sequences.                     *)
LEMMA FlattensExists ==
  ASSUME NEW seqs
  PROVE  \A n \in Nat \ {0} : \E f : Flattens(f, n, seqs)
<1> DEFINE N == {n \in Nat \ {0} : ~ \E f : Flattens(f, n, seqs)}
<1>1. SUFFICES ASSUME N # {} PROVE FALSE
  OBVIOUS
<1>2. PICK n \in N : \A y \in N : n <= y
  <2>1. N \in SUBSET Nat
    OBVIOUS
  <2> HIDE DEF N
  <2> QED BY <1>1, <2>1, Least
<1>3. n # 1
  <2>1. Flattens([i \in 1 .. 1 |-> seqs[i]], 1, seqs)
    BY DEF Flattens
  <2> QED BY <2>1
<1>4. n - 1 \in Nat \ {0} /\ ~(n <= n - 1)
  BY <1>3
<1>5. PICK f : Flattens(f, n - 1, seqs)
  BY <1>2, <1>4
<1> DEFINE Next1(m) == IF m = 1 THEN seqs[m] ELSE f[m - 1] \o seqs[m]
           g == [m \in 1 .. n |-> Next1(m)]
<1>6. \A m \in 1 .. n - 1 : f[m] = Next1(m)
  BY <1>5 DEF Flattens
<1>7. ASSUME NEW m \in 1 .. n
      PROVE  g[m] = IF m = 1 THEN seqs[m] ELSE g[m - 1] \o seqs[m]
  <2>1. CASE m = 1
    BY <2>1
  <2>2. CASE m # 1
    <3>1. m - 1 \in 1 .. n - 1 /\ m - 1 \in 1 .. n
      BY <1>4, <2>2
    <3>2. g[m - 1] = f[m - 1]
      BY <1>6, <3>1
    <3> QED BY <2>2, <3>2
  <2> QED BY <2>1, <2>2
<1>8. g = [m \in 1 .. n |-> g[m]]
  OBVIOUS
<1> HIDE DEF g
<1>9. Flattens(g, n, seqs)
  BY <1>7, <1>8 DEF Flattens
<1> QED BY <1>2, <1>9

(* rows is the first n sequences, of which the i-th begins behind at[i].   *)
Joins(rows, at, n, seqs) ==
  /\ at \in [1 .. n + 1 -> Nat] /\ at[1] = 0
  /\ \A i \in 1 .. n : at[i + 1] = at[i] + Len(seqs[i])
  /\ Len(rows) = at[n + 1]
  /\ \A i \in 1 .. n : \A s \in 1 .. Len(seqs[i]) : rows[at[i] + s] = seqs[i][s]

(* One sequence joined is itself.                                          *)
LEMMA JoinsOne ==
  ASSUME NEW V, NEW seqs, seqs[1] \in Seq(V)
  PROVE  \E at : Joins(seqs[1], at, 1, seqs)
<1> DEFINE at == [i \in 1 .. 1 + 1 |-> IF i = 1 THEN 0 ELSE Len(seqs[1])]
<1>1. /\ at \in [1 .. 1 + 1 -> Nat] /\ at[1] = 0 /\ at[1 + 1] = Len(seqs[1])
      /\ Len(seqs[1]) \in Nat
  OBVIOUS
<1> HIDE DEF at
<1>2. \A i \in 1 .. 1 : i = 1
  OBVIOUS
<1>3. \A i \in 1 .. 1 : at[i + 1] = at[i] + Len(seqs[i])
  BY <1>1, <1>2
<1>4. ASSUME NEW i \in 1 .. 1, NEW s \in 1 .. Len(seqs[i]) PROVE seqs[1][at[i] + s] = seqs[i][s]
  <2>1. i = 1 /\ at[i] + s = s
    BY <1>1, <1>2
  <2> QED BY <2>1
<1> QED BY <1>1, <1>3, <1>4 DEF Joins

(* A place in a part is a place in the whole.                              *)
LEMMA PlaceWithin ==
  ASSUME NEW x \in Nat, NEW y \in Nat, NEW l \in Nat, x + l <= y, NEW s \in 1 .. l
  PROVE  x + s \in 1 .. y
OBVIOUS

(* One sequence more goes behind the others.                               *)
LEMMA JoinsMore ==
  ASSUME NEW V, NEW n \in Nat \ {0}, NEW seqs, NEW rows \in Seq(V), NEW at,
         Joins(rows, at, n, seqs), seqs[n + 1] \in Seq(V),
         \A i \in 1 .. n : seqs[i] \in Seq(V)
  PROVE  \E at2 : Joins(rows \o seqs[n + 1], at2, n + 1, seqs)
<1>1. PICK m : m = n + 1
  OBVIOUS
<1>2. PICK t \in Seq(V) : t = seqs[m]
  BY <1>1
<1>3. PICK all : all = rows \o t
  OBVIOUS
<1>4. /\ m \in Nat /\ m \in 1 .. m /\ Len(rows) = at[m] /\ Len(rows) \in Nat /\ Len(t) \in Nat
      /\ at \in [1 .. m -> Nat] /\ at[1] = 0 /\ 1 \in 1 .. m
  BY <1>1 DEF Joins
<1>5. Len(all) = at[m] + Len(t)
  BY <1>3, <1>4
<1>6. /\ \A j \in 1 .. Len(rows) : all[j] = rows[j]
      /\ \A s \in 1 .. Len(t) : all[Len(rows) + s] = t[s]
  <2>1. \A j \in 1 .. Len(rows) : all[j] = rows[j]
    BY <1>3, ConcatProperties
  <2>2. ASSUME NEW s \in 1 .. Len(t) PROVE all[Len(rows) + s] = t[s]
    <3>1. /\ Len(rows) + s \in 1 .. Len(rows) + Len(t) /\ ~(Len(rows) + s <= Len(rows))
          /\ Len(rows) + s - Len(rows) = s
      BY <1>4
    <3> QED BY <1>3, <3>1, ConcatProperties
  <2> QED BY <2>1, <2>2
<1> DEFINE at2 == [i \in 1 .. m + 1 |-> IF i = m + 1 THEN at[m] + Len(t) ELSE at[i]]
<1>7. at2 \in [1 .. m + 1 -> Nat]
  <2> SUFFICES ASSUME NEW i \in 1 .. m + 1
               PROVE  (IF i = m + 1 THEN at[m] + Len(t) ELSE at[i]) \in Nat
    OBVIOUS
  <2> QED BY <1>4
<1>8. at2[m + 1] = at[m] + Len(t) /\ \A i \in 1 .. m : at2[i] = at[i]
  BY <1>4
<1> HIDE DEF at2
<1>9. ASSUME NEW i \in 1 .. m PROVE at2[i + 1] = at2[i] + Len(seqs[i])
  <2>1. CASE i = m
    BY <1>2, <1>4, <1>8, <2>1
  <2>2. CASE i # m
    <3>1. i \in 1 .. n /\ i + 1 \in 1 .. m
      BY <1>1, <2>2
    <3> QED BY <1>8, <3>1 DEF Joins
  <2> QED BY <2>1, <2>2
<1>10. ASSUME NEW i \in 1 .. n, NEW j \in i + 1 .. m PROVE at[i + 1] <= at[j]
  <2> DEFINE N == {k \in i + 1 .. m : ~(at[i + 1] <= at[k])}
  <2>1. SUFFICES ASSUME N # {} PROVE FALSE
    OBVIOUS
  <2>2. PICK k \in N : \A y \in N : k <= y
    <3>1. N \in SUBSET Nat
      OBVIOUS
    <3> HIDE DEF N
    <3> QED BY <2>1, <3>1, Least
  <2>3. k # i + 1
    <3>1. at[i + 1] \in Nat
      BY <1>1, <1>4
    <3> QED BY <3>1
  <2>4. PICK l \in i + 1 .. m : k = l + 1 /\ ~(k <= l) /\ l \in 1 .. n
    <3>1. k - 1 \in i + 1 .. m /\ k = (k - 1) + 1 /\ ~(k <= k - 1) /\ k - 1 \in 1 .. n
      BY <1>1, <2>3
    <3> QED BY <3>1
  <2>5. at[i + 1] <= at[l]
    BY <2>2, <2>4
  <2>6. at[k] = at[l] + Len(seqs[l])
    BY <2>4 DEF Joins
  <2>7. at[l] \in Nat /\ at[i + 1] \in Nat /\ at[k] \in Nat /\ Len(seqs[l]) \in Nat
    <3>1. l \in 1 .. m /\ i + 1 \in 1 .. m /\ k \in 1 .. m
      BY <1>1, <2>4
    <3>2. seqs[l] \in Seq(V)
      BY <2>4
    <3> QED BY <1>4, <3>1, <3>2
  <2>8. \A x, y, z, t0 \in Nat : x <= y /\ z = y + t0 => x <= z
    OBVIOUS
  <2>9. at[i + 1] <= at[k]
    BY <2>5, <2>6, <2>7, <2>8
  <2> QED BY <2>2, <2>9
<1>11. ASSUME NEW i \in 1 .. m, NEW s \in 1 .. Len(seqs[i])
       PROVE  all[at2[i] + s] = seqs[i][s]
  <2>1. CASE i = m
    <3>1. at2[i] = Len(rows) /\ seqs[i] = t
      BY <1>2, <1>4, <1>8, <2>1
    <3> QED BY <1>6, <3>1
  <2>2. CASE i # m
    <3>1. i \in 1 .. n /\ i + 1 \in 1 .. m /\ m \in i + 1 .. m
      BY <1>1, <2>2
    <3>2. at[i + 1] <= at[m] /\ at[i + 1] = at[i] + Len(seqs[i]) /\ rows[at[i] + s] = seqs[i][s]
      BY <1>10, <3>1 DEF Joins
    <3>3. Len(seqs[i]) \in Nat /\ at[i] \in Nat /\ at[m] \in Nat
      BY <1>4, <3>1
    <3>4. PICK x, y, l \in Nat : x = at[i] /\ y = Len(rows) /\ l = Len(seqs[i]) /\ x + l <= y
      BY <1>4, <3>2, <3>3
    <3>5. s \in 1 .. l
      BY <3>4
    <3>6. x + s \in 1 .. y
      BY <3>4, <3>5, PlaceWithin
    <3>7. at[i] + s \in 1 .. Len(rows)
      BY <3>4, <3>6
    <3>8. at2[i] = at[i]
      BY <1>8, <3>1
    <3> QED BY <1>6, <3>2, <3>7, <3>8
  <2> QED BY <2>1, <2>2
<1>12. Len(all) = at2[m + 1]
  BY <1>5, <1>8
<1>13. at2[1] = 0
  BY <1>4, <1>8
<1>14. Joins(all, at2, m, seqs)
  BY <1>7, <1>9, <1>11, <1>12, <1>13 DEF Joins
<1> QED BY <1>1, <1>2, <1>3, <1>14

(* Its last value joins the sequences.                                     *)
LEMMA FlattensJoins ==
  ASSUME NEW V, NEW n \in Nat \ {0}, NEW seqs, NEW fl, Flattens(fl, n, seqs),
         \A i \in 1 .. n : seqs[i] \in Seq(V)
  PROVE  fl[n] \in Seq(V) /\ \E at : Joins(fl[n], at, n, seqs)
<1>3. \A i \in 1 .. n : fl[i] = IF i = 1 THEN seqs[i] ELSE fl[i - 1] \o seqs[i]
  BY DEF Flattens
<1> DEFINE Good(i) == fl[i] \in Seq(V) /\ \E at : Joins(fl[i], at, i, seqs)
           N == {i \in 1 .. n : ~Good(i)}
<1>4. SUFFICES ASSUME N # {} PROVE FALSE
  OBVIOUS
<1>5. PICK k \in N : \A y \in N : k <= y
  <2>1. N \in SUBSET Nat
    OBVIOUS
  <2> HIDE DEF N
  <2> QED BY <1>4, <2>1, Least
<1>6. k # 1
  <2>1. 1 \in 1 .. n
    OBVIOUS
  <2>2. fl[1] = seqs[1] /\ seqs[1] \in Seq(V)
    BY <1>3, <2>1
  <2>3. \E at : Joins(fl[1], at, 1, seqs)
    BY <2>2, JoinsOne
  <2> QED BY <2>2, <2>3
<1>7. PICK l \in Nat \ {0} : k = l + 1
  <2>1. k - 1 \in Nat \ {0} /\ k = (k - 1) + 1
    BY <1>6
  <2> QED BY <2>1
<1>8. l \in 1 .. n /\ ~(k <= l) /\ l + 1 - 1 = l /\ l + 1 # 1 /\ l + 1 \in 1 .. n
  BY <1>7
<1>9. Good(l)
  <2> HIDE DEF Good
  <2> QED BY <1>5, <1>8
<1>10. PICK at : Joins(fl[l], at, l, seqs)
  BY <1>9
<1>11. fl[l + 1] = fl[l] \o seqs[l + 1]
  <2>1. fl[k] = fl[k - 1] \o seqs[k]
    BY <1>3, <1>6
  <2>2. k - 1 = l
    BY <1>7
  <2> QED BY <1>7, <2>1, <2>2
<1>12. fl[l] \in Seq(V) /\ seqs[l + 1] \in Seq(V) /\ \A i \in 1 .. l : seqs[i] \in Seq(V)
  BY <1>8, <1>9
<1>13. \E at2 : Joins(fl[l] \o seqs[l + 1], at2, l + 1, seqs)
  BY <1>10, <1>12, JoinsMore
<1>14. fl[l + 1] \in Seq(V)
  BY <1>11, <1>12
<1>15. Good(l + 1)
  BY <1>11, <1>13, <1>14
<1> HIDE DEF Good
<1> QED BY <1>7, <1>15
=============================================================================
