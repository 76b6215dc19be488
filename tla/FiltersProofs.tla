---------------------------- MODULE FiltersProofs ----------------------------
(***************************************************************************)
(* The condition loops of db/query.c decide what the FILTERs mean, for     *)
(* lists of any length.                                                    *)
(***************************************************************************)
EXTENDS Filters, TLAPS

(* The current group so far: it holds, or it has not begun.                *)
Partial(n) == Before(n) = "NONE" \/ Holds(n - 1)

(* All comparisons of the current group so far went into temp_flag.        *)
AllIntoTemp(n) ==
  \A i \in 1 .. n - 1 : SameGroup(i, n) => IntoTemp(list[i].cond)

Covered == Readable /\ (loop = "join" \/ OrOnValuesOnly)

(* The two flags together are what has been decided; apart they are the    *)
(* completed groups and the current one only while nothing of the current  *)
(* group went to flag.                                                     *)
SoFar ==
  /\ flag /\ temp_flag <=> Completed(k - 1) /\ Partial(k)
  /\ AllIntoTemp(k) => (flag <=> Completed(k - 1)) /\ (temp_flag <=> Partial(k))

IInv ==
  /\ list \in Lists
  /\ TypeOK
  /\ next_relation = Before(k)
  /\ Covered => SoFar

(* Where a group ends, the next condition sees NONE in front of it.        *)
LEMMA BeforeEnd ==
  ASSUME ListsAssumption, list \in Lists, NEW n \in 2 .. Len(list) + 1
  PROVE  /\ n - 1 \in 1 .. Len(list)
         /\ Before(n) = list[n - 1].next_relation
         /\ Before(n) \in NextRelations
         /\ GroupEnd(n - 1) <=> Before(n) = "NONE"
BY DEF ListsAssumption, Before, GroupEnd

(* One more condition: how it joins what the group has been so far.        *)
LEMMA HoldsStep ==
  ASSUME ListsAssumption, list \in Lists, NEW n \in 1 .. Len(list)
  PROVE  Holds(n) <=>
           IF Before(n) = "OR" THEN Partial(n) \/ Met(list[n].cond, row)
                               ELSE Partial(n) /\ Met(list[n].cond, row)
<1> DEFINE Yes(i) == Met(list[i].cond, row)
           From(i, e) ==
             /\ SameGroup(i, e) /\ Before(i) # "AND" /\ Yes(i)
             /\ \A j \in i + 1 .. e : Before(j) = "AND" => Yes(j)
<1>0. Len(list) \in Nat
  BY DEF ListsAssumption
<1>1. \A e : Holds(e) <=> \E i \in 1 .. e : From(i, e)
  BY DEF Holds
<1>2. SameGroup(n, n)
  BY <1>0 DEF SameGroup
<1>3. From(n, n) <=> Before(n) # "AND" /\ Yes(n)
  BY <1>0, <1>2
<1>4. ASSUME n # 1, NEW i \in 1 .. n - 1
      PROVE  SameGroup(i, n) <=> SameGroup(i, n - 1) /\ Before(n) # "NONE"
  <2>1. GroupEnd(n - 1) <=> Before(n) = "NONE"
    BY <1>0, <1>4, BeforeEnd
  <2>2. i .. n - 1 = (i .. (n - 1) - 1) \cup {n - 1}
    BY <1>0
  <2> QED BY <2>1, <2>2 DEF SameGroup
<1>5. ASSUME n # 1, NEW i \in 1 .. n - 1
      PROVE  From(i, n) <=>
               /\ From(i, n - 1) /\ Before(n) # "NONE"
               /\ Before(n) = "AND" => Yes(n)
  <2>1. i + 1 .. n = (i + 1 .. n - 1) \cup {n}
    BY <1>0
  <2> HIDE DEF Yes
  <2>2. (\A j \in i + 1 .. n : Before(j) = "AND" => Yes(j)) <=>
          /\ \A j \in i + 1 .. n - 1 : Before(j) = "AND" => Yes(j)
          /\ Before(n) = "AND" => Yes(n)
    BY <2>1
  <2> QED BY <2>2, <1>4, <1>5
<1> HIDE DEF From, Yes
<1>6. CASE n = 1
  <2>1. Holds(n) <=> From(1, 1)
    BY <1>0, <1>1, <1>6
  <2> QED BY <2>1, <1>3, <1>6 DEF Before, Partial, Yes
<1>7. CASE n # 1
  <2>1. Before(n) \in NextRelations
    BY <1>0, <1>7, BeforeEnd
  <2>2. Holds(n) <=> From(n, n) \/ \E i \in 1 .. n - 1 : From(i, n)
    <3>1. 1 .. n = (1 .. n - 1) \cup {n}
      BY <1>0
    <3> QED BY <1>1, <3>1
  <2>3. (\E i \in 1 .. n - 1 : From(i, n)) <=>
          /\ Holds(n - 1) /\ Before(n) # "NONE"
          /\ Before(n) = "AND" => Yes(n)
    BY <1>1, <1>5, <1>7
  <2>4. Holds(n) <=>
          \/ Before(n) # "AND" /\ Yes(n)
          \/ /\ Holds(n - 1) /\ Before(n) # "NONE"
             /\ Before(n) = "AND" => Yes(n)
    BY <2>2, <2>3, <1>3
  <2> QED BY <2>1, <2>4 DEF NextRelations, Partial, Yes
<1> QED BY <1>6, <1>7

(* One more condition: the groups before it, and its own if it ends one.   *)
LEMMA CompletedStep ==
  ASSUME ListsAssumption, list \in Lists, NEW n \in 1 .. Len(list)
  PROVE  Completed(n) <=> Completed(n - 1) /\ (GroupEnd(n) => Holds(n))
<1>1. 1 .. n = (1 .. n - 1) \cup {n}
  BY DEF ListsAssumption
<1> QED BY <1>1 DEF Completed

(* Where OR joins two conditions the whole group goes into temp_flag.      *)
LEMMA OrIntoTemp ==
  ASSUME ListsAssumption, list \in Lists, NEW n \in 1 .. Len(list),
         Covered, Before(n) = "OR"
  PROVE  AllIntoTemp(n) /\ IntoTemp(list[n].cond)
<1>1. CASE loop = "join"
  BY <1>1 DEF AllIntoTemp, IntoTemp
<1>2. CASE OrOnValuesOnly
  <2>0. Len(list) \in Nat
    BY DEF ListsAssumption
  <2>1. n # 1
    BY DEF Before
  <2>2. /\ n - 1 \in 1 .. Len(list)
        /\ list[n - 1].next_relation = "OR"
        /\ ~GroupEnd(n - 1)
    BY <2>0, <2>1, BeforeEnd
  <2>3. ASSUME NEW i \in 1 .. n - 1, SameGroup(i, n)
        PROVE  list[i].cond.type = "COLUMN_VALUE"
    <3>1. i .. (n - 1) - 1 \subseteq i .. n - 1
      BY <2>0
    <3>2. (n - 1) .. i - 1 = {}
      BY <2>0
    <3>3. SameGroup(i, n - 1) /\ SameGroup(n - 1, i)
      BY <3>1, <3>2, <2>3 DEF SameGroup
    <3>4. i \in 1 .. Len(list)
      BY <2>0
    <3> QED BY <3>3, <3>4, <2>2, <1>2 DEF OrOnValuesOnly
  <2>4. list[n].cond.type = "COLUMN_VALUE"
    <3>1. n .. (n - 1) - 1 = {} /\ (n - 1) .. n - 1 = {n - 1}
      BY <2>0
    <3>2. SameGroup(n, n - 1) /\ SameGroup(n - 1, n)
      BY <3>1, <2>2 DEF SameGroup
    <3> QED BY <3>2, <2>2, <1>2 DEF OrOnValuesOnly
  <2> QED BY <2>3, <2>4 DEF AllIntoTemp, IntoTemp
<1> QED BY <1>1, <1>2 DEF Covered

-----------------------------------------------------------------------------
(* One turn of the loop keeps what the flags stand for.                    *)
LEMMA LookAtSoFar ==
  ASSUME ListsAssumption, IInv, LookAt, Covered
  PROVE  SoFar'
<1> DEFINE c == list[k].cond
           rel == list[k].next_relation
           met == Met(c, row)
           f == IF IntoTemp(c) THEN flag ELSE Combine(flag, met, Before(k))
           t == IF IntoTemp(c) THEN Combine(temp_flag, met, Before(k)) ELSE temp_flag
<1>0. k \in 1 .. Len(list) /\ Len(list) \in Nat /\ list \in Lists
  BY DEF IInv, TypeOK, LookAt, ListsAssumption
<1>1. c.type # "VALUE_COLUMN"
  BY <1>0 DEF Covered, Readable
<1>2. /\ flag' = Merged(f, t, rel)
      /\ temp_flag' = (rel = "NONE" \/ t)
      /\ k' = k + 1 /\ list' = list /\ row' = row /\ loop' = loop
  BY <1>1 DEF LookAt, IInv
<1>3. SoFar
  BY DEF IInv
<1>4. /\ Holds(k) <=> IF Before(k) = "OR" THEN Partial(k) \/ met ELSE Partial(k) /\ met
      /\ Completed(k) <=> Completed(k - 1) /\ (rel = "NONE" => Holds(k))
  BY <1>0, HoldsStep, CompletedStep DEF GroupEnd
<1>5. Before(k) = "OR" => AllIntoTemp(k) /\ IntoTemp(c)
  BY <1>0, OrIntoTemp
<1>6. Before(k + 1) = rel /\ (k + 1) - 1 = k
  BY <1>0 DEF Before
<1>7. AllIntoTemp(k + 1) /\ rel # "NONE" => AllIntoTemp(k) /\ IntoTemp(c)
  <2> SUFFICES ASSUME AllIntoTemp(k + 1), rel # "NONE" PROVE AllIntoTemp(k) /\ IntoTemp(c)
    OBVIOUS
  <2>1. SameGroup(k, k + 1)
    <3>1. k .. (k + 1) - 1 = {k}
      BY <1>0
    <3> QED BY <3>1 DEF SameGroup, GroupEnd
  <2>2. ASSUME NEW i \in 1 .. k - 1, SameGroup(i, k) PROVE SameGroup(i, k + 1)
    <3>1. i .. (k + 1) - 1 = (i .. k - 1) \cup {k}
      BY <1>0
    <3> QED BY <3>1, <2>2 DEF SameGroup, GroupEnd
  <2>3. 1 .. (k + 1) - 1 = (1 .. k - 1) \cup {k}
    BY <1>0
  <2> QED BY <2>1, <2>2, <2>3 DEF AllIntoTemp
<1>8. /\ f /\ t <=> Completed(k - 1) /\ Holds(k)
      /\ AllIntoTemp(k) /\ IntoTemp(c) =>
           (f <=> Completed(k - 1)) /\ (t <=> Holds(k))
  <2> HIDE DEF c, met
  <2>1. CASE Before(k) = "OR"
    BY <2>1, <1>3, <1>4, <1>5 DEF Combine, SoFar
  <2>2. CASE Before(k) # "OR"
    BY <2>2, <1>3, <1>4 DEF Combine, SoFar
  <2> QED BY <2>1, <2>2
<1> HIDE DEF c, met, f, t
<1>9. /\ flag' /\ temp_flag' <=> Completed(k) /\ (rel = "NONE" \/ Holds(k))
      /\ AllIntoTemp(k + 1) =>
           /\ flag' <=> Completed(k)
           /\ temp_flag' <=> (rel = "NONE" \/ Holds(k))
  <2> HIDE DEF rel
  <2>1. CASE rel = "NONE"
    BY <2>1, <1>2, <1>4, <1>8 DEF Merged
  <2>2. CASE rel # "NONE"
    BY <2>2, <1>2, <1>4, <1>7, <1>8 DEF Merged
  <2> QED BY <2>1, <2>2
<1>10. /\ (Completed(k - 1))' <=> Completed(k)
       /\ Partial(k)' <=> (rel = "NONE" \/ Holds(k))
       /\ AllIntoTemp(k)' <=> AllIntoTemp(k + 1)
  <2>1. (Completed(k - 1))' <=> Completed(k)
    BY <1>0, <1>2, <1>6 DEF Completed, GroupEnd, Holds, Before, SameGroup
  <2>2. Partial(k)' <=> (rel = "NONE" \/ Holds(k))
    BY <1>0, <1>2, <1>6 DEF Partial, Holds, GroupEnd, Before, SameGroup
  <2>3. AllIntoTemp(k)' <=> AllIntoTemp(k + 1)
    BY <1>0, <1>2, <1>6 DEF AllIntoTemp, IntoTemp, GroupEnd, SameGroup
  <2> QED BY <2>1, <2>2, <2>3
<1> QED BY <1>9, <1>10 DEF SoFar

-----------------------------------------------------------------------------
(* The loop starts with nothing decided.                                   *)
LEMMA InitInv ==
  ASSUME ListsAssumption, Init
  PROVE  IInv
<1>1. k = 1 /\ flag /\ temp_flag /\ list \in Lists /\ Len(list) \in Nat
  BY DEF Init, ListsAssumption
<1>2. TypeOK /\ next_relation = Before(k)
  BY <1>1 DEF Init, TypeOK, FirstRelation, NextRelations, Before
<1>3. SoFar
  <2>1. 1 .. k - 1 = {}
    BY <1>1
  <2> QED BY <1>1, <2>1 DEF SoFar, Completed, Partial, AllIntoTemp, Before
<1> QED BY <1>1, <1>2, <1>3 DEF IInv

(* Every turn of the loop keeps its invariant.                             *)
LEMMA NextInv ==
  ASSUME ListsAssumption, IInv, [Next]_vars
  PROVE  IInv'
<1>1. CASE LookAt
  <2>1. list' = list /\ k' = k + 1 /\ k \in 1 .. Len(list) /\ Len(list) \in Nat
    BY <1>1 DEF LookAt, IInv, TypeOK, ListsAssumption
  <2>2. list' \in Lists
    BY <2>1 DEF IInv
  <2>3. next_relation' = Before(k)'
    BY <1>1, <2>1 DEF LookAt, Before
  <2>4. flag' \in BOOLEAN /\ temp_flag' \in BOOLEAN
    BY <1>1 DEF LookAt, IInv, TypeOK, Merged, Combine
  <2>5. TypeOK'
    <3>1. list[k].next_relation \in NextRelations
      BY <2>1 DEF IInv, ListsAssumption
    <3> QED BY <1>1, <2>1, <2>4, <3>1 DEF LookAt, TypeOK
  <2>6. Covered' <=> Covered
    BY <1>1 DEF LookAt, Covered, Readable, OrOnValuesOnly, SameGroup, GroupEnd
  <2>7. Covered => SoFar'
    BY <1>1, LookAtSoFar
  <2> QED BY <2>2, <2>3, <2>5, <2>6, <2>7 DEF IInv
<1>2. CASE UNCHANGED vars
  <2>1. list' \in Lists /\ TypeOK' /\ (next_relation = Before(k))'
    BY <1>2 DEF vars, IInv, TypeOK, Before
  <2>2. Covered' <=> Covered
    BY <1>2 DEF vars, Covered, Readable, OrOnValuesOnly, SameGroup, GroupEnd
  <2>3. /\ (Completed(k - 1))' <=> Completed(k - 1)
        /\ Partial(k)' <=> Partial(k)
        /\ AllIntoTemp(k)' <=> AllIntoTemp(k)
    BY <1>2 DEF vars, Completed, Partial, AllIntoTemp, Holds, GroupEnd, SameGroup,
                Before, IntoTemp
  <2>4. SoFar' <=> SoFar
    BY <1>2, <2>3 DEF vars, SoFar
  <2> QED BY <2>1, <2>2, <2>4 DEF IInv
<1> QED BY <1>1, <1>2 DEF Next

(* The invariant of the loop holds at every turn.                          *)
THEOREM FiltersInductive == Spec => []IInv
<1>1. Init => IInv
  BY ListsAssumption, InitInv
<1>2. IInv /\ [Next]_vars => IInv'
  BY ListsAssumption, NextInv
<1> QED BY <1>1, <1>2, PTL DEF Spec

(* The loop stays within its list (db/query.c:679).                        *)
THEOREM FiltersTypeOK == Spec => []TypeOK
<1>1. IInv => TypeOK
  BY DEF IInv
<1> QED BY <1>1, FiltersInductive, PTL

(* After the last condition the flag is what the list means.               *)
LEMMA FinishedMeaning ==
  ASSUME ListsAssumption, IInv, Covered, Finished
  PROVE  flag = Meaning
<1>1. k - 1 = Len(list) /\ Len(list) \in Nat /\ flag \in BOOLEAN /\ list \in Lists
  BY DEF IInv, TypeOK, Finished, ListsAssumption
<1>2. AllIntoTemp(k)
  <2>1. ASSUME NEW i \in 1 .. k - 1 PROVE ~SameGroup(i, k)
    <3>1. k - 1 \in i .. k - 1 /\ list # <<>>
      BY <1>1, <2>1
    <3>2. GroupEnd(k - 1)
      BY <1>1, <3>1 DEF ListsAssumption, GroupEnd
    <3> QED BY <3>1, <3>2 DEF SameGroup
  <2> QED BY <2>1 DEF AllIntoTemp
<1>3. flag <=> Completed(k - 1)
  BY <1>2 DEF IInv, SoFar
<1>4. flag <=> \A e \in 1 .. Len(list) : GroupEnd(e) => Holds(e)
  BY <1>1, <1>3 DEF Completed
<1>5. Meaning \in BOOLEAN /\ (flag <=> Meaning)
  BY <1>4 DEF Meaning, Completed
<1> QED BY <1>1, <1>5

(* The join keeps a pair exactly when all its FILTERs hold                 *)
(* (db/query.c:836-861).                                                   *)
THEOREM FiltersJoinMeaning == Spec => []JoinMeaning
<1>1. IInv => JoinMeaning
  BY ListsAssumption, FinishedMeaning DEF JoinMeaning, Covered
<1> QED BY <1>1, FiltersInductive, PTL

(* The other loops take a row exactly when all its FILTERs hold, if OR     *)
(* joins comparisons of a column and a value only (db/query.c:681-698).    *)
THEOREM FiltersTableMeaning == Spec => []TableMeaning
<1>1. IInv => TableMeaning
  BY ListsAssumption, FinishedMeaning DEF TableMeaning, Covered
<1> QED BY <1>1, FiltersInductive, PTL
=============================================================================
