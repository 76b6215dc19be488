----------------------------- MODULE CodecProofs -----------------------------
(***************************************************************************)
(* A query from the parser to execute_query, and the row an INSERT builds, *)
(* for any queries the grammar builds and any tables: lists of comparisons *)
(* of every length arrive whole, the queries that both sides agree on do   *)
(* what was asked, and the values of a row are read where they were put.   *)
(***************************************************************************)
EXTENDS Records, ChainProofs

-----------------------------------------------------------------------------
(* Lists.                                                                  *)
IsList(s) == Len(s) \in Nat /\ s = [i \in 1 .. Len(s) |-> s[i]]

LEMMA SeqIsList ==
  ASSUME NEW V, NEW s \in Seq(V)
  PROVE  IsList(s)
BY DEF IsList

LEMMA ListIsSeq ==
  ASSUME NEW s, IsList(s)
  PROVE  \E V : s \in Seq(V)
<1> DEFINE V == {s[i] : i \in 1 .. Len(s)}
<1>1. [i \in 1 .. Len(s) |-> s[i]] \in Seq(V)
  <2>1. Len(s) \in Nat /\ \A i \in 1 .. Len(s) : s[i] \in V
    BY DEF IsList
  <2> HIDE DEF V
  <2> QED BY <2>1
<1> QED BY <1>1 DEF IsList

LEMMA FunctionIsSeq ==
  ASSUME NEW n \in Nat, NEW f, f = [i \in 1 .. n |-> f[i]],
         NEW T, \A i \in 1 .. n : f[i] \in T
  PROVE  f \in Seq(T) /\ Len(f) = n
<1>1. [i \in 1 .. n |-> f[i]] \in Seq(T)
  OBVIOUS
<1> QED BY <1>1

(* A function on 1 .. n is a list of n values.                             *)
LEMMA FunctionIsList ==
  ASSUME NEW n \in Nat, NEW f, f = [i \in 1 .. n |-> f[i]]
  PROVE  IsList(f) /\ Len(f) = n
<1>1. PICK F : F = {f[i] : i \in 1 .. n}
  OBVIOUS
<1>2. \A i \in 1 .. n : f[i] \in F
  BY <1>1
<1>3. f \in Seq(F) /\ Len(f) = n
  BY <1>2, FunctionIsSeq
<1> QED BY <1>3, SeqIsList

(* Appending one more keeps what was there and puts it last.               *)
LEMMA ListAppend ==
  ASSUME NEW s, IsList(s), NEW x
  PROVE  /\ IsList(Append(s, x)) /\ Len(Append(s, x)) = Len(s) + 1
         /\ \A i \in 1 .. Len(s) : Append(s, x)[i] = s[i]
         /\ Append(s, x)[Len(s) + 1] = x
<1>1. PICK V : s \in Seq(V)
  BY ListIsSeq
<1>2. PICK W : W = V \cup {x}
  OBVIOUS
<1>3. s \in Seq(W)
  <2>1. Len(s) \in Nat /\ s = [i \in 1 .. Len(s) |-> s[i]] /\ \A i \in 1 .. Len(s) : s[i] \in W
    BY <1>1, <1>2
  <2>2. [i \in 1 .. Len(s) |-> s[i]] \in Seq(W)
    BY <2>1
  <2> QED BY <2>1, <2>2
<1>4. x \in W
  BY <1>2
<1>5. Append(s, x) \in Seq(W) /\ Len(Append(s, x)) = Len(s) + 1
  BY <1>3, <1>4, AppendProperties
<1>6. /\ \A i \in 1 .. Len(s) : Append(s, x)[i] = s[i]
      /\ Append(s, x)[Len(s) + 1] = x
  BY <1>3, <1>4, AppendProperties
<1>7. IsList(Append(s, x))
  BY <1>5, SeqIsList
<1> QED BY <1>5, <1>6, <1>7

(* FlattenSeq joins the lists.                                             *)
LEMMA FlattenJoins ==
  ASSUME NEW V, NEW n \in Nat \ {0}, NEW seqs, DOMAIN seqs = 1 .. n, Len(seqs) = n,
         \A i \in 1 .. n : seqs[i] \in Seq(V)
  PROVE  FlattenSeq(seqs) \in Seq(V) /\ \E at : Joins(FlattenSeq(seqs), at, n, seqs)
<1> DEFINE fl == CHOOSE f : Flattens(f, n, seqs)
<1>1. Flattens(fl, n, seqs)
  BY FlattensExists
<1>2. FlattenSeq(seqs) = fl[n]
  BY DEF FlattenSeq, Flattens
<1> HIDE DEF fl
<1> QED BY <1>1, <1>2, FlattensJoins

(* A place in the joined lists is a place in one of them.                  *)
LEMMA PlaceIn ==
  ASSUME NEW n \in Nat, NEW seqs, NEW rows, NEW at, Joins(rows, at, n, seqs),
         \A i \in 1 .. n : Len(seqs[i]) \in Nat,
         NEW p \in 1 .. Len(rows)
  PROVE  \E i \in 1 .. n : \E s \in 1 .. Len(seqs[i]) : p = at[i] + s
<1>1. /\ at \in [1 .. n + 1 -> Nat] /\ at[1] = 0 /\ Len(rows) = at[n + 1]
      /\ \A i \in 1 .. n : at[i + 1] = at[i] + Len(seqs[i])
  BY DEF Joins
<1> DEFINE N == {k \in 1 .. n + 1 : p <= at[k]}
<1>2. N \in SUBSET Nat /\ N # {}
  <2>1. n + 1 \in 1 .. n + 1 /\ at[n + 1] \in Nat /\ p <= at[n + 1]
    BY <1>1
  <2> QED BY <2>1
<1>3. PICK k \in N : \A y \in N : k <= y
  <2> HIDE DEF N
  <2> QED BY <1>2, Least
<1>4. k # 1
  BY <1>1
<1>5. PICK l \in 1 .. n : k = l + 1
  <2>1. k - 1 \in 1 .. n /\ k = (k - 1) + 1
    BY <1>4
  <2> QED BY <2>1
<1>6. ~(p <= at[l]) /\ p <= at[l + 1]
  <2>1. l \in 1 .. n + 1 /\ ~(k <= l)
    BY <1>5
  <2>2. l \notin N
    BY <1>3, <2>1
  <2> QED BY <1>3, <1>5, <2>1, <2>2
<1>7. PICK x, m \in Nat : x = at[l] /\ m = Len(seqs[l])
  <2>1. l \in 1 .. n + 1
    BY <1>5
  <2> QED BY <1>1, <2>1
<1>8. ~(p <= x) /\ p <= x + m /\ p \in Nat
  <2>1. at[l + 1] = at[l] + Len(seqs[l])
    BY <1>1
  <2> QED BY <1>6, <1>7, <2>1
<1>9. p - x \in 1 .. m /\ p = x + (p - x)
  BY <1>8
<1> QED BY <1>7, <1>9

(* Lists of the same lengths are joined at the same places.                *)
LEMMA JoinsAlike ==
  ASSUME NEW n \in Nat, NEW seqs, NEW rows, NEW at, Joins(rows, at, n, seqs),
         NEW seqs2, NEW rows2, NEW at2, Joins(rows2, at2, n, seqs2),
         \A i \in 1 .. n : Len(seqs[i]) \in Nat /\ Len(seqs2[i]) = Len(seqs[i])
  PROVE  /\ Len(rows2) = Len(rows)
         /\ \A i \in 1 .. n : at2[i] = at[i]
<1>1. /\ at[1] = 0 /\ Len(rows) = at[n + 1] /\ at2[1] = 0 /\ Len(rows2) = at2[n + 1]
      /\ \A i \in 1 .. n : at[i + 1] = at[i] + Len(seqs[i])
      /\ \A i \in 1 .. n : at2[i + 1] = at2[i] + Len(seqs2[i])
  BY DEF Joins
<1> DEFINE N == {k \in 1 .. n + 1 : at2[k] # at[k]}
<1>2. SUFFICES ASSUME N # {} PROVE FALSE
  <2>1. n + 1 \in 1 .. n + 1 /\ \A i \in 1 .. n : i \in 1 .. n + 1
    OBVIOUS
  <2>2. N = {} => at2[n + 1] = at[n + 1] /\ \A i \in 1 .. n : at2[i] = at[i]
    BY <2>1
  <2> HIDE DEF N
  <2> QED BY <1>1, <2>2
<1>3. PICK k \in N : \A y \in N : k <= y
  <2>1. N \in SUBSET Nat
    OBVIOUS
  <2> HIDE DEF N
  <2> QED BY <1>2, <2>1, Least
<1>4. k # 1
  BY <1>1
<1>5. PICK l \in 1 .. n : k = l + 1
  <2>1. k - 1 \in 1 .. n /\ k = (k - 1) + 1
    BY <1>4
  <2> QED BY <2>1
<1>6. at2[l] = at[l]
  <2>1. l \in 1 .. n + 1 /\ ~(k <= l)
    BY <1>5
  <2> QED BY <1>3, <2>1
<1> QED BY <1>1, <1>3, <1>5, <1>6
-----------------------------------------------------------------------------
(* What is sent.                                                           *)
LEMMA QueryTyped ==
  ASSUME NEW query \in Queries
  PROVE  /\ query.kind \in Kinds
         /\ query.filters \in Seq(Seq(Comparison) \ {<<>>})
         /\ query.filters # <<>> <=> query.kind \in FilterKinds
         /\ Len(query.loops) = IF query.kind \in JoinKinds THEN 2 ELSE 1
         /\ DOMAIN query.loops = 1 .. Len(query.loops)
         /\ query.params \in Seq([name : STRING, type : STRING, value : Seq(STRING)])
BY QueriesAssumption DEF ParsedQuery

LEMMA ComparisonTyped ==
  ASSUME NEW c \in Comparison
  PROVE  /\ DOMAIN c.left = {"type", "value"} /\ DOMAIN c.right = {"type", "value"}
         /\ DOMAIN c.left.value = 1 .. Len(c.left.value) /\ Len(c.left.value) \in Nat \ {0}
         /\ c.left = [type |-> c.left.type, value |-> c.left.value]
         /\ c.right = [type |-> c.right.type, value |-> c.right.value]
BY DEF Comparison, Literal

(* An object has the keys of its kind of query.                            *)
LEMMA Carries ==
  ASSUME NEW query, NEW key \in DOMAIN Senders
  PROVE  /\ key \in DOMAIN query_to_json(query) <=> query.kind \in Senders[key]
         /\ query.kind \in Senders[key] => query_to_json(query)[key] = Part(query, key)
BY DEF query_to_json

(* The comparisons read are those sent, one by one.                        *)
SentLists ==
  /\ IsList(Comparisons) /\ IsList(AskedList) /\ DOMAIN AskedList = 1 .. Len(AskedList)
  /\ Len(Comparisons) = Len(AskedList)
  /\ \A i \in 1 .. Len(AskedList) :
       AskedList[i] \in Comparison /\ Comparisons[i] = SentComparison(q, AskedList[i])

LEMMA ListsSent ==
  ASSUME q \in Queries, q.kind # "RETURN_ROW_JOIN_FILTER", root = query_to_json(q)
  PROVE  SentLists
<1>1. "filters" \in DOMAIN Senders
  BY DEF Senders
<1>2. "filters" \in DOMAIN root <=> q.kind \in Senders["filters"]
  BY <1>1, Carries
<1>3. q.kind \in Senders["filters"] <=> q.kind \in FilterKinds
  BY DEF Senders, FilterKinds
<1>4. CASE q.filters = <<>>
  <2>1. Comparisons = <<>>
    BY <1>2, <1>3, <1>4, QueryTyped DEF Comparisons
  <2>2. AskedList = <<>>
    BY <1>4 DEF AskedList, FlattenSeq
  <2> QED BY <2>1, <2>2 DEF SentLists, IsList
<1>5. CASE q.filters # <<>>
  <2>1. root.filters = SentFilters(q)
    BY <1>1, <1>2, <1>3, <1>5, QueryTyped, Carries DEF Part
  <2>2. PICK n \in Nat \ {0} : Len(q.filters) = n /\ DOMAIN q.filters = 1 .. n
    BY <1>5, QueryTyped
  <2>3. \A i \in 1 .. n : q.filters[i] \in Seq(Comparison)
    BY <2>2, QueryTyped
  <2>4. PICK sent : sent = SentFilters(q)
    OBVIOUS
  <2>5. DOMAIN sent = 1 .. n /\ sent \in Seq(Range(sent)) /\ Len(sent) = n
    <3>1. sent = [f \in 1 .. n |-> sent[f]]
      BY <2>2, <2>4 DEF SentFilters
    <3>2. sent \in [1 .. n -> Range(sent)]
      BY <3>1 DEF Range
    <3> QED BY <3>1, <3>2
  <2>6. ASSUME NEW i \in 1 .. n
        PROVE  /\ sent[i] = [c \in 1 .. Len(q.filters[i]) |-> sent[i][c]]
               /\ Len(q.filters[i]) \in Nat
               /\ \A c \in 1 .. Len(q.filters[i]) :
                    sent[i][c] = SentComparison(q, q.filters[i][c])
    BY <2>2, <2>3, <2>4 DEF SentFilters
  <2>7. PICK S : \A i \in 1 .. n : sent[i] \in Seq(S) /\ Len(sent[i]) = Len(q.filters[i])
    <3>1. PICK T : T = {SentComparison(q, c) : c \in Comparison}
      OBVIOUS
    <3>2. ASSUME NEW j \in 1 .. n
          PROVE  sent[j] \in Seq(T) /\ Len(sent[j]) = Len(q.filters[j])
      <4>1. \A k \in 1 .. Len(q.filters[j]) : sent[j][k] \in T
        <5>1. \A c \in Comparison : SentComparison(q, c) \in T
          BY <3>1
        <5>2. \A k \in 1 .. Len(q.filters[j]) : q.filters[j][k] \in Comparison
          BY <2>3
        <5> QED BY <2>6, <5>1, <5>2
      <4>2. PICK m, f : m \in Nat /\ m = Len(q.filters[j]) /\ f = sent[j]
        BY <2>6
      <4>3. f = [k \in 1 .. m |-> f[k]]
        BY <2>6, <4>2
      <4>4. f \in Seq(T) /\ Len(f) = m
        <5>1. m \in Nat /\ \A k \in 1 .. m : f[k] \in T
          BY <4>1, <4>2
        <5> QED BY ONLY <4>3, <5>1, FunctionIsSeq
      <4> QED BY <4>2, <4>4
    <3> QED BY <3>2
  <2>8. PICK at : Joins(AskedList, at, n, q.filters) /\ AskedList \in Seq(Comparison)
    BY <2>2, <2>3, FlattenJoins DEF AskedList
  <2>9. PICK at2 : Joins(FlattenSeq(sent), at2, n, sent) /\ FlattenSeq(sent) \in Seq(S)
    BY <2>5, <2>7, FlattenJoins
  <2>10. Comparisons = FlattenSeq(sent)
    BY <1>2, <1>3, <1>5, <2>1, <2>4, QueryTyped DEF Comparisons
  <2>11. \A i \in 1 .. n : Len(q.filters[i]) \in Nat /\ Len(sent[i]) = Len(q.filters[i])
    BY <2>6, <2>7
  <2>12. /\ Len(Comparisons) = Len(AskedList)
         /\ \A i \in 1 .. n : at2[i] = at[i]
    BY <2>8, <2>9, <2>10, <2>11, JoinsAlike
  <2>13. ASSUME NEW p \in 1 .. Len(AskedList)
         PROVE  AskedList[p] \in Comparison /\ Comparisons[p] = SentComparison(q, AskedList[p])
    <3>0. PICK i \in 1 .. n : \E s \in 1 .. Len(q.filters[i]) : p = at[i] + s
      <4>1. /\ n \in Nat /\ Joins(AskedList, at, n, q.filters)
            /\ \A i \in 1 .. n : Len(q.filters[i]) \in Nat
            /\ p \in 1 .. Len(AskedList)
        BY <2>2, <2>8, <2>11
      <4> QED BY ONLY <4>1, PlaceIn
    <3>1. PICK s \in 1 .. Len(q.filters[i]) : p = at[i] + s
      BY <3>0
    <3>2. AskedList[p] = q.filters[i][s]
      BY <2>8, <3>1 DEF Joins
    <3>3. Comparisons[p] = sent[i][s]
      <4>1. at2[i] + s = p /\ s \in 1 .. Len(sent[i])
        BY <2>11, <2>12, <3>1
      <4> QED BY <2>9, <2>10, <4>1 DEF Joins
    <3>4. AskedList[p] \in Comparison
      BY <2>8
    <3> QED BY <2>6, <3>2, <3>3, <3>4
  <2>14. IsList(Comparisons) /\ IsList(AskedList) /\ DOMAIN AskedList = 1 .. Len(AskedList)
    BY <2>8, <2>9, <2>10, SeqIsList
  <2> QED BY <2>12, <2>13, <2>14 DEF SentLists
<1> QED BY <1>4, <1>5
-----------------------------------------------------------------------------
(* What the server has read of the rest of the object.                     *)
Unread == {"RETURN_ROW_JOIN", "RETURN_ROW_JOIN_FILTER"}

Returned == {"RETURN_FIELDS_JOIN", "RETURN_FIELDS_JOIN_FILTER"}

(* What becomes of the fields of an INSERT.                                *)
Inserted == {Fields(q.params), Append(Fields(q.params), Garbage)}

Header(e) ==
  /\ e = [kind |-> e.kind, return_value |-> e.return_value, table_name |-> e.table_name,
          rec |-> e.rec, condition |-> e.condition, left |-> e.left, right |-> e.right]
  /\ e.kind = IF q.kind \in Unread THEN Garbage ELSE q.kind
  /\ q.kind \in {"SIMPLE_INSERT", "RETURN_ROW", "RETURN_ROW_FILTER"} \cup Returned =>
       e.return_value \in {"ARRAY", "OK"}
  /\ q.kind = "COMPLEX_INSERT" => e.return_value = Garbage
  /\ q.kind \in {"SIMPLE_INSERT", "RETURN_ROW", "RETURN_ROW_FILTER"} =>
       e.table_name = q.loops[1].table
  /\ q.kind = "SIMPLE_INSERT" => e.rec \in Inserted
  /\ q.kind \in Returned => /\ e.left = SentTable(q, 1, q.join.left)
                            /\ e.right = SentTable(q, 2, q.join.right)

LEMMA HeaderRead ==
  ASSUME q \in Queries, root = query_to_json(q), NEW e \in Decoded
  PROVE  Header(e) /\ e.condition = <<>>
<1>1. q.kind \in Kinds
  BY QueryTyped
<1>2. \A key \in DOMAIN Senders :
        Unpacked(root, key) = IF q.kind \in Senders[key] THEN Part(q, key) ELSE Garbage
  BY Carries DEF Unpacked
<1>3. PICK kind : kind = Unpacked(root, "kind")
  OBVIOUS
<1>4. kind = IF q.kind \in Unread THEN Garbage ELSE q.kind
  <2>1. "kind" \in DOMAIN Senders /\ Senders["kind"] = Kinds \ Unread
    BY DEF Senders, Unread
  <2> QED BY <1>1, <1>2, <1>3, <2>1 DEF Part
<1>5. PICK value, table, left, right :
        /\ value = Unpacked(root, "return_value") /\ table = Unpacked(root, "table")
        /\ left = Unpacked(root, "left") /\ right = Unpacked(root, "right")
  OBVIOUS
<1>6. /\ q.kind \in {"SIMPLE_INSERT", "RETURN_ROW", "RETURN_ROW_FILTER"} \cup Returned =>
           value \in {"ARRAY", "OK"}
      /\ q.kind = "COMPLEX_INSERT" => value = Garbage
  <2>1. /\ "return_value" \in DOMAIN Senders
        /\ Senders["return_value"] = Kinds \ ({"COMPLEX_INSERT"} \cup Unread)
    BY DEF Senders, Unread
  <2>2. q.kind \in Senders["return_value"] => value \in {"ARRAY", "OK"}
    <3>1. Part(q, "return_value") \in {"ARRAY", "OK"}
      BY DEF Part
    <3> QED BY <1>2, <1>5, <2>1, <3>1
  <2>3. q.kind = "COMPLEX_INSERT" => value = Garbage
    BY <1>2, <1>5, <2>1
  <2> QED BY <1>1, <2>1, <2>2, <2>3 DEF Unread, Returned
<1>7. q.kind \in {"SIMPLE_INSERT", "RETURN_ROW", "RETURN_ROW_FILTER"} =>
        table = q.loops[1].table
  <2>1. /\ "table" \in DOMAIN Senders
        /\ Senders["table"] = Kinds \ ({"COMPLEX_INSERT"} \cup JoinKinds)
    BY DEF Senders
  <2>2. Part(q, "table") = q.loops[1].table
    BY DEF Part
  <2> QED BY <1>1, <1>2, <1>5, <2>1, <2>2 DEF JoinKinds
<1>8. q.kind \in Returned => /\ left = SentTable(q, 1, q.join.left)
                             /\ right = SentTable(q, 2, q.join.right)
  <2>1. /\ "left" \in DOMAIN Senders /\ Senders["left"] = Returned
        /\ "right" \in DOMAIN Senders /\ Senders["right"] = Returned
    BY DEF Senders, Returned
  <2>2. /\ Part(q, "left") = SentTable(q, 1, q.join.left)
        /\ Part(q, "right") = SentTable(q, 2, q.join.right)
    BY DEF Part
  <2> QED BY <1>2, <1>5, <2>1, <2>2
<1>9. q.kind = "SIMPLE_INSERT" => Records = Inserted
  <2>1. /\ "params" \in DOMAIN Senders
        /\ Senders["params"] = {"CREATE_TBL", "SIMPLE_INSERT"}
    BY DEF Senders
  <2>2. Part(q, "params") = q.params
    BY DEF Part
  <2>3. q.kind = "SIMPLE_INSERT" => root.params = q.params
    BY <2>1, <2>2, Carries
  <2> QED BY <2>3 DEF Records, Inserted
<1>10. PICK r, name :
         /\ e = [kind |-> kind, return_value |-> value, table_name |-> name, rec |-> r,
                 condition |-> <<>>, left |-> left, right |-> right]
         /\ name = IF kind = "REMOVE_TBL" THEN Garbage ELSE table
         /\ kind = "SIMPLE_INSERT" => r \in Records
  <2>1. PICK name : name = IF kind = "REMOVE_TBL" THEN Garbage ELSE table
    OBVIOUS
  <2>2. PICK common :
          common = [kind |-> kind, return_value |-> value, table_name |-> name,
                    rec |-> Garbage, condition |-> <<>>, left |-> left, right |-> right]
    OBVIOUS
  <2>3. e \in CASE kind = "CREATE_TBL" ->
                     {[common EXCEPT !.rec = r] : r \in {root.params, Garbage}}
                [] kind = "SIMPLE_INSERT" -> {[common EXCEPT !.rec = r] : r \in Records}
                [] OTHER -> {common}
    BY <1>3, <1>5, <2>1, <2>2 DEF Decoded
  <2>4. CASE kind = "CREATE_TBL"
    BY <2>1, <2>2, <2>3, <2>4
  <2>5. CASE kind = "SIMPLE_INSERT"
    BY <2>1, <2>2, <2>3, <2>5
  <2>6. CASE kind \notin {"CREATE_TBL", "SIMPLE_INSERT"}
    BY <2>1, <2>2, <2>3, <2>6
  <2> QED BY <2>4, <2>5, <2>6
<1>11. q.kind = "SIMPLE_INSERT" => kind = "SIMPLE_INSERT"
  BY <1>4 DEF Unread
<1>12. q.kind \in {"SIMPLE_INSERT", "RETURN_ROW", "RETURN_ROW_FILTER"} => kind # "REMOVE_TBL"
  BY <1>4 DEF Unread
<1> QED BY <1>4, <1>6, <1>7, <1>8, <1>9, <1>10, <1>11, <1>12 DEF Header
-----------------------------------------------------------------------------
(* What the server has read of the comparisons.                            *)
Compared(e) ==
  /\ IsList(e.condition) /\ Len(e.condition) <= Len(AskedList)
  /\ \A i \in 1 .. Len(e.condition) :
       /\ e.condition[i].relation = AskedList[i].relation
       /\ e.condition[i].next_relation = AskedList[i].next_relation
       /\ Carried => e.condition[i] = AskedComparison(AskedList[i])

LEMMA Sent ==
  ASSUME NEW c \in Comparison
  PROVE  LET sent == SentComparison(q, c)
         IN  /\ sent.left_operand = SentOperand(q.kind, c.left)
             /\ sent.right_operand = SentOperand(q.kind, c.right)
             /\ sent.comparison = c.relation /\ sent.relation = c.next_relation
             /\ q.kind \in Typed =>
                  /\ "comparison_type" \in DOMAIN sent
                  /\ sent.comparison_type = ComparisonType(q.filters[1][1])
                  /\ sent.left_operand = c.left /\ sent.right_operand = c.right
BY DEF SentComparison, SentOperand

(* An operand that is a value arrives as it is, unless it is a float.      *)
LEMMA ValueRead ==
  ASSUME NEW l, l = [type |-> l.type, value |-> l.value], l.type # "FLOAT"
  PROVE  Value(l) = l.value
<1>1. "value" \in DOMAIN l
  OBVIOUS
<1> QED BY <1>1 DEF Value, Unpacked

LEMMA LeftRead ==
  ASSUME q \in Queries, Header(qte), q.kind \in Typed, Carried,
         NEW c \in Comparison, c.left.type # "FLOAT",
         c.left.type = "REFERENCE" => NamedInFull(c.left),
         NEW lo \in Left(c.left)
  PROVE  lo = AskedOperand(c.left)
<1>1. c.left = [type |-> c.left.type, value |-> c.left.value] /\ Len(c.left.value) \in Nat
  BY ComparisonTyped
<1>2. qte.kind = q.kind
  BY DEF Header, Unread, Typed
<1>3. CASE c.left.type # "REFERENCE"
  <2>1. lo = Operand("LEFT", c.left.type, Value(c.left))
    BY <1>3 DEF Left
  <2>2. Value(c.left) = c.left.value
    BY <1>1, ValueRead
  <2> QED BY <1>3, <2>1, <2>2 DEF AskedOperand
<1>4. CASE c.left.type = "REFERENCE" /\ q.kind = "RETURN_ROW_FILTER"
  <2>1. lo = Operand("LEFT", "STRING", Unpacked(c.left, "value"))
    BY <1>2, <1>4 DEF Left
  <2>2. Unpacked(c.left, "value") = c.left.value
    <3>1. "value" \in DOMAIN c.left
      BY <1>1
    <3> QED BY <3>1 DEF Unpacked
  <2>3. Len(c.left.value) = 1
    BY <1>4 DEF NamedInFull, JoinKinds
  <2>4. c.left.value = <<Last(c.left.value)>>
    <3>1. c.left.value \in Seq(STRING)
      BY DEF Comparison, Literal
    <3> QED BY <2>3, <3>1 DEF Last
  <2>5. RowOf(c.left.value) = q.loops[1].row
    BY <2>3 DEF RowOf
  <2> QED BY <1>4, <2>1, <2>2, <2>4, <2>5 DEF AskedOperand
<1>5. CASE c.left.type = "REFERENCE" /\ q.kind = "RETURN_FIELDS_JOIN_FILTER"
  <2>1. lo \in Named(c.left)
    BY <1>2, <1>5 DEF Left
  <2>2. /\ Len(c.left.value) = 2
        /\ \E i \in DOMAIN q.loops : c.left.value[1] = q.loops[i].table
    BY <1>5 DEF NamedInFull, JoinKinds
  <2>3. qte.left.name = q.loops[1].table /\ qte.right.name = q.loops[2].table
    BY <1>5 DEF Header, Returned, SentTable
  <2>4. DOMAIN q.loops = 1 .. 2 /\ q.loops[1].row = q.loops[1].table
        /\ q.loops[2].row = q.loops[2].table
    <3>1. DOMAIN q.loops = 1 .. 2
      BY <1>5, QueryTyped DEF JoinKinds
    <3>2. \A i \in DOMAIN q.loops : q.loops[i].row = q.loops[i].table
      BY <1>5 DEF Carried
    <3> QED BY <3>1, <3>2
  <2>5. PICK w1, w2 : w1 = c.left.value[1] /\ w2 = c.left.value[2]
    OBVIOUS
  <2>6. w1 = q.loops[1].table \/ w1 = q.loops[2].table
    BY <2>2, <2>4, <2>5
  <2>7. lo = IF w1 = q.loops[1].table THEN Operand("LEFT", "STRING", <<w2>>)
             ELSE Operand("RIGHT", "STRING", <<w2>>)
    <3>1. CASE w1 = q.loops[1].table
      BY <2>1, <2>2, <2>3, <2>5, <3>1 DEF Named
    <3>2. CASE w1 # q.loops[1].table /\ w1 = q.loops[2].table
      BY <2>1, <2>2, <2>3, <2>5, <3>2 DEF Named
    <3> QED BY <2>6, <3>1, <3>2
  <2>8. RowOf(c.left.value) = w1 /\ Last(c.left.value) = w2
    BY <2>2, <2>5 DEF RowOf, Last
  <2>9. AskedOperand(c.left) =
          Operand(IF w1 = q.loops[1].table THEN "LEFT" ELSE "RIGHT", "STRING", <<w2>>)
    BY <1>5, <2>4, <2>8 DEF AskedOperand
  <2> QED BY <2>7, <2>9
<1> QED BY <1>3, <1>4, <1>5 DEF Typed

LEMMA RightRead ==
  ASSUME NEW c \in Comparison, c.right.type \notin {"FLOAT", "REFERENCE"},
         NEW ro \in Right(c.right)
  PROVE  ro = AskedOperand(c.right)
<1>1. c.right = [type |-> c.right.type, value |-> c.right.value]
  BY ComparisonTyped
<1>2. Value(c.right) = c.right.value
  BY <1>1, ValueRead
<1> QED BY <1>2 DEF Right, AskedOperand

(* A comparison that is written and read in full is the one asked for.     *)
LEMMA ComparisonRead ==
  ASSUME q \in Queries, Header(qte), qte.kind \in Conditioned, SentLists, Carried,
         NEW i \in 1 .. Len(AskedList),
         NEW ct \in IF "comparison_type" \in DOMAIN Comparisons[i]
                    THEN {Comparisons[i].comparison_type} ELSE {slots.ct, Garbage},
         NEW lo \in Left(Comparisons[i].left_operand),
         NEW ro \in Right(Comparisons[i].right_operand)
  PROVE  [type |-> ct, left |-> lo, right |-> ro, relation |-> Comparisons[i].comparison,
          next_relation |-> Comparisons[i].relation] = AskedComparison(AskedList[i])
<1>1. PICK c \in Comparison : c = AskedList[i] /\ Comparisons[i] = SentComparison(q, c)
  BY DEF SentLists
<1>2. q.kind \in Typed
  <2>1. qte.kind = q.kind \/ qte.kind = Garbage
    BY DEF Header
  <2>2. Garbage \notin Conditioned
    BY GarbageAssumption DEF Conditioned, Kinds, JoinKinds
  <2>3. q.kind \in Conditioned
    BY <2>1, <2>2
  <2> QED BY <2>3 DEF Carried, Conditioned, Typed
<1>3. ReadInFull(c) /\ (c.left.type = "REFERENCE" => NamedInFull(c.left))
  BY <1>1 DEF Carried, SentLists
<1>4. /\ "comparison_type" \in DOMAIN Comparisons[i]
      /\ Comparisons[i].comparison_type = ComparisonType(q.filters[1][1])
      /\ Comparisons[i].left_operand = c.left /\ Comparisons[i].right_operand = c.right
      /\ Comparisons[i].comparison = c.relation /\ Comparisons[i].relation = c.next_relation
  BY <1>1, <1>2, Sent
<1>5. ct = ComparisonType(c)
  BY <1>3, <1>4 DEF ReadInFull
<1>6. lo = AskedOperand(c.left)
  BY <1>2, <1>3, <1>4, LeftRead DEF ReadInFull
<1>7. ro = AskedOperand(c.right)
  BY <1>3, <1>4, RightRead DEF ReadInFull
<1> QED BY <1>1, <1>4, <1>5, <1>6, <1>7 DEF AskedComparison
-----------------------------------------------------------------------------
(* The inductive invariant: the header has been read once the object has,  *)
(* the comparisons up to the next one, and all of them at the end.         *)
SlotsInv ==
  /\ \/ slots.lo = Garbage
     \/ slots.lo.belongs_to_table = "LEFT"
     \/ q.kind = "RETURN_FIELDS_JOIN_FILTER"
  /\ slots.ro = Garbage \/ slots.ro.belongs_to_table = "LEFT"

ReadInv ==
  /\ pc \notin {"parsed", "client_crashed", "sent"} => Header(qte)
  /\ pc = "comparing" => qte.kind \in Conditioned /\ Compared(qte)
  /\ pc \in {"decoded", "done"} /\ AskedList # <<>> /\ q.kind # "RETURN_ROW_JOIN_FILTER" =>
       Compared(qte) /\ Len(qte.condition) = Len(AskedList)

CInv ==
  /\ q \in Queries
  /\ pc \in {"parsed", "sent", "comparing", "decoded", "done", "crashed", "client_crashed"}
  /\ pc \notin {"parsed", "client_crashed"} => root = query_to_json(q)
  /\ SlotsInv
  /\ pc \in {"crashed", "client_crashed"} =>
       q.kind \notin {"SIMPLE_INSERT", "RETURN_ROW", "RETURN_ROW_FILTER"}
  /\ ReadInv
  /\ pc = "done" => effect = Executed

(* Only kinds of queries that were read have their comparisons read.       *)
LEMMA ConditionedKind ==
  ASSUME Header(qte), qte.kind \in Conditioned
  PROVE  q.kind = qte.kind /\ q.kind \in Conditioned /\ q.kind # "RETURN_ROW_JOIN_FILTER"
<1>1. Garbage \notin Conditioned
  BY GarbageAssumption DEF Conditioned, Kinds, JoinKinds
<1> QED BY <1>1 DEF Header, Conditioned

LEMMA FilteredConditioned ==
  ASSUME q \in Queries, Header(qte), AskedList # <<>>, q.kind # "RETURN_ROW_JOIN_FILTER"
  PROVE  qte.kind \in Conditioned
<1>1. q.filters # <<>>
  BY DEF AskedList, FlattenSeq
<1>2. q.kind \in FilterKinds
  BY <1>1, QueryTyped
<1> QED BY <1>2 DEF Header, FilterKinds, Unread, Conditioned

LEMMA CodecInit == Init => CInv
BY DEF Init, CInv, SlotsInv, ReadInv

LEMMA SendKeeps ==
  ASSUME CInv, Send
  PROVE  CInv'
BY DEF CInv, Send, SlotsInv, ReadInv

LEMMA ClientCrashKeeps ==
  ASSUME CInv, ClientCrash
  PROVE  CInv'
BY DEF CInv, ClientCrash, ComparesNull, SlotsInv, ReadInv

LEMMA DecodeKeeps ==
  ASSUME CInv, Decode
  PROVE  CInv'
<1>1. /\ q \in Queries /\ root = query_to_json(q) /\ SlotsInv /\ qte' \in Decoded
      /\ UNCHANGED <<q, root, slots, effect>>
      /\ pc' = IF qte'.kind \in Conditioned THEN "comparing" ELSE "decoded"
  BY DEF CInv, Decode
<1>2. PICK e : e = qte'
  OBVIOUS
<1>3. Header(e) /\ e.condition = <<>>
  BY <1>1, <1>2, HeaderRead
<1>4. Header(qte)' /\ (AskedList = AskedList')
  BY <1>1, <1>2, <1>3 DEF Header, Inserted, AskedList
<1>5. Compared(qte)' \/ q.kind = "RETURN_ROW_JOIN_FILTER"
  <2>1. q.kind # "RETURN_ROW_JOIN_FILTER" => SentLists
    BY <1>1, ListsSent
  <2>2. Len(qte'.condition) = 0 /\ IsList(qte'.condition)
    BY <1>2, <1>3 DEF IsList
  <2> QED BY <1>4, <2>1, <2>2 DEF Compared, SentLists, IsList
<1>6. qte'.kind \in Conditioned => q.kind # "RETURN_ROW_JOIN_FILTER"
  <2>1. Garbage \notin Conditioned
    BY GarbageAssumption DEF Conditioned, Kinds, JoinKinds
  <2> QED BY <1>2, <1>3, <2>1 DEF Header, Unread
<1>7. q.kind # "RETURN_ROW_JOIN_FILTER" /\ AskedList # <<>> => qte'.kind \in Conditioned
  <2>1. AskedList # <<>> => q.kind \in FilterKinds
    BY <1>1, QueryTyped DEF AskedList, FlattenSeq
  <2> QED BY <1>2, <1>3, <2>1 DEF Header, FilterKinds, Unread, Conditioned
<1>8. SlotsInv'
  BY <1>1 DEF SlotsInv
<1>9. ReadInv'
  BY <1>1, <1>4, <1>5, <1>6, <1>7 DEF ReadInv
<1> QED BY <1>1, <1>8, <1>9 DEF CInv

LEMMA ComparisonKeeps ==
  ASSUME CInv, DecodeComparison
  PROVE  CInv'
<1>1. /\ q \in Queries /\ root = query_to_json(q) /\ SlotsInv /\ Header(qte)
      /\ qte.kind \in Conditioned /\ Compared(qte) /\ pc = "comparing"
  BY DEF CInv, DecodeComparison, ReadInv
<1>2. q.kind = qte.kind /\ q.kind # "RETURN_ROW_JOIN_FILTER"
  BY <1>1, ConditionedKind
<1>3. SentLists
  BY <1>1, <1>2, ListsSent
<1>4. PICK i : i = NextComparison
  OBVIOUS
<1>5. i = Len(qte.condition) + 1 /\ i \in 1 .. Len(AskedList) /\ Len(qte.condition) \in Nat
  BY <1>1, <1>3, <1>4 DEF DecodeComparison, NextComparison, SentLists, Compared, IsList
<1> DEFINE c == Comparisons[NextComparison]
<1>6. PICK ct \in IF "comparison_type" \in DOMAIN c THEN {c.comparison_type}
                 ELSE {slots.ct, Garbage},
           lo \in Left(c.left_operand), ro \in Right(c.right_operand) :
        /\ slots' = [ct |-> ct, lo |-> lo, ro |-> ro]
        /\ qte' = [qte EXCEPT !.condition =
                     Append(@, [type |-> ct, left |-> lo, right |-> ro,
                                relation |-> c.comparison,
                                next_relation |-> NextRelation(c)])]
  BY Zenon DEF DecodeComparison
<1>7. UNCHANGED <<q, pc, root, effect>>
  BY DEF DecodeComparison
<1>8. PICK d : d = [type |-> ct, left |-> lo, right |-> ro,
                    relation |-> c.comparison, next_relation |-> c.relation]
  OBVIOUS
<1>9. qte' = [qte EXCEPT !.condition = Append(qte.condition, d)]
  BY <1>6, <1>8 DEF NextRelation
<1>10. Carried => d = AskedComparison(AskedList[i])
  BY <1>1, <1>3, <1>4, <1>5, <1>8, ComparisonRead
<1>11. d.relation = AskedList[i].relation /\ d.next_relation = AskedList[i].next_relation
  <2>1. PICK a \in Comparison : a = AskedList[i] /\ Comparisons[i] = SentComparison(q, a)
    BY <1>3, <1>5 DEF SentLists
  <2> QED BY <1>4, <1>8, <2>1, Sent
<1>12. /\ AskedList' = AskedList /\ (Carried' <=> Carried)
       /\ \A a : AskedComparison(a)' = AskedComparison(a)
  BY <1>7 DEF AskedList, Carried, ReadInFull, NamedInFull, JoinsColumns, AskedComparison,
              AskedOperand, RowOf
<1>13. Header(qte)'
  <2>1. /\ qte'.kind = qte.kind /\ qte'.return_value = qte.return_value
        /\ qte'.table_name = qte.table_name /\ qte'.rec = qte.rec
        /\ qte'.left = qte.left /\ qte'.right = qte.right
        /\ qte' = [kind |-> qte'.kind, return_value |-> qte'.return_value,
                   table_name |-> qte'.table_name, rec |-> qte'.rec,
                   condition |-> qte'.condition, left |-> qte'.left, right |-> qte'.right]
    BY <1>1, <1>9 DEF Header
  <2> QED BY <1>1, <1>7, <2>1 DEF Header, Inserted
<1>14. qte'.condition = Append(qte.condition, d)
  BY <1>1, <1>9 DEF Header
<1>15. Compared(qte)'
  <2>1. PICK s : s = qte.condition
    OBVIOUS
  <2>2. /\ IsList(qte'.condition) /\ Len(qte'.condition) = i
        /\ \A j \in 1 .. Len(s) : qte'.condition[j] = s[j]
        /\ qte'.condition[i] = d
    BY <1>1, <1>5, <1>14, <2>1, ListAppend DEF Compared
  <2>3. \A j \in 1 .. i : j \in 1 .. Len(s) \/ j = i
    BY <1>5, <2>1
  <2>4. Len(qte'.condition) <= Len(AskedList)'
    BY <1>5, <1>12, <2>2
  <2>5. \A j \in 1 .. Len(qte'.condition) :
          /\ qte'.condition[j].relation = AskedList[j].relation
          /\ qte'.condition[j].next_relation = AskedList[j].next_relation
    BY <1>1, <1>11, <2>1, <2>2, <2>3 DEF Compared
  <2>6. Carried => \A j \in 1 .. Len(qte'.condition) :
                     qte'.condition[j] = AskedComparison(AskedList[j])
    BY <1>1, <1>10, <2>1, <2>2, <2>3 DEF Compared
  <2> QED BY <1>12, <2>2, <2>4, <2>5, <2>6 DEF Compared
<1>16. SlotsInv'
  <2>1. lo = Garbage \/ lo.belongs_to_table = "LEFT" \/ q.kind = "RETURN_FIELDS_JOIN_FILTER"
    BY <1>1, <1>2 DEF Left, SlotsInv, Operand
  <2>2. ro = Garbage \/ ro.belongs_to_table = "LEFT"
    BY <1>1 DEF Right, SlotsInv, Operand
  <2> QED BY <1>6, <1>7, <2>1, <2>2 DEF SlotsInv
<1>17. ReadInv'
  BY <1>1, <1>7, <1>9, <1>13, <1>15 DEF ReadInv, Header
<1> QED BY <1>1, <1>7, <1>16, <1>17 DEF CInv

LEMMA CrashKeeps ==
  ASSUME CInv, DecodeCrash
  PROVE  CInv'
<1>1. /\ q \in Queries /\ root = query_to_json(q) /\ SlotsInv /\ Header(qte)
      /\ qte.kind \in Conditioned /\ Compared(qte) /\ pc = "comparing"
      /\ pc' = "crashed" /\ UNCHANGED <<q, root, qte, slots, effect>>
  BY DEF CInv, DecodeCrash, ReadInv
<1>2. q.kind = qte.kind /\ q.kind \in Conditioned /\ q.kind # "RETURN_ROW_JOIN_FILTER"
  BY <1>1, ConditionedKind
<1>3. SentLists
  BY <1>1, <1>2, ListsSent
<1>4. PICK i : i = NextComparison
  OBVIOUS
<1>5. i \in 1 .. Len(AskedList) /\ MayCrash(Comparisons[i])
  BY <1>1, <1>3, <1>4 DEF DecodeCrash, NextComparison, SentLists, Compared, IsList
<1>6. PICK c \in Comparison : Comparisons[i] = SentComparison(q, c)
  BY <1>3, <1>5 DEF SentLists
<1>7. q.kind # "RETURN_ROW_FILTER"
  <2>1. SUFFICES ASSUME q.kind = "RETURN_ROW_FILTER" PROVE FALSE
    OBVIOUS
  <2>2. Comparisons[i].left_operand = c.left
    BY <1>6, <2>1, Sent DEF Typed
  <2>3. "value" \in DOMAIN c.left
    BY ComparisonTyped
  <2> QED BY <1>2, <1>5, <2>1, <2>2, <2>3 DEF MayCrash, MustCrash, ReadsLeftAgain
<1>8. q.kind \notin {"SIMPLE_INSERT", "RETURN_ROW"}
  BY <1>2 DEF Conditioned
<1>9. SlotsInv' /\ Header(qte)'
  BY <1>1 DEF SlotsInv, Header, Inserted
<1> QED BY <1>1, <1>7, <1>8, <1>9 DEF CInv, ReadInv

LEMMA EndKeeps ==
  ASSUME CInv, DecodeEnd
  PROVE  CInv'
<1>1. /\ q \in Queries /\ root = query_to_json(q) /\ SlotsInv /\ Header(qte)
      /\ qte.kind \in Conditioned /\ Compared(qte) /\ pc = "comparing"
      /\ pc' = "decoded" /\ UNCHANGED <<q, root, slots, effect>>
      /\ qte' = [qte EXCEPT !.condition = IF @ = <<>> THEN Garbage ELSE @]
      /\ NextComparison > Len(Comparisons)
  BY DEF CInv, DecodeEnd, ReadInv
<1>2. q.kind # "RETURN_ROW_JOIN_FILTER"
  BY <1>1, ConditionedKind
<1>3. SentLists
  BY <1>1, <1>2, ListsSent
<1>4. Header(qte)'
  <2>1. /\ qte'.kind = qte.kind /\ qte'.return_value = qte.return_value
        /\ qte'.table_name = qte.table_name /\ qte'.rec = qte.rec
        /\ qte'.left = qte.left /\ qte'.right = qte.right
        /\ qte' = [kind |-> qte'.kind, return_value |-> qte'.return_value,
                   table_name |-> qte'.table_name, rec |-> qte'.rec,
                   condition |-> qte'.condition, left |-> qte'.left, right |-> qte'.right]
    BY <1>1 DEF Header
  <2> QED BY <1>1, <2>1 DEF Header, Inserted
<1>5. Len(qte.condition) = Len(AskedList) /\ Len(AskedList) \in Nat
  BY <1>1, <1>3 DEF NextComparison, SentLists, Compared, IsList
<1>6. AskedList # <<>> => qte.condition # <<>>
  <2>1. Len(AskedList) = 0 => AskedList = <<>>
    <3>1. PICK V : AskedList \in Seq(V)
      BY <1>3, ListIsSeq DEF SentLists
    <3> QED BY <3>1
  <2>2. Len(<<>>) = 0
    OBVIOUS
  <2> QED BY <1>5, <2>1, <2>2
<1>7. AskedList # <<>> => qte'.condition = qte.condition
  BY <1>1, <1>6 DEF Header
<1>8. /\ AskedList' = AskedList /\ (Carried' <=> Carried)
      /\ \A a : AskedComparison(a)' = AskedComparison(a)
  BY <1>1 DEF AskedList, Carried, ReadInFull, NamedInFull, JoinsColumns, AskedComparison,
              AskedOperand, RowOf
<1>9. AskedList # <<>> => Compared(qte)'
  BY <1>1, <1>7, <1>8 DEF Compared
<1>10. ReadInv'
  BY <1>1, <1>4, <1>5, <1>7, <1>8, <1>9 DEF ReadInv
<1>11. SlotsInv'
  BY <1>1 DEF SlotsInv
<1> QED BY <1>1, <1>10, <1>11 DEF CInv

LEMMA ReadSame ==
  ASSUME UNCHANGED <<q, qte, slots>>
  PROVE  /\ (Header(qte))' <=> Header(qte)
         /\ (Compared(qte))' <=> Compared(qte)
         /\ SlotsInv' <=> SlotsInv
         /\ AskedList' = AskedList /\ Executed' = Executed
<1>1. /\ AskedList' = AskedList /\ (Carried' <=> Carried)
      /\ \A a : AskedComparison(a)' = AskedComparison(a)
  BY DEF AskedList, Carried, ReadInFull, NamedInFull, JoinsColumns, AskedComparison,
         AskedOperand, RowOf
<1>2. (Compared(qte))' <=> Compared(qte)
  BY <1>1 DEF Compared
<1>3. (Header(qte))' <=> Header(qte)
  BY DEF Header, Inserted
<1>4. Executed' = Executed
  BY DEF Executed
<1> QED BY <1>1, <1>2, <1>3, <1>4 DEF SlotsInv

LEMMA ExecuteKeeps ==
  ASSUME CInv, Execute
  PROVE  CInv'
<1>1. pc = "decoded" /\ pc' = "done" /\ UNCHANGED <<q, root, qte, slots>> /\ effect' = Executed
  BY DEF Execute
<1>2. ReadInv'
  BY <1>1, ReadSame DEF CInv, ReadInv
<1>3. SlotsInv' /\ effect' = Executed'
  BY <1>1, ReadSame DEF CInv
<1> QED BY <1>1, <1>2, <1>3 DEF CInv

LEMMA CodecStutter ==
  ASSUME CInv, UNCHANGED vars
  PROVE  CInv'
<1>1. UNCHANGED <<q, pc, root, qte, slots, effect>>
  BY DEF vars
<1>2. ReadInv' /\ SlotsInv' /\ Executed' = Executed
  BY <1>1, ReadSame DEF CInv, ReadInv
<1> QED BY <1>1, <1>2 DEF CInv

LEMMA CodecStep1 ==
  ASSUME CInv, [Next]_vars
  PROVE  CInv'
BY SendKeeps, ClientCrashKeeps, DecodeKeeps, ComparisonKeeps, CrashKeeps, EndKeeps, ExecuteKeeps, CodecStutter
   DEF Next
-----------------------------------------------------------------------------
(* What is executed is what was asked for, kind by kind.                   *)
LEMMA NothingAsked ==
  ASSUME q \in Queries, q.kind \notin FilterKinds
  PROVE  AskedList = <<>> /\ AskedCondition = <<>>
<1>1. q.filters = <<>>
  BY QueryTyped
<1>2. AskedList = <<>>
  BY <1>1 DEF AskedList, FlattenSeq
<1> QED BY <1>2 DEF AskedCondition

LEMMA ExecutedKind ==
  ASSUME CInv, pc = "done", q.kind \in {"SIMPLE_INSERT", "RETURN_ROW", "RETURN_ROW_FILTER"} \cup Returned
  PROVE  /\ Header(qte) /\ effect = Executed
         /\ qte.kind = q.kind /\ Garbage \notin {qte.kind, qte.return_value}
<1>1. Header(qte) /\ effect = Executed /\ q \in Queries
  BY DEF CInv, ReadInv
<1>2. qte.kind = q.kind /\ qte.return_value \in {"ARRAY", "OK"}
  BY <1>1 DEF Header, Unread, Returned
<1> QED BY <1>1, <1>2, QueryTyped, GarbageAssumption

LEMMA FieldsWhole ==
  ASSUME q \in Queries, \A i \in DOMAIN q.params : q.params[i].type # "FLOAT"
  PROVE  Fields(q.params) = q.params
<1>1. ASSUME NEW i \in DOMAIN q.params
      PROVE  [q.params[i] EXCEPT !.value = Value(q.params[i])] = q.params[i]
  <2>1. q.params[i] = [name |-> q.params[i].name, type |-> q.params[i].type,
                       value |-> q.params[i].value]
    <3>1. q.params \in Seq([name : STRING, type : STRING, value : Seq(STRING)])
      BY QueryTyped
    <3>2. q.params[i] \in [name : STRING, type : STRING, value : Seq(STRING)]
      <4>1. i \in 1 .. Len(q.params)
        BY <3>1
      <4> QED BY <3>1, <4>1, ElementOfSeq
    <3> QED BY <3>2
  <2>2. "value" \in DOMAIN q.params[i]
    BY <2>1
  <2>3. Value(q.params[i]) = q.params[i].value
    BY <2>2 DEF Value, Unpacked
  <2> QED BY <2>1, <2>3
<1>2. q.params = [i \in DOMAIN q.params |-> q.params[i]]
  BY QueriesAssumption DEF ParsedQuery
<1>3. Fields(q.params) = [i \in DOMAIN q.params |-> q.params[i]]
  BY <1>1 DEF Fields
<1> QED BY <1>2, <1>3

(* A list that a longer one begins with is a prefix of it.                 *)
LEMMA PrefixAlike ==
  ASSUME NEW s, IsList(s), NEW t, IsList(t), Len(s) <= Len(t),
         \A i \in 1 .. Len(s) : t[i] = s[i]
  PROVE  IsPrefix(s, t)
<1>1. Len(s) \in Nat /\ Len(t) \in Nat
  BY DEF IsList
<1>2. PICK V : s \in Seq(V)
  BY ListIsSeq
<1>3. PICK W : t \in Seq(W)
  BY ListIsSeq
<1>4. SubSeq(s, 1, Len(s)) = SubSeq(t, 1, Len(s))
  BY <1>1, <1>2, <1>3
<1> QED BY <1>4 DEF IsPrefix

LEMMA PrefixAppended ==
  ASSUME NEW s, IsList(s), NEW t, t \in {s, Append(s, Garbage)}
  PROVE  IsPrefix(s, t)
<1>1. IsList(t) /\ Len(s) <= Len(t) /\ \A i \in 1 .. Len(s) : t[i] = s[i]
  <2>1. CASE t = s
    BY <2>1 DEF IsList
  <2>2. CASE t = Append(s, Garbage)
    BY <2>2, ListAppend DEF IsList
  <2> QED BY <2>1, <2>2
<1> QED BY <1>1, PrefixAlike

LEMMA RunsInsert ==
  ASSUME CInv, pc = "done", Carried, q.kind = "SIMPLE_INSERT"
  PROVE  DoesAsAsked
<1>1. /\ Header(qte) /\ effect = Executed /\ q \in Queries
      /\ qte.kind = q.kind /\ Garbage \notin {qte.kind, qte.return_value}
  BY ExecutedKind DEF CInv
<1>2. effect = Does(q.kind, q.loops[1].table, qte.rec, <<>>, <<>>, Garbage, Garbage)
  BY <1>1 DEF Executed, Header
<1>3. AskedCondition = <<>>
  BY <1>1, NothingAsked DEF FilterKinds
<1>4. Asked = Does(q.kind, q.loops[1].table, q.params, <<>>, <<>>, Garbage, Garbage)
  BY <1>3 DEF Asked, JoinKinds
<1>5. qte.rec \in {q.params, Append(q.params, Garbage)}
  <2>1. Fields(q.params) = q.params
    BY <1>1, FieldsWhole DEF Carried
  <2> QED BY <1>1, <2>1 DEF Header, Inserted
<1>6. IsPrefix(q.params, qte.rec)
  <2>1. IsList(q.params)
    BY <1>1, QueriesAssumption, SeqIsList DEF ParsedQuery
  <2> QED BY <1>5, <2>1, PrefixAppended
<1> QED BY <1>2, <1>4, <1>6, GarbageAssumption DEF DoesAsAsked, Does, Nothing

LEMMA FilterAsked ==
  ASSUME q \in Queries, q.kind \in FilterKinds
  PROVE  AskedList # <<>>
<1>1. PICK n \in Nat \ {0} : Len(q.filters) = n /\ DOMAIN q.filters = 1 .. n
  <2>1. q.filters \in Seq(Seq(Comparison) \ {<<>>}) /\ q.filters # <<>>
    BY QueryTyped
  <2>2. Len(q.filters) \in Nat \ {0} /\ DOMAIN q.filters = 1 .. Len(q.filters)
    BY ONLY <2>1
  <2> QED BY <2>2
<1>2. \A i \in 1 .. n : q.filters[i] \in Seq(Comparison) /\ q.filters[i] # <<>>
  BY <1>1, QueryTyped
<1>3. PICK at : Joins(AskedList, at, n, q.filters)
  <2>1. /\ n \in Nat \ {0} /\ DOMAIN q.filters = 1 .. n /\ Len(q.filters) = n
        /\ \A i \in 1 .. n : q.filters[i] \in Seq(Comparison)
    BY <1>1, <1>2
  <2>2. \E at : Joins(FlattenSeq(q.filters), at, n, q.filters)
    BY ONLY <2>1, FlattenJoins
  <2> QED BY <2>2 DEF AskedList
<1>4. \A i \in 1 .. n : Len(q.filters[i]) \in Nat \ {0}
  BY <1>2
<1>5. PICK l \in 1 .. n : n + 1 = l + 1
  OBVIOUS
<1>6. at[l] \in Nat /\ Len(AskedList) = at[l] + Len(q.filters[l])
  <2>1. l \in 1 .. n + 1
    OBVIOUS
  <2> QED BY <1>3, <1>5, <2>1 DEF Joins
<1>7. Len(AskedList) # 0
  BY <1>4, <1>6
<1> QED BY <1>7

(* A list read to its end is the one asked for.                            *)
LEMMA ConditionAsked ==
  ASSUME SentLists, Compared(qte), Len(qte.condition) = Len(AskedList), Carried
  PROVE  AskedCondition = qte.condition
<1>1. /\ qte.condition = [i \in 1 .. Len(AskedList) |-> qte.condition[i]]
      /\ \A i \in 1 .. Len(AskedList) : qte.condition[i] = AskedComparison(AskedList[i])
  BY DEF Compared, IsList
<1>2. AskedCondition = [i \in 1 .. Len(AskedList) |-> AskedComparison(AskedList[i])]
  BY DEF AskedCondition, SentLists
<1> QED BY <1>1, <1>2

LEMMA RunsRows ==
  ASSUME CInv, pc = "done", Carried, q.kind \in {"RETURN_ROW", "RETURN_ROW_FILTER"}
  PROVE  DoesAsAsked
<1>1. /\ Header(qte) /\ effect = Executed /\ q \in Queries /\ root = query_to_json(q)
      /\ qte.kind = q.kind /\ Garbage \notin {qte.kind, qte.return_value}
  BY ExecutedKind DEF CInv
<1>2. PICK rec, condition :
        /\ effect = Does(q.kind, q.loops[1].table, rec, condition,
                         Columns[q.loops[1].table], Garbage, Garbage)
        /\ condition = IF q.kind = "RETURN_ROW" THEN <<>> ELSE qte.condition
  BY <1>1 DEF Executed, Header
<1>3. AskedCondition = condition
  <2>1. CASE q.kind = "RETURN_ROW"
    BY <1>1, <1>2, <2>1, NothingAsked DEF FilterKinds
  <2>2. CASE q.kind = "RETURN_ROW_FILTER"
    <3>1. SentLists
      BY <1>1, <2>2, ListsSent
    <3>2. AskedList # <<>>
      BY <1>1, <2>2, FilterAsked DEF FilterKinds
    <3> QED BY <1>2, <2>2, <3>1, <3>2, ConditionAsked DEF CInv, ReadInv
  <2> QED BY <2>1, <2>2
<1>4. Asked = Does(q.kind, q.loops[1].table, q.params, condition,
                   Columns[q.loops[1].table], Garbage, Garbage)
  BY <1>3 DEF Asked, JoinKinds
<1> QED BY <1>1, <1>2, <1>4 DEF DoesAsAsked, Does, Nothing

LEMMA RunsJoin ==
  ASSUME CInv, pc = "done", Carried, q.kind \in Returned
  PROVE  DoesAsAsked
<1>1. /\ Header(qte) /\ effect = Executed /\ q \in Queries /\ root = query_to_json(q)
      /\ qte.kind = q.kind /\ Garbage \notin {qte.kind, qte.return_value}
  BY ExecutedKind DEF CInv
<1>2. /\ qte.left = SentTable(q, 1, q.join.left)
      /\ qte.right = SentTable(q, 2, q.join.right)
  BY <1>1 DEF Header
<1>3. PICK in, condition :
        /\ effect = Does(q.kind, Garbage, Garbage, condition, Garbage,
                         Joining(qte.left, q.loops[1].table), Joining(qte.right, in))
        /\ in = IF q.kind = "RETURN_FIELDS_JOIN" THEN q.loops[2].table ELSE q.loops[1].table
        /\ condition = IF q.kind = "RETURN_FIELDS_JOIN" THEN <<>> ELSE qte.condition
  BY <1>1, <1>2 DEF Executed, Returned, SentTable
<1>4. Joining(qte.left, q.loops[1].table) = AskedJoin(q.loops[1], q.join.left)
  <2>1. ColumnOf(q.loops[1].table, q.join.left) = q.join.left
    BY DEF Carried, JoinsColumns, Returned, JoinKinds, ColumnOf
  <2> QED BY <1>2, <2>1 DEF Joining, AskedJoin, SentTable, ReturnColumns
<1>5. Joining(qte.right, in) = AskedJoin(q.loops[2], q.join.right)
  <2>1. ColumnOf(in, q.join.right) = q.join.right
    BY <1>3 DEF Carried, JoinsColumns, Returned, JoinKinds, ColumnOf
  <2>2. q.loops[1].row # q.loops[2].row
    BY DEF Carried, JoinsColumns, Returned, JoinKinds
  <2> QED BY <1>2, <2>1, <2>2 DEF Joining, AskedJoin, SentTable, ReturnColumns
<1>6. AskedCondition = condition
  <2>1. CASE q.kind = "RETURN_FIELDS_JOIN"
    BY <1>1, <1>3, <2>1, NothingAsked DEF FilterKinds
  <2>2. CASE q.kind = "RETURN_FIELDS_JOIN_FILTER"
    <3>1. SentLists
      BY <1>1, <2>2, ListsSent
    <3>2. AskedList # <<>>
      BY <1>1, <2>2, FilterAsked DEF FilterKinds
    <3> QED BY <1>3, <2>2, <3>1, <3>2, ConditionAsked DEF CInv, ReadInv
  <2> QED BY <2>1, <2>2 DEF Returned
<1>7. Asked = Does(q.kind, Garbage, Garbage, condition, Garbage,
                   AskedJoin(q.loops[1], q.join.left), AskedJoin(q.loops[2], q.join.right))
  BY <1>6 DEF Asked, JoinKinds, Returned
<1> QED BY <1>1, <1>3, <1>4, <1>5, <1>7 DEF DoesAsAsked, Does, Nothing, Returned
-----------------------------------------------------------------------------
(* Columns of a record.                                                    *)
Sizes(f, n, columns) ==
  f = [k \in 0 .. n |-> IF k = 0 THEN 0 ELSE f[k - 1] + columns[k].size]

LEMMA SizesExists ==
  ASSUME NEW columns
  PROVE  \A n \in Nat : \E f : Sizes(f, n, columns)
<1> DEFINE N == {n \in Nat : ~ \E f : Sizes(f, n, columns)}
<1>1. SUFFICES ASSUME N # {} PROVE FALSE
  OBVIOUS
<1>2. PICK n \in N : \A y \in N : n <= y
  <2>1. N \in SUBSET Nat
    OBVIOUS
  <2> HIDE DEF N
  <2> QED BY <1>1, <2>1, Least
<1>3. n # 0
  <2>1. Sizes([k \in 0 .. 0 |-> 0], 0, columns)
    BY DEF Sizes
  <2> QED BY <2>1
<1>4. n - 1 \in Nat /\ ~(n <= n - 1)
  BY <1>3
<1>5. PICK f : Sizes(f, n - 1, columns)
  BY <1>2, <1>4
<1> DEFINE Sized(m) == IF m = 0 THEN 0 ELSE f[m - 1] + columns[m].size
           g == [m \in 0 .. n |-> Sized(m)]
<1>6. \A m \in 0 .. n - 1 : f[m] = Sized(m)
  BY <1>5 DEF Sizes
<1>7. ASSUME NEW m \in 0 .. n
      PROVE  g[m] = IF m = 0 THEN 0 ELSE g[m - 1] + columns[m].size
  <2>1. CASE m = 0
    BY <2>1
  <2>2. CASE m # 0
    <3>1. m - 1 \in 0 .. n - 1 /\ m - 1 \in 0 .. n
      BY <1>4, <2>2
    <3>2. g[m - 1] = f[m - 1]
      BY <1>6, <3>1
    <3> QED BY <2>2, <3>2
  <2> QED BY <2>1, <2>2
<1>8. g = [m \in 0 .. n |-> g[m]]
  OBVIOUS
<1> HIDE DEF g
<1>9. Sizes(g, n, columns)
  BY <1>7, <1>8 DEF Sizes
<1> QED BY <1>2, <1>9

LEMMA LayoutTyped ==
  ASSUME NEW t \in DOMAIN Layout
  PROVE  /\ Len(Layout[t]) \in Nat /\ DOMAIN Layout[t] = 1 .. Len(Layout[t])
         /\ \A i \in 1 .. Len(Layout[t]) :
              /\ Layout[t][i].size \in Nat
              /\ Layout[t][i].type # "STRING" => Layout[t][i].size = Width(Layout[t][i].type)
<1> DEFINE C == [name : STRING, type : {"INTEGER", "FLOAT", "BOOL", "STRING"}, size : 0 .. 255]
<1>1. Layout[t] \in Seq(C)
  BY LayoutAssumption
<1>2. \A c \in C : c.size \in Nat
  OBVIOUS
<1> HIDE DEF C
<1>3. ASSUME NEW i \in 1 .. Len(Layout[t]) PROVE Layout[t][i].size \in Nat
  <2>1. Layout[t][i] \in C
    BY <1>1, ElementOfSeq
  <2> QED BY <1>2, <2>1
<1>4. Len(Layout[t]) \in Nat /\ DOMAIN Layout[t] = 1 .. Len(Layout[t])
  BY <1>1
<1> QED BY <1>3, <1>4, LayoutAssumption

(* A column begins where the one in front of it ends.                      *)
LEMMA Offsets ==
  ASSUME NEW t \in DOMAIN Layout
  PROVE  /\ SizeBefore(t, 1) = 0
         /\ \A i \in 1 .. Len(Layout[t]) + 1 : SizeBefore(t, i) \in Nat
         /\ \A i \in 1 .. Len(Layout[t]) :
              SizeBefore(t, i + 1) = SizeBefore(t, i) + Layout[t][i].size
<1>1. PICK n \in Nat : n = Len(Layout[t])
  BY LayoutTyped
<1> DEFINE size == CHOOSE f : Sizes(f, n, Layout[t])
<1>2. Sizes(size, n, Layout[t])
  BY SizesExists
<1>3. \A i : SizeBefore(t, i) = size[i - 1]
  BY <1>1 DEF SizeBefore, Sizes
<1> HIDE DEF size
<1>4. \A k \in 0 .. n : size[k] = IF k = 0 THEN 0 ELSE size[k - 1] + Layout[t][k].size
  BY <1>2 DEF Sizes
<1>5. \A k \in 0 .. n : size[k] \in Nat
  <2> DEFINE N == {k \in 0 .. n : size[k] \notin Nat}
  <2>1. SUFFICES ASSUME N # {} PROVE FALSE
    OBVIOUS
  <2>2. PICK k \in N : \A y \in N : k <= y
    <3>1. N \in SUBSET Nat
      OBVIOUS
    <3> HIDE DEF N
    <3> QED BY <2>1, <3>1, Least
  <2>3. k # 0
    BY <1>4
  <2>4. k - 1 \in 0 .. n /\ ~(k <= k - 1) /\ k \in 1 .. n
    BY <2>3
  <2>5. size[k - 1] \in Nat /\ Layout[t][k].size \in Nat
    BY <1>1, <2>2, <2>4, LayoutTyped
  <2> QED BY <1>4, <2>3, <2>5
<1>6. SizeBefore(t, 1) = 0
  BY <1>3, <1>4
<1>7. ASSUME NEW i \in 1 .. n + 1 PROVE SizeBefore(t, i) \in Nat
  BY <1>3, <1>5
<1>8. ASSUME NEW i \in 1 .. n
      PROVE  SizeBefore(t, i + 1) = SizeBefore(t, i) + Layout[t][i].size
  <2>1. i + 1 - 1 = i /\ i \in 0 .. n /\ i # 0
    OBVIOUS
  <2> QED BY <1>3, <1>4, <2>1
<1> QED BY <1>1, <1>6, <1>7, <1>8

(* A column ends before any later one begins.                              *)
LEMMA OffsetsGrow ==
  ASSUME NEW t \in DOMAIN Layout, NEW i \in 1 .. Len(Layout[t]),
         NEW j \in i + 1 .. Len(Layout[t]) + 1
  PROVE  SizeBefore(t, i) + Layout[t][i].size <= SizeBefore(t, j)
<1>1. PICK n \in Nat : n = Len(Layout[t])
  BY LayoutTyped
<1> DEFINE end == SizeBefore(t, i + 1)
           N == {k \in i + 1 .. n + 1 : ~(end <= SizeBefore(t, k))}
<1>2. end \in Nat /\ end = SizeBefore(t, i) + Layout[t][i].size
  <2>1. i + 1 \in 1 .. n + 1
    BY <1>1
  <2> QED BY <1>1, <2>1, Offsets
<1>3. SUFFICES ASSUME N # {} PROVE FALSE
  BY <1>1, <1>2
<1>4. PICK k \in N : \A y \in N : k <= y
  <2>1. N \in SUBSET Nat
    BY <1>1
  <2> HIDE DEF N
  <2> QED BY <1>3, <2>1, Least
<1>5. k # i + 1
  BY <1>2
<1>6. PICK l \in i + 1 .. n : k = l + 1
  <2>1. k - 1 \in i + 1 .. n /\ k = (k - 1) + 1
    BY <1>1, <1>5
  <2> QED BY <2>1
<1>7. end <= SizeBefore(t, l)
  <2>1. l \in i + 1 .. n + 1 /\ ~(k <= l)
    BY <1>1, <1>6
  <2> QED BY <1>4, <2>1
<1>8. l \in 1 .. n /\ l \in 1 .. n + 1
  BY <1>1
<1>9. /\ SizeBefore(t, k) = SizeBefore(t, l) + Layout[t][l].size
      /\ SizeBefore(t, l) \in Nat /\ Layout[t][l].size \in Nat
  BY <1>1, <1>6, <1>8, Offsets, LayoutTyped
<1>10. end <= SizeBefore(t, k)
  <2> HIDE DEF end
  <2> QED BY <1>2, <1>7, <1>9
<1> QED BY <1>4, <1>10

(* Different columns have no byte in common, and every one is in the row.  *)
LEMMA Apart ==
  ASSUME NEW t \in DOMAIN Layout, NEW i \in 1 .. Len(Layout[t]), NEW k \in 1 .. Len(Layout[t]),
         i # k, NEW at \in 1 .. Layout[t][i].size
  PROVE  SizeBefore(t, i) + at \notin
           SizeBefore(t, k) + 1 .. SizeBefore(t, k) + Layout[t][k].size
<1>1. PICK n, x, y, a, b \in Nat :
        /\ n = Len(Layout[t]) /\ x = SizeBefore(t, i) /\ y = SizeBefore(t, k)
        /\ a = Layout[t][i].size /\ b = Layout[t][k].size
  <2>1. i \in 1 .. Len(Layout[t]) + 1 /\ k \in 1 .. Len(Layout[t]) + 1
    BY LayoutTyped
  <2> QED BY <2>1, LayoutTyped, Offsets
<1>2. x + a <= y \/ y + b <= x
  <2>1. CASE i < k
    <3>1. k \in i + 1 .. Len(Layout[t]) + 1
      BY <1>1, <2>1
    <3> QED BY <1>1, <3>1, OffsetsGrow
  <2>2. CASE k < i
    <3>1. i \in k + 1 .. Len(Layout[t]) + 1
      BY <1>1, <2>2
    <3> QED BY <1>1, <3>1, OffsetsGrow
  <2> QED BY <1>1, <2>1, <2>2
<1>3. at \in 1 .. a
  BY <1>1
<1>4. x + at \notin y + 1 .. y + b
  BY <1>2, <1>3
<1> QED BY <1>1, <1>4

RowSize(t) == SizeBefore(t, Len(Layout[t]) + 1)

LEMMA InRow ==
  ASSUME NEW t \in DOMAIN Layout, NEW i \in 1 .. Len(Layout[t])
  PROVE  /\ SizeBefore(t, i) \in Nat /\ Layout[t][i].size \in Nat /\ RowSize(t) \in Nat
         /\ SizeBefore(t, i) + Layout[t][i].size <= RowSize(t)
         /\ \A at \in 1 .. Layout[t][i].size : SizeBefore(t, i) + at \in 1 .. RowSize(t)
<1>1. Len(Layout[t]) + 1 \in i + 1 .. Len(Layout[t]) + 1 /\ i \in 1 .. Len(Layout[t]) + 1
      /\ Len(Layout[t]) + 1 \in 1 .. Len(Layout[t]) + 1
  BY LayoutTyped
<1>2. PICK x, a, z \in Nat :
        x = SizeBefore(t, i) /\ a = Layout[t][i].size /\ z = RowSize(t)
  BY <1>1, LayoutTyped, Offsets DEF RowSize
<1>3. x + a <= z
  BY <1>1, <1>2, OffsetsGrow DEF RowSize
<1>4. \A at \in 1 .. a : x + at \in 1 .. z
  BY <1>3
<1> QED BY <1>2, <1>3, <1>4

(* With different names the first column of a name is the last one.        *)
LEMMA CalledOne ==
  ASSUME NEW t \in DOMAIN Layout, IsInjective(Columns[t]), NEW k \in 1 .. Len(Layout[t])
  PROVE  /\ \A i \in 1 .. Len(Layout[t]) : Layout[t][i].name = Layout[t][k].name => i = k
         /\ get_column_offset_by_name(t, Layout[t][k].name) = SizeBefore(t, k)
         /\ get_column_size_by_name(t, Layout[t][k].name) = Layout[t][k].size
<1>1. DOMAIN Layout[t] = 1 .. Len(Layout[t]) /\ k \in Nat
  BY LayoutTyped
<1>2. Columns[t] = [i \in 1 .. Len(Layout[t]) |-> Layout[t][i].name]
  BY <1>1, LayoutAssumption DEF Names
<1>3. \A i \in 1 .. Len(Layout[t]) : Layout[t][i].name = Layout[t][k].name => i = k
  BY <1>2 DEF IsInjective
<1>4. PICK S : S = Called(t, Layout[t][k].name)
  OBVIOUS
<1>5. S = {k}
  BY <1>1, <1>3, <1>4 DEF Called
<1>6. Min(S) = k /\ Max(S) = k
  BY <1>1, <1>5 DEF Min, Max
<1>7. S # {}
  BY <1>5
<1> QED BY <1>3, <1>4, <1>6, <1>7
        DEF get_column_offset_by_name, get_column_size_by_name

LEMMA CalledNone ==
  ASSUME NEW t \in DOMAIN Layout, NEW name,
         \A i \in 1 .. Len(Layout[t]) : Layout[t][i].name # name
  PROVE  get_column_offset_by_name(t, name) = -1 /\ get_column_size_by_name(t, name) = 0
<1>1. Called(t, name) = {}
  BY LayoutTyped DEF Called
<1> QED BY <1>1 DEF get_column_offset_by_name, get_column_size_by_name

(* Copying a value writes the bytes of its column and no other.            *)
LEMMA CopiedHere ==
  ASSUME NEW t \in DOMAIN Layout, IsInjective(Columns[t]), DOMAIN data = 1 .. RowSize(t),
         NEW i \in 1 .. Len(Layout[t]), NEW l, NEW at \in 1 .. Layout[t][i].size
  PROVE  Copied(t, Layout[t][i].name, l)[SizeBefore(t, i) + at] =
           IF at \in DOMAIN Bytes(l) THEN Bytes(l)[at] ELSE Garbage
<1>1. PICK y, b \in Nat : y = SizeBefore(t, i) /\ b = Layout[t][i].size
  BY InRow
<1>2. PICK x : x = y + at
  OBVIOUS
<1>3. x \in y + 1 .. y + b /\ x - y = at
  BY <1>1, <1>2
<1>4. x \in DOMAIN data
  <2>1. SizeBefore(t, i) + at \in 1 .. RowSize(t)
    BY InRow
  <2> QED BY <1>1, <1>2, <2>1
<1>5. Copied(t, Layout[t][i].name, l)[x] =
        IF x \in y + 1 .. y + b
        THEN IF x - y \in DOMAIN Bytes(l) THEN Bytes(l)[x - y] ELSE Garbage
        ELSE data[x]
  <2>1. /\ get_column_offset_by_name(t, Layout[t][i].name) = y
        /\ get_column_size_by_name(t, Layout[t][i].name) = b
    BY <1>1, CalledOne
  <2> QED BY <1>4, <2>1 DEF Copied
<1> QED BY <1>1, <1>2, <1>3, <1>5

LEMMA CopiedElsewhere ==
  ASSUME NEW t \in DOMAIN Layout, IsInjective(Columns[t]), DOMAIN data = 1 .. RowSize(t),
         NEW k \in 1 .. Len(Layout[t]), NEW l,
         NEW i \in 1 .. Len(Layout[t]), i # k, NEW at \in 1 .. Layout[t][i].size
  PROVE  Copied(t, Layout[t][k].name, l)[SizeBefore(t, i) + at] = data[SizeBefore(t, i) + at]
<1>1. PICK x, y, b : x = SizeBefore(t, i) + at /\ y = SizeBefore(t, k) /\ b = Layout[t][k].size
  OBVIOUS
<1>2. x \in DOMAIN data
  <2>1. SizeBefore(t, i) + at \in 1 .. RowSize(t)
    BY InRow
  <2> QED BY <1>1, <2>1
<1>3. x \notin y + 1 .. y + b
  BY <1>1, Apart
<1>4. Copied(t, Layout[t][k].name, l)[x] =
        IF x \in y + 1 .. y + b
        THEN IF x - y \in DOMAIN Bytes(l) THEN Bytes(l)[x - y] ELSE Garbage
        ELSE data[x]
  <2>1. /\ get_column_offset_by_name(t, Layout[t][k].name) = y
        /\ get_column_size_by_name(t, Layout[t][k].name) = b
    BY <1>1, CalledOne
  <2> QED BY <1>2, <2>1 DEF Copied
<1> QED BY <1>1, <1>3, <1>4

LEMMA CopiedNowhere ==
  ASSUME NEW t \in DOMAIN Layout, NEW name, NEW l,
         \A i \in 1 .. Len(Layout[t]) : Layout[t][i].name # name,
         NEW at \in DOMAIN data
  PROVE  Copied(t, name, l)[at] = data[at]
<1>1. (-1 + 1) .. (-1 + 0) = {}
  OBVIOUS
<1>2. get_column_offset_by_name(t, name) = -1 /\ get_column_size_by_name(t, name) = 0
  BY CalledNone
<1> QED BY <1>1, <1>2 DEF Copied
-----------------------------------------------------------------------------
(* The row as it is built.  Among the first m fields, those for a column:  *)
Before(name, m) == {j \in 1 .. m : q.params[j].name = name}

(* What byte `at' of a column of that name holds after the first m fields. *)
Cell(name, m, at) ==
  IF Before(name, m) = {} THEN Zero
  ELSE LET bytes == Bytes(Fields(q.params)[Max(Before(name, m))])
       IN  IF at \in DOMAIN bytes THEN bytes[at] ELSE Garbage

Laid(t, m) ==
  \A i \in 1 .. Len(Layout[t]) : \A at \in 1 .. Layout[t][i].size :
    data[SizeBefore(t, i) + at] = Cell(Layout[t][i].name, m, at)

Building(t) ==
  /\ pc = "done" /\ q.kind = "SIMPLE_INSERT"
  /\ effect.table = t /\ effect.rec \in Inserted
  /\ building \in {"fields", "built"} =>
       /\ field \in 1 .. Len(q.params) + 1
       /\ IsList(data) /\ Len(data) = RowSize(t)
       /\ IsInjective(Columns[t]) => Laid(t, field - 1)
  /\ building = "built" => field = Len(q.params) + 1

(* The inductive invariant of Records.                                     *)
RInv ==
  /\ CInv
  /\ building = "no" => field = 1
  /\ building # "no" => Building(q.loops[1].table)

LEMMA LastBefore ==
  ASSUME NEW m \in Nat, NEW name
  PROVE  /\ q.params[m + 1].name = name => /\ Before(name, m + 1) # {}
                                         /\ Max(Before(name, m + 1)) = m + 1
         /\ q.params[m + 1].name # name => Before(name, m + 1) = Before(name, m)
<1>1. 1 .. m + 1 = (1 .. m) \cup {m + 1}
  OBVIOUS
<1>2. CASE q.params[m + 1].name = name
  <2>1. PICK N : N = Before(name, m + 1)
    OBVIOUS
  <2>2. m + 1 \in N /\ \A y \in N : y \in Nat /\ m + 1 >= y
    BY <1>2, <2>1 DEF Before
  <2>3. \A x \in N : (\A y \in N : x >= y) => x = m + 1
    BY <2>2
  <2>4. Max(N) = m + 1
    BY <2>2, <2>3 DEF Max
  <2> QED BY <1>2, <2>1, <2>2, <2>4
<1>3. CASE q.params[m + 1].name # name
  BY <1>1, <1>3 DEF Before
<1> QED BY <1>2, <1>3

LEMMA MaxBefore ==
  ASSUME NEW m \in Nat, NEW name, Before(name, m) # {}
  PROVE  Max(Before(name, m)) \in 1 .. m /\ q.params[Max(Before(name, m))].name = name
<1>1. PICK N : N = Before(name, m)
  OBVIOUS
<1>2. N \in SUBSET (1 .. m) /\ N # {}
  BY <1>1 DEF Before
<1> DEFINE D == {z \in 0 .. m : m - z \in N}
<1>3. D \in SUBSET Nat /\ D # {}
  <2>1. PICK y \in N : TRUE
    BY <1>2
  <2>2. m - y \in 0 .. m /\ m - (m - y) = y
    BY <1>2
  <2> QED BY <2>2
<1>4. PICK d \in D : \A z \in D : d <= z
  <2> HIDE DEF D
  <2> QED BY <1>3, Least
<1>5. m - d \in N /\ \A y \in N : m - d >= y
  <2>1. ASSUME NEW y \in N PROVE m - d >= y
    <3>1. m - y \in 0 .. m /\ m - (m - y) = y /\ y \in Nat
      BY <1>2
    <3>2. d <= m - y
      BY <1>4, <3>1
    <3>3. d \in Nat
      BY <1>3
    <3> QED BY <3>1, <3>2, <3>3
  <2> QED BY <2>1
<1>6. Max(N) \in N
  BY <1>5 DEF Max
<1> QED BY <1>1, <1>2, <1>6 DEF Before

LEMMA InsertTable ==
  ASSUME q \in Queries, q.kind = "SIMPLE_INSERT"
  PROVE  /\ q.loops[1].table \in DOMAIN Layout
         /\ Len(q.params) \in Nat /\ DOMAIN q.params = 1 .. Len(q.params)
         /\ \A i \in 1 .. Len(q.params) : Length(q.params[i].value) \in Nat
<1>1. Len(q.params) \in Nat /\ DOMAIN q.params = 1 .. Len(q.params)
  <2>1. q.params \in Seq([name : STRING, type : STRING, value : Seq(STRING)])
    BY QueryTyped
  <2> QED BY <2>1
<1> QED BY <1>1, InsertAssumption

(* The row begins with zeros, once for every INSERT that was read.         *)
LEMMA InsertRead ==
  ASSUME CInv, pc = "done", effect.kind = "SIMPLE_INSERT"
  PROVE  /\ q.kind = "SIMPLE_INSERT" /\ effect.table = q.loops[1].table
         /\ effect.rec \in Inserted
<1>1. Header(qte) /\ effect = Executed /\ q \in Queries /\ q.kind \in Kinds
  BY QueryTyped DEF CInv, ReadInv
<1>2. Garbage \notin Kinds /\ "SIMPLE_INSERT" \in Kinds
  BY GarbageAssumption DEF Kinds
<1>3. Nothing.kind # "SIMPLE_INSERT"
  BY <1>2 DEF Nothing
<1>4. Garbage \notin {qte.kind, qte.return_value}
  <2>1. SUFFICES ASSUME Garbage \in {qte.kind, qte.return_value} PROVE FALSE
    OBVIOUS
  <2>2. effect = Nothing
    BY <1>1, <2>1 DEF Executed
  <2> QED BY <1>3, <2>2
<1>5. qte.kind = q.kind /\ q.kind # "COMPLEX_INSERT"
  BY <1>1, <1>4 DEF Header
<1>6. q.kind \in Kinds \ {"COMPLEX_INSERT", "RETURN_ROW_JOIN", "RETURN_ROW_JOIN_FILTER"}
  BY <1>1, <1>4, <1>5 DEF Header, Unread
<1>7. effect.kind = q.kind
  BY <1>1, <1>4, <1>5, <1>6 DEF Executed, Does, Kinds, JoinKinds
<1>8. q.kind = "SIMPLE_INSERT"
  BY <1>7
<1>9. effect.table = qte.table_name /\ effect.rec = qte.rec
  BY <1>1, <1>4, <1>5, <1>8 DEF Executed, Does
<1> QED BY <1>1, <1>8, <1>9 DEF Header

LEMMA RecordsStart == RecordsInit => RInv
BY CodecInit DEF RecordsInit, RInv

LEMMA CellSame ==
  ASSUME UNCHANGED q
  PROVE  /\ \A name, m, at : Cell(name, m, at)' = Cell(name, m, at)
         /\ Inserted' = Inserted
BY DEF Cell, Before, Inserted

LEMMA CodecStepKeeps ==
  ASSUME RInv, CodecStep
  PROVE  RInv'
<1>1. CInv' /\ UNCHANGED <<data, field, building>>
  BY CodecStep1 DEF RInv, CodecStep
<1>2. building = "no"
  BY DEF RInv, Building, CodecStep, Next, Send, ClientCrash, Decode, DecodeComparison,
         DecodeCrash, DecodeEnd, Execute
<1> QED BY <1>1, <1>2 DEF RInv

LEMMA CreateKeeps ==
  ASSUME RInv, create_record
  PROVE  RInv'
<1>1. /\ CInv /\ pc = "done" /\ effect.kind = "SIMPLE_INSERT" /\ building = "no" /\ field = 1
      /\ q \in Queries
      /\ building' = "fields" /\ UNCHANGED <<q, pc, root, qte, slots, effect, field>>
  BY DEF RInv, create_record, CInv, vars
<1>2. CInv'
  BY <1>1, CodecStutter DEF vars
<1>3. /\ q.kind = "SIMPLE_INSERT" /\ effect.table = q.loops[1].table
      /\ effect.rec \in Inserted
  BY <1>1, InsertRead
<1>4. PICK t \in DOMAIN Layout : t = q.loops[1].table
  BY <1>1, <1>3, InsertTable
<1>5. RowSize(t) \in Nat
  <2>1. Len(Layout[t]) + 1 \in 1 .. Len(Layout[t]) + 1
    BY LayoutTyped
  <2> QED BY <2>1, Offsets DEF RowSize
<1>6. data' = [i \in 1 .. RowSize(t) |-> Zero]
  BY <1>3, <1>4 DEF create_record, RowSize
<1>7. IsList(data') /\ Len(data') = RowSize(t)
  <2>1. PICK d : d = data'
    OBVIOUS
  <2>2. PICK n \in Nat : n = RowSize(t)
    BY <1>5
  <2>3. d = [i \in 1 .. n |-> d[i]]
    BY <1>6, <2>1, <2>2
  <2> QED BY <2>1, <2>2, <2>3, FunctionIsList
<1>8. Laid(t, field - 1)'
  <2>1. \A name, at : Cell(name, 0, at)' = Zero
    BY DEF Cell, Before
  <2>2. ASSUME NEW i \in 1 .. Len(Layout[t]), NEW at \in 1 .. Layout[t][i].size
        PROVE  data'[SizeBefore(t, i) + at] = Zero
    BY <1>6, InRow
  <2>3. field' - 1 = 0
    BY <1>1
  <2> QED BY <2>1, <2>2, <2>3 DEF Laid
<1>9. /\ effect'.table = t /\ effect'.rec \in Inserted' /\ pc' = "done"
      /\ q'.kind = "SIMPLE_INSERT" /\ q'.loops[1].table = t
  BY <1>1, <1>3, <1>4, CellSame
<1>10. field' \in 1 .. Len(q'.params) + 1
  BY <1>1, <1>3, InsertTable
<1>11. Building(t)'
  BY <1>1, <1>7, <1>8, <1>9, <1>10 DEF Building
<1> QED BY <1>1, <1>2, <1>9, <1>11 DEF RInv

LEMMA FieldsListed ==
  ASSUME Len(q.params) \in Nat, DOMAIN q.params = 1 .. Len(q.params)
  PROVE  IsList(Fields(q.params)) /\ Len(Fields(q.params)) = Len(q.params)
<1>1. PICK f, n : f = Fields(q.params) /\ n = Len(q.params)
  OBVIOUS
<1>2. f = [i \in 1 .. n |-> f[i]] /\ n \in Nat
  BY <1>1 DEF Fields
<1> QED BY <1>1, <1>2, FunctionIsList

LEMMA FieldKeeps ==
  ASSUME RInv, InsertField
  PROVE  RInv'
<1>1. PICK t : t = q.loops[1].table
  OBVIOUS
<1>2. /\ CInv /\ Building(t) /\ building = "fields" /\ q \in Queries
      /\ field <= Len(effect.rec) /\ effect.rec[field] # Garbage
      /\ data' = Copied(effect.table, effect.rec[field].name, effect.rec[field])
      /\ field' = field + 1 /\ UNCHANGED <<q, pc, root, qte, slots, effect, building>>
  BY <1>1 DEF RInv, InsertField, CInv, vars
<1>3. CInv'
  BY <1>2, CodecStutter DEF vars
<1>4. /\ pc = "done" /\ q.kind = "SIMPLE_INSERT" /\ effect.table = t /\ effect.rec \in Inserted
      /\ field \in 1 .. Len(q.params) + 1 /\ IsList(data) /\ Len(data) = RowSize(t)
      /\ IsInjective(Columns[t]) => Laid(t, field - 1)
  BY <1>2 DEF Building
<1>5. t \in DOMAIN Layout /\ Len(q.params) \in Nat /\ DOMAIN q.params = 1 .. Len(q.params)
  BY <1>1, <1>2, <1>4, InsertTable
<1>6. PICK fields : fields = Fields(q.params)
  OBVIOUS
<1>7. IsList(fields) /\ Len(fields) = Len(q.params)
  BY <1>5, <1>6, FieldsListed
<1>8. field \in 1 .. Len(q.params) /\ effect.rec[field] = fields[field]
  <2>1. CASE effect.rec = fields
    <3>1. field \in 1 .. Len(q.params)
      BY <1>2, <1>4, <1>5, <1>7, <2>1
    <3> QED BY <2>1, <3>1
  <2>2. CASE effect.rec = Append(fields, Garbage)
    <3>1. /\ effect.rec[Len(fields) + 1] = Garbage
          /\ \A i \in 1 .. Len(fields) : effect.rec[i] = fields[i]
      BY <1>7, <2>2, ListAppend
    <3>2. field # Len(q.params) + 1
      BY <1>2, <1>7, <3>1
    <3>3. field \in 1 .. Len(q.params)
      BY <1>4, <1>5, <3>2
    <3> QED BY <1>7, <3>1, <3>3
  <2> QED BY <1>4, <1>6, <2>1, <2>2 DEF Inserted
<1>9. PICK m \in Nat : field = m + 1
  <2>1. field - 1 \in Nat /\ field = (field - 1) + 1
    BY <1>4, <1>5
  <2> QED BY <2>1
<1>10. PICK name, l : name = q.params[field].name /\ l = fields[field]
  OBVIOUS
<1>11. l.name = name
  <2>1. q.params[field] \in [name : STRING, type : STRING, value : Seq(STRING)]
    <3>1. q.params \in Seq([name : STRING, type : STRING, value : Seq(STRING)])
      BY <1>2, QueryTyped
    <3> QED BY <1>8, <3>1, ElementOfSeq
  <2>2. l = [q.params[field] EXCEPT !.value = Value(q.params[field])]
    BY <1>5, <1>6, <1>8, <1>10 DEF Fields
  <2> QED BY <1>10, <2>1, <2>2
<1>12. data' = Copied(t, name, l)
  BY <1>2, <1>4, <1>8, <1>10, <1>11
<1>13. IsList(data') /\ Len(data') = RowSize(t) /\ DOMAIN data = 1 .. RowSize(t)
  <2>1. PICK d : d = data'
    OBVIOUS
  <2>2. PICK n \in Nat : n = RowSize(t)
    BY <1>4 DEF IsList
  <2>3. DOMAIN data = 1 .. n
    BY <1>4, <2>2 DEF IsList
  <2>4. d = [at \in 1 .. n |-> d[at]]
    BY <1>12, <2>1, <2>3 DEF Copied
  <2> QED BY <2>1, <2>2, <2>3, <2>4, FunctionIsList
<1>14. ASSUME IsInjective(Columns[t]) PROVE Laid(t, m + 1)'
  <2>1. Laid(t, m)
    BY <1>4, <1>9, <1>14
  <2>2. ASSUME NEW i \in 1 .. Len(Layout[t]), NEW at \in 1 .. Layout[t][i].size
        PROVE  data'[SizeBefore(t, i) + at] = Cell(Layout[t][i].name, m + 1, at)
    <3>1. data[SizeBefore(t, i) + at] = Cell(Layout[t][i].name, m, at)
      BY <2>1 DEF Laid
    <3>2. CASE Layout[t][i].name = name
      <4>1. data'[SizeBefore(t, i) + at] =
              IF at \in DOMAIN Bytes(l) THEN Bytes(l)[at] ELSE Garbage
        BY <1>5, <1>12, <1>13, <1>14, <3>2, CopiedHere
      <4>2. /\ Before(name, m + 1) # {} /\ Max(Before(name, m + 1)) = m + 1
        BY <1>9, <1>10, LastBefore
      <4>3. Cell(name, m + 1, at) = IF at \in DOMAIN Bytes(l) THEN Bytes(l)[at] ELSE Garbage
        BY <1>6, <1>9, <1>10, <4>2 DEF Cell
      <4> QED BY <3>2, <4>1, <4>3
    <3>3. CASE Layout[t][i].name # name
      <4>1. Before(Layout[t][i].name, m + 1) = Before(Layout[t][i].name, m)
        BY <1>9, <1>10, <3>3, LastBefore
      <4>2. Cell(Layout[t][i].name, m + 1, at) = Cell(Layout[t][i].name, m, at)
        BY <4>1 DEF Cell
      <4>3. data'[SizeBefore(t, i) + at] = data[SizeBefore(t, i) + at]
        <5>1. CASE \E k \in 1 .. Len(Layout[t]) : Layout[t][k].name = name
          <6>1. PICK k \in 1 .. Len(Layout[t]) : Layout[t][k].name = name
            BY <5>1
          <6>2. i # k
            BY <3>3, <6>1
          <6>3. Copied(t, Layout[t][k].name, l)[SizeBefore(t, i) + at] =
                  data[SizeBefore(t, i) + at]
            BY <1>5, <1>13, <1>14, <6>2, CopiedElsewhere
          <6> QED BY <1>12, <6>1, <6>3
        <5>2. CASE \A k \in 1 .. Len(Layout[t]) : Layout[t][k].name # name
          <6>1. SizeBefore(t, i) + at \in DOMAIN data
            BY <1>5, <1>13, InRow
          <6> QED BY <1>5, <1>12, <5>2, <6>1, CopiedNowhere
        <5> QED BY <5>1, <5>2
      <4> QED BY <3>1, <4>2, <4>3
    <3> QED BY <3>2, <3>3
  <2>3. \A nm, k, at : Cell(nm, k, at)' = Cell(nm, k, at)
    BY <1>2, CellSame
  <2> QED BY <2>2, <2>3 DEF Laid
<1>15. /\ effect'.table = t /\ effect'.rec \in Inserted' /\ pc' = "done"
       /\ q'.kind = "SIMPLE_INSERT" /\ q'.loops[1].table = t
  BY <1>1, <1>2, <1>4, CellSame
<1>16. field' \in 1 .. Len(q'.params) + 1 /\ field' - 1 = field
  BY <1>2, <1>5, <1>8
<1>17. Building(t)'
  <2>1. IsInjective(Columns[t]) => Laid(t, field - 1)'
    BY <1>9, <1>14, <1>16
  <2> QED BY <1>2, <1>13, <1>15, <1>16, <2>1 DEF Building
<1> QED BY <1>1, <1>2, <1>3, <1>15, <1>17 DEF RInv

LEMMA GarbageKeeps ==
  ASSUME RInv, FollowGarbage
  PROVE  RInv'
<1>1. PICK t : t = q.loops[1].table
  OBVIOUS
<1>2. /\ CInv /\ Building(t) /\ building' = "crashed"
      /\ UNCHANGED <<q, pc, root, qte, slots, effect>>
  BY <1>1 DEF RInv, FollowGarbage, vars
<1>3. CInv'
  BY <1>2, CodecStutter DEF vars
<1>4. Building(t)'
  BY <1>2, CellSame DEF Building
<1> QED BY <1>1, <1>2, <1>3, <1>4 DEF RInv

LEMMA FieldsEndKeeps ==
  ASSUME RInv, FieldsEnd
  PROVE  RInv'
<1>1. PICK t : t = q.loops[1].table
  OBVIOUS
<1>2. /\ CInv /\ Building(t) /\ q \in Queries /\ building = "fields" /\ building' = "built"
      /\ field > Len(effect.rec)
      /\ UNCHANGED <<q, pc, root, qte, slots, effect, data, field>>
  BY <1>1 DEF RInv, FieldsEnd, vars, CInv
<1>3. CInv'
  BY <1>2, CodecStutter DEF vars
<1>4. field = Len(q.params) + 1
  <2>1. Len(q.params) \in Nat /\ DOMAIN q.params = 1 .. Len(q.params)
    BY <1>2, InsertTable DEF Building
  <2>2. Len(effect.rec) >= Len(q.params) /\ Len(effect.rec) \in Nat
    <3>1. IsList(Fields(q.params)) /\ Len(Fields(q.params)) = Len(q.params)
      BY <2>1, FieldsListed
    <3>2. Len(Append(Fields(q.params), Garbage)) = Len(q.params) + 1
      BY <3>1, ListAppend
    <3> QED BY <1>2, <2>1, <3>1, <3>2 DEF Building, Inserted
  <2> QED BY <1>2, <2>1, <2>2 DEF Building
<1>5. Laid(t, field - 1)' <=> Laid(t, field - 1)
  BY <1>2, CellSame DEF Laid
<1>6. Building(t)'
  BY <1>2, <1>4, <1>5, CellSame DEF Building
<1> QED BY <1>1, <1>2, <1>3, <1>6 DEF RInv

LEMMA RecordsStutter ==
  ASSUME RInv, UNCHANGED recordsVars
  PROVE  RInv'
<1>1. PICK t : t = q.loops[1].table
  OBVIOUS
<1>2. /\ CInv /\ UNCHANGED <<q, pc, root, qte, slots, effect, data, field, building>>
  BY DEF RInv, recordsVars, vars
<1>3. CInv'
  BY <1>2, CodecStutter DEF vars
<1>4. Laid(t, field - 1)' <=> Laid(t, field - 1)
  BY <1>2, CellSame DEF Laid
<1>5. Building(t)' <=> Building(t)
  BY <1>2, <1>4, CellSame DEF Building
<1> QED BY <1>1, <1>2, <1>3, <1>5 DEF RInv

LEMMA RecordsStep ==
  ASSUME RInv, [RecordsNext]_recordsVars
  PROVE  RInv'
BY CodecStepKeeps, CreateKeeps, FieldKeeps, GarbageKeeps, FieldsEndKeeps, RecordsStutter
   DEF RecordsNext
-----------------------------------------------------------------------------
(* What a built row holds.                                                 *)
(* The b elements behind the y-th.                                         *)
Cut(s, y, b) == SubSeq(s, y + 1, y + b)

LEMMA Slice ==
  ASSUME NEW s, IsList(s), NEW y \in Nat, NEW b \in Nat, y + b <= Len(s),
         NEW r, r = Cut(s, y, b)
  PROVE  /\ IsList(r) /\ Len(r) = b /\ DOMAIN r = 1 .. b
         /\ \A j \in 1 .. b : r[j] = s[y + j]
<1>1. PICK V : s \in Seq(V)
  BY ListIsSeq
<1>2. Len(s) \in Nat
  BY DEF IsList
<1>3. \A j \in 1 .. b : y + 1 + j - 1 = y + j
  OBVIOUS
<1>4. IF y + 1 <= y + b THEN y + b - (y + 1) + 1 = b ELSE b = 0
  OBVIOUS
<1>5. y + 1 \in 1 .. Len(s) + 1 /\ y + b \in y + 1 - 1 .. Len(s)
  BY <1>2
<1>6. /\ SubSeq(s, y + 1, y + b) \in Seq(V) /\ Len(SubSeq(s, y + 1, y + b)) = b
      /\ \A j \in 1 .. b : SubSeq(s, y + 1, y + b)[j] = s[y + j]
  BY <1>1, <1>2, <1>3, <1>4, <1>5, SubSeqProperties
<1>7. r \in Seq(V) /\ Len(r) = b /\ \A j \in 1 .. b : r[j] = s[y + j]
  BY <1>6 DEF Cut
<1>8. IsList(r) /\ DOMAIN r = 1 .. b
  <2>1. r \in Seq(V) /\ Len(r) = b
    BY <1>7
  <2> QED BY <2>1, SeqIsList
<1> QED BY <1>7, <1>8

(* The bytes of a column are those of the last field for it.               *)
LEMMA BytesRead ==
  ASSUME RInv, building = "built", NEW t, t = effect.table, IsInjective(Columns[t]),
         NEW i \in 1 .. Len(Layout[t]), NEW bytes, bytes = Read(t, Layout[t][i].name)
  PROVE  /\ IsList(bytes) /\ Len(bytes) = Layout[t][i].size
         /\ DOMAIN bytes = 1 .. Layout[t][i].size
         /\ \A at \in 1 .. Layout[t][i].size :
              bytes[at] = Cell(Layout[t][i].name, Len(q.params), at)
<1>1. q \in Queries /\ Building(t) /\ t = q.loops[1].table /\ q.kind = "SIMPLE_INSERT"
  BY DEF RInv, CInv, Building
<1>2. t \in DOMAIN Layout /\ Len(q.params) \in Nat
  BY <1>1, InsertTable
<1>3. IsList(data) /\ Len(data) = RowSize(t) /\ Laid(t, Len(q.params))
  <2>1. field = Len(q.params) + 1 /\ Laid(t, field - 1) /\ IsList(data) /\ Len(data) = RowSize(t)
    BY <1>1 DEF Building
  <2>2. field - 1 = Len(q.params)
    BY <1>2, <2>1
  <2> QED BY <2>1, <2>2
<1>4. PICK y, b \in Nat : y = SizeBefore(t, i) /\ b = Layout[t][i].size /\ y + b <= Len(data)
  BY <1>2, <1>3, InRow
<1>5. bytes = Cut(data, y, b)
  BY <1>2, <1>4, CalledOne DEF Read, Cut
<1>6. /\ IsList(bytes) /\ Len(bytes) = b /\ DOMAIN bytes = 1 .. b
      /\ \A at \in 1 .. b : bytes[at] = data[y + at]
  <2>1. PICK s : s = data
    OBVIOUS
  <2>2. IsList(s) /\ y + b <= Len(s) /\ bytes = Cut(s, y, b) /\ y \in Nat /\ b \in Nat
    BY <1>3, <1>4, <1>5, <2>1
  <2>3. IsList(bytes)
    BY <2>2, Slice
  <2>4. Len(bytes) = b
    BY <2>2, Slice
  <2>5. DOMAIN bytes = 1 .. b
    BY <2>2, Slice
  <2>6. \A at \in 1 .. b : bytes[at] = s[y + at]
    BY <2>2, Slice
  <2> QED BY <2>1, <2>3, <2>4, <2>5, <2>6
<1>7. \A at \in 1 .. b : data[y + at] = Cell(Layout[t][i].name, Len(q.params), at)
  BY <1>3, <1>4 DEF Laid
<1> QED BY <1>4, <1>6, <1>7

LEMMA NamingBefore ==
  ASSUME q \in Queries, q.kind = "SIMPLE_INSERT", NEW name
  PROVE  Naming(name) = Before(name, Len(q.params))
BY InsertTable DEF Naming, Before

(* A value that is no float is a field as the user typed it.               *)
LEMMA FieldWhole ==
  ASSUME q \in Queries, q.kind = "SIMPLE_INSERT",
         NEW m \in 1 .. Len(q.params), q.params[m].type # "FLOAT"
  PROVE  Fields(q.params)[m] = q.params[m]
<1>1. q.params[m] \in [name : STRING, type : STRING, value : Seq(STRING)]
  <2>1. q.params \in Seq([name : STRING, type : STRING, value : Seq(STRING)])
    BY QueryTyped
  <2> QED BY <2>1, ElementOfSeq
<1>2. Fields(q.params)[m] = [q.params[m] EXCEPT !.value = Value(q.params[m])]
  BY InsertTable DEF Fields
<1>3. Value(q.params[m]) = q.params[m].value
  <2>1. "value" \in DOMAIN q.params[m]
    BY <1>1
  <2> QED BY <2>1 DEF Value, Unpacked
<1> QED BY <1>1, <1>2, <1>3

LEMMA BuiltRow == RInv => RowReadsBack
<1>1. SUFFICES ASSUME RInv, building = "built", NEW t, t = effect.table,
                      IsInjective(Columns[t]), NEW i \in DOMAIN Layout[t],
                      NEW column, column = Layout[t][i],
                      NEW bytes, bytes = Read(t, column.name)
               PROVE  IF Naming(column.name) = {}
                      THEN \A j \in DOMAIN bytes : bytes[j] = Zero
                      ELSE LET last == q.params[Max(Naming(column.name))]
                           IN  last.type = column.type /\ last.type # "FLOAT" =>
                                 Holds(column, bytes, last)
  BY DEF RowReadsBack
<1>2. q \in Queries /\ q.kind = "SIMPLE_INSERT" /\ t = q.loops[1].table
  BY <1>1 DEF RInv, CInv, Building
<1>3. /\ t \in DOMAIN Layout /\ i \in 1 .. Len(Layout[t])
      /\ Len(q.params) \in Nat /\ \A m \in 1 .. Len(q.params) : Length(q.params[m].value) \in Nat
  BY <1>1, <1>2, InsertTable, LayoutTyped
<1>4. PICK b \in Nat : b = column.size
  BY <1>1, <1>3, LayoutTyped
<1>5. /\ IsList(bytes) /\ Len(bytes) = b /\ DOMAIN bytes = 1 .. b
      /\ \A at \in 1 .. b : bytes[at] = Cell(column.name, Len(q.params), at)
  BY <1>1, <1>3, <1>4, BytesRead
<1>6. Naming(column.name) = Before(column.name, Len(q.params))
  BY <1>2, NamingBefore
<1>7. CASE Naming(column.name) = {}
  BY <1>5, <1>6, <1>7 DEF Cell
<1>8. CASE Naming(column.name) # {}
  <2>1. PICK m : m = Max(Naming(column.name))
    OBVIOUS
  <2>2. m \in 1 .. Len(q.params)
    BY <1>3, <1>6, <1>8, <2>1, MaxBefore
  <2>3. PICK last : last = q.params[m]
    OBVIOUS
  <2>4. SUFFICES ASSUME last.type = column.type, last.type # "FLOAT"
                 PROVE  Holds(column, bytes, last)
    BY <1>8, <2>1, <2>3
  <2>5. PICK put : put = Bytes(last)
    OBVIOUS
  <2>6. \A at \in 1 .. b : bytes[at] = IF at \in DOMAIN put THEN put[at] ELSE Garbage
    <3>1. Fields(q.params)[m] = last
      BY <1>2, <2>2, <2>3, <2>4, FieldWhole
    <3> QED BY <1>5, <1>6, <1>8, <2>1, <2>5, <3>1 DEF Cell
  <2>7. CASE column.type = "STRING"
    <3>1. PICK n \in Nat : n = Length(last.value)
      BY <1>3, <2>2, <2>3
    <3>2. SUFFICES ASSUME n < b PROVE IsPrefix(put, bytes)
      BY <1>4, <2>5, <2>7, <3>1 DEF Holds
    <3>3. PICK f : f = [at \in 1 .. n |-> <<last.value, at>>]
      OBVIOUS
    <3>4. f = [at \in 1 .. n |-> f[at]]
      BY <3>3
    <3>5. IsList(f) /\ Len(f) = n
      BY <3>4, FunctionIsList
    <3>6. put = Append(f, Zero)
      BY <2>4, <2>5, <2>7, <3>1, <3>3 DEF Bytes
    <3>7. IsList(put) /\ Len(put) = n + 1
      BY <3>5, <3>6, ListAppend
    <3>8. DOMAIN put = 1 .. n + 1
      BY <3>7 DEF IsList
    <3>9. \A at \in 1 .. n + 1 : at \in 1 .. b
      BY <3>2
    <3>10. \A at \in 1 .. Len(put) : bytes[at] = put[at]
      BY <2>6, <3>7, <3>8, <3>9
    <3>11. n + 1 <= b
      BY <3>2
    <3> QED BY <1>5, <3>7, <3>10, <3>11, PrefixAlike
  <2>8. CASE column.type # "STRING"
    <3>1. b = Width(last.type)
      BY <1>1, <1>3, <1>4, <2>4, <2>8, LayoutTyped
    <3>2. put = [at \in 1 .. b |-> <<last.value, at>>]
      BY <2>4, <2>5, <2>8, <3>1 DEF Bytes
    <3>3. bytes = [at \in 1 .. b |-> bytes[at]]
      BY <1>5 DEF IsList
    <3>4. \A at \in 1 .. b : bytes[at] = put[at]
      BY <2>6, <3>2
    <3>5. put = [at \in 1 .. b |-> put[at]]
      BY <3>2
    <3>6. put = bytes
      BY <3>3, <3>4, <3>5
    <3> QED BY <2>5, <2>8, <3>6 DEF Holds
  <2> QED BY <2>7, <2>8
<1> QED BY <1>7, <1>8
-----------------------------------------------------------------------------
(* What the invariant says of a query that has come to its end.            *)
LEMMA CInvTyped == CInv => TypeOK
BY GarbageAssumption DEF CInv, SlotsInv, TypeOK

LEMMA CInvRuns == CInv => RunsWhatWasAsked
BY RunsInsert, RunsRows, RunsJoin DEF RunsWhatWasAsked, Carried, Returned

LEMMA CInvLists == CInv => ListsKept
<1>1. SUFFICES ASSUME CInv, pc = "done", AskedList # <<>>, q.kind # "RETURN_ROW_JOIN_FILTER"
               PROVE  /\ Len(qte.condition) = Len(AskedList)
                      /\ \A i \in DOMAIN AskedList :
                           /\ qte.condition[i].relation = AskedList[i].relation
                           /\ qte.condition[i].next_relation = AskedList[i].next_relation
  BY DEF ListsKept
<1>2. Compared(qte) /\ Len(qte.condition) = Len(AskedList)
  BY <1>1 DEF CInv, ReadInv
<1>3. DOMAIN AskedList = 1 .. Len(AskedList)
  BY <1>1, ListsSent DEF CInv, SentLists
<1> QED BY <1>2, <1>3 DEF Compared

(* Once the server has read an object it has its header, the comparisons   *)
(* up to the next one and, at the end of the list, all of them; the row of *)
(* an INSERT holds in each column the last of the fields copied so far     *)
(* that are for it, and zeros where there is none.                         *)
THEOREM RecordsInvariant == RecordsSpec => []RInv
<1>1. RecordsInit => RInv
  BY RecordsStart
<1>2. RInv /\ [RecordsNext]_recordsVars => RInv'
  BY RecordsStep
<1> QED BY <1>1, <1>2, PTL DEF RecordsSpec

(* Operands of the right table come from joins only, and an INSERT or a    *)
(* selection of rows never stops the server that reads it.                 *)
THEOREM RecordsTyped == RecordsSpec => []TypeOK
<1>1. RInv => TypeOK
  BY CInvTyped DEF RInv
<1> QED BY <1>1, RecordsInvariant, PTL

(* What the server executes for a query that both sides read in full is    *)
(* what the user asked for, with FILTERs of any length.                    *)
THEOREM AskedIsRun == RecordsSpec => []RunsWhatWasAsked
<1>1. RInv => RunsWhatWasAsked
  BY CInvRuns DEF RInv
<1> QED BY <1>1, RecordsInvariant, PTL

(* Every list of comparisons that is sent arrives whole and in order, with *)
(* the relation behind each, whatever becomes of the operands.             *)
THEOREM ListsArrive == RecordsSpec => []ListsKept
<1>1. RInv => ListsKept
  BY CInvLists DEF RInv
<1> QED BY <1>1, RecordsInvariant, PTL

(* The getters of table.c find every value of an INSERT in the row that    *)
(* was built from it, and zeros in the columns it does not name, for any   *)
(* table with different column names and any fields.                       *)
THEOREM RowReadsBackAlways == RecordsSpec => []RowReadsBack
<1>1. RInv => RowReadsBack
  BY BuiltRow
<1> QED BY <1>1, RecordsInvariant, PTL
=============================================================================
