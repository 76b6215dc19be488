------------------------------ MODULE WireProofs ------------------------------
(***************************************************************************)
(* The conversation over the socket, for buffers and chunks of any size    *)
(* and any number of queries: the client never loses its place as long as  *)
(* its reads are whole and no answer has an empty part, and what the user  *)
(* reads is the answer that was sent, each byte once and in order, if it   *)
(* has at most two parts.                                                  *)
(***************************************************************************)
EXTENDS Wire, WellFoundedInduction, SequenceTheorems, TLAPS

Byte == Bytes \ {Zero}

(* The parts of the answer being written that have been written.           *)
Written == IF server = "writing" THEN (part - 1) * PTR ELSE MAX - 1

Serving ==
  server = "writing" => given # <<>> /\ part \in 1 .. Len(given[Len(given)])

TypeInv ==
  /\ client \in {"prompt", "reading"}
  /\ server \in {"waiting", "writing", "ending"}
  /\ asked \in 0 .. MaxQueries /\ cut \in BOOLEAN
  /\ buff \in [1 .. MAX -> Bytes]
  /\ shown \in Seq(Byte)
  /\ replies \in Seq(Bytes)
  /\ requests \in Seq(Nat) /\ given \in Seq(Answers) /\ part \in Nat
  /\ Len(given) + Len(requests) = asked
  /\ Serving

(* Only the beginning of an answer is on its way.                          *)
Open == Len(replies) < MAX /\ (replies # <<>> => replies[1] # Zero)

(* An answer and its terminator are, or the rest of its zeros: the client  *)
(* needs one read more or two.                                             *)
Closed ==
  \E k \in 0 .. MAX - 1 :
    /\ \A i \in k + 1 .. Len(replies) : replies[i] = Zero
    /\ k = 0 => Len(replies) \in 1 .. MAX
    /\ k > 0 => Len(replies) = k + MAX /\ replies[1] # Zero

Conversing ==
  \/ server = "waiting" /\ Len(requests) = 1 /\ replies = <<>>
  \/ server = "writing" /\ requests = <<>> /\ Open /\ Len(replies) <= Written
  \/ server = "ending" /\ requests = <<>> /\ Open
  \/ server = "waiting" /\ requests = <<>> /\ Closed

InSync == client = "reading" => Conversing

SyncInv == ~cut /\ NoEmptyPart => InStep /\ InSync

IInv == TypeInv /\ SyncInv

-----------------------------------------------------------------------------
(* An answer fits in the buffer, whatever part of it has been written.     *)
LEMMA AnswerFits ==
  ASSUME NEW a \in Answers, NEW p \in 1 .. Len(a)
  PROVE  /\ Len(a) \in Nat \ {0} /\ Len(a) * PTR < MAX /\ Len(a) <= MAX
         /\ (p - 1) * PTR \in Nat /\ (p - 1) * PTR + PTR = p * PTR
         /\ p * PTR \in Nat /\ p * PTR <= Len(a) * PTR
         /\ a[p] \in Nat /\ PTR \in Nat \ {0} /\ MAX \in Nat
<1>1. /\ Len(a) \in Nat \ {0} /\ Len(a) * PTR < MAX /\ PTR \in Nat \ {0} /\ MAX \in Nat
      /\ a[p] \in Nat
  BY BytesAssumption, AnswersAssumption
<1>2. Len(a) * PTR \in Nat /\ Len(a) <= Len(a) * PTR
  BY <1>1
<1>3. p * PTR \in Nat /\ p * PTR <= Len(a) * PTR
  BY <1>1
<1>4. (p - 1) * PTR \in Nat /\ (p - 1) * PTR + PTR = p * PTR
  BY <1>1
<1> QED BY <1>1, <1>2, <1>3, <1>4

LEMMA ConcatLen ==
  ASSUME NEW S, NEW s \in Seq(S), NEW t \in Seq(S)
  PROVE  Len(s \o t) = Len(s) + Len(t)
OBVIOUS

LEMMA ChunkBytes ==
  ASSUME TypeInv, server = "writing"
  PROVE  /\ Chunk(Len(given), part) \in Seq(Bytes)
         /\ Len(Chunk(Len(given), part)) = PTR
         /\ NoEmptyPart => Chunk(Len(given), part)[1] # Zero
<1>1. /\ Len(given) \in 1 .. asked /\ given[Len(given)] \in Answers
      /\ part \in 1 .. Len(given[Len(given)])
  BY DEF TypeInv, Serving
<1>2. part \in 1 .. MAX /\ PTR \in Nat \ {0} /\ given[Len(given)][part] \in Nat
      /\ Len(given[Len(given)]) \in Nat
  BY <1>1, AnswerFits
<1>3. \A i \in 1 .. PTR : <<Len(given), part, i>> \in Bytes
  BY <1>1, <1>2 DEF Bytes
<1>4. Zero \in Bytes /\ <<Len(given), part, 1>> # Zero
  BY DEF Bytes, Zero
<1>5. NoEmptyPart => given[Len(given)][part] > 0
  <2>1. given \in Seq(Answers) /\ Len(given) \in DOMAIN given
    <3>1. given \in Seq(Answers) /\ Len(given) # 0
      BY <1>1 DEF TypeInv
    <3> QED BY <3>1
  <2>2. part \in DOMAIN given[Len(given)]
    <3>1. given[Len(given)] \in Seq(Nat)
      BY <1>1, AnswersAssumption
    <3> QED BY <1>1, <3>1
  <2> QED BY <1>2, <2>1, <2>2 DEF NoEmptyPart
<1> DEFINE chunk == Chunk(Len(given), part)
<1>6. chunk = [i \in 1 .. PTR |-> IF i <= given[Len(given)][part]
                                  THEN <<Len(given), part, i>> ELSE Zero]
  BY DEF Chunk
<1>7. chunk \in [1 .. PTR -> Bytes]
  BY <1>3, <1>4, <1>6
<1>8. chunk \in Seq(Bytes) /\ Len(chunk) = PTR
  BY <1>2, <1>7
<1>9. NoEmptyPart => chunk[1] # Zero
  <2>1. chunk[1] = IF 1 <= given[Len(given)][part] THEN <<Len(given), part, 1>> ELSE Zero
    BY <1>2, <1>6
  <2>2. NoEmptyPart => 1 <= given[Len(given)][part]
    BY <1>2, <1>5
  <2> QED BY <1>4, <2>1, <2>2
<1> QED BY <1>8, <1>9

(* printf stops in front of the first zero byte.                           *)
LEMMA TextBytes ==
  ASSUME MAX \in Nat, NEW b \in [1 .. MAX -> Bytes]
  PROVE  Text(b) \in Seq(Byte)
<1> DEFINE T == {n \in 0 .. MAX : n = MAX \/ b[n + 1] = Zero}
           End(n) == /\ \A i \in 1 .. n : b[i] # Zero
                     /\ n = MAX \/ b[n + 1] = Zero
           Less == {ss \in Nat \X Nat : ss[1] < ss[2]}
<1>1. PICK n \in T : \A y \in T : ~(<<y, n>> \in Less)
  <2>1. T \subseteq Nat /\ T # {}
    OBVIOUS
  <2>2. Less = OpToRel(<, Nat)
    BY DEF OpToRel
  <2>3. IsWellFoundedOn(Less, Nat)
    BY <2>2, NatLessThanWellFounded
  <2> HIDE DEF T, Less
  <2> QED BY <2>1, <2>3, WFMin
<1>2. ASSUME NEW y \in T PROVE ~(y < n)
  <2>1. y \in Nat /\ n \in Nat /\ <<y, n>> \notin Less
    BY <1>1
  <2>2. <<y, n>> \in Less <=> y < n
    BY <2>1
  <2> QED BY <2>1, <2>2
<1>3. End(n)
  <2>1. ASSUME NEW i \in 1 .. n, b[i] = Zero PROVE FALSE
    <3>1. i - 1 \in T
      BY <2>1
    <3> QED BY <1>2, <3>1
  <2> QED BY <2>1
<1>4. \E m \in 0 .. MAX : End(m)
  BY <1>3
<1> DEFINE m == CHOOSE m \in 0 .. MAX : End(m)
<1>5. m \in 0 .. MAX /\ End(m)
  BY <1>4
<1>6. Text(b) = SubSeq(b, 1, m)
  BY DEF Text
<1> HIDE DEF m
<1>7. \A i \in 1 .. m : b[i] \in Byte
  BY <1>5 DEF Byte
<1>8. SubSeq(b, 1, m) = [i \in 1 .. m |-> b[i]]
  BY <1>5
<1> QED BY <1>5, <1>6, <1>7, <1>8

-----------------------------------------------------------------------------
(* Types.                                                                  *)

LEMMA InitType == Init => TypeInv
<1> SUFFICES ASSUME Init PROVE TypeInv
  OBVIOUS
<1>1. buff \in [1 .. MAX -> Bytes]
  BY DEF Init, Cleared, Bytes
<1>2. asked = 0 /\ asked \in 0 .. MaxQueries
  BY BytesAssumption DEF Init
<1>3. Len(given) + Len(requests) = asked /\ Serving
  BY DEF Init, Serving
<1>4. /\ shown \in Seq(Byte) /\ replies \in Seq(Bytes) /\ requests \in Seq(Nat)
      /\ given \in Seq(Answers)
  BY DEF Init
<1> QED BY <1>1, <1>2, <1>3, <1>4 DEF Init, TypeInv

LEMMA AskType == TypeInv /\ ClientAsk => TypeInv'
<1> SUFFICES ASSUME TypeInv, ClientAsk PROVE TypeInv'
  OBVIOUS
<1>1. /\ asked' = asked + 1 /\ asked \in Nat /\ asked < MaxQueries
      /\ requests' = Append(requests, asked + 1)
      /\ UNCHANGED <<replies, server, given, part, cut>>
  BY DEF ClientAsk, TypeInv
<1>2. Bytes \subseteq Bytes' /\ Zero \in Bytes'
  BY <1>1 DEF Bytes
<1>3. /\ requests' \in Seq(Nat) /\ Len(requests') = Len(requests) + 1
      /\ asked' \in 0 .. MaxQueries
  BY <1>1, BytesAssumption DEF TypeInv
<1>4. buff' \in [1 .. MAX -> Bytes'] /\ shown' \in Seq(Byte')
  BY <1>2 DEF ClientAsk, AfterSend, Cleared, Byte
<1>5. replies' \in Seq(Bytes')
  BY <1>1, <1>2 DEF TypeInv
<1>6. Serving'
  BY <1>1 DEF TypeInv, Serving
<1>7. Len(given') + Len(requests') = asked'
  <2>1. Len(given) \in Nat /\ Len(requests) \in Nat /\ Len(given) + Len(requests) = asked
    <3>1. given \in Seq(Answers) /\ requests \in Seq(Nat)
          /\ Len(given) + Len(requests) = asked
      BY DEF TypeInv
    <3> QED BY <3>1
  <2>2. Len(requests') = Len(requests) + 1 /\ given' = given /\ asked' = asked + 1
    BY <1>1, <1>3
  <2>3. Len(given') = Len(given)
    BY <2>2
  <2> QED BY <2>1, <2>2, <2>3
<1>8. /\ client' = "reading" /\ server' = server /\ given' = given /\ part' = part
      /\ cut' = cut
  BY <1>1 DEF ClientAsk
<1>9. /\ server \in {"waiting", "writing", "ending"} /\ cut \in BOOLEAN
      /\ given \in Seq(Answers) /\ part \in Nat
  BY DEF TypeInv
<1> QED BY <1>3, <1>4, <1>5, <1>6, <1>7, <1>8, <1>9 DEF TypeInv

LEMMA ReadType == TypeInv /\ ClientRead => TypeInv'
<1> SUFFICES ASSUME TypeInv, ClientRead PROVE TypeInv'
  OBVIOUS
<1>1. PICK n \in ReadSizes :
        LET b == [i \in 1 .. MAX |-> IF i <= n THEN replies[i] ELSE buff[i]]
            done == b[1] = Zero
        IN  /\ replies' = SubSeq(replies, n + 1, Len(replies))
            /\ shown' = shown \o Text(b)
            /\ buff' = IF done THEN Cleared ELSE b
            /\ client' = IF done THEN "prompt" ELSE "reading"
            /\ cut' = (cut \/ \E most \in ReadSizes : most > n)
  BY DEF ClientRead
<1> DEFINE b == [i \in 1 .. MAX |-> IF i <= n THEN replies[i] ELSE buff[i]]
<1>2. UNCHANGED <<asked, requests, server, given, part>>
  BY DEF ClientRead
<1>3. MAX \in Nat /\ replies \in Seq(Bytes) /\ Len(replies) \in Nat
      /\ n \in 1 .. Len(replies) /\ n <= MAX
  BY BytesAssumption DEF TypeInv, ReadSizes, Smaller
<1>4. b \in [1 .. MAX -> Bytes]
  BY <1>3 DEF TypeInv
<1>5. Text(b) \in Seq(Byte)
  BY <1>3, <1>4, TextBytes
<1>6. shown' \in Seq(Byte) /\ replies' \in Seq(Bytes)
  <2>1. shown' = shown \o Text(b) /\ shown \in Seq(Byte)
    BY <1>1 DEF TypeInv
  <2>2. shown' \in Seq(Byte)
    <3> HIDE DEF b
    <3> QED BY <1>5, <2>1
  <2>3. replies' \in Seq(Bytes)
    BY <1>1, <1>3
  <2> QED BY <2>2, <2>3
<1>7. buff' \in [1 .. MAX -> Bytes]
  BY <1>1, <1>4 DEF Cleared, Bytes
<1>8. client' \in {"prompt", "reading"} /\ cut' \in BOOLEAN
  BY <1>1 DEF TypeInv
<1>9. Bytes' = Bytes /\ Byte' = Byte /\ Serving'
  BY <1>2 DEF Bytes, Byte, TypeInv, Serving
<1> QED BY <1>2, <1>6, <1>7, <1>8, <1>9 DEF TypeInv

LEMMA ServerType == TypeInv /\ Server => TypeInv'
<1> SUFFICES ASSUME TypeInv, Server PROVE TypeInv'
  OBVIOUS
<1>1. CASE ServerRead
  <2>1. PICK a \in Answers : given' = Append(given, a)
    BY <1>1 DEF ServerRead
  <2>2. requests' = Tail(requests) /\ requests # <<>> /\ part' = 1 /\ server' = "writing"
        /\ UNCHANGED <<client, asked, buff, shown, replies, cut>>
    BY <1>1 DEF ServerRead
  <2>3. /\ given' \in Seq(Answers) /\ Len(given') = Len(given) + 1 /\ given' # <<>>
        /\ given'[Len(given')] = a
    <3>1. given \in Seq(Answers)
      BY DEF TypeInv
    <3> QED BY <2>1, <3>1
  <2>4. requests' \in Seq(Nat) /\ Len(requests') = Len(requests) - 1
    BY <2>2 DEF TypeInv
  <2>5. Len(a) \in Nat \ {0}
    BY AnswersAssumption
  <2>6. Serving'
    BY <2>2, <2>3, <2>5 DEF Serving
  <2>7. Bytes' = Bytes /\ Byte' = Byte
    BY <2>2 DEF Bytes, Byte
  <2>8. Len(given') + Len(requests') = asked'
    <3>1. Len(given) \in Nat /\ Len(requests) \in Nat /\ Len(given) + Len(requests) = asked
      BY DEF TypeInv
    <3> QED BY <2>2, <2>3, <2>4, <3>1
  <2> QED BY <2>2, <2>3, <2>4, <2>6, <2>7, <2>8 DEF TypeInv
<1>2. CASE ServerWrite
  <2>1. /\ server = "writing"
        /\ replies' = replies \o Chunk(Len(given), part)
        /\ part' = part + 1
        /\ server' = IF part = Len(given[Len(given)]) THEN "ending" ELSE "writing"
        /\ UNCHANGED <<client, asked, buff, shown, requests, given, cut>>
    BY <1>2 DEF ServerWrite
  <2>2. replies' \in Seq(Bytes)
    BY <2>1, ChunkBytes DEF TypeInv
  <2>3. given[Len(given)] \in Answers
    BY <2>1 DEF TypeInv, Serving
  <2>4. Serving'
    BY <2>1, <2>3, AnswerFits DEF TypeInv, Serving
  <2>5. Bytes' = Bytes /\ Byte' = Byte
    BY <2>1 DEF Bytes, Byte
  <2> QED BY <2>1, <2>2, <2>4, <2>5 DEF TypeInv
<1>3. CASE ServerEnd
  <2>1. /\ server' = "waiting" /\ replies' = replies \o Terminator
        /\ UNCHANGED <<client, asked, buff, shown, requests, given, part, cut>>
    BY <1>3 DEF ServerEnd
  <2>2. Terminator \in Seq(Bytes)
    BY BytesAssumption DEF Terminator, Bytes
  <2>3. replies' \in Seq(Bytes)
    BY <2>1, <2>2 DEF TypeInv
  <2>4. Bytes' = Bytes /\ Byte' = Byte /\ Serving'
    BY <2>1 DEF Bytes, Byte, Serving
  <2> QED BY <2>1, <2>3, <2>4 DEF TypeInv
<1> QED BY <1>1, <1>2, <1>3 DEF Server

LEMMA NextType == TypeInv /\ [Next]_vars => TypeInv'
<1> SUFFICES ASSUME TypeInv, [Next]_vars PROVE TypeInv'
  OBVIOUS
<1>1. CASE UNCHANGED vars
  BY <1>1 DEF vars, TypeInv, Serving, Bytes, Byte
<1> QED BY <1>1, AskType, ReadType, ServerType DEF Next

-----------------------------------------------------------------------------
(* Staying in step.                                                        *)

LEMMA AskSync == IInv /\ ClientAsk => SyncInv'
<1> SUFFICES ASSUME IInv, ClientAsk, (~cut /\ NoEmptyPart)' PROVE (InStep /\ InSync)'
  BY DEF SyncInv
<1>1. /\ client = "prompt" /\ client' = "reading" /\ requests' = Append(requests, asked')
      /\ UNCHANGED <<replies, server, given, part, cut>>
  BY DEF ClientAsk
<1>2. replies = <<>> /\ requests = <<>> /\ server = "waiting"
  BY <1>1 DEF IInv, SyncInv, InStep, NoEmptyPart
<1>3. Len(requests') = 1
  BY <1>1, <1>2
<1> QED BY <1>1, <1>2, <1>3 DEF InStep, InSync, Conversing

(* A read that takes all there is leaves nothing, or zeros only.           *)
LEMMA WholeRead ==
  ASSUME IInv, ClientRead, ~cut'
  PROVE  /\ ~cut /\ replies # <<>> /\ Len(replies) \in Nat \ {0} /\ MAX \in Nat \ {0}
         /\ client' = IF replies[1] = Zero THEN "prompt" ELSE "reading"
         /\ replies' = SubSeq(replies, Smaller(MAX, Len(replies)) + 1, Len(replies))
         /\ UNCHANGED <<requests, server, given, part>>
<1>1. PICK n \in ReadSizes :
        LET b == [i \in 1 .. MAX |-> IF i <= n THEN replies[i] ELSE buff[i]]
            done == b[1] = Zero
        IN  /\ replies' = SubSeq(replies, n + 1, Len(replies))
            /\ client' = IF done THEN "prompt" ELSE "reading"
            /\ cut' = (cut \/ \E most \in ReadSizes : most > n)
  BY DEF ClientRead
<1>2. MAX \in Nat /\ Len(replies) \in Nat
  BY BytesAssumption DEF IInv, TypeInv
<1>3. Smaller(MAX, Len(replies)) \in Nat
  BY <1>2 DEF Smaller
<1>4. n \in 1 .. Smaller(MAX, Len(replies)) /\ ~cut
      /\ \A most \in ReadSizes : ~(most > n)
  BY <1>1 DEF ReadSizes, IInv, TypeInv
<1>5. n = Smaller(MAX, Len(replies))
  BY <1>3, <1>4 DEF ReadSizes
<1>6. n <= MAX /\ n <= Len(replies)
  BY <1>2, <1>5 DEF Smaller
<1>7. client' = IF replies[1] = Zero THEN "prompt" ELSE "reading"
  BY <1>1, <1>2, <1>4, <1>6
<1>8. replies' = SubSeq(replies, Smaller(MAX, Len(replies)) + 1, Len(replies))
  BY <1>1, <1>5
<1>9. Len(replies) \in Nat \ {0} /\ MAX \in Nat \ {0}
  BY <1>2, <1>4, <1>6
<1>10. replies # <<>> /\ UNCHANGED <<requests, server, given, part>>
  BY DEF ClientRead
<1> QED BY <1>4, <1>7, <1>8, <1>9, <1>10

LEMMA ReadSync == IInv /\ ClientRead => SyncInv'
<1> SUFFICES ASSUME IInv, ClientRead, (~cut /\ NoEmptyPart)' PROVE (InStep /\ InSync)'
  BY DEF SyncInv
<1>1. /\ ~cut /\ replies # <<>> /\ Len(replies) \in Nat \ {0} /\ MAX \in Nat \ {0}
      /\ client' = IF replies[1] = Zero THEN "prompt" ELSE "reading"
      /\ replies' = SubSeq(replies, Smaller(MAX, Len(replies)) + 1, Len(replies))
      /\ UNCHANGED <<requests, server, given, part>>
      /\ client = "reading"
  BY WholeRead DEF ClientRead
<1>2. Conversing
  BY <1>1 DEF IInv, SyncInv, InSync, NoEmptyPart
<1>3. replies \in Seq(Bytes)
  BY DEF IInv, TypeInv
<1>4. CASE requests = <<>> /\ Open /\ server \in {"writing", "ending"}
  <2>1. Smaller(MAX, Len(replies)) = Len(replies)
    BY <1>1, <1>4 DEF Open, Smaller
  <2>2. replies' = <<>> /\ client' = "reading"
    BY <1>1, <1>3, <1>4, <2>1 DEF Open
  <2>3. Open' /\ Len(replies') = 0
    <3>1. Len(replies') = 0
      BY <2>2
    <3>2. Len(replies') < MAX
      <4>1. 0 < MAX
        BY <1>1
      <4> QED BY <3>1, <4>1
    <3> QED BY <2>2, <3>1, <3>2 DEF Open
  <2>4. server = "writing" => Written' \in Nat /\ Written' >= 0
    <3> SUFFICES ASSUME server = "writing" PROVE Written' \in Nat /\ Written' >= 0
      OBVIOUS
    <3>1. given[Len(given)] \in Answers /\ part \in 1 .. Len(given[Len(given)])
      BY DEF IInv, TypeInv, Serving
    <3>2. (part - 1) * PTR \in Nat
      BY <3>1, AnswerFits
    <3> QED BY <1>1, <3>2 DEF Written
  <2> QED BY <1>1, <1>4, <2>2, <2>3, <2>4 DEF InStep, InSync, Conversing
<1>5. CASE server = "waiting" /\ requests = <<>> /\ Closed
  <2>1. PICK k \in 0 .. MAX - 1 :
          /\ \A i \in k + 1 .. Len(replies) : replies[i] = Zero
          /\ k = 0 => Len(replies) \in 1 .. MAX
          /\ k > 0 => Len(replies) = k + MAX /\ replies[1] # Zero
    BY <1>5 DEF Closed
  <2>2. CASE k = 0
    <3>1. Smaller(MAX, Len(replies)) = Len(replies)
      BY <1>1, <2>1, <2>2 DEF Smaller
    <3>2. replies' = <<>>
      BY <1>1, <1>3, <3>1
    <3>3. client' = "prompt"
      BY <1>1, <2>1, <2>2
    <3> QED BY <1>1, <1>5, <3>2, <3>3 DEF InStep, InSync
  <2>3. CASE k > 0
    <3>0. k \in Nat /\ k > 0 /\ k < MAX /\ MAX \in Nat /\ Len(replies) = k + MAX
      BY <1>1, <2>1, <2>3
    <3>1. Smaller(MAX, Len(replies)) = MAX
      BY <1>1, <2>1, <2>3 DEF Smaller
    <3>2. client' = "reading"
      BY <1>1, <2>1, <2>3
    <3>3. Len(replies') = k /\ \A i \in 1 .. k : replies'[i] = replies[MAX + i]
      BY <1>1, <1>3, <2>1, <2>3, <3>1
    <3>4. \A i \in 1 .. k : replies'[i] = Zero
      <4>1. ASSUME NEW i \in 1 .. k PROVE replies[MAX + i] = Zero
        <5>1. MAX + i \in k + 1 .. Len(replies)
          BY <3>0
        <5> QED BY <2>1, <5>1
      <4> QED BY <3>3, <4>1
    <3>5. Closed'
      <4>1. 0 \in 0 .. MAX - 1 /\ Len(replies') \in 1 .. MAX
        BY <3>0, <3>3
      <4>2. \A i \in 0 + 1 .. Len(replies') : replies'[i] = Zero
        BY <3>3, <3>4
      <4> QED BY <4>1, <4>2 DEF Closed
    <3> QED BY <1>1, <1>5, <3>2, <3>5 DEF InStep, InSync, Conversing
  <2> QED BY <2>1, <2>2, <2>3
<1> QED BY <1>1, <1>2, <1>4, <1>5 DEF Conversing

LEMMA ServerSync == IInv /\ Server => SyncInv'
<1> SUFFICES ASSUME IInv, Server, (~cut /\ NoEmptyPart)' PROVE (InStep /\ InSync)'
  BY DEF SyncInv
<1>1. CASE ServerRead
  <2>1. /\ requests # <<>> /\ requests' = Tail(requests) /\ part' = 1
        /\ server = "waiting" /\ server' = "writing"
        /\ UNCHANGED <<client, asked, buff, shown, replies, cut>>
    BY <1>1 DEF ServerRead
  <2>2. NoEmptyPart
    <3>1. PICK a \in Answers : given' = Append(given, a)
      BY <1>1 DEF ServerRead
    <3>2. \A q \in DOMAIN given : q \in DOMAIN given' /\ given'[q] = given[q]
      BY <3>1 DEF IInv, TypeInv
    <3> QED BY <3>2 DEF NoEmptyPart
  <2>3. client = "reading" /\ Len(requests) = 1 /\ replies = <<>>
    BY <2>1, <2>2 DEF IInv, SyncInv, InStep, InSync, Conversing, TypeInv
  <2>4. requests' = <<>>
    BY <2>1, <2>3 DEF IInv, TypeInv
  <2>5. Written' = 0
    <3>1. PTR \in Nat
      BY BytesAssumption
    <3> QED BY <2>1, <3>1 DEF Written
  <2>6. Open' /\ Len(replies') <= Written'
    <3>1. MAX > 0
      <4>1. PICK a \in Answers : TRUE
        BY <1>1 DEF ServerRead
      <4>2. Len(a) \in Nat \ {0}
        BY AnswersAssumption
      <4> QED BY <4>2, AnswerFits
    <3> QED BY <2>1, <2>3, <2>5, <3>1 DEF Open
  <2> QED BY <2>1, <2>3, <2>4, <2>6 DEF InStep, InSync, Conversing
<1>2. CASE ServerWrite
  <2> DEFINE chunk == Chunk(Len(given), part)
             a == given[Len(given)]
  <2>1. /\ server = "writing" /\ replies' = replies \o chunk
        /\ part' = part + 1
        /\ server' = IF part = Len(a) THEN "ending" ELSE "writing"
        /\ UNCHANGED <<client, asked, buff, shown, requests, given, cut>>
    BY <1>2 DEF ServerWrite
  <2>2. NoEmptyPart /\ ~cut
    BY <2>1 DEF NoEmptyPart
  <2>3. client = "reading" /\ requests = <<>> /\ Open /\ Len(replies) <= Written
    BY <2>1, <2>2 DEF IInv, SyncInv, InStep, InSync, Conversing, TypeInv
  <2>4. chunk \in Seq(Bytes) /\ Len(chunk) = PTR /\ chunk[1] # Zero
    BY <2>1, <2>2, ChunkBytes DEF IInv
  <2>5. a \in Answers /\ part \in 1 .. Len(a) /\ part \in Nat
    BY <2>1 DEF IInv, TypeInv, Serving
  <2>6. /\ Len(a) \in Nat \ {0} /\ Len(a) * PTR < MAX /\ (part - 1) * PTR \in Nat
        /\ (part - 1) * PTR + PTR = part * PTR /\ part * PTR <= Len(a) * PTR
        /\ PTR \in Nat \ {0} /\ part * PTR \in Nat /\ MAX \in Nat
    BY <2>5, AnswerFits
  <2>7. Written = (part - 1) * PTR
    BY <2>1 DEF Written
  <2>8. Len(a) * PTR \in Nat
    BY <2>6
  <2> HIDE DEF chunk, a
  <2>9. /\ Len(replies') = Len(replies) + PTR
        /\ replies'[1] = IF replies = <<>> THEN chunk[1] ELSE replies[1]
    <3>1. replies \in Seq(Bytes) /\ Len(replies) \in Nat /\ PTR \in Nat \ {0}
      BY <2>6 DEF IInv, TypeInv
    <3>2. replies = <<>> <=> Len(replies) = 0
      BY <3>1
    <3>3. replies' = replies \o chunk
      BY <2>1
    <3>4. Len(replies') = Len(replies) + PTR
      BY <2>4, <3>1, <3>3, ConcatLen
    <3>5. replies'[1] = IF 1 <= Len(replies) THEN replies[1] ELSE chunk[1 - Len(replies)]
      BY <2>4, <3>1, <3>3
    <3>6. CASE Len(replies) = 0
      BY <3>2, <3>4, <3>5, <3>6
    <3>7. CASE Len(replies) # 0
      BY <3>1, <3>2, <3>4, <3>5, <3>7
    <3> QED BY <3>6, <3>7
  <2>10. Len(replies) \in Nat
    BY DEF IInv, TypeInv
  <2>11. Len(replies') <= part * PTR /\ Len(replies') < MAX
    BY <2>3, <2>6, <2>7, <2>8, <2>9, <2>10
  <2>12. Open'
    BY <2>3, <2>4, <2>9, <2>11 DEF Open
  <2>13. server' = "writing" => Len(replies') <= Written'
    <3> SUFFICES ASSUME server' = "writing" PROVE Len(replies') <= Written'
      OBVIOUS
    <3>1. Written' = (part' - 1) * PTR
      BY DEF Written
    <3>2. part' - 1 = part
      BY <2>1, <2>5
    <3> QED BY <2>11, <3>1, <3>2
  <2> QED BY <2>1, <2>3, <2>12, <2>13 DEF InStep, InSync, Conversing
<1>3. CASE ServerEnd
  <2>1. /\ server = "ending" /\ server' = "waiting" /\ replies' = replies \o Terminator
        /\ UNCHANGED <<client, asked, buff, shown, requests, given, part, cut>>
    BY <1>3 DEF ServerEnd
  <2>2. NoEmptyPart /\ ~cut
    BY <2>1 DEF NoEmptyPart
  <2>3. client = "reading" /\ requests = <<>> /\ Open
    BY <2>1, <2>2 DEF IInv, SyncInv, InStep, InSync, Conversing, TypeInv
  <2>4. MAX \in Nat /\ replies \in Seq(Bytes) /\ Len(replies) \in Nat
    BY BytesAssumption DEF IInv, TypeInv
  <2>5. /\ Len(replies') = Len(replies) + MAX
        /\ \A i \in 1 .. Len(replies) : replies'[i] = replies[i]
        /\ \A i \in Len(replies) + 1 .. Len(replies') : replies'[i] = Zero
    BY <2>1, <2>4 DEF Terminator
  <2>6. Len(replies) \in 0 .. MAX - 1
    BY <2>3, <2>4 DEF Open
  <2>7. Len(replies) > 0 => replies'[1] # Zero
    BY <2>3, <2>4, <2>5 DEF Open
  <2>8. Len(replies) = 0 => Len(replies') \in 1 .. MAX
    BY <2>4, <2>5, <2>6
  <2>9. Closed'
    BY <2>5, <2>6, <2>7, <2>8 DEF Closed
  <2> QED BY <2>1, <2>3, <2>9 DEF InStep, InSync, Conversing
<1> QED BY <1>1, <1>2, <1>3 DEF Server

LEMMA NextSync == IInv /\ [Next]_vars => IInv'
<1> SUFFICES ASSUME IInv, [Next]_vars PROVE IInv'
  OBVIOUS
<1>1. TypeInv'
  BY NextType DEF IInv
<1>2. SyncInv'
  <2>1. CASE UNCHANGED vars
    BY <2>1 DEF vars, IInv, SyncInv, InStep, InSync, Conversing, Open, Closed, Written,
                NoEmptyPart
  <2> QED BY <2>1, AskSync, ReadSync, ServerSync DEF Next
<1> QED BY <1>1, <1>2 DEF IInv

LEMMA WireInductive == Spec => []IInv
<1>1. Init => IInv
  <2>1. Init => SyncInv
    BY DEF Init, SyncInv, InStep, InSync
  <2> QED BY <2>1, InitType DEF IInv
<1> QED BY <1>1, NextSync, PTL DEF Spec

(* Every byte on the wire, in the client's buffer or on its screen is a    *)
(* zero or one of an answer to a query that was asked.                     *)
THEOREM WireTypeOK == Spec => []TypeOK
<1>1. IInv => TypeOK
  <2> SUFFICES ASSUME TypeInv PROVE TypeOK
    BY DEF IInv
  <2>1. \A i \in DOMAIN shown : shown[i] \in Bytes \ {Zero}
    BY DEF TypeInv, Byte
  <2>2. \A i \in DOMAIN replies : replies[i] \in Bytes
    BY DEF TypeInv
  <2>3. \A i \in 1 .. MAX : buff[i] \in Bytes
    BY DEF TypeInv
  <2> QED BY <2>1, <2>2, <2>3 DEF TypeInv, TypeOK
<1> QED BY <1>1, WireInductive, PTL

(* Whatever the sizes of buffer and chunk, a client back at its prompt has *)
(* read all of every answer, as long as its reads are whole and no answer  *)
(* has an empty part (client_transport.c:623-640).                         *)
THEOREM WireStaysInStep == Spec => []StaysInStep
<1>1. IInv => StaysInStep
  BY DEF IInv, SyncInv, StaysInStep
<1> QED BY <1>1, WireInductive, PTL
-----------------------------------------------------------------------------
(* The answer to the query asked last, as bytes up to its text's end.      *)
Answer == given[asked]

TextOf(a) == (Len(a) - 1) * PTR + Smaller(PTR, a[Len(a)])

TextEnd == TextOf(Answer)

Label(j) == <<asked, (j - 1) \div PTR + 1, ((j - 1) % PTR) + 1>>

SentByte(j) == IF j <= TextEnd THEN Label(j) ELSE Zero

(* The bytes of it that have been written.                                 *)
SoFar == IF server = "writing" THEN (part - 1) * PTR ELSE Len(Answer) * PTR

(* The client has read r of them: it has printed their text, they have     *)
(* filled no more of the buffer, and the rest is on its way.               *)
Delivered(r) ==
  /\ r <= SoFar
  /\ shown = [i \in 1 .. Smaller(r, TextEnd) |-> Label(i)]
  /\ \A i \in r + 1 .. MAX : buff[i] = Zero
  /\ \A i \in 1 .. SoFar - r : replies[i] = SentByte(r + i)
  /\ \A i \in SoFar - r + 1 .. Len(replies) : replies[i] = Zero
  /\ server # "waiting" => Len(replies) = SoFar - r
  /\ server = "waiting" /\ r < SoFar => Len(replies) = SoFar - r + MAX

Reading ==
  client = "reading" =>
    IF requests # <<>>
    THEN shown = <<>> /\ buff = Cleared
    ELSE Len(Answer) <= 2 =>
           \E k \in 0 .. Len(Answer) : Delivered(k * PTR)

Whole == ~cut /\ NoEmptyPart

Asked == client = "reading" => asked > 0

AnswerInv == WholeAnswer /\ Asked /\ (Whole => Reading)

-----------------------------------------------------------------------------
(* Numbers.                                                                *)

LEMMA SmallDivision ==
  ASSUME NEW n \in Nat \ {0}, NEW o \in 0 .. n - 1
  PROVE  o \div n = 0 /\ o % n = o /\ (n + o) \div n = 1 /\ (n + o) % n = o
<1>1. ASSUME NEW b \in {0, 1}, NEW x \in Nat, x = b * n + o
      PROVE  x \div n = b /\ x % n = o
  <2> DEFINE k == x \div n
             m == x % n
  <2>1. k \in Int /\ m \in 0 .. n - 1 /\ x = n * k + m
    BY Z3
  <2>2. (b - k) * n = m - o
    BY <1>1, <2>1
  <2>3. b - k = 0
    <3>1. CASE b - k >= 1
      <4>1. (b - k) * n >= n
        BY <2>1, <3>1
      <4> QED BY <2>1, <2>2, <4>1
    <3>2. CASE b - k <= -1
      <4>1. (b - k) * n <= -n
        BY <2>1, <3>2
      <4> QED BY <2>1, <2>2, <4>1
    <3> QED BY <2>1, <3>1, <3>2
  <2> QED BY <2>1, <2>2, <2>3
<1>2. o \in Nat /\ n + o \in Nat /\ o = 0 * n + o /\ n + o = 1 * n + o
  OBVIOUS
<1> QED BY <1>1, <1>2

(* An answer of one or two parts, and where its text ends.                 *)
LEMMA AnswerNumbers ==
  ASSUME NEW a \in Answers, Len(a) <= 2, a[Len(a)] > 0
  PROVE  /\ Len(a) \in {1, 2} /\ PTR \in Nat \ {0} /\ MAX \in Nat
         /\ Len(a) * PTR < MAX
         /\ (Len(a) - 1) * PTR + PTR = Len(a) * PTR
         /\ TextOf(a) \in Nat
         /\ (Len(a) - 1) * PTR < TextOf(a) /\ TextOf(a) <= Len(a) * PTR
         /\ 0 * PTR = 0 /\ 1 * PTR = PTR /\ 2 * PTR = PTR + PTR
<1> DEFINE last == a[Len(a)]
<1>1. /\ Len(a) \in Nat \ {0} /\ Len(a) * PTR < MAX /\ PTR \in Nat \ {0} /\ MAX \in Nat
      /\ a \in Seq(Nat)
  BY BytesAssumption, AnswersAssumption
<1>2. last \in Nat \ {0}
  BY <1>1
<1>3. 0 * PTR = 0 /\ 1 * PTR = PTR /\ 2 * PTR = PTR + PTR
  BY <1>1
<1>4. Smaller(PTR, last) \in 1 .. PTR
  BY <1>1, <1>2 DEF Smaller
<1>5. Len(a) = 1 \/ Len(a) = 2
  <2>1. Len(a) \in Nat \ {0}
    BY AnswersAssumption
  <2>2. ASSUME NEW x \in Nat \ {0}, x <= 2 PROVE x = 1 \/ x = 2
    BY <2>2
  <2> QED BY <2>1, <2>2
<1>6. TextOf(a) = (Len(a) - 1) * PTR + Smaller(PTR, last)
  BY DEF TextOf
<1> HIDE DEF last
<1>7. CASE Len(a) = 1
  BY <1>1, <1>3, <1>4, <1>6, <1>7
<1>8. CASE Len(a) = 2
  BY <1>1, <1>3, <1>4, <1>6, <1>8
<1> QED BY <1>5, <1>7, <1>8

LEMMA OneOrTwo ==
  ASSUME NEW n \in {1, 2}, NEW p \in 1 .. n
  PROVE  p \in {1, 2}
OBVIOUS

(* The numbers of the answer that is being given.                          *)
LEMMA CurrentNumbers ==
  ASSUME NoEmptyPart, Answer \in Answers, asked \in DOMAIN given, Len(Answer) <= 2
  PROVE  /\ Len(Answer) \in {1, 2} /\ PTR \in Nat \ {0} /\ MAX \in Nat
         /\ Len(Answer) * PTR < MAX
         /\ (Len(Answer) - 1) * PTR + PTR = Len(Answer) * PTR
         /\ TextEnd \in Nat
         /\ (Len(Answer) - 1) * PTR < TextEnd /\ TextEnd <= Len(Answer) * PTR
         /\ 0 * PTR = 0 /\ 1 * PTR = PTR /\ 2 * PTR = PTR + PTR
<1>1. Len(Answer) \in DOMAIN Answer
  BY AnswersAssumption
<1>2. Answer[Len(Answer)] > 0
  BY <1>1 DEF NoEmptyPart, Answer
<1> QED BY <1>2, AnswerNumbers DEF TextEnd

(* A chunk is the next PTR bytes of the answer.                            *)
LEMMA ChunkIsSent ==
  ASSUME NoEmptyPart, Answer \in Answers, asked \in DOMAIN given, Len(Answer) <= 2,
         asked = Len(given),
         NEW c \in 1 .. Len(Answer), NEW i \in 1 .. PTR
  PROVE  Chunk(Len(given), c)[i] = SentByte((c - 1) * PTR + i)
<1>1. /\ Len(Answer) \in {1, 2} /\ PTR \in Nat \ {0}
      /\ TextEnd = (Len(Answer) - 1) * PTR + Smaller(PTR, Answer[Len(Answer)])
      /\ 0 * PTR = 0 /\ 1 * PTR = PTR
  BY CurrentNumbers DEF TextEnd, TextOf
<1>2. Chunk(Len(given), c)[i] = IF i <= Answer[c] THEN <<asked, c, i>> ELSE Zero
  BY DEF Chunk, Answer
<1>3. /\ (i - 1) \div PTR = 0 /\ (i - 1) % PTR = i - 1
      /\ (PTR + (i - 1)) \div PTR = 1 /\ (PTR + (i - 1)) % PTR = i - 1
  <2>1. i - 1 \in 0 .. PTR - 1
    <3>1. PTR \in Nat \ {0} /\ i \in 1 .. PTR
      BY <1>1
    <3> QED BY <3>1
  <2> QED BY <1>1, <2>1, SmallDivision
<1>4. (\A d \in 1 .. Len(Answer) : Answer[d] \in Nat) /\ (c < Len(Answer) => Answer[c] >= PTR)
  <2>1. Answer \in Seq(Nat)
    BY AnswersAssumption
  <2>2. \A d \in 1 .. Len(Answer) : Answer[d] \in (IF d < Len(Answer) THEN PTR ELSE 0) .. MAX
    BY AnswersAssumption
  <2>3. c < Len(Answer) => Answer[c] \in PTR .. MAX
    BY <2>2
  <2>4. PTR \in Nat /\ MAX \in Nat
    BY <1>1, BytesAssumption
  <2> QED BY <2>1, <2>3, <2>4
<1>5. CASE c = 1
  <2>1. Label(i) = <<asked, 1, i>>
    BY <1>1, <1>3, <1>5 DEF Label
  <2>2. i <= TextEnd <=> i <= Answer[1]
    <3>1. CASE Len(Answer) = 1
      BY <1>1, <1>4, <1>5, <3>1 DEF Smaller
    <3>2. CASE Len(Answer) = 2
      <4>1. Answer[2] \in Nat
        BY <1>4, <3>2
      <4> QED BY <1>1, <1>4, <1>5, <3>2, <4>1 DEF Smaller
    <3> QED BY <1>1, <3>1, <3>2
  <2>3. (c - 1) * PTR + i = i
    BY <1>1, <1>5
  <2> QED BY <1>2, <1>5, <2>1, <2>2, <2>3 DEF SentByte
<1>6. CASE c = 2
  <2>0. Len(Answer) = 2
    BY <1>1, <1>6
  <2>1. (c - 1) * PTR + i = PTR + i /\ PTR + i - 1 = PTR + (i - 1)
    BY <1>1, <1>6
  <2>2. Label(PTR + i) = <<asked, 2, i>>
    <3>1. (PTR + i - 1) \div PTR = 1 /\ (PTR + i - 1) % PTR = i - 1
      BY <1>3, <2>1
    <3> QED BY <1>1, <3>1 DEF Label
  <2>3. PTR + i <= TextEnd <=> i <= Answer[2]
    BY <1>1, <1>4, <1>6, <2>0 DEF Smaller
  <2> QED BY <1>2, <1>6, <2>1, <2>2, <2>3 DEF SentByte
<1> QED BY <1>1, <1>5, <1>6

(* printf shows m bytes when the first zero is behind them.                *)
LEMMA TextIs ==
  ASSUME MAX \in Nat, NEW b \in [1 .. MAX -> Bytes], NEW m \in 0 .. MAX,
         \A i \in 1 .. m : b[i] # Zero, m = MAX \/ b[m + 1] = Zero
  PROVE  Text(b) = [i \in 1 .. m |-> b[i]]
<1> DEFINE End(n) == /\ \A i \in 1 .. n : b[i] # Zero
                     /\ n = MAX \/ b[n + 1] = Zero
<1>1. End(m)
  OBVIOUS
<1>2. ASSUME NEW n \in 0 .. MAX, End(n) PROVE n = m
  <2>1. CASE n < m
    <3>1. n + 1 \in 1 .. m /\ b[n + 1] = Zero
      BY <1>2, <2>1
    <3> QED BY <1>1, <3>1
  <2>2. CASE m < n
    <3>1. m + 1 \in 1 .. n /\ b[m + 1] = Zero
      BY <1>1, <2>2
    <3> QED BY <1>2, <3>1
  <2> QED BY <2>1, <2>2
<1>3. (CHOOSE n \in 0 .. MAX : End(n)) = m
  BY <1>1, <1>2
<1>4. Text(b) = SubSeq(b, 1, m)
  BY <1>3 DEF Text
<1> QED BY <1>4

-----------------------------------------------------------------------------
(* The steps.                                                              *)

(* Of a longer history of answers, the shorter one has the same parts.     *)
LEMMA WholeBefore ==
  ASSUME TypeInv, ClientAsk \/ ClientRead \/ Server, Whole'
  PROVE  Whole
<1>1. CASE ServerRead
  <2>1. PICK a \in Answers : given' = Append(given, a)
    BY <1>1 DEF ServerRead
  <2>2. \A q \in DOMAIN given : q \in DOMAIN given' /\ given'[q] = given[q]
    BY <2>1 DEF TypeInv
  <2>3. NoEmptyPart
    BY <2>2 DEF Whole, NoEmptyPart
  <2> QED BY <1>1, <2>3 DEF Whole, ServerRead
<1>2. CASE ServerWrite \/ ServerEnd \/ ClientAsk
  BY <1>2 DEF ServerWrite, ServerEnd, ClientAsk, Whole, NoEmptyPart
<1>3. CASE ClientRead
  <2>1. cut \in BOOLEAN /\ (cut => cut')
    BY <1>3 DEF ClientRead, TypeInv
  <2>2. UNCHANGED given
    BY <1>3 DEF ClientRead
  <2> QED BY <2>1, <2>2 DEF Whole, NoEmptyPart
<1> QED BY <1>1, <1>2, <1>3 DEF Server

LEMMA AskAnswer == IInv /\ AnswerInv /\ ClientAsk => AnswerInv'
<1> SUFFICES ASSUME IInv, AnswerInv, ClientAsk PROVE AnswerInv'
  OBVIOUS
<1>1. client' = "reading" /\ requests' = Append(requests, asked') /\ asked' = asked + 1
      /\ shown' = <<>> /\ buff' = Cleared
  BY DEF ClientAsk, AfterSend
<1>2. requests' # <<>> /\ asked' > 0
  <2>1. requests \in Seq(Nat) /\ asked \in Nat
    BY DEF IInv, TypeInv
  <2>2. Len(requests') = Len(requests) + 1
    BY <1>1, <2>1
  <2> QED BY <1>1, <2>1, <2>2
<1> QED BY <1>1, <1>2 DEF AnswerInv, WholeAnswer, Asked, Reading, Cleared

(* The answer being given is the one to the query asked last.              *)
LEMMA Current ==
  ASSUME TypeInv, asked > 0, requests = <<>>
  PROVE  asked = Len(given) /\ asked \in DOMAIN given /\ Answer \in Answers
<1>1. Len(requests) = 0 /\ given \in Seq(Answers) /\ asked = Len(given)
  BY DEF TypeInv
<1>2. asked \in 1 .. Len(given)
  BY <1>1
<1> QED BY <1>1, <1>2 DEF Answer

(* ServerRead: nothing of the new answer is written.                       *)
LEMMA ServerReadAnswer ==
  ASSUME IInv, AnswerInv, ServerRead
  PROVE  AnswerInv'
<1>1. /\ requests # <<>> /\ requests' = Tail(requests) /\ part' = 1
      /\ server = "waiting" /\ server' = "writing"
      /\ UNCHANGED <<client, asked, buff, shown, replies, cut>>
  BY DEF ServerRead
<1>2. CASE ~Whole'
  BY <1>1, <1>2 DEF AnswerInv, WholeAnswer, Whole, Asked
<1>3. CASE Whole'
  <2>1. Whole
    BY <1>3, WholeBefore DEF IInv, Server
  <2>2. client = "reading" /\ Len(requests) = 1 /\ replies = <<>>
    BY <1>1, <2>1 DEF IInv, TypeInv, SyncInv, InStep, InSync, Conversing, Whole
  <2>3. requests' = <<>> /\ TypeInv'
    <3>1. TypeInv /\ requests \in Seq(Nat)
      BY DEF IInv, TypeInv
    <3>2. Tail(requests) = <<>>
      <4>1. Tail(requests) \in Seq(Nat) /\ Len(Tail(requests)) = Len(requests) - 1
        <5>1. requests # <<>>
          BY <1>1
        <5> QED BY <3>1, <5>1, HeadTailProperties, Zenon
      <4>2. Len(Tail(requests)) = 0
        BY <2>2, <4>1
      <4>3. Tail(requests) # <<>> => Len(Tail(requests)) \in Nat \ {0}
        BY <4>1, EmptySeq, Zenon
      <4> QED BY <4>2, <4>3
    <3>3. Next
      BY DEF Next, Server
    <3> QED BY <1>1, <3>1, <3>2, <3>3, NextType
  <2>4. shown = <<>> /\ buff = Cleared
    BY <1>1, <2>1, <2>2 DEF AnswerInv, Reading
  <2>5. Asked' /\ asked' > 0
    BY <1>1, <2>2 DEF AnswerInv, Asked
  <2>6. ASSUME Len(Answer') <= 2
        PROVE  0 \in 0 .. Len(Answer') /\ Delivered(0 * PTR)'
    <3>1. Answer' \in Answers /\ asked' \in DOMAIN given'
      <4>1. Len(requests') = 0 /\ given' \in Seq(Answers) /\ asked' = Len(given')
        <5>1. given' \in Seq(Answers) /\ Len(given') + Len(requests') = asked'
          BY <2>3 DEF TypeInv
        <5>2. Len(requests') = 0 /\ Len(given') \in Nat
          BY <2>3, <5>1
        <5> QED BY <5>1, <5>2
      <4>2. asked' \in 1 .. Len(given')
        BY <2>5, <4>1
      <4> QED BY <4>1, <4>2 DEF Answer
    <3>2. /\ Len(Answer') \in {1, 2} /\ PTR \in Nat \ {0} /\ TextEnd' \in Nat
          /\ 0 * PTR = 0
      <4>1. Len(Answer') \in DOMAIN Answer'
        BY <3>1, AnswersAssumption
      <4>2. Answer'[Len(Answer')] > 0
        BY <1>3, <3>1, <4>1 DEF Whole, NoEmptyPart, Answer
      <4> QED BY <2>6, <3>1, <4>2, AnswerNumbers DEF TextEnd
    <3>3. SoFar' = 0
      <4>1. SoFar' = (part' - 1) * PTR
        BY <1>1 DEF SoFar
      <4> QED BY <1>1, <3>2, <4>1
    <3>4. Smaller(0, TextEnd') = 0
      BY <3>2 DEF Smaller
    <3>5. shown' = [i \in 1 .. 0 |-> Label(i)']
      BY <1>1, <2>4
    <3>6. Len(replies') = 0 /\ replies' = <<>>
      BY <1>1, <2>2
    <3>7. \A i \in 1 .. MAX : buff'[i] = Zero
      BY <1>1, <2>4 DEF Cleared
    <3> QED BY <1>1, <3>2, <3>3, <3>4, <3>5, <3>6, <3>7 DEF Delivered
  <2>7. Reading'
    BY <2>3, <2>6 DEF Reading
  <2>8. WholeAnswer'
    BY <1>1, <2>2 DEF WholeAnswer
  <2> QED BY <2>5, <2>7, <2>8 DEF AnswerInv
<1> QED BY <1>2, <1>3

(* ServerWrite: the next bytes are on their way.                           *)
LEMMA ServerWriteAnswer ==
  ASSUME IInv, AnswerInv, ServerWrite
  PROVE  AnswerInv'
<1>1. /\ server = "writing" /\ replies' = replies \o Chunk(Len(given), part)
      /\ part' = part + 1
      /\ server' = IF part = Len(given[Len(given)]) THEN "ending" ELSE "writing"
      /\ UNCHANGED <<client, asked, buff, shown, requests, given, cut>>
  BY DEF ServerWrite
<1>2. CASE ~Whole
  BY <1>1, <1>2 DEF AnswerInv, WholeAnswer, Whole, Asked, NoEmptyPart
<1>3. CASE Whole
  <2>1. client = "reading" /\ requests = <<>>
    BY <1>1, <1>3 DEF IInv, TypeInv, SyncInv, InStep, InSync, Conversing, Whole
  <2>2. /\ asked = Len(given) /\ asked \in DOMAIN given /\ Answer \in Answers
        /\ asked > 0
    BY <2>1, Current DEF IInv, AnswerInv, Asked
  <2>3. part \in 1 .. Len(Answer) /\ Answer' = Answer /\ TextEnd' = TextEnd
    BY <1>1, <2>2 DEF IInv, TypeInv, Serving, Answer, TextEnd
  <2>4. ASSUME Len(Answer) <= 2, NEW k \in 0 .. Len(Answer), Delivered(k * PTR)
        PROVE  Delivered(k * PTR)'
    <3> DEFINE r == k * PTR
               chunk == Chunk(Len(given), part)
    <3>1. /\ Len(Answer) \in {1, 2} /\ PTR \in Nat \ {0} /\ TextEnd \in Nat
          /\ 0 * PTR = 0 /\ 1 * PTR = PTR /\ 2 * PTR = PTR + PTR
      BY <1>3, <2>2, <2>4, CurrentNumbers DEF Whole
    <3>2. r \in Nat
      BY <3>1
    <3>3. SoFar = (part - 1) * PTR /\ SoFar \in Nat /\ SoFar' = SoFar + PTR
          /\ PTR \in Nat
      <4>1. SoFar = (part - 1) * PTR
        BY <1>1 DEF SoFar
      <4>2. SoFar' = part * PTR
        <5>1. CASE part = Len(Answer)
          BY <1>1, <2>2, <2>3, <5>1 DEF SoFar, Answer
        <5>2. CASE part # Len(Answer)
          <6>1. SoFar' = (part' - 1) * PTR /\ part' - 1 = part
            BY <1>1, <2>2, <2>3, <5>2 DEF SoFar, Answer
          <6> QED BY <6>1
        <5> QED BY <5>1, <5>2
      <4>3. part \in {1, 2}
        BY <2>3, <3>1, OneOrTwo
      <4> QED BY <3>1, <4>1, <4>2, <4>3
    <3>4. /\ r <= SoFar /\ Len(replies) = SoFar - r
          /\ \A i \in 1 .. SoFar - r : replies[i] = SentByte(r + i)
      BY <1>1, <2>4 DEF Delivered
    <3>5. chunk \in Seq(Bytes) /\ Len(chunk) = PTR
          /\ \A i \in 1 .. PTR : chunk[i] = SentByte(SoFar + i)
      <4>1. chunk \in Seq(Bytes) /\ Len(chunk) = PTR
        BY <1>1, ChunkBytes DEF IInv
      <4>2. \A i \in 1 .. PTR : chunk[i] = SentByte((part - 1) * PTR + i)
        BY <1>3, <2>2, <2>3, <2>4, ChunkIsSent DEF Whole
      <4> QED BY <3>3, <4>1, <4>2
    <3>6. \A j : SentByte(j)' = SentByte(j) /\ Label(j)' = Label(j)
      BY <1>1, <2>3 DEF SentByte, Label
    <3>7. replies \in Seq(Bytes)
      BY DEF IInv, TypeInv
    <3> HIDE DEF r, chunk
    <3>8. replies' = replies \o chunk
      BY <1>1 DEF chunk
    <3>9. Len(replies') = SoFar' - r
      <4>1. Len(replies') = Len(replies) + PTR
        BY <3>5, <3>7, <3>8, ConcatLen
      <4>2. Len(replies) = SoFar - r /\ SoFar' = SoFar + PTR
            /\ SoFar \in Nat /\ PTR \in Nat
        BY <3>3, <3>4
      <4> QED BY <3>2, <4>1, <4>2
    <3>10. \A i \in 1 .. SoFar' - r : replies'[i] = SentByte(r + i)
      <4> SUFFICES ASSUME NEW i \in 1 .. SoFar' - r PROVE replies'[i] = SentByte(r + i)
        OBVIOUS
      <4>1. CASE i <= SoFar - r
        <5>1. i \in 1 .. SoFar - r /\ i \in 1 .. Len(replies)
          BY <3>2, <3>3, <3>4, <4>1
        <5>2. replies'[i] = replies[i]
          BY <3>5, <3>7, <3>8, <5>1
        <5> QED BY <3>4, <5>1, <5>2
      <4>2. CASE i > SoFar - r
        <5> DEFINE j == i - Len(replies)
        <5>1. j \in 1 .. PTR /\ i = Len(replies) + j /\ SoFar + j = r + i
          <6>1. Len(replies) = SoFar - r /\ SoFar' = SoFar + PTR
                /\ SoFar \in Nat /\ PTR \in Nat
            BY <3>3, <3>4
          <6> QED BY <3>2, <4>2, <6>1
        <5>2. replies'[i] = chunk[j]
          BY <3>5, <3>7, <3>8, <5>1
        <5> QED BY <3>5, <5>1, <5>2
      <4> QED BY <3>2, <3>3, <4>1, <4>2
    <3>11. r <= SoFar'
      BY <3>1, <3>2, <3>3, <3>4
    <3>12. \A i \in SoFar' - r + 1 .. Len(replies') : replies'[i] = Zero
      BY <3>1, <3>2, <3>3, <3>9
    <3>13. server' # "waiting"
      BY <1>1
    <3>14. /\ shown' = [i \in 1 .. Smaller(r, TextEnd') |-> Label(i)']
           /\ \A i \in r + 1 .. MAX : buff'[i] = Zero
      BY <1>1, <2>3, <2>4, <3>6 DEF Delivered, r
    <3>15. \A i \in 1 .. SoFar' - r : replies'[i] = SentByte(r + i)'
      BY <3>6, <3>10
    <3> QED BY <3>9, <3>11, <3>12, <3>13, <3>14, <3>15 DEF Delivered, r
  <2>5. Reading'
    BY <1>1, <1>3, <2>1, <2>3, <2>4 DEF AnswerInv, Reading
  <2> QED BY <1>1, <2>1, <2>2, <2>5 DEF AnswerInv, WholeAnswer, Asked
<1> QED BY <1>2, <1>3

(* ServerEnd: the terminator follows.                                      *)
LEMMA ServerEndAnswer ==
  ASSUME IInv, AnswerInv, ServerEnd
  PROVE  AnswerInv'
<1>1. /\ server = "ending" /\ server' = "waiting" /\ replies' = replies \o Terminator
      /\ UNCHANGED <<client, asked, buff, shown, requests, given, part, cut>>
  BY DEF ServerEnd
<1>2. CASE ~Whole
  BY <1>1, <1>2 DEF AnswerInv, WholeAnswer, Whole, Asked, NoEmptyPart
<1>3. CASE Whole
  <2>1. client = "reading" /\ requests = <<>>
    BY <1>1, <1>3 DEF IInv, TypeInv, SyncInv, InStep, InSync, Conversing, Whole
  <2>2. Answer' = Answer /\ TextEnd' = TextEnd /\ SoFar' = SoFar
    BY <1>1 DEF Answer, TextEnd, SoFar
  <2>3. Answer \in Answers /\ asked \in DOMAIN given
    BY <2>1, Current DEF IInv, AnswerInv, Asked
  <2>4. MAX \in Nat /\ replies \in Seq(Bytes) /\ Len(replies) \in Nat
    BY BytesAssumption DEF IInv, TypeInv
  <2>5. /\ Len(replies') = Len(replies) + MAX
        /\ \A i \in 1 .. Len(replies) : replies'[i] = replies[i]
        /\ \A i \in Len(replies) + 1 .. Len(replies') : replies'[i] = Zero
    BY <1>1, <2>4 DEF Terminator
  <2>6. ASSUME Len(Answer) <= 2, NEW k \in 0 .. Len(Answer), Delivered(k * PTR)
        PROVE  Delivered(k * PTR)'
    <3> DEFINE r == k * PTR
    <3>1. /\ Len(replies) = SoFar - r /\ r <= SoFar
          /\ \A i \in 1 .. SoFar - r : replies[i] = SentByte(r + i)
          /\ shown = [i \in 1 .. Smaller(r, TextEnd) |-> Label(i)]
          /\ \A i \in r + 1 .. MAX : buff[i] = Zero
      BY <1>1, <2>6 DEF Delivered
    <3>2. \A j : SentByte(j)' = SentByte(j) /\ Label(j)' = Label(j)
      BY <1>1, <2>2 DEF SentByte, Label
    <3> HIDE DEF r
    <3>3. /\ \A i \in 1 .. SoFar - r : replies'[i] = SentByte(r + i)
          /\ \A i \in SoFar - r + 1 .. Len(replies') : replies'[i] = Zero
          /\ Len(replies') = SoFar - r + MAX
      BY <2>5, <3>1
    <3> QED BY <1>1, <2>2, <3>1, <3>2, <3>3 DEF Delivered, r
  <2>7. Reading'
    BY <1>1, <1>3, <2>1, <2>2, <2>6 DEF AnswerInv, Reading
  <2> QED BY <1>1, <2>1, <2>7 DEF AnswerInv, WholeAnswer, Asked
<1> QED BY <1>2, <1>3

(* What a read that takes all there is does to buffer and screen.          *)
LEMMA WholeReadShows ==
  ASSUME IInv, ClientRead, ~cut'
  PROVE  LET n == Smaller(MAX, Len(replies))
             b == [i \in 1 .. MAX |-> IF i <= n THEN replies[i] ELSE buff[i]]
         IN  /\ shown' = shown \o Text(b)
             /\ buff' = IF b[1] = Zero THEN Cleared ELSE b
             /\ b \in [1 .. MAX -> Bytes]
<1>1. PICK n \in ReadSizes :
        LET b == [i \in 1 .. MAX |-> IF i <= n THEN replies[i] ELSE buff[i]]
            done == b[1] = Zero
        IN  /\ shown' = shown \o Text(b)
            /\ buff' = IF done THEN Cleared ELSE b
            /\ cut' = (cut \/ \E most \in ReadSizes : most > n)
  BY DEF ClientRead
<1>2. MAX \in Nat /\ Len(replies) \in Nat /\ replies \in Seq(Bytes)
      /\ buff \in [1 .. MAX -> Bytes] /\ cut \in BOOLEAN
  BY BytesAssumption DEF IInv, TypeInv
<1>3. Smaller(MAX, Len(replies)) \in Nat
  BY <1>2 DEF Smaller
<1>4. n \in 1 .. Smaller(MAX, Len(replies)) /\ \A most \in ReadSizes : ~(most > n)
  BY <1>1, <1>2 DEF ReadSizes
<1>5. n = Smaller(MAX, Len(replies))
  BY <1>3, <1>4 DEF ReadSizes
<1>6. n <= Len(replies)
  BY <1>2, <1>5 DEF Smaller
<1>7. [i \in 1 .. MAX |-> IF i <= n THEN replies[i] ELSE buff[i]] \in [1 .. MAX -> Bytes]
  BY <1>2, <1>3, <1>4, <1>6
<1> QED BY <1>1, <1>5, <1>7

(* ClientRead with nothing of the answer left: only zeros come, and the    *)
(* text of all of it has been printed.                                     *)
LEMMA ReadZeros ==
  ASSUME IInv, Whole, Whole', ClientRead, requests = <<>>,
         asked \in DOMAIN given, Answer \in Answers, Len(Answer) <= 2,
         Delivered(SoFar)
  PROVE  client' = "prompt" /\ WholeAnswer'
<1>1. /\ Len(Answer) \in {1, 2} /\ PTR \in Nat \ {0} /\ TextEnd \in Nat
      /\ TextEnd <= Len(Answer) * PTR /\ Len(Answer) * PTR \in Nat
  BY CurrentNumbers DEF Whole
<1>2. /\ ~cut' /\ replies # <<>> /\ Len(replies) \in Nat \ {0} /\ MAX \in Nat \ {0}
      /\ client' = IF replies[1] = Zero THEN "prompt" ELSE "reading"
      /\ UNCHANGED <<requests, server, given, part, asked>>
  BY WholeRead DEF Whole, ClientRead
<1>3. part \in Nat /\ (server = "writing" => part \in 1 .. Len(given[Len(given)]))
  BY DEF IInv, TypeInv, Serving
<1>4. SoFar \in Int
  BY <1>1, <1>3 DEF SoFar
<1>5. SoFar - SoFar = 0
  BY <1>4
<1>6. server = "waiting" /\ \A i \in 1 .. Len(replies) : replies[i] = Zero
  <2>1. Len(replies) # 0
    BY <1>2
  <2> QED BY <1>5, <2>1 DEF Delivered, IInv, TypeInv
<1>7. SoFar = Len(Answer) * PTR
  BY <1>6 DEF SoFar
<1>8. Smaller(SoFar, TextEnd) = TextEnd
  BY <1>1, <1>7 DEF Smaller
<1>9. shown = [i \in 1 .. TextEnd |-> Label(i)]
  BY <1>8 DEF Delivered
<1>10. client' = "prompt"
  BY <1>2, <1>6
<1>11. shown' = shown
  <2> DEFINE n == Smaller(MAX, Len(replies))
             b == [i \in 1 .. MAX |-> IF i <= n THEN replies[i] ELSE buff[i]]
  <2>1. shown' = shown \o Text(b) /\ b \in [1 .. MAX -> Bytes]
    BY <1>2, WholeReadShows
  <2>2. 1 <= n
    BY <1>2 DEF Smaller
  <2>3. b[1] = Zero
    BY <1>2, <1>6, <2>2
  <2> HIDE DEF b
  <2>4. Text(b) = [i \in 1 .. 0 |-> b[i]]
    BY <1>2, <2>1, <2>3, TextIs
  <2>5. Text(b) = <<>> /\ shown \in Seq(Byte)
    BY <2>4 DEF IInv, TypeInv
  <2> QED BY <2>1, <2>5
<1>12. WholeAnswer'
  <2>1. /\ given' = given /\ asked' = asked
    BY <1>2
  <2> QED BY <1>9, <1>11, <2>1 DEF WholeAnswer, TextEnd, TextOf, Answer, Label
<1> QED BY <1>10, <1>12

LEMMA LabelsConcat ==
  ASSUME NEW r \in Nat, NEW m \in Nat
  PROVE  [i \in 1 .. r |-> Label(i)] \o [i \in 1 .. m |-> Label(r + i)]
           = [i \in 1 .. r + m |-> Label(i)]
<1> DEFINE s == [i \in 1 .. r |-> Label(i)]
           t == [i \in 1 .. m |-> Label(r + i)]
           u == [i \in 1 .. r + m |-> Label(i)]
           S == {Label(i) : i \in Nat}
<1>1. s \in Seq(S) /\ t \in Seq(S) /\ u \in Seq(S)
      /\ Len(s) = r /\ Len(t) = m /\ Len(u) = r + m
  OBVIOUS
<1>2. \A i \in 1 .. r : s[i] = Label(i)
  OBVIOUS
<1>3. \A i \in 1 .. m : t[i] = Label(r + i)
  OBVIOUS
<1>4. \A i \in 1 .. r + m : u[i] = Label(i)
  OBVIOUS
<1> HIDE DEF s, t, u, S
<1>5. s \o t \in Seq(S) /\ Len(s \o t) = r + m
  BY <1>1, ConcatLen
<1>6. ASSUME NEW i \in 1 .. r + m PROVE (s \o t)[i] = u[i]
  <2>1. CASE i <= r
    <3>1. (s \o t)[i] = s[i]
      BY <1>1, <2>1
    <3> QED BY <1>2, <1>4, <2>1, <3>1
  <2>2. CASE ~(i <= r)
    <3>1. (s \o t)[i] = t[i - r] /\ i - r \in 1 .. m /\ r + (i - r) = i
      BY <1>1, <2>2
    <3> QED BY <1>3, <1>4, <3>1
  <2> QED BY <2>1, <2>2
<1>7. s \o t = u
  <2>1. Len(s \o t) = Len(u) /\ \A i \in 1 .. Len(s \o t) : (s \o t)[i] = u[i]
    BY <1>1, <1>5, <1>6
  <2> QED BY <1>1, <1>5, <2>1, SeqEqual
<1> QED BY <1>7 DEF s, t, u

(* The places an answer of one or two parts can be read up to.             *)
LEMMA Places ==
  ASSUME TypeInv, NoEmptyPart, asked = Len(given), asked \in DOMAIN given,
         Answer \in Answers, Len(Answer) <= 2,
         NEW k \in 0 .. Len(Answer), k * PTR < SoFar
  PROVE  /\ k * PTR \in Nat /\ SoFar \in Nat /\ SoFar < MAX
         /\ k * PTR < TextEnd /\ SoFar - k * PTR >= k * PTR
         /\ SoFar <= Len(Answer) * PTR
         /\ \E c \in 0 .. Len(Answer) : SoFar = c * PTR
<1>1. /\ Len(Answer) \in {1, 2} /\ PTR \in Nat \ {0} /\ MAX \in Nat
      /\ Len(Answer) * PTR < MAX
      /\ (Len(Answer) - 1) * PTR < TextEnd
      /\ 0 * PTR = 0 /\ 1 * PTR = PTR /\ 2 * PTR = PTR + PTR
      /\ TextEnd \in Nat
  BY CurrentNumbers
<1>2. PICK c \in 0 .. Len(Answer) : SoFar = c * PTR
  <2>1. CASE server = "writing"
    <3>1. part \in 1 .. Len(Answer)
      BY <2>1 DEF TypeInv, Serving, Answer
    <3>2. part - 1 \in 0 .. Len(Answer)
      BY <3>1
    <3> QED BY <2>1, <3>2 DEF SoFar
  <2>2. CASE server # "writing"
    <3>1. Len(Answer) \in 0 .. Len(Answer)
      BY <1>1
    <3> QED BY <2>2, <3>1 DEF SoFar
  <2> QED BY <2>1, <2>2
<1>3. ASSUME NEW n \in {1, 2}, NEW x \in 0 .. n, NEW y \in 0 .. n, x * PTR < y * PTR
      PROVE  /\ x * PTR \in Nat /\ y * PTR \in Nat
             /\ y * PTR - x * PTR >= x * PTR /\ y * PTR <= n * PTR
             /\ x * PTR <= (n - 1) * PTR /\ n * PTR \in Nat /\ (n - 1) * PTR \in Nat
  <2>1. x \in {0, 1, 2} /\ y \in {0, 1, 2}
    BY <1>3
  <2>2. x # 2 \/ n # 1
    BY <1>3
  <2>3. y # 2 \/ n # 1
    BY <1>3
  <2>4. CASE n = 1
    BY <1>1, <1>3, <2>1, <2>2, <2>3, <2>4
  <2>5. CASE n = 2
    BY <1>1, <1>3, <2>1, <2>5
  <2> QED BY <2>4, <2>5
<1>4. /\ k * PTR \in Nat /\ c * PTR \in Nat
      /\ c * PTR - k * PTR >= k * PTR /\ c * PTR <= Len(Answer) * PTR
      /\ k * PTR <= (Len(Answer) - 1) * PTR
      /\ Len(Answer) * PTR \in Nat /\ (Len(Answer) - 1) * PTR \in Nat
  BY <1>1, <1>2, <1>3
<1>5. SoFar < MAX /\ k * PTR < TextEnd
  <2>1. ASSUME NEW x \in Nat, NEW y \in Nat, NEW z \in Nat, x <= y, y < z PROVE x < z
    BY <2>1
  <2> QED BY <1>1, <1>2, <1>4, <2>1
<1> QED BY <1>2, <1>4, <1>5

(* ClientRead with bytes of the answer left: all that are there are read   *)
(* and printed.                                                            *)
LEMMA ReadRest ==
  ASSUME IInv, Whole, Whole', ClientRead, requests = <<>>, asked = Len(given),
         asked \in DOMAIN given, Answer \in Answers, Len(Answer) <= 2,
         NEW k \in 0 .. Len(Answer), k * PTR < SoFar, Delivered(k * PTR)
  PROVE  client' = "reading" /\ Delivered(SoFar)'
<1> DEFINE r == k * PTR
           rest == SoFar - r
           n == Smaller(MAX, Len(replies))
           b == [i \in 1 .. MAX |-> IF i <= n THEN replies[i] ELSE buff[i]]
           m == Smaller(SoFar, TextEnd) - r
<1>1. /\ r \in Nat /\ SoFar \in Nat /\ SoFar < MAX /\ r < TextEnd /\ rest >= r
      /\ r < SoFar
  BY Places DEF IInv, Whole
<1>2. TextEnd \in Nat /\ MAX \in Nat
  BY CurrentNumbers DEF Whole
<1>3. /\ ~cut' /\ Len(replies) \in Nat \ {0}
      /\ client' = IF replies[1] = Zero THEN "prompt" ELSE "reading"
      /\ replies' = SubSeq(replies, n + 1, Len(replies))
      /\ UNCHANGED <<requests, server, given, part, asked>>
      /\ replies \in Seq(Bytes)
  BY WholeRead DEF Whole, ClientRead, IInv, TypeInv
<1>4. /\ shown = [i \in 1 .. Smaller(r, TextEnd) |-> Label(i)]
      /\ \A i \in r + 1 .. MAX : buff[i] = Zero
      /\ \A i \in 1 .. rest : replies[i] = SentByte(r + i)
      /\ \A i \in rest + 1 .. Len(replies) : replies[i] = Zero
      /\ server # "waiting" => Len(replies) = rest
      /\ server = "waiting" => Len(replies) = rest + MAX
  BY <1>1 DEF Delivered
<1>5. shown' = shown \o Text(b) /\ buff' = (IF b[1] = Zero THEN Cleared ELSE b)
      /\ b \in [1 .. MAX -> Bytes]
  BY <1>3, WholeReadShows
<1>6. /\ rest \in Nat /\ rest >= 1 /\ rest <= MAX
      /\ n \in Nat /\ n >= rest /\ n <= Len(replies)
      /\ server # "waiting" => n = rest /\ n = Len(replies)
      /\ server = "waiting" => n = MAX
  <2> HIDE DEF r
  <2>1. rest \in Nat /\ rest >= 1 /\ rest <= MAX
    BY <1>1, <1>2
  <2> HIDE DEF rest
  <2> QED BY <1>2, <1>3, <1>4, <2>1 DEF Smaller
<1>7. /\ m \in Nat /\ m >= 1 /\ m <= rest /\ r + m = Smaller(SoFar, TextEnd)
      /\ r + m <= TextEnd /\ (m < rest => r + m = TextEnd)
  <2> HIDE DEF r
  <2> QED BY <1>1, <1>2 DEF Smaller
<1> HIDE DEF r, m
<1>8. \A i \in 1 .. MAX : b[i] = IF i <= rest THEN SentByte(r + i) ELSE Zero
  <2> SUFFICES ASSUME NEW i \in 1 .. MAX
               PROVE  b[i] = IF i <= rest THEN SentByte(r + i) ELSE Zero
    OBVIOUS
  <2> HIDE DEF rest, n
  <2>1. CASE i <= rest
    <3>1. b[i] = replies[i]
      BY <1>6, <2>1
    <3> QED BY <1>4, <1>6, <2>1, <3>1
  <2>2. CASE ~(i <= rest) /\ i <= n
    <3>1. i \in rest + 1 .. Len(replies)
      BY <1>3, <1>6, <2>2
    <3> QED BY <1>4, <2>2, <3>1
  <2>3. CASE ~(i <= rest) /\ ~(i <= n)
    <3>1. i \in r + 1 .. MAX
      <4>1. rest >= r
        BY <1>1 DEF rest
      <4> QED BY <1>1, <1>2, <1>6, <2>3, <4>1
    <3> QED BY <1>4, <2>3, <3>1
  <2> QED BY <2>1, <2>2, <2>3
<1> HIDE DEF rest, n, b
<1>9. \A i \in 1 .. m : b[i] = Label(r + i) /\ b[i] # Zero
  <2> SUFFICES ASSUME NEW i \in 1 .. m PROVE b[i] = Label(r + i) /\ b[i] # Zero
    OBVIOUS
  <2>1. i \in 1 .. MAX /\ i <= rest /\ r + i <= TextEnd
    BY <1>1, <1>2, <1>6, <1>7
  <2>2. b[i] = SentByte(r + i)
    BY <1>8, <2>1
  <2>3. SentByte(r + i) = Label(r + i)
    BY <2>1 DEF SentByte
  <2>4. Label(r + i) # Zero
    BY DEF Label, Zero
  <2> QED BY <2>2, <2>3, <2>4
<1>10. m \in 0 .. MAX /\ (m = MAX \/ b[m + 1] = Zero)
  <2>1. m \in 0 .. MAX
    BY <1>2, <1>6, <1>7
  <2>2. CASE m < MAX
    <3>1. m + 1 \in 1 .. MAX
      BY <1>2, <1>7, <2>2
    <3>2. CASE m + 1 <= rest
      <4>1. r + (m + 1) > TextEnd
        BY <1>1, <1>2, <1>6, <1>7, <3>2
      <4>2. ~(r + (m + 1) <= TextEnd)
        BY <1>1, <1>2, <1>7, <4>1
      <4> QED BY <1>8, <2>1, <3>1, <3>2, <4>2 DEF SentByte
    <3>3. CASE ~(m + 1 <= rest)
      BY <1>8, <2>1, <3>1, <3>3
    <3> QED BY <3>2, <3>3
  <2> QED BY <1>2, <2>1, <2>2
<1>11. Text(b) = [i \in 1 .. m |-> Label(r + i)]
  <2>1. Text(b) = [i \in 1 .. m |-> b[i]]
    BY <1>2, <1>5, <1>9, <1>10, TextIs
  <2> QED BY <1>9, <2>1
<1>12. shown' = [i \in 1 .. Smaller(SoFar, TextEnd) |-> Label(i)]
  <2>1. Smaller(r, TextEnd) = r
    BY <1>1, <1>2 DEF Smaller
  <2>2. shown = [i \in 1 .. r |-> Label(i)]
    BY <1>4, <2>1
  <2>3. shown' = [i \in 1 .. r + m |-> Label(i)]
    BY <1>1, <1>5, <1>7, <1>11, <2>2, LabelsConcat
  <2> QED BY <1>7, <2>3
<1>13. b[1] # Zero /\ replies[1] # Zero
  <2>1. 1 \in 1 .. m /\ 1 \in 1 .. MAX /\ 1 \in 1 .. rest /\ r + 1 <= TextEnd
    BY <1>1, <1>2, <1>6, <1>7
  <2>2. replies[1] = SentByte(r + 1)
    BY <1>4, <2>1
  <2> QED BY <1>9, <2>1, <2>2 DEF SentByte, Label, Zero
<1>14. client' = "reading" /\ buff' = b
  BY <1>3, <1>5, <1>13
<1>15. \A i \in SoFar + 1 .. MAX : buff'[i] = Zero
  <2> SUFFICES ASSUME NEW i \in SoFar + 1 .. MAX PROVE b[i] = Zero
    BY <1>14
  <2>1. rest <= SoFar
    BY <1>1 DEF rest
  <2>2. i \in 1 .. MAX /\ ~(i <= rest)
    BY <1>1, <1>2, <1>6, <2>1
  <2> QED BY <1>8, <2>2
<1>16. /\ \A i \in 1 .. Len(replies') : replies'[i] = Zero
       /\ server # "waiting" => Len(replies') = 0
  <2>1. CASE server # "waiting"
    <3>1. n = Len(replies)
      BY <1>6, <2>1
    <3>2. replies' = <<>>
      BY <1>3, <3>1
    <3> QED BY <3>2
  <2>2. CASE server = "waiting"
    <3>1. n = MAX /\ Len(replies) = rest + MAX
      BY <1>4, <1>6, <2>2
    <3>2. Len(replies') = rest /\ \A i \in 1 .. rest : replies'[i] = replies[MAX + i]
      BY <1>2, <1>3, <1>6, <3>1
    <3>3. ASSUME NEW i \in 1 .. rest PROVE replies[MAX + i] = Zero
      <4>1. MAX + i \in rest + 1 .. Len(replies)
        BY <1>2, <1>6, <3>1
      <4> QED BY <1>4, <4>1
    <3> QED BY <2>2, <3>2, <3>3
  <2> QED BY <2>1, <2>2
<1>17. /\ SoFar' = SoFar /\ TextEnd' = TextEnd
       /\ \A j : Label(j)' = Label(j) /\ SentByte(j)' = SentByte(j)
  BY <1>3 DEF SoFar, TextEnd, Answer, Label, SentByte
<1>18. SoFar - SoFar = 0 /\ ~(SoFar < SoFar) /\ SoFar <= SoFar
  BY <1>1
<1>19. Delivered(SoFar)'
  <2>1. SoFar' <= SoFar' /\ SoFar' - SoFar' = 0 /\ ~(SoFar' < SoFar')
    BY <1>17, <1>18
  <2>2. shown' = [i \in 1 .. Smaller(SoFar', TextEnd') |-> Label(i)']
    <3>1. [i \in 1 .. Smaller(SoFar, TextEnd) |-> Label(i)']
            = [i \in 1 .. Smaller(SoFar, TextEnd) |-> Label(i)]
      BY <1>17
    <3> QED BY <1>12, <1>17, <3>1
  <2>3. \A i \in SoFar' + 1 .. MAX : buff'[i] = Zero
    BY <1>15, <1>17
  <2>4. \A i \in 1 .. SoFar' - SoFar' : replies'[i] = SentByte(SoFar + i)'
    <3>1. 1 .. SoFar' - SoFar' = {}
      BY <2>1
    <3> QED BY <3>1
  <2>5. \A i \in SoFar' - SoFar' + 1 .. Len(replies') : replies'[i] = Zero
    <3>1. SoFar' - SoFar' + 1 = 1
      BY <2>1
    <3> QED BY <1>16, <3>1
  <2>6. server' # "waiting" => Len(replies') = SoFar' - SoFar'
    <3>1. server' = server
      BY <1>3
    <3> QED BY <1>16, <2>1, <3>1
  <2> QED BY <2>1, <2>2, <2>3, <2>4, <2>5, <2>6 DEF Delivered
<1> QED BY <1>14, <1>19

LEMMA ReadAnswer ==
  ASSUME IInv, AnswerInv, ClientRead
  PROVE  AnswerInv'
<1>1. /\ client = "reading" /\ replies # <<>> /\ client' \in {"prompt", "reading"}
      /\ UNCHANGED <<asked, requests, server, given, part>>
  BY DEF ClientRead
<1>2. Asked'
  BY <1>1 DEF AnswerInv, Asked
<1>3. CASE ~Whole'
  BY <1>2, <1>3 DEF AnswerInv, WholeAnswer, Whole
<1>4. CASE Whole'
  <2>1. Whole
    BY <1>4, WholeBefore DEF IInv
  <2>2. requests = <<>>
    BY <1>1, <2>1 DEF IInv, SyncInv, InSync, Conversing, Whole
  <2>3. asked = Len(given) /\ asked \in DOMAIN given /\ Answer \in Answers
    BY <1>1, <2>2, Current DEF IInv, AnswerInv, Asked
  <2>4. CASE Len(Answer) <= 2
    <3>1. PICK k \in 0 .. Len(Answer) : Delivered(k * PTR)
      BY <1>1, <2>1, <2>2, <2>4 DEF AnswerInv, Reading
    <3>2. CASE k * PTR = SoFar
      <4>1. client' = "prompt" /\ WholeAnswer'
        BY <1>4, <2>1, <2>2, <2>3, <2>4, <3>1, <3>2, ReadZeros
      <4> QED BY <1>2, <4>1 DEF AnswerInv, Reading
    <3>3. CASE k * PTR < SoFar
      <4>1. client' = "reading" /\ Delivered(SoFar)'
        BY <1>4, <2>1, <2>2, <2>3, <2>4, <3>1, <3>3, ReadRest
      <4>2. PICK c \in 0 .. Len(Answer) : SoFar = c * PTR
        BY <2>1, <2>3, <2>4, <3>3, Places DEF IInv, Whole
      <4>3. SoFar' = c * PTR
        BY <1>1, <4>2 DEF SoFar, Answer
      <4>4. Delivered(c * PTR)'
        BY <4>1, <4>3 DEF Delivered
      <4>5. Reading'
        BY <1>1, <2>2, <4>4 DEF Reading, Answer
      <4> QED BY <1>2, <4>1, <4>5 DEF AnswerInv, WholeAnswer
    <3>4. k * PTR = SoFar \/ k * PTR < SoFar
      <4>1. k * PTR <= SoFar
        BY <3>1 DEF Delivered
      <4>2. PTR \in Nat /\ part \in Nat /\ Len(Answer) \in Nat /\ k \in Nat
        BY <2>3, BytesAssumption, AnswersAssumption DEF IInv, TypeInv
      <4>3. k * PTR \in Int /\ SoFar \in Int
        BY <4>2 DEF SoFar
      <4> QED BY <4>1, <4>3
    <3> QED BY <3>2, <3>3, <3>4
  <2>5. CASE ~(Len(Answer) <= 2)
    <3>1. Answer' = Answer
      BY <1>1 DEF Answer
    <3>2. WholeAnswer'
      BY <1>1, <2>5 DEF WholeAnswer, Answer
    <3>3. Reading'
      BY <1>1, <2>2, <2>5, <3>1 DEF Reading
    <3> QED BY <1>2, <3>2, <3>3 DEF AnswerInv
  <2> QED BY <2>4, <2>5
<1> QED BY <1>3, <1>4

LEMMA NextAnswer == IInv /\ AnswerInv /\ [Next]_vars => AnswerInv'
<1> SUFFICES ASSUME IInv, AnswerInv, [Next]_vars PROVE AnswerInv'
  OBVIOUS
<1>1. CASE UNCHANGED vars
  <2>1. /\ Answer' = Answer /\ TextEnd' = TextEnd /\ SoFar' = SoFar /\ Whole' = Whole
        /\ \A j : Label(j)' = Label(j) /\ SentByte(j)' = SentByte(j)
    BY <1>1 DEF vars, Answer, TextEnd, SoFar, Whole, NoEmptyPart, Label, SentByte
  <2>2. ASSUME NEW r, Delivered(r) PROVE Delivered(r)'
    BY <1>1, <2>1, <2>2 DEF vars, Delivered
  <2>3. Reading => Reading'
    BY <1>1, <2>1, <2>2 DEF vars, Reading
  <2> QED BY <1>1, <2>1, <2>3 DEF vars, AnswerInv, WholeAnswer, Asked, NoEmptyPart
<1> QED BY <1>1, AskAnswer, ReadAnswer, ServerReadAnswer, ServerWriteAnswer, ServerEndAnswer
        DEF Next, Server

(* Whatever the sizes of buffer and chunk, the user reads the answer that  *)
(* was sent, each byte once and in order, as long as reads are whole, no   *)
(* answer has an empty part and this one has at most two                   *)
(* (client_transport.c:635-638).                                           *)
THEOREM WireWholeAnswer == Spec => []WholeAnswer
<1>1. Init => AnswerInv
  BY DEF Init, AnswerInv, WholeAnswer, Asked, Reading
<1>2. AnswerInv => WholeAnswer
  BY DEF AnswerInv
<1> QED BY <1>1, <1>2, NextAnswer, WireInductive, PTL DEF Spec
=============================================================================
