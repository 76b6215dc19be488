-------------------------------- MODULE Wire --------------------------------
(***************************************************************************)
(* The conversation over the socket: client_communicate of                 *)
(* transport/client_transport.c and server_communicate with the writes of  *)
(* execute_query of transport/server_transport.c.                          *)
(*                                                                         *)
(* Nothing on the wire says how long an answer is.  Of each part of it the *)
(* server writes the first bytes, as many as a pointer has, and then MAX   *)
(* zero bytes; the client prints what it reads until a read starts with a  *)
(* zero byte.                                                              *)
(*                                                                         *)
(* A byte is Zero or <<query, chunk, place>>.  A request is one message:   *)
(* it is written and read as MAX bytes.                                    *)
(***************************************************************************)
EXTENDS Integers, Sequences

CONSTANTS
  MAX,         \* bytes of a buffer
  PTR,         \* bytes of a chunk: the size of a pointer
  Answers,     \* sequences of parts, a part given by the length of its text
  MaxQueries   \* bound: queries the user asks

ASSUME BytesAssumption ==
  /\ PTR \in Nat \ {0} /\ MAX \in Nat
  /\ MAX % PTR = 0
  /\ MaxQueries \in Nat

(* select fills its buffer before it returns for more rows, so all parts   *)
(* but the last are longer than a chunk; and an answer leaves a zero in    *)
(* the buffer it is read into, so that printf does not run past it.        *)
ASSUME AnswersAssumption ==
  \A a \in Answers :
    /\ a \in Seq(Nat) \ {<<>>} /\ Len(a) * PTR < MAX
    /\ \A c \in 1 .. Len(a) : a[c] \in (IF c < Len(a) THEN PTR ELSE 0) .. MAX

VARIABLES
  client,    \* "prompt" in yyparse, "reading" in the do loop
  asked,     \* the queries asked so far
  buff,      \* the client's buffer
  shown,     \* what was printed since the last query
  requests,  \* written by the client, not read yet
  replies,   \* written by the server, not read yet
  server,    \* "waiting" in read, "writing" in execute_query, "ending" behind it
  given,     \* the answers of the queries served
  part,      \* the part of the last of them to write next
  cut        \* auxiliary: a read has returned less than there was

vars == <<client, asked, buff, shown, requests, replies, server, given, part, cut>>
-----------------------------------------------------------------------------
Zero == <<>>

Cleared == [i \in 1 .. MAX |-> Zero]

(* Mutant: the memset behind the write is missing.                         *)
AfterSendRequest == [i \in 1 .. MAX |-> <<0, 0, i>>]

AfterSend == Cleared

Init ==
  /\ client = "prompt" /\ asked = 0
  /\ buff = Cleared /\ shown = <<>>
  /\ requests = <<>> /\ replies = <<>>
  /\ server = "waiting" /\ given = <<>> /\ part = 1
  /\ cut = FALSE

ClientAsk ==
  /\ client = "prompt" /\ asked < MaxQueries
  /\ asked' = asked + 1
  /\ requests' = Append(requests, asked')
  /\ buff' = AfterSend /\ shown' = <<>>
  /\ client' = "reading"
  /\ UNCHANGED <<replies, server, given, part, cut>>

Smaller(a, b) == IF a < b THEN a ELSE b

(* Mutant: the client reads as many bytes as a pointer has.                *)
ReadSizesPtr == 1 .. Smaller(PTR, Len(replies))

ReadSizes == 1 .. Smaller(MAX, Len(replies))

(* What printf("%s") shows of a buffer.                                    *)
Text(b) ==
  LET n == CHOOSE n \in 0 .. MAX :
             /\ \A i \in 1 .. n : b[i] # Zero
             /\ n = MAX \/ b[n + 1] = Zero
  IN  SubSeq(b, 1, n)

(* A read fills the front of the buffer and leaves the rest of it.         *)
ClientRead ==
  /\ client = "reading" /\ replies # <<>>
  /\ \E n \in ReadSizes :
       LET b == [i \in 1 .. MAX |-> IF i <= n THEN replies[i] ELSE buff[i]]
           done == b[1] = Zero
       IN  /\ replies' = SubSeq(replies, n + 1, Len(replies))
           /\ shown' = shown \o Text(b)
           /\ buff' = IF done THEN Cleared ELSE b
           /\ client' = IF done THEN "prompt" ELSE "reading"
           /\ cut' = (cut \/ \E most \in ReadSizes : most > n)
  /\ UNCHANGED <<asked, requests, server, given, part>>

-----------------------------------------------------------------------------
ServerRead ==
  /\ server = "waiting" /\ requests # <<>>
  /\ requests' = Tail(requests)
  /\ \E a \in Answers : given' = Append(given, a)
  /\ part' = 1
  /\ server' = "writing"
  /\ UNCHANGED <<client, asked, buff, shown, replies, cut>>

(* sizeof(buff) where buff is a pointer: a chunk is the first PTR bytes.   *)
Chunk(q, c) ==
  [i \in 1 .. PTR |-> IF i <= given[q][c] THEN <<q, c, i>> ELSE Zero]

ServerWrite ==
  LET q == Len(given) IN
  /\ server = "writing"
  /\ replies' = replies \o Chunk(q, part)
  /\ part' = part + 1
  /\ server' = IF part = Len(given[q]) THEN "ending" ELSE "writing"
  /\ UNCHANGED <<client, asked, buff, shown, requests, given, cut>>

TerminatorPtr == [i \in 1 .. PTR |-> Zero]   \* mutant: a chunk of zeros

Terminator == [i \in 1 .. MAX |-> Zero]

ServerEnd ==
  /\ server = "ending"
  /\ replies' = replies \o Terminator
  /\ server' = "waiting"
  /\ UNCHANGED <<client, asked, buff, shown, requests, given, part, cut>>

Server == ServerRead \/ ServerWrite \/ ServerEnd

Next == ClientAsk \/ ClientRead \/ Server

(* Two processes the system schedules, and a stream it delivers.  Nobody   *)
(* has to ask.                                                             *)
Spec == Init /\ [][Next]_vars /\ WF_vars(ClientRead) /\ WF_vars(Server)

-----------------------------------------------------------------------------
Bytes ==
  {Zero} \cup ((1 .. asked) \X (1 .. MAX) \X (1 .. PTR))

(* All the bytes are those of answers to queries that were asked.          *)
TypeOK ==
  /\ client \in {"prompt", "reading"}
  /\ server \in {"waiting", "writing", "ending"}
  /\ asked \in 0 .. MaxQueries /\ cut \in BOOLEAN
  /\ \A i \in 1 .. MAX : buff[i] \in Bytes
  /\ \A i \in DOMAIN shown : shown[i] \in Bytes \ {Zero}
  /\ \A i \in DOMAIN replies : replies[i] \in Bytes
  /\ Len(given) + Len(requests) = asked

(* The client that sent a query comes back to its prompt                   *)
(* (client_transport.c:634-640), however its reads cut the stream.         *)
Returns == client = "reading" ~> client = "prompt"

InStep ==
  client = "prompt" => replies = <<>> /\ requests = <<>> /\ server = "waiting"

NoEmptyPart == \A q \in DOMAIN given : \A c \in DOMAIN given[q] : given[q][c] > 0

(* As long as each read returns all there is and no answer has an empty    *)
(* part, a client at its prompt has read all of every answer               *)
(* (client_transport.c:623): the next one it reads is to its next query.   *)
StaysInStep == ~cut /\ NoEmptyPart => InStep

(* The same of any answers, as the report in the repository (page 2) and   *)
(* queries.txt:51-72 have it: a query is sent and its answer is printed.   *)
WholeReadsStayInStep == ~cut => InStep

(* Under the same conditions what the user reads behind a query is what    *)
(* the server sent for it, each byte once and in order, as long as the     *)
(* answer has at most two parts (client_transport.c:635-638).              *)
WholeAnswer ==
  client = "prompt" /\ asked > 0 /\ ~cut /\ NoEmptyPart =>
    LET a == given[asked]
        last == Smaller(PTR, a[Len(a)])
    IN  Len(a) <= 2 =>
          shown = [i \in 1 .. (Len(a) - 1) * PTR + last |->
                     <<asked, (i - 1) \div PTR + 1, ((i - 1) % PTR) + 1>>]
=============================================================================
