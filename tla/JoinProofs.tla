------------------------------ MODULE JoinProofs ------------------------------
(***************************************************************************)
(* The inner join of db/query.c, for tables of any number of rows in any   *)
(* blocks and buffers of any size: its answers are matching pairs in       *)
(* order, and all of them when they fit in one buffer.                     *)
(***************************************************************************)
EXTENDS Join, FiniteSetTheorems, TLAPS

AtOrBefore(c, d) == c = d \/ Before(c, d)

-----------------------------------------------------------------------------
(* Cursors.                                                                *)

LEMMA PlaceType ==
  ASSUME NEW t \in Tables, NEW c \in Places(t)
  PROVE  /\ c.blk \in 1 .. Len(t) /\ c.off \in 0 .. BlockSize - 1
         /\ c = Cursor(c.blk, c.off)
         /\ Len(t) \in Nat /\ BlockSize \in Nat
         /\ Len(t[c.blk]) \in Nat /\ Len(t[c.blk]) < BlockSize
BY JoinAssumption DEF Places, Cursor

LEMMA PlaceOrder ==
  ASSUME NEW t \in Tables, NEW c \in Places(t), NEW d \in Places(t)
  PROVE  /\ Before(c, d) \/ c = d \/ Before(d, c)
         /\ ~(Before(c, d) /\ Before(d, c)) /\ ~Before(c, c)
         /\ \A e \in Places(t) : Before(c, d) /\ AtOrBefore(d, e) => Before(c, e)
         /\ \A e \in Places(t) : AtOrBefore(c, d) /\ Before(d, e) => Before(c, e)
BY PlaceType DEF Before, Cursor, AtOrBefore

LEMMA RowsArePlaces ==
  ASSUME NEW t \in Tables, NEW c \in RowsOf(t)
  PROVE  c \in Places(t) /\ c.off \in 1 .. Len(t[c.blk])
BY DEF RowsOf

(* A step goes to the very next row.                                       *)
LEMMA StepNext ==
  ASSUME NEW t \in Tables, NEW c \in Places(t), More(t, c)
  PROVE  /\ Step(t, c) \in RowsOf(t)
         /\ Before(c, Step(t, c))
         /\ \A d \in RowsOf(t) : Before(d, Step(t, c)) => AtOrBefore(d, c)
<1>1. CASE c.off >= Len(t[c.blk])
  <2>1. c.blk + 1 \in 1 .. Len(t) /\ Len(t) > 1
    BY <1>1, PlaceType DEF More
  <2>2. Len(t[c.blk + 1]) \in Nat /\ Len(t[c.blk + 1]) > 0 /\ Len(t[c.blk + 1]) < BlockSize
    BY <2>1, PlaceType, JoinAssumption
  <2>3. Step(t, c) = Cursor(c.blk + 1, 1)
    BY <1>1 DEF Step
  <2>4. Step(t, c) \in RowsOf(t)
    BY <2>1, <2>2, <2>3, PlaceType DEF RowsOf, Places, Cursor
  <2>5. Before(c, Step(t, c))
    BY <2>3, PlaceType DEF Before, Cursor
  <2>6. ASSUME NEW d \in RowsOf(t), Before(d, Step(t, c)) PROVE AtOrBefore(d, c)
    <3>1. d \in Places(t) /\ d.off \in 1 .. Len(t[d.blk])
      BY RowsArePlaces
    <3>2. d.blk <= c.blk
      BY <2>3, <2>6, <3>1, PlaceType DEF Before, Cursor
    <3> QED BY <1>1, <3>1, <3>2, PlaceType DEF AtOrBefore, Before, Cursor
  <2> QED BY <2>4, <2>5, <2>6
<1>2. CASE ~(c.off >= Len(t[c.blk]))
  <2>1. Step(t, c) = Cursor(c.blk, c.off + 1)
    BY <1>2 DEF Step
  <2>2. Step(t, c) \in RowsOf(t)
    BY <1>2, <2>1, PlaceType DEF RowsOf, Places, Cursor
  <2>3. Before(c, Step(t, c))
    BY <2>1, PlaceType DEF Before, Cursor
  <2>4. ASSUME NEW d \in RowsOf(t), Before(d, Step(t, c)) PROVE AtOrBefore(d, c)
    <3>1. d \in Places(t)
      BY RowsArePlaces
    <3> QED BY <2>1, <2>4, <3>1, PlaceType DEF AtOrBefore, Before, Cursor
  <2> QED BY <2>2, <2>3, <2>4
<1> QED BY <1>1, <1>2

(* Where there is no step, no row is ahead.                                *)
LEMMA EndLast ==
  ASSUME NEW t \in Tables, NEW c \in Places(t), ~More(t, c), NEW d \in RowsOf(t)
  PROVE  AtOrBefore(d, c)
BY RowsArePlaces, PlaceType DEF More, AtOrBefore, Before, Cursor

LEMMA DivisionCoded ==
  ASSUME NEW n \in Nat, NEW o \in 0 .. n - 1, NEW b \in Nat \ {0}
  PROVE  /\ (o + b * n) \div n = b /\ (o + b * n) % n = o
         /\ o + b * n # 0
<1> DEFINE x == o + b * n
           k == x \div n
           m == x % n
<1>1. n > 0 /\ b * n \in Nat /\ x \in Nat
  OBVIOUS
<1>2. k \in Int /\ m \in 0 .. n - 1 /\ x = n * k + m
  BY <1>1, Z3
<1>3. (b - k) * n = m - o
  BY <1>1, <1>2
<1>4. b - k = 0
  <2>1. CASE b - k >= 1
    <3>1. (b - k) * n >= n
      BY <1>1, <1>2, <2>1
    <3> QED BY <1>2, <1>3, <3>1
  <2>2. CASE b - k <= -1
    <3>1. (b - k) * n <= -n
      BY <1>1, <1>2, <2>2
    <3> QED BY <1>2, <1>3, <3>1
  <2> QED BY <1>2, <2>1, <2>2
<1>5. k = b /\ m = o
  BY <1>2, <1>3, <1>4
<1>6. b * n >= n
  BY <1>1
<1> QED BY <1>1, <1>5, <1>6

(* The place a call goes on from is the one the last call left.            *)
LEMMA StartCoded ==
  ASSUME NEW t \in Tables, NEW c \in RowsOf(t)
  PROVE  Start(Coded(c)) = c /\ Coded(c) # 0
<1>1. c \in Places(t)
  BY RowsArePlaces
<1>2. /\ Coded(c) \div BlockSize = c.blk /\ Coded(c) % BlockSize = c.off
      /\ Coded(c) # 0
  <2>1. BlockSize \in Nat /\ c.off \in 0 .. BlockSize - 1 /\ c.blk \in Nat \ {0}
    BY <1>1, PlaceType
  <2> HIDE DEF Coded
  <2> QED BY <2>1, DivisionCoded, Zenon DEF Coded
<1> QED BY <1>1, <1>2, PlaceType DEF Start

LEMMA StartFirst ==
  ASSUME NEW t \in Tables
  PROVE  Cursor(1, 0) \in Places(t) /\ \A d \in RowsOf(t) : ~AtOrBefore(d, Cursor(1, 0))
<1>1. Cursor(1, 0) \in Places(t)
  <2>1. /\ Len(t) \in Nat \ {0} /\ BlockSize \in Nat
        /\ \A b \in 1 .. Len(t) : Len(t[b]) \in Nat /\ Len(t[b]) < BlockSize
    BY JoinAssumption
  <2>2. 1 \in 1 .. Len(t)
    BY <2>1
  <2>3. Len(t[1]) \in Nat /\ Len(t[1]) < BlockSize
    BY <2>1, <2>2
  <2>4. 0 \in 0 .. BlockSize - 1
    BY <2>1, <2>3
  <2> QED BY <2>2, <2>4 DEF Places
<1>2. ASSUME NEW d \in RowsOf(t) PROVE ~AtOrBefore(d, Cursor(1, 0))
  BY RowsArePlaces, PlaceType DEF AtOrBefore, Before, Cursor
<1> QED BY <1>1, <1>2

-----------------------------------------------------------------------------
(* The invariant.                                                          *)

AskedOK == left \in Tables /\ right \in Tables /\ cond \in Conds /\ room \in Rooms

(* An offset of the last call is that of a row.                            *)
Stopped == right_block_off = 0 \/ \E c \in RowsOf(right) : right_block_off = Coded(c)

(* Between two calls the left one is that of the row joined last.          *)
LeftStopped ==
  pc \in {"call", "return"} =>
    \/ left_block_off = 0 /\ (pc = "call" => answer = <<>>)
    \/ l \in RowsOf(left) /\ left_block_off = Coded(l)

Pairs == answer \in Seq(RowsOf(left) \X RowsOf(right))

AllMatch == \A i \in 1 .. Len(answer) : Joined(answer[i][1], answer[i][2])

Ordered ==
  \A i, j \in 1 .. Len(answer) : i < j =>
    \/ Before(answer[i][1], answer[j][1])
    \/ answer[i][1] = answer[j][1] /\ Before(answer[i][2], answer[j][2])

(* No pair is ahead of the cursors.                                        *)
LeftPast == \A i \in 1 .. Len(answer) : AtOrBefore(answer[i][1], l)

RightPast ==
  pc = "right" =>
    /\ row = l /\ l \in RowsOf(left)
    /\ \A i \in 1 .. Len(answer) : answer[i][1] = l => AtOrBefore(answer[i][2], r)

Buffered == pc \in {"left", "right"} => used < room

SoundInv ==
  /\ AskedOK /\ TypeOK /\ Buffered /\ Stopped /\ LeftStopped
  /\ Pairs /\ AllMatch /\ Ordered /\ LeftPast /\ RightPast

LEMMA InitSound == Init => SoundInv
<1> SUFFICES ASSUME Init PROVE SoundInv
  OBVIOUS
<1>1. Cursor(1, 0) \in Places(left) /\ Cursor(1, 0) \in Places(right)
  BY StartFirst DEF Init
<1>2. room \in Nat \ {0}
  BY JoinAssumption DEF Init
<1>3. TypeOK
  BY <1>1, <1>2 DEF Init, TypeOK
<1> QED
  BY <1>3 DEF Init, SoundInv, AskedOK, Buffered, Stopped, LeftStopped, Pairs, AllMatch,
              Ordered, LeftPast, RightPast

LEMMA StoppedPlace ==
  ASSUME SoundInv
  PROVE  Start(right_block_off) \in Places(right)
<1>1. CASE right_block_off = 0
  BY <1>1, StartFirst DEF Start, SoundInv, AskedOK
<1>2. CASE \E c \in RowsOf(right) : right_block_off = Coded(c)
  BY <1>2, StartCoded, RowsArePlaces DEF SoundInv, AskedOK
<1> QED BY <1>1, <1>2 DEF SoundInv, Stopped

LEMMA CallSound == SoundInv /\ Call => SoundInv'
<1> SUFFICES ASSUME SoundInv, Call PROVE SoundInv'
  OBVIOUS
<1> USE DEF Call, asked
<1>1. AskedOK' /\ Stopped' /\ Pairs' /\ AllMatch' /\ Ordered'
  BY DEF SoundInv, AskedOK, Stopped, Pairs, AllMatch, Ordered, Joined, KeyAt
<1>2. /\ l' \in Places(left)
      /\ \A i \in 1 .. Len(answer) : AtOrBefore(answer[i][1], l')
  <2>1. CASE left_block_off = 0 /\ answer = <<>>
    BY <2>1, StartFirst DEF Start, SoundInv, AskedOK
  <2>2. CASE l \in RowsOf(left) /\ left_block_off = Coded(l)
    <3>1. l' = l
      BY <2>2, StartCoded DEF SoundInv, AskedOK
    <3> QED BY <3>1 DEF SoundInv, LeftPast, TypeOK
  <2> QED BY <2>1, <2>2 DEF SoundInv, LeftStopped
<1>3. room \in Nat \ {0}
  BY JoinAssumption DEF SoundInv, AskedOK
<1>4. TypeOK' /\ Buffered'
  BY <1>2, <1>3 DEF SoundInv, TypeOK, Buffered
<1>5. LeftStopped' /\ LeftPast' /\ RightPast'
  BY <1>2 DEF LeftStopped, LeftPast, RightPast
<1> QED BY <1>1, <1>4, <1>5 DEF SoundInv

LEMMA LeftRowSound == SoundInv /\ LeftRow => SoundInv'
<1> SUFFICES ASSUME SoundInv, LeftRow PROVE SoundInv'
  OBVIOUS
<1> USE DEF LeftRow, asked
<1>1. AskedOK' /\ Stopped' /\ Pairs' /\ AllMatch' /\ Ordered' /\ Buffered'
  BY DEF SoundInv, AskedOK, Stopped, Pairs, AllMatch, Ordered, Joined, KeyAt, Buffered
<1>2. left \in Tables /\ l \in Places(left) /\ More(left, l)
  BY DEF SoundInv, AskedOK, TypeOK
<1>3. l' \in Places(left) /\ l' \in RowsOf(left) /\ Before(l, l') /\ row' = l'
  BY <1>2, StepNext, RowsArePlaces
<1>4. TypeOK'
  BY <1>3, StoppedPlace DEF SoundInv, TypeOK
<1>5. ASSUME NEW i \in 1 .. Len(answer) PROVE Before(answer[i][1], l')
  <2>1. answer[i][1] \in Places(left) /\ AtOrBefore(answer[i][1], l)
    BY <1>2, RowsArePlaces DEF SoundInv, Pairs, LeftPast
  <2> QED BY <1>2, <1>3, <2>1, PlaceOrder
<1>6. LeftPast' /\ LeftStopped'
  BY <1>5 DEF LeftPast, AtOrBefore, LeftStopped
<1>7. RightPast'
  <2>1. \A i \in 1 .. Len(answer) : answer[i][1] # l'
    BY <1>2, <1>3, <1>5, PlaceOrder
  <2> QED BY <1>3, <2>1 DEF RightPast
<1> QED BY <1>1, <1>4, <1>6, <1>7 DEF SoundInv

LEMMA LeftEndSound == SoundInv /\ LeftEnd => SoundInv'
<1> SUFFICES ASSUME SoundInv, LeftEnd PROVE SoundInv'
  OBVIOUS
<1> USE DEF LeftEnd, asked
<1>1. AskedOK' /\ Stopped' /\ Pairs' /\ AllMatch' /\ Ordered' /\ Buffered'
  BY DEF SoundInv, AskedOK, Stopped, Pairs, AllMatch, Ordered, Joined, KeyAt, Buffered
<1>2. TypeOK' /\ LeftStopped' /\ LeftPast' /\ RightPast'
  BY DEF SoundInv, TypeOK, LeftStopped, LeftAtEnd, LeftPast, RightPast
<1> QED BY <1>1, <1>2 DEF SoundInv

LEMMA RightEndSound == SoundInv /\ RightEnd => SoundInv'
<1> SUFFICES ASSUME SoundInv, RightEnd PROVE SoundInv'
  OBVIOUS
<1> USE DEF RightEnd, asked
<1>1. AskedOK' /\ Stopped' /\ Pairs' /\ AllMatch' /\ Ordered' /\ Buffered'
  BY DEF SoundInv, AskedOK, Stopped, Pairs, AllMatch, Ordered, Joined, KeyAt, Buffered
<1>2. TypeOK' /\ LeftStopped' /\ LeftPast' /\ RightPast'
  BY DEF SoundInv, TypeOK, LeftStopped, LeftPast, RightPast
<1> QED BY <1>1, <1>2 DEF SoundInv

LEMMA ReturnSound == SoundInv /\ Return => SoundInv'
<1> SUFFICES ASSUME SoundInv, Return PROVE SoundInv'
  OBVIOUS
<1> USE DEF Return, asked
<1>1. AskedOK' /\ Stopped' /\ Pairs' /\ AllMatch' /\ Ordered' /\ Buffered'
  BY DEF SoundInv, AskedOK, Stopped, Pairs, AllMatch, Ordered, Joined, KeyAt, Buffered
<1>2. TypeOK' /\ LeftStopped' /\ LeftPast' /\ RightPast'
  BY DEF SoundInv, TypeOK, LeftStopped, LeftPast, RightPast
<1> QED BY <1>1, <1>2 DEF SoundInv

(* What a turn of the inner loop adds is ahead of all there is.            *)
LEMMA RightRowAhead ==
  ASSUME SoundInv, RightRow
  PROVE  LET at == Step(right, r)
         IN  /\ row = l /\ row \in RowsOf(left)
             /\ at \in RowsOf(right) /\ at \in Places(right) /\ Before(r, at)
             /\ \A i \in 1 .. Len(answer) :
                  \/ Before(answer[i][1], row)
                  \/ answer[i][1] = row /\ Before(answer[i][2], at)
<1> DEFINE at == Step(right, r)
<1>1. right \in Tables /\ left \in Tables /\ r \in Places(right) /\ More(right, r)
      /\ l \in Places(left) /\ row = l /\ row \in RowsOf(left)
  BY DEF SoundInv, AskedOK, TypeOK, RightPast, RightRow
<1>2. at \in RowsOf(right) /\ at \in Places(right) /\ Before(r, at)
  BY <1>1, StepNext, RowsArePlaces
<1>3. ASSUME NEW i \in 1 .. Len(answer)
      PROVE  \/ Before(answer[i][1], row)
             \/ answer[i][1] = row /\ Before(answer[i][2], at)
  <2>1. answer[i][1] \in Places(left) /\ answer[i][2] \in Places(right)
    BY <1>1, RowsArePlaces DEF SoundInv, Pairs
  <2>2. AtOrBefore(answer[i][1], l)
    BY DEF SoundInv, LeftPast
  <2>3. CASE Before(answer[i][1], l)
    BY <1>1, <2>3
  <2>4. CASE answer[i][1] = l
    <3>1. AtOrBefore(answer[i][2], r)
      BY <2>4 DEF SoundInv, RightPast, RightRow
    <3>2. Before(answer[i][2], at)
      BY <1>1, <1>2, <2>1, <3>1, PlaceOrder
    <3> QED BY <1>1, <2>4, <3>2
  <2> QED BY <2>2, <2>3, <2>4 DEF AtOrBefore
<1> QED BY <1>1, <1>2, <1>3

LEMMA RightRowSound == SoundInv /\ RightRow => SoundInv'
<1> SUFFICES ASSUME SoundInv, RightRow PROVE SoundInv'
  OBVIOUS
<1> DEFINE at == Step(right, r)
           hit == Joined(row, at)
           full == hit /\ used + 1 >= room
<1>0. /\ row = l /\ row \in RowsOf(left)
      /\ at \in RowsOf(right) /\ at \in Places(right) /\ Before(r, at)
      /\ \A i \in 1 .. Len(answer) :
           \/ Before(answer[i][1], row)
           \/ answer[i][1] = row /\ Before(answer[i][2], at)
  BY RightRowAhead
<1>1. /\ pc = "right" /\ r' = at
      /\ answer' = IF hit THEN Append(answer, <<row, at>>) ELSE answer
      /\ used' = IF hit THEN used + 1 ELSE used
      /\ left_block_off' = IF full THEN Coded(l) ELSE left_block_off
      /\ right_block_off' = IF full THEN Coded(at) ELSE right_block_off
      /\ pc' = IF full THEN "return" ELSE "right"
      /\ left' = left /\ right' = right /\ cond' = cond /\ room' = room
      /\ l' = l /\ row' = row
  BY DEF RightRow, asked
<1>2. room \in Nat \ {0} /\ used \in 0 .. room /\ used < room
  BY <1>1, JoinAssumption DEF SoundInv, AskedOK, TypeOK, Buffered
<1> HIDE DEF at, hit, full
<1>3. AskedOK' /\ TypeOK' /\ Buffered'
  BY <1>0, <1>1, <1>2 DEF SoundInv, AskedOK, TypeOK, Buffered, full
<1>4. Stopped' /\ LeftStopped'
  BY <1>0, <1>1 DEF SoundInv, Stopped, LeftStopped
<1>5. /\ Len(answer) \in Nat /\ hit \in BOOLEAN
      /\ <<row, at>> \in RowsOf(left) \X RowsOf(right)
      /\ answer \in Seq(RowsOf(left) \X RowsOf(right))
  BY <1>0 DEF SoundInv, Pairs, hit, Joined
<1>6. CASE hit
  <2>1. answer' = Append(answer, <<row, at>>)
    BY <1>1, <1>6
  <2>2. /\ Len(answer') = Len(answer) + 1
        /\ \A i \in 1 .. Len(answer) : answer'[i] = answer[i]
        /\ answer'[Len(answer) + 1] = <<row, at>>
    BY <1>5, <2>1
  <2>3. Pairs'
    BY <1>1, <1>5, <2>1 DEF Pairs
  <2>4. AllMatch'
    BY <1>1, <1>5, <1>6, <2>2 DEF SoundInv, AllMatch, Joined, KeyAt, hit
  <2>5. Ordered'
    <3> SUFFICES ASSUME NEW i \in 1 .. Len(answer'), NEW j \in 1 .. Len(answer'), i < j
                 PROVE  \/ Before(answer'[i][1], answer'[j][1])
                        \/ /\ answer'[i][1] = answer'[j][1]
                           /\ Before(answer'[i][2], answer'[j][2])
      BY DEF Ordered
    <3>1. i \in 1 .. Len(answer) /\ answer'[i] = answer[i]
      BY <1>5, <2>2
    <3>2. CASE j \in 1 .. Len(answer)
      <4>1. answer'[j] = answer[j]
        BY <2>2, <3>2
      <4>2. Ordered
        BY DEF SoundInv
      <4>3. \/ Before(answer[i][1], answer[j][1])
            \/ /\ answer[i][1] = answer[j][1]
               /\ Before(answer[i][2], answer[j][2])
        BY <3>1, <3>2, <4>2 DEF Ordered
      <4> QED BY <3>1, <4>1, <4>3
    <3>3. CASE j = Len(answer) + 1
      <4>1. answer'[j][1] = row /\ answer'[j][2] = at
        BY <2>2, <3>3
      <4> QED BY <1>0, <3>1, <4>1
    <3>4. j \in 1 .. Len(answer) \/ j = Len(answer) + 1
      <4>1. Len(answer') = Len(answer) + 1 /\ Len(answer) \in Nat
        BY <1>5, <2>2
      <4> QED BY <4>1
    <3> QED BY <3>2, <3>3, <3>4
  <2>6. ASSUME NEW i \in 1 .. Len(answer')
        PROVE  /\ AtOrBefore(answer'[i][1], l)
               /\ answer'[i][1] = l => AtOrBefore(answer'[i][2], at)
    <3>1. CASE i \in 1 .. Len(answer)
      <4>1. Before(answer[i][1], l) => answer[i][1] # l
        <5>1. answer[i][1] \in Places(left) /\ left \in Tables
          BY <1>5, <3>1, RowsArePlaces DEF SoundInv, AskedOK
        <5> QED BY <5>1, PlaceOrder
      <4> QED BY <1>0, <2>2, <3>1, <4>1 DEF AtOrBefore
    <3>2. CASE i = Len(answer) + 1
      BY <1>0, <2>2, <3>2 DEF AtOrBefore
    <3> QED BY <1>5, <2>2, <3>1, <3>2
  <2>7. LeftPast' /\ RightPast'
    BY <1>0, <1>1, <2>6 DEF LeftPast, RightPast
  <2> QED BY <1>3, <1>4, <2>3, <2>4, <2>5, <2>7 DEF SoundInv
<1>7. CASE ~hit
  <2>1. answer' = answer
    BY <1>1, <1>7
  <2>2. Pairs' /\ AllMatch' /\ Ordered'
    BY <1>1, <2>1 DEF SoundInv, Pairs, AllMatch, Ordered, Joined, KeyAt
  <2>3. ASSUME NEW i \in 1 .. Len(answer)
        PROVE  /\ AtOrBefore(answer[i][1], l)
               /\ answer[i][1] = l => AtOrBefore(answer[i][2], at)
    <3>1. answer[i][1] \in Places(left) /\ left \in Tables
      BY <1>5, RowsArePlaces DEF SoundInv, AskedOK
    <3>2. Before(answer[i][1], l) => answer[i][1] # l
      BY <3>1, PlaceOrder
    <3> QED BY <1>0, <3>2 DEF AtOrBefore
  <2>4. LeftPast' /\ RightPast'
    BY <1>0, <1>1, <2>1, <2>3 DEF LeftPast, RightPast
  <2> QED BY <1>3, <1>4, <2>2, <2>4 DEF SoundInv
<1> QED BY <1>6, <1>7

LEMMA NextSound == SoundInv /\ [Next]_vars => SoundInv'
<1> SUFFICES ASSUME SoundInv, [Next]_vars PROVE SoundInv'
  OBVIOUS
<1>1. CASE UNCHANGED vars
  BY <1>1 DEF vars, SoundInv, AskedOK, TypeOK, Buffered, Stopped, LeftStopped, Pairs,
              AllMatch, Ordered, LeftPast, RightPast, Joined, KeyAt
<1> QED
  BY <1>1, CallSound, LeftRowSound, LeftEndSound, RightRowSound, RightEndSound, ReturnSound
  DEF Next

LEMMA JoinInductive == Spec => []SoundInv
<1> QED BY InitSound, NextSound, PTL DEF Spec

(* The cursors stay in the tables they walk, the buffer is never overfull  *)
(* (db/query.c:770-793).                                                   *)
THEOREM JoinTypeOK == Spec => []TypeOK
<1>1. SoundInv => TypeOK
  BY DEF SoundInv
<1> QED BY <1>1, JoinInductive, PTL

(* Of any two tables and through a buffer of any size a join returns pairs *)
(* that match, in order and without repeating one (db/query.c:770-925).    *)
THEOREM JoinSoundAlways == Spec => []JoinSound
<1>1. SoundInv => JoinSound
  <2> SUFFICES ASSUME SoundInv PROVE JoinSound
    OBVIOUS
  <2>1. ASSUME NEW i \in 1 .. Len(answer) PROVE answer[i] \in Matches
    BY <2>1 DEF SoundInv, Pairs, AllMatch, Matches
  <2> QED BY <2>1 DEF SoundInv, Ordered, JoinSound, Answered
<1> QED BY <1>1, JoinInductive, PTL

-----------------------------------------------------------------------------
(* An answer that fits in one buffer.                                      *)

(* Until the buffer is full there has been one call.                       *)
OneCall ==
  Len(answer) < room => used = Len(answer) /\ left_block_off = 0 /\ right_block_off = 0

(* The pairs the cursors have passed.                                      *)
Passed(m) ==
  CASE pc = "call" -> FALSE
    [] pc = "left" -> AtOrBefore(m[1], l)
    [] pc = "right" -> Before(m[1], l) \/ (m[1] = l /\ AtOrBefore(m[2], r))
    [] OTHER -> TRUE

CompleteSoFar == Len(answer) < room => \A m \in Matches : Passed(m) => m \in Answered

ExactInv == SoundInv /\ OneCall /\ CompleteSoFar

LEMMA InitExact == Init => ExactInv
<1> SUFFICES ASSUME Init PROVE ExactInv
  OBVIOUS
<1>1. SoundInv
  BY InitSound
<1>2. OneCall /\ CompleteSoFar
  BY DEF Init, OneCall, CompleteSoFar, Passed
<1> QED BY <1>1, <1>2 DEF ExactInv

LEMMA MatchRows ==
  ASSUME SoundInv, NEW m \in Matches
  PROVE  /\ left \in Tables /\ right \in Tables
         /\ m[1] \in RowsOf(left) /\ m[2] \in RowsOf(right)
         /\ m[1] \in Places(left) /\ m[2] \in Places(right)
         /\ l \in Places(left) /\ r \in Places(right)
         /\ m = <<m[1], m[2]>> /\ Joined(m[1], m[2])
BY RowsArePlaces DEF Matches, SoundInv, AskedOK, TypeOK

(* Nothing but RightRow adds to the answer.                                *)
LEMMA SameAnswer ==
  ASSUME UNCHANGED <<asked, answer>>
  PROVE  Matches' = Matches /\ Answered' = Answered /\ room' = room
BY DEF asked, Matches, Answered, Joined, KeyAt, RowsOf, Places

LEMMA CallExact == ExactInv /\ Call => ExactInv'
<1> SUFFICES ASSUME ExactInv, Call PROVE ExactInv'
  OBVIOUS
<1>1. SoundInv /\ SoundInv'
  BY CallSound DEF ExactInv
<1>2. Matches' = Matches /\ Answered' = Answered /\ room' = room /\ answer' = answer
  BY SameAnswer DEF Call
<1>3. ASSUME Len(answer) < room
      PROVE  /\ left_block_off = 0 /\ right_block_off = 0 /\ answer = <<>>
             /\ l' = Cursor(1, 0)
  <2>1. left_block_off = 0 /\ right_block_off = 0
    BY <1>3 DEF ExactInv, OneCall
  <2>2. answer = <<>>
    BY <1>1, <2>1, StartCoded DEF SoundInv, LeftStopped, AskedOK, Call
  <2> QED BY <2>1, <2>2 DEF Call, Start
<1>4. OneCall'
  BY <1>2, <1>3 DEF OneCall, Call
<1>5. ASSUME Len(answer) < room, NEW m \in Matches PROVE ~AtOrBefore(m[1], l')
  BY <1>1, <1>3, <1>5, MatchRows, StartFirst
<1>6. CompleteSoFar'
  BY <1>2, <1>5 DEF CompleteSoFar, Passed, Call
<1> QED BY <1>1, <1>4, <1>6 DEF ExactInv

LEMMA LeftRowExact == ExactInv /\ LeftRow => ExactInv'
<1> SUFFICES ASSUME ExactInv, LeftRow PROVE ExactInv'
  OBVIOUS
<1>1. SoundInv /\ SoundInv'
  BY LeftRowSound DEF ExactInv
<1>2. Matches' = Matches /\ Answered' = Answered /\ room' = room /\ answer' = answer
  BY SameAnswer DEF LeftRow
<1>3. OneCall'
  BY <1>2 DEF ExactInv, OneCall, LeftRow
<1>4. ASSUME Len(answer) < room, NEW m \in Matches, Passed(m)' PROVE m \in Answered
  <2>1. r' = Cursor(1, 0)
    BY <1>4 DEF ExactInv, OneCall, LeftRow, Start
  <2>2. ~AtOrBefore(m[2], r')
    BY <1>1, <2>1, MatchRows, StartFirst
  <2>3. Before(m[1], l')
    BY <1>4, <2>2 DEF Passed, LeftRow
  <2>4. AtOrBefore(m[1], l)
    BY <1>1, <2>3, MatchRows, StepNext DEF LeftRow
  <2> QED BY <1>4, <2>4 DEF ExactInv, CompleteSoFar, Passed, LeftRow
<1>5. CompleteSoFar'
  BY <1>2, <1>4 DEF CompleteSoFar, Passed
<1> QED BY <1>1, <1>3, <1>5 DEF ExactInv

LEMMA LeftEndExact == ExactInv /\ LeftEnd => ExactInv'
<1> SUFFICES ASSUME ExactInv, LeftEnd PROVE ExactInv'
  OBVIOUS
<1>1. SoundInv /\ SoundInv'
  BY LeftEndSound DEF ExactInv
<1>2. Matches' = Matches /\ Answered' = Answered /\ room' = room /\ answer' = answer
  BY SameAnswer DEF LeftEnd
<1>3. OneCall'
  BY <1>2 DEF ExactInv, OneCall, LeftEnd, LeftAtEnd
<1>4. ASSUME Len(answer) < room, NEW m \in Matches PROVE m \in Answered
  <2>1. AtOrBefore(m[1], l)
    BY <1>1, MatchRows, EndLast DEF LeftEnd
  <2> QED BY <1>4, <2>1 DEF ExactInv, CompleteSoFar, Passed, LeftEnd
<1>5. CompleteSoFar'
  BY <1>2, <1>4 DEF CompleteSoFar
<1> QED BY <1>1, <1>3, <1>5 DEF ExactInv

LEMMA RightEndExact == ExactInv /\ RightEnd => ExactInv'
<1> SUFFICES ASSUME ExactInv, RightEnd PROVE ExactInv'
  OBVIOUS
<1>1. SoundInv /\ SoundInv'
  BY RightEndSound DEF ExactInv
<1>2. /\ Matches' = Matches /\ Answered' = Answered /\ room' = room /\ answer' = answer
      /\ l' = l
  BY SameAnswer DEF RightEnd
<1>3. OneCall'
  BY <1>2 DEF ExactInv, OneCall, RightEnd
<1>4. ASSUME Len(answer) < room, NEW m \in Matches, AtOrBefore(m[1], l) PROVE m \in Answered
  <2>1. AtOrBefore(m[2], r)
    BY <1>1, MatchRows, EndLast DEF RightEnd
  <2> QED BY <1>4, <2>1 DEF ExactInv, CompleteSoFar, Passed, RightEnd, AtOrBefore
<1>5. CompleteSoFar'
  BY <1>2, <1>4 DEF CompleteSoFar, Passed, RightEnd
<1> QED BY <1>1, <1>3, <1>5 DEF ExactInv

LEMMA ReturnExact == ExactInv /\ Return => ExactInv'
<1> SUFFICES ASSUME ExactInv, Return PROVE ExactInv'
  OBVIOUS
<1>1. SoundInv /\ SoundInv'
  BY ReturnSound DEF ExactInv
<1>2. Matches' = Matches /\ Answered' = Answered /\ room' = room /\ answer' = answer
  BY SameAnswer DEF Return
<1>3. OneCall'
  BY <1>2 DEF ExactInv, OneCall, Return
<1>4. CompleteSoFar'
  BY <1>2 DEF ExactInv, OneCall, CompleteSoFar, Passed, Return
<1> QED BY <1>1, <1>3, <1>4 DEF ExactInv

LEMMA RightRowExact == ExactInv /\ RightRow => ExactInv'
<1> SUFFICES ASSUME ExactInv, RightRow PROVE ExactInv'
  OBVIOUS
<1> DEFINE at == Step(right, r)
           hit == Joined(row, at)
           full == hit /\ used + 1 >= room
<1>1. SoundInv /\ SoundInv'
  BY RightRowSound DEF ExactInv
<1>2. /\ pc = "right" /\ r' = at
      /\ answer' = IF hit THEN Append(answer, <<row, at>>) ELSE answer
      /\ used' = IF hit THEN used + 1 ELSE used
      /\ left_block_off' = IF full THEN Coded(l) ELSE left_block_off
      /\ right_block_off' = IF full THEN Coded(at) ELSE right_block_off
      /\ pc' = IF full THEN "return" ELSE "right"
      /\ l' = l /\ row = l
      /\ left' = left /\ right' = right /\ cond' = cond /\ room' = room
  BY <1>1 DEF RightRow, asked, SoundInv, RightPast
<1>3. /\ room \in Nat \ {0} /\ used \in Nat /\ Len(answer) \in Nat
      /\ answer \in Seq(RowsOf(left) \X RowsOf(right))
      /\ row \in RowsOf(left) /\ at \in RowsOf(right)
      /\ right \in Tables /\ r \in Places(right) /\ More(right, r)
  BY <1>1, JoinAssumption, RightRowAhead DEF SoundInv, AskedOK, TypeOK, Pairs, RightRow
<1>4. Matches' = Matches
  BY <1>2 DEF Matches, Joined, KeyAt, RowsOf, Places
<1> HIDE DEF at, hit, full
<1>5. /\ hit => /\ Len(answer') = Len(answer) + 1
                /\ Answered' = Answered \cup {<<row, at>>}
      /\ ~hit => answer' = answer /\ Answered' = Answered
  <2>1. CASE hit
    <3>1. answer' = Append(answer, <<row, at>>)
      BY <1>2, <2>1
    <3>2. /\ Len(answer') = Len(answer) + 1
          /\ \A i \in 1 .. Len(answer) : answer'[i] = answer[i]
          /\ answer'[Len(answer) + 1] = <<row, at>>
      BY <1>3, <3>1
    <3>3. 1 .. Len(answer') = (1 .. Len(answer)) \cup {Len(answer) + 1}
      BY <1>3, <3>2
    <3> QED BY <2>1, <3>2, <3>3 DEF Answered
  <2>2. CASE ~hit
    BY <1>2, <2>2 DEF Answered
  <2> QED BY <2>1, <2>2
<1>6. Len(answer') < room' => ~full /\ Len(answer) < room
  BY <1>2, <1>3, <1>5 DEF ExactInv, OneCall, full
<1>7. OneCall'
  <2> SUFFICES ASSUME Len(answer') < room' PROVE used' = Len(answer') /\ left_block_off' = 0 /\ right_block_off' = 0
    BY DEF OneCall
  <2> QED BY <1>2, <1>5, <1>6 DEF ExactInv, OneCall
<1>8. ASSUME Len(answer') < room', NEW m \in Matches,
             Before(m[1], l) \/ (m[1] = l /\ AtOrBefore(m[2], at))
      PROVE  m \in Answered'
  <2>1. CASE m[1] = l /\ m[2] = at
    <3>1. m = <<row, at>> /\ hit
      BY <1>1, <1>2, <2>1, MatchRows DEF hit
    <3> QED BY <1>5, <3>1
  <2>2. CASE Before(m[1], l) \/ (m[1] = l /\ Before(m[2], at))
    <3>1. Before(m[2], at) => AtOrBefore(m[2], r)
      BY <1>1, <1>3, MatchRows, StepNext DEF at
    <3>2. m \in Answered
      BY <1>2, <1>6, <1>8, <2>2, <3>1 DEF ExactInv, CompleteSoFar, Passed
    <3> QED BY <1>5, <3>2
  <2> QED BY <1>8, <2>1, <2>2 DEF AtOrBefore
<1>9. CompleteSoFar'
  BY <1>2, <1>4, <1>6, <1>8 DEF CompleteSoFar, Passed
<1> QED BY <1>1, <1>7, <1>9 DEF ExactInv

LEMMA NextExact == ExactInv /\ [Next]_vars => ExactInv'
<1> SUFFICES ASSUME ExactInv, [Next]_vars PROVE ExactInv'
  OBVIOUS
<1>1. CASE UNCHANGED vars
  <2>1. SoundInv'
    BY <1>1, NextSound DEF ExactInv
  <2>2. Matches' = Matches /\ Answered' = Answered /\ room' = room
    BY <1>1, SameAnswer DEF vars, asked
  <2> QED BY <1>1, <2>1, <2>2 DEF vars, ExactInv, OneCall, CompleteSoFar, Passed
<1> QED
  BY <1>1, CallExact, LeftRowExact, LeftEndExact, RightRowExact, RightEndExact, ReturnExact
  DEF Next

LEMMA RowsFinite ==
  ASSUME NEW t \in Tables
  PROVE  IsFiniteSet(RowsOf(t))
<1> DEFINE D == (1 .. Len(t)) \X (0 .. BlockSize - 1)
           f == [p \in D |-> Cursor(p[1], p[2])]
<1>1. Len(t) \in Int /\ BlockSize - 1 \in Int
  BY JoinAssumption
<1>2. IsFiniteSet(1 .. Len(t)) /\ IsFiniteSet(0 .. BlockSize - 1)
  <2>1. 0 \in Int /\ 1 \in Int
    OBVIOUS
  <2> QED BY <1>1, <2>1, FS_Interval
<1>3. IsFiniteSet(D)
  BY <1>2, FS_Product
<1>4. f \in Surjection(D, Places(t))
  <2>1. f \in [D -> Places(t)]
    BY DEF Places
  <2>2. ASSUME NEW c \in Places(t) PROVE \E p \in D : f[p] = c
    <3>1. PICK b \in 1 .. Len(t), o \in 0 .. BlockSize - 1 : c = Cursor(b, o)
      BY DEF Places
    <3>2. <<b, o>> \in D /\ f[<<b, o>>] = c
      BY <3>1
    <3> QED BY <3>2
  <2> QED BY <2>1, <2>2 DEF Surjection
<1>5. IsFiniteSet(Places(t))
  BY <1>3, <1>4, FS_Surjection
<1> QED BY <1>5, FS_Subset DEF RowsOf

(* The pairs of an answer differ, so a full buffer holds as many.          *)
LEMMA FullIsAll ==
  ASSUME SoundInv, Cardinality(Matches) <= room, ~(Len(answer) < room)
  PROVE  Answered = Matches
<1>1. /\ left \in Tables /\ right \in Tables /\ Len(answer) \in Nat /\ room \in Nat
      /\ answer \in Seq(RowsOf(left) \X RowsOf(right))
  BY JoinAssumption DEF SoundInv, AskedOK, Pairs
<1>2. IsFiniteSet(RowsOf(left) \X RowsOf(right))
  BY <1>1, RowsFinite, FS_Product
<1>3. Matches \in SUBSET (RowsOf(left) \X RowsOf(right))
  BY DEF Matches
<1>4. IsFiniteSet(Matches)
  BY <1>2, <1>3, FS_Subset
<1>5. ASSUME NEW i \in 1 .. Len(answer) PROVE answer[i] \in Matches
  BY <1>1 DEF SoundInv, AllMatch, Matches
<1>6. ASSUME NEW i \in 1 .. Len(answer), NEW j \in 1 .. Len(answer), i < j
      PROVE  answer[i] # answer[j]
  <2>1. /\ answer[i][1] \in Places(left) /\ answer[i][2] \in Places(right)
        /\ answer[j][1] \in Places(left) /\ answer[j][2] \in Places(right)
    BY <1>1, RowsArePlaces
  <2>2. ~Before(answer[i][1], answer[i][1]) /\ ~Before(answer[i][2], answer[i][2])
    BY <1>1, <2>1, PlaceOrder
  <2>3. \/ Before(answer[i][1], answer[j][1])
        \/ Before(answer[i][2], answer[j][2])
    BY <1>6 DEF SoundInv, Ordered
  <2> QED BY <2>2, <2>3
<1> DEFINE f == [i \in 1 .. Len(answer) |-> answer[i]]
<1>7. f \in Injection(1 .. Len(answer), Matches)
  <2>1. f \in [1 .. Len(answer) -> Matches]
    BY <1>5
  <2>2. ASSUME NEW i \in 1 .. Len(answer), NEW j \in 1 .. Len(answer), f[i] = f[j]
        PROVE  i = j
    <3>1. ~(i < j) /\ ~(j < i)
      BY <1>6, <2>2
    <3> QED BY <1>1, <3>1
  <2> QED BY <2>1, <2>2 DEF Injection, IsInjective
<1>8. /\ Cardinality(1 .. Len(answer)) <= Cardinality(Matches)
      /\ (Cardinality(1 .. Len(answer)) = Cardinality(Matches)) <=> f \in Surjection(1 .. Len(answer), Matches)
  BY <1>4, <1>7, FS_Injection
<1>9. Cardinality(1 .. Len(answer)) = Len(answer)
  <2>1. 1 \in Int /\ Len(answer) \in Int
    BY <1>1
  <2>2. Cardinality(1 .. Len(answer)) = IF 1 > Len(answer) THEN 0 ELSE Len(answer) - 1 + 1
    BY <2>1, FS_Interval
  <2> QED BY <1>1, <2>2
<1>10. Cardinality(Matches) \in Nat
  BY <1>4, FS_CardinalityType
<1>11. f \in Surjection(1 .. Len(answer), Matches)
  BY <1>1, <1>8, <1>9, <1>10
<1> QED BY <1>5, <1>11 DEF Surjection, Answered

LEMMA JoinExactInductive == Spec => []ExactInv
<1> QED BY InitExact, NextExact, PTL DEF Spec

(* Of any two tables a join whose answer fits in the buffer returns all    *)
(* the pairs that match (db/query.c:770-793).                              *)
THEOREM JoinExactInOneBuffer == Spec => []JoinExactInOneCall
<1>1. ExactInv => JoinExactInOneCall
  <2> SUFFICES ASSUME ExactInv, pc = "done", Cardinality(Matches) <= room
               PROVE  Answered = Matches
    BY DEF JoinExactInOneCall
  <2>1. CASE Len(answer) < room
    <3>1. Matches \subseteq Answered
      BY <2>1 DEF ExactInv, CompleteSoFar, Passed
    <3>2. Answered \subseteq Matches
      BY DEF ExactInv, SoundInv, Pairs, AllMatch, Answered, Matches
    <3> QED BY <3>1, <3>2
  <2>2. CASE ~(Len(answer) < room)
    BY <2>2, FullIsAll DEF ExactInv
  <2> QED BY <2>1, <2>2
<1> QED BY <1>1, JoinExactInductive, PTL
=============================================================================
