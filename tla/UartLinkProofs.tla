--------------------------- MODULE UartLinkProofs ---------------------------
(***************************************************************************)
(* The byte UART loses nothing, at every rate, for every two clocks that   *)
(* agree as DriftAssumption says, and keeps the contracts of the byte      *)
(* layer.                                                                  *)
(***************************************************************************)
EXTENDS UartLink, SequenceTheorems, TLAPS

-----------------------------------------------------------------------------
(* The constants.                                                          *)

\* How the lengths of a bit, of half a bit and of the drift compare.
LEMMA Lengths ==
    /\ DELAY_WAIT \in Nat /\ HALF_DELAY_WAIT \in Nat
    /\ MaxDrift \in Nat /\ MinHigh \in Nat
    /\ BitTime \in Nat /\ BitTime = DELAY_WAIT + 1
    /\ 2 * HALF_DELAY_WAIT <= DELAY_WAIT
    /\ DELAY_WAIT <= 2 * HALF_DELAY_WAIT + 1
    /\ 2 * MaxDrift + 2 <= DELAY_WAIT - HALF_DELAY_WAIT
    /\ 2 * MaxDrift + MinHigh <= DELAY_WAIT - HALF_DELAY_WAIT + 1
BY LinkAssumption, DriftAssumption DEF BitTime, HALF_DELAY_WAIT

\* Bits follow each other.
LEMMA NextBit ==
    ASSUME NEW n \in Nat
    PROVE  BitTime * n \in Nat /\ BitTime * (n + 1) = BitTime * n + BitTime
BY Lengths

LEMMA LaterBit ==
    ASSUME NEW j \in Nat, NEW k \in Nat, j <= k
    PROVE  BitTime * j <= BitTime * k
BY Lengths

LEMMA BitOf ==
    ASSUME NEW n \in 1 .. 8
    PROVE  /\ BitTime * n \in Nat
           /\ BitTime * (n + 1) = BitTime * n + BitTime
           /\ BitTime * (n + 1) <= BitTime * 9
           /\ BitTime * 9 \in Nat
<1>1. n \in Nat /\ n + 1 \in Nat /\ n + 1 <= 9
  OBVIOUS
<1>2. BitTime * n \in Nat /\ BitTime * (n + 1) = BitTime * n + BitTime
  BY <1>1, NextBit
<1>3. BitTime * (n + 1) <= BitTime * 9
  BY <1>1, LaterBit
<1>4. BitTime * 9 \in Nat
  BY NextBit
<1> QED BY <1>2, <1>3, <1>4

\* A position belongs to one bit.
LEMMA OneBit ==
    ASSUME NEW j \in Nat, NEW k \in Nat, NEW p \in Int,
           BitTime * j < p, p <= BitTime * (j + 1),
           BitTime * k < p, p <= BitTime * (k + 1)
    PROVE  j = k
<1>1. BitTime * j \in Nat /\ BitTime * k \in Nat
      /\ BitTime * (j + 1) \in Nat /\ BitTime * (k + 1) \in Nat
  BY NextBit
<1>2. CASE j + 1 <= k
  <2>1. BitTime * (j + 1) <= BitTime * k
    BY <1>2, LaterBit
  <2> QED BY <1>1, <2>1
<1>3. CASE k + 1 <= j
  <2>1. BitTime * (k + 1) <= BitTime * j
    BY <1>3, LaterBit
  <2> QED BY <1>1, <2>1
<1> QED BY <1>2, <1>3

-----------------------------------------------------------------------------
(* What is seen of the line.                                               *)

\* The less is known of where one looked, the less is known of the bit.
LEMMA SeenWider ==
    ASSUME NEW byte, NEW v,
           NEW lo \in Int, NEW hi \in Int, NEW lo1 \in Int, NEW hi1 \in Int,
           lo1 <= lo, hi <= hi1,
           Seen(byte, lo, hi, v)
    PROVE  Seen(byte, lo1, hi1, v)
<1>1. BitTime * 9 \in Nat /\ BitTime \in Nat
  BY NextBit, Lengths
<1>2. ASSUME NEW j \in 1 .. 8, BitTime * j < lo1, hi1 <= BitTime * (j + 1)
      PROVE  v = byte[j]
  <2>1. BitTime * j \in Nat /\ BitTime * (j + 1) \in Nat
    BY NextBit
  <2>2. BitTime * j < lo /\ hi <= BitTime * (j + 1)
    BY <1>2, <2>1
  <2> QED BY <2>2 DEF Seen
<1> QED BY <1>1, <1>2 DEF Seen

\* The line is high until the start bit, and from the stop bit on.
LEMMA SeenBefore ==
    ASSUME NEW byte, NEW lo \in Int, NEW hi \in Int, lo <= 0
    PROVE  Seen(byte, lo, hi, 1)
<1>1. BitTime * 9 \in Nat /\ BitTime \in Nat
  BY NextBit, Lengths
<1>2. ASSUME NEW j \in 1 .. 8
      PROVE  BitTime * j \in Nat
  BY NextBit
<1> QED BY <1>1, <1>2 DEF Seen

LEMMA SeenAfter ==
    ASSUME NEW byte, NEW lo \in Int, NEW hi \in Int, BitTime * 9 < hi
    PROVE  Seen(byte, lo, hi, 1)
<1>1. BitTime * 9 \in Nat /\ BitTime \in Nat /\ BitTime <= BitTime * 9
  BY NextBit, Lengths
<1>2. ASSUME NEW j \in 1 .. 8
      PROVE  BitTime * j \in Nat /\ BitTime * (j + 1) \in Nat /\ BitTime * (j + 1) <= BitTime * 9
  BY NextBit, LaterBit
<1> QED BY <1>1, <1>2 DEF Seen

\* In the start bit it is low, and in bit j it is bit j.
LEMMA SeenStart ==
    ASSUME NEW byte, NEW p \in Int, 0 < p, p <= BitTime
    PROVE  Seen(byte, p, p, 0)
<1>1. BitTime * 9 \in Nat /\ BitTime \in Nat /\ BitTime <= BitTime * 9
  BY NextBit, Lengths
<1>2. ASSUME NEW j \in 1 .. 8
      PROVE  BitTime * j \in Nat /\ BitTime <= BitTime * j
  <2>1. BitTime * 1 <= BitTime * j
    BY LaterBit
  <2> QED BY <1>1, <2>1, NextBit
<1> QED BY <1>1, <1>2 DEF Seen

LEMMA SeenBit ==
    ASSUME NEW byte, NEW p \in Int, NEW k \in 1 .. 8,
           BitTime * k < p, p <= BitTime * (k + 1)
    PROVE  Seen(byte, p, p, byte[k])
<1>1. BitTime * 9 \in Nat /\ BitTime \in Nat
  BY NextBit, Lengths
<1>2. BitTime <= BitTime * k /\ BitTime * (k + 1) <= BitTime * 9 /\ BitTime * k \in Nat
  <2>1. BitTime * 1 <= BitTime * k /\ BitTime * (k + 1) <= BitTime * 9
    BY LaterBit
  <2> QED BY <1>1, <2>1, NextBit
<1>3. ASSUME NEW j \in 1 .. 8, BitTime * j < p, p <= BitTime * (j + 1)
      PROVE  byte[k] = byte[j]
  <2>1. j = k
    BY <1>3, OneBit
  <2> QED BY <2>1
<1>4. ~(p <= 0) /\ ~(p > BitTime * 9) /\ ~(p <= BitTime)
  BY <1>1, <1>2
<1> QED BY <1>3, <1>4 DEF Seen

-----------------------------------------------------------------------------
(* The transmitter's side: the position goes on by one at each of its      *)
(* clocks until the stop bit is over, and the line shows the bit of the    *)
(* position before.                                                        *)

LEMMA PositionType ==
    ASSUME TypeOK
    PROVE  Position \in Nat
<1>1. tx.state \in {"TX_IDLE", "TX_START", "TX_WRITE", "TX_STOP"}
      /\ tx.counter \in Nat /\ tx.bit_number \in 0 .. 7 /\ tx_data_en \in {0, 1}
  BY Lengths DEF TypeOK, TxTypeOK, Bit
<1>2. BitTime * 9 \in Nat /\ BitTime * 10 \in Nat /\ BitTime * (tx.bit_number + 1) \in Nat
  BY <1>1, NextBit
<1> QED BY <1>1, <1>2 DEF Position

\* What a clock of the transmitter does, if it does not take a byte.
TxGoesOn ==
    /\ tx'.data = tx.data
    /\ Position' \in {Position, Position + 1}
    /\ Position < BitTime * 9 + DELAY_WAIT => Position' = Position + 1
    /\ TxHandshake'
    /\ LineShown'

LEMMA TxIdleStep ==
    ASSUME TypeOK, TxHandshake, TxIdle, Client
    PROVE  TxGoesOn
<1>1. tx_data_en' \in {0, 1}
  BY DEF Client, TxIdle
<1>2. Position = BitTime * 10 + 2 /\ Position' = BitTime * 10 + 2 + tx_data_en'
  BY Lengths DEF Position, TxIdle
<1>3. BitTime * 9 \in Nat /\ BitTime * (9 + 1) = BitTime * 9 + BitTime
  BY NextBit
<1>4. LineShown'
  <2>1. Seen(tx'.data, Position', Position', 1)
    BY <1>1, <1>2, <1>3, Lengths, SeenAfter
  <2> QED BY <2>1 DEF TxIdle, LineShown
<1>5. TxHandshake'
  BY DEF TxIdle, TxHandshake
<1>6. Position' \in {Position, Position + 1} /\ ~(Position < BitTime * 9 + DELAY_WAIT)
  <2> DEFINE t == BitTime * 10
             e == tx_data_en'
  <2>1. t \in Nat /\ t = BitTime * 9 + BitTime
    BY <1>3, Lengths
  <2>2. Position = t + 2 /\ Position' = t + 2 + e /\ e \in {0, 1}
    BY <1>1, <1>2
  <2> HIDE DEF t, e
  <2> QED BY <1>3, <2>1, <2>2, Lengths
<1> QED BY <1>4, <1>5, <1>6 DEF TxGoesOn, TxIdle

LEMMA TxStartStep ==
    ASSUME TypeOK, TxHandshake, TxStart, Client
    PROVE  TxGoesOn
<1>1. tx_data_en' = 1 /\ data_sent' = 0
  BY DEF Client, TxStart, TxHandshake
<1>2. tx.counter \in 0 .. DELAY_WAIT /\ tx.bit_number \in 0 .. 7
      /\ tx \in [state : {"TX_IDLE", "TX_START", "TX_WRITE", "TX_STOP"},
                 counter : 0 .. DELAY_WAIT, bit_number : 0 .. 7, data : UartByte]
  BY DEF TypeOK, TxTypeOK
<1>3. Position = tx.counter /\ tx.bit_number = 0
  BY DEF Position, TxStart, TxHandshake
<1>4. /\ tx'.data = tx.data
      /\ tx'.state \in {"TX_START", "TX_WRITE"}
      /\ tx'.bit_number = 0
  BY <1>2, <1>3 DEF TxStart, HoldBit
<1>5. Position' = Position + 1
  <2>1. CASE tx.counter = DELAY_WAIT
    BY <1>2, <1>3, <2>1, Lengths DEF TxStart, HoldBit, Position
  <2>2. CASE tx.counter # DELAY_WAIT
    BY <1>2, <1>3, <2>2, Lengths DEF TxStart, HoldBit, Position
  <2> QED BY <2>1, <2>2
<1>6. TxHandshake'
  BY <1>1, <1>4 DEF TxHandshake
<1>7. LineShown'
  <2>1. Seen(tx'.data, Position', Position', 0)
    BY <1>2, <1>3, <1>5, Lengths, SeenStart
  <2> QED BY <2>1 DEF TxStart, LineShown
<1> QED BY <1>2, <1>3, <1>4, <1>5, <1>6, <1>7, Lengths DEF TxGoesOn

LEMMA TxWriteStep ==
    ASSUME TypeOK, TxHandshake, TxWrite, Client
    PROVE  TxGoesOn
<1> DEFINE n == tx.bit_number + 1
<1>1. tx_data_en' = 1 /\ data_sent' = 0
  BY DEF Client, TxWrite, TxHandshake
<1>2. tx.counter \in 0 .. DELAY_WAIT /\ tx.bit_number \in 0 .. 7 /\ n \in 1 .. 8
      /\ tx \in [state : {"TX_IDLE", "TX_START", "TX_WRITE", "TX_STOP"},
                 counter : 0 .. DELAY_WAIT, bit_number : 0 .. 7, data : UartByte]
  BY DEF TypeOK, TxTypeOK
<1>3. Position = BitTime * n + tx.counter
  BY DEF Position, TxWrite
<1>4. /\ BitTime * n \in Nat
      /\ BitTime * (n + 1) = BitTime * n + BitTime
      /\ BitTime * (n + 1) <= BitTime * 9
      /\ BitTime * 9 \in Nat
  <2> HIDE DEF n
  <2> QED BY <1>2, BitOf
<1>5. /\ tx'.data = tx.data
      /\ tx'.state \in {"TX_WRITE", "TX_STOP"}
      /\ tx'.state = "TX_STOP" => tx'.counter = 0
  BY <1>2 DEF TxWrite, HoldBit
<1>6. Position' = Position + 1
  <2>1. CASE tx.counter # DELAY_WAIT
    <3>1. Position' = BitTime * n + (tx.counter + 1)
      BY <1>2, <2>1 DEF TxWrite, HoldBit, Position
    <3> HIDE DEF n
    <3> QED BY <1>2, <1>3, <1>4, <3>1, Lengths
  <2>2. CASE tx.counter = DELAY_WAIT /\ tx.bit_number # 7
    <3>1. Position' = BitTime * (n + 1) + 0
      BY <1>2, <2>2 DEF TxWrite, HoldBit, Position
    <3> HIDE DEF n
    <3> QED BY <1>2, <1>3, <1>4, <2>2, <3>1, Lengths
  <2>3. CASE tx.counter = DELAY_WAIT /\ tx.bit_number = 7
    <3>1. Position' = BitTime * 9 + 0 + 0
      BY <1>1, <1>2, <2>3 DEF TxWrite, HoldBit, Position
    <3>2. n + 1 = 9
      BY <2>3
    <3> HIDE DEF n
    <3> QED BY <1>2, <1>3, <1>4, <2>3, <3>1, <3>2, Lengths
  <2> QED BY <2>1, <2>2, <2>3
<1>7. TxHandshake'
  BY <1>1, <1>5 DEF TxHandshake
<1>8. LineShown'
  <2>1. Position + 1 \in Int /\ BitTime * n < Position + 1 /\ Position + 1 <= BitTime * (n + 1)
    <3> HIDE DEF n
    <3> QED BY <1>2, <1>3, <1>4, Lengths
  <2>2. Seen(tx'.data, Position', Position', tx.data[n])
    <3> HIDE DEF n
    <3> QED BY <1>2, <1>5, <1>6, <2>1, SeenBit
  <2> QED BY <2>2 DEF TxWrite, LineShown
<1> QED BY <1>5, <1>6, <1>7, <1>8 DEF TxGoesOn

LEMMA TxStopStep ==
    ASSUME TypeOK, TxHandshake, TxStop, Client
    PROVE  TxGoesOn
<1>1. tx.counter \in 0 .. DELAY_WAIT /\ data_sent \in {0, 1} /\ tx_data_en \in {0, 1}
      /\ tx \in [state : {"TX_IDLE", "TX_START", "TX_WRITE", "TX_STOP"},
                 counter : 0 .. DELAY_WAIT, bit_number : 0 .. 7, data : UartByte]
  BY DEF TypeOK, TxTypeOK, Bit
<1>2. BitTime * 9 \in Nat /\ BitTime * (9 + 1) = BitTime * 9 + BitTime
  BY NextBit
<1>3. tx'.data = tx.data
  BY <1>1 DEF TxStop
<1>4. /\ Position' \in {Position, Position + 1}
      /\ Position < BitTime * 9 + DELAY_WAIT => Position' = Position + 1
      /\ Position >= BitTime * 9
      /\ Position' > BitTime * 9
      /\ TxHandshake'
  <2>1. CASE tx.counter # DELAY_WAIT
    <3>1. data_sent = 0 /\ tx_data_en = 1 /\ data_sent' = 0 /\ tx_data_en' = 1
      BY <1>1, <2>1 DEF TxStop, TxHandshake, Client
    <3>2. tx'.state = "TX_STOP" /\ tx'.counter = tx.counter + 1
      BY <1>1, <2>1 DEF TxStop
    <3>3. Position = BitTime * 9 + tx.counter /\ Position' = BitTime * 9 + (tx.counter + 1)
      BY <1>1, <1>2, <3>1, <3>2, Lengths DEF TxStop, Position
    <3>4. TxHandshake'
      BY <3>1, <3>2 DEF TxHandshake
    <3> QED BY <1>1, <1>2, <3>3, <3>4, Lengths
  <2>2. CASE tx.counter = DELAY_WAIT /\ data_sent = 0
    <3>1. tx_data_en = 1 /\ data_sent' = 1 /\ tx_data_en' = 1 /\ tx' = tx
      BY <1>1, <2>2 DEF TxStop, TxHandshake, Client
    <3>2. Position = BitTime * 9 + DELAY_WAIT /\ Position' = BitTime * 9 + DELAY_WAIT + 1
      BY <1>1, <1>2, <2>2, <3>1, Lengths DEF TxStop, Position
    <3>3. TxHandshake'
      BY <2>2, <3>1 DEF TxHandshake, TxStop
    <3> QED BY <1>1, <1>2, <3>2, <3>3, Lengths
  <2>3. CASE tx.counter = DELAY_WAIT /\ data_sent = 1 /\ tx_data_en = 1
    <3>1. data_sent' = 1 /\ tx_data_en' \in {0, 1} /\ tx' = tx
      BY <2>3 DEF TxStop, Client
    <3>2. /\ Position = BitTime * 9 + DELAY_WAIT + 1
          /\ Position' = BitTime * 9 + DELAY_WAIT + (IF tx_data_en' = 1 THEN 1 ELSE 2)
      BY <1>1, <1>2, <2>3, <3>1, Lengths DEF TxStop, Position
    <3>3. TxHandshake'
      BY <2>3, <3>1 DEF TxHandshake, TxStop
    <3> QED BY <1>1, <1>2, <3>1, <3>2, <3>3, Lengths
  <2>4. CASE tx.counter = DELAY_WAIT /\ data_sent = 1 /\ tx_data_en = 0
    <3>1. data_sent' = 0 /\ tx_data_en' = 0 /\ tx'.state = "TX_IDLE"
      BY <1>1, <2>4 DEF TxStop, Client
    <3>2. Position = BitTime * 9 + DELAY_WAIT + 2 /\ Position' = BitTime * 10 + 2
      BY <1>1, <1>2, <2>4, <3>1, Lengths DEF TxStop, Position
    <3>3. TxHandshake'
      BY <3>1 DEF TxHandshake
    <3> QED BY <1>1, <1>2, <3>2, <3>3, Lengths
  <2> QED BY <1>1, <2>1, <2>2, <2>3, <2>4 DEF TxHandshake, TxStop
<1>5. LineShown'
  <2>1. Seen(tx'.data, Position', Position', 1)
    BY <1>4, PositionType, SeenAfter
  <2> QED BY <2>1 DEF TxStop, LineShown
<1> QED BY <1>3, <1>4, <1>5 DEF TxGoesOn

LEMMA TxStep ==
    ASSUME TypeOK, TxHandshake, TxEdge, ~Accepted
    PROVE  TxGoesOn
<1>1. ~TxAccept
  BY DEF TxAccept, Accepted, TypeOK, TxTypeOK
<1> QED BY <1>1, TxIdleStep, TxStartStep, TxWriteStep, TxStopStep DEF TxEdge, TxClock

\* What taking a byte does.
LEMMA AcceptStep ==
    ASSUME TypeOK, TxHandshake, LineShown, TxEdge, Accepted
    PROVE  /\ Position = BitTime * 10 + 3 /\ Position' = 0
           /\ extern_uart_tx = 1
           /\ TxHandshake'
           /\ LineShown'
<1>1. TxAccept
  BY DEF TxEdge, TxClock, TxIdle, TxStart, TxWrite, TxStop, Accepted
<1>2. Position = BitTime * 10 + 2 + 1 /\ Position' = 0
  BY <1>1 DEF TxAccept, Position
<1>3. data_sent = 0 /\ data_sent' = 0 /\ tx_data_en' = 1
  BY <1>1 DEF TxAccept, TxHandshake, TxEdge, Client
<1>4. TxHandshake'
  BY <1>1, <1>3 DEF TxAccept, TxHandshake
<1>5. Position = BitTime * 10 + 3 /\ Position > BitTime * 9
  BY <1>2, Lengths
<1>6. extern_uart_tx = 1
  BY <1>5 DEF LineShown, Seen
<1>7. LineShown'
  <2>1. Seen(tx'.data, Position', Position', 1)
    BY <1>2, SeenBefore
  <2> QED BY <1>1, <1>6, <2>1 DEF TxAccept, LineShown
<1> QED BY <1>2, <1>4, <1>5, <1>6, <1>7

-----------------------------------------------------------------------------
(* The receiver's side: Heard goes on by one at each of its clocks, and    *)
(* the bit that is shifted in is the next one.                             *)

LEMMA TailOfEight ==
    ASSUME NEW S, NEW data \in Seq(S), Len(data) = 8
    PROVE  /\ Tail(data) \in Seq(S) /\ Len(Tail(data)) = 7
           /\ \A i \in 1 .. 7 : Tail(data)[i] = data[i + 1]
<1>1. data # <<>>
  OBVIOUS
<1>2. Tail(data) \in Seq(S) /\ Len(Tail(data)) = 7
  BY <1>1, HeadTailProperties
<1>3. \A i \in 1 .. Len(Tail(data)) : Tail(data)[i] = data[i + 1]
  BY <1>1, HeadTailProperties
<1> DEFINE n == Len(Tail(data))
<1>4. n = 7 /\ \A i \in 1 .. n : Tail(data)[i] = data[i + 1]
  BY <1>2, <1>3
<1> HIDE DEF n
<1> QED BY Zenon, <1>2, <1>4

LEMMA AppendLast ==
    ASSUME NEW S, NEW data \in Seq(S), NEW v \in S
    PROVE  /\ Append(data, v) \in Seq(S) /\ Len(Append(data, v)) = Len(data) + 1
           /\ \A i \in 1 .. Len(data) : Append(data, v)[i] = data[i]
           /\ Append(data, v)[Len(data) + 1] = v
<1>1. Append(data, v) \in Seq(S) /\ Len(Append(data, v)) = Len(data) + 1
  OBVIOUS
<1>2. \A i \in 1 .. Len(data) : Append(data, v)[i] = data[i]
  OBVIOUS
<1>3. Append(data, v)[Len(data) + 1] = v
  OBVIOUS
<1> QED BY <1>1, <1>2, <1>3

LEMMA ShiftInSeq ==
    ASSUME NEW S, NEW data \in Seq(S), Len(data) = 8, NEW v \in S
    PROVE  /\ Append(Tail(data), v) \in Seq(S)
           /\ Len(Append(Tail(data), v)) = 8
           /\ \A i \in 1 .. 7 : Append(Tail(data), v)[i] = data[i + 1]
           /\ Append(Tail(data), v)[8] = v
<1> DEFINE t == Tail(data)
<1>1. t \in Seq(S) /\ Len(t) = 7 /\ \A i \in 1 .. 7 : t[i] = data[i + 1]
  BY TailOfEight
<1> HIDE DEF t
<1>2. /\ Append(t, v) \in Seq(S) /\ Len(Append(t, v)) = 8
      /\ \A i \in 1 .. 7 : Append(t, v)[i] = t[i]
      /\ Append(t, v)[8] = v
  <2>1. Len(t) = 7 /\ Len(t) + 1 = 8
    BY <1>1
  <2>2. /\ Append(t, v) \in Seq(S) /\ Len(Append(t, v)) = Len(t) + 1
        /\ \A i \in 1 .. Len(t) : Append(t, v)[i] = t[i]
        /\ Append(t, v)[Len(t) + 1] = v
    BY Zenon, <1>1, AppendLast
  <2> QED BY Zenon, <2>1, <2>2
<1>3. \A i \in 1 .. 7 : Append(t, v)[i] = data[i + 1]
  BY Zenon, <1>1, <1>2
<1> QED BY <1>2, <1>3 DEF t

ShiftedIn(new, data, v) ==
    /\ \A i \in 1 .. 7 : new[i] = data[i + 1]
    /\ new[8] = v

LEMMA ShiftIn ==
    ASSUME NEW data \in [1 .. 8 -> {0, 1}], NEW v \in {0, 1}, NEW new,
           new = Append(Tail(data), v)
    PROVE  /\ new \in [1 .. 8 -> {0, 1}]
           /\ ShiftedIn(new, data, v)
<1> DEFINE S == {0, 1}
<1>0. data \in [1 .. 8 -> S] /\ v \in S
  OBVIOUS
<1> HIDE DEF S
<1>1. data \in Seq(S) /\ Len(data) = 8
  <2>1. data \in Seq(S)
    BY <1>0, SeqDef
  <2>2. Len(data) \in Nat /\ DOMAIN data = 1 .. Len(data)
    BY <2>1, LenProperties
  <2> QED BY <1>0, <2>1, <2>2
<1> DEFINE t == Append(Tail(data), v)
<1>2. /\ t \in Seq(S) /\ Len(t) = 8
      /\ \A i \in 1 .. 7 : t[i] = data[i + 1]
      /\ t[8] = v
  BY ONLY <1>0, <1>1, ShiftInSeq
<1>3. new = t
  OBVIOUS
<1> HIDE DEF t
<1>4. t \in [1 .. 8 -> S]
  BY <1>2, LenProperties
<1> QED BY <1>2, <1>3, <1>4 DEF ShiftedIn, S

LEMMA HeardType ==
    ASSUME RxTypeOK, rx.state # "RX_IDLE"
    PROVE  Heard \in Nat /\ Heard <= HALF_DELAY_WAIT + 1 + BitTime * 9
<1>1. rx.state \in {"RX_START", "RX_READ", "RX_STOP"}
      /\ rx.counter \in 0 .. DELAY_WAIT /\ rx.bit_number \in 0 .. 8
  BY DEF RxTypeOK
<1>2. BitTime * rx.bit_number \in Nat /\ BitTime * 9 \in Nat
      /\ BitTime * (rx.bit_number + 1) = BitTime * rx.bit_number + BitTime
      /\ BitTime * (rx.bit_number + 1) <= BitTime * 9
      /\ BitTime <= BitTime * 9
  BY <1>1, NextBit, LaterBit, Lengths
<1>3. CASE rx.state = "RX_READ"
  <2>1. Heard = HALF_DELAY_WAIT + 1 + BitTime * rx.bit_number + rx.counter
    BY <1>3 DEF Heard
  <2> DEFINE t == BitTime * rx.bit_number
             u == BitTime * (rx.bit_number + 1)
  <2>2. Heard = HALF_DELAY_WAIT + 1 + t + rx.counter /\ t \in Nat /\ u = t + BitTime
        /\ u <= BitTime * 9
    BY <1>2, <2>1
  <2> HIDE DEF t, u
  <2> QED BY <1>1, <1>2, <2>2, Lengths
<1>4. CASE rx.state # "RX_READ"
  BY <1>1, <1>2, <1>4, Lengths DEF Heard
<1> QED BY <1>3, <1>4

\* What a clock of the receiver does in the middle of a byte.
RxGoesOn ==
    /\ rx'.state # "RX_IDLE"
    /\ Heard' = Heard + 1
    /\ rx'.r1 = extern_uart_tx /\ rx'.r2 = rx.r1
    /\ UNCHANGED rx_data_en
    /\ \A byte :
           /\ Seen(byte, Heard + 2 - 2 * MaxDrift, Heard + 2 + 2 * MaxDrift, rx.r2)
           /\ Sampled(byte, rx_data, rx.bit_number)
           => Sampled(byte, rx_data', rx'.bit_number)
    /\ RxTypeOK'
    /\ RxRegisters'

\* A step of the registers.
RxRecord == [r1 : {0, 1}, r2 : {0, 1}, state : {"RX_IDLE", "RX_START", "RX_READ", "RX_STOP"},
             counter : 0 .. DELAY_WAIT, bit_number : 0 .. 8]

LEMMA RegistersStep ==
    ASSUME TypeOK, NEW regs \in RxRecord, Registers(regs)
    PROVE  /\ rx' \in RxRecord
           /\ rx'.r1 = extern_uart_tx /\ rx'.r2 = rx.r1
           /\ rx'.state = regs.state /\ rx'.counter = regs.counter
           /\ rx'.bit_number = regs.bit_number
BY DEF Registers, RxRecord, TypeOK, TxTypeOK, RxTypeOK, Bit

LEMMA RxStartStep ==
    ASSUME TypeOK, RxRegisters, RxStart
    PROVE  RxGoesOn
<1>1. rx \in RxRecord /\ rx.state = "RX_START" /\ rx.bit_number = 0
      /\ rx.counter \in 0 .. HALF_DELAY_WAIT /\ rx_data_en = 0
  BY Lengths DEF TypeOK, RxTypeOK, RxRecord, RxRegisters, RxStart
<1>2. Heard = rx.counter
  BY <1>1 DEF Heard
<1>3. UNCHANGED <<rx_data, rx_data_en>>
  BY DEF RxStart
<1>4. /\ rx' \in RxRecord
      /\ rx'.r1 = extern_uart_tx /\ rx'.r2 = rx.r1
      /\ rx'.bit_number = 0
      /\ \/ rx'.state = "RX_START" /\ rx'.counter = rx.counter + 1
            /\ rx.counter # HALF_DELAY_WAIT
         \/ rx'.state = "RX_READ" /\ rx'.counter = 0 /\ rx.counter = HALF_DELAY_WAIT
  <2>1. CASE rx.counter = HALF_DELAY_WAIT
    <3> DEFINE regs == [rx EXCEPT !.state = "RX_READ", !.counter = 0]
    <3>1. regs \in RxRecord
      <4>1. 0 \in 0 .. DELAY_WAIT
        BY Lengths
      <4> QED BY <1>1, <4>1 DEF RxRecord
    <3>2. regs.state = "RX_READ" /\ regs.counter = 0 /\ regs.bit_number = 0
      BY <1>1 DEF RxRecord
    <3>3. Registers(regs)
      BY <2>1 DEF RxStart
    <3> HIDE DEF regs
    <3> QED BY <2>1, <3>1, <3>2, <3>3, RegistersStep
  <2>2. CASE rx.counter # HALF_DELAY_WAIT
    <3>1. Counted \in RxRecord /\ Counted.state = "RX_START"
          /\ Counted.counter = rx.counter + 1 /\ Counted.bit_number = 0
      BY <1>1, <2>2, Lengths DEF RxRecord, Counted
    <3>2. Registers(Counted)
      BY <2>2 DEF RxStart
    <3> QED BY <2>2, <3>1, <3>2, RegistersStep
  <2> QED BY <2>1, <2>2
<1>5. Heard' = Heard + 1
  <2>1. CASE rx'.state = "RX_START"
    BY <1>2, <1>4, <2>1 DEF Heard
  <2>2. CASE rx'.state = "RX_READ"
    <3>1. Heard' = HALF_DELAY_WAIT + 1 + BitTime * 0 + 0
      BY <1>4, <2>2 DEF Heard
    <3> QED BY <1>2, <1>4, <2>2, <3>1, Lengths
  <2> QED BY <1>4, <2>1, <2>2
<1>6. RxRegisters'
  BY <1>1, <1>3, <1>4, Lengths DEF RxRegisters
<1>7. RxTypeOK'
  BY <1>3, <1>4 DEF RxTypeOK, RxRecord, TypeOK
<1>8. \A byte : Sampled(byte, rx_data', rx'.bit_number)
  BY <1>4 DEF Sampled
<1> QED BY <1>3, <1>4, <1>5, <1>6, <1>7, <1>8 DEF RxGoesOn

\* The bit sampled halfway through bit n + 1 is that bit, and becomes the last
\* of those received.
LEMMA SampleStep ==
    ASSUME TypeOK, NEW byte, NEW n \in 0 .. 7,
           NEW p \in Int, p = HALF_DELAY_WAIT + BitTime * (n + 1),
           Seen(byte, p + 2 - 2 * MaxDrift, p + 2 + 2 * MaxDrift, rx.r2),
           Sampled(byte, rx_data, n),
           rx_data' = Append(Tail(rx_data), rx.r2)
    PROVE  Sampled(byte, rx_data', n + 1)
<1>1. rx_data \in [1 .. 8 -> {0, 1}] /\ rx.r2 \in {0, 1}
  BY DEF TypeOK, RxTypeOK
<1>2. /\ \A i \in 1 .. 7 : rx_data'[i] = rx_data[i + 1]
      /\ rx_data'[8] = rx.r2
  <2>1. ShiftedIn(rx_data', rx_data, rx.r2)
    BY <1>1, ShiftIn
  <2> QED BY <2>1 DEF ShiftedIn
<1>3. rx.r2 = byte[n + 1]
  <2> DEFINE j == n + 1
             t == BitTime * j
             u == BitTime * (j + 1)
  <2>1. j \in 1 .. 8 /\ p = HALF_DELAY_WAIT + t
    OBVIOUS
  <2>3. t \in Nat /\ u = t + BitTime
    <3>1. j \in Nat
      BY <2>1
    <3> HIDE DEF j
    <3> QED BY Zenon, <3>1, NextBit
  <2>2. t < p + 2 - 2 * MaxDrift /\ p + 2 + 2 * MaxDrift <= u
    <3> HIDE DEF t, u, j
    <3> QED BY <2>1, <2>3, Lengths
  <2> QED BY <2>1, <2>2 DEF Seen
<1>4. ASSUME NEW i \in 1 .. n + 1
      PROVE  rx_data'[8 - (n + 1) + i] = byte[i]
  <2>1. CASE i = n + 1
    <3>1. 8 - (n + 1) + i = 8
      BY <2>1
    <3> QED BY <1>2, <1>3, <2>1, <3>1
  <2>2. CASE i # n + 1
    <3> DEFINE k == 8 - (n + 1) + i
    <3>1. k \in 1 .. 7 /\ k + 1 = 8 - n + i /\ i \in 1 .. n
      BY <2>2
    <3>2. rx_data'[k] = rx_data[8 - n + i]
      <4> HIDE DEF k
      <4> QED BY <1>2, <3>1
    <3>3. rx_data[8 - n + i] = byte[i]
      BY <3>1 DEF Sampled
    <3> QED BY <3>2, <3>3
  <2> QED BY <2>1, <2>2
<1> QED BY <1>4 DEF Sampled

LEMMA RxReadStep ==
    ASSUME TypeOK, RxRegisters, RxRead
    PROVE  RxGoesOn
<1> DEFINE n == rx.bit_number
           t == BitTime * n
<1>1. rx \in RxRecord /\ rx.state = "RX_READ" /\ n \in 0 .. 8
      /\ rx.counter \in 0 .. DELAY_WAIT /\ rx_data_en = 0
      /\ rx_data \in [1 .. 8 -> {0, 1}] /\ rx.r2 \in {0, 1}
  BY DEF TypeOK, RxTypeOK, RxRecord, RxRegisters, RxRead
<1>2. t \in Nat /\ BitTime * (n + 1) = t + BitTime
  BY <1>1, NextBit
<1>3. Heard = HALF_DELAY_WAIT + 1 + t + rx.counter
  BY <1>1 DEF Heard
<1>4. 0 \in 0 .. DELAY_WAIT
  BY Lengths
<1>5. CASE rx.counter # DELAY_WAIT
  <2>1. Counted \in RxRecord /\ Counted.state = "RX_READ"
        /\ Counted.counter = rx.counter + 1 /\ Counted.bit_number = n
    <3>1. rx.counter + 1 \in 0 .. DELAY_WAIT
      BY <1>1, <1>5, Lengths
    <3>2. rx \in RxRecord /\ rx.state = "RX_READ"
      BY <1>1
    <3> QED BY <3>1, <3>2 DEF RxRecord, Counted
  <2>2. Registers(Counted) /\ UNCHANGED <<rx_data, rx_data_en>>
    BY <1>1, <1>5 DEF RxRead
  <2>3. /\ rx' \in RxRecord
        /\ rx'.r1 = extern_uart_tx /\ rx'.r2 = rx.r1
        /\ rx'.state = "RX_READ" /\ rx'.counter = rx.counter + 1 /\ rx'.bit_number = n
    BY <2>1, <2>2, RegistersStep
  <2>4. Heard' = Heard + 1
    <3>1. Heard' = HALF_DELAY_WAIT + 1 + t + (rx.counter + 1)
      BY <2>3 DEF Heard
    <3> HIDE DEF t, n
    <3> QED BY <1>1, <1>2, <1>3, <3>1, Lengths
  <2>5. RxRegisters' /\ RxTypeOK'
    BY <1>1, <2>2, <2>3 DEF RxRegisters, RxTypeOK, RxRecord
  <2> QED BY <2>2, <2>3, <2>4, <2>5 DEF RxGoesOn
<1>6. CASE rx.counter = DELAY_WAIT /\ n # 8
  <2> DEFINE regs == [rx EXCEPT !.bit_number = @ + 1, !.counter = 0]
  <2>1. regs \in RxRecord
    <3>1. rx.bit_number + 1 \in 0 .. 8
      BY <1>1, <1>6
    <3>2. rx \in RxRecord
      BY <1>1
    <3> QED BY <3>1, <3>2, <1>4 DEF RxRecord
  <2>2. regs.state = "RX_READ" /\ regs.counter = 0 /\ regs.bit_number = n + 1
    BY <1>1 DEF RxRecord
  <2>3. Registers(regs) /\ UNCHANGED rx_data_en /\ rx_data' = Append(Tail(rx_data), rx.r2)
    BY <1>6 DEF RxRead
  <2>4. /\ rx' \in RxRecord
        /\ rx'.r1 = extern_uart_tx /\ rx'.r2 = rx.r1
        /\ rx'.state = "RX_READ" /\ rx'.counter = 0 /\ rx'.bit_number = n + 1
    <3> HIDE DEF regs
    <3> QED BY <2>1, <2>2, <2>3, RegistersStep
  <2>5. Heard' = Heard + 1
    <3>1. Heard' = HALF_DELAY_WAIT + 1 + BitTime * (n + 1) + 0
      BY <2>4 DEF Heard
    <3> HIDE DEF t, n
    <3> QED BY <1>1, <1>2, <1>3, <1>6, <3>1, Lengths
  <2>6. rx_data' \in [1 .. 8 -> {0, 1}]
    BY Zenon, <1>1, <2>3, ShiftIn
  <2>7. RxRegisters' /\ RxTypeOK'
    BY <1>1, <2>3, <2>4, <2>6 DEF RxRegisters, RxTypeOK, RxRecord
  <2>8. ASSUME NEW byte,
               Seen(byte, Heard + 2 - 2 * MaxDrift, Heard + 2 + 2 * MaxDrift, rx.r2),
               Sampled(byte, rx_data, rx.bit_number)
        PROVE  Sampled(byte, rx_data', rx'.bit_number)
    <3>1. n \in 0 .. 7
      BY <1>1, <1>6
    <3>2. Heard \in Int /\ Heard = HALF_DELAY_WAIT + BitTime * (n + 1)
      <4> HIDE DEF t, n
      <4> QED BY <1>1, <1>2, <1>3, <1>6, Lengths
    <3>3. Sampled(byte, rx_data', n + 1)
      BY <2>3, <2>8, <3>1, <3>2, SampleStep
    <3> QED BY <2>4, <3>3
  <2> QED BY <2>3, <2>4, <2>5, <2>7, <2>8 DEF RxGoesOn
<1>7. CASE rx.counter = DELAY_WAIT /\ n = 8
  <2> DEFINE regs == [rx EXCEPT !.state = "RX_STOP"]
  <2>1. regs \in RxRecord /\ regs.state = "RX_STOP" /\ regs.counter = DELAY_WAIT
        /\ regs.bit_number = 8
    BY <1>1, <1>7 DEF RxRecord
  <2>2. Registers(regs) /\ UNCHANGED <<rx_data, rx_data_en>>
    BY <1>7 DEF RxRead
  <2>3. /\ rx' \in RxRecord
        /\ rx'.r1 = extern_uart_tx /\ rx'.r2 = rx.r1
        /\ rx'.state = "RX_STOP" /\ rx'.counter = DELAY_WAIT /\ rx'.bit_number = 8
    <3> HIDE DEF regs
    <3> QED BY <2>1, <2>2, RegistersStep
  <2>4. Heard' = Heard + 1
    <3>1. Heard' = HALF_DELAY_WAIT + 1 + BitTime * 9
      BY <2>3 DEF Heard
    <3>2. n + 1 = 9
      BY <1>7
    <3> HIDE DEF t, n
    <3> QED BY <1>1, <1>2, <1>3, <1>7, <3>1, <3>2, Lengths
  <2>5. RxRegisters' /\ RxTypeOK'
    BY <1>1, <2>2, <2>3 DEF RxRegisters, RxTypeOK, RxRecord
  <2>6. rx'.bit_number = rx.bit_number
    BY <1>7, <2>3
  <2> QED BY <2>2, <2>3, <2>4, <2>5, <2>6 DEF RxGoesOn
<1> QED BY <1>5, <1>6, <1>7

\* The line is idle.
LEMMA RxIdleStep ==
    ASSUME TypeOK, RxRegisters, RxIdle
    PROVE  /\ rx'.state = "RX_IDLE" /\ rx.r2 = 1 /\ rx_data_en' = 1
           /\ rx'.r1 = extern_uart_tx /\ rx'.r2 = rx.r1
           /\ RxTypeOK' /\ RxRegisters'
<1>1. rx \in RxRecord
  BY DEF TypeOK, RxTypeOK, RxRecord
<1>2. Registers(rx) /\ rx_data_en' = 1 /\ UNCHANGED rx_data /\ rx.state = "RX_IDLE" /\ rx.r2 = 1
  BY DEF RxIdle
<1>3. /\ rx' \in RxRecord
      /\ rx'.r1 = extern_uart_tx /\ rx'.r2 = rx.r1 /\ rx'.state = "RX_IDLE"
  BY <1>1, <1>2, RegistersStep
<1> QED BY <1>2, <1>3 DEF RxTypeOK, RxRecord, RxRegisters, TypeOK

\* The start bit is seen.
LEMMA RxBeginStep ==
    ASSUME TypeOK, RxRegisters, RxBegin
    PROVE  /\ rx'.state # "RX_IDLE" /\ rx.r2 = 0 /\ rx_data_en' = 0
           /\ rx'.r1 = extern_uart_tx /\ rx'.r2 = rx.r1
           /\ Heard' = 0
           /\ \A byte : Sampled(byte, rx_data', rx'.bit_number)
           /\ RxTypeOK' /\ RxRegisters'
<1> DEFINE regs == [rx EXCEPT !.state = "RX_START", !.counter = 0, !.bit_number = 0]
<1>1. rx \in RxRecord
  BY DEF TypeOK, RxTypeOK, RxRecord
<1>2. regs \in RxRecord
  <2>1. 0 \in 0 .. DELAY_WAIT /\ 0 \in 0 .. 8
    BY Lengths
  <2> QED BY <1>1, <2>1 DEF RxRecord
<1>3. regs.state = "RX_START" /\ regs.counter = 0 /\ regs.bit_number = 0
  BY <1>1 DEF RxRecord
<1>4. Registers(regs) /\ rx_data_en' = 0 /\ rx_data' = [i \in 1 .. 8 |-> 0] /\ rx.r2 = 0
  BY DEF RxBegin
<1>5. /\ rx' \in RxRecord
      /\ rx'.r1 = extern_uart_tx /\ rx'.r2 = rx.r1
      /\ rx'.state = "RX_START" /\ rx'.counter = 0 /\ rx'.bit_number = 0
  <2> HIDE DEF regs
  <2> QED BY <1>2, <1>3, <1>4, RegistersStep
<1>6. Heard' = 0 /\ \A byte : Sampled(byte, rx_data', rx'.bit_number)
  BY <1>5 DEF Heard, Sampled
<1>7. rx_data' \in [1 .. 8 -> {0, 1}]
  BY <1>4
<1> QED BY <1>4, <1>5, <1>6, <1>7, Lengths DEF RxTypeOK, RxRecord, RxRegisters

\* The byte is reported, in the middle of the stop bit.
LEMMA RxStopStep ==
    ASSUME TypeOK, RxRegisters, RxStop
    PROVE  /\ rx'.state = "RX_IDLE" /\ rx_data_en = 0 /\ rx_data_en' = 1
           /\ rx'.r1 = extern_uart_tx /\ rx'.r2 = rx.r1
           /\ rx.state = "RX_STOP" /\ rx.bit_number = 8
           /\ UNCHANGED rx_data
           /\ RxTypeOK' /\ RxRegisters'
<1> DEFINE regs == [rx EXCEPT !.state = "RX_IDLE"]
<1>1. rx \in RxRecord /\ rx.state = "RX_STOP" /\ rx.counter = DELAY_WAIT /\ rx.bit_number = 8
      /\ rx_data_en = 0
  BY DEF TypeOK, RxTypeOK, RxRecord, RxRegisters, RxStop
<1>2. regs \in RxRecord /\ regs.state = "RX_IDLE"
  BY <1>1 DEF RxRecord
<1>3. Registers(regs) /\ rx_data_en' = 1 /\ UNCHANGED rx_data
  BY <1>1 DEF RxStop
<1>4. rx' \in RxRecord /\ rx'.r1 = extern_uart_tx /\ rx'.r2 = rx.r1 /\ rx'.state = "RX_IDLE"
  <2> HIDE DEF regs
  <2> QED BY <1>2, <1>3, RegistersStep
<1> QED BY <1>1, <1>3, <1>4 DEF RxTypeOK, RxRecord, RxRegisters, TypeOK
\* What a clock of the receiver does, one of four.
RxWaits ==
    /\ rx.state = "RX_IDLE" /\ rx.r2 = 1
    /\ rx'.state = "RX_IDLE" /\ rx_data_en' = 1
    /\ UNCHANGED rx_data

RxBegins ==
    /\ rx.state = "RX_IDLE" /\ rx.r2 = 0
    /\ rx'.state # "RX_IDLE" /\ rx_data_en' = 0
    /\ Heard' = 0
    /\ \A byte : Sampled(byte, rx_data', rx'.bit_number)

RxReports ==
    /\ rx.state = "RX_STOP" /\ rx.bit_number = 8 /\ rx_data_en = 0
    /\ rx'.state = "RX_IDLE" /\ rx_data_en' = 1
    /\ UNCHANGED rx_data

LEMMA RxStep ==
    ASSUME TypeOK, RxRegisters, RxClock
    PROVE  /\ rx'.r1 = extern_uart_tx /\ rx'.r2 = rx.r1
           /\ RxTypeOK' /\ RxRegisters'
           /\ \/ RxWaits
              \/ RxBegins
              \/ rx.state # "RX_IDLE" /\ RxGoesOn
              \/ RxReports
<1>1. CASE RxIdle
  BY <1>1, RxIdleStep DEF RxIdle, RxWaits
<1>2. CASE RxBegin
  BY <1>2, RxBeginStep DEF RxBegin, RxBegins
<1>3. CASE RxStart
  BY <1>3, RxStartStep DEF RxStart, RxGoesOn
<1>4. CASE RxRead
  BY <1>4, RxReadStep DEF RxRead, RxGoesOn
<1>5. CASE RxStop
  BY <1>5, RxStopStep DEF RxStop, RxReports
<1> QED BY <1>1, <1>2, <1>3, <1>4, <1>5 DEF RxClock

-----------------------------------------------------------------------------
(* The types.                                                              *)

TxRecord == [state : {"TX_IDLE", "TX_START", "TX_WRITE", "TX_STOP"},
             counter : 0 .. DELAY_WAIT, bit_number : 0 .. 7, data : UartByte]

LEMMA HoldBitType ==
    ASSUME NEW next \in TxRecord, tx \in TxRecord, HoldBit(next)
    PROVE  tx' \in TxRecord
<1>1. CASE tx.counter = DELAY_WAIT
  <2>1. 0 \in 0 .. DELAY_WAIT
    BY Lengths
  <2>2. tx' = [next EXCEPT !.counter = 0]
    BY <1>1 DEF HoldBit
  <2> QED BY <2>1, <2>2 DEF TxRecord
<1>2. CASE tx.counter # DELAY_WAIT
  <2>1. tx.counter + 1 \in 0 .. DELAY_WAIT
    BY <1>2, Lengths DEF TxRecord
  <2>2. tx' = [tx EXCEPT !.counter = @ + 1]
    BY <1>2 DEF HoldBit
  <2> QED BY <2>1, <2>2 DEF TxRecord
<1> QED BY <1>1, <1>2

LEMMA TxTypeStep ==
    ASSUME TypeOK, TxEdge
    PROVE  TxTypeOK' /\ tx_data' \in UartByte /\ tx_data_en' \in Bit
<1>1. tx \in TxRecord /\ tx_data \in UartByte /\ data_sent \in Bit /\ extern_uart_tx \in Bit
  BY DEF TypeOK, TxTypeOK, TxRecord
<1>2. tx_data' \in UartByte /\ tx_data_en' \in Bit
  BY LinkAssumption DEF TypeOK, Bit, TxEdge, Client
<1> SUFFICES tx' \in TxRecord /\ data_sent' \in Bit /\ extern_uart_tx' \in Bit
  BY <1>2 DEF TxTypeOK, TxRecord
<1>3. 0 \in 0 .. DELAY_WAIT /\ 0 \in 0 .. 7
  BY Lengths
<1>4. CASE TxIdle
  BY <1>1, <1>4 DEF TxIdle, Bit
<1>5. CASE TxAccept
  BY <1>1, <1>3, <1>5 DEF TxAccept, TxRecord
<1>6. CASE TxStart
  <2> DEFINE next == [tx EXCEPT !.state = "TX_WRITE"]
  <2>1. next \in TxRecord
    BY <1>1 DEF TxRecord
  <2>2. HoldBit(next) /\ data_sent' = data_sent /\ extern_uart_tx' = 0
    BY <1>6 DEF TxStart
  <2> HIDE DEF next
  <2> QED BY <1>1, <2>1, <2>2, HoldBitType DEF Bit
<1>7. CASE TxWrite
  <2> DEFINE next == IF tx.bit_number = 7 THEN [tx EXCEPT !.state = "TX_STOP"]
                     ELSE [tx EXCEPT !.bit_number = @ + 1]
  <2>1. tx.bit_number \in 0 .. 7 /\ tx.bit_number + 1 \in 1 .. 8 /\ tx.data \in UartByte
    BY <1>1 DEF TxRecord
  <2>2. tx.data[tx.bit_number + 1] \in Bit
    BY <2>1 DEF UartByte
  <2>3. next \in TxRecord
    <3>1. CASE tx.bit_number = 7
      BY <1>1, <3>1 DEF TxRecord
    <3>2. CASE tx.bit_number # 7
      <4>1. tx.bit_number + 1 \in 0 .. 7
        BY <2>1, <3>2
      <4> QED BY <1>1, <3>2, <4>1 DEF TxRecord
    <3> QED BY <3>1, <3>2
  <2>4. HoldBit(next) /\ data_sent' = data_sent
    BY <1>7 DEF TxWrite
  <2>5. extern_uart_tx' \in Bit
    BY <1>7, <2>2 DEF TxWrite
  <2> HIDE DEF next
  <2> QED BY <1>1, <2>3, <2>4, <2>5, HoldBitType
<1>8. CASE TxStop
  <2>1. CASE tx.counter # DELAY_WAIT
    <3>1. tx.counter + 1 \in 0 .. DELAY_WAIT
      BY <1>1, <2>1, Lengths DEF TxRecord
    <3>2. tx' = [tx EXCEPT !.counter = @ + 1] /\ data_sent' = data_sent /\ extern_uart_tx' = 1
      BY <1>8, <2>1 DEF TxStop
    <3> QED BY <1>1, <3>1, <3>2 DEF TxRecord, Bit
  <2>2. CASE tx.counter = DELAY_WAIT /\ tx_data_en = 0
    BY <1>1, <1>3, <1>8, <2>2 DEF TxStop, TxRecord, Bit
  <2>3. CASE tx.counter = DELAY_WAIT /\ tx_data_en # 0
    BY <1>1, <1>8, <2>3 DEF TxStop, Bit
  <2> QED BY <2>1, <2>2, <2>3
<1> QED BY <1>4, <1>5, <1>6, <1>7, <1>8 DEF TxEdge, TxClock

\* The bytes on the line.
LEMMA OnLineType ==
    ASSUME TypeOK, TxTypeOK', OnLine
    PROVE  on_line' \in Seq(UartByte)
<1>1. tx'.data \in UartByte
  BY DEF TxTypeOK
<1>2. on_line \in Seq(UartByte)
  BY DEF TypeOK
<1> DEFINE left == IF Reported /\ on_line # <<>> THEN Tail(on_line) ELSE on_line
<1>3. left \in Seq(UartByte)
  BY <1>2
<1>4. on_line' \in {left, Append(left, tx'.data)}
  BY DEF OnLine
<1> HIDE DEF left
<1> QED BY <1>1, <1>3, <1>4

-----------------------------------------------------------------------------
(* A step in which the transmitter takes no byte: its position does not go *)
(* back, and the receiver's count follows it within the drift.             *)

\* The end of the stop bit: from here on Position is a lower bound.
FullStop == BitTime * 9 + DELAY_WAIT

\* The transmitter's side of such a step.
TxKeepsOn ==
    /\ tx'.data = tx.data
    /\ TxHandshake'
    /\ LineShown'
    /\ Position' >= Position
    /\ Elapsed = Position - drift /\ drift \in -MaxDrift .. MaxDrift
    /\ on_line' = IF Reported /\ on_line # <<>> THEN Tail(on_line) ELSE on_line

\* The receiver counts the clock, or has none.
RxCounts ==
    /\ RxEdge
    /\ Elapsed' \in {Elapsed, Elapsed + 1}
    /\ Position < FullStop => Elapsed' = Elapsed + 1

RxRests ==
    /\ UNCHANGED <<rx, rx_data, rx_data_en, high>>
    /\ Elapsed' \in {Elapsed - 1, Elapsed}
    /\ Position < FullStop => Elapsed' = Elapsed

\* Positions and counts are numbers.
LEMMA CountsType ==
    ASSUME TypeOK
    PROVE  /\ Position \in Nat /\ drift \in Int /\ Elapsed \in Int
           /\ Elapsed = Position - drift
           /\ Position <= Elapsed + MaxDrift /\ Elapsed <= Position + MaxDrift
<1>1. Position \in Nat
  BY PositionType
<1>2. drift \in -MaxDrift .. MaxDrift
  BY DEF TypeOK
<1>3. drift \in Int /\ -MaxDrift <= drift /\ drift <= MaxDrift
  BY <1>2, Lengths
<1> QED BY <1>1, <1>3, Lengths DEF Elapsed

LEMMA NextCountsType ==
    ASSUME TypeOK'
    PROVE  /\ Position' \in Nat /\ drift' \in Int /\ Elapsed' \in Int
           /\ Elapsed' = Position' - drift'
<1>1. TypeOK'
  OBVIOUS
<1>2. (Position \in Nat)'
  BY <1>1, PositionType, PTL
<1>3. drift' \in -MaxDrift .. MaxDrift
  BY DEF TypeOK
<1> QED BY <1>2, <1>3, Lengths DEF Elapsed

LEMMA KeepsOn ==
    ASSUME TypeOK, TypeOK', InStep, Next, ~Accepted
    PROVE  TxKeepsOn /\ (RxCounts \/ RxRests)
<1>1. /\ Position \in Nat /\ Position' \in Nat
      /\ drift \in Int /\ drift' \in Int /\ drift \in -MaxDrift .. MaxDrift
      /\ Elapsed = Position - drift /\ Elapsed' = Position' - drift'
      /\ Elapsed \in Int
  <2>1. drift \in -MaxDrift .. MaxDrift
    BY DEF TypeOK
  <2> QED BY <2>1, CountsType, NextCountsType
<1>2. TxHandshake /\ LineShown /\ FullStop \in Nat
  BY NextBit, Lengths DEF InStep, FullStop
<1>3. on_line' = IF Reported /\ on_line # <<>> THEN Tail(on_line) ELSE on_line
  BY DEF Next, BothEdges, TxOnly, RxOnly, OnLine
<1>4. CASE BothEdges
  <2>1. TxGoesOn /\ drift' = drift /\ RxEdge
    BY <1>2, <1>4, TxStep DEF BothEdges, Drifted
  <2>2. tx'.data = tx.data /\ TxHandshake' /\ LineShown'
    BY <2>1 DEF TxGoesOn
  <2>3. Position' \in {Position, Position + 1} /\ (Position < FullStop => Position' = Position + 1)
    BY <2>1 DEF TxGoesOn, FullStop
  <2>4. /\ Position' >= Position
        /\ Elapsed' \in {Elapsed, Elapsed + 1}
        /\ Position < FullStop => Elapsed' = Elapsed + 1
    <3>1. Position' = Position \/ Position' = Position + 1
      BY <2>3
    <3>2. Position' >= Position
      BY <1>1, <3>1
    <3>3. CASE Position' = Position
      BY <1>1, <2>1, <2>3, <3>2, <3>3
    <3>4. CASE Position' = Position + 1
      BY <1>1, <2>1, <3>2, <3>4
    <3> QED BY <3>1, <3>3, <3>4
  <2> QED BY Zenon, <1>1, <1>3, <2>1, <2>2, <2>4 DEF TxKeepsOn, RxCounts
<1>5. CASE TxOnly
  <2>1. TxGoesOn /\ drift' = drift + 1 /\ UNCHANGED <<rx, rx_data, rx_data_en, high>>
    BY <1>2, <1>5, TxStep DEF TxOnly, Drifted
  <2>2. tx'.data = tx.data /\ TxHandshake' /\ LineShown'
    BY <2>1 DEF TxGoesOn
  <2>3. Position' \in {Position, Position + 1} /\ (Position < FullStop => Position' = Position + 1)
    BY <2>1 DEF TxGoesOn, FullStop
  <2>4. /\ Position' >= Position
        /\ Elapsed' \in {Elapsed - 1, Elapsed}
        /\ Position < FullStop => Elapsed' = Elapsed
    <3>1. Position' = Position \/ Position' = Position + 1
      BY <2>3
    <3>2. Position' >= Position
      BY <1>1, <3>1
    <3>3. CASE Position' = Position
      BY <1>1, <2>1, <2>3, <3>2, <3>3
    <3>4. CASE Position' = Position + 1
      BY <1>1, <2>1, <3>2, <3>4
    <3> QED BY <3>1, <3>3, <3>4
  <2> QED BY Zenon, <1>1, <1>3, <2>1, <2>2, <2>4 DEF TxKeepsOn, RxRests
<1>6. CASE RxOnly
  <2>1. RxEdge /\ UNCHANGED <<tx_data, tx_data_en, txVars>> /\ drift' = drift - 1
    BY <1>6 DEF RxOnly
  <2>2. Position' = Position /\ TxHandshake' /\ LineShown' /\ tx' = tx
    BY <1>2, <2>1 DEF Position, TxHandshake, LineShown, txVars
  <2>3. /\ Position' >= Position
        /\ Elapsed' \in {Elapsed, Elapsed + 1}
        /\ Position < FullStop => Elapsed' = Elapsed + 1
    BY <1>1, <2>1, <2>2
  <2> QED BY <1>1, <1>3, <2>1, <2>2, <2>3 DEF TxKeepsOn, RxCounts
<1> QED BY <1>4, <1>5, <1>6 DEF Next

\* The receiver rests: only the counts can change, and only after FullStop.
LEMMA RestStep ==
    ASSUME TypeOK, TypeOK', InStep, TxKeepsOn, RxRests
    PROVE  InStep'
<1>1. /\ Position \in Nat /\ Elapsed \in Int /\ Position <= Elapsed + MaxDrift
      /\ Elapsed' \in Int /\ Position' \in Nat
      /\ Elapsed' <= Elapsed /\ Position' >= Position
      /\ Position < FullStop => Elapsed' = Elapsed
  <2>1. Position' \in Nat
    BY NextCountsType
  <2> QED BY <2>1, CountsType DEF RxRests, TxKeepsOn
<1>2. FullStop \in Nat /\ 3 + 2 * MaxDrift < FullStop /\ BitTime * 9 \in Nat
  BY NextBit, Lengths DEF FullStop
<1>3. UNCHANGED <<rx, rx_data, rx_data_en, high>> /\ ~Reported /\ on_line' = on_line
  BY DEF RxRests, TxKeepsOn, Reported, TypeOK, RxTypeOK
<1>4. TxHandshake' /\ LineShown' /\ tx'.data = tx.data
  BY DEF TxKeepsOn
<1>5. RxRegisters'
  BY <1>3 DEF InStep, RxRegisters
<1>6. Heard' = Heard
  BY <1>3 DEF Heard
<1>7. ASSUME Quiet
      PROVE  Quiet'
  <2> DEFINE k == HALF_DELAY_WAIT + BitTime * 9 + 6 + MaxDrift
  <2>1. high \in Int /\ k \in Int
    BY <1>2, Lengths DEF TypeOK
  <2>2. high = MinHigh \/ high >= Elapsed - k
    BY <1>7 DEF Quiet
  <2>3. Position' > BitTime * 9
    BY <1>1, <1>2, <1>7 DEF Quiet
  <2>4. high' = MinHigh \/ high' >= Elapsed' - k
    <3> HIDE DEF k
    <3>1. high' = high
      BY <1>3
    <3> DEFINE e == Elapsed
               e1 == Elapsed'
    <3>2. e \in Int /\ e1 \in Int /\ e1 <= e /\ (high = MinHigh \/ high >= e - k)
      BY <1>1, <2>2
    <3> HIDE DEF e, e1
    <3>3. high = MinHigh \/ high >= e1 - k
      BY <2>1, <3>2
    <3> QED BY <3>1, <3>3 DEF e1
  <2> QED BY <1>3, <1>7, <2>3, <2>4 DEF Quiet
<1>8. ASSUME Awaited
      PROVE  Awaited'
  <2>1. Elapsed' = Elapsed
    BY <1>1, <1>2, <1>8, Lengths DEF Awaited
  <2> QED BY <1>3, <1>4, <1>8, <2>1 DEF Awaited
<1>9. ASSUME Receiving, rx.state # "RX_IDLE"
      PROVE  Receiving'
  <2>1. Heard \in Nat
    BY <1>9, HeardType DEF TypeOK
  <2>2. /\ Elapsed' <= Heard' + 4 + MaxDrift
        /\ Position' < FullStop => Heard' + 4 - MaxDrift <= Elapsed'
    BY <1>1, <1>2, <1>6, <1>9, <2>1, Lengths DEF Receiving, FullStop
  <2> QED BY <1>3, <1>4, <1>6, <1>9, <2>2 DEF Receiving, FullStop
<1> QED BY <1>3, <1>4, <1>5, <1>7, <1>8, <1>9 DEF InStep
\* The line at the moment the receiver looks at it.
LEMMA LineSeen ==
    ASSUME TypeOK, LineShown, NEW lo \in Int, NEW hi \in Int,
           lo <= Elapsed - MaxDrift, Elapsed + MaxDrift <= hi
    PROVE  Seen(tx.data, lo, hi, extern_uart_tx)
<1>1. /\ Position \in Int /\ Elapsed \in Int
      /\ Position <= Elapsed + MaxDrift /\ Elapsed <= Position + MaxDrift
  BY CountsType
<1>2. lo <= Position /\ Position <= hi
  BY <1>1, Lengths
<1> QED BY <1>1, <1>2, SeenWider DEF LineShown

\* The clocks the output has been up.
LEMMA HighStep ==
    ASSUME TypeOK, RxEdge
    PROVE  /\ high \in Nat /\ high <= MinHigh
           /\ rx_data_en = 1 /\ rx_data_en' = 1
              => high' = (IF high < MinHigh THEN high + 1 ELSE high)
           /\ rx_data_en = 0 \/ rx_data_en' = 0 => high' = 0
BY Lengths DEF TypeOK, RxTypeOK, RxEdge

\* No byte is on the line, and none comes.
LEMMA QuietStep ==
    ASSUME TypeOK, TypeOK', InStep, TxKeepsOn, RxCounts, on_line = <<>>
    PROVE  InStep'
<1> DEFINE e == Elapsed
           e1 == Elapsed'
           k == HALF_DELAY_WAIT + BitTime * 9 + 6 + MaxDrift
<1>1. Quiet /\ RxRegisters /\ LineShown /\ RxClock
  BY DEF InStep, RxCounts, RxEdge
<1>2. RxWaits /\ rx'.r1 = extern_uart_tx /\ rx'.r2 = rx.r1 /\ RxRegisters'
  BY <1>1, RxStep DEF Quiet, RxWaits, RxBegins, RxReports
<1>3. BitTime * 9 \in Nat /\ k \in Int /\ Position \in Nat /\ Position' \in Nat
  BY NextBit, Lengths, CountsType, NextCountsType
<1>4. extern_uart_tx = 1
  BY <1>1, <1>3 DEF Quiet, LineShown, Seen
<1>5. Position' > BitTime * 9
  <2> DEFINE p == Position
             p1 == Position'
             b == BitTime * 9
  <2>1. p \in Nat /\ p1 \in Nat /\ b \in Nat /\ p > b /\ p1 >= p
    BY <1>1, <1>3 DEF Quiet, TxKeepsOn
  <2> HIDE DEF p, p1, b
  <2>2. p1 > b
    BY <2>1
  <2> QED BY <2>2 DEF p1, b
<1>6. high' = MinHigh \/ high' >= Elapsed' - k
  <2>1. /\ e \in Int /\ e1 \in Int /\ e1 \in {e, e + 1}
        /\ high = MinHigh \/ high >= e - k
        /\ high \in Nat /\ high <= MinHigh /\ MinHigh \in Nat
        /\ high' = IF high < MinHigh THEN high + 1 ELSE high
    <3>1. high = MinHigh \/ high >= Elapsed - k
      BY <1>1 DEF Quiet
    <3>2. rx_data_en = 1 /\ rx_data_en' = 1
      BY <1>1, <1>2 DEF RxRegisters, RxWaits
    <3> QED BY <3>1, <3>2, HighStep, CountsType, NextCountsType, Lengths DEF RxCounts
  <2> HIDE DEF e, e1, k
  <2>2. high' = MinHigh \/ high' >= e1 - k
    BY <1>3, <2>1
  <2> QED BY <2>2 DEF e1
<1>7. Quiet'
  BY <1>1, <1>2, <1>4, <1>5, <1>6 DEF Quiet, RxWaits
<1>8. on_line' = <<>>
  BY DEF TxKeepsOn
<1> QED BY <1>2, <1>7, <1>8 DEF InStep, TxKeepsOn
\* A byte has been taken, and the receiver has not seen it: it sees the start
\* bit, or what it has seen so far may still be the line before it.
LEMMA AwaitedStep ==
    ASSUME TypeOK, TypeOK', InStep, TxKeepsOn, RxCounts,
           on_line # <<>>, rx.state = "RX_IDLE"
    PROVE  InStep'
<1> DEFINE e == Elapsed
           e1 == Elapsed'
<1>1. /\ Awaited /\ RxRegisters /\ LineShown /\ RxClock /\ on_line = <<tx.data>>
      /\ rx_data_en = 1
  BY DEF InStep, RxCounts, RxEdge, RxRegisters
<1>2. /\ rx'.r1 = extern_uart_tx /\ rx'.r2 = rx.r1 /\ RxRegisters'
      /\ RxWaits \/ RxBegins
  BY <1>1, RxStep DEF RxReports
<1>3. e \in Nat /\ e <= 3 + MaxDrift /\ e1 = e + 1
  <2>1. Elapsed \in 0 .. 3 + MaxDrift
    BY <1>1 DEF Awaited
  <2>2. Position < FullStop
    BY <2>1, CountsType, NextBit, Lengths DEF FullStop
  <2> QED BY <2>1, <2>2, Lengths DEF RxCounts
<1>4. on_line' = <<tx'.data>> /\ tx'.data = tx.data
  BY <1>1 DEF TxKeepsOn, Reported
<1>5. CASE RxWaits
  <2>1. e <= 2 + MaxDrift
    <3>1. CASE e = 3 + MaxDrift
      <4> DEFINE lo == e - 2 - MaxDrift
                 hi == e - 2 + MaxDrift
      <4>1. 0 < lo /\ hi <= BitTime
        <5> HIDE DEF e
        <5> QED BY <3>1, Lengths
      <4>2. Seen(tx.data, lo, hi, rx.r2)
        BY <1>1 DEF Awaited
      <4>3. rx.r2 = 0
        <5> HIDE DEF lo, hi
        <5> QED BY <4>1, <4>2 DEF Seen
      <4> QED BY <1>5, <4>3 DEF RxWaits
    <3>2. CASE e # 3 + MaxDrift
      <4> HIDE DEF e
      <4> QED BY <1>3, <3>2, Lengths
    <3> QED BY <3>1, <3>2
  <2>2. /\ Seen(tx.data, e1 - 1 - MaxDrift, e1 - 1 + MaxDrift, rx'.r1)
        /\ Seen(tx.data, e1 - 2 - MaxDrift, e1 - 2 + MaxDrift, rx'.r2)
    <3>1. Seen(tx.data, e - 1 - MaxDrift, e - 1 + MaxDrift, rx.r1)
      BY <1>1 DEF Awaited
    <3>2. Seen(tx.data, e - MaxDrift, e + MaxDrift, extern_uart_tx)
      BY <1>1, <1>3, Lengths, LineSeen
    <3> HIDE DEF e, e1
    <3>3. e1 - 1 = e /\ e1 - 2 = e - 1
      BY <1>3
    <3> QED BY <1>2, <3>1, <3>2, <3>3
  <2>3. e1 <= 1 => rx'.r2 = 1
    <3>1. e = 0 => rx.r1 = 1
      BY <1>1 DEF Awaited
    <3> HIDE DEF e, e1
    <3> QED BY <1>2, <1>3, <3>1
  <2>4. high' = MinHigh \/ high' >= e1 + DELAY_WAIT - HALF_DELAY_WAIT - 1 - 2 * MaxDrift
    <3>1. /\ high = MinHigh \/ high >= e + DELAY_WAIT - HALF_DELAY_WAIT - 1 - 2 * MaxDrift
          /\ high \in Nat /\ high <= MinHigh
          /\ high' = IF high < MinHigh THEN high + 1 ELSE high
      BY <1>1, <1>5, HighStep DEF Awaited, RxCounts, RxWaits
    <3> HIDE DEF e, e1
    <3> QED BY <1>3, <3>1, Lengths
  <2>5. e1 \in 0 .. 3 + MaxDrift /\ e1 # 0
    <3> HIDE DEF e, e1
    <3> QED BY <1>3, <2>1, Lengths
  <2>6. Awaited'
    BY <1>4, <2>2, <2>3, <2>4, <2>5 DEF Awaited
  <2> QED BY <1>2, <1>4, <1>5, <2>6 DEF InStep, TxKeepsOn, RxWaits
<1>6. CASE RxBegins
  <2>1. rx.r2 = 0
    BY <1>6 DEF RxBegins
  <2>2. e >= 2 /\ e >= 3 - MaxDrift
    <3>1. e <= 1 => rx.r2 = 1
      BY <1>1 DEF Awaited
    <3>2. Seen(tx.data, e - 2 - MaxDrift, e - 2 + MaxDrift, rx.r2)
      BY <1>1 DEF Awaited
    <3>3. ~(e - 2 + MaxDrift <= 0)
      BY <2>1, <3>2 DEF Seen
    <3> HIDE DEF e
    <3> QED BY <1>3, <2>1, <3>1, <3>3, Lengths
  <2>3. e1 <= 0 + 4 + MaxDrift /\ 0 + 4 - MaxDrift <= e1
    <3> HIDE DEF e, e1
    <3> QED BY <1>3, <2>2, Lengths
  <2>4. Seen(tx.data, 0 + 3 - 2 * MaxDrift, 0 + 3 + 2 * MaxDrift, rx'.r1)
    <3>1. 0 + 3 - 2 * MaxDrift <= e - MaxDrift /\ e + MaxDrift <= 0 + 3 + 2 * MaxDrift
      <4> HIDE DEF e
      <4> QED BY <1>3, <2>2, Lengths
    <3>2. 0 + 3 - 2 * MaxDrift \in Int /\ 0 + 3 + 2 * MaxDrift \in Int
      BY Lengths
    <3> QED BY <1>1, <1>2, <3>1, <3>2, LineSeen
  <2>5. Seen(tx.data, 0 + 2 - 2 * MaxDrift, 0 + 2 + 2 * MaxDrift, rx'.r2)
    <3> DEFINE lo == e - 1 - MaxDrift
               hi == e - 1 + MaxDrift
               lo1 == 0 + 2 - 2 * MaxDrift
               hi1 == 0 + 2 + 2 * MaxDrift
    <3>1. Seen(tx.data, lo, hi, rx.r1)
      BY <1>1 DEF Awaited
    <3>2. /\ lo \in Int /\ hi \in Int /\ lo1 \in Int /\ hi1 \in Int
          /\ lo1 <= lo /\ hi <= hi1
      <4> HIDE DEF e
      <4> QED BY <1>3, <2>2, Lengths
    <3>3. Seen(tx.data, lo1, hi1, rx.r1)
      <4> HIDE DEF lo, hi, lo1, hi1
      <4> QED BY <3>1, <3>2, SeenWider
    <3> QED BY <1>2, <3>3
  <2>6. Heard' = 0 /\ Sampled(tx.data, rx_data', rx'.bit_number)
    BY <1>6 DEF RxBegins
  <2>7. Receiving'
    BY <1>4, <2>3, <2>4, <2>5, <2>6 DEF Receiving
  <2> QED BY <1>2, <1>4, <1>6, <2>7 DEF InStep, TxKeepsOn, RxBegins
<1> QED BY <1>2, <1>5, <1>6

\* A byte is taken only when none is on the line, long enough after the last.
LEMMA TakenQuiet ==
    ASSUME TypeOK, InStep, Position = BitTime * 10 + 3
    PROVE  on_line = <<>> /\ Quiet
<1> DEFINE e == Elapsed
           p == Position
           b9 == BitTime * 9
<1>1. /\ p = b9 + DELAY_WAIT + 4 /\ b9 \in Nat /\ e \in Int /\ p \in Int
      /\ p <= e + MaxDrift
  <2>1. BitTime * (9 + 1) = BitTime * 9 + BitTime
    BY NextBit
  <2> QED BY <2>1, NextBit, CountsType, Lengths
<1>2. ~Awaited
  <2>1. ASSUME Awaited
        PROVE  FALSE
    <3>1. e \in 0 .. 3 + MaxDrift
      BY <2>1 DEF Awaited
    <3> HIDE DEF e, p, b9
    <3> QED BY <1>1, <3>1, Lengths
  <2> QED BY <2>1
<1>3. rx.state # "RX_IDLE" => ~Receiving
  <2>1. ASSUME rx.state # "RX_IDLE", Receiving
        PROVE  FALSE
    <3> DEFINE n == Heard
    <3>1. n \in Nat /\ n <= HALF_DELAY_WAIT + 1 + b9 /\ e <= n + 4 + MaxDrift
      BY <2>1, HeardType DEF Receiving, TypeOK
    <3> HIDE DEF e, p, b9, n
    <3> QED BY <1>1, <3>1, Lengths
  <2> QED BY <2>1
<1> QED BY <1>2, <1>3 DEF InStep
\* A byte is coming in: each sample is taken where the line cannot be looked
\* at outside the bit.
LEMMA ReceivingGoesOn ==
    ASSUME TypeOK, TypeOK', InStep, TxKeepsOn, RxCounts,
           on_line # <<>>, rx.state # "RX_IDLE", RxGoesOn, RxRegisters'
    PROVE  InStep'
<1> DEFINE e == Elapsed
           e1 == Elapsed'
           p == Position
           p1 == Position'
           h == Heard
           h1 == Heard'
           s == FullStop
<1>1. Receiving /\ LineShown /\ on_line = <<tx.data>> /\ rx_data_en' = rx_data_en
  BY DEF InStep, RxGoesOn
<1>2. /\ e \in Int /\ e1 \in Int /\ p \in Nat /\ p1 \in Nat /\ s \in Nat
      /\ h \in Nat /\ h1 = h + 1 /\ p1 >= p
      /\ p <= e + MaxDrift /\ e <= p + MaxDrift
      /\ e1 \in {e, e + 1} /\ (p < s => e1 = e + 1)
      /\ s = BitTime * 9 + DELAY_WAIT /\ BitTime * 9 \in Nat
  <2>1. s \in Nat /\ s = BitTime * 9 + DELAY_WAIT /\ BitTime * 9 \in Nat
    BY NextBit, Lengths DEF FullStop
  <2>2. h \in Nat
    BY HeardType DEF TypeOK
  <2> QED BY <2>1, <2>2, CountsType, NextCountsType DEF RxGoesOn, RxCounts, TxKeepsOn
<1>3. e <= h + 4 + MaxDrift /\ (p < s => h + 4 - MaxDrift <= e)
  BY <1>1 DEF Receiving, FullStop
<1>4. on_line' = <<tx'.data>> /\ tx'.data = tx.data
  BY <1>1 DEF TxKeepsOn, Reported, RxGoesOn
<1>5. e1 <= h1 + 4 + MaxDrift /\ (p1 < s => h1 + 4 - MaxDrift <= e1)
  <2> HIDE DEF e, e1, p, p1, h, h1, s
  <2> QED BY <1>2, <1>3, Lengths
<1>6. Seen(tx.data, h1 + 3 - 2 * MaxDrift, h1 + 3 + 2 * MaxDrift, extern_uart_tx)
  <2> DEFINE lo == h1 + 3 - 2 * MaxDrift
             hi == h1 + 3 + 2 * MaxDrift
  <2>1. lo \in Int /\ hi \in Int
    <3> HIDE DEF h, h1
    <3> QED BY <1>2, Lengths
  <2>2. ASSUME p < s
        PROVE  Seen(tx.data, lo, hi, extern_uart_tx)
    <3>1. lo <= e - MaxDrift /\ e + MaxDrift <= hi
      <4> HIDE DEF e, e1, p, p1, h, h1, s
      <4> QED BY <1>2, <1>3, <2>2, Lengths
    <3> HIDE DEF lo, hi
    <3> QED BY <1>1, <2>1, <3>1, LineSeen
  <2>3. ASSUME ~(p < s)
        PROVE  Seen(tx.data, lo, hi, extern_uart_tx)
    <3>1. p > BitTime * 9 /\ BitTime * 9 < hi
      <4> HIDE DEF e, e1, p, p1, h, h1, s
      <4> QED BY <1>2, <1>3, <2>3, Lengths
    <3>2. extern_uart_tx = 1
      BY <1>1, <3>1 DEF LineShown, Seen
    <3> HIDE DEF lo, hi
    <3> QED BY <2>1, <3>1, <3>2, SeenAfter
  <2> QED BY <2>2, <2>3
<1>7. Seen(tx.data, h1 + 2 - 2 * MaxDrift, h1 + 2 + 2 * MaxDrift, rx.r1)
  <2>1. Seen(tx.data, h + 3 - 2 * MaxDrift, h + 3 + 2 * MaxDrift, rx.r1)
    BY <1>1 DEF Receiving
  <2>2. h1 + 2 - 2 * MaxDrift = h + 3 - 2 * MaxDrift
        /\ h1 + 2 + 2 * MaxDrift = h + 3 + 2 * MaxDrift
    <3> HIDE DEF h, h1
    <3> QED BY <1>2, Lengths
  <2> HIDE DEF h, h1
  <2> QED BY <2>1, <2>2
<1>8. Sampled(tx.data, rx_data', rx'.bit_number)
  BY <1>1 DEF RxGoesOn, Receiving
<1>9. Receiving'
  BY <1>4, <1>5, <1>6, <1>7, <1>8 DEF Receiving, FullStop, RxGoesOn
<1> QED BY <1>4, <1>9 DEF InStep, TxKeepsOn, RxGoesOn

\* The byte is reported: it is the one on the line, and the line is high for as
\* long as the packet layer needs.
LEMMA ReportStep ==
    ASSUME TypeOK, TypeOK', InStep, TxKeepsOn, RxCounts, on_line # <<>>, RxReports,
           rx'.r1 = extern_uart_tx, rx'.r2 = rx.r1, RxRegisters'
    PROVE  InStep' /\ rx_data' = tx.data
<1> DEFINE e == Elapsed
           e1 == Elapsed'
           p == Position
           p1 == Position'
           b9 == BitTime * 9
           h == HALF_DELAY_WAIT + 1 + b9
<1>1. /\ Receiving /\ LineShown /\ on_line = <<tx.data>> /\ rx.state = "RX_STOP"
      /\ Heard = h
  BY DEF InStep, RxReports, Heard
<1>2. /\ e \in Int /\ e1 \in Int /\ p \in Nat /\ p1 \in Nat /\ b9 \in Nat
      /\ p1 >= p /\ e1 \in {e, e + 1}
      /\ p <= e + MaxDrift /\ e <= p + MaxDrift
  BY CountsType, NextCountsType, NextBit DEF RxCounts, TxKeepsOn
<1>3. e <= h + 4 + MaxDrift /\ (p < b9 + DELAY_WAIT => h + 4 - MaxDrift <= e)
  BY <1>1 DEF Receiving
<1>4. p > b9 /\ p1 > b9
  <2> HIDE DEF e, e1, p, p1, b9
  <2> QED BY <1>2, <1>3, Lengths
<1>5. rx'.r1 = 1
  BY <1>1, <1>4 DEF LineShown, Seen
<1>6. rx'.r2 = 1
  <2> DEFINE lo == h + 3 - 2 * MaxDrift
             hi == h + 3 + 2 * MaxDrift
  <2>1. Seen(tx.data, lo, hi, rx.r1)
    BY <1>1 DEF Receiving
  <2>2. lo > b9
    <3> HIDE DEF b9
    <3> QED BY <1>2, Lengths
  <2> QED BY <2>1, <2>2 DEF Seen
<1>7. high' >= e1 - (HALF_DELAY_WAIT + b9 + 6 + MaxDrift)
  <2>1. high' = 0
    BY HighStep DEF RxReports, RxCounts
  <2> HIDE DEF e, e1, p, p1, b9
  <2> QED BY <1>2, <1>3, <2>1, Lengths
<1>8. Quiet'
  BY <1>4, <1>5, <1>6, <1>7 DEF Quiet, RxReports
<1>9. on_line' = <<>>
  BY <1>1 DEF TxKeepsOn, Reported, RxReports
<1>10. rx_data' = tx.data
  <2>1. \A i \in 1 .. 8 : rx_data[i] = tx.data[i]
    BY <1>1 DEF Receiving, Sampled, RxReports
  <2>2. rx_data \in [1 .. 8 -> {0, 1}] /\ tx.data \in [1 .. 8 -> {0, 1}]
    BY DEF TypeOK, RxTypeOK, TxTypeOK, UartByte, Bit
  <2> QED BY <2>1, <2>2 DEF RxReports
<1> QED BY <1>8, <1>9, <1>10 DEF InStep, TxKeepsOn

\* A byte is taken.
LEMMA TakenStep ==
    ASSUME TypeOK, TypeOK', InStep, Next, Accepted
    PROVE  InStep' /\ rx_data_en = 1 /\ rx_data_en' = 1
<1> DEFINE e == Elapsed
           p == Position
           b9 == BitTime * 9
           k == HALF_DELAY_WAIT + b9 + 6 + MaxDrift
<1>1. TxEdge /\ drift' = 0 /\ OnLine
  BY DEF Next, BothEdges, TxOnly, RxOnly, Accepted, Drifted, txVars
<1>2. /\ Position = BitTime * 10 + 3 /\ Position' = 0
      /\ extern_uart_tx = 1 /\ TxHandshake' /\ LineShown'
  BY <1>1, AcceptStep DEF InStep
<1>3. on_line = <<>> /\ Quiet /\ RxRegisters /\ rx_data_en = 1
  BY <1>2, TakenQuiet DEF InStep, Quiet, RxRegisters
<1>4. Elapsed' = 0
  BY <1>1, <1>2 DEF Elapsed
<1>5. \/ BothEdges /\ RxEdge
      \/ TxOnly /\ drift < MaxDrift /\ UNCHANGED <<rx, rx_data, rx_data_en, high>>
  BY DEF Next, BothEdges, TxOnly, RxOnly, Accepted, txVars
<1>6. /\ rx'.state = "RX_IDLE" /\ rx_data_en' = 1
      /\ rx'.r1 = 1 /\ rx'.r2 = 1 /\ RxRegisters'
  <2>1. CASE RxEdge
    BY <1>2, <1>3, <2>1, RxStep DEF RxEdge, Quiet, RxWaits, RxBegins, RxReports
  <2>2. CASE UNCHANGED <<rx, rx_data, rx_data_en, high>>
    BY <1>3, <2>2 DEF Quiet, RxRegisters
  <2> QED BY <1>5, <2>1, <2>2
<1>7. high' = MinHigh \/ high' >= 0 + DELAY_WAIT - HALF_DELAY_WAIT - 1 - 2 * MaxDrift
  <2>1. /\ e \in Int /\ p \in Int /\ b9 \in Nat /\ drift \in Int /\ drift <= MaxDrift
        /\ e = p - drift /\ p = b9 + DELAY_WAIT + 4
        /\ high = MinHigh \/ high >= e - k
        /\ high \in Nat /\ high <= MinHigh
    <3>1. BitTime * (9 + 1) = BitTime * 9 + BitTime
      BY NextBit
    <3>2. p = b9 + DELAY_WAIT + 4 /\ b9 \in Nat
      BY <1>2, <3>1, NextBit, Lengths
    <3>3. drift \in Int /\ drift <= MaxDrift /\ high \in Nat /\ high <= MinHigh
      BY Lengths DEF TypeOK
    <3>4. high = MinHigh \/ high >= e - k
      BY <1>3 DEF Quiet
    <3> QED BY <3>2, <3>3, <3>4, CountsType
  <2>2. CASE RxEdge
    <3>1. high' = IF high < MinHigh THEN high + 1 ELSE high
      BY <1>3, <1>6, <2>2 DEF RxEdge
    <3> HIDE DEF e, p, b9
    <3> QED BY <2>1, <3>1, Lengths
  <2>3. CASE drift < MaxDrift /\ UNCHANGED <<rx, rx_data, rx_data_en, high>>
    <3>1. high' = high /\ drift < MaxDrift
      BY <2>3
    <3> HIDE DEF e, p, b9
    <3> QED BY <2>1, <3>1, Lengths
  <2> QED BY <1>5, <2>2, <2>3
<1>8. on_line' = <<tx'.data>>
  BY <1>1, <1>3 DEF OnLine, Reported
<1>9. /\ Seen(tx'.data, 0 - 1 - MaxDrift, 0 - 1 + MaxDrift, 1)
      /\ Seen(tx'.data, 0 - 2 - MaxDrift, 0 - 2 + MaxDrift, 1)
  <2>1. /\ 0 - 1 - MaxDrift \in Int /\ 0 - 1 + MaxDrift \in Int /\ 0 - 1 - MaxDrift <= 0
        /\ 0 - 2 - MaxDrift \in Int /\ 0 - 2 + MaxDrift \in Int /\ 0 - 2 - MaxDrift <= 0
    BY Lengths
  <2> QED BY <2>1, SeenBefore
<1>10. 0 \in 0 .. 3 + MaxDrift
  BY Lengths
<1>11. Awaited'
  BY <1>4, <1>6, <1>7, <1>9, <1>10 DEF Awaited
<1> QED BY <1>2, <1>3, <1>6, <1>8, <1>11 DEF InStep
-----------------------------------------------------------------------------
(* The invariant.                                                          *)

LEMMA InitInv == Init => TypeOK /\ InStep
<1> SUFFICES ASSUME Init
             PROVE  TypeOK /\ InStep
  OBVIOUS
<1> DEFINE zero == [i \in 1 .. 8 |-> 0]
<1>1. zero \in UartByte /\ zero \in [1 .. 8 -> {0, 1}]
  BY DEF UartByte, Bit
<1>2. 0 \in 0 .. DELAY_WAIT /\ 0 \in 0 .. 7 /\ 0 \in 0 .. 8
      /\ 0 \in -MaxDrift .. MaxDrift /\ MinHigh \in 0 .. MinHigh
  BY Lengths
<1>3. tx = [state |-> "TX_IDLE", counter |-> 0, bit_number |-> 0, data |-> zero]
      /\ data_sent = 0 /\ extern_uart_tx = 1 /\ tx_data_en = 0 /\ tx_data = zero
      /\ rx = [r1 |-> 1, r2 |-> 1, state |-> "RX_IDLE", counter |-> 0, bit_number |-> 0]
      /\ rx_data = zero /\ rx_data_en = 1 /\ drift = 0 /\ on_line = <<>> /\ high = MinHigh
  BY DEF Init, TxInit, RxInit
<1> HIDE DEF zero
<1>4. TypeOK
  BY <1>1, <1>2, <1>3 DEF TypeOK, TxTypeOK, RxTypeOK, Bit
<1>5. Position > BitTime * 9 /\ LineShown
  <2>1. Position = BitTime * 10 + 2 + 0
    BY <1>3 DEF Position
  <2>2. BitTime * (9 + 1) = BitTime * 9 + BitTime /\ BitTime * 9 \in Nat
    BY NextBit
  <2>3. Position \in Int /\ Position > BitTime * 9
    BY <2>1, <2>2, Lengths
  <2> QED BY <1>3, <2>3, SeenAfter DEF LineShown
<1> QED BY <1>3, <1>4, <1>5 DEF InStep, TxHandshake, RxRegisters, Quiet

LEMMA TypeStep ==
    ASSUME TypeOK, InStep, Next
    PROVE  TypeOK'
<1>1. RxRegisters
  BY DEF InStep
<1>2. TxEdge \/ UNCHANGED <<tx_data, tx_data_en, txVars>>
  BY DEF Next, BothEdges, TxOnly, RxOnly
<1>3. TxTypeOK' /\ tx_data' \in UartByte /\ tx_data_en' \in Bit
  BY <1>2, TxTypeStep DEF TypeOK, TxTypeOK, txVars
<1>4. RxEdge \/ UNCHANGED <<rx, rx_data, rx_data_en, high>>
  BY DEF Next, BothEdges, TxOnly, RxOnly
<1>5. RxTypeOK'
  BY <1>1, <1>4, RxStep DEF TypeOK, RxTypeOK, RxEdge
<1>6. on_line' \in Seq(UartByte)
  BY <1>3, OnLineType DEF Next, BothEdges, TxOnly, RxOnly
<1>7. high' \in 0 .. MinHigh
  BY <1>4, Lengths DEF TypeOK, RxEdge
<1>8. drift' \in -MaxDrift .. MaxDrift
  <2>1. drift \in Int /\ -MaxDrift <= drift /\ drift <= MaxDrift
    BY Lengths DEF TypeOK
  <2> QED BY <2>1, Lengths DEF Next, BothEdges, TxOnly, RxOnly, Drifted
<1> QED BY <1>3, <1>5, <1>6, <1>7, <1>8 DEF TypeOK

\* A step in which no byte is taken.
LEMMA KeepsOnStep ==
    ASSUME TypeOK, TypeOK', InStep, TxKeepsOn, RxCounts \/ RxRests
    PROVE  /\ InStep'
           /\ Reported => on_line # <<>> /\ rx_data' = Head(on_line)
<1>1. RxRegisters /\ (on_line = <<>> => Quiet) /\ (on_line # <<>> => on_line = <<tx.data>>)
  BY DEF InStep
<1>2. CASE RxRests
  BY <1>2, RestStep DEF RxRests, Reported, TypeOK, RxTypeOK
<1>3. CASE RxCounts
  <2>1. /\ rx'.r1 = extern_uart_tx /\ rx'.r2 = rx.r1 /\ RxRegisters'
        /\ \/ RxWaits
           \/ RxBegins
           \/ rx.state # "RX_IDLE" /\ RxGoesOn
           \/ RxReports
    BY <1>1, <1>3, RxStep DEF RxCounts, RxEdge
  <2>2. CASE on_line = <<>>
    BY <1>1, <1>3, <2>2, QuietStep DEF Quiet, RxRegisters, Reported
  <2>3. CASE on_line # <<>> /\ rx.state = "RX_IDLE"
    BY <1>1, <1>3, <2>3, AwaitedStep DEF RxRegisters, Reported
  <2>4. CASE on_line # <<>> /\ rx.state # "RX_IDLE" /\ RxGoesOn
    BY <1>3, <2>1, <2>4, ReceivingGoesOn DEF RxGoesOn, Reported
  <2>5. CASE on_line # <<>> /\ RxReports
    <3>1. InStep' /\ rx_data' = tx.data
      BY <1>3, <2>1, <2>5, ReportStep
    <3>2. Head(on_line) = tx.data
      BY <1>1, <2>5
    <3> QED BY <2>5, <3>1, <3>2
  <2> QED BY <2>1, <2>2, <2>3, <2>4, <2>5 DEF RxWaits, RxBegins
<1> QED BY <1>2, <1>3

\* What is reported is the byte on the line.
ReportIsRight == Reported => on_line # <<>> /\ rx_data' = Head(on_line)

LEMMA InvStep ==
    ASSUME TypeOK, InStep, [Next]_linkVars
    PROVE  TypeOK' /\ InStep' /\ ReportIsRight
<1>1. CASE Next
  <2>1. TypeOK'
    BY <1>1, TypeStep
  <2>2. CASE Accepted
    BY <1>1, <2>1, <2>2, TakenStep DEF Reported, ReportIsRight
  <2>3. CASE ~Accepted
    BY <1>1, <2>1, <2>3, KeepsOn, KeepsOnStep DEF ReportIsRight
  <2> QED BY <2>1, <2>2, <2>3
<1>2. CASE UNCHANGED linkVars
  <2>1. /\ UNCHANGED <<tx_data, tx_data_en, tx, data_sent, extern_uart_tx>>
        /\ UNCHANGED <<rx, rx_data, rx_data_en, drift, on_line, high>>
    BY <1>2 DEF linkVars, txVars, rxVars
  <2>2. TypeOK'
    BY <2>1 DEF TypeOK, TxTypeOK, RxTypeOK
  <2>3. Position' = Position /\ Elapsed' = Elapsed /\ Heard' = Heard
    BY <2>1 DEF Position, Elapsed, Heard
  <2>4. TxHandshake' /\ LineShown' /\ RxRegisters'
    BY <2>1, <2>3 DEF InStep, TxHandshake, LineShown, RxRegisters
  <2>5. (Quiet => Quiet') /\ (Awaited => Awaited') /\ (Receiving => Receiving')
    BY <2>1, <2>3 DEF Quiet, Awaited, Receiving
  <2> QED BY <2>1, <2>2, <2>4, <2>5 DEF InStep, Reported, ReportIsRight, TypeOK, RxTypeOK
<1> QED BY <1>1, <1>2

-----------------------------------------------------------------------------
(* The theorems.                                                           *)

\* The registers, wires and counts stay in their ranges: no counter of either
\* end passes the length of a bit (uart_tx.v:51-128, uart_rx.v:65-133).
THEOREM LinkTypeCorrect == Spec => []TypeOK
<1>1. Init => TypeOK /\ InStep
  BY InitInv
<1>2. TypeOK /\ InStep /\ [Next]_linkVars => TypeOK' /\ InStep'
  BY InvStep
<1> QED BY <1>1, <1>2, PTL DEF Spec

\* The two ends keep in step at every rate, however the edges of their clocks
\* fall, as long as one gains no more than MaxDrift per byte: the receiver's
\* samples are the bits of the byte the transmitter took last.
THEOREM StaysInStep == Spec => []InStep
<1>1. Init => TypeOK /\ InStep
  BY InitInv
<1>2. TypeOK /\ InStep /\ [Next]_linkVars => TypeOK' /\ InStep'
  BY InvStep
<1> QED BY <1>1, <1>2, PTL DEF Spec

\* No byte is passed over: when the transmitter takes a byte, the one before has
\* been reported (uart_rx.v:121-133 reports in the middle of the stop bit).
THEOREM ByteNotLost == Spec => []NoByteLost
<1>1. InStep => NoByteLost
  <2> SUFFICES ASSUME InStep
               PROVE  Len(on_line) <= 1
    BY DEF NoByteLost
  <2>1. CASE on_line = <<>>
    BY <2>1
  <2>2. CASE on_line = <<tx.data>>
    BY <2>2
  <2> QED BY <2>1, <2>2 DEF InStep
<1> QED BY <1>1, StaysInStep, PTL

\* Every byte the receiver reports is the one the transmitter took, bit for bit
\* (uart_rx.v:97-119 shifts in what uart_tx.v:84-105 puts on the line).
THEOREM ReportIsSent == Spec => ReportedIsSent
<1>1. TypeOK /\ InStep /\ [Next]_linkVars
      => [Reported => on_line # <<>> /\ rx_data' = Head(on_line)]_linkVars
  BY InvStep DEF ReportIsRight
<1> QED BY <1>1, LinkTypeCorrect, StaysInStep, PTL DEF Spec, ReportedIsSent
-----------------------------------------------------------------------------
(* The contracts of the byte layer.                                        *)

\* While a byte comes in, the output has not been up.
HighDown == rx_data_en = 0 => high = 0

\* When the receiver sees a start bit, its output has been up long enough.
LEMMA BeginHigh ==
    ASSUME TypeOK, InStep, RxBegins
    PROVE  high = MinHigh
<1> DEFINE e == Elapsed
<1>1. Awaited /\ rx.r2 = 0
  BY DEF InStep, Quiet, RxBegins
<1>2. /\ e \in Nat /\ (e <= 1 => rx.r2 = 1)
      /\ high = MinHigh \/ high >= e + DELAY_WAIT - HALF_DELAY_WAIT - 1 - 2 * MaxDrift
      /\ high \in Nat /\ high <= MinHigh
  BY <1>1, Lengths DEF Awaited, TypeOK
<1> HIDE DEF e
<1> QED BY <1>1, <1>2, Lengths

LEMMA ReceiverStep ==
    ASSUME TypeOK, TypeOK', InStep, HighDown, Next
    PROVE  HighDown' /\ [Receiver!Next]_(Receiver!byteRxVars)
<1>1. RxRegisters /\ rx_data_en \in {0, 1} /\ rx_data' \in UartByte
  BY DEF InStep, TypeOK, RxTypeOK, UartByte, Bit
<1>2. CASE UNCHANGED <<rx, rx_data, rx_data_en, high>>
  BY <1>2 DEF HighDown, Receiver!byteRxVars
<1>3. CASE RxEdge
  <2>1. RxClock
    BY <1>3 DEF RxEdge
  <2>2. CASE RxWaits
    <3>1. rx_data_en = 1 /\ rx_data_en' = 1 /\ rx_data' = rx_data
      BY <1>1, <2>2 DEF RxRegisters, RxWaits
    <3>2. high' = IF high < MinHigh THEN high + 1 ELSE high
      BY <1>3, <3>1 DEF RxEdge
    <3>3. Receiver!Rest
      BY <3>1, <3>2 DEF Receiver!Rest, Receiver!OneMore
    <3> QED BY <3>1, <3>3 DEF Receiver!Next, HighDown
  <2>3. CASE RxBegins
    <3>1. rx_data_en = 1 /\ rx_data_en' = 0 /\ high = MinHigh
      BY <1>1, <2>3, BeginHigh DEF RxRegisters, RxBegins
    <3>2. high' = 0
      BY <1>3, <3>1 DEF RxEdge
    <3>3. Receiver!Begin
      BY <1>1, <3>1, <3>2 DEF Receiver!Begin
    <3> QED BY <3>2, <3>3 DEF Receiver!Next, HighDown
  <2>4. CASE rx.state # "RX_IDLE" /\ RxGoesOn
    <3>1. rx_data_en = 0 /\ rx_data_en' = 0 /\ high = 0
      BY <1>1, <2>4 DEF RxRegisters, RxGoesOn, HighDown
    <3>2. high' = 0
      BY <1>3, <3>1 DEF RxEdge
    <3>3. Receiver!Shift
      BY <1>1, <3>1, <3>2 DEF Receiver!Shift
    <3> QED BY <3>2, <3>3 DEF Receiver!Next, HighDown
  <2>5. CASE RxReports
    <3>1. rx_data_en = 0 /\ rx_data_en' = 1 /\ high = 0
      BY <2>5 DEF RxReports, HighDown
    <3>2. high' = 0
      BY <1>3, <3>1 DEF RxEdge
    <3>3. Receiver!Report(rx_data')
      BY <3>1, <3>2 DEF Receiver!Report
    <3> QED BY <1>1, <3>1, <3>3 DEF Receiver!Next, HighDown
  <2> QED BY <1>1, <2>1, <2>2, <2>3, <2>4, <2>5, RxStep
<1> QED BY <1>2, <1>3 DEF Next, BothEdges, TxOnly, RxOnly

\* The receiver keeps the promise the packet layer is checked against: its output
\* goes down at a start bit and up with the whole byte, and in between bytes that
\* follow each other at once it stays up for MinHigh clocks (uart_rx.v:65-133).
THEOREM ReceiverKeepsContract == Spec => ImplementsByteReceiver
<1>1. Init => Receiver!Init /\ HighDown
  BY DEF Init, RxInit, Receiver!Init, HighDown, UartByte, Bit
<1>2. TypeOK /\ TypeOK' /\ InStep /\ HighDown /\ [Next]_linkVars
      => HighDown' /\ [Receiver!Next]_(Receiver!byteRxVars)
  <2>1. ASSUME UNCHANGED linkVars, HighDown
        PROVE  HighDown' /\ UNCHANGED Receiver!byteRxVars
    BY <2>1 DEF linkVars, rxVars, HighDown, Receiver!byteRxVars
  <2> QED BY <2>1, ReceiverStep
<1> QED BY <1>1, <1>2, LinkTypeCorrect, StaysInStep, PTL
       DEF Spec, ImplementsByteReceiver, Receiver!Spec

LEMMA TransmitterStep ==
    ASSUME TypeOK, TxHandshake, TxEdge
    PROVE  [Transmitter!Next]_(Transmitter!byteTxVars)
<1>1. tx \in TxRecord /\ tx_data_en \in {0, 1} /\ data_sent \in {0, 1}
  BY DEF TypeOK, TxTypeOK, TxRecord, Bit
<1>2. CASE TxIdle
  <2>1. tx.state = "TX_IDLE" /\ tx_data_en = 0 /\ data_sent' = 0 /\ tx' = tx
    BY <1>2 DEF TxIdle
  <2>2. Transmitter!Idle
    BY <2>1 DEF Transmitter!Idle
  <2> QED BY <2>2 DEF Transmitter!Next
<1>3. CASE TxAccept
  <2>1. /\ tx.state = "TX_IDLE" /\ tx_data_en = 1 /\ data_sent' = data_sent
        /\ tx'.state = "TX_START" /\ tx'.data = tx_data
    BY <1>3 DEF TxAccept
  <2>2. Transmitter!Accept
    BY <2>1 DEF Transmitter!Accept
  <2> QED BY <2>2 DEF Transmitter!Next
<1>4. CASE TxStart
  <2>1. /\ tx.state = "TX_START" /\ data_sent' = data_sent
        /\ tx'.state \in {"TX_START", "TX_WRITE"} /\ tx'.data = tx.data
    BY <1>1, <1>4 DEF TxStart, HoldBit, TxRecord
  <2>2. Transmitter!Shift
    BY <2>1 DEF Transmitter!Shift, Transmitter!byteTxVars
  <2> QED BY <2>2 DEF Transmitter!Next
<1>5. CASE TxWrite
  <2>1. /\ tx.state = "TX_WRITE" /\ data_sent = 0 /\ data_sent' = data_sent
        /\ tx'.state \in {"TX_WRITE", "TX_STOP"} /\ tx'.data = tx.data
        /\ tx'.state = "TX_STOP" => tx'.counter = 0
    BY <1>1, <1>5 DEF TxWrite, HoldBit, TxRecord, TxHandshake
  <2>2. CASE tx'.state = "TX_WRITE"
    <3>1. Transmitter!Shift
      BY <2>1, <2>2 DEF Transmitter!Shift, Transmitter!byteTxVars
    <3> QED BY <3>1 DEF Transmitter!Next
  <2>3. CASE tx'.state = "TX_STOP"
    <3>1. Transmitter!Deliver
      BY <2>1, <2>3 DEF Transmitter!Deliver
    <3> QED BY <3>1 DEF Transmitter!Next
  <2> QED BY <2>1, <2>2, <2>3
<1>6. CASE TxStop
  <2>1. tx.state = "TX_STOP" /\ tx.counter \in 0 .. DELAY_WAIT
    BY <1>1, <1>6 DEF TxStop, TxRecord
  <2>2. CASE tx.counter # DELAY_WAIT
    <3>1. /\ data_sent = 0 /\ data_sent' = 0
          /\ tx'.state = "TX_STOP" /\ tx'.counter = tx.counter + 1 /\ tx'.data = tx.data
      BY <1>1, <1>6, <2>1, <2>2 DEF TxStop, TxHandshake, TxRecord
    <3>2. tx.counter < DELAY_WAIT
      BY <2>1, <2>2, Lengths
    <3>3. Transmitter!StopBit
      BY <2>1, <3>1, <3>2 DEF Transmitter!StopBit
    <3> QED BY <3>3 DEF Transmitter!Next
  <2>3. CASE tx.counter = DELAY_WAIT /\ tx_data_en = 0
    <3>1. data_sent' = 0 /\ tx'.state = "TX_IDLE" /\ tx'.data = tx.data
      BY <1>1, <1>6, <2>3 DEF TxStop, TxRecord
    <3>2. Transmitter!Acknowledge
      BY <1>1, <2>1, <2>3, <3>1 DEF Transmitter!Acknowledge
    <3> QED BY <3>2 DEF Transmitter!Next
  <2>4. CASE tx.counter = DELAY_WAIT /\ tx_data_en = 1
    <3>1. data_sent' = 1 /\ tx' = tx
      BY <1>6, <2>4 DEF TxStop
    <3>2. Transmitter!Acknowledge
      BY <1>1, <2>1, <2>4, <3>1 DEF Transmitter!Acknowledge
    <3> QED BY <3>2 DEF Transmitter!Next
  <2> QED BY <1>1, <2>2, <2>3, <2>4
<1> QED BY <1>2, <1>3, <1>4, <1>5, <1>6 DEF TxEdge, TxClock

\* The transmitter keeps the promise the packet layer is checked against: a byte
\* is taken as it is on the wires, and data_sent goes up once, in the stop bit, and
\* stays up until the request goes down (uart_tx.v:51-128).
THEOREM TransmitterKeepsContract == Spec => ImplementsByteTransmitter
<1>1. Init => Transmitter!Init
  BY DEF Init, TxInit, Transmitter!Init, UartByte, Bit
<1>2. TypeOK /\ InStep /\ [Next]_linkVars => [Transmitter!Next]_(Transmitter!byteTxVars)
  <2>1. ASSUME UNCHANGED <<tx_data, tx_data_en, txVars>>
        PROVE  UNCHANGED Transmitter!byteTxVars
    BY <2>1 DEF txVars, Transmitter!byteTxVars
  <2>2. ASSUME UNCHANGED linkVars
        PROVE  UNCHANGED Transmitter!byteTxVars
    BY <2>2 DEF linkVars, txVars, Transmitter!byteTxVars
  <2> QED BY <2>1, <2>2, TransmitterStep
          DEF Next, BothEdges, TxOnly, RxOnly, InStep
<1> QED BY <1>1, <1>2, LinkTypeCorrect, StaysInStep, PTL
       DEF Spec, ImplementsByteTransmitter, Transmitter!Spec
=============================================================================
