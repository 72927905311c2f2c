------------------------------ MODULE UartLink ------------------------------
(***************************************************************************)
(* A transmitter and a receiver on the two ends of a line, each on a clock *)
(* of its own.  On the board the other end of each line is the host's      *)
(* serial chip, which speaks the same 8N1 protocol at the same rate: each  *)
(* module here stands for the chip the other one talks to.                 *)
(*                                                                         *)
(* The clocks differ in phase and in rate: a step is an edge of both or of *)
(* one of them, and from the start of one byte to the start of the next    *)
(* one clock gains at most MaxDrift edges on the other.  27 MHz, 9600 baud *)
(* and DELAY_WAIT = 2812 make half an edge per bit, five per byte.         *)
(***************************************************************************)
EXTENDS UARTTx

CONSTANTS
    Bytes,      \* the bytes sent
    MaxDrift,   \* edges one clock may gain on the other per byte
    MinHigh     \* clocks the packet layer needs between two bytes

ASSUME LinkAssumption ==
    /\ DELAY_WAIT \in Nat
    /\ Bytes \subseteq UartByte
    /\ MaxDrift \in Nat
    /\ MinHigh \in Nat

VARIABLES rx, rx_data, rx_data_en

INSTANCE UARTRx WITH extern_uart_rx <- extern_uart_tx

\* The clocks agree well enough to sample within each bit, and to report a byte
\* before the next: a quarter of a bit in the ten bits of a byte.  What is left of the
\* stop bit is as long as the packet layer needs.
ASSUME DriftAssumption ==
    /\ 2 * MaxDrift + 2 <= DELAY_WAIT - HALF_DELAY_WAIT
    /\ 2 * MaxDrift + MinHigh <= DELAY_WAIT - HALF_DELAY_WAIT + 1

VARIABLES
    drift,      \* edges the transmitter's clock has gained
    on_line,    \* history: bytes taken by the transmitter, not yet reported
    high        \* history: clocks rx_data_en has been up, at most MinHigh

linkVars == <<tx_data, tx_data_en, txVars, rxVars, drift, on_line, high>>

Init ==
    /\ TxInit
    /\ RxInit
    /\ tx_data = [i \in 1 .. 8 |-> 0]
    /\ tx_data_en = 0
    /\ drift = 0
    /\ on_line = <<>>
    /\ high = MinHigh

\* The packet layer requests and takes back requests as UARTPacket does: up
\* when data_sent is 0, down when it is 1, either after any time.
Client ==
    \/ UNCHANGED <<tx_data, tx_data_en>>
    \/ /\ tx_data_en = 0
       /\ data_sent = 0
       /\ tx_data' \in Bytes
       /\ tx_data_en' = 1
    \/ /\ tx_data_en = 1
       /\ data_sent = 1
       /\ tx_data_en' = 0
       /\ UNCHANGED tx_data

TxEdge == TxClock /\ Client

RxEdge ==
    /\ RxClock
    /\ high' = IF 0 \in {rx_data_en, rx_data_en'} THEN 0
             ELSE IF high < MinHigh THEN high + 1 ELSE high

Accepted == tx.state = "TX_IDLE" /\ tx.state' = "TX_START"

Reported == rx_data_en = 0 /\ rx_data_en' = 1

\* The byte accepted goes on the line; the byte reported leaves it.  At most
\* two are remembered: the second is already one too many.
OnLine ==
    LET left == IF Reported /\ on_line # <<>> THEN Tail(on_line) ELSE on_line IN
    on_line' = IF Accepted /\ Len(left) < 2 THEN Append(left, tx.data') ELSE left

Drifted(d) == IF Accepted THEN 0 ELSE d

BothEdges ==
    /\ TxEdge
    /\ RxEdge
    /\ OnLine
    /\ drift' = Drifted(drift)

TxOnly ==
    /\ drift < MaxDrift
    /\ TxEdge
    /\ UNCHANGED <<rx, rx_data, rx_data_en, high>>
    /\ OnLine
    /\ drift' = Drifted(drift + 1)

RxOnly ==
    /\ drift > -MaxDrift
    /\ RxEdge
    /\ UNCHANGED <<tx_data, tx_data_en, txVars>>
    /\ OnLine
    /\ drift' = drift - 1

Next == BothEdges \/ TxOnly \/ RxOnly

Spec == Init /\ [][Next]_linkVars

FairSpec == Spec /\ WF_linkVars(BothEdges)

-----------------------------------------------------------------------------
(* Properties.                                                             *)

TypeOK ==
    /\ TxTypeOK
    /\ RxTypeOK
    /\ tx_data \in UartByte /\ tx_data_en \in Bit
    /\ drift \in -MaxDrift .. MaxDrift
    /\ on_line \in Seq(UartByte)
    /\ high \in 0 .. MinHigh

\* What the receiver reports is the byte the transmitter took, whole and in
\* order, whatever the phase of the two clocks and the gap between bytes.
ReportedIsSent == [][Reported => on_line # <<>> /\ rx_data' = Head(on_line)]_linkVars

\* No byte is passed over: the receiver has reported a byte before the
\* transmitter takes the next one.
NoByteLost == Len(on_line) <= 1

\* Every byte the transmitter takes is reported.
EveryByteReported == on_line # <<>> ~> on_line = <<>>

\* The transmitter keeps the promise the packet layer is built on.
Transmitter == INSTANCE ByteTransmitter WITH
    Byte    <- UartByte,
    MaxStop <- DELAY_WAIT,
    byte    <- tx.data,
    stopped <- IF tx.state = "TX_STOP" THEN tx.counter ELSE 0,
    phase   <- CASE tx.state = "TX_IDLE" -> "idle"
                 [] tx.state \in {"TX_START", "TX_WRITE"} -> "shift"
                 [] tx.state = "TX_STOP" /\ data_sent = 0 -> "stop"
                 [] OTHER -> "done"

ImplementsByteTransmitter == Transmitter!Spec

\* The receiver keeps its promise, also when bytes follow each other at once.
Receiver == INSTANCE ByteReceiver WITH Byte <- UartByte, Partial <- UartByte

ImplementsByteReceiver == Receiver!Spec

-----------------------------------------------------------------------------
(* Why the link loses no byte: how far the two ends of the line are apart. *)
(* Each end counts its own clocks from the start of the byte; drift ties   *)
(* the two counts together, and the receiver samples where every moment    *)
(* the line can have been looked at lies within the same bit.              *)

\* The two counts.

BitTime == DELAY_WAIT + 1

\* Clocks of the transmitter since it took the byte.  From the end of the stop
\* bit on it may wait for the client: then no fewer clocks than these.
Position ==
    CASE tx.state = "TX_START" -> tx.counter
      [] tx.state = "TX_WRITE" -> BitTime * (tx.bit_number + 1) + tx.counter
      [] tx.state = "TX_STOP"  ->
             BitTime * 9 + tx.counter
                 + (IF data_sent = 0 THEN 0 ELSE IF tx_data_en = 1 THEN 1 ELSE 2)
      [] tx.state = "TX_IDLE"  -> BitTime * 10 + 2 + tx_data_en

\* Clocks of the receiver in the same time.
Elapsed == Position - drift

\* Clocks of the receiver since it saw the start bit.
Heard ==
    CASE rx.state = "RX_START" -> rx.counter
      [] rx.state = "RX_READ"  ->
             HALF_DELAY_WAIT + 1 + BitTime * rx.bit_number + rx.counter
      [] rx.state = "RX_STOP"  -> HALF_DELAY_WAIT + 1 + BitTime * 9

\* v is the level of the line at some position from lo to hi while byte is sent:
\* when all of them are in one bit, v is that bit.
Seen(byte, lo, hi, v) ==
    /\ hi <= 0 \/ lo > BitTime * 9 => v = 1
    /\ 0 < lo /\ hi <= BitTime => v = 0
    /\ \A j \in 1 .. 8 : BitTime * j < lo /\ hi <= BitTime * (j + 1) => v = byte[j]

\* data, which bits are shifted into from above, holds the first n bits of byte.
Sampled(byte, data, n) == \A i \in 1 .. n : data[8 - n + i] = byte[i]

-----------------------------------------------------------------------------
(* Each end by itself.                                                     *)

\* The registers, and the four-phase handshake with the packet layer.
TxHandshake ==
    /\ tx.state = "TX_IDLE" => data_sent = 0
    /\ tx.state \in {"TX_START", "TX_WRITE"} => data_sent = 0 /\ tx_data_en = 1
    /\ tx.state = "TX_START" => tx.bit_number = 0
    /\ tx.state = "TX_STOP" /\ data_sent = 0 => tx_data_en = 1
    /\ tx.state = "TX_STOP" /\ data_sent = 1 => tx.counter = DELAY_WAIT

LineShown == Seen(tx.data, Position, Position, extern_uart_tx)

RxRegisters ==
    /\ rx_data_en = (IF rx.state = "RX_IDLE" THEN 1 ELSE 0)
    /\ rx.state = "RX_START" => rx.counter <= HALF_DELAY_WAIT /\ rx.bit_number = 0
    /\ rx.state = "RX_STOP" => rx.counter = DELAY_WAIT /\ rx.bit_number = 8

-----------------------------------------------------------------------------
(* The two together.                                                       *)

\* No byte is on the line.
Quiet ==
    /\ rx.state = "RX_IDLE"
    /\ rx.r1 = 1 /\ rx.r2 = 1
    /\ Position > BitTime * 9
    /\ \/ high = MinHigh
       \/ high >= Elapsed - (HALF_DELAY_WAIT + BitTime * 9 + 6 + MaxDrift)

\* A byte has been taken and the receiver has not seen its start bit: it looks
\* at the line of one and of two of its clocks ago.
Awaited ==
    /\ Elapsed \in 0 .. 3 + MaxDrift
    /\ Elapsed = 0 => rx.r1 = 1
    /\ Elapsed <= 1 => rx.r2 = 1
    /\ Seen(tx.data, Elapsed - 1 - MaxDrift, Elapsed - 1 + MaxDrift, rx.r1)
    /\ Seen(tx.data, Elapsed - 2 - MaxDrift, Elapsed - 2 + MaxDrift, rx.r2)
    /\ \/ high = MinHigh
       \/ high >= Elapsed + DELAY_WAIT - HALF_DELAY_WAIT - 1 - 2 * MaxDrift

\* The receiver is within MaxDrift of where it should be.
Receiving ==
    /\ Elapsed <= Heard + 4 + MaxDrift
    /\ Position < BitTime * 9 + DELAY_WAIT => Heard + 4 - MaxDrift <= Elapsed
    /\ Seen(tx.data, Heard + 3 - 2 * MaxDrift, Heard + 3 + 2 * MaxDrift, rx.r1)
    /\ Seen(tx.data, Heard + 2 - 2 * MaxDrift, Heard + 2 + 2 * MaxDrift, rx.r2)
    /\ Sampled(tx.data, rx_data, rx.bit_number)

\* The inductive invariant behind NoByteLost and ReportedIsSent: the byte taken
\* last is the only one on the line, and the receiver's samples are its bits
\* (uart_rx.v:97-119).
InStep ==
    /\ TxHandshake
    /\ LineShown
    /\ RxRegisters
    /\ IF on_line = <<>> THEN Quiet
       ELSE /\ on_line = <<tx.data>>
            /\ IF rx.state = "RX_IDLE" THEN Awaited ELSE Receiving
=============================================================================
