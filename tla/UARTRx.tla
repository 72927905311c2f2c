------------------------------- MODULE UARTRx -------------------------------
(***************************************************************************)
(* The byte receiver (uart_rx.v).  The line passes through two flip-flops; *)
(* a low level starts a byte, which is sampled once per DELAY_WAIT + 1     *)
(* clocks, beginning half a bit into the first one.                        *)
(***************************************************************************)
EXTENDS Naturals, Sequences

CONSTANT DELAY_WAIT     \* clocks per bit, less one

VARIABLES
    extern_uart_rx,     \* the line
    rx,                 \* registers [r1, r2, state, counter, bit_number]
    rx_data,            \* wire out: the byte
    rx_data_en          \* wire out: 0 while a byte is coming in

rxVars == <<rx, rx_data, rx_data_en>>

HALF_DELAY_WAIT == DELAY_WAIT \div 2

RxTypeOK ==
    /\ rx \in [r1 : {0, 1}, r2 : {0, 1},
               state : {"RX_IDLE", "RX_START", "RX_READ", "RX_STOP"},
               counter : 0 .. DELAY_WAIT, bit_number : 0 .. 8]
    /\ rx_data \in [1 .. 8 -> {0, 1}]
    /\ rx_data_en \in {0, 1}

\* After a reset.
RxInit ==
    /\ rx = [r1 |-> 1, r2 |-> 1, state |-> "RX_IDLE", counter |-> 0, bit_number |-> 0]
    /\ rx_data = [i \in 1 .. 8 |-> 0]
    /\ rx_data_en = 1

\* The registers after a clock: regs, and the line one flip-flop further.
Registers(regs) == rx' = [regs EXCEPT !.r1 = extern_uart_rx, !.r2 = rx.r1]

Counted == [rx EXCEPT !.counter = @ + 1]

RxIdle ==
    /\ rx.state = "RX_IDLE"
    /\ rx.r2 = 1
    /\ rx_data_en' = 1
    /\ Registers(rx)
    /\ UNCHANGED rx_data

RxBegin ==
    /\ rx.state = "RX_IDLE"
    /\ rx.r2 = 0
    /\ rx_data' = [i \in 1 .. 8 |-> 0]
    /\ rx_data_en' = 0
    /\ Registers([rx EXCEPT !.state = "RX_START", !.counter = 0, !.bit_number = 0])

\* Mutant: the wait in the start bit is a whole bit, so sampling is at edges.
RxStartWhole ==
    /\ rx.state = "RX_START"
    /\ Registers(IF rx.counter = DELAY_WAIT
                 THEN [rx EXCEPT !.state = "RX_READ", !.counter = 0] ELSE Counted)
    /\ UNCHANGED <<rx_data, rx_data_en>>

RxStart ==
    /\ rx.state = "RX_START"
    /\ Registers(IF rx.counter = HALF_DELAY_WAIT
                 THEN [rx EXCEPT !.state = "RX_READ", !.counter = 0] ELSE Counted)
    /\ UNCHANGED <<rx_data, rx_data_en>>

RxRead ==
    /\ rx.state = "RX_READ"
    /\ IF rx.counter = DELAY_WAIT /\ rx.bit_number # 8
       THEN /\ rx_data' = Append(Tail(rx_data), rx.r2)
            /\ Registers([rx EXCEPT !.bit_number = @ + 1, !.counter = 0])
       ELSE /\ Registers(IF rx.counter = DELAY_WAIT
                         THEN [rx EXCEPT !.state = "RX_STOP"] ELSE Counted)
            /\ UNCHANGED rx_data
    /\ UNCHANGED rx_data_en

\* Mutant: the stop bit ends only on a counter that was reset.
RxStopFresh ==
    /\ rx.state = "RX_STOP"
    /\ IF rx.counter = 0
       THEN rx_data_en' = 1 /\ Registers([rx EXCEPT !.state = "RX_IDLE"])
       ELSE Registers(rx) /\ UNCHANGED rx_data_en
    /\ UNCHANGED rx_data

\* The counter is still at its limit: RX_STOP takes one clock, and the byte is
\* reported in the middle of the stop bit.
RxStop ==
    /\ rx.state = "RX_STOP"
    /\ IF rx.counter = DELAY_WAIT
       THEN rx_data_en' = 1 /\ Registers([rx EXCEPT !.state = "RX_IDLE"])
       ELSE Registers(Counted) /\ UNCHANGED rx_data_en
    /\ UNCHANGED rx_data

RxClock == RxIdle \/ RxBegin \/ RxStart \/ RxRead \/ RxStop
=============================================================================
