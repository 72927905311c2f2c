---------------------------- MODULE BenchDesign ----------------------------
(***************************************************************************)
(* The designs that the RTL test benches drive, register by register and   *)
(* with the delays of the real ones: the two halves of the UART, the       *)
(* packet layer, the command processor, each alone, and the two tops       *)
(* tangnano20k_serial.v and tt_ihp26b.v, which are all of them.  What a    *)
(* design has no block for is an input that the test may set.              *)
(*                                                                         *)
(* Almost every clock of a test changes only the counters of the UART;     *)
(* Skip takes many such clocks in one step.                                *)
(***************************************************************************)
EXTENDS CommandProcessor, BenchClock

VARIABLES
    bench,      \* which bench runs, constant
    extern_uart_rx, rx, rx_data, rx_data_en,
    tx, tx_data, tx_data_en, data_sent, uart_tx_wire,
    prx, ptx,
    ui_in,      \* the input pins of the tapeout, as a number
    extern_reset,
    driven,     \* history: <<byte, bit>> the test has put on the line
    seen        \* history: what driven was at the last two edges

Blocks ==
    CASE bench = "uart_tx"           -> {"UARTTx"}
      [] bench = "uart_rx"           -> {"UARTRx"}
      [] bench = "uart_packet"       -> {"UARTTx", "UARTRx", "UARTPacket"}
      [] bench = "command_processor" -> {"CommandProcessor"}
      [] OTHER -> {"UARTTx", "UARTRx", "UARTPacket", "CommandProcessor"}

Bits(n) == [i \in 1 .. 8 |-> (n \div 2^(i - 1)) % 2]

ByteValue(bits) == LET v[i \in 0 .. 8] == IF i = 0 THEN 0 ELSE v[i - 1] + bits[i] * 2^(i - 1)
                   IN  v[8]

\* The default delay, for 27 MHz, and that of tt_ihp26b.v, for 50 MHz.
Tx == INSTANCE UARTTx WITH DELAY_WAIT <- 2812, tx_data <- Bits(tx_data),
                           extern_uart_tx <- uart_tx_wire
Rx == INSTANCE UARTRx WITH DELAY_WAIT <- 2812
TtTx == INSTANCE UARTTx WITH DELAY_WAIT <- 5208, tx_data <- Bits(tx_data),
                             extern_uart_tx <- uart_tx_wire
TtRx == INSTANCE UARTRx WITH DELAY_WAIT <- 5208
INSTANCE UARTPacket WITH rx_data <- ByteValue(rx_data)

OnChip == bench = "tt_ihp26b"
DELAY_WAIT == IF OnChip THEN 5208 ELSE 2812
TxClock == IF OnChip THEN TtTx!TxClock ELSE Tx!TxClock
RxClock == IF OnChip THEN TtRx!RxClock ELSE Rx!RxClock

transmitter     == <<tx, data_sent, uart_tx_wire>>
receiver        == <<rx, rx_data, rx_data_en>>
packetReceiver  == <<prx, rx_packet, rx_packet_ready>>
packetSender    == <<ptx, tx_data, tx_data_en, tx_packet_sent>>
processor       == <<cp, tx_packet, tx_packet_ready>>
design == <<transmitter, receiver, packetReceiver, packetSender, processor>>

DesignInit ==
    /\ CpInit /\ PacketInit
    /\ tx = [state |-> "TX_IDLE", counter |-> 0, bit_number |-> 0, data |-> Bits(0)]
    /\ data_sent = 0 /\ uart_tx_wire = 1
    /\ Rx!RxInit
    /\ extern_uart_rx = 1 /\ extern_reset = 0 /\ ui_in = 2^3
    /\ driven = <<0, 0>> /\ seen = <<driven, driven>>

-----------------------------------------------------------------------------
(* Pins of the tapeout.                                                    *)

Pin(pins, n) == (pins \div 2^n) % 2

UartRxWire(pins) == IF Pin(pins, 0) = 1 THEN Pin(pins, 7) ELSE Pin(pins, 3)

\* The tops hold their output low during a reset.
extern_uart_tx ==
    IF bench \in {"tangnano20k_serial", "tt_ihp26b"} /\ extern_reset = 1 THEN 0
    ELSE uart_tx_wire

\* Bit 6 is tied to 1, and those of no pair of pins to 0.
uo_out == 2^6 + extern_uart_tx * (IF Pin(ui_in, 0) = 1 THEN 2^7 ELSE 2^4)

-----------------------------------------------------------------------------
(* Reset and clock.                                                        *)

ResetTx ==
    /\ tx' = [state |-> "TX_IDLE", counter |-> 0, bit_number |-> 0, data |-> Bits(0)]
    /\ data_sent' = 0 /\ uart_tx_wire' = 1

ResetRx ==
    /\ rx' = [r1 |-> 1, r2 |-> 1, state |-> "RX_IDLE", counter |-> 0, bit_number |-> 0]
    /\ rx_data' = Bits(0) /\ rx_data_en' = 1

ResetPacket ==
    /\ prx' = [state |-> "RX_IDLE", idx |-> 0] /\ rx_packet' = NoBytes
    /\ rx_packet_ready' = 0
    /\ ptx' = [state |-> "TX_IDLE", idx |-> 0] /\ tx_data' = 0 /\ tx_data_en' = 0
    /\ tx_packet_sent' = 0

ResetCp ==
    /\ cp' = [cp EXCEPT
           !.state = "CP_IDLE", !.delay_counter = 0, !.delay_cycles = 1,
           !.delay_restore_state = "CP_IDLE", !.wait_restore_state = "CP_IDLE",
           !.mem_op_restore_state = "CP_IDLE", !.debug_pkt_type = REQUEST,
           !.pkt_id = 0, !.pkt_cmd = 0, !.pkt_sub_cmd = 0, !.tx_cmd_id = 0,
           !.mem_fetch_addr = 0, !.mem_write_addr = 0, !.mem_val = 0,
           !.op_1 = 0, !.op_2 = 0]
    /\ tx_packet' = NoBytes /\ tx_packet_ready' = 0

\* The blocks that are there take a step, the inputs stay.
Each(Txs, Rxs, Packets, Cps) ==
    /\ IF "UARTTx" \in Blocks THEN Txs ELSE UNCHANGED transmitter
    /\ IF "UARTRx" \in Blocks THEN Rxs ELSE UNCHANGED receiver
    /\ IF "UARTPacket" \in Blocks THEN Packets ELSE UNCHANGED <<packetReceiver, packetSender>>
    /\ IF "CommandProcessor" \in Blocks THEN Cps ELSE UNCHANGED processor

\* Resets are asynchronous.
ResetDesign == Each(ResetTx, ResetRx, ResetPacket, ResetCp)

\* One rising edge.
Edge ==
    /\ IF extern_reset = 1 THEN UNCHANGED design
       ELSE Each(TxClock, RxClock, PacketRxClock /\ PacketTxClock, CpClock)
    /\ seen' = <<driven, seen[1]>>
    /\ Rise
    /\ UNCHANGED <<bench, extern_uart_rx, ui_in, extern_reset, driven>>

Same(v) == v' = v

TxStill == "UARTTx" \in Blocks => ENABLED (TxClock /\ Same(transmitter))
RxStill == "UARTRx" \in Blocks => ENABLED (RxClock /\ Same(receiver))

\* At the next edge nothing happens but that the UART counts.
Quiet ==
    /\ extern_reset = 0
    /\ "CommandProcessor" \in Blocks => ENABLED (CpClock /\ Same(processor))
    /\ "UARTPacket" \in Blocks =>
        /\ ENABLED (PacketRxClock /\ Same(packetReceiver))
        /\ ENABLED (PacketTxClock /\ Same(packetSender))
    /\ "UARTRx" \in Blocks => rx.r1 = extern_uart_rx /\ rx.r2 = extern_uart_rx
    /\ seen = <<driven, driven>>

\* Edges at which the counter only counts.
TxLeft == IF tx.counter = 0 THEN 0 ELSE DELAY_WAIT - tx.counter
RxLeft ==
    CASE rx.state = "RX_IDLE"  -> 0
      [] rx.state = "RX_START" -> DELAY_WAIT \div 2 - rx.counter
      [] OTHER                 -> DELAY_WAIT - rx.counter

\* Edges before the timer ends.
SleepLeft == IF edge < wake THEN (wake - 1 - edge) \div Ticks + 1 ELSE 0

Least(S) == CHOOSE n \in S : \A k \in S : n <= k

Skipped ==
    IF Quiet THEN Least({SleepLeft} \cup (IF TxStill THEN {} ELSE {TxLeft})
                                    \cup (IF RxStill THEN {} ELSE {RxLeft}))
    ELSE 0

\* As many edges as only count, one after the other.
Skip(n) ==
    /\ Doing("asleep")
    /\ tx' = IF TxStill THEN tx ELSE [tx EXCEPT !.counter = @ + n]
    /\ rx' = IF RxStill THEN rx ELSE [rx EXCEPT !.counter = @ + n]
    /\ wake' = wake - (edge + (n - 1) * Ticks)
    /\ edge' = Ticks
    /\ UNCHANGED <<script, data_sent, uart_tx_wire, rx_data, rx_data_en, packetReceiver,
                   packetSender, processor, bench, extern_uart_rx, ui_in, extern_reset,
                   driven, seen>>

Clocked == LET n == Skipped IN IF n > 0 THEN Skip(n) ELSE Edge
=============================================================================
