--------------------------- MODULE RtlTestBenches ---------------------------
(***************************************************************************)
(* The RTL test benches: a test of BenchTests and the design of            *)
(* BenchDesign it drives.  Inputs no test has driven are at X in the       *)
(* simulator, which every branch that reads one takes as inactive.         *)
(***************************************************************************)
EXTENDS BenchTests

VARIABLES
    test_first, \* the simulator runs the test before an edge of the same time
    asserted    \* history: the packet being sent has been asserted

environment == <<bench, ui_in, extern_uart_rx, driven, extern_reset, test_first>>
vars == <<benchVars, design, environment, seen, asserted>>

Init ==
    /\ bench \in {"uart_tx", "uart_rx", "uart_packet", "command_processor",
                  "tangnano20k_serial", "tt_ihp26b"}
    /\ ClockInit
    /\ DesignInit
    /\ script \in Tests
    /\ test_first \in (IF bench = "command_processor" THEN BOOLEAN ELSE {FALSE})
    /\ asserted = TRUE

-----------------------------------------------------------------------------
(* The statements of a test.                                               *)

Given(pin, old) == IF Step.pin = pin THEN Step.value ELSE old

\* An input of the design, which it has no block to drive.
SetInput ==
    /\ Doing("set")
    /\ tx_data' = Given("tx_data", tx_data)
    /\ tx_data_en' = Given("tx_data_en", tx_data_en)
    /\ tx_packet' = Given("tx_packet", tx_packet)
    /\ tx_packet_ready' = Given("tx_packet_ready", tx_packet_ready)
    /\ rx_packet' = Given("rx_packet", rx_packet)
    /\ rx_packet_ready' = Given("rx_packet_ready", rx_packet_ready)
    /\ tx_packet_sent' = Given("tx_packet_sent", tx_packet_sent)
    /\ Done
    /\ UNCHANGED <<transmitter, receiver, prx, ptx, cp, environment, seen, asserted>>

SetReset ==
    /\ Doing("reset")
    /\ extern_reset' = Step.value
    /\ IF Step.value = 1 THEN ResetDesign /\ asserted' = TRUE ELSE UNCHANGED <<design, asserted>>
    /\ Done
    /\ UNCHANGED <<bench, ui_in, extern_uart_rx, driven, test_first, seen>>

DrivePins(pins) == ui_in' = pins /\ extern_uart_rx' = UartRxWire(pins)

SetPins ==
    /\ Doing("pins")
    /\ DrivePins(Step.value)
    /\ driven' = <<0, 0>>
    /\ Done
    /\ UNCHANGED <<design, bench, extern_reset, test_first, seen, asserted>>

\* On the chip the whole of ui_in is written, ui_in[0], which selects the pair
\* of pins, with it.
SetLine ==
    /\ Doing("rx")
    /\ IF OnChip THEN DrivePins(Step.bit * (IF Pin(ui_in, 0) = 0 THEN 2^3 ELSE 2^7))
       ELSE extern_uart_rx' = Step.bit /\ UNCHANGED ui_in
    /\ driven' = Step.at
    /\ Done
    /\ UNCHANGED <<design, bench, extern_reset, test_first, seen, asserted>>

\* The next frame that a helper of the test drives or asserts.
Expand(op, Op(_, _)) ==
    /\ Doing(op)
    /\ script' = IF Step.frames = <<>> THEN Tail(script)
                 ELSE BitByBit(Op, Head(Step.frames), Step.byte, 1)
                      \o <<[Step EXCEPT !.frames = Tail(@), !.byte = @ + 1]>> \o Tail(script)
    /\ UNCHANGED <<edge, wake>>

CallHelper ==
    /\ Expand("send", Rx1) \/ Expand("check", Tx1)
    /\ UNCHANGED <<design, environment, seen, asserted>>

\* What an assertion reads.
Output(pin) ==
    CASE pin = "data_sent"       -> data_sent
      [] pin = "rx_data"         -> rx_data
      [] pin = "rx_data_en"      -> rx_data_en
      [] pin = "tx_packet_sent"  -> tx_packet_sent
      [] pin = "rx_packet"       -> rx_packet
      [] pin = "rx_packet_ready" -> rx_packet_ready
      [] pin = "tx_packet"       -> tx_packet
      [] pin = "tx_packet_ready" -> tx_packet_ready
      [] pin = "extern_uart_rx"  -> extern_uart_rx
      [] pin = "uo_out"          -> uo_out

\* On the chip, the pin that ui_in[0] selects when the bit is sampled.
LineOut ==
    IF OnChip THEN Pin(uo_out, IF Pin(ui_in, 0) = 0 THEN 4 ELSE 7) ELSE extern_uart_tx

Check ==
    /\ Doing("assert") \/ Doing("tx")
    /\ asserted' = (asserted \/ Doing("tx") \/ Step.pin = "tx_packet")
    /\ Done
    /\ UNCHANGED <<design, environment, seen>>

\* A timer that ends at an edge: nothing says whether the simulator runs the
\* test or the edge first.  The timers of command_processor.py all last whole
\* clocks, so all of them do, and it runs the same one first every time.
TestAtEdge == bench = "command_processor" /\ wake = edge

Sleep ==
    /\ \/ Restart \/ Await \/ AwaitCycles
       \/ Resume /\ (TestAtEdge => test_first)
    /\ UNCHANGED <<design, environment, seen, asserted>>

Run ==
    /\ Clocked
    /\ TestAtEdge => ~test_first
    /\ asserted' = (asserted /\ ~(tx_packet_ready' > tx_packet_ready))
    /\ UNCHANGED test_first

TestOver == Finished /\ UNCHANGED vars

Next ==
    \/ SetInput
    \/ SetReset
    \/ SetPins
    \/ SetLine
    \/ CallHelper
    \/ Check
    \/ Sleep
    \/ Run
    \/ TestOver

Spec == Init /\ [][Next]_vars

-----------------------------------------------------------------------------
(* Properties.                                                             *)

\* Every assertion of every test holds, whichever of test and clock comes first
\* when they coincide, although the tests only count time: no packet that
\* command_processor.py asserts comes too late or has given way to the next
\* (lines 26-131), and over a whole command the bits that the tests of the tops
\* sample never drift to a wrong level (tangnano20k_serial.py:5-10,
\* tt_ihp26b.py:5-14).
AssertionsHold ==
    /\ Doing("assert") => Output(Step.pin) = Step.value
    /\ Doing("tx")     => LineOut = Step.bit

\* A test never samples a neighbour that happens to have the same level: each
\* sample is taken while the very bit it is meant for is on the line.  The test
\* takes one per bit_hold from one point in time on; a bit lasts up to half a
\* clock longer, and the packet layer pauses between bytes
\* (uart_tx.py:31-82, uart_packet.py:5-10, tangnano20k_serial.py:5-25).
SamplesItsBit ==
    Doing("tx") /\ Step.at # <<0, 0>>
    => <<ptx.idx, IF OnChip THEN TtTx!BitOnLine ELSE Tx!BitOnLine>> = Step.at

\* The receiver takes every bit from the bit of the line it is meant for: also
\* in the byte after one whose stop bit is 0, which it begins half a bit early
\* (tangnano20k_serial.py:84-88), and although the reset of the tapeout's tests
\* holds the line low, so that a byte nobody sends is begun (tt_ihp26b.py:40-47).
TakesItsBit ==
    [][rx.state = "RX_READ" /\ rx.bit_number' = rx.bit_number + 1
       => seen[2] = <<IF prx.state \in {"RX_IDLE", "RX_END"} THEN 1 ELSE prx.idx + 1,
                      rx.bit_number + 2>>]_vars

\* Between two packets that the processor sends there is an assertion of the
\* test: nothing it sends goes by unlooked at (command_processor.py:69-131,
\* tangnano20k_serial.py:23-25).
NothingUnasserted == [][tx_packet_ready' > tx_packet_ready => asserted]_vars
=============================================================================
