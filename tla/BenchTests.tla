----------------------------- MODULE BenchTests -----------------------------
(***************************************************************************)
(* The cocotb tests of rtl_testbench/, statement by statement.  A test     *)
(* never waits for the design: it sets and asserts pins after fixed times. *)
(***************************************************************************)
EXTENDS BenchDesign

-----------------------------------------------------------------------------
(* Statements.                                                             *)

freq      == IF OnChip THEN 50000000 ELSE 27000000
baud_rate == 9600
bit_hold  == (Ticks * freq) \div baud_rate
Hold      == <<Wait(bit_hold)>>

Set(pin, value)     == [op |-> "set", pin |-> pin, value |-> value]
Assert(pin, value)  == [op |-> "assert", pin |-> pin, value |-> value]
Reset(value)        == [op |-> "reset", value |-> value]
Pins(value)         == [op |-> "pins", value |-> value]

\* The line is set, or asserted, to be a bit; at is <<byte, bit>> of a packet.
Rx1(bit, at)        == [op |-> "rx", bit |-> bit, at |-> at]
Tx1(bit, at)        == [op |-> "tx", bit |-> bit, at |-> at]

\* Start bit, byte and stop bit.
Frame(n) == <<0>> \o Bits(n) \o <<1>>

\* Bits of one byte, from number first on, each held.
BitByBit(Op(_, _), bits, byte, first) ==
    [n \in 1 .. 2 * Len(bits) |->
        IF n % 2 = 1 THEN Op(bits[(n + 1) \div 2], <<byte, first + n \div 2>>)
                     ELSE Wait(bit_hold)]

\* Frames to be driven or asserted one after the other.
send_rx_bits(frames, first)   == <<[op |-> "send", frames |-> frames, byte |-> first]>>
assert_tx_bits(frames, first) == <<[op |-> "check", frames |-> frames, byte |-> first]>>

Frames(p)        == [b \in 1 .. 6 |-> Frame(Flatten(p)[b])]
send_packet(p)   == send_rx_bits(Frames(p), 1)
assert_packet(p) == assert_tx_bits(Frames(p), 1)

\* The unit benches start the clock and reset for a clock.
Start(inputs, inReset) ==
    inputs \o <<RisingEdge, Clocks(1), Reset(1)>> \o inReset
    \o <<Clocks(1), Reset(0), Clocks(1)>>

-----------------------------------------------------------------------------
(* uart_tx.py: each bit is asserted when a bit_hold is over.               *)

SendByte(n) ==
    <<Set("tx_data", n), Set("tx_data_en", 1)>> \o Hold
    \o BitByBit(Tx1, Frame(n), 0, 1) \o <<Assert("data_sent", 1)>> \o Hold

uart_tx ==
    Start(<<Set("tx_data_en", 0)>>, <<>>)
    \o <<Tx1(1, <<0, 0>>), Assert("data_sent", 0)>>
    \o SendByte(172) \o <<Set("tx_data_en", 0)>> \o Hold \o SendByte(221)

-----------------------------------------------------------------------------
(* uart_rx.py                                                              *)

uart_rx ==
    LET drive(bits, first) == BitByBit(Rx1, bits, 1, first) IN
    Start(<<Rx1(1, <<0, 0>>)>>, <<>>) \o <<Assert("rx_data", Bits(0))>>
    \o drive(Frame(169), 1) \o <<Assert("rx_data_en", 1), Assert("rx_data", Bits(169))>>
    \o drive(<<0>>, 1) \o <<Assert("rx_data_en", 0)>>
    \o drive(Tail(Frame(211)), 2)
    \o <<Assert("rx_data_en", 1), Assert("rx_data", Bits(211))>>

-----------------------------------------------------------------------------
(* uart_packet.py                                                          *)

\* tx_packet_sent stays down until all six bytes are out.
uart_packet_transmit ==
    LET byte(i, n, sent) == assert_tx_bits(<<Frame(n)>>, i)
                            \o <<Assert("tx_packet_sent", sent)>> IN
    Start(<<>>, <<>>)
    \o <<Set("tx_packet", <<33, 32, 2, 4, 0, 0>>), Set("tx_packet_ready", 1), Clocks(3)>>
    \o Hold \o <<Assert("tx_packet_sent", 0)>>
    \o byte(1, 33, 0) \o byte(2, 32, 0) \o byte(3, 2, 0) \o byte(4, 4, 0) \o byte(5, 0, 0)
    \o byte(6, 0, 1)

\* Two packets that follow each other at once.
uart_packet_receive ==
    LET frames(bytes, m, n) == [i \in 1 .. n - m + 1 |-> Frame(bytes[m + i - 1])]
        packet(bytes) == send_rx_bits(frames(bytes, 1, 2), 1) \o <<Assert("rx_packet_ready", 0)>>
                         \o send_rx_bits(frames(bytes, 3, 6), 3)
                         \o <<Assert("rx_packet_ready", 1), Assert("rx_packet", bytes)>>
    IN  Start(<<>>, <<>>) \o packet(<<129, 66, 8, 9, 5, 3>>)
        \o packet(<<50, 16, 11, 11, 11, 11>>)

-----------------------------------------------------------------------------
(* command_processor.py: the test takes the place of the packet layer.     *)

VAL_1 == 65
VAL_2 == 43

Expect(p) == <<Assert("tx_packet_ready", 1), Assert("tx_packet", Flatten(p))>>

\* rx_packet_ready falls for one clock before each packet but the first.
Give(p) ==
    <<Set("rx_packet_ready", 0), Clocks(1), Set("rx_packet", Flatten(p)),
      Set("rx_packet_ready", 1)>>

command_processor_handshake ==
    Start(<<>>, <<>>)
    \o <<Set("rx_packet", Flatten(Payload(1, REQUEST, HANDSHAKE, 0, 0))),
         Set("rx_packet_ready", 1), Clocks(8)>>
    \o Expect(Payload(1, RESPONSE, HANDSHAKE, 0, HandshakeBody))
    \o <<Set("tx_packet_sent", 1)>>

GiveOperand(id, sub_cmd, addr, val) ==
    Give(Payload(id, REQUEST, ADD, sub_cmd, addr)) \o <<Clocks(8)>>
    \o Expect(Payload(1, REQUEST, MEMORY, MEM_READ, addr))
    \o Give(Payload(1, RESPONSE, MEMORY, MEM_READ, val)) \o <<Clocks(12)>>
    \o Expect(Payload(id, RESPONSE, ADD, sub_cmd, 0)) \o <<Clocks(12)>>

command_processor_add ==
    Start(<<>>, <<Set("rx_packet_ready", 0), Set("tx_packet_sent", 1)>>)
    \o GiveOperand(13, OP_1, 10, VAL_1) \o GiveOperand(14, OP_2, 25, VAL_2)
    \o Give(Payload(15, REQUEST, ADD, OP_3, 44)) \o <<Clocks(8)>>
    \o Expect(Payload(1, REQUEST, MEMORY, MEM_WRITE, 44)) \o <<Clocks(6)>>
    \o Expect(Payload(2, REQUEST, MEMORY, MEM_WRITE, VAL_1 + VAL_2))
    \o Give(Payload(2, RESPONSE, MEMORY, MEM_WRITE, 0))
    \o <<Set("tx_packet_sent", 0), Clocks(1), Set("tx_packet_sent", 1), Clocks(10)>>
    \o Expect(Payload(15, RESPONSE, ADD, OP_3, 0))

-----------------------------------------------------------------------------
(* tangnano20k_serial.py and tt_ihp26b.py.                                 *)

\* The address is the same in every test: the low six bits of A5, 53, 2F, FF.
ADDR == 37 + 19 * 2^6 + 47 * 2^12 + 63 * 2^18

Settle == <<Cycles(10)>>

reset  == (IF OnChip THEN <<Pins(0)>> ELSE <<>>)
          \o <<Reset(1)>> \o Settle \o <<Reset(0)>> \o Settle
rx_pin == <<IF OnChip THEN Pins(2^3) ELSE Rx1(1, <<0, 0>>)>> \o Settle

\* At the end of a command.
Pause == IF OnChip THEN <<>> ELSE <<Wait(64 * bit_hold)>>

Handshake ==
    send_packet(Payload(1, REQUEST, HANDSHAKE, 0, 0))
    \o assert_packet(Payload(1, RESPONSE, HANDSHAKE, 0, HandshakeBody))

\* An operand's command, whose second byte may lack its stop bit; the memory
\* read that fetches it; and the response.
Operand(id, cmd, sub_cmd, stop, val) ==
    send_rx_bits([Frames(Payload(id, REQUEST, cmd, sub_cmd, ADDR)) EXCEPT ![2][10] = stop], 1)
    \o assert_packet(Payload(1, REQUEST, MEMORY, MEM_READ, ADDR))
    \o send_packet(Payload(1, RESPONSE, MEMORY, MEM_READ, val))
    \o assert_packet(Payload(id, RESPONSE, cmd, sub_cmd, 0)) \o Pause

\* The command that computes, and the memory write of its result.
Execute(id, cmd, result) ==
    send_packet(Payload(id, REQUEST, cmd, OP_3, ADDR))
    \o assert_packet(Payload(1, REQUEST, MEMORY, MEM_WRITE, ADDR))
    \o assert_packet(Payload(2, REQUEST, MEMORY, MEM_WRITE, result))
    \o send_packet(Payload(2, RESPONSE, MEMORY, MEM_WRITE, 0))
    \o assert_packet(Payload(id, RESPONSE, cmd, OP_3, 0)) \o Pause

Command(cmd, stop, val_1, val_2, result) ==
    Operand(1, cmd, OP_1, stop, val_1) \o Operand(2, cmd, OP_2, 1, val_2)
    \o Execute(3, cmd, result)

reset_test ==
    IF OnChip THEN <<Assert("uo_out", 80), Pins(1)>> \o Settle \o <<Assert("uo_out", 192)>>
    ELSE <<Assert("extern_uart_rx", 1), Tx1(1, <<0, 0>>)>>
handshake_test   == Handshake \o Pause
uart_select_test == Handshake \o <<Pins(1)>> \o Settle \o Handshake
op1_test         == Operand(1, ADD, OP_1, 0, ADDR)
op2_test         == Operand(1, ADD, OP_2, 0, ADDR)
add_cmd_test     == Command(ADD, 0, 3, 3, 6)
mulp2_cmd_test   == Command(MULP2, 1, 3, 3, 24)
divp2_cmd_test   == Command(DIVP2, 1, 16, 3, 2)

TopTests ==
    {reset_test, handshake_test, op1_test, op2_test, add_cmd_test, mulp2_cmd_test,
     divp2_cmd_test} \cup (IF OnChip THEN {uart_select_test} ELSE {})

\* The tests of the tops reset first, so their order makes no difference; those
\* of a unit bench run one after the other, or the second alone.
Tests ==
    CASE bench = "uart_tx"     -> {uart_tx}
      [] bench = "uart_rx"     -> {uart_rx}
      [] bench = "uart_packet" -> {uart_packet_transmit \o uart_packet_receive,
                                   uart_packet_receive}
      [] bench = "command_processor" ->
            {command_processor_handshake \o command_processor_add, command_processor_add}
      [] OTHER -> {reset \o rx_pin \o test : test \in TopTests}
=============================================================================
