------------------------------- MODULE UARTTx -------------------------------
(***************************************************************************)
(* The byte transmitter (uart_tx.v): a start bit, eight bits, low one      *)
(* first, and a stop bit, each held for DELAY_WAIT + 1 clocks.  TxClock is *)
(* one rising edge of the clock: every register takes the value computed   *)
(* from what the registers and wires were before it.                       *)
(***************************************************************************)
EXTENDS Integers, Sequences

CONSTANT DELAY_WAIT     \* clocks per bit, less one

Bit == {0, 1}
UartByte == [1 .. 8 -> Bit]

VARIABLES
    tx_data, tx_data_en,    \* wires in: a byte, and the request to send it
    tx,                     \* registers [state, counter, bit_number, data]
    data_sent,              \* wire out: the byte has been sent
    extern_uart_tx          \* the line

txVars == <<tx, data_sent, extern_uart_tx>>

TxTypeOK ==
    /\ tx \in [state : {"TX_IDLE", "TX_START", "TX_WRITE", "TX_STOP"},
               counter : 0 .. DELAY_WAIT, bit_number : 0 .. 7, data : UartByte]
    /\ data_sent \in Bit
    /\ extern_uart_tx \in Bit

\* After a reset.
TxInit ==
    /\ tx = [state |-> "TX_IDLE", counter |-> 0, bit_number |-> 0,
             data |-> [i \in 1 .. 8 |-> 0]]
    /\ data_sent = 0
    /\ extern_uart_tx = 1

\* Hold the line for a whole bit, then go on with next.
HoldBit(next) ==
    tx' = IF tx.counter = DELAY_WAIT THEN [next EXCEPT !.counter = 0]
          ELSE [tx EXCEPT !.counter = @ + 1]

TxIdle ==
    /\ tx.state = "TX_IDLE"
    /\ tx_data_en = 0
    /\ data_sent' = 0
    /\ extern_uart_tx' = 1
    /\ UNCHANGED tx

TxAccept ==
    /\ tx.state = "TX_IDLE"
    /\ tx_data_en = 1
    /\ tx' = [state |-> "TX_START", counter |-> 0, bit_number |-> 0, data |-> tx_data]
    /\ UNCHANGED <<data_sent, extern_uart_tx>>

TxStart ==
    /\ tx.state = "TX_START"
    /\ extern_uart_tx' = 0
    /\ HoldBit([tx EXCEPT !.state = "TX_WRITE"])
    /\ UNCHANGED data_sent

TxWrite ==
    /\ tx.state = "TX_WRITE"
    /\ extern_uart_tx' = tx.data[tx.bit_number + 1]
    /\ HoldBit(IF tx.bit_number = 7 THEN [tx EXCEPT !.state = "TX_STOP"]
               ELSE [tx EXCEPT !.bit_number = @ + 1])
    /\ UNCHANGED data_sent

\* Mutant: the stop bit is left at once.
TxStopShort ==
    /\ tx.state = "TX_STOP"
    /\ extern_uart_tx' = 1
    /\ IF tx_data_en = 0
       THEN data_sent' = 0 /\ tx' = [tx EXCEPT !.state = "TX_IDLE", !.counter = 0]
       ELSE data_sent' = 1 /\ UNCHANGED tx

\* Mutant: the next byte is taken without waiting for the request to go down.
TxStopNoWait ==
    /\ tx.state = "TX_STOP"
    /\ extern_uart_tx' = 1
    /\ IF tx.counter # DELAY_WAIT
       THEN tx' = [tx EXCEPT !.counter = @ + 1] /\ UNCHANGED data_sent
       ELSE data_sent' = 1 /\ tx' = [tx EXCEPT !.state = "TX_IDLE", !.counter = 0]

\* The stop bit; data_sent stays up until the request goes down.
TxStop ==
    /\ tx.state = "TX_STOP"
    /\ extern_uart_tx' = 1
    /\ IF tx.counter # DELAY_WAIT
       THEN tx' = [tx EXCEPT !.counter = @ + 1] /\ UNCHANGED data_sent
       ELSE IF tx_data_en = 0
       THEN data_sent' = 0 /\ tx' = [tx EXCEPT !.state = "TX_IDLE", !.counter = 0]
       ELSE data_sent' = 1 /\ UNCHANGED tx

TxClock == TxIdle \/ TxAccept \/ TxStart \/ TxWrite \/ TxStop

\* The bit of the byte the line shows, 1 is the start bit: a bit is put on the
\* line at the first edge of its state, which is the one that counts to 1.
BitOnLine ==
    LET bit == CASE tx.state = "TX_START" -> 1
                 [] tx.state = "TX_WRITE" -> tx.bit_number + 2
                 [] tx.state = "TX_STOP"  -> 10
                 [] OTHER -> 0
    IN  IF tx.counter = 0 THEN bit - 1 ELSE bit
=============================================================================
