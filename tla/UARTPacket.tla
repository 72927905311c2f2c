----------------------------- MODULE UARTPacket -----------------------------
(***************************************************************************)
(* The packet layer of the FPGA (uart_packet.v): bytes of UARTRx are       *)
(* gathered into packets of six, and packets of the command processor are  *)
(* handed to UARTTx byte by byte.  PacketRxClock and PacketTxClock are the *)
(* two always blocks at a rising edge.  A packet is the sequence of its    *)
(* bytes.                                                                  *)
(***************************************************************************)
EXTENDS Integers, Sequences

CONSTANT Byte

VARIABLES
    rx_data, rx_data_en,    \* wires in, from UARTRx
    prx,                    \* receiver's registers [state, idx]
    rx_packet,              \* wires out, to the command processor
    rx_packet_ready,

    tx_packet,              \* wires in, from the command processor
    tx_packet_ready,
    data_sent,              \* wire in, from UARTTx
    ptx,                    \* transmitter's registers [state, idx]
    tx_data, tx_data_en,    \* wires out, to UARTTx
    tx_packet_sent          \* wire out, to the command processor

packetRxVars == <<prx, rx_packet, rx_packet_ready>>
packetTxVars == <<ptx, tx_data, tx_data_en, tx_packet_sent>>

NoBytes == [i \in 1 .. 6 |-> 0]

PacketTypeOK ==
    /\ prx \in [state : {"RX_IDLE", "RX_RECEIVE_WAIT", "RX_RECEIVE", "RX_END"}, idx : 0 .. 6]
    /\ rx_packet \in [1 .. 6 -> Byte]
    /\ rx_packet_ready \in {0, 1}
    /\ ptx \in [state : {"TX_IDLE", "TX_SEND", "TX_SEND_WAIT", "TX_END"}, idx : 0 .. 6]
    /\ tx_data \in Byte
    /\ tx_data_en \in {0, 1}
    /\ tx_packet_sent \in {0, 1}

PacketInit ==
    /\ prx = [state |-> "RX_IDLE", idx |-> 0]
    /\ rx_packet = NoBytes
    /\ rx_packet_ready = 0
    /\ ptx = [state |-> "TX_IDLE", idx |-> 0]
    /\ tx_data = 0
    /\ tx_data_en = 0
    /\ tx_packet_sent = 0

-----------------------------------------------------------------------------
(* Receiving.                                                              *)

\* The first byte after a reset.
PacketRxIdle ==
    /\ prx.state = "RX_IDLE"
    /\ IF rx_data_en = 0
       THEN prx' = [state |-> "RX_RECEIVE", idx |-> 0] /\ rx_packet' = NoBytes
       ELSE UNCHANGED <<prx, rx_packet>>
    /\ UNCHANGED rx_packet_ready

PacketRxReceive ==
    /\ prx.state = "RX_RECEIVE"
    /\ IF rx_data_en = 1
       THEN /\ rx_packet' = [rx_packet EXCEPT ![prx.idx + 1] = rx_data]
            /\ prx' = [state |-> "RX_RECEIVE_WAIT", idx |-> prx.idx + 1]
       ELSE UNCHANGED <<prx, rx_packet>>
    /\ UNCHANGED rx_packet_ready

PacketRxReceiveWait ==
    /\ prx.state = "RX_RECEIVE_WAIT"
    /\ prx' = IF prx.idx = 6 THEN [prx EXCEPT !.state = "RX_END"]
              ELSE IF rx_data_en = 0 THEN [prx EXCEPT !.state = "RX_RECEIVE"]
              ELSE prx
    /\ UNCHANGED <<rx_packet, rx_packet_ready>>

\* The packet stays ready until the next one begins, and is then overwritten
\* byte by byte.
PacketRxEnd ==
    /\ prx.state = "RX_END"
    /\ IF rx_data_en = 0
       THEN rx_packet_ready' = 0 /\ prx' = [state |-> "RX_RECEIVE", idx |-> 0]
       ELSE rx_packet_ready' = 1 /\ UNCHANGED prx
    /\ UNCHANGED rx_packet

PacketRxClock ==
    \/ PacketRxIdle
    \/ PacketRxReceive
    \/ PacketRxReceiveWait
    \/ PacketRxEnd

-----------------------------------------------------------------------------
(* Sending.                                                                *)

PacketTxIdle ==
    /\ ptx.state = "TX_IDLE"
    /\ IF tx_packet_ready = 1
       THEN ptx' = [state |-> "TX_SEND", idx |-> 0] /\ UNCHANGED tx_packet_sent
       ELSE tx_packet_sent' = 0 /\ UNCHANGED ptx
    /\ UNCHANGED <<tx_data, tx_data_en>>

\* The request for the byte before is still up after a last byte: it is taken
\* back here, once UARTTx has sent it.
PacketTxSend ==
    /\ ptx.state = "TX_SEND"
    /\ IF data_sent = 0
       THEN /\ tx_data' = tx_packet[ptx.idx + 1]
            /\ tx_data_en' = 1
            /\ ptx' = [state |-> "TX_SEND_WAIT", idx |-> ptx.idx + 1]
       ELSE tx_data_en' = 0 /\ UNCHANGED <<ptx, tx_data>>
    /\ UNCHANGED tx_packet_sent

\* Mutant: the packet ends a byte early.
PacketTxSendWaitShort ==
    /\ ptx.state = "TX_SEND_WAIT"
    /\ IF data_sent = 0 THEN UNCHANGED <<ptx, tx_data_en>>
       ELSE IF ptx.idx = 5
       THEN ptx' = [ptx EXCEPT !.state = "TX_END"] /\ UNCHANGED tx_data_en
       ELSE ptx' = [ptx EXCEPT !.state = "TX_SEND"] /\ tx_data_en' = 0
    /\ UNCHANGED <<tx_data, tx_packet_sent>>

PacketTxSendWait ==
    /\ ptx.state = "TX_SEND_WAIT"
    /\ IF data_sent = 0 THEN UNCHANGED <<ptx, tx_data_en>>
       ELSE IF ptx.idx = 6
       THEN ptx' = [ptx EXCEPT !.state = "TX_END"] /\ UNCHANGED tx_data_en
       ELSE ptx' = [ptx EXCEPT !.state = "TX_SEND"] /\ tx_data_en' = 0
    /\ UNCHANGED <<tx_data, tx_packet_sent>>

PacketTxEnd ==
    /\ ptx.state = "TX_END"
    /\ IF tx_packet_ready = 0
       THEN tx_packet_sent' = 0 /\ ptx' = [ptx EXCEPT !.state = "TX_IDLE"]
       ELSE tx_packet_sent' = 1 /\ UNCHANGED ptx
    /\ UNCHANGED <<tx_data, tx_data_en>>

PacketTxClock ==
    \/ PacketTxIdle
    \/ PacketTxSend
    \/ PacketTxSendWait
    \/ PacketTxEnd
=============================================================================
