--------------------------- MODULE Tangnano20kUart ---------------------------
(***************************************************************************)
(* The FPGA design (tangnano20k_serial.v): the command processor, the      *)
(* packet layer and the two halves of the UART on one clock.  Clock is one *)
(* rising edge: all blocks step together, each from the values the others  *)
(* held before the edge.                                                   *)
(*                                                                         *)
(* The UART is represented by the contracts UartLink shows it to keep: a   *)
(* byte takes any number of clocks.  The led is not driven.                *)
(***************************************************************************)
EXTENDS CommandProcessor, SerialPort

CONSTANTS MinHigh, MaxStop

ASSUME UartAssumption == MinHigh \in Nat /\ MaxStop \in Nat

VARIABLES
    prx, rx_data, rx_data_en, high,
    ptx, tx_data, tx_data_en, data_sent, phase, byte, stopped

INSTANCE UARTPacket

Transmitter == INSTANCE ByteTransmitter
Receiver    == INSTANCE ByteReceiver WITH Partial <- {0}

boardVars == <<cp, tx_packet, tx_packet_ready, prx, rx_packet, rx_packet_ready,
               ptx, tx_data, tx_data_en, tx_packet_sent, data_sent, phase, byte,
               stopped, rx_data, rx_data_en, high>>

BoardTypeOK ==
    /\ CpTypeOK
    /\ PacketTypeOK
    /\ data_sent \in {0, 1}
    /\ phase \in {"idle", "shift", "stop", "done"}
    /\ byte \in Byte
    /\ stopped \in 0 .. MaxStop
    /\ rx_data \in Byte
    /\ rx_data_en \in {0, 1}
    /\ high \in 0 .. MinHigh

\* After a reset.
BoardInit ==
    /\ CpInit
    /\ PacketInit
    /\ data_sent = 0 /\ phase = "idle" /\ byte = 0 /\ stopped = 0
    /\ rx_data = 0 /\ rx_data_en = 1 /\ high = MinHigh

\* The byte's last bit has been sent: the host's side has it.
TransmitterClock ==
    \/ /\ \/ Transmitter!Idle
          \/ Transmitter!Accept
          \/ Transmitter!Shift
          \/ Transmitter!StopBit
          \/ Transmitter!Acknowledge
       /\ UNCHANGED port_in
    \/ Transmitter!Deliver /\ port_in' = Append(port_in, byte)

ReceiverClock ==
    \/ /\ \/ Receiver!Rest
          \/ port_out # <<>> /\ Receiver!Begin
          \/ Receiver!Shift
       /\ UNCHANGED port_out
    \/ /\ port_out # <<>>
       /\ Receiver!Report(Head(port_out))
       /\ port_out' = Tail(port_out)

Clock ==
    /\ CpClock
    /\ PacketRxClock
    /\ PacketTxClock
    /\ TransmitterClock
    /\ ReceiverClock
==============================================================================
