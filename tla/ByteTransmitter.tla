-------------------------- MODULE ByteTransmitter --------------------------
(***************************************************************************)
(* What UARTTx promises the packet layer: a request is taken with the byte *)
(* that is on the wires at that clock, the byte is sent some time later,   *)
(* and data_sent goes up once, at most MaxStop clocks into the stop bit,   *)
(* and stays up until the request goes down.  The byte reaches the other   *)
(* side when phase leaves "shift".                                         *)
(***************************************************************************)
EXTENDS Naturals

CONSTANTS
    Byte,
    MaxStop     \* clocks a stop bit may last, less one

VARIABLES
    tx_data, tx_data_en,    \* wires in
    data_sent,              \* wire out
    phase,                  \* idle, shift (sending), stop (sent), done (acknowledged)
    byte,                   \* the byte taken last
    stopped                 \* clocks spent in the stop bit

byteTxVars == <<data_sent, phase, byte, stopped>>

Init == data_sent = 0 /\ phase = "idle" /\ byte \in Byte /\ stopped = 0

Idle ==
    /\ phase = "idle"
    /\ tx_data_en = 0
    /\ data_sent' = 0
    /\ UNCHANGED <<phase, byte, stopped>>

Accept ==
    /\ phase = "idle"
    /\ tx_data_en = 1
    /\ phase' = "shift"
    /\ byte' = tx_data
    /\ UNCHANGED <<data_sent, stopped>>

Shift == phase = "shift" /\ UNCHANGED byteTxVars

Deliver == phase = "shift" /\ phase' = "stop" /\ UNCHANGED <<data_sent, byte, stopped>>

StopBit ==
    /\ phase = "stop"
    /\ stopped < MaxStop
    /\ stopped' = stopped + 1
    /\ UNCHANGED <<data_sent, phase, byte>>

Acknowledge ==
    /\ phase \in {"stop", "done"}
    /\ IF tx_data_en = 0 THEN phase' = "idle" /\ data_sent' = 0 /\ stopped' = 0
                         ELSE phase' = "done" /\ data_sent' = 1 /\ UNCHANGED stopped
    /\ UNCHANGED byte

Next == Idle \/ Accept \/ Shift \/ Deliver \/ StopBit \/ Acknowledge

Spec == Init /\ [][Next]_byteTxVars
============================================================================
