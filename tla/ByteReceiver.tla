---------------------------- MODULE ByteReceiver ----------------------------
(***************************************************************************)
(* What UARTRx promises the packet layer: rx_data_en goes down when a byte *)
(* begins and up when it is complete, and then rx_data is stable and       *)
(* rx_data_en stays up for at least MinHigh clocks, also between bytes     *)
(* that follow each other at once.                                         *)
(***************************************************************************)
EXTENDS Naturals

CONSTANTS
    Byte,
    Partial,    \* what rx_data may hold while a byte is coming in
    MinHigh

VARIABLES
    rx_data, rx_data_en,    \* wires out
    high                    \* clocks rx_data_en has been up, at most MinHigh

byteRxVars == <<rx_data, rx_data_en, high>>

Init == rx_data \in Byte /\ rx_data_en = 1 /\ high = MinHigh

OneMore == IF high < MinHigh THEN high + 1 ELSE high

Rest == rx_data_en = 1 /\ high' = OneMore /\ UNCHANGED <<rx_data, rx_data_en>>

Begin ==
    /\ rx_data_en = 1
    /\ high = MinHigh
    /\ rx_data' \in Partial
    /\ rx_data_en' = 0
    /\ high' = 0

Shift == rx_data_en = 0 /\ rx_data' \in Partial /\ UNCHANGED <<rx_data_en, high>>

Report(b) == rx_data_en = 0 /\ rx_data' = b /\ rx_data_en' = 1 /\ UNCHANGED high

Next == Rest \/ Begin \/ Shift \/ \E b \in Byte : Report(b)

Spec == Init /\ [][Next]_byteRxVars
=============================================================================
