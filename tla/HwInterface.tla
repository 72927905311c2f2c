----------------------------- MODULE HwInterface -----------------------------
(***************************************************************************)
(* The host interface of the functional model.  Two threads, each run once *)
(* per clock tick, carry packets between the host and the command          *)
(* processor: execute_rx from to_device to to_cp, execute_tx from from_cp  *)
(* to the list driver_payload, which the host polls.  Taking a packet and  *)
(* handing it on are separate critical sections, so each thread holds the  *)
(* packet in between (rx_msg, tx_msg): by then the sender already sees the *)
(* acknowledgement.                                                        *)
(***************************************************************************)
EXTENDS HwModule, Sequences

VARIABLES
    rx_msg,         \* packet in the hands of execute_rx, or NoMsg
    tx_msg,         \* packet in the hands of execute_tx, or NoMsg
    driver_payload  \* packets for the host, oldest first

InterfaceTypeOK ==
    /\ rx_msg \in Packet \cup {NoMsg}
    /\ tx_msg \in Packet \cup {NoMsg}
    /\ driver_payload \in Seq(Packet)

InterfaceInit ==
    /\ rx_msg = NoMsg
    /\ tx_msg = NoMsg
    /\ driver_payload = <<>>

RxTake ==
    /\ rx_msg = NoMsg
    /\ TakeMessage(PKT_TO_DEVICE)
    /\ rx_msg' = messages[PKT_TO_DEVICE]
    /\ UNCHANGED <<tx_msg, driver_payload>>

RxPush ==
    /\ rx_msg # NoMsg
    /\ PushMessage(PKT_TO_CP, rx_msg)
    /\ rx_msg' = NoMsg
    /\ UNCHANGED <<tx_msg, driver_payload>>

TxTake ==
    /\ tx_msg = NoMsg
    /\ TakeMessage(PKT_FROM_CP)
    /\ tx_msg' = messages[PKT_FROM_CP]
    /\ UNCHANGED <<rx_msg, driver_payload>>

TxPush ==
    /\ tx_msg # NoMsg
    /\ driver_payload' = Append(driver_payload, tx_msg)
    /\ tx_msg' = NoMsg
    /\ UNCHANGED <<messages, rx_msg>>

execute_rx == RxTake \/ RxPush
execute_tx == TxTake \/ TxPush
==============================================================================
