------------------------------ MODULE HwModule ------------------------------
(***************************************************************************)
(* The mailboxes through which the functional model's hardware blocks talk *)
(* (HwModule::messages).  An entry holds data with ack = FALSE or no data  *)
(* with ack = TRUE, so one value says both: a packet, or NoMsg.  The two   *)
(* HwModule objects, HwInterface and HwCp, own disjoint keys and are kept  *)
(* in one function.  Each operation runs under mtx_messages: one step.     *)
(***************************************************************************)
EXTENDS PreinceptionDefs

VARIABLE messages

PKT_TO_DEVICE == "to_device"    \* in HwInterface, written by the host
PKT_TO_CP     == "to_cp"        \* in HwCp, written by HwInterface's rx thread
PKT_FROM_CP   == "from_cp"      \* in HwInterface, written by HwCp

Mailbox == {PKT_TO_DEVICE, PKT_TO_CP, PKT_FROM_CP}

MessagesTypeOK == messages \in [Mailbox -> Packet \cup {NoMsg}]

MessagesInit == messages = [b \in Mailbox |-> NoMsg]

\* push_message overwrites whatever the mailbox still holds.
PushMessage(b, p) == messages' = [messages EXCEPT ![b] = p]

\* get_message, on a mailbox that holds a packet: reads messages[b], clears it.
TakeMessage(b) ==
    /\ messages[b] # NoMsg
    /\ messages' = [messages EXCEPT ![b] = NoMsg]

\* get_message_ack: the reader has taken what was pushed.
MessageAck(b) == messages[b] = NoMsg
=============================================================================
