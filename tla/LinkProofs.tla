------------------------------ MODULE LinkProofs ------------------------------
(***************************************************************************)
(* Type correctness of FunctionalSystem for every width, memory size and   *)
(* application; then proof that Baton is an invariant in builds with       *)
(* LOG_ENABLED, and what follows from it.                                  *)
(***************************************************************************)
EXTENDS LinkInvariant, AluProofs

\* A payload made of fields of the right types is a packet.
LEMMA PayloadPacket ==
    ASSUME NEW id \in Nibble, NEW type \in {REQUEST, RESPONSE},
           NEW cmd \in {MEMORY, HANDSHAKE, ADD, MULP2, DIVP2},
           NEW sub_cmd \in {OP_1, OP_2, OP_3, DEBUG}, NEW body \in Word
    PROVE  Payload(id, type, cmd, sub_cmd, body) \in Packet
BY DEF Payload, Packet

\* What a packet's fields are.
LEMMA PacketFields ==
    ASSUME NEW p \in Packet
    PROVE  /\ p.id \in Nibble
           /\ p.type \in {REQUEST, RESPONSE}
           /\ p.cmd \in {MEMORY, HANDSHAKE, ADD, MULP2, DIVP2}
           /\ p.sub_cmd \in {OP_1, OP_2, OP_3, DEBUG}
           /\ p.body \in Word
           /\ p # NoMsg
BY NoMsgAssumption DEF Packet

LEMMA ZeroWord == 0 \in Word
<1>1. WordBits \in 0 .. WordBits
  BY WordAssumption
<1>2. 2^WordBits \in Nat \ {0}
  BY <1>1, WordAssumption
<1> QED BY <1>2 DEF Word

-----------------------------------------------------------------------------
(* Initially.                                                              *)

LEMMA TypeInit == Init => TypeOK
<1> SUFFICES ASSUME Init PROVE TypeOK
  OBVIOUS
<1>1. MessagesTypeOK
  BY DEF Init, MessagesInit, MessagesTypeOK
<1>2. CpTypeOK
  <2>1. PICK g1, g2 \in Garbage :
            cp = [state |-> "IDLE", mem_op_restore_state |-> "IDLE",
                  wait_restore_state |-> "IDLE",
                  pkt |-> Payload(0, REQUEST, MEMORY, OP_1, 0),
                  mem_fetch_addr |-> 0, mem_write_addr |-> 0, mem_val |-> 0,
                  op1 |-> g1, op2 |-> g2, tx_cmd_id |-> 0]
    BY DEF Init, CpInit
  <2>2. Payload(0, REQUEST, MEMORY, OP_1, 0) \in Packet
    BY ZeroWord DEF Payload, Packet, Nibble
  <2>3. g1 \in Word /\ g2 \in Word
    BY CpAssumption
  <2> QED BY <2>1, <2>2, <2>3, ZeroWord DEF CpTypeOK, CpState, Nibble
<1>3. InterfaceTypeOK /\ ImplTypeOK
  BY ZeroWord DEF Init, InterfaceInit, InterfaceTypeOK, ImplInit, ImplTypeOK
<1>6. DriverTypeOK
  <2>1. mainPc \in MainPc /\ global_command_id \in Nat /\ recorded_commands \in Seq(Packet)
    BY DEF Init, DriverInit, MainPc
  <2>2. command_status_readback \in Seq([pkt : Packet, read : BOOLEAN])
    BY DEF Init, DriverInit
  <2>3. recv_running \in BOOLEAN /\ free_called \in BOOLEAN
    BY DEF Init, DriverInit
  <2>4. scratch \in Packet \cup {NoMsg}
    BY DEF Init, DriverInit
  <2> QED BY <2>1, <2>2, <2>3, <2>4 DEF DriverTypeOK
<1>4. MemoryTypeOK
  BY ZeroWord DEF Init, MemoryInit, MemoryTypeOK
<1>5. calls \in Seq(CallRecord) /\ executed \in Nat
  BY DEF Init
<1> QED BY <1>1, <1>2, <1>3, <1>4, <1>5, <1>6 DEF TypeOK

-----------------------------------------------------------------------------
(* The command processor.                                                  *)

LEMMA CpFields ==
    ASSUME CpTypeOK
    PROVE  /\ cp.pkt \in Packet
           /\ cp.mem_val \in Word /\ cp.op1 \in Word /\ cp.op2 \in Word
           /\ cp.mem_fetch_addr \in Word /\ cp.mem_write_addr \in Word
           /\ cp.state \in CpState /\ cp.tx_cmd_id \in Nibble
           /\ cp.mem_op_restore_state \in CpState /\ cp.wait_restore_state \in CpState
BY DEF CpTypeOK

\* Each branch of HwCp::execute keeps its registers and the mailboxes typed.
LEMMA CpTypeStep ==
    ASSUME CpTypeOK, MessagesTypeOK, CpExecuteTick
    PROVE  CpTypeOK' /\ MessagesTypeOK'
<1> USE CpFields
<1>a. ASSUME NEW b \in Mailbox, messages[b] # NoMsg PROVE messages[b] \in Packet
  BY <1>a DEF MessagesTypeOK
<1>b. ASSUME NEW b \in Mailbox, TakeMessage(b) PROVE MessagesTypeOK'
  BY <1>b DEF MessagesTypeOK, TakeMessage
<1>c. ASSUME NEW b \in Mailbox, NEW p \in Packet, PushMessage(b, p)
      PROVE  MessagesTypeOK'
  BY <1>c DEF MessagesTypeOK, PushMessage
<1>d. ASSUME UNCHANGED messages PROVE MessagesTypeOK'
  BY <1>d DEF MessagesTypeOK
<1>m. PKT_TO_CP \in Mailbox /\ PKT_FROM_CP \in Mailbox
  BY DEF Mailbox
<1>e. NextTxId \in Nibble
  BY DEF NextTxId, Nibble
<1>f. ASSUME NEW c \in [state : CpState, mem_op_restore_state : CpState,
                        wait_restore_state : CpState, pkt : Packet,
                        mem_fetch_addr : Word, mem_write_addr : Word,
                        mem_val : Word, op1 : Word, op2 : Word,
                        tx_cmd_id : Nibble],
             cp' = AfterMemOp(c)
      PROVE  CpTypeOK'
  BY <1>f DEF AfterMemOp, CpTypeOK, CpState
<1>g. ASSUME NEW from, NEW sub_cmd \in {OP_1, OP_2, OP_3, DEBUG}, NEW body \in Word,
             NEW to \in CpState, CpRequest(from, sub_cmd, body, to)
      PROVE  CpTypeOK' /\ MessagesTypeOK'
  <2>1. Payload(NextTxId, REQUEST, MEMORY, sub_cmd, body) \in Packet
    BY <1>e, PayloadPacket
  <2>2. MessagesTypeOK'
    BY <2>1, <1>c, <1>g, <1>m DEF CpRequest
  <2>3. CpTypeOK'
    BY <1>e, <1>g DEF CpRequest, CpTypeOK
  <2> QED BY <2>2, <2>3
<1>1. CASE CpIdle
  BY <1>1, <1>a, <1>b, <1>m DEF CpIdle, CpTypeOK, CpState, TakeMessage
<1>2. CASE CpDecode
  <2>1. Decoded(cp.pkt) \in CpState
    BY DEF Decoded, CpState
  <2> QED BY <1>2, <1>d, <2>1 DEF CpDecode, CpTypeOK
<1>3. CASE CpHandshake
  <2>1. Payload(cp.pkt.id, RESPONSE, cp.pkt.cmd, cp.pkt.sub_cmd, HandshakeBody) \in Packet
    BY WordAssumption DEF Payload, Packet
  <2>2. MessagesTypeOK'
    BY <2>1, <1>3, <1>c, <1>m DEF CpHandshake
  <2> QED BY <1>3, <2>2 DEF CpHandshake, CpTypeOK, CpState
<1>4. CASE CpDebugWriteRequest \/ CpDebugWriteResponse
  <2>1. DebugPayload(REQUEST) \in Packet /\ DebugPayload(RESPONSE) \in Packet
    BY PacketFields, PayloadPacket, ZeroWord DEF DebugPayload
  <2>2. MessagesTypeOK'
    BY <2>1, <1>4, <1>c, <1>m DEF CpDebugWriteRequest, CpDebugWriteResponse
  <2> QED BY <1>4, <2>2 DEF CpDebugWriteRequest, CpDebugWriteResponse, CpTypeOK, CpState
<1>5. CASE CpDebugWriteWait
  BY <1>5, <1>d DEF CpDebugWriteWait, CpTypeOK
<1>6. CASE CpMemFetch
  BY <1>6, <1>g DEF CpMemFetch, CpState, MEM_READ, OP_1
<1>7. CASE CpMemFetchWait
  <2> DEFINE p == messages[PKT_TO_CP]
  <2>1. p \in Packet
    BY <1>7, <1>a, <1>m DEF CpMemFetchWait, TakeMessage
  <2>2. MessagesTypeOK'
    BY <1>7, <1>b, <1>m DEF CpMemFetchWait
  <2>3. p.body \in Word
    BY <2>1, PacketFields
  <2>4. CASE Answers(p, MEM_READ)
    <3>1. cp' = AfterMemOp([cp EXCEPT !.mem_val = p.body])
      BY <1>7, <2>4 DEF CpMemFetchWait
    <3>2. [cp EXCEPT !.mem_val = p.body]
             \in [state : CpState, mem_op_restore_state : CpState,
                  wait_restore_state : CpState, pkt : Packet,
                  mem_fetch_addr : Word, mem_write_addr : Word,
                  mem_val : Word, op1 : Word, op2 : Word, tx_cmd_id : Nibble]
      BY <2>3 DEF CpTypeOK
    <3> QED BY <3>1, <3>2, <1>f, <2>2
  <2>5. CASE ~Answers(p, MEM_READ)
    BY <1>7, <2>2, <2>5 DEF CpMemFetchWait, CpTypeOK
  <2> QED BY <2>4, <2>5
<1>8. CASE CpMemWriteAddr
  BY <1>8, <1>g DEF CpMemWriteAddr, CpState, MEM_WRITE, OP_2
<1>9. CASE CpMemWriteValPrep
  BY <1>9, <1>d DEF CpMemWriteValPrep, CpTypeOK, CpState
<1>10. CASE CpMemWriteVal
  BY <1>10, <1>g DEF CpMemWriteVal, CpState, MEM_WRITE, OP_2
<1>11. CASE CpMemWriteWait
  <2>1. MessagesTypeOK'
    BY <1>11, <1>b, <1>m DEF CpMemWriteWait
  <2>2. cp' = AfterMemOp(cp) \/ cp' = cp
    BY <1>11 DEF CpMemWriteWait
  <2> QED BY <2>1, <2>2, <1>f DEF CpTypeOK
<1>12. CASE CpFetchOp1 \/ CpFetchOp2
  <2>1. cp.pkt.body \in Word
    BY PacketFields
  <2> QED BY <1>12, <1>d, <2>1 DEF CpFetchOp1, CpFetchOp2, CpTypeOK, CpState
<1>13. CASE CpFetchOp1End \/ CpFetchOp2End
  BY <1>13, <1>d DEF CpFetchOp1End, CpFetchOp2End, CpTypeOK, CpState
<1>14. ASSUME NEW s, NEW cmd \in {ADD, MULP2, DIVP2}, CpExecute(s, cmd)
       PROVE  CpTypeOK' /\ MessagesTypeOK'
  <2>1. cp.pkt.body \in Word
    BY PacketFields
  <2>2. Alu(cmd, cp.op1, cp.op2) \in Word
    BY AluWord
  <2> QED BY <1>14, <1>d, <2>1, <2>2 DEF CpExecute, CpTypeOK, CpState
<1>15. CASE CpCmdEnd
  <2>1. Payload(cp.pkt.id, RESPONSE, cp.pkt.cmd, cp.pkt.sub_cmd, 0) \in Packet
    BY ZeroWord DEF Payload, Packet
  <2>2. MessagesTypeOK'
    BY <2>1, <1>15, <1>c, <1>m DEF CpCmdEnd
  <2> QED BY <1>15, <2>2 DEF CpCmdEnd, CpTypeOK, CpState
<1>16. CASE CpCmdEndWait
  BY <1>16, <1>d DEF CpCmdEndWait, CpTypeOK, CpState
<1>17. CASE CpExecute("ADD", ADD) \/ CpExecute("MULP2", MULP2) \/ CpExecute("DIVP2", DIVP2)
  BY <1>14, <1>17
<1> QED BY <1>1, <1>2, <1>3, <1>4, <1>5, <1>6, <1>7, <1>8, <1>9, <1>10, <1>11,
           <1>12, <1>13, <1>15, <1>16, <1>17 DEF CpExecuteTick

-----------------------------------------------------------------------------
(* The interface threads and the host's receive thread.                    *)

\* Moving a packet between typed mailboxes, registers and lists.
LEMMA MoveTypes ==
    ASSUME MessagesTypeOK
    PROVE  /\ \A b \in Mailbox : messages[b] # NoMsg => messages[b] \in Packet
           /\ \A b \in Mailbox : TakeMessage(b) => MessagesTypeOK'
           /\ \A b \in Mailbox, p \in Packet : PushMessage(b, p) => MessagesTypeOK'
           /\ UNCHANGED messages => MessagesTypeOK'
BY DEF MessagesTypeOK, TakeMessage, PushMessage

LEMMA InterfaceTypeStep ==
    ASSUME InterfaceTypeOK, MessagesTypeOK, execute_rx \/ execute_tx
    PROVE  InterfaceTypeOK' /\ MessagesTypeOK'
<1>m. Mailbox = {PKT_TO_DEVICE, PKT_TO_CP, PKT_FROM_CP}
  BY DEF Mailbox
<1>1. CASE RxTake
  BY <1>1, <1>m, MoveTypes DEF RxTake, InterfaceTypeOK, TakeMessage
<1>2. CASE RxPush
  BY <1>2, <1>m, MoveTypes DEF RxPush, InterfaceTypeOK
<1>3. CASE TxTake
  BY <1>3, <1>m, MoveTypes DEF TxTake, InterfaceTypeOK, TakeMessage
<1>4. CASE TxPush
  BY <1>4, <1>m, MoveTypes DEF TxPush, InterfaceTypeOK
<1> QED BY <1>1, <1>2, <1>3, <1>4 DEF execute_rx, execute_tx

\* A packet read from a list, and what is left of the list.
LEMMA ListTypes ==
    ASSUME NEW s \in Seq(Packet)
    PROVE  /\ s # <<>> => Head(s) \in Packet /\ Tail(s) \in Seq(Packet)
           /\ PopFront(s) \in Seq(Packet)
           /\ \A p \in Packet : Append(s, p) \in Seq(Packet)
BY DEF PopFront

HostTypeOK == MessagesTypeOK /\ InterfaceTypeOK /\ MemoryTypeOK /\ ImplTypeOK

LEMMA ImplTypeStep ==
    ASSUME HostTypeOK,
           \/ ImplPoll \/ ImplQueue \/ ImplRead \/ ImplWriteAddr \/ ImplWriteVal
           \/ ImplDebugRequest \/ ImplDebugResponse \/ ImplRespond
    PROVE  HostTypeOK'
<1> USE DEF HostTypeOK
<1>m. Mailbox = {PKT_TO_DEVICE, PKT_TO_CP, PKT_FROM_CP}
  BY DEF Mailbox
<1>p. ASSUME impl_msg # NoMsg
      PROVE  /\ impl_msg \in Packet /\ impl_msg.body \in Word
             /\ \A body \in Word : MemResponse(impl_msg, body) \in Packet
  <2>1. impl_msg \in Packet
    BY <1>p DEF ImplTypeOK
  <2> QED BY <2>1, PacketFields, PayloadPacket DEF MemResponse
<1>1. CASE ImplPoll
  BY <1>1, ListTypes, MoveTypes
     DEF ImplPoll, InterfaceTypeOK, MemoryTypeOK, ImplTypeOK
<1>2. CASE ImplQueue
  BY <1>2, <1>p, ListTypes, MoveTypes
     DEF ImplQueue, InterfaceTypeOK, MemoryTypeOK, ImplTypeOK
<1>3. CASE ImplRead
  <2>1. PICK v \in MemoryRead(impl_msg.body) : impl_reply' = MemResponse(impl_msg, v)
    BY <1>3 DEF ImplRead
  <2>2. v \in Word
    BY <2>1, MemoryAssumption DEF MemoryRead, MemoryTypeOK
  <2>3. impl_reply' \in Packet
    BY <1>3, <1>p, <2>1, <2>2 DEF ImplRead, Processing
  <2> QED BY <1>3, <2>3, MoveTypes
          DEF ImplRead, Processing, InterfaceTypeOK, MemoryTypeOK, ImplTypeOK
<1>4. CASE ImplWriteAddr
  BY <1>4, <1>p, MoveTypes
     DEF ImplWriteAddr, Processing, InterfaceTypeOK, MemoryTypeOK, ImplTypeOK
<1>5. CASE ImplWriteVal
  <2>1. impl_reply' \in Packet
    BY <1>5, <1>p, ZeroWord DEF ImplWriteVal, Processing
  <2>2. MemoryTypeOK'
    BY <1>5, <1>p DEF ImplWriteVal, Processing, MemoryWrite, MemoryTypeOK
  <2> QED BY <1>5, <2>1, <2>2, MoveTypes
          DEF ImplWriteVal, Processing, InterfaceTypeOK, ImplTypeOK
<1>6. CASE ImplDebugRequest
  BY <1>6, ListTypes, MoveTypes
     DEF ImplDebugRequest, Processing, InterfaceTypeOK, MemoryTypeOK, ImplTypeOK
<1>7. CASE ImplDebugResponse
  BY <1>7, ListTypes, MoveTypes
     DEF ImplDebugResponse, Processing, InterfaceTypeOK, MemoryTypeOK, ImplTypeOK
<1>8. CASE ImplRespond
  <2>1. impl_reply \in Packet
    BY <1>8 DEF ImplRespond, ImplTypeOK
  <2>2. MessagesTypeOK'
    BY <1>8, <1>m, <2>1, MoveTypes DEF ImplRespond
  <2> QED BY <1>8, <2>1, <2>2, ListTypes
          DEF ImplRespond, InterfaceTypeOK, MemoryTypeOK, ImplTypeOK
<1> QED BY <1>1, <1>2, <1>3, <1>4, <1>5, <1>6, <1>7, <1>8

-----------------------------------------------------------------------------
(* The application's thread and the driver's receive thread.               *)

\* Three packets with consecutive ids, the first below 10.
LEMMA RecordType ==
    ASSUME HostTypeOK, DriverTypeOK,
           NEW cmd \in {ADD, MULP2, DIVP2}, NEW first \in Addr, NEW second \in Addr,
           NEW result \in Addr, Record(cmd, first, second, result)
    PROVE  recorded_commands' \in Seq(Packet) /\ global_command_id' \in Nat
<1> DEFINE g == drv_preproc(global_command_id)
<1>1. g \in 0 .. 9
  BY DEF DriverTypeOK, drv_preproc
<1>2. g \in Nibble /\ g + 1 \in Nibble /\ g + 2 \in Nibble /\ g + 3 \in Nat
  BY <1>1 DEF Nibble
<1> DEFINE p1 == Payload(g, REQUEST, cmd, OP_1, first)
           p2 == Payload(g + 1, REQUEST, cmd, OP_2, second)
           p3 == Payload(g + 2, REQUEST, cmd, OP_3, result)
<1>3. first \in Word /\ second \in Word /\ result \in Word
  BY MemoryAssumption
<1>4. p1 \in Packet /\ p2 \in Packet /\ p3 \in Packet
  <2> HIDE DEF g
  <2> QED BY <1>2, <1>3 DEF Payload, Packet
<1>5. recorded_commands' = recorded_commands \o <<p1, p2, p3>>
  BY DEF Record
<1>6. global_command_id' = g + 3
  BY DEF Record
<1>7. <<p1, p2, p3>> \in Seq(Packet)
  <2> HIDE DEF p1, p2, p3
  <2> QED BY <1>4
<1> HIDE DEF p1, p2, p3, g
<1> QED BY <1>2, <1>5, <1>6, <1>7 DEF DriverTypeOK

\* Steps of the driver that leave the device alone, and its three operations.
LEMMA DeviceTypes ==
    ASSUME HostTypeOK
    PROVE  /\ UNCHANGED deviceVars => HostTypeOK'
           /\ \A p \in Packet : SendRequest(p) => HostTypeOK'
           /\ \A p \in Packet : RememberRequest(p) => HostTypeOK'
           /\ TakeReceived => HostTypeOK' /\ Head(received_payloads) \in Packet
<1> USE DEF HostTypeOK
<1>1. ASSUME UNCHANGED deviceVars PROVE HostTypeOK'
  BY <1>1, MoveTypes DEF deviceVars, implVars, InterfaceTypeOK, MemoryTypeOK, ImplTypeOK
<1>2. ASSUME NEW p \in Packet, SendRequest(p) PROVE HostTypeOK'
  <2>1. MessagesTypeOK'
    BY <1>2, MoveTypes DEF SendRequest, Mailbox
  <2> QED BY <1>2, <2>1 DEF SendRequest, implVars, InterfaceTypeOK, MemoryTypeOK, ImplTypeOK
<1>3. ASSUME NEW p \in Packet, RememberRequest(p) PROVE HostTypeOK'
  BY <1>3, MoveTypes, ListTypes
     DEF RememberRequest, InterfaceTypeOK, MemoryTypeOK, ImplTypeOK
<1>4. ASSUME TakeReceived PROVE HostTypeOK' /\ Head(received_payloads) \in Packet
  BY <1>4, MoveTypes, ListTypes
     DEF TakeReceived, InterfaceTypeOK, MemoryTypeOK, ImplTypeOK
<1> QED BY <1>1, <1>2, <1>3, <1>4

\* Control variables of the driver other than its lists.
LEMMA GotoType ==
    ASSUME NEW from, NEW to \in MainPc, Goto(from, to)
    PROVE  mainPc' \in MainPc
BY DEF Goto

Readback == Seq([pkt : Packet, read : BOOLEAN])

\* The application's calls.
LEMMA AppTypeStep ==
    ASSUME HostTypeOK, DriverTypeOK, calls \in Seq(CallRecord), AppStep
    PROVE  HostTypeOK' /\ DriverTypeOK' /\ calls' \in Seq(CallRecord)
<1>1. CASE \E c \in Calls : RecordCall(c)
  <2>1. PICK c \in Calls : RecordCall(c)
    BY <1>1
  <2>2. c \in CallRecord
    BY ApplicationAssumption
  <2>3. /\ c.cmd \in {ADD, MULP2, DIVP2}
        /\ c.first \in Addr /\ c.second \in Addr /\ c.result \in Addr
    BY <2>2 DEF CallRecord
  <2>4. /\ Record(c.cmd, c.first, c.second, c.result)
        /\ UNCHANGED deviceVars
        /\ UNCHANGED <<mainPc, command_status_readback, recv_running, scratch, free_called>>
    BY <2>1 DEF RecordCall, Application, MAdd, MMulPow2, MDivPow2, MPow2
  <2>5. recorded_commands' \in Seq(Packet) /\ global_command_id' \in Nat
    BY <2>3, <2>4, RecordType
  <2>6. calls' \in Seq(CallRecord)
    BY <2>1, <2>2 DEF RecordCall
  <2> QED BY <2>4, <2>5, <2>6, DeviceTypes DEF DriverTypeOK
<1>2. CASE UNCHANGED history /\ \E v \in Vals : NewMInt(v)
  <2>1. PICK v \in Vals : NewMInt(v)
    BY <1>2
  <2>2. v \in Word
    BY ApplicationAssumption
  <2>3. MemoryTypeOK'
    <3>1. contents' \in [Addr -> Word]
      BY <2>1, <2>2 DEF NewMInt, AllocateAndWrite, MemoryTypeOK, HostTypeOK
    <3>2. allocation_ptr' \in Nat
      BY <2>1 DEF NewMInt, AllocateAndWrite, MemoryTypeOK, HostTypeOK
    <3> QED BY <3>1, <3>2 DEF MemoryTypeOK
  <2>4. HostTypeOK'
    BY <2>1, <2>3, MoveTypes DEF HostTypeOK, NewMInt, implVars, InterfaceTypeOK, ImplTypeOK
  <2> QED BY <1>2, <2>1, <2>4 DEF NewMInt, driverVars, DriverTypeOK, history
<1>3. CASE UNCHANGED history /\ \E a \in Addr, v \in Vals : SetValue(a, v)
  <2>1. PICK a \in Addr, v \in Vals : SetValue(a, v)
    BY <1>3
  <2>2. v \in Word
    BY ApplicationAssumption
  <2>3. MemoryTypeOK'
    BY <2>1, <2>2 DEF SetValue, MemoryWrite, MemoryTypeOK, HostTypeOK
  <2>4. HostTypeOK'
    BY <2>1, <2>3, MoveTypes DEF HostTypeOK, SetValue, implVars, InterfaceTypeOK, ImplTypeOK
  <2> QED BY <1>3, <2>1, <2>4 DEF SetValue, driverVars, DriverTypeOK, history
<1>4. CASE UNCHANGED history /\ \E c \in Calls : c.cmd # ADD /\ MPow2Rejected(c.second)
  <2>1. PICK c \in Calls : MPow2Rejected(c.second)
    BY <1>4
  <2>2. drv_preproc(global_command_id) \in Nat
    BY DEF drv_preproc, DriverTypeOK
  <2>3. mainPc' \in MainPc
    BY <2>1, GotoType DEF MPow2Rejected, MainPc
  <2> QED BY <1>4, <2>1, <2>2, <2>3, DeviceTypes DEF MPow2Rejected, DriverTypeOK, history
<1>5. CASE UNCHANGED history /\ MSync
  <2>1. mainPc' \in MainPc
    BY <1>5 DEF MSync, Goto, MainPc
  <2> QED BY <1>5, <2>1, DeviceTypes DEF MSync, DriverTypeOK, history
<1>6. CASE UNCHANGED history /\ MFree
  <2>1. mainPc' \in MainPc
    BY <1>6 DEF MFree, Goto, MainPc
  <2>2. free_called' \in BOOLEAN
    BY <1>6 DEF MFree
  <2> QED BY <1>6, <2>1, <2>2, DeviceTypes DEF MFree, DriverTypeOK, history
<1> QED BY <1>1, <1>2, <1>3, <1>4, <1>5, <1>6 DEF AppStep

\* Marking entries of the readback list keeps it a list of entries.
LEMMA MarkReadType ==
    ASSUME NEW M, command_status_readback \in Readback
    PROVE  MarkRead(M) \in Readback
<1> DEFINE s == command_status_readback
           E == [pkt : Packet, read : BOOLEAN]
<1>0. s \in Seq(E)
  BY DEF Readback
<1>1. Len(s) \in Nat /\ DOMAIN s = 1 .. Len(s) /\ \A i \in DOMAIN s : s[i] \in E
  <2> HIDE DEF E, s
  <2> QED BY <1>0
<1>2. ASSUME NEW e \in E PROVE [pkt |-> e.pkt, read |-> TRUE] \in E
  <2>1. e.pkt \in Packet
    OBVIOUS
  <2> QED BY <2>1
<1>3. \A i \in DOMAIN s : MarkRead(M)[i] \in E
  <2> HIDE DEF E
  <2> QED BY <1>1, <1>2 DEF MarkRead
<1>4. MarkRead(M) = [i \in 1 .. Len(s) |-> MarkRead(M)[i]]
  BY <1>1 DEF MarkRead
<1> HIDE DEF E, s
<1>5. MarkRead(M) \in [1 .. Len(s) -> E]
  BY <1>1, <1>3, <1>4
<1>6. MarkRead(M) \in Seq(E)
  BY <1>1, <1>5
<1> QED BY <1>6 DEF Readback, E

\* While mSync handles a packet it is at the head of the list.
Awaiting == mainPc \in {"stat", "cmd_sync"} => recorded_commands # <<>>

\* What the library does on the application's thread.
LEMMA LibraryTypeStep ==
    ASSUME HostTypeOK, DriverTypeOK, Awaiting, LibraryStep
    PROVE  HostTypeOK' /\ DriverTypeOK'
<1>f. DEVICE_DEBUG \in BOOLEAN
  BY FlagAssumption
<1>h. HandshakeRequest \in Packet
  BY ZeroWord DEF HandshakeRequest, Payload, Packet, Nibble
<1>r. recorded_commands # <<>> =>
          Head(recorded_commands) \in Packet /\ Tail(recorded_commands) \in Seq(Packet)
  BY ListTypes DEF DriverTypeOK
<1>1. CASE MInit
  <2>1. mainPc' \in MainPc
    BY <1>1 DEF MInit, AfterSend, Goto, MainPc
  <2> QED BY <1>1, <1>h, <2>1, DeviceTypes DEF MInit, DriverTypeOK
<1>2. CASE HandshakeStat
  <2>1. mainPc' \in MainPc
    BY <1>2 DEF HandshakeStat, Goto, MainPc
  <2> QED BY <1>2, <1>h, <2>1, DeviceTypes DEF HandshakeStat, DriverTypeOK
<1>3. CASE HandshakePop
  <2>1. mainPc' \in MainPc
    BY <1>3 DEF HandshakePop, Goto, MainPc
  <2>2. HostTypeOK'
    BY <1>3, ListTypes, MoveTypes
       DEF HandshakePop, HostTypeOK, InterfaceTypeOK, MemoryTypeOK, ImplTypeOK
  <2> QED BY <1>3, <2>1, <2>2 DEF HandshakePop, DriverTypeOK
<1>4. CASE HandshakeReceive
  <2>1. mainPc' \in MainPc
    BY <1>4 DEF HandshakeReceive, DriverTypeOK, MainPc
  <2>2. recv_running' \in BOOLEAN
    BY <1>4 DEF HandshakeReceive, DriverTypeOK
  <2> QED BY <1>4, <2>1, <2>2, DeviceTypes DEF HandshakeReceive, DriverTypeOK
<1>5. CASE SyncReturn
  <2>1. mainPc' \in MainPc
    BY <1>5 DEF SyncReturn, Goto, MainPc
  <2> QED BY <1>5, <2>1, DeviceTypes DEF SyncReturn, DriverTypeOK
<1>6. CASE SyncSend
  <2>1. mainPc' \in MainPc
    BY <1>6 DEF SyncSend, AfterSend, Goto, MainPc
  <2> QED BY <1>6, <1>r, <2>1, DeviceTypes DEF SyncSend, DriverTypeOK
<1>7. CASE SyncStat
  <2>2. recorded_commands # <<>>
    BY <1>7 DEF Awaiting, SyncStat, Goto
  <2>1. mainPc' \in MainPc
    BY <1>7 DEF SyncStat, Goto, MainPc
  <2> QED BY <1>7, <1>r, <2>1, <2>2, DeviceTypes DEF SyncStat, DriverTypeOK
<1>8. CASE CmdSync
  <2>1. mainPc' \in MainPc
    BY <1>8 DEF CmdSync, Goto, MainPc
  <2>2. command_status_readback' \in Readback
    BY <1>8, MarkReadType DEF CmdSync, Readback, DriverTypeOK
  <2>3. recorded_commands # <<>>
    BY <1>8 DEF Awaiting, CmdSync, Goto
  <2> QED BY <1>8, <1>r, <2>1, <2>2, <2>3, DeviceTypes DEF CmdSync, DriverTypeOK, Readback
<1>9. CASE DeleteDevice
  <2>1. mainPc' \in MainPc
    BY <1>9 DEF DeleteDevice, Goto, MainPc
  <2> QED BY <1>9, <2>1, DeviceTypes DEF DeleteDevice, DriverTypeOK
<1> QED BY <1>1, <1>2, <1>3, <1>4, <1>5, <1>6, <1>7, <1>8, <1>9 DEF LibraryStep

\* The timeout of the handshake and the driver's receive thread.
LEMMA RecvTypeStep ==
    ASSUME HostTypeOK, DriverTypeOK, TimeoutStep \/ RecvStep
    PROVE  HostTypeOK' /\ DriverTypeOK'
<1>1. CASE TimeoutStep
  <2>1. mainPc' \in MainPc
    BY <1>1 DEF TimeoutStep, HandshakeTimeout, Goto, MainPc
  <2>2. recv_running' \in BOOLEAN
    BY <1>1 DEF TimeoutStep, HandshakeTimeout
  <2> QED BY <1>1, <2>1, <2>2, DeviceTypes DEF TimeoutStep, HandshakeTimeout, DriverTypeOK
<1>2. CASE RecvTake
  BY <1>2, DeviceTypes DEF RecvTake, DriverTypeOK
<1>3. CASE RecvPush
  <2>1. scratch \in Packet
    BY <1>3 DEF RecvPush, DriverTypeOK
  <2> DEFINE E == [pkt : Packet, read : BOOLEAN]
  <2>2. [pkt |-> scratch, read |-> FALSE] \in E
    BY <2>1
  <2>3. command_status_readback \in Seq(E)
    BY DEF DriverTypeOK
  <2>4. command_status_readback' \in Seq(E)
    <3> HIDE DEF E
    <3> QED BY <1>3, <2>2, <2>3 DEF RecvPush
  <2> QED BY <1>3, <2>4, DeviceTypes DEF RecvPush, DriverTypeOK
<1>4. CASE RecvStop
  <2>1. recv_running' \in BOOLEAN
    BY <1>4 DEF RecvStop
  <2> QED BY <1>4, <2>1, DeviceTypes DEF RecvStop, DriverTypeOK
<1> QED BY <1>1, <1>2, <1>3, <1>4 DEF RecvStep

-----------------------------------------------------------------------------
(* The system.                                                             *)

TypeInv == TypeOK /\ Awaiting

\* No step of the program leaves the types, and no step lets mSync wait for a
\* packet that is not recorded.
LEMMA TypeStep == TypeInv /\ [Next]_vars => TypeInv'
<1> SUFFICES ASSUME TypeInv, [Next]_vars PROVE TypeInv'
  OBVIOUS
<1> USE DEF TypeInv
<1>t. HostTypeOK /\ DriverTypeOK /\ CpTypeOK /\ calls \in Seq(CallRecord) /\ executed \in Nat
  BY DEF TypeOK, HostTypeOK
<1>g. ASSUME HostTypeOK', DriverTypeOK', UNCHANGED <<cp, executed>>,
             calls' \in Seq(CallRecord)
      PROVE  TypeOK'
  BY <1>g, <1>t DEF TypeOK, HostTypeOK, CpTypeOK
<1>1. CASE AppStep
  <2>1. TypeOK'
    <3>1. UNCHANGED <<cp, executed>>
      BY <1>1 DEF AppStep, RecordCall, history
    <3> QED BY <1>1, <1>t, <1>g, <3>1, AppTypeStep
  <2>2. mainPc = "app" /\ mainPc' \in {"app", "exited", "sync", "freeing"}
    BY <1>1 DEF AppStep, RecordCall, Application, MAdd, MMulPow2, MDivPow2, MPow2,
                NewMInt, SetValue, MPow2Rejected, MSync, MFree, Goto, driverVars
  <2> QED BY <2>1, <2>2 DEF Awaiting
<1>2. CASE LibraryStep
  <2>1. TypeOK'
    BY <1>2, <1>t, <1>g, LibraryTypeStep DEF LibraryStep, history
  <2>2. Awaiting'
    BY <1>2 DEF LibraryStep, Awaiting, MInit, HandshakeStat, HandshakePop,
                HandshakeReceive, SyncReturn, SyncSend, SyncStat, CmdSync,
                DeleteDevice, Goto, AfterSend
  <2> QED BY <2>1, <2>2
<1>3. CASE TimeoutStep \/ RecvStep
  <2>1. TypeOK'
    BY <1>3, <1>t, <1>g, RecvTypeStep DEF TimeoutStep, RecvStep, history
  <2>2. Awaiting'
    BY <1>3 DEF TimeoutStep, HandshakeTimeout, RecvStep, RecvTake, RecvPush,
                RecvStop, Awaiting, Goto
  <2> QED BY <2>1, <2>2
<1>4. CASE ImplStep
  <2>1. HostTypeOK'
    BY <1>4, <1>t, ImplTypeStep DEF ImplStep
  <2>2. UNCHANGED <<cp, driverVars, calls>> /\ executed' \in Nat
    BY <1>4, <1>t DEF ImplStep, history
  <2>3. DriverTypeOK' /\ Awaiting'
    BY <2>2, <1>t DEF driverVars, DriverTypeOK, Awaiting
  <2> QED BY <1>t, <2>1, <2>2, <2>3 DEF TypeOK, HostTypeOK, CpTypeOK
<1>5. CASE RxStep \/ TxStep
  <2>1. MessagesTypeOK' /\ InterfaceTypeOK'
    BY <1>5, <1>t, InterfaceTypeStep DEF RxStep, TxStep, InterfaceStep, HostTypeOK
  <2>2. UNCHANGED <<cp, contents, allocation_ptr, implVars, driverVars, history>>
    BY <1>5 DEF RxStep, TxStep, InterfaceStep
  <2>3. DriverTypeOK' /\ Awaiting'
    BY <2>2, <1>t DEF driverVars, DriverTypeOK, Awaiting
  <2>4. MemoryTypeOK' /\ ImplTypeOK'
    BY <2>2, <1>t DEF HostTypeOK, MemoryTypeOK, ImplTypeOK, implVars
  <2> QED BY <1>t, <2>1, <2>2, <2>3, <2>4 DEF TypeOK, CpTypeOK, history
<1>6. CASE CpStep
  <2>1. CpTypeOK' /\ MessagesTypeOK'
    BY <1>6, <1>t, CpTypeStep DEF CpStep, HostTypeOK
  <2>2. UNCHANGED <<rx_msg, tx_msg, driver_payload, contents, allocation_ptr,
                    implVars, driverVars, history>>
    BY <1>6 DEF CpStep
  <2>3. DriverTypeOK' /\ Awaiting'
    BY <2>2, <1>t DEF driverVars, DriverTypeOK, Awaiting
  <2>4. InterfaceTypeOK' /\ MemoryTypeOK' /\ ImplTypeOK'
    BY <2>2, <1>t DEF HostTypeOK, InterfaceTypeOK, MemoryTypeOK, ImplTypeOK, implVars
  <2> QED BY <1>t, <2>1, <2>2, <2>3, <2>4 DEF TypeOK, history
<1>7. CASE UNCHANGED vars
  <2>1. HostTypeOK'
    BY <1>7, <1>t, DeviceTypes DEF vars
  <2>2. DriverTypeOK' /\ Awaiting'
    BY <1>7, <1>t DEF vars, driverVars, DriverTypeOK, Awaiting
  <2>3. UNCHANGED <<cp, calls, executed>>
    BY <1>7 DEF vars, history
  <2> QED BY <1>g, <1>t, <2>1, <2>2, <2>3
<1> QED BY <1>1, <1>2, <1>3, <1>4, <1>5, <1>6, <1>7 DEF Next, Terminated

LEMMA TypeInvariant == Spec => []TypeInv
<1>1. Init => TypeInv
  BY TypeInit DEF TypeInv, Awaiting, Init, DriverInit
<1> QED BY <1>1, TypeStep, PTL DEF Spec

\* Every packet in every mailbox, register and list is one the link can carry,
\* and every word of the memory is a word, in every build and for every
\* application.
THEOREM TypeCorrect == Spec => []TypeOK
<1>1. TypeInv => TypeOK
  BY DEF TypeInv
<1> QED BY <1>1, TypeInvariant, PTL

-----------------------------------------------------------------------------
(* Packet ids.                                                             *)

\* However many calls are recorded, no packet the library sends has an id of
\* 13 or more (drv_preproc, matrix.cpp:27-33).
THEOREM IdsStayBelow13 == Spec => []IdsBelow13
<1>1. Init => IdsBelow13
  BY DEF Init, DriverInit, IdsBelow13
<1>2. TypeInv /\ IdsBelow13 /\ [Next]_vars => IdsBelow13'
  <2> SUFFICES ASSUME TypeInv, IdsBelow13, [Next]_vars PROVE IdsBelow13'
    OBVIOUS
  <2>t. recorded_commands \in Seq(Packet) /\ global_command_id \in Nat
    BY DEF TypeInv, TypeOK, DriverTypeOK
  <2>1. CASE UNCHANGED recorded_commands
    BY <2>1 DEF IdsBelow13
  <2>2. CASE \E cmd, first, second, result : Record(cmd, first, second, result)
    <3>1. PICK cmd, first, second, result : Record(cmd, first, second, result)
      BY <2>2
    <3> DEFINE g == drv_preproc(global_command_id)
               p1 == Payload(g, REQUEST, cmd, OP_1, first)
               p2 == Payload(g + 1, REQUEST, cmd, OP_2, second)
               p3 == Payload(g + 2, REQUEST, cmd, OP_3, result)
    <3>2. g \in 0 .. 9
      BY <2>t DEF drv_preproc
    <3>3. p1.id < 13 /\ p2.id < 13 /\ p3.id < 13
      <4> HIDE DEF g
      <4> QED BY <3>2 DEF Payload
    <3>4. recorded_commands' = recorded_commands \o <<p1, p2, p3>>
      BY <3>1 DEF Record
    <3> HIDE DEF p1, p2, p3
    <3> QED BY <2>t, <3>3, <3>4 DEF IdsBelow13
  <2>3. CASE CmdSync
    <3>1. recorded_commands # <<>> /\ recorded_commands' = Tail(recorded_commands)
      BY <2>3 DEF TypeInv, Awaiting, CmdSync, Goto
    <3> QED BY <2>t, <3>1 DEF IdsBelow13
  <2> QED
    BY <2>1, <2>2, <2>3
       DEF Next, AppStep, RecordCall, Application, MAdd, MMulPow2, MDivPow2, MPow2,
           NewMInt, SetValue, MPow2Rejected, MSync, MFree, LibraryStep, MInit,
           HandshakeStat, HandshakePop, HandshakeReceive, SyncReturn, SyncSend,
           SyncStat, DeleteDevice, TimeoutStep, HandshakeTimeout, RecvStep,
           RecvTake, RecvPush, RecvStop, ImplStep, RxStep, TxStep, InterfaceStep,
           CpStep, Terminated, vars, driverVars
<1> QED BY <1>1, <1>2, TypeInvariant, PTL DEF Spec

-----------------------------------------------------------------------------
(* Sequences of packets on their way up.                                   *)

LEMMA Kinds ==
    /\ Debugs \cap Reads = {} /\ Debugs \cap Writes = {} /\ Debugs \cap Acks = {}
    /\ Reads \cap Writes = {} /\ Reads \cap Acks = {} /\ Writes \cap Acks = {}
    /\ Debugs \subseteq Packet /\ Reads \subseteq Packet
    /\ Writes \subseteq Packet /\ Acks \subseteq Packet
BY DEF Debugs, Reads, Writes, Acks, MEM_READ, MEM_WRITE, DEBUG, MEMORY

\* The processor adds a packet at the end.
LEMMA AppendKinds ==
    ASSUME NEW s \in Seq(Packet), NEW p \in Packet, NEW S
    PROVE  /\ AllDebug(s) /\ p \in Debugs => AllDebug(Append(s, p))
           /\ AllDebug(s) /\ p \in S => One(Append(s, p), S)
           /\ One(s, S) /\ p \in Debugs => One(Append(s, p), S)
           /\ One(s, S) /\ p \in S => Two(Append(s, p), S)
<1> DEFINE t == Append(s, p)
<1>1. /\ Len(t) = Len(s) + 1 /\ Len(s) \in Nat
      /\ t[Len(s) + 1] = p
      /\ \A i \in 1 .. Len(s) : t[i] = s[i]
  OBVIOUS
<1> HIDE DEF t
<1>2. AllDebug(s) /\ p \in Debugs => AllDebug(t)
  BY <1>1 DEF AllDebug
<1>3. AllDebug(s) /\ p \in S => One(t, S)
  BY <1>1 DEF AllDebug, One
<1>4. One(s, S) /\ p \in Debugs => One(t, S)
  BY <1>1 DEF One
<1>5. ASSUME One(s, S), p \in S PROVE Two(t, S)
  <2>1. PICK k \in 1 .. Len(s) : s[k] \in S /\ \A i \in 1 .. Len(s) : i # k => s[i] \in Debugs
    BY <1>5 DEF One
  <2> DEFINE l == Len(s) + 1
  <2>2. k \in 1 .. Len(t) /\ l \in 1 .. Len(t) /\ k < l
    BY <1>1, <2>1
  <2>3. t[k] \in S /\ t[l] \in S /\ \A i \in 1 .. Len(t) : i # k /\ i # l => t[i] \in Debugs
    BY <1>1, <1>5, <2>1
  <2> QED BY <2>2, <2>3 DEF Two
<1> QED BY <1>2, <1>3, <1>4, <1>5 DEF t

\* The host takes the packet at the head.
LEMMA TailKinds ==
    ASSUME NEW s \in Seq(Packet), s # <<>>, NEW S
    PROVE  /\ AllDebug(s) => Head(s) \in Debugs /\ AllDebug(Tail(s))
           /\ One(s, S) => \/ Head(s) \in S /\ AllDebug(Tail(s))
                           \/ Head(s) \in Debugs /\ One(Tail(s), S)
           /\ Two(s, S) => \/ Head(s) \in S /\ One(Tail(s), S)
                           \/ Head(s) \in Debugs /\ Two(Tail(s), S)
<1> DEFINE t == Tail(s)
<1>1. /\ Len(s) \in Nat /\ Len(s) >= 1 /\ Len(t) = Len(s) - 1
      /\ Head(s) = s[1]
      /\ \A i \in 1 .. Len(t) : t[i] = s[i + 1]
  OBVIOUS
<1> HIDE DEF t
<1>2. AllDebug(s) => Head(s) \in Debugs /\ AllDebug(t)
  BY <1>1 DEF AllDebug
<1>3. ASSUME One(s, S)
      PROVE  \/ Head(s) \in S /\ AllDebug(t)
             \/ Head(s) \in Debugs /\ One(t, S)
  <2>1. PICK k \in 1 .. Len(s) : s[k] \in S /\ \A i \in 1 .. Len(s) : i # k => s[i] \in Debugs
    BY <1>3 DEF One
  <2>2. CASE k = 1
    BY <1>1, <2>1, <2>2 DEF AllDebug
  <2>3. CASE k # 1
    <3>1. k - 1 \in 1 .. Len(t) /\ t[k - 1] \in S
      BY <1>1, <2>1, <2>3
    <3>2. \A i \in 1 .. Len(t) : i # k - 1 => t[i] \in Debugs
      BY <1>1, <2>1, <2>3
    <3>3. Head(s) \in Debugs
      BY <1>1, <2>1, <2>3
    <3> QED BY <3>1, <3>2, <3>3 DEF One
  <2> QED BY <2>2, <2>3
<1>4. ASSUME Two(s, S)
      PROVE  \/ Head(s) \in S /\ One(t, S)
             \/ Head(s) \in Debugs /\ Two(t, S)
  <2>1. PICK k, l \in 1 .. Len(s) :
            /\ k < l /\ s[k] \in S /\ s[l] \in S
            /\ \A i \in 1 .. Len(s) : i # k /\ i # l => s[i] \in Debugs
    BY <1>4 DEF Two
  <2>0. l - 1 \in 1 .. Len(t) /\ t[l - 1] \in S
    BY <1>1, <2>1
  <2>2. CASE k = 1
    <3>1. \A i \in 1 .. Len(t) : i # l - 1 => t[i] \in Debugs
      BY <1>1, <2>1, <2>2
    <3> QED BY <1>1, <2>0, <2>1, <2>2, <3>1 DEF One
  <2>3. CASE k # 1
    <3>1. k - 1 \in 1 .. Len(t) /\ t[k - 1] \in S /\ k - 1 < l - 1
      BY <1>1, <2>1, <2>3
    <3>2. \A i \in 1 .. Len(t) : i # k - 1 /\ i # l - 1 => t[i] \in Debugs
      BY <1>1, <2>1, <2>3
    <3>3. Head(s) \in Debugs
      BY <1>1, <2>1, <2>3
    <3> QED BY <2>0, <3>1, <3>2, <3>3 DEF Two
  <2> QED BY <2>2, <2>3
<1> QED BY <1>2, <1>3, <1>4 DEF t

-----------------------------------------------------------------------------
(* How the steps of the threads change what is on its way up.              *)

UpTypes ==
    /\ MessagesTypeOK
    /\ impl_msg \in Packet \cup {NoMsg}
    /\ tx_msg \in Packet \cup {NoMsg}
    /\ messages[PKT_FROM_CP] \in Packet \cup {NoMsg}
    /\ driver_payload \in Seq(Packet)

LEMMA OptType ==
    ASSUME NEW m \in Packet \cup {NoMsg}
    PROVE  Opt(m) \in Seq(Packet)
BY NoMsgAssumption DEF Opt

LEMMA UpType == UpTypes => Up \in Seq(Packet)
<1> SUFFICES ASSUME UpTypes PROVE Up \in Seq(Packet)
  OBVIOUS
<1> DEFINE I == Opt(impl_msg)  T == Opt(tx_msg)  M == Opt(messages[PKT_FROM_CP])
<1>1. I \in Seq(Packet) /\ T \in Seq(Packet) /\ M \in Seq(Packet)
  BY OptType DEF UpTypes
<1> HIDE DEF I, T, M
<1>2. ((I \o driver_payload) \o T) \o M \in Seq(Packet)
  BY <1>1 DEF UpTypes
<1> QED BY <1>2 DEF Up, I, T, M

\* The processor pushes into an empty mailbox.
LEMMA UpAppend ==
    ASSUME UpTypes, NEW p \in Packet, messages[PKT_FROM_CP] = NoMsg,
           messages'[PKT_FROM_CP] = p, UNCHANGED <<tx_msg, driver_payload, impl_msg>>
    PROVE  Up' = Append(Up, p)
<1> DEFINE R == (Opt(impl_msg) \o driver_payload) \o Opt(tx_msg)
<1>1. R \in Seq(Packet)
  BY OptType DEF UpTypes
<1>2. Up = R \o <<>>
  BY DEF Up, Opt
<1>3. Up' = R \o <<p>>
  BY NoMsgAssumption DEF Up, Opt
<1> HIDE DEF R
<1> QED BY <1>1, <1>2, <1>3

LEMMA ConsParts ==
    ASSUME NEW p \in Packet, NEW s \in Seq(Packet)
    PROVE  /\ <<p>> \o s # <<>> /\ Head(<<p>> \o s) = p /\ Tail(<<p>> \o s) = s
           /\ <<>> \o s = s /\ s \o <<>> = s
           /\ Append(s, p) = s \o <<p>>
           /\ s # <<>> => s = <<Head(s)>> \o Tail(s)
<1>1. <<p>> \o s # <<>> /\ Head(<<p>> \o s) = p
  OBVIOUS
<1>2. Tail(<<p>> \o s) = s
  OBVIOUS
<1>3. <<>> \o s = s /\ s \o <<>> = s
  OBVIOUS
<1>4. Append(s, p) = s \o <<p>>
  OBVIOUS
<1>5. s # <<>> => s = <<Head(s)>> \o Tail(s)
  OBVIOUS
<1> QED BY <1>1, <1>2, <1>3, <1>4, <1>5

LEMMA Associative ==
    ASSUME NEW a \in Seq(Packet), NEW b \in Seq(Packet), NEW c \in Seq(Packet)
    PROVE  (a \o b) \o c = a \o (b \o c)
OBVIOUS

\* The device's receive thread is through with its packet.
LEMMA UpTail ==
    ASSUME UpTypes, impl_msg # NoMsg, impl_msg' = NoMsg,
           UNCHANGED <<messages, tx_msg, driver_payload>>
    PROVE  Up # <<>> /\ Head(Up) = impl_msg /\ Up' = Tail(Up)
<1> DEFINE D == driver_payload  T == Opt(tx_msg)  M == Opt(messages[PKT_FROM_CP])
           R == (D \o T) \o M
<1>1. D \in Seq(Packet) /\ T \in Seq(Packet) /\ M \in Seq(Packet) /\ impl_msg \in Packet
  BY OptType DEF UpTypes
<1>2. Up = ((<<impl_msg>> \o D) \o T) \o M
  BY DEF Up, Opt
<1>3. Up' = ((<<>> \o D) \o T) \o M
  BY DEF Up, Opt
<1> HIDE DEF D, T, M
<1>4. D \o T \in Seq(Packet) /\ R \in Seq(Packet) /\ <<impl_msg>> \in Seq(Packet)
  BY <1>1
<1>5. Up = <<impl_msg>> \o R
  BY <1>1, <1>2, <1>4, Associative
<1>6. Up' = R
  BY <1>1, <1>3, ConsParts
<1> HIDE DEF R
<1> QED BY <1>1, <1>4, <1>5, <1>6, ConsParts

\* Moving a packet from one place to the next changes nothing.
LEMMA UpMove ==
    ASSUME UpTypes, (execute_tx /\ UNCHANGED impl_msg) \/ ImplPoll
    PROVE  Up' = Up
<1> DEFINE I == Opt(impl_msg)  D == driver_payload  T == Opt(tx_msg)
           M == Opt(messages[PKT_FROM_CP])
<1>0. I \in Seq(Packet) /\ D \in Seq(Packet) /\ T \in Seq(Packet) /\ M \in Seq(Packet)
  BY OptType DEF UpTypes
<1>1. CASE TxTake /\ UNCHANGED impl_msg
  <2>1. messages[PKT_FROM_CP] # NoMsg /\ tx_msg = NoMsg /\ tx_msg' = messages[PKT_FROM_CP]
        /\ driver_payload' = driver_payload
    BY <1>1 DEF TxTake, TakeMessage
  <2>2. Opt(tx_msg) = <<>> /\ Opt(tx_msg)' = M
    BY <2>1 DEF Opt
  <2>3. Opt(messages[PKT_FROM_CP])' = <<>>
    BY <1>1 DEF TxTake, TakeMessage, Opt, UpTypes, MessagesTypeOK, Mailbox
  <2>4. Up = ((I \o D) \o <<>>) \o M /\ Up' = ((I \o D) \o M) \o <<>>
    BY <1>1, <2>1, <2>2, <2>3 DEF Up
  <2> HIDE DEF I, D, M
  <2>5. I \o D \in Seq(Packet) /\ (I \o D) \o M \in Seq(Packet)
    BY <1>0
  <2> QED BY <1>0, <2>4, <2>5, ConsParts
<1>2. CASE TxPush /\ UNCHANGED impl_msg
  <2>1. tx_msg \in Packet /\ Opt(tx_msg) = <<tx_msg>> /\ Opt(tx_msg)' = <<>>
        /\ Opt(messages[PKT_FROM_CP])' = M /\ Opt(impl_msg)' = I
    BY <1>2 DEF TxPush, Opt, UpTypes
  <2>2. driver_payload' = D \o <<tx_msg>>
    BY <1>0, <1>2, <2>1, ConsParts DEF TxPush
  <2>3. Up = ((I \o D) \o <<tx_msg>>) \o M /\ Up' = ((I \o (D \o <<tx_msg>>)) \o <<>>) \o M
    BY <2>1, <2>2 DEF Up
  <2> HIDE DEF I, D, M
  <2>4. <<tx_msg>> \in Seq(Packet) /\ I \o (D \o <<tx_msg>>) \in Seq(Packet)
    BY <1>0, <2>1
  <2>5. (I \o D) \o <<tx_msg>> = I \o (D \o <<tx_msg>>)
    BY <1>0, <2>4, Associative
  <2>6. (I \o (D \o <<tx_msg>>)) \o <<>> = I \o (D \o <<tx_msg>>)
    BY <2>1, <2>4, ConsParts
  <2> QED BY <2>3, <2>5, <2>6
<1>3. CASE ImplPoll
  <2>1. Opt(impl_msg) = <<>> /\ D # <<>> /\ driver_payload' = Tail(D)
        /\ Opt(tx_msg)' = T /\ Opt(messages[PKT_FROM_CP])' = M
    BY <1>3 DEF ImplPoll, Opt
  <2>2. Head(D) \in Packet
    BY <1>0, <2>1
  <2>3. Opt(impl_msg)' = <<Head(D)>>
    BY <1>3, <2>2, NoMsgAssumption DEF ImplPoll, Opt
  <2>4. Up = ((<<>> \o D) \o T) \o M /\ Up' = ((<<Head(D)>> \o Tail(D)) \o T) \o M
    BY <2>1, <2>3 DEF Up
  <2> HIDE DEF D, T, M
  <2>5. <<>> \o D = D /\ <<Head(D)>> \o Tail(D) = D
    BY <1>0, <2>1, <2>2, ConsParts
  <2> QED BY <2>4, <2>5
<1> QED BY <1>1, <1>2, <1>3 DEF execute_tx

LEMMA ConcatDebug ==
    ASSUME NEW a \in Seq(Packet), NEW b \in Seq(Packet), AllDebug(a \o b)
    PROVE  AllDebug(a) /\ AllDebug(b)
<1>1. /\ Len(a) \in Nat /\ Len(b) \in Nat /\ Len(a \o b) = Len(a) + Len(b)
      /\ \A i \in 1 .. Len(a) : (a \o b)[i] = a[i]
      /\ \A i \in 1 .. Len(b) : (a \o b)[Len(a) + i] = b[i]
  OBVIOUS
<1>2. AllDebug(a)
  BY <1>1 DEF AllDebug
<1>3. ASSUME NEW i \in 1 .. Len(b) PROVE b[i] \in Debugs
  <2>1. Len(a) + i \in 1 .. Len(a \o b)
    BY <1>1
  <2>2. (a \o b)[Len(a) + i] \in Debugs
    BY <2>1 DEF AllDebug
  <2> QED BY <1>1, <2>2
<1> QED BY <1>2, <1>3 DEF AllDebug

\* When only statistics are on their way up, each place holds statistics.
LEMMA UpParts ==
    ASSUME UpTypes, AllDebug(Up)
    PROVE  /\ impl_msg \in Debugs \cup {NoMsg}
           /\ tx_msg \in Debugs \cup {NoMsg}
           /\ messages[PKT_FROM_CP] \in Debugs \cup {NoMsg}
           /\ \A i \in 1 .. Len(driver_payload) : driver_payload[i] \in Debugs
<1> DEFINE I == Opt(impl_msg)  D == driver_payload  T == Opt(tx_msg)
           M == Opt(messages[PKT_FROM_CP])
<1>0. I \in Seq(Packet) /\ D \in Seq(Packet) /\ T \in Seq(Packet) /\ M \in Seq(Packet)
  BY OptType DEF UpTypes
<1>1. AllDebug(((I \o D) \o T) \o M)
  BY DEF Up
<1>2. ASSUME NEW m, AllDebug(Opt(m)) PROVE m \in Debugs \cup {NoMsg}
  BY <1>2 DEF AllDebug, Opt
<1> HIDE DEF I, D, T, M
<1>3. I \o D \in Seq(Packet) /\ (I \o D) \o T \in Seq(Packet)
  BY <1>0
<1>4. AllDebug((I \o D) \o T) /\ AllDebug(M)
  BY <1>0, <1>1, <1>3, ConcatDebug
<1>5. AllDebug(I \o D) /\ AllDebug(T)
  BY <1>0, <1>3, <1>4, ConcatDebug
<1>6. AllDebug(I) /\ AllDebug(D)
  BY <1>0, <1>5, ConcatDebug
<1>7. AllDebug(D) => \A i \in 1 .. Len(driver_payload) : driver_payload[i] \in Debugs
  BY DEF AllDebug, D
<1> QED BY <1>2, <1>4, <1>5, <1>6, <1>7 DEF I, T, M

-----------------------------------------------------------------------------
(* The baton is handed on.                                                 *)

linkVars == <<messages, rx_msg, tx_msg, driver_payload, impl_msg, impl_reply,
              mem_write_state, received_payloads, scratch,
              command_status_readback, cp>>

\* NoOverwrite, of one step.
Kept == \A b \in Mailbox : messages[b] # NoMsg => messages'[b] \in {messages[b], NoMsg}

\* What the proof of a step starts from.
LEMMA LinkTypes ==
    ASSUME TypeInv
    PROVE  /\ UpTypes
           /\ Up \in Seq(Packet)
           /\ MessagesTypeOK /\ InterfaceTypeOK /\ ImplTypeOK /\ DriverTypeOK /\ CpTypeOK
           /\ cp.state \in CpState /\ cp.pkt \in Packet
<1>1. MessagesTypeOK /\ InterfaceTypeOK /\ ImplTypeOK /\ DriverTypeOK /\ CpTypeOK
  BY DEF TypeInv, TypeOK
<1>2. UpTypes
  BY <1>1 DEF UpTypes, MessagesTypeOK, InterfaceTypeOK, ImplTypeOK, Mailbox
<1>3. cp.state \in CpState /\ cp.pkt \in Packet
  BY <1>1, CpFields
<1> QED BY <1>1, <1>2, <1>3, UpType

\* Steps that leave the link alone.
LEMMA Frame ==
    ASSUME UNCHANGED linkVars
    PROVE  /\ CpInv' = CpInv /\ Resting' = Resting
           /\ DownEmpty' = DownEmpty /\ DownOne' = DownOne
           /\ UpQuiet' = UpQuiet /\ Up' = Up
           /\ AckEmpty' = AckEmpty /\ AckOne' = AckOne
           /\ Kept
<1>1. Up' = Up
  BY DEF linkVars, Up, Opt
<1>2. Kept
  BY DEF linkVars, Kept
<1>3. CpInv' = CpInv /\ Resting' = Resting
  BY DEF linkVars, CpInv, FromCpMay, Resting
<1>4. DownEmpty' = DownEmpty /\ DownOne' = DownOne
  BY DEF linkVars, DownEmpty, DownOne
<1>5. UpQuiet' = UpQuiet
  BY <1>1 DEF linkVars, UpQuiet
<1>6. AckEmpty' = AckEmpty /\ AckOne' = AckOne
  BY DEF linkVars, AckEmpty, AckOne, AllRead, OneUnread
<1> QED BY <1>1, <1>2, <1>3, <1>4, <1>5, <1>6

\* They keep the baton where it is if the application's thread goes on waiting,
\* or not waiting.
LEMMA FrameBaton ==
    ASSUME UNCHANGED linkVars, Baton, mainPc # "exited",
           Waiting' = Waiting \/ mainPc' = "exited"
    PROVE  Baton' /\ Kept
<1>1. /\ CpInv' = CpInv /\ Resting' = Resting
      /\ DownEmpty' = DownEmpty /\ DownOne' = DownOne
      /\ UpQuiet' = UpQuiet /\ Up' = Up
      /\ AckEmpty' = AckEmpty /\ AckOne' = AckOne
      /\ Kept
  BY Frame
<1>2. cp' = cp /\ impl_reply' = impl_reply /\ mem_write_state' = mem_write_state
  BY DEF linkVars
<1>3. CASE mainPc' = "exited"
  BY <1>1, <1>3 DEF Baton
<1>4. CASE Waiting' = Waiting
  <2>1. (MainHas' = MainHas) /\ (AckHas' = AckHas)
    BY <1>1, <1>2, <1>4 DEF MainHas, AckHas
  <2>2. (DownHas' = DownHas) /\ (ReplyHas' = ReplyHas)
    BY <1>1, <1>2, <1>4 DEF DownHas, ReplyHas
  <2>3. (CpHas' = CpHas) /\ (UpHas' = UpHas)
    BY <1>1, <1>2, <1>4 DEF CpHas, UpHas
  <2> QED BY <1>1, <2>1, <2>2, <2>3 DEF Baton
<1> QED BY <1>3, <1>4

LEMMA AppBaton ==
    ASSUME Baton, Running, AppStep
    PROVE  Baton' /\ Kept
<1>1. UNCHANGED linkVars
  BY DEF AppStep, RecordCall, Application, MAdd, MMulPow2, MDivPow2, MPow2, NewMInt,
         SetValue, MPow2Rejected, MSync, MFree, linkVars, deviceVars, implVars, driverVars
<1>2. mainPc = "app" /\ mainPc' \in {"app", "sync", "freeing", "exited"}
  BY DEF AppStep, RecordCall, Application, MAdd, MMulPow2, MDivPow2, MPow2, NewMInt,
         SetValue, MPow2Rejected, MSync, MFree, driverVars, Goto
<1>3. Waiting = FALSE /\ Waiting' = FALSE
  BY <1>2 DEF Waiting
<1> QED BY <1>1, <1>2, <1>3, FrameBaton

\* Which places hold nothing while the application's thread has the baton, and
\* who has it while a place is full.
LEMMA Holders ==
    ASSUME Baton, mainPc # "exited"
    PROVE  /\ MainHas \/ DownHas \/ CpHas \/ UpHas \/ ReplyHas \/ AckHas
           /\ ~Waiting => MainHas
           /\ ~DownEmpty => DownHas
           /\ impl_reply # NoMsg => ReplyHas
           /\ ~AckEmpty => AckHas /\ AckOne
BY DEF Baton, MainHas, DownHas, CpHas, UpHas, ReplyHas, AckHas, DownOne, DownEmpty

\* A request is sent: the application's thread gives the baton away.
LEMMA SendBaton ==
    ASSUME TypeInv, Baton, mainPc # "exited", ~Waiting, Waiting',
           NEW p \in Packet, SendRequest(p),
           UNCHANGED <<command_status_readback, scratch, cp>>
    PROVE  Baton' /\ Kept
<1>1. MainHas /\ CpInv
  BY Holders DEF Baton
<1>2. messages \in [Mailbox -> Packet \cup {NoMsg}] /\ p # NoMsg
  BY LinkTypes, NoMsgAssumption DEF MessagesTypeOK
<1>3. /\ messages' = [messages EXCEPT ![PKT_TO_DEVICE] = p]
      /\ UNCHANGED <<rx_msg, tx_msg, driver_payload, impl_msg, impl_reply,
                     mem_write_state, received_payloads>>
  BY DEF SendRequest, PushMessage, implVars
<1>4. /\ messages'[PKT_TO_DEVICE] = p
      /\ messages'[PKT_TO_CP] = messages[PKT_TO_CP]
      /\ messages'[PKT_FROM_CP] = messages[PKT_FROM_CP]
  BY <1>2, <1>3 DEF Mailbox, PKT_TO_DEVICE, PKT_TO_CP, PKT_FROM_CP
<1>5. Kept
  BY <1>1, <1>4 DEF Kept, Mailbox, MainHas, DownEmpty
<1>6. CpInv'
  BY <1>1, <1>4 DEF CpInv, FromCpMay
<1>7. Up' = Up
  <2>1. Opt(messages[PKT_FROM_CP])' = Opt(messages[PKT_FROM_CP])
    BY <1>4 DEF Opt
  <2>2. Opt(impl_msg)' = Opt(impl_msg) /\ Opt(tx_msg)' = Opt(tx_msg)
    BY <1>3
  <2> QED BY <1>3, <2>1, <2>2 DEF Up
<1>8. DownOne' /\ Resting' /\ UpQuiet' /\ impl_reply' = NoMsg /\ AckEmpty'
  BY <1>1, <1>2, <1>3, <1>4, <1>7
     DEF MainHas, DownEmpty, DownOne, Resting, UpQuiet, AckEmpty, AllRead
<1> QED BY <1>5, <1>6, <1>8 DEF Baton, DownHas

LEMMA HandshakeReceiveBaton ==
    ASSUME TypeInv, Baton, HandshakeReceive, UNCHANGED cp
    PROVE  Baton' /\ Kept
<1>1. /\ mainPc = "hs_wait" /\ mainPc' \in {"app", "hs_wait"}
      /\ received_payloads # <<>> /\ received_payloads' = Tail(received_payloads)
      /\ UNCHANGED <<messages, rx_msg, tx_msg, driver_payload, impl_msg, impl_reply,
                     mem_write_state, scratch, command_status_readback>>
  BY DEF HandshakeReceive, TakeReceived
<1>2. AckHas /\ AckOne /\ CpInv
  BY <1>1, Holders DEF AckEmpty, Baton
<1>3. Len(received_payloads) = 1 /\ scratch = NoMsg /\ AllRead
  BY <1>1, <1>2 DEF AckOne
<1>4. received_payloads \in Seq(Packet)
  BY LinkTypes DEF ImplTypeOK
<1>5. AckEmpty'
  BY <1>1, <1>3, <1>4 DEF AckEmpty, AllRead
<1>6. Up' = Up
  BY <1>1 DEF Up, Opt
<1>7. DownEmpty' /\ Resting' /\ UpQuiet' /\ impl_reply' = NoMsg
  BY <1>1, <1>2, <1>6 DEF AckHas, DownEmpty, Resting, UpQuiet
<1>8. CpInv' /\ Kept
  BY <1>1, <1>2 DEF CpInv, FromCpMay, Kept
<1> QED BY <1>1, <1>5, <1>7, <1>8 DEF Baton, MainHas, AckHas, Waiting

LEMMA CmdSyncBaton ==
    ASSUME TypeInv, Baton, CmdSync, UNCHANGED cp
    PROVE  Baton' /\ Kept
<1> DEFINE R == command_status_readback
<1>1. /\ mainPc = "cmd_sync" /\ mainPc' = "sync"
      /\ UNCHANGED <<messages, rx_msg, tx_msg, driver_payload, impl_msg, impl_reply,
                     mem_write_state, scratch, received_payloads>>
  BY DEF CmdSync, Goto, deviceVars, implVars
<1>2. PICK id : /\ {i \in DOMAIN R : Finishes(R[i], id)} # {}
                /\ R' = MarkRead({i \in DOMAIN R : Finishes(R[i], id)})
  BY DEF CmdSync
<1> DEFINE matching == {i \in DOMAIN R : Finishes(R[i], id)}
<1>3. PICK j \in matching : TRUE
  BY <1>2
<1>4. j \in DOMAIN R /\ ~R[j].read
  BY <1>3 DEF Finishes
<1>5. ~AllRead
  BY <1>4 DEF AllRead
<1>6. AckHas /\ AckOne /\ CpInv
  BY <1>1, <1>5, Holders DEF AckEmpty, Baton
<1>7. received_payloads = <<>> /\ scratch = NoMsg /\ OneUnread
  BY <1>5, <1>6 DEF AckOne
<1>8. \A i \in DOMAIN R : i # j => R[i].read
  BY <1>4, <1>7 DEF OneUnread
<1>9. DOMAIN R' = DOMAIN R /\ R'[j].read /\ \A i \in DOMAIN R : i # j => R'[i].read
  <2>1. R' = [i \in DOMAIN R |-> IF i \in matching THEN [pkt |-> R[i].pkt, read |-> TRUE]
                                 ELSE R[i]]
    BY <1>2 DEF MarkRead
  <2> HIDE DEF matching, R
  <2> QED BY <1>3, <1>4, <1>8, <2>1
<1>10. AckEmpty'
  BY <1>1, <1>7, <1>9 DEF AckEmpty, AllRead
<1>11. Up' = Up
  BY <1>1 DEF Up, Opt
<1>12. DownEmpty' /\ Resting' /\ UpQuiet' /\ impl_reply' = NoMsg
  BY <1>1, <1>6, <1>11 DEF AckHas, DownEmpty, Resting, UpQuiet
<1>13. CpInv' /\ Kept
  BY <1>1, <1>6 DEF CpInv, FromCpMay, Kept
<1> QED BY <1>1, <1>10, <1>12, <1>13 DEF Baton, MainHas, Waiting

LEMMA LibraryBaton ==
    ASSUME TypeInv, Baton, Running, LibraryStep
    PROVE  Baton' /\ Kept
<1>0. mainPc # "exited" /\ UNCHANGED cp
  BY DEF Running, LibraryStep
<1>1. CASE MInit
  <2>1. HandshakeRequest \in Packet
    BY ZeroWord DEF HandshakeRequest, Payload, Packet, Nibble
  <2>2. ~Waiting /\ Waiting'
    BY <1>1 DEF MInit, Goto, Waiting, AfterSend
  <2> QED BY <1>0, <1>1, <2>1, <2>2, SendBaton DEF MInit
<1>2. CASE SyncSend
  <2>1. Head(recorded_commands) \in Packet
    BY <1>2, LinkTypes, ListTypes DEF SyncSend, DriverTypeOK
  <2>2. ~Waiting /\ Waiting'
    BY <1>2 DEF SyncSend, Goto, Waiting, AfterSend
  <2> QED BY <1>0, <1>2, <2>1, <2>2, SendBaton DEF SyncSend
<1>3. CASE HandshakeReceive
  BY <1>0, <1>3, HandshakeReceiveBaton
<1>4. CASE CmdSync
  BY <1>0, <1>4, CmdSyncBaton
<1>5. CASE HandshakeStat \/ HandshakePop \/ SyncStat
  <2>1. UNCHANGED linkVars
    BY <1>0, <1>5 DEF HandshakeStat, HandshakePop, SyncStat, RememberRequest, linkVars
  <2>2. Waiting /\ Waiting'
    BY <1>5 DEF HandshakeStat, HandshakePop, SyncStat, Goto, Waiting
  <2> QED BY <1>0, <2>1, <2>2, FrameBaton
<1>6. CASE SyncReturn \/ DeleteDevice
  <2>1. UNCHANGED linkVars
    BY <1>0, <1>6 DEF SyncReturn, DeleteDevice, deviceVars, implVars, linkVars
  <2>2. (Waiting' = Waiting) /\ mainPc # "exited"
    BY <1>0, <1>6 DEF SyncReturn, DeleteDevice, Goto, Waiting
  <2> QED BY <2>1, <2>2, FrameBaton
<1> QED BY <1>1, <1>2, <1>3, <1>4, <1>5, <1>6 DEF LibraryStep

LEMMA RecvBaton ==
    ASSUME TypeInv, Baton, Running, RecvStep
    PROVE  Baton' /\ Kept
<1>0. mainPc # "exited" /\ UNCHANGED <<cp, mainPc>>
  BY DEF Running, RecvStep, RecvTake, RecvPush, RecvStop
<1>1. CASE RecvStop
  <2>1. UNCHANGED linkVars
    BY <1>0, <1>1 DEF RecvStop, deviceVars, implVars, linkVars
  <2>2. Waiting' = Waiting
    BY <1>0 DEF Waiting
  <2> QED BY <1>0, <2>1, <2>2, FrameBaton
<1>2. CASE RecvTake \/ RecvPush
  <2>1. UNCHANGED <<messages, rx_msg, tx_msg, driver_payload, impl_msg, impl_reply,
                    mem_write_state>>
    BY <1>2 DEF RecvTake, RecvPush, TakeReceived, deviceVars, implVars
  <2>2. ~AckEmpty
    BY <1>2 DEF RecvTake, RecvPush, TakeReceived, AckEmpty
  <2>3. AckHas /\ AckOne /\ CpInv
    BY <1>0, <2>2, Holders DEF Baton
  <2>4. AckOne'
    <3>1. CASE RecvTake
      <4>1. /\ received_payloads # <<>> /\ scratch = NoMsg
            /\ received_payloads' = Tail(received_payloads)
            /\ scratch' = Head(received_payloads)
            /\ UNCHANGED command_status_readback
        BY <3>1 DEF RecvTake, TakeReceived
      <4>2. received_payloads \in Seq(Packet)
        BY LinkTypes DEF ImplTypeOK
      <4>3. Len(received_payloads) = 1 /\ AllRead
        BY <2>3, <4>1 DEF AckOne
      <4>4. received_payloads' = <<>> /\ scratch' \in Packet
        BY <4>1, <4>2, <4>3
      <4> QED BY <4>1, <4>3, <4>4, NoMsgAssumption DEF AckOne, AllRead
    <3>2. CASE RecvPush
      <4> DEFINE R == command_status_readback
                 e == [pkt |-> scratch, read |-> FALSE]
      <4>1. scratch # NoMsg /\ scratch' = NoMsg /\ R' = Append(R, e)
            /\ UNCHANGED received_payloads
        BY <3>2 DEF RecvPush, deviceVars, implVars
      <4>2. R \in Seq([pkt : Packet, read : BOOLEAN])
        BY LinkTypes DEF DriverTypeOK
      <4>3. received_payloads = <<>> /\ AllRead
        BY <2>3, <4>1 DEF AckOne
      <4>4. /\ DOMAIN R = 1 .. Len(R) /\ DOMAIN R' = 1 .. Len(R) + 1 /\ Len(R) \in Nat
            /\ \A i \in 1 .. Len(R) : R'[i] = R[i]
        <5> HIDE DEF e
        <5> QED BY <4>1, <4>2
      <4> HIDE DEF R
      <4>5. OneUnread'
        <5>1. Len(R) + 1 \in DOMAIN R'
          BY <4>4
        <5>2. \A i \in DOMAIN R' : Len(R) + 1 # i => R'[i].read
          BY <4>3, <4>4 DEF AllRead, R
        <5> QED BY <5>1, <5>2 DEF OneUnread, R
      <4> QED BY <4>1, <4>3, <4>5 DEF AckOne
    <3> QED BY <1>2, <3>1, <3>2
  <2>5. Up' = Up
    BY <2>1 DEF Up, Opt
  <2>6. Waiting' /\ DownEmpty' /\ Resting' /\ UpQuiet' /\ impl_reply' = NoMsg
    BY <1>0, <2>1, <2>3, <2>5 DEF AckHas, Waiting, DownEmpty, Resting, UpQuiet
  <2>7. CpInv' /\ Kept
    BY <1>0, <2>1, <2>3 DEF CpInv, FromCpMay, Kept
  <2> QED BY <2>4, <2>6, <2>7 DEF Baton, AckHas
<1> QED BY <1>1, <1>2 DEF RecvStep

\* A packet moves on, up or to the device's receive thread.
LEMMA MoveBaton ==
    ASSUME Baton, mainPc # "exited", Up' = Up, CpInv',
           UNCHANGED <<rx_msg, impl_reply, mem_write_state, received_payloads, scratch,
                       command_status_readback, cp, mainPc>>,
           messages'[PKT_TO_DEVICE] = messages[PKT_TO_DEVICE],
           messages'[PKT_TO_CP] = messages[PKT_TO_CP]
    PROVE  Baton'
<1>1. /\ Waiting' = Waiting /\ Resting' = Resting
      /\ DownEmpty' = DownEmpty /\ DownOne' = DownOne /\ UpQuiet' = UpQuiet
  BY DEF Waiting, Resting, DownEmpty, DownOne, UpQuiet
<1>2. AckEmpty' = AckEmpty /\ AckOne' = AckOne
  BY DEF AckEmpty, AckOne, AllRead, OneUnread
<1>3. (MainHas' = MainHas) /\ (AckHas' = AckHas)
  BY <1>1, <1>2 DEF MainHas, AckHas
<1>4. (DownHas' = DownHas) /\ (ReplyHas' = ReplyHas)
  BY <1>1, <1>2 DEF DownHas, ReplyHas
<1>5. (CpHas' = CpHas) /\ (UpHas' = UpHas)
  BY <1>1, <1>2 DEF CpHas, UpHas
<1> QED BY <1>3, <1>4, <1>5 DEF Baton

LEMMA InterfaceBaton ==
    ASSUME TypeInv, Baton, Running, RxStep \/ TxStep
    PROVE  Baton' /\ Kept
<1>0. /\ mainPc # "exited" /\ CpInv
      /\ UNCHANGED <<cp, mainPc, impl_msg, impl_reply, mem_write_state,
                     received_payloads, scratch, command_status_readback>>
  BY DEF Running, RxStep, TxStep, InterfaceStep, implVars, driverVars, Baton
<1>t. messages \in [Mailbox -> Packet \cup {NoMsg}] /\ UpTypes
      /\ PKT_TO_DEVICE \in Mailbox /\ PKT_TO_CP \in Mailbox /\ PKT_FROM_CP \in Mailbox
  BY LinkTypes DEF MessagesTypeOK, Mailbox
<1>1. CASE execute_tx
  <2>1. /\ messages'[PKT_TO_DEVICE] = messages[PKT_TO_DEVICE]
        /\ messages'[PKT_TO_CP] = messages[PKT_TO_CP]
        /\ messages'[PKT_FROM_CP] \in {NoMsg, messages[PKT_FROM_CP]}
        /\ rx_msg' = rx_msg
    BY <1>1, <1>t DEF execute_tx, TxTake, TxPush, TakeMessage, PKT_TO_DEVICE, PKT_TO_CP,
                      PKT_FROM_CP
  <2>2. Up' = Up
    BY <1>0, <1>1, <1>t, UpMove
  <2>3. CpInv'
    BY <1>0, <2>1 DEF CpInv, FromCpMay
  <2>4. Kept
    BY <2>1 DEF Kept, Mailbox
  <2> QED BY <1>0, <2>1, <2>2, <2>3, <2>4, MoveBaton
<1>2. CASE execute_rx
  <2>1. /\ messages'[PKT_FROM_CP] = messages[PKT_FROM_CP]
        /\ UNCHANGED <<tx_msg, driver_payload>>
    BY <1>2, <1>t DEF execute_rx, RxTake, RxPush, TakeMessage, PushMessage,
                      PKT_TO_DEVICE, PKT_TO_CP, PKT_FROM_CP
  <2>2. ~DownEmpty
    BY <1>2 DEF execute_rx, RxTake, RxPush, TakeMessage, DownEmpty
  <2>3. DownHas
    BY <1>0, <2>2, Holders
  <2>4. DownOne' /\ Kept
    <3>1. CASE RxTake
      <4>1. /\ messages[PKT_TO_DEVICE] # NoMsg /\ messages'[PKT_TO_DEVICE] = NoMsg
            /\ messages'[PKT_TO_CP] = messages[PKT_TO_CP]
            /\ rx_msg' = messages[PKT_TO_DEVICE]
        BY <1>t, <3>1 DEF RxTake, TakeMessage, PKT_TO_DEVICE, PKT_TO_CP
      <4> QED BY <2>1, <2>3, <4>1 DEF DownHas, DownOne, Kept, Mailbox
    <3>2. CASE RxPush
      <4>1. /\ rx_msg # NoMsg /\ rx_msg' = NoMsg
            /\ messages'[PKT_TO_CP] = rx_msg
            /\ messages'[PKT_TO_DEVICE] = messages[PKT_TO_DEVICE]
        BY <1>t, <3>2 DEF RxPush, PushMessage, PKT_TO_DEVICE, PKT_TO_CP
      <4> QED BY <2>1, <2>3, <4>1 DEF DownHas, DownOne, Kept, Mailbox
    <3> QED BY <1>2, <3>1, <3>2 DEF execute_rx
  <2>5. Up' = Up
    <3>1. Opt(messages[PKT_FROM_CP])' = Opt(messages[PKT_FROM_CP])
      BY <2>1 DEF Opt
    <3>2. Opt(impl_msg)' = Opt(impl_msg) /\ Opt(tx_msg)' = Opt(tx_msg)
      BY <1>0, <2>1
    <3> QED BY <2>1, <3>1, <3>2 DEF Up
  <2>6. CpInv'
    BY <1>0, <2>1 DEF CpInv, FromCpMay
  <2>7. UpQuiet' /\ AckEmpty' /\ Waiting' /\ (Resting' = Resting)
    BY <1>0, <2>3, <2>5 DEF DownHas, UpQuiet, AckEmpty, AllRead, Waiting, Resting
  <2> QED BY <1>0, <2>3, <2>4, <2>6, <2>7 DEF Baton, DownHas
<1> QED BY <1>1, <1>2 DEF RxStep, TxStep, InterfaceStep

\* The device's receive thread takes its packet: what was it, and what is left?
LEMMA HeadOfUp ==
    ASSUME TypeInv, Baton, mainPc # "exited", impl_msg # NoMsg, impl_msg' = NoMsg,
           UNCHANGED <<messages, tx_msg, driver_payload>>
    PROVE  /\ AllDebug(Up) => impl_msg \in Debugs /\ AllDebug(Up')
           /\ \A S : One(Up, S) => \/ impl_msg \in S /\ AllDebug(Up')
                                   \/ impl_msg \in Debugs /\ One(Up', S)
           /\ \A S : Two(Up, S) => \/ impl_msg \in S /\ One(Up', S)
                                   \/ impl_msg \in Debugs /\ Two(Up', S)
<1>1. UpTypes /\ Up \in Seq(Packet)
  BY LinkTypes
<1>2. Up # <<>> /\ Head(Up) = impl_msg /\ Up' = Tail(Up)
  BY <1>1, UpTail
<1>3. AllDebug(Up) => impl_msg \in Debugs /\ AllDebug(Up')
  BY <1>1, <1>2, TailKinds
<1>4. ASSUME NEW S
      PROVE  /\ One(Up, S) => \/ impl_msg \in S /\ AllDebug(Up')
                              \/ impl_msg \in Debugs /\ One(Up', S)
             /\ Two(Up, S) => \/ impl_msg \in S /\ One(Up', S)
                              \/ impl_msg \in Debugs /\ Two(Up', S)
  BY <1>1, <1>2, TailKinds
<1> QED BY <1>3, <1>4

LEMMA ImplBaton ==
    ASSUME TypeInv, Baton, Running, ImplStep
    PROVE  Baton' /\ Kept
<1>0. /\ mainPc # "exited" /\ CpInv
      /\ UNCHANGED <<cp, mainPc, scratch, command_status_readback, rx_msg>>
  BY DEF Running, ImplStep, driverVars, Baton, ImplPoll, ImplQueue, ImplRead,
         ImplWriteAddr, ImplWriteVal, ImplDebugRequest, ImplDebugResponse,
         ImplRespond, Processing
<1>w. Waiting' = Waiting /\ Resting' = Resting
  BY <1>0 DEF Waiting, Resting
<1>t. /\ messages \in [Mailbox -> Packet \cup {NoMsg}] /\ UpTypes
      /\ PKT_TO_DEVICE \in Mailbox /\ PKT_TO_CP \in Mailbox /\ PKT_FROM_CP \in Mailbox
      /\ impl_msg \in Packet \cup {NoMsg} /\ impl_reply \in Packet \cup {NoMsg}
      /\ received_payloads \in Seq(Packet) /\ NoMsg \notin Packet
  BY LinkTypes, NoMsgAssumption DEF MessagesTypeOK, Mailbox, ImplTypeOK
<1>m. MemoryTypeOK
  BY DEF TypeInv, TypeOK
<1>1. CASE ImplPoll
  <2>1. UNCHANGED <<messages, impl_reply, mem_write_state, received_payloads>>
    BY <1>1 DEF ImplPoll
  <2>2. Up' = Up
    BY <1>1, <1>t, UpMove
  <2>3. CpInv' /\ Kept
    BY <1>0, <2>1 DEF CpInv, FromCpMay, Kept
  <2> QED BY <1>0, <2>1, <2>2, <2>3, MoveBaton
<1>2. CASE ImplRespond
  <2>1. /\ impl_reply # NoMsg /\ impl_reply' = NoMsg
        /\ messages' = [messages EXCEPT ![PKT_TO_DEVICE] = impl_reply]
        /\ UNCHANGED <<rx_msg, tx_msg, driver_payload, impl_msg, mem_write_state,
                       received_payloads>>
    BY <1>2 DEF ImplRespond, PushMessage
  <2>2. /\ messages'[PKT_TO_DEVICE] = impl_reply
        /\ messages'[PKT_TO_CP] = messages[PKT_TO_CP]
        /\ messages'[PKT_FROM_CP] = messages[PKT_FROM_CP]
    BY <1>t, <2>1 DEF PKT_TO_DEVICE, PKT_TO_CP, PKT_FROM_CP
  <2>3. ReplyHas
    BY <1>0, <2>1, Holders
  <2>4. Up' = Up
    <3>1. Opt(messages[PKT_FROM_CP])' = Opt(messages[PKT_FROM_CP])
      BY <2>2 DEF Opt
    <3>2. Opt(impl_msg)' = Opt(impl_msg) /\ Opt(tx_msg)' = Opt(tx_msg)
      BY <2>1
    <3> QED BY <2>1, <3>1, <3>2 DEF Up
  <2>5. CpInv'
    BY <1>0, <2>2 DEF CpInv, FromCpMay
  <2>6. Kept
    BY <2>2, <2>3 DEF Kept, Mailbox, ReplyHas, DownEmpty
  <2>7. DownOne'
    BY <1>0, <2>1, <2>2, <2>3 DEF ReplyHas, DownEmpty, DownOne
  <2>8. UpQuiet' /\ AckEmpty' /\ cp'.state \in {"MEM_FETCH_WAIT", "MEM_WRITE_WAIT"}
        /\ Waiting'
    BY <1>0, <1>w, <2>1, <2>3, <2>4 DEF ReplyHas, UpQuiet, AckEmpty, AllRead
  <2> QED BY <2>1, <2>5, <2>6, <2>7, <2>8 DEF Baton, DownHas
<1>3. CASE \/ ImplQueue \/ ImplRead \/ ImplWriteAddr \/ ImplWriteVal
           \/ ImplDebugRequest \/ ImplDebugResponse
  <2>1. /\ impl_msg # NoMsg /\ impl_msg' = NoMsg
        /\ UNCHANGED <<messages, rx_msg, tx_msg, driver_payload>>
    BY <1>3 DEF ImplQueue, ImplRead, ImplWriteAddr, ImplWriteVal, ImplDebugRequest,
                ImplDebugResponse, Processing
  <2>2. /\ AllDebug(Up) => impl_msg \in Debugs /\ AllDebug(Up')
        /\ \A S : One(Up, S) => \/ impl_msg \in S /\ AllDebug(Up')
                                \/ impl_msg \in Debugs /\ One(Up', S)
        /\ \A S : Two(Up, S) => \/ impl_msg \in S /\ One(Up', S)
                                \/ impl_msg \in Debugs /\ Two(Up', S)
    BY <1>0, <2>1, HeadOfUp
  <2>3. CpInv' /\ Kept /\ DownEmpty' = DownEmpty /\ DownOne' = DownOne
    BY <1>0, <2>1 DEF CpInv, FromCpMay, Kept, DownEmpty, DownOne
  <2>4. impl_msg \in Packet
    BY <1>t, <2>1
  <2>5. MainHas \/ DownHas \/ CpHas \/ UpHas \/ ReplyHas \/ AckHas
    BY <1>0, Holders
  <2>6. CASE ImplQueue
    <3>1. /\ impl_msg.cmd # MEMORY
          /\ received_payloads' = Append(received_payloads, impl_msg)
          /\ UNCHANGED <<impl_reply, mem_write_state>>
      BY <2>6 DEF ImplQueue
    <3>2. impl_msg \notin Debugs /\ impl_msg \notin Reads /\ impl_msg \notin Writes
      BY <3>1 DEF Debugs, Reads, Writes
    <3>3. ~AllDebug(Up) /\ ~One(Up, Writes) /\ ~One(Up, Reads) /\ ~Two(Up, Writes)
      BY <2>2, <3>2
    <3>4. UpHas /\ Resting /\ One(Up, Acks) /\ mem_write_state = "ADDR_RECV"
      BY <2>5, <3>3 DEF MainHas, DownHas, CpHas, UpHas, ReplyHas, AckHas, UpQuiet
    <3>5. AllDebug(Up')
      BY <2>2, <3>2, <3>4
    <3>6. UpQuiet' /\ impl_reply' = NoMsg /\ DownEmpty' /\ Waiting' /\ Resting'
      BY <1>w, <2>3, <3>1, <3>4, <3>5 DEF UpHas, UpQuiet
    <3>7. AckOne'
      <4>1. received_payloads = <<>> /\ scratch = NoMsg /\ AllRead
        BY <3>4 DEF UpHas, AckEmpty
      <4>2. Len(received_payloads') = 1
        BY <2>4, <3>1, <4>1
      <4> QED BY <1>0, <4>1, <4>2 DEF AckOne, AllRead
    <3> QED BY <2>3, <3>6, <3>7 DEF Baton, AckHas
  <2>7. CASE ImplRead
    <3>1. /\ impl_msg.cmd = MEMORY /\ impl_msg.sub_cmd = MEM_READ
          /\ UNCHANGED <<received_payloads, mem_write_state>>
          /\ \E v \in MemoryRead(impl_msg.body) : impl_reply' = MemResponse(impl_msg, v)
      BY <2>7 DEF ImplRead, Processing
    <3>2. impl_msg \notin Debugs /\ impl_msg \notin Acks /\ impl_msg \notin Writes
      BY <3>1 DEF Debugs, Acks, Writes, MEM_READ, MEM_WRITE, DEBUG
    <3>3. ~AllDebug(Up) /\ ~One(Up, Writes) /\ ~One(Up, Acks) /\ ~Two(Up, Writes)
      BY <2>2, <3>2
    <3>4. UpHas /\ cp.state = "MEM_FETCH_WAIT" /\ One(Up, Reads)
          /\ mem_write_state = "ADDR_RECV"
      BY <2>5, <3>3 DEF MainHas, DownHas, CpHas, UpHas, ReplyHas, AckHas, UpQuiet
    <3>5. AllDebug(Up')
      BY <2>2, <3>2, <3>4
    <3>6. impl_reply' # NoMsg
      <4>1. PICK v \in MemoryRead(impl_msg.body) : impl_reply' = MemResponse(impl_msg, v)
        BY <3>1
      <4>2. v \in Word
        BY <4>1, <1>m, MemoryAssumption DEF MemoryRead, MemoryTypeOK
      <4>3. MemResponse(impl_msg, v) \in Packet
        BY <2>4, <4>2, PacketFields, PayloadPacket DEF MemResponse, RESPONSE
      <4> QED BY <1>t, <4>1, <4>3
    <3>7. UpQuiet' /\ DownEmpty' /\ Waiting' /\ AckEmpty'
      BY <1>0, <1>w, <2>3, <3>1, <3>4, <3>5 DEF UpHas, UpQuiet, AckEmpty, AllRead
    <3> QED BY <1>0, <2>3, <3>4, <3>6, <3>7 DEF Baton, ReplyHas
  <2>8. CASE ImplWriteAddr
    <3>1. /\ impl_msg.cmd = MEMORY /\ impl_msg.sub_cmd = MEM_WRITE
          /\ mem_write_state = "ADDR_RECV" /\ mem_write_state' = "VAL_RECV"
          /\ UNCHANGED <<received_payloads, impl_reply>>
      BY <2>8 DEF ImplWriteAddr, Processing
    <3>2. impl_msg \notin Debugs /\ impl_msg \notin Acks /\ impl_msg \notin Reads
      BY <3>1 DEF Debugs, Acks, Reads, MEM_READ, MEM_WRITE, DEBUG
    <3>3. ~AllDebug(Up) /\ ~One(Up, Reads) /\ ~One(Up, Acks)
      BY <2>2, <3>2
    <3>4. Waiting' /\ DownEmpty' = DownEmpty /\ AckEmpty' = AckEmpty
      BY <1>0, <1>w, <2>3, <2>5, <3>1, <3>3
         DEF MainHas, DownHas, CpHas, UpHas, ReplyHas, AckHas, UpQuiet, AckEmpty, AllRead
    <3>5. CASE CpHas
      <4>1. One(Up, Writes) /\ cp.state \in {"MEM_WRITE_VAL_PREP", "MEM_WRITE_VAL"}
        BY <3>3, <3>5 DEF CpHas, UpQuiet
      <4>2. AllDebug(Up')
        BY <2>2, <3>2, <4>1
      <4>3. CpHas'
        BY <1>0, <1>w, <3>1, <3>4, <3>5, <4>1, <4>2 DEF CpHas
      <4> QED BY <2>3, <4>3 DEF Baton
    <3>6. CASE UpHas
      <4>1. Two(Up, Writes) /\ cp.state = "MEM_WRITE_WAIT"
        BY <3>1, <3>3, <3>6 DEF UpHas
      <4>2. One(Up', Writes)
        BY <2>2, <3>2, <4>1
      <4>3. UpHas'
        BY <1>0, <1>w, <3>1, <3>4, <3>6, <4>1, <4>2 DEF UpHas
      <4> QED BY <2>3, <4>3 DEF Baton
    <3> QED BY <2>5, <3>3, <3>5, <3>6 DEF MainHas, DownHas, ReplyHas, AckHas, UpQuiet
  <2>9. CASE ImplWriteVal
    <3>1. /\ impl_msg.cmd = MEMORY /\ impl_msg.sub_cmd = MEM_WRITE
          /\ mem_write_state = "VAL_RECV" /\ mem_write_state' = "ADDR_RECV"
          /\ impl_reply' = MemResponse(impl_msg, 0)
          /\ received_payloads' = received_payloads
      BY <2>9 DEF ImplWriteVal, Processing
    <3>2. impl_msg \notin Debugs
      BY <3>1 DEF Debugs, MEM_WRITE, DEBUG
    <3>3. ~AllDebug(Up)
      BY <2>2, <3>2
    <3>4. UpHas /\ cp.state = "MEM_WRITE_WAIT" /\ One(Up, Writes)
      BY <2>5, <3>1, <3>3 DEF MainHas, DownHas, CpHas, UpHas, ReplyHas, AckHas, UpQuiet
    <3>5. AllDebug(Up')
      BY <2>2, <3>2, <3>4
    <3>6. impl_reply' # NoMsg
      <4>1. MemResponse(impl_msg, 0) \in Packet
        BY <2>4, ZeroWord, PacketFields, PayloadPacket DEF MemResponse, RESPONSE
      <4> QED BY <1>t, <3>1, <4>1
    <3>7. UpQuiet' /\ DownEmpty' /\ Waiting' /\ AckEmpty'
      BY <1>0, <1>w, <2>3, <3>1, <3>4, <3>5 DEF UpHas, UpQuiet, AckEmpty, AllRead
    <3> QED BY <1>0, <2>3, <3>4, <3>6, <3>7 DEF Baton, ReplyHas
  <2>10. CASE ImplDebugRequest \/ ImplDebugResponse
    <3>1. /\ impl_msg.cmd = MEMORY /\ impl_msg.sub_cmd = DEBUG
          /\ UNCHANGED <<received_payloads, impl_reply, mem_write_state>>
      BY <2>10 DEF ImplDebugRequest, ImplDebugResponse, Processing
    <3>2. impl_msg \notin Acks /\ impl_msg \notin Reads /\ impl_msg \notin Writes
      BY <3>1 DEF Acks, Reads, Writes, MEM_READ, MEM_WRITE, DEBUG
    <3>3. /\ AllDebug(Up) => AllDebug(Up')
          /\ One(Up, Reads) => One(Up', Reads)
          /\ One(Up, Writes) => One(Up', Writes)
          /\ One(Up, Acks) => One(Up', Acks)
          /\ Two(Up, Writes) => Two(Up', Writes)
      BY <2>2, <3>2
    <3>4. /\ AckEmpty' = AckEmpty /\ AckOne' = AckOne
          /\ cp' = cp /\ impl_reply' = impl_reply /\ mem_write_state' = mem_write_state
          /\ UpQuiet => UpQuiet'
      BY <1>0, <3>1, <3>3 DEF AckEmpty, AckOne, AllRead, OneUnread, UpQuiet
    <3>5. (MainHas => MainHas') /\ (DownHas => DownHas')
      BY <1>w, <2>3, <3>4 DEF MainHas, DownHas
    <3>6. (ReplyHas => ReplyHas') /\ (AckHas => AckHas')
      BY <1>w, <2>3, <3>4 DEF ReplyHas, AckHas
    <3>7. CpHas => CpHas'
      BY <1>w, <2>3, <3>3, <3>4 DEF CpHas
    <3>8. UpHas => UpHas'
      BY <1>w, <2>3, <3>3, <3>4 DEF UpHas
    <3> QED BY <2>3, <2>5, <3>5, <3>6, <3>7, <3>8 DEF Baton
  <2> QED BY <1>3, <2>6, <2>7, <2>8, <2>9, <2>10
<1> QED BY <1>1, <1>2, <1>3 DEF ImplStep

-----------------------------------------------------------------------------
(* The command processor.                                                  *)

CpFrame == UNCHANGED <<rx_msg, tx_msg, driver_payload, implVars, driverVars>>

\* What a step of the processor leaves alone in any case.
LEMMA CpFrameFacts ==
    ASSUME CpFrame
    PROVE  /\ Waiting' = Waiting /\ AckEmpty' = AckEmpty /\ AckOne' = AckOne
           /\ impl_reply' = impl_reply /\ mem_write_state' = mem_write_state
           /\ mainPc' = mainPc
           /\ UNCHANGED <<rx_msg, tx_msg, driver_payload, impl_msg>>
BY DEF CpFrame, Waiting, AckEmpty, AckOne, AllRead, OneUnread, implVars, driverVars

\* It pushes a packet that from_cp has room for.
LEMMA CpPush ==
    ASSUME TypeInv, CpFrame, NEW p \in Packet, messages[PKT_FROM_CP] = NoMsg,
           PushMessage(PKT_FROM_CP, p)
    PROVE  /\ messages'[PKT_FROM_CP] = p
           /\ DownEmpty' = DownEmpty /\ DownOne' = DownOne
           /\ Up \in Seq(Packet) /\ Up' = Append(Up, p)
           /\ Kept
<1>1. /\ messages'[PKT_FROM_CP] = p
      /\ messages'[PKT_TO_CP] = messages[PKT_TO_CP]
      /\ messages'[PKT_TO_DEVICE] = messages[PKT_TO_DEVICE]
  BY LinkTypes DEF PushMessage, MessagesTypeOK, Mailbox, PKT_TO_DEVICE, PKT_TO_CP,
                   PKT_FROM_CP
<1>2. UNCHANGED <<rx_msg, tx_msg, driver_payload, impl_msg>>
  BY CpFrameFacts
<1>3. DownEmpty' = DownEmpty /\ DownOne' = DownOne
  BY <1>1, <1>2 DEF DownEmpty, DownOne
<1>4. Up \in Seq(Packet) /\ Up' = Append(Up, p)
  BY <1>1, <1>2, LinkTypes, UpAppend
<1> QED BY <1>1, <1>3, <1>4 DEF Kept, Mailbox

\* It takes a packet.
LEMMA CpTake ==
    ASSUME TypeInv, Baton, mainPc # "exited", CpFrame, TakeMessage(PKT_TO_CP)
    PROVE  /\ DownHas /\ DownEmpty' /\ Up' = Up /\ Kept
           /\ messages'[PKT_FROM_CP] = messages[PKT_FROM_CP]
           /\ messages[PKT_FROM_CP] \in Debugs \cup {NoMsg}
           /\ UpQuiet'
<1>1. /\ messages[PKT_TO_CP] # NoMsg /\ messages'[PKT_TO_CP] = NoMsg
      /\ messages'[PKT_FROM_CP] = messages[PKT_FROM_CP]
      /\ messages'[PKT_TO_DEVICE] = messages[PKT_TO_DEVICE]
  BY LinkTypes DEF TakeMessage, MessagesTypeOK, Mailbox, PKT_TO_DEVICE, PKT_TO_CP,
                   PKT_FROM_CP
<1>2. /\ UNCHANGED <<rx_msg, tx_msg, driver_payload, impl_msg>>
      /\ mem_write_state' = mem_write_state
  BY CpFrameFacts
<1>3. DownHas
  BY <1>1, Holders DEF DownEmpty
<1>4. DownEmpty'
  BY <1>1, <1>2, <1>3 DEF DownHas, DownOne, DownEmpty
<1>5. Up' = Up
  <2>1. Opt(messages[PKT_FROM_CP])' = Opt(messages[PKT_FROM_CP])
    BY <1>1 DEF Opt
  <2>2. Opt(impl_msg)' = Opt(impl_msg) /\ Opt(tx_msg)' = Opt(tx_msg)
    BY <1>2
  <2> QED BY <1>2, <2>1, <2>2 DEF Up
<1>6. messages[PKT_FROM_CP] \in Debugs \cup {NoMsg}
  BY <1>3, LinkTypes, UpParts DEF DownHas, UpQuiet
<1>7. UpQuiet'
  BY <1>2, <1>3, <1>5 DEF DownHas, UpQuiet
<1> QED BY <1>1, <1>3, <1>4, <1>5, <1>6, <1>7 DEF Kept, Mailbox

\* It leaves the mailboxes alone.
LEMMA CpStay ==
    ASSUME CpFrame, UNCHANGED messages
    PROVE  /\ DownEmpty' = DownEmpty /\ DownOne' = DownOne
           /\ Up' = Up /\ UpQuiet' = UpQuiet /\ Kept
<1>1. UNCHANGED <<rx_msg, tx_msg, driver_payload, impl_msg, mem_write_state>>
  BY CpFrameFacts
<1>2. Up' = Up
  BY <1>1 DEF Up, Opt
<1> QED BY <1>1, <1>2 DEF DownEmpty, DownOne, UpQuiet, Kept

\* At work on a command it has the baton.
LEMMA CpWorks ==
    ASSUME Baton, mainPc # "exited", ~Resting,
           cp.state \notin {"MEM_FETCH_WAIT", "MEM_WRITE_WAIT"}
    PROVE  CpHas
BY Holders DEF MainHas, DownHas, UpHas, ReplyHas, AckHas

\* While it works it keeps the baton.
LEMMA CpGoesOn ==
    ASSUME CpFrame, Waiting, impl_reply = NoMsg, AckEmpty, DownEmpty', UpQuiet',
           ~Resting', cp.state' \notin {"MEM_WRITE_VAL_PREP", "MEM_WRITE_VAL"}
    PROVE  CpHas'
BY CpFrameFacts DEF CpHas

\* What it does at rest leaves the baton to whoever has it.
LEMMA CpRests ==
    ASSUME Baton, CpFrame, mainPc # "exited", Resting, Resting', CpInv',
           DownEmpty' = DownEmpty, DownOne' = DownOne,
           AllDebug(Up) => AllDebug(Up'), One(Up, Acks) => One(Up', Acks)
    PROVE  Baton'
<1>1. MainHas \/ DownHas \/ UpHas \/ AckHas
  BY Holders DEF CpHas, ReplyHas, Resting
<1>2. UpQuiet => UpQuiet'
  BY CpFrameFacts DEF UpQuiet
<1>3. (MainHas => MainHas') /\ (AckHas => AckHas') /\ (DownHas => DownHas')
  BY <1>2, CpFrameFacts DEF MainHas, AckHas, DownHas
<1>4. UpHas => UpHas'
  BY CpFrameFacts DEF UpHas, Resting
<1> QED BY <1>1, <1>3, <1>4 DEF Baton

\* A memory operation is through: the processor goes back to the command.
LEMMA AfterMemOpBaton ==
    ASSUME TypeInv, Baton, mainPc # "exited", CpFrame,
           cp.state \in {"MEM_FETCH_WAIT", "MEM_WRITE_WAIT"},
           TakeMessage(PKT_TO_CP),
           \/ cp' = cp
           \/ cp' = AfterMemOp(cp)
           \/ \E v \in Word : cp' = AfterMemOp([cp EXCEPT !.mem_val = v])
    PROVE  Baton' /\ Kept
<1>1. /\ DownHas /\ DownEmpty' /\ UpQuiet' /\ Kept
      /\ messages'[PKT_FROM_CP] = messages[PKT_FROM_CP]
      /\ messages[PKT_FROM_CP] \in Debugs \cup {NoMsg}
  BY CpTake
<1>2. CpInv /\ CpTypeOK /\ DEVICE_DEBUG \in BOOLEAN
  BY LinkTypes, FlagAssumption DEF Baton
<1>3. messages'[PKT_FROM_CP] = NoMsg
  BY <1>1, <1>2, Kinds DEF CpInv, FromCpMay
<1>4. /\ cp'.pkt = cp.pkt /\ cp'.mem_op_restore_state = cp.mem_op_restore_state
      /\ \/ cp'.state = cp.state
         \/ DEVICE_DEBUG /\ cp'.state = "DEBUG_WRITE_RESPONSE"
            /\ cp'.wait_restore_state = cp.mem_op_restore_state
         \/ cp'.state = cp.mem_op_restore_state
  BY <1>2 DEF AfterMemOp, CpTypeOK
<1>5. cp.pkt.cmd # MEMORY /\ cp.mem_op_restore_state \in AfterMem
  BY <1>2 DEF CpInv, MemoryState
<1>6. CpInv'
  BY <1>3, <1>4, <1>5 DEF CpInv, FromCpMay, MemoryState, AfterMem, DebugState
<1>7. ~Resting' /\ cp.state' \notin {"MEM_WRITE_VAL_PREP", "MEM_WRITE_VAL"}
  BY <1>4, <1>5 DEF Resting, AfterMem
<1>8. CpHas'
  BY <1>1, <1>7, CpGoesOn DEF DownHas
<1> QED BY <1>1, <1>6, <1>8 DEF Baton

LEMMA CpBaton ==
    ASSUME TypeInv, Baton, Running, CpStep
    PROVE  Baton' /\ Kept
<1>0. mainPc # "exited" /\ CpFrame /\ CpInv /\ CpExecuteTick
  BY DEF Running, CpStep, CpFrame, Baton
<1>t. cp.pkt \in Packet /\ CpTypeOK /\ MessagesTypeOK /\ NextTxId \in Nibble
  <2>1. cp.tx_cmd_id \in Nibble
    BY LinkTypes, CpFields
  <2> QED BY <2>1, LinkTypes DEF NextTxId, Nibble
<1>f. /\ Waiting' = Waiting /\ AckEmpty' = AckEmpty /\ AckOne' = AckOne
      /\ impl_reply' = impl_reply /\ mem_write_state' = mem_write_state
  BY <1>0, CpFrameFacts
<1>1. CASE CpIdle
  <2>1. cp'.state = "DECODE"
    BY <1>1, <1>t DEF CpIdle, CpTypeOK
  <2>2. /\ DownHas /\ DownEmpty' /\ UpQuiet' /\ Kept
        /\ messages'[PKT_FROM_CP] = NoMsg
    BY <1>0, <1>1, CpTake, Kinds DEF CpIdle, CpInv, FromCpMay
  <2>3. CpInv'
    BY <2>1, <2>2 DEF CpInv, FromCpMay, MemoryState, DebugState
  <2>4. CpHas'
    BY <1>0, <2>1, <2>2, CpGoesOn DEF DownHas, Resting
  <2> QED BY <2>2, <2>3, <2>4 DEF Baton
<1>2. CASE CpDecode
  <2>1. /\ cp.state = "DECODE" /\ cp'.state = Decoded(cp.pkt) /\ cp'.pkt = cp.pkt
        /\ messages' = messages
    BY <1>2, <1>t DEF CpDecode, CpTypeOK
  <2>2. \/ cp'.state = "DECODE"
        \/ /\ cp.pkt.cmd # MEMORY
           /\ cp'.state \in {"HANDSHAKE", "FETCH_OP1", "FETCH_OP2", "ADD", "MULP2", "DIVP2"}
    BY <2>1 DEF Decoded, MEMORY, HANDSHAKE, ADD, MULP2, DIVP2
  <2>3. CpHas /\ UpQuiet
    BY <1>0, <2>1, CpWorks DEF Resting, CpHas
  <2>4. CpInv'
    BY <1>0, <2>1, <2>2 DEF CpInv, FromCpMay, MemoryState, DebugState
  <2>5. CpHas'
    BY <1>0, <2>1, <2>2, <2>3, CpStay, CpGoesOn DEF CpHas, Resting
  <2> QED BY <1>0, <2>1, <2>4, <2>5, CpStay DEF Baton
<1>3. CASE CpHandshake \/ CpCmdEnd
  <2>1. PICK body \in Word :
            PushMessage(PKT_FROM_CP,
                Payload(cp.pkt.id, RESPONSE, cp.pkt.cmd, cp.pkt.sub_cmd, body))
    BY <1>3, ZeroWord, WordAssumption DEF CpHandshake, CpCmdEnd
  <2> DEFINE p == Payload(cp.pkt.id, RESPONSE, cp.pkt.cmd, cp.pkt.sub_cmd, body)
  <2>2. cp.state \in {"HANDSHAKE", "CMD_END"} /\ cp'.pkt = cp.pkt
        /\ cp'.state \in {"IDLE", "CMD_END_WAIT"}
    BY <1>3, <1>t DEF CpHandshake, CpCmdEnd, CpTypeOK
  <2>3. p \in Packet /\ p.cmd = cp.pkt.cmd
    BY <1>t, PacketFields, PayloadPacket DEF RESPONSE, Payload
  <2>4. p \in Acks /\ messages[PKT_FROM_CP] = NoMsg /\ cp'.pkt.cmd # MEMORY
    BY <1>0, <2>2, <2>3 DEF CpInv, FromCpMay, Acks
  <2> HIDE DEF p
  <2>5. /\ messages'[PKT_FROM_CP] = p /\ DownEmpty' = DownEmpty
        /\ Up \in Seq(Packet) /\ Up' = Append(Up, p) /\ Kept
    BY <1>0, <2>1, <2>3, <2>4, CpPush DEF p
  <2>6. CpHas /\ UpQuiet
    BY <1>0, <2>2, CpWorks DEF Resting, CpHas
  <2>7. One(Up', Acks)
    BY <2>3, <2>4, <2>5, <2>6, AppendKinds DEF UpQuiet
  <2>8. CpInv'
    BY <2>2, <2>4, <2>5 DEF CpInv, FromCpMay, MemoryState, DebugState
  <2>9. UpHas'
    BY <1>f, <2>2, <2>5, <2>6, <2>7 DEF CpHas, UpHas, UpQuiet, Resting
  <2> QED BY <2>5, <2>8, <2>9 DEF Baton
<1>4. CASE CpDebugWriteRequest \/ CpDebugWriteResponse
  <2>1. PICK type \in {REQUEST, RESPONSE} : PushMessage(PKT_FROM_CP, DebugPayload(type))
    BY <1>4 DEF CpDebugWriteRequest, CpDebugWriteResponse
  <2> DEFINE p == DebugPayload(type)
  <2>2. /\ cp.state \in {"DEBUG_WRITE_REQUEST", "DEBUG_WRITE_RESPONSE"}
        /\ cp'.pkt = cp.pkt /\ cp'.wait_restore_state = cp.wait_restore_state
        /\ cp'.state = "DEBUG_WRITE_WAIT"
    BY <1>4, <1>t DEF CpDebugWriteRequest, CpDebugWriteResponse, CpTypeOK
  <2>3. p \in Packet /\ p.cmd = MEMORY /\ p.sub_cmd = DEBUG
    BY <1>t, PacketFields, PayloadPacket, ZeroWord DEF DebugPayload, Payload
  <2>4. p \in Debugs /\ messages[PKT_FROM_CP] = NoMsg /\ DEVICE_DEBUG
        /\ cp.pkt.cmd # MEMORY
    BY <1>0, <2>2, <2>3 DEF CpInv, FromCpMay, Debugs, DebugState
  <2> HIDE DEF p
  <2>5. /\ messages'[PKT_FROM_CP] = p
        /\ DownEmpty' = DownEmpty /\ DownOne' = DownOne
        /\ Up \in Seq(Packet) /\ Up' = Append(Up, p) /\ Kept
    BY <1>0, <2>1, <2>3, <2>4, CpPush DEF p
  <2>6. (AllDebug(Up) => AllDebug(Up')) /\ (One(Up, Acks) => One(Up', Acks))
    BY <2>3, <2>4, <2>5, AppendKinds
  <2>7. CpInv'
    BY <1>0, <2>2, <2>4, <2>5 DEF CpInv, FromCpMay, MemoryState, DebugState
  <2>8. CASE cp.state = "DEBUG_WRITE_REQUEST"
    <3>1. Resting /\ Resting'
      BY <1>0, <2>2, <2>8 DEF CpInv, Resting
    <3> QED BY <1>0, <2>5, <2>6, <2>7, <3>1, CpRests
  <2>9. CASE cp.state = "DEBUG_WRITE_RESPONSE"
    <3>1. ~Resting /\ ~Resting'
      BY <1>0, <2>2, <2>9 DEF CpInv, Resting, AfterMem
    <3>2. CpHas /\ UpQuiet
      BY <1>0, <2>9, <3>1, CpWorks DEF CpHas
    <3>3. UpQuiet'
      BY <1>f, <2>6, <3>2 DEF UpQuiet
    <3>4. CpHas'
      BY <1>0, <2>2, <2>5, <3>1, <3>2, <3>3, CpGoesOn DEF CpHas
    <3> QED BY <2>5, <2>7, <3>4 DEF Baton
  <2> QED BY <2>2, <2>8, <2>9
<1>5. CASE CpDebugWriteWait \/ CpCmdEndWait
  <2>1. /\ cp.state \in {"DEBUG_WRITE_WAIT", "CMD_END_WAIT"}
        /\ messages[PKT_FROM_CP] = NoMsg /\ messages' = messages /\ cp'.pkt = cp.pkt
    BY <1>5, <1>t DEF CpDebugWriteWait, CpCmdEndWait, MessageAck, CpTypeOK
  <2>2. \/ /\ cp.state = "DEBUG_WRITE_WAIT" /\ cp'.state = cp.wait_restore_state
           /\ cp'.state \in AfterMem \cup {"IDLE"}
        \/ /\ cp.state = "CMD_END_WAIT" /\ cp'.state = "IDLE"
        \/ /\ cp.state = "CMD_END_WAIT" /\ cp'.state = "DEBUG_WRITE_REQUEST"
           /\ cp'.wait_restore_state = "IDLE" /\ DEVICE_DEBUG
    BY <1>0, <1>5, <1>t DEF CpDebugWriteWait, CpCmdEndWait, CpTypeOK, CpInv
  <2>3. CpInv'
    BY <1>0, <2>1, <2>2 DEF CpInv, FromCpMay, MemoryState, DebugState, AfterMem
  <2>4. /\ DownEmpty' = DownEmpty /\ DownOne' = DownOne
        /\ (Up' = Up) /\ UpQuiet' = UpQuiet /\ Kept
    BY <1>0, <2>1, CpStay
  <2>5. CASE Resting
    <3>1. Resting'
      BY <2>1, <2>2, <2>5 DEF Resting
    <3> QED BY <1>0, <2>3, <2>4, <2>5, <3>1, CpRests
  <2>6. CASE ~Resting
    <3>1. /\ cp.state = "DEBUG_WRITE_WAIT" /\ cp'.state \in AfterMem
      BY <2>1, <2>2, <2>6 DEF Resting
    <3>2. CpHas /\ UpQuiet
      BY <1>0, <2>6, <3>1, CpWorks DEF CpHas
    <3>3. CpHas'
      BY <1>0, <2>4, <3>1, <3>2, CpGoesOn DEF CpHas, Resting, AfterMem
    <3> QED BY <2>3, <2>4, <3>3 DEF Baton
  <2> QED BY <2>5, <2>6
<1>6. ASSUME NEW from \in {"MEM_FETCH", "MEM_WRITE_ADDR", "MEM_WRITE_VAL"},
             NEW sub_cmd \in {MEM_READ, MEM_WRITE}, NEW body \in Word,
             NEW to \in {"MEM_FETCH_WAIT", "MEM_WRITE_VAL_PREP", "MEM_WRITE_WAIT"},
             CpRequest(from, sub_cmd, body, to)
      PROVE  \E p \in Packet :
                /\ p.cmd = MEMORY /\ p.sub_cmd = sub_cmd
                /\ messages'[PKT_FROM_CP] = p
                /\ Up \in Seq(Packet) /\ Up' = Append(Up, p)
                /\ DownEmpty' /\ Kept /\ CpHas
                /\ cp.state = from /\ cp'.state = to
                /\ cp'.pkt.cmd # MEMORY /\ cp'.mem_op_restore_state \in AfterMem
  <2> DEFINE p == Payload(NextTxId, REQUEST, MEMORY, sub_cmd, body)
  <2>1. p \in Packet /\ p.cmd = MEMORY /\ p.sub_cmd = sub_cmd
    <3>1. sub_cmd \in {OP_1, OP_2, OP_3, DEBUG}
      BY DEF MEM_READ, MEM_WRITE, OP_1, OP_2
    <3> QED BY <1>t, <3>1, PayloadPacket DEF Payload
  <2>2. /\ cp.state = from /\ cp'.state = to /\ cp'.pkt = cp.pkt
        /\ cp'.mem_op_restore_state = cp.mem_op_restore_state
        /\ PushMessage(PKT_FROM_CP, p)
    BY <1>6, <1>t DEF CpRequest, CpTypeOK
  <2>3. /\ messages[PKT_FROM_CP] = NoMsg
        /\ cp.pkt.cmd # MEMORY /\ cp.mem_op_restore_state \in AfterMem
    BY <1>0, <2>2 DEF CpInv, FromCpMay, MemoryState
  <2>4. CpHas
    BY <1>0, <2>2, CpWorks DEF Resting
  <2> HIDE DEF p
  <2>5. /\ messages'[PKT_FROM_CP] = p /\ DownEmpty' = DownEmpty
        /\ Up \in Seq(Packet) /\ Up' = Append(Up, p) /\ Kept
    BY <1>0, <2>1, <2>2, <2>3, CpPush
  <2> QED BY <2>1, <2>2, <2>3, <2>4, <2>5 DEF CpHas
<1>7. CASE CpMemFetch
  <2>1. cp.mem_fetch_addr \in Word
    BY <1>t, CpFields
  <2>2. PICK p \in Packet :
            /\ p.cmd = MEMORY /\ p.sub_cmd = MEM_READ
            /\ messages'[PKT_FROM_CP] = p
            /\ Up \in Seq(Packet) /\ Up' = Append(Up, p)
            /\ DownEmpty' /\ Kept /\ CpHas
            /\ cp.state = "MEM_FETCH" /\ cp'.state = "MEM_FETCH_WAIT"
            /\ cp'.pkt.cmd # MEMORY /\ cp'.mem_op_restore_state \in AfterMem
    BY <1>6, <1>7, <2>1 DEF CpMemFetch
  <2>3. p \in Reads
    BY <2>2 DEF Reads
  <2>4. One(Up', Reads)
    BY <2>2, <2>3, AppendKinds DEF CpHas, UpQuiet
  <2>5. CpInv'
    BY <2>2, <2>3 DEF CpInv, FromCpMay, DebugState
  <2>6. UpHas'
    BY <1>f, <2>2, <2>4 DEF CpHas, UpHas, UpQuiet
  <2> QED BY <2>2, <2>5, <2>6 DEF Baton
<1>8. CASE CpMemWriteAddr
  <2>1. cp.mem_write_addr \in Word
    BY <1>t, CpFields
  <2>2. PICK p \in Packet :
            /\ p.cmd = MEMORY /\ p.sub_cmd = MEM_WRITE
            /\ messages'[PKT_FROM_CP] = p
            /\ Up \in Seq(Packet) /\ Up' = Append(Up, p)
            /\ DownEmpty' /\ Kept /\ CpHas
            /\ cp.state = "MEM_WRITE_ADDR" /\ cp'.state = "MEM_WRITE_VAL_PREP"
            /\ cp'.pkt.cmd # MEMORY /\ cp'.mem_op_restore_state \in AfterMem
    BY <1>6, <1>8, <2>1 DEF CpMemWriteAddr
  <2>3. p \in Writes
    BY <2>2 DEF Writes
  <2>4. One(Up', Writes)
    BY <2>2, <2>3, AppendKinds DEF CpHas, UpQuiet
  <2>5. CpInv'
    BY <2>2, <2>3 DEF CpInv, FromCpMay, DebugState
  <2>6. CpHas'
    BY <1>f, <2>2, <2>4 DEF CpHas, UpQuiet, Resting
  <2> QED BY <2>2, <2>5, <2>6 DEF Baton
<1>9. CASE CpMemWriteVal
  <2>1. cp.mem_val \in Word
    BY <1>t, CpFields
  <2>2. PICK p \in Packet :
            /\ p.cmd = MEMORY /\ p.sub_cmd = MEM_WRITE
            /\ messages'[PKT_FROM_CP] = p
            /\ Up \in Seq(Packet) /\ Up' = Append(Up, p)
            /\ DownEmpty' /\ Kept /\ CpHas
            /\ cp.state = "MEM_WRITE_VAL" /\ cp'.state = "MEM_WRITE_WAIT"
            /\ cp'.pkt.cmd # MEMORY /\ cp'.mem_op_restore_state \in AfterMem
    BY <1>6, <1>9, <2>1 DEF CpMemWriteVal
  <2>3. p \in Writes
    BY <2>2 DEF Writes
  <2>4. \/ Two(Up', Writes) /\ mem_write_state = "ADDR_RECV"
        \/ One(Up', Writes) /\ mem_write_state = "VAL_RECV"
    BY <2>2, <2>3, AppendKinds DEF CpHas
  <2>5. CpInv'
    BY <2>2, <2>3 DEF CpInv, FromCpMay, DebugState
  <2>6. UpHas'
    BY <1>f, <2>2, <2>4 DEF CpHas, UpHas
  <2> QED BY <2>2, <2>5, <2>6 DEF Baton
<1>10. CASE CpMemWriteValPrep
  <2>1. /\ cp.state = "MEM_WRITE_VAL_PREP" /\ cp'.state = "MEM_WRITE_VAL"
        /\ messages[PKT_FROM_CP] = NoMsg /\ messages' = messages /\ cp'.pkt = cp.pkt
        /\ cp'.mem_op_restore_state = cp.mem_op_restore_state
    BY <1>10, <1>t DEF CpMemWriteValPrep, MessageAck, CpTypeOK
  <2>2. CpHas
    BY <1>0, <2>1, CpWorks DEF Resting
  <2>3. (Up' = Up) /\ DownEmpty' = DownEmpty /\ Kept
    BY <1>0, <2>1, CpStay
  <2>4. CpInv'
    BY <1>0, <2>1 DEF CpInv, FromCpMay, MemoryState, DebugState
  <2>5. CpHas'
    BY <1>f, <2>1, <2>2, <2>3 DEF CpHas, Resting
  <2> QED BY <2>3, <2>4, <2>5 DEF Baton
<1>11. CASE CpMemFetchWait
  <2>1. messages[PKT_TO_CP] \in Packet
    BY <1>11, <1>t DEF CpMemFetchWait, TakeMessage, MessagesTypeOK, Mailbox
  <2>2. messages[PKT_TO_CP].body \in Word
    BY <2>1, PacketFields
  <2> QED BY <1>0, <1>11, <2>2, AfterMemOpBaton DEF CpMemFetchWait
<1>12. CASE CpMemWriteWait
  BY <1>0, <1>12, AfterMemOpBaton DEF CpMemWriteWait
<1>13. CASE \/ CpFetchOp1 \/ CpFetchOp1End \/ CpFetchOp2 \/ CpFetchOp2End
            \/ CpExecute("ADD", ADD) \/ CpExecute("MULP2", MULP2)
            \/ CpExecute("DIVP2", DIVP2)
  <2>1. /\ cp.state \in {"FETCH_OP1", "FETCH_OP1_END", "FETCH_OP2", "FETCH_OP2_END",
                         "ADD", "MULP2", "DIVP2"}
        /\ messages' = messages /\ cp'.pkt = cp.pkt
        /\ \/ cp'.state = "CMD_END"
           \/ /\ cp'.state \in {"MEM_FETCH", "MEM_WRITE_ADDR"}
              /\ cp'.mem_op_restore_state \in AfterMem
    BY <1>13, <1>t DEF CpFetchOp1, CpFetchOp1End, CpFetchOp2, CpFetchOp2End, CpExecute,
                       CpTypeOK, AfterMem
  <2>2. CpHas /\ UpQuiet
    BY <1>0, <2>1, CpWorks DEF Resting, CpHas
  <2>3. UpQuiet' = UpQuiet /\ DownEmpty' = DownEmpty /\ Kept
    BY <1>0, <2>1, CpStay
  <2>4. CpInv'
    BY <1>0, <2>1 DEF CpInv, FromCpMay, MemoryState, DebugState
  <2>5. CpHas'
    BY <1>0, <2>1, <2>2, <2>3, CpGoesOn DEF CpHas, Resting
  <2> QED BY <2>3, <2>4, <2>5 DEF Baton
<1> QED BY <1>0, <1>1, <1>2, <1>3, <1>4, <1>5, <1>7, <1>8, <1>9, <1>10, <1>11,
           <1>12, <1>13 DEF CpExecuteTick

-----------------------------------------------------------------------------
(* The system.                                                             *)

\* With LOG_ENABLED a handshake that gets no answer ends the process.
LEMMA TimeoutBaton ==
    ASSUME LOG_ENABLED, Baton, Running, TimeoutStep
    PROVE  Baton' /\ Kept
<1>1. UNCHANGED linkVars
  BY DEF TimeoutStep, HandshakeTimeout, Goto, deviceVars, implVars, linkVars
<1>2. mainPc # "exited" /\ mainPc' = "exited"
  BY DEF Running, TimeoutStep, HandshakeTimeout, Goto
<1> QED BY <1>1, <1>2, FrameBaton

LEMMA BatonInit == Init => Baton
<1> SUFFICES ASSUME Init PROVE Baton
  OBVIOUS
<1>1. /\ messages[PKT_TO_DEVICE] = NoMsg /\ messages[PKT_TO_CP] = NoMsg
      /\ messages[PKT_FROM_CP] = NoMsg
  BY DEF Init, MessagesInit, Mailbox
<1>2. cp.state = "IDLE"
  BY DEF Init, CpInit
<1>3. CpInv /\ Resting
  BY <1>1, <1>2 DEF CpInv, FromCpMay, Resting, MemoryState, DebugState
<1>4. Up = <<>>
  BY <1>1 DEF Init, InterfaceInit, ImplInit, Up, Opt
<1>5. UpQuiet
  BY <1>4 DEF Init, ImplInit, UpQuiet, AllDebug
<1>6. DownEmpty /\ AckEmpty /\ ~Waiting /\ impl_reply = NoMsg
  BY <1>1 DEF Init, InterfaceInit, ImplInit, DriverInit, DownEmpty, AckEmpty, AllRead,
              Waiting
<1> QED BY <1>3, <1>5, <1>6 DEF Baton, MainHas

\* Whoever takes a step hands the baton on or keeps it, and no mailbox that
\* holds a packet is pushed to.
LEMMA BatonStep ==
    LOG_ENABLED /\ TypeInv /\ Baton /\ [Next]_vars => Baton' /\ Kept
<1> SUFFICES ASSUME LOG_ENABLED, TypeInv, Baton, [Next]_vars PROVE Baton' /\ Kept
  OBVIOUS
<1>1. CASE Running /\ (AppStep \/ LibraryStep \/ TimeoutStep \/ RecvStep)
  BY <1>1, AppBaton, LibraryBaton, TimeoutBaton, RecvBaton
<1>2. CASE Running /\ (ImplStep \/ RxStep \/ TxStep \/ CpStep)
  BY <1>2, ImplBaton, InterfaceBaton, CpBaton
<1>3. CASE UNCHANGED vars
  <2>1. UNCHANGED linkVars /\ mainPc' = mainPc
    BY <1>3 DEF vars, deviceVars, implVars, driverVars, linkVars
  <2>2. (Waiting' = Waiting)
    BY <2>1 DEF Waiting
  <2>3. CASE mainPc = "exited"
    BY <2>1, <2>3, Frame DEF Baton
  <2> QED BY <2>1, <2>2, <2>3, FrameBaton
<1> QED BY <1>1, <1>2, <1>3 DEF Next, Terminated

LEMMA BatonInvariant == LOG_ENABLED => (Spec => []Baton)
<1> SUFFICES ASSUME LOG_ENABLED PROVE Spec => []Baton
  OBVIOUS
<1>1. TypeInv /\ Baton /\ [Next]_vars => Baton'
  BY BatonStep
<1> QED BY <1>1, BatonInit, TypeInvariant, PTL DEF Spec

\* In builds with LOG_ENABLED the link is a baton: only one of the six threads
\* at a time has something to send, whatever the order they run in.
THEOREM OneBaton ==
    ASSUME LOG_ENABLED
    PROVE  Spec => []Baton
BY BatonInvariant

\* push_message (hw_module.h:61-68) never replaces a packet that has not been
\* taken: the mailboxes need no queue although nobody looks before pushing.
THEOREM NothingOverwritten ==
    ASSUME LOG_ENABLED
    PROVE  Spec => NoOverwrite
<1>1. TypeInv /\ Baton /\ [Next]_vars
        => [\A b \in Mailbox :
               messages[b] # NoMsg => messages'[b] \in {messages[b], NoMsg}]_vars
  BY BatonStep DEF Kept
<1> QED BY <1>1, BatonInvariant, TypeInvariant, PTL DEF Spec, NoOverwrite

\* Between mInit and mFree, outside mSync, the device is at rest: what mFree
\* (matrix.cpp:204-218) throws away is at most statistics, and the memory the
\* application reads is not being written.
THEOREM QuietBetweenCalls ==
    ASSUME LOG_ENABLED
    PROVE  Spec => []QuietOutsideSync
<1>1. ASSUME TypeInv, Baton PROVE QuietOutsideSync
  <2> SUFFICES ASSUME mainPc \in {"app", "freeing", "freed"}
               PROVE  /\ \A p \in InFlight :
                            DEVICE_DEBUG /\ p.cmd = MEMORY /\ p.sub_cmd = DEBUG
                      /\ cp.state \in {"IDLE", "CMD_END_WAIT", "DEBUG_WRITE_REQUEST",
                                       "DEBUG_WRITE_WAIT"}
                      /\ mem_write_state = "ADDR_RECV"
    BY DEF QuietOutsideSync
  <2>1. MainHas
    BY <1>1, Holders DEF Waiting
  <2>2. UpTypes /\ AllDebug(Up)
    BY <1>1, <2>1, LinkTypes DEF MainHas, UpQuiet
  <2>3. /\ {impl_msg, tx_msg, messages[PKT_FROM_CP]} \subseteq Debugs \cup {NoMsg}
        /\ \A i \in 1 .. Len(driver_payload) : driver_payload[i] \in Debugs
    BY <2>2, UpParts
  <2>4. /\ messages[PKT_TO_DEVICE] = NoMsg /\ messages[PKT_TO_CP] = NoMsg
        /\ rx_msg = NoMsg /\ impl_reply = NoMsg /\ scratch = NoMsg
        /\ received_payloads = <<>>
    BY <2>1 DEF MainHas, DownEmpty, AckEmpty
  <2>5. DOMAIN driver_payload = 1 .. Len(driver_payload)
    BY <2>2 DEF UpTypes
  <2>6. InFlight \subseteq Debugs
    BY <2>3, <2>4, <2>5 DEF InFlight, Mailbox
  <2> QED BY <2>1, <2>6 DEF MainHas, UpQuiet, Resting, Debugs
<1> QED BY <1>1, BatonInvariant, TypeInvariant, PTL

=============================================================================
