-------------------------- MODULE SerialErrandProofs --------------------------
(***************************************************************************)
(* Proof that Errand is an invariant of the serial system, that the        *)
(* responses mSync finds answer the packets it waits for, that the host    *)
(* and the board together implement MatrixAccelerator, and that            *)
(* Remembering is an invariant, so that statistics find their response.    *)
(***************************************************************************)
EXTENDS SerialLinkProofs

-----------------------------------------------------------------------------
(* The registers of the processor.                                         *)

KeepsCommand   == cp'.pkt_id = cp.pkt_id /\ SameCommand
KeepsOperands  == cp'.op_1 = cp.op_1 /\ cp'.op_2 = cp.op_2
KeepsAddresses == cp'.mem_fetch_addr = cp.mem_fetch_addr /\ cp'.mem_write_addr = cp.mem_write_addr
KeepsValue     == cp'.mem_val = cp.mem_val
KeepsTag       == cp'.tx_cmd_id = cp.tx_cmd_id
KeepsType      == cp'.debug_pkt_type = cp.debug_pkt_type

\* Which places change which.
RegisterFrame ==
    /\ cp.state # "CP_IDLE" => KeepsCommand
    /\ cp.state \notin {"CP_FETCH_OP1_END", "CP_FETCH_OP2_END"} => KeepsOperands
    /\ cp.state \notin {"CP_FETCH_OP1", "CP_FETCH_OP2", "CP_ADD", "CP_MULP2", "CP_DIVP2"} =>
           KeepsAddresses
    /\ cp.state \notin {"CP_ADD", "CP_MULP2", "CP_DIVP2", "CP_MEM_FETCH_END"} => KeepsValue
    /\ cp.state \notin {"CP_MEM_FETCH_PREP", "CP_MEM_WRITE_ADDR_PREP", "CP_MEM_WRITE_VAL_PREP",
                        "CP_STOP", "CP_STOP_MODIFIED"} => KeepsTag
    /\ cp.state \notin {"CP_IDLE", "CP_STOP", "CP_DEBUG_WRITE_WAIT_PREP"} => KeepsType

\* No state of command_processor.v assigns another register.
LEMMA RegistersKept ==
    ASSUME cp \in CpRecord, CpClock
    PROVE  RegisterFrame
<1> USE DEF KeepsCommand, SameCommand, KeepsOperands, KeepsAddresses, KeepsValue, KeepsTag, KeepsType
<1>1. CASE cp.state = "CP_IDLE"
  <2>1. CpIdle
    BY <1>1, CpAt DEF At
  <2> QED BY <1>1, <2>1 DEF CpIdle, Registers, RegisterFrame, CpRecord
<1>2. CASE cp.state = "CP_PACKET_DECODE"
  <2>1. CpPacketDecode
    BY <1>2, CpAt DEF At
  <2> QED BY <1>2, <2>1 DEF CpPacketDecode, Registers, RegisterFrame, CpRecord
<1>3. CASE cp.state = "CP_DELAY"
  <2>1. CpDelay
    BY <1>3, CpAt DEF At
  <2> QED BY <1>3, <2>1 DEF CpDelay, Registers, RegisterFrame, CpRecord
<1>4. CASE cp.state = "CP_TX_PACKET_SENT_WAIT"
  <2>1. CpTxPacketSentWait
    BY <1>4, CpAt DEF At
  <2> QED BY <1>4, <2>1 DEF CpTxPacketSentWait, Registers, RegisterFrame, CpRecord
<1>5. CASE cp.state = "CP_HANDSHAKE_PREP"
  <2>1. CpHandshakePrep
    BY <1>5, CpAt DEF At
  <2> QED BY <1>5, <2>1 DEF CpHandshakePrep, Lower, Registers, RegisterFrame, CpRecord
<1>6. CASE cp.state = "CP_HANDSHAKE"
  <2>1. CpHandshake
    BY <1>6, CpAt DEF At
  <2> QED BY <1>6, <2>1 DEF CpHandshake, Transmit, Raise, Registers, RegisterFrame, CpRecord
<1>7. CASE cp.state = "CP_CMD_END_PREP"
  <2>1. CpCmdEndPrep
    BY <1>7, CpAt DEF At
  <2> QED BY <1>7, <2>1 DEF CpCmdEndPrep, Lower, Registers, RegisterFrame, CpRecord
<1>8. CASE cp.state = "CP_CMD_END"
  <2>1. CpCmdEnd
    BY <1>8, CpAt DEF At
  <2> QED BY <1>8, <2>1 DEF CpCmdEnd, Transmit, Raise, Registers, RegisterFrame, CpRecord
<1>9. CASE cp.state = "CP_STOP"
  <2>1. IF DEVICE_DEBUG THEN CpStop ELSE CpNextCommand
    BY <1>9, CpAt DEF At
  <2>2. CASE CpStop
    <3> DEFINE new == [cp EXCEPT !.debug_restore_state = "CP_STOP_MODIFIED"]
    <3>1. \/ cp' = cp
          \/ cp' = [new EXCEPT !.debug_pkt_type = REQUEST, !.state = "CP_DEBUG_WRITE_WAIT"]
      BY <2>2, StatisticsStep DEF CpStop
    <3>2. /\ KeepsCommand /\ KeepsOperands /\ KeepsAddresses /\ KeepsValue
      BY <3>1 DEF CpRecord
    <3> QED BY <1>9, <3>2 DEF RegisterFrame
  <2>3. CASE CpNextCommand
    BY <1>9, <2>3 DEF CpNextCommand, Registers, RegisterFrame, CpRecord
  <2> QED BY <2>1, <2>2, <2>3
<1>10. CASE cp.state = "CP_STOP_MODIFIED"
  <2>1. CpNextCommand
    BY <1>10, CpAt DEF At
  <2> QED BY <1>10, <2>1 DEF CpNextCommand, Registers, RegisterFrame, CpRecord
<1>11. CASE cp.state = "CP_DEBUG_WRITE_WAIT_PREP"
  <2>1. CpDebugWriteWaitPrep
    BY <1>11, CpAt DEF At
  <2>2. \/ cp' = cp
        \/ cp' = [cp EXCEPT !.debug_pkt_type = RESPONSE, !.state = "CP_DEBUG_WRITE_WAIT"]
    BY <2>1, StatisticsStep DEF CpDebugWriteWaitPrep
  <2>3. /\ KeepsCommand /\ KeepsOperands /\ KeepsAddresses /\ KeepsValue /\ KeepsTag
    BY <2>2 DEF CpRecord
  <2> QED BY <1>11, <2>3 DEF RegisterFrame
<1>12. CASE cp.state = "CP_DEBUG_WRITE_WAIT"
  <2>1. CpDebugWriteWait
    BY <1>12, CpAt DEF At
  <2> QED BY <1>12, <2>1 DEF CpDebugWriteWait, Transmit, Raise, Registers, RegisterFrame, CpRecord
<1>13. CASE cp.state = "CP_DEBUG_WRITE_RESTORE"
  <2>1. CpDebugWriteRestore
    BY <1>13, CpAt DEF At
  <2> QED BY <1>13, <2>1 DEF CpDebugWriteRestore, Registers, RegisterFrame, CpRecord
<1>14. CASE cp.state = "CP_MEM_FETCH_PREP"
  <2>1. CpMemFetchPrep
    BY <1>14, CpAt DEF At
  <2> QED BY <1>14, <2>1 DEF CpMemFetchPrep, Lower, NextId, Registers, RegisterFrame, CpRecord
<1>15. CASE cp.state = "CP_MEM_FETCH"
  <2>1. CpMemFetch
    BY <1>15, CpAt DEF At
  <2> QED BY <1>15, <2>1 DEF CpMemFetch, Transmit, Raise, Registers, RegisterFrame, CpRecord
<1>16. CASE cp.state = "CP_MEM_FETCH_END"
  <2>1. CpMemFetchEnd
    BY <1>16, CpAt DEF At
  <2> QED BY <1>16, <2>1 DEF CpMemFetchEnd, AfterMemOp, Registers, RegisterFrame, CpRecord
<1>17. CASE cp.state = "CP_MEM_WRITE_ADDR_PREP"
  <2>1. CpMemWriteAddrPrep
    BY <1>17, CpAt DEF At
  <2> QED BY <1>17, <2>1 DEF CpMemWriteAddrPrep, Lower, NextId, Registers, RegisterFrame, CpRecord
<1>18. CASE cp.state = "CP_MEM_WRITE_ADDR"
  <2>1. CpMemWriteAddr
    BY <1>18, CpAt DEF At
  <2> QED BY <1>18, <2>1 DEF CpMemWriteAddr, Raise, Registers, RegisterFrame, CpRecord
<1>19. CASE cp.state = "CP_MEM_WRITE_VAL_PREP"
  <2>1. CpMemWriteValPrep
    BY <1>19, CpAt DEF At
  <2>2. CASE tx_packet_sent = 1
    <3>1. Lower(NextId, "CP_MEM_WRITE_VAL")
      BY <2>1, <2>2 DEF CpMemWriteValPrep
    <3> QED BY <1>19, <3>1 DEF Lower, NextId, RegisterFrame, CpRecord
  <2>3. CASE tx_packet_sent # 1
    <3>1. cp' = cp
      BY <2>1, <2>3 DEF CpMemWriteValPrep, commandProcessorVars
    <3> QED BY <3>1 DEF RegisterFrame
  <2> QED BY <2>2, <2>3
<1>20. CASE cp.state = "CP_MEM_WRITE_VAL"
  <2>1. CpMemWriteVal
    BY <1>20, CpAt DEF At
  <2> QED BY <1>20, <2>1 DEF CpMemWriteVal, Transmit, Raise, Registers, RegisterFrame, CpRecord
<1>21. CASE cp.state = "CP_MEM_WRITE_END"
  <2>1. CpMemWriteEnd
    BY <1>21, CpAt DEF At
  <2> QED BY <1>21, <2>1 DEF CpMemWriteEnd, AfterMemOp, Registers, RegisterFrame, CpRecord
<1>22. CASE cp.state = "CP_FETCH_OP1"
  <2>1. CpFetchOp1
    BY <1>22, CpAt DEF At
  <2> QED BY <1>22, <2>1 DEF CpFetchOp1, CpFetchOp, Registers, RegisterFrame, CpRecord
<1>23. CASE cp.state = "CP_FETCH_OP1_END"
  <2>1. CpFetchOp1End
    BY <1>23, CpAt DEF At
  <2> QED BY <1>23, <2>1 DEF CpFetchOp1End, Registers, RegisterFrame, CpRecord
<1>24. CASE cp.state = "CP_FETCH_OP2"
  <2>1. CpFetchOp2
    BY <1>24, CpAt DEF At
  <2> QED BY <1>24, <2>1 DEF CpFetchOp2, CpFetchOp, Registers, RegisterFrame, CpRecord
<1>25. CASE cp.state = "CP_FETCH_OP2_END"
  <2>1. CpFetchOp2End
    BY <1>25, CpAt DEF At
  <2> QED BY <1>25, <2>1 DEF CpFetchOp2End, Registers, RegisterFrame, CpRecord
<1>26. CASE cp.state = "CP_ADD"
  <2>1. CpExecute("CP_ADD", ADD)
    BY <1>26, CpAt DEF At
  <2> QED BY <1>26, <2>1 DEF CpExecute, Registers, RegisterFrame, CpRecord
<1>27. CASE cp.state = "CP_MULP2"
  <2>1. CpExecute("CP_MULP2", MULP2)
    BY <1>27, CpAt DEF At
  <2> QED BY <1>27, <2>1 DEF CpExecute, Registers, RegisterFrame, CpRecord
<1>28. CASE cp.state = "CP_DIVP2"
  <2>1. CpExecute("CP_DIVP2", DIVP2)
    BY <1>28, CpAt DEF At
  <2> QED BY <1>28, <2>1 DEF CpExecute, Registers, RegisterFrame, CpRecord
<1>29. cp.state \in CpState
  BY DEF CpRecord
<1> QED BY <1>1, <1>2, <1>3, <1>4, <1>5, <1>6, <1>7, <1>8, <1>9, <1>10, <1>11, <1>12, <1>13,
           <1>14, <1>15, <1>16, <1>17, <1>18, <1>19, <1>20, <1>21, <1>22, <1>23, <1>24, <1>25,
           <1>26, <1>27, <1>28, <1>29 DEF CpState

\* What they change them to.
LEMMA CommandTaken ==
    ASSUME cp \in CpRecord, CpClock, cp.state = "CP_IDLE", rx_packet_ready # 0
    PROVE  cp'.pkt_id = Received.id
<1>1. CpIdle
  BY CpAt DEF At
<1>2. Received.id = LowNibble(rx_packet[1])
  BY DEF Received, Unflatten, Payload
<1> QED BY <1>1, <1>2 DEF CpIdle, Registers, CpRecord

\* DECODE goes by the command and the operand number it has saved.
LEMMA CommandDecoded ==
    ASSUME cp \in CpRecord, CpClock, cp.state = "CP_PACKET_DECODE"
    PROVE  cp'.state = Decoded(cp.pkt_cmd, cp.pkt_sub_cmd)
<1>1. CpPacketDecode
  BY CpAt DEF At
<1> DEFINE q == Decoded(cp.pkt_cmd, cp.pkt_sub_cmd)
<1>2. cp' = [cp EXCEPT !.state = q]
  BY <1>1 DEF CpPacketDecode, Registers
<1> HIDE DEF q
<1>3. cp'.state = q
  BY <1>2 DEF CpRecord
<1> QED BY <1>3 DEF q

\* The address of an operand is the body of its packet, the return its state.
LEMMA AddressTaken ==
    ASSUME cp \in CpRecord, CpClock
    PROVE  /\ cp.state = "CP_FETCH_OP1" =>
                  /\ cp'.mem_fetch_addr = Received.body
                  /\ cp'.mem_op_restore_state = "CP_FETCH_OP1_END"
           /\ cp.state = "CP_FETCH_OP2" =>
                  /\ cp'.mem_fetch_addr = Received.body
                  /\ cp'.mem_op_restore_state = "CP_FETCH_OP2_END"
<1>1. Received.body = Body(rx_packet)
  BY DEF Received, Unflatten, Payload
<1> DEFINE b == Body(rx_packet)
<1>2. CASE cp.state = "CP_FETCH_OP1"
  <2>1. cp' = [cp EXCEPT !.mem_fetch_addr = b, !.mem_op_restore_state = "CP_FETCH_OP1_END",
                         !.state = "CP_MEM_FETCH_PREP"]
    BY <1>2, CpAt DEF At, CpFetchOp1, CpFetchOp, Registers
  <2> HIDE DEF b
  <2>2. cp'.mem_fetch_addr = b /\ cp'.mem_op_restore_state = "CP_FETCH_OP1_END"
    BY <2>1 DEF CpRecord
  <2> QED BY <1>1, <1>2, <2>2 DEF b
<1>3. CASE cp.state = "CP_FETCH_OP2"
  <2>1. cp' = [cp EXCEPT !.mem_fetch_addr = b, !.mem_op_restore_state = "CP_FETCH_OP2_END",
                         !.state = "CP_MEM_FETCH_PREP"]
    BY <1>3, CpAt DEF At, CpFetchOp2, CpFetchOp, Registers
  <2> HIDE DEF b
  <2>2. cp'.mem_fetch_addr = b /\ cp'.mem_op_restore_state = "CP_FETCH_OP2_END"
    BY <2>1 DEF CpRecord
  <2> QED BY <1>1, <1>3, <2>2 DEF b
<1> QED BY <1>2, <1>3

\* The command each of the three states computes.
CommandAt(state) ==
    CASE state = "CP_ADD" -> ADD
      [] state = "CP_MULP2" -> MULP2
      [] state = "CP_DIVP2" -> DIVP2

\* A result goes to the address in the third packet's body.
LEMMA ResultComputed ==
    ASSUME cp \in CpRecord, CpClock, cp.state \in {"CP_ADD", "CP_MULP2", "CP_DIVP2"}
    PROVE  /\ cp'.mem_write_addr = Received.body
           /\ cp'.mem_val = RtlAlu(CommandAt(cp.state), cp.op_1, cp.op_2)
<1>1. Received.body = Body(rx_packet)
  BY DEF Received, Unflatten, Payload
<1>2. CpExecute(cp.state, CommandAt(cp.state))
  BY CpAt DEF At, CommandAt
<1> DEFINE b == Body(rx_packet)
           v == RtlAlu(CommandAt(cp.state), cp.op_1, cp.op_2)
<1>3. cp' = [cp EXCEPT !.mem_write_addr = b, !.mem_val = v,
                       !.mem_op_restore_state = "CP_CMD_END_PREP",
                       !.state = "CP_MEM_WRITE_ADDR_PREP"]
  BY <1>2 DEF CpExecute, Registers
<1> HIDE DEF b, v
<1>4. cp'.mem_write_addr = b /\ cp'.mem_val = v
  BY <1>3 DEF CpRecord
<1> QED BY <1>1, <1>4 DEF b, v

\* What was fetched becomes the operand.
LEMMA OperandTaken ==
    ASSUME cp \in CpRecord, CpClock
    PROVE  /\ cp.state = "CP_FETCH_OP1_END" => cp'.op_1 = cp.mem_val /\ cp'.op_2 = cp.op_2
           /\ cp.state = "CP_FETCH_OP2_END" => cp'.op_2 = cp.mem_val /\ cp'.op_1 = cp.op_1
<1>1. CASE cp.state = "CP_FETCH_OP1_END"
  BY <1>1, CpAt DEF At, CpFetchOp1End, Registers, CpRecord
<1>2. CASE cp.state = "CP_FETCH_OP2_END"
  BY <1>2, CpAt DEF At, CpFetchOp2End, Registers, CpRecord
<1> QED BY <1>1, <1>2

\* An answer is read while the packet layer still shows it.
LEMMA ValueRead ==
    ASSUME cp \in CpRecord, CpClock, cp.state = "CP_MEM_FETCH_END"
    PROVE  cp' = cp \/ cp'.mem_val = Received.body
<1>1. Received.body = Body(rx_packet)
  BY DEF Received, Unflatten, Payload
<1>2. CpMemFetchEnd
  BY CpAt DEF At
<1> DEFINE b == Body(rx_packet)
           new == [cp EXCEPT !.mem_val = b]
<1>3. cp' = cp \/ cp' = AfterMemOp(new)
  BY <1>2 DEF CpMemFetchEnd, Registers
<1>4. new.mem_val = b
  BY DEF CpRecord
<1>5. AfterMemOp(new).mem_val = b
  BY <1>4 DEF AfterMemOp, CpRecord
<1> QED BY <1>1, <1>3, <1>5

\* The packets they announce.
LEMMA PacketAnnounced ==
    ASSUME cp \in CpRecord, CpClock
    PROVE  /\ cp.state = "CP_MEM_FETCH" => Sending' = CpRequest(MEM_READ, cp.mem_fetch_addr)
           /\ cp.state = "CP_MEM_WRITE_ADDR" => Sending' = CpRequest(MEM_WRITE, cp.mem_write_addr)
           /\ cp.state = "CP_MEM_WRITE_VAL" => Sending' = CpRequest(MEM_WRITE, cp.mem_val)
           /\ cp.state = "CP_CMD_END" /\ Decodable => Sending' = CpResponse(0)
           /\ cp.state = "CP_DEBUG_WRITE_WAIT" /\ DEVICE_DEBUG =>
                  Sending' = Payload(cp.pkt_id, cp.debug_pkt_type, MEMORY, DEBUG, 0)
<1>1. 0 \in Word /\ cp.mem_val \in Word /\ cp.mem_fetch_addr \in Word /\ cp.mem_write_addr \in Word
  BY WordAssumption DEF CpRecord, Word
<1>2. CASE cp.state = "CP_MEM_FETCH"
  <2>1. tx_packet' = Flatten(CpRequest(MEM_READ, cp.mem_fetch_addr))
    BY <1>2, CpAt DEF At, CpMemFetch, Transmit, Raise
  <2>2. CpRequest(MEM_READ, cp.mem_fetch_addr) \in Packet
    BY <1>1, CpRequestKind, Kinds
  <2> QED BY <1>2, <2>1, <2>2, Announced
<1>3. CASE cp.state = "CP_MEM_WRITE_ADDR"
  <2>1. tx_packet' = Flatten(CpRequest(MEM_WRITE, cp.mem_write_addr))
    BY <1>3, CpAt DEF At, CpMemWriteAddr, Raise
  <2>2. CpRequest(MEM_WRITE, cp.mem_write_addr) \in Packet
    BY <1>1, CpRequestKind, Kinds
  <2> QED BY <1>3, <2>1, <2>2, Announced
<1>4. CASE cp.state = "CP_MEM_WRITE_VAL"
  <2>1. tx_packet' = Flatten(CpRequest(MEM_WRITE, cp.mem_val))
    BY <1>4, CpAt DEF At, CpMemWriteVal, Transmit, Raise
  <2>2. CpRequest(MEM_WRITE, cp.mem_val) \in Packet
    BY <1>1, CpRequestKind, Kinds
  <2> QED BY <1>4, <2>1, <2>2, Announced
<1>5. CASE cp.state = "CP_CMD_END" /\ Decodable
  <2>1. tx_packet' = Flatten(CpResponse(0))
    BY <1>5, CpAt DEF At, CpCmdEnd, Transmit, Raise
  <2>2. CpResponse(0) \in Packet
    BY <1>1, <1>5, CpResponseKind, Kinds
  <2> QED BY <1>5, <2>1, <2>2, Announced
<1>6. CASE cp.state = "CP_DEBUG_WRITE_WAIT" /\ DEVICE_DEBUG
  <2>1. tx_packet' = Flatten(Payload(cp.pkt_id, cp.debug_pkt_type, MEMORY, DEBUG, 0))
    BY <1>6, CpAt DEF At, CpDebugWriteWait, Transmit, Raise
  <2>2. Payload(cp.pkt_id, cp.debug_pkt_type, MEMORY, DEBUG, 0) \in Packet
    BY <1>6, StatsKind, Kinds
  <2> QED BY <1>6, <2>1, <2>2, Announced
<1> QED BY <1>2, <1>3, <1>4, <1>5, <1>6

\* Nothing that a packet or a command depends on.
SameData ==
    /\ KeepsCommand /\ KeepsOperands /\ KeepsAddresses /\ KeepsValue /\ KeepsTag /\ KeepsType
    /\ SameReturns

\* It goes to another place or leaves its registers alone.
Leaves ==
    \/ cp' = cp
    \/ cp'.state # "CP_DELAY" /\ cp'.state # "CP_TX_PACKET_SENT_WAIT" /\ cp'.state # cp.state

\* A state that changes a register is left at once.
LEMMA RegistersMove ==
    ASSUME cp \in CpRecord, CpClock, CpPlaces,
           cp.state \in {"CP_IDLE", "CP_FETCH_OP1", "CP_FETCH_OP1_END", "CP_FETCH_OP2",
                        "CP_FETCH_OP2_END", "CP_ADD", "CP_MULP2", "CP_DIVP2", "CP_MEM_FETCH_END",
                        "CP_STOP", "CP_STOP_MODIFIED", "CP_DEBUG_WRITE_WAIT_PREP"}
    PROVE  Leaves
<1>1. CASE cp.state = "CP_IDLE"
  <2>1. CpIdle
    BY <1>1, CpAt DEF At
  <2> QED BY <1>1, <2>1 DEF CpIdle, Registers, Leaves, CpRecord
<1>2. CASE cp.state = "CP_FETCH_OP1"
  <2>1. CpFetchOp1
    BY <1>2, CpAt DEF At
  <2> QED BY <1>2, <2>1 DEF CpFetchOp1, CpFetchOp, Registers, Leaves, CpRecord
<1>3. CASE cp.state = "CP_FETCH_OP1_END"
  <2>1. CpFetchOp1End
    BY <1>3, CpAt DEF At
  <2> QED BY <1>3, <2>1 DEF CpFetchOp1End, Registers, Leaves, CpRecord
<1>4. CASE cp.state = "CP_FETCH_OP2"
  <2>1. CpFetchOp2
    BY <1>4, CpAt DEF At
  <2> QED BY <1>4, <2>1 DEF CpFetchOp2, CpFetchOp, Registers, Leaves, CpRecord
<1>5. CASE cp.state = "CP_FETCH_OP2_END"
  <2>1. CpFetchOp2End
    BY <1>5, CpAt DEF At
  <2> QED BY <1>5, <2>1 DEF CpFetchOp2End, Registers, Leaves, CpRecord
<1>6. CASE cp.state = "CP_ADD"
  <2>1. CpExecute("CP_ADD", ADD)
    BY <1>6, CpAt DEF At
  <2> QED BY <1>6, <2>1 DEF CpExecute, Registers, Leaves, CpRecord
<1>7. CASE cp.state = "CP_MULP2"
  <2>1. CpExecute("CP_MULP2", MULP2)
    BY <1>7, CpAt DEF At
  <2> QED BY <1>7, <2>1 DEF CpExecute, Registers, Leaves, CpRecord
<1>8. CASE cp.state = "CP_DIVP2"
  <2>1. CpExecute("CP_DIVP2", DIVP2)
    BY <1>8, CpAt DEF At
  <2> QED BY <1>8, <2>1 DEF CpExecute, Registers, Leaves, CpRecord
<1>9. CASE cp.state = "CP_STOP"
  <2>1. IF DEVICE_DEBUG THEN CpStop ELSE CpNextCommand
    BY <1>9, CpAt DEF At
  <2> QED BY <1>9, <2>1 DEF CpStop, CpNextCommand, Statistics, commandProcessorVars, Registers,
             Leaves, CpRecord
<1>10. CASE cp.state = "CP_STOP_MODIFIED"
  <2>1. CpNextCommand
    BY <1>10, CpAt DEF At
  <2> QED BY <1>10, <2>1 DEF CpNextCommand, Registers, Leaves, CpRecord
<1>11. CASE cp.state = "CP_DEBUG_WRITE_WAIT_PREP"
  <2>1. CpDebugWriteWaitPrep
    BY <1>11, CpAt DEF At
  <2> QED BY <1>11, <2>1 DEF CpDebugWriteWaitPrep, Statistics, commandProcessorVars, Registers,
             Leaves, CpRecord
<1>12. CASE cp.state = "CP_MEM_FETCH_END"
  <2>1. CpMemFetchEnd
    BY <1>12, CpAt DEF At
  <2>2. cp.mem_op_restore_state \in {"CP_FETCH_OP1_END", "CP_FETCH_OP2_END"}
    BY <1>12 DEF CpPlaces, Place, FetchPlaces
  <2> QED BY <1>12, <2>1, <2>2 DEF CpMemFetchEnd, AfterMemOp, Registers, Leaves, CpRecord
<1> QED BY <1>1, <1>2, <1>3, <1>4, <1>5, <1>6, <1>7, <1>8, <1>9, <1>10, <1>11, <1>12

\* While the processor stays where it is, or its packet is up, all it knows stays.
LEMMA StayingKeeps ==
    ASSUME Clocked, Same \/ PacketUp
    PROVE  /\ SameData /\ Place' = Place /\ Sending' = Sending
           /\ Same => Up' = Up /\ (Busy' <=> Busy)
           /\ PacketUp => Up' = Append(Up, Sending) /\ Busy /\ ~Busy'
<1> USE DEF Clocked
<1>1. Place' = Place /\ SameCommand /\ SameReturns /\ Sending' = Sending
  BY DEF Same, PacketUp, Keeps, SameCommand, SameReturns, WiresKept, Sending
<1>2. RegisterFrame
  BY RegistersKept
<1>3. cp' = cp => SameData
  BY DEF SameData, KeepsCommand, KeepsOperands, KeepsAddresses, KeepsValue, KeepsTag, KeepsType,
         SameCommand, SameReturns
<1>4. ASSUME cp.state \in {"CP_IDLE", "CP_FETCH_OP1", "CP_FETCH_OP1_END", "CP_FETCH_OP2",
                        "CP_FETCH_OP2_END", "CP_ADD", "CP_MULP2", "CP_DIVP2", "CP_MEM_FETCH_END",
                        "CP_STOP", "CP_STOP_MODIFIED", "CP_DEBUG_WRITE_WAIT_PREP"}
      PROVE  SameData
  <2>1. Leaves
    BY <1>4, RegistersMove
  <2>2. Place = cp.state
    BY <1>4 DEF Place
  <2>3. cp' # cp => Place' = cp'.state /\ cp'.state # cp.state
    BY <2>1 DEF Leaves, Place
  <2> QED BY <1>1, <1>3, <2>2, <2>3
<1>5. ASSUME cp.state \in {"CP_MEM_FETCH_PREP", "CP_MEM_WRITE_ADDR_PREP", "CP_MEM_WRITE_VAL_PREP"}
      PROVE  SameData
  <2>1. Place = cp.state
    BY <1>5 DEF Place
  <2>2. cp' = cp \/ \E q \in {"CP_MEM_FETCH", "CP_MEM_WRITE_ADDR", "CP_MEM_WRITE_VAL"} : Lowers(q)
    BY <1>5, CpLowers
  <2>3. (\E q \in {"CP_MEM_FETCH", "CP_MEM_WRITE_ADDR", "CP_MEM_WRITE_VAL"} : Lowers(q))
        => Place' # cp.state
    BY <1>5 DEF Lowers, Place
  <2> QED BY <1>1, <1>3, <2>1, <2>2, <2>3
<1>6. ASSUME cp.state \notin {"CP_IDLE", "CP_FETCH_OP1", "CP_FETCH_OP1_END", "CP_FETCH_OP2",
                        "CP_FETCH_OP2_END", "CP_ADD", "CP_MULP2", "CP_DIVP2", "CP_MEM_FETCH_END",
                        "CP_STOP", "CP_STOP_MODIFIED", "CP_DEBUG_WRITE_WAIT_PREP",
                        "CP_MEM_FETCH_PREP", "CP_MEM_WRITE_ADDR_PREP", "CP_MEM_WRITE_VAL_PREP"}
      PROVE  SameData
  BY <1>1, <1>2, <1>6 DEF RegisterFrame, SameData
<1>7. SameData
  BY <1>4, <1>5, <1>6
<1>8. /\ Same => Up' = Up /\ (Busy' <=> Busy)
      /\ PacketUp => Up' = Append(Up, Sending) /\ Busy /\ ~Busy'
  BY DEF Same, PacketUp
<1> QED BY <1>1, <1>7, <1>8

-----------------------------------------------------------------------------
(* A clock of the board, for what the parties carry.                       *)

Carried == AtWork /\ SendingRight /\ UpRight /\ WriteRight /\ DownRight /\ AckRight

\* What the board leaves alone.
HostStill ==
    UNCHANGED <<host, calls, executed, recorded_commands, contents, device_packet_recv_state,
                mem_write_addr_scratch, received_payloads, unread>>

\* What is known of the calls depends on the host's half of the state.
LEMMA CallFrame ==
    ASSUME UNCHANGED <<calls, executed, recorded_commands, contents>>
    PROVE  /\ Stage' = Stage /\ Current' = Current /\ Request' = Request
           /\ Recorded => Recorded'
<1>1. Stage' = Stage /\ Current' = Current /\ Request' = Request
  BY DEF Stage, Current, Request
<1>2. Recorded' <=> Recorded
  BY DEF Recorded, Packs
<1> QED BY <1>1, <1>2

\* With the operands kept, what is finished stays finished.
LEMMA FinishedFrame ==
    ASSUME UNCHANGED <<calls, executed, recorded_commands, contents>>, KeepsOperands
    PROVE  /\ Stage' = Stage /\ Current' = Current /\ Request' = Request
           /\ Finished' <=> Finished
           /\ \A p : RightAck(p) => (p.id = Request'.id /\ p.type = RESPONSE /\ p.cmd = Request'.cmd
                                     /\ p.sub_cmd = Request'.sub_cmd /\ Finished')
<1>1. Stage' = Stage /\ Current' = Current /\ Request' = Request
  BY CallFrame
<1>2. Finished' <=> Finished
  BY <1>1 DEF Finished, KeepsOperands
<1> QED BY <1>1, <1>2 DEF RightAck

\* No kind of packet is another kind.
LEMMA KindsApart ==
    ASSUME NEW p
    PROVE  /\ p \in Debugs => p \notin Reads /\ p \notin Writes /\ p \notin Acks
           /\ p \in Reads => p \notin Writes /\ p \notin Acks
           /\ p \in Writes => p \notin Acks
BY DEF Debugs, Reads, Writes, Acks, MEM_READ, MEM_WRITE, DEBUG, MEMORY

\* Responses the host has stay right.
LEMMA AckFrame ==
    ASSUME HostStill, KeepsOperands, AckRight
    PROVE  AckRight'
<1>1. /\ Request' = Request /\ (Finished' <=> Finished)
  BY FinishedFrame DEF HostStill
<1> QED BY <1>1 DEF HostStill, AckRight, RightAck

\* It has none.
LEMMA NoAckFrame ==
    ASSUME NoAck'
    PROVE  AckRight'
BY DEF NoAck, AckRight

\* The processor has no command.
LEMMA FreeCarried ==
    ASSUME HostStill, Carried, CpFree, CpFree', NextIsAddr, KeepsOperands,
           Up \in Seq(Frame), Sending \in Frame,
           Up' = Up \/ (Up' = Append(Up, Sending) /\ Sending \in Debugs),
           Unanswered => Down' = Down
    PROVE  Carried'
<1>1. /\ Stage' = Stage /\ Request' = Request /\ (Finished' <=> Finished)
  BY FinishedFrame DEF HostStill
<1>2. /\ Place' \in {"CP_IDLE", "CP_STOP", "CP_STOP_MODIFIED", "CP_DEBUG_WRITE_WAIT",
                     "CP_DEBUG_WRITE_RESTORE"}
      /\ Place' \in {"CP_STOP", "CP_STOP_MODIFIED"} => ~Busy'
      /\ Target' \in {"CP_IDLE", "CP_STOP", "CP_STOP_MODIFIED"}
  BY DEF CpFree, Target, DebugPlaces
<1>3. AtWork'
  BY <1>2 DEF AtWork, Working
<1>4. SendingRight'
  BY <1>2 DEF SendingRight
<1>5. /\ Len(Up) \in Nat /\ Len(Up') \in Nat /\ Len(Up) <= Len(Up')
      /\ \A i \in 1 .. Len(Up) : Up'[i] = Up[i]
      /\ \A i \in 1 .. Len(Up') : i \in 1 .. Len(Up) \/ Up'[i] \in Debugs
  <2>1. CASE Up' = Up
    BY <2>1, EmptyLength
  <2>2. CASE Up' = Append(Up, Sending) /\ Sending \in Debugs
    BY <2>2, Grow
  <2> QED BY <2>1, <2>2
<1>6. ASSUME NEW i \in 1 .. Len(Up')
      PROVE  /\ Up'[i] \in Writes => Stage = 2
             /\ Up'[i] \in Acks => RightAck(Up'[i])
  <2>1. CASE i \in 1 .. Len(Up)
    BY <1>5, <2>1 DEF Carried, UpRight
  <2>2. CASE Up'[i] \in Debugs
    BY <2>2, KindsApart
  <2> QED BY <1>5, <1>6, <2>1, <2>2
<1>7. UpRight'
  BY <1>1, <1>2, <1>6 DEF UpRight, RightAck, Writes, Acks
<1>8. WriteRight'
  BY <1>2 DEF WriteRight, HostStill, NextIsAddr, WritePlaces, ValueSent
<1>9. AckRight'
  BY AckFrame DEF Carried
<1>10. DownRight'
  <2>1. ~MemAnswered'
    BY <1>2 DEF MemAnswered
  <2>2. Unanswered' => Unanswered
    BY <1>5 DEF Unanswered, NoAck, HostStill, Acks
  <2> QED BY <1>1, <2>1, <2>2 DEF DownRight, Carried
<1> QED BY <1>3, <1>4, <1>7, <1>8, <1>9, <1>10 DEF Carried

\* While a memory request or a response is to come or on its way, nothing is due
\* to come down.
LEMMA CpUndecided ==
    ASSUME CpHas'
    PROVE  DownRight' /\ AckRight'
<1>1. ~CpFree'
  BY DEF CpHas, CpFree, Early, Late, AfterMem
<1>2. ~MemAnswered'
  BY DEF CpHas, MemAnswered, Early, Late, AfterMem
<1>3. NoAck'
  BY DEF CpHas
<1> QED BY <1>1, <1>2, <1>3, NoAckFrame DEF DownRight, Unanswered

LEMMA MemUpUndecided ==
    ASSUME MemUpHas', Up' \in Seq(Frame)
    PROVE  DownRight' /\ AckRight'
<1>1. ~CpFree'
  BY DEF MemUpHas, CpFree
<1>2. ~MemAnswered'
  BY EmptyLength DEF MemUpHas, MemAnswered, StatsThen, StatsThenTwo
<1>3. NoAck'
  BY DEF MemUpHas
<1> QED BY <1>1, <1>2, <1>3, NoAckFrame DEF DownRight, Unanswered

LEMMA AckUpUndecided ==
    ASSUME AckUpHas', Up' \in Seq(Frame)
    PROVE  DownRight' /\ AckRight'
<1>1. ~MemAnswered'
  BY DEF AckUpHas, MemAnswered, CpFree
<1>2. ~Unanswered'
  <2>1. PICK k \in 1 .. 2 : k <= Len(Up') /\ Up'[k] \in Acks
    BY DEF AckUpHas, StatsAround, Acks
  <2>2. k \in 1 .. Len(Up')
    BY <2>1, EmptyLength
  <2> QED BY <2>1, <2>2 DEF Unanswered, Acks
<1>3. NoAck'
  BY DEF AckUpHas
<1> QED BY <1>1, <1>2, <1>3, NoAckFrame DEF DownRight

\* Nothing but statistics is up.
LEMMA NoTraffic ==
    ASSUME StatsOnly(Up'), NextIsAddr'
    PROVE  UpRight' /\ WriteRight'
<1>1. \A i \in 1 .. Len(Up') : Up'[i] \notin Reads /\ Up'[i] \notin Writes /\ Up'[i] \notin Acks
  BY KindsApart DEF StatsOnly
<1>2. UpRight'
  BY <1>1 DEF UpRight, Reads, Writes, Acks
<1>3. WriteRight'
  BY <1>1 DEF WriteRight, Writes
<1> QED BY <1>2, <1>3

-----------------------------------------------------------------------------
(* What stays when the processor stays at its place.                       *)

\* What the processor has of its command.
LEMMA WorkFrame ==
    ASSUME HostStill, SameData, Place' = Place, Sending' = Sending, Busy' => Busy,
           Place \in Reading => Received' = Received, AtWork, SendingRight
    PROVE  AtWork' /\ SendingRight'
<1>1. /\ Stage' = Stage /\ Current' = Current /\ Request' = Request /\ (Finished' <=> Finished)
      /\ \A p : RightAck(p) => (p.id = Request'.id /\ p.type = RESPONSE /\ p.cmd = Request'.cmd
                                     /\ p.sub_cmd = Request'.sub_cmd /\ Finished')
  BY FinishedFrame DEF HostStill, SameData
<1>2. Target' = Target
  BY DEF Target, SameData, SameReturns
<1>3. AtWork'
  <2>1. SUFFICES ASSUME Working PROVE AtWork'
    BY <1>2 DEF AtWork, Working
  <2> QED
    BY <1>1, <1>2, <2>1 DEF AtWork, Working, Fetching, Writing, SameData, KeepsCommand, SameCommand,
       KeepsOperands, KeepsAddresses, KeepsValue, SameReturns, HostStill
<1>4. SendingRight'
  BY <1>1 DEF SendingRight, IsRead, IsAddr, IsValue, RightAck, SameData, KeepsAddresses, KeepsValue,
     KeepsTag
<1> QED BY <1>3, <1>4

\* What is up.
LEMMA UpFrame ==
    ASSUME HostStill, SameData, Place' = Place, Busy' <=> Busy, Up' = Up, UpRight, WriteRight
    PROVE  UpRight' /\ WriteRight'
<1>1. /\ Stage' = Stage /\ Request' = Request /\ (Finished' <=> Finished)
  BY FinishedFrame DEF HostStill, SameData
<1>2. UpRight'
  BY <1>1 DEF UpRight, IsRead, RightAck, SameData, KeepsTag, KeepsAddresses, Reads, Writes, Acks
<1>3. WriteRight'
  BY DEF WriteRight, ValueSent, IsAddr, IsValue, SameData, KeepsTag, KeepsAddresses, KeepsValue,
     Writes, HostStill, NextIsAddr
<1> QED BY <1>2, <1>3

\* And what comes down.
LEMMA SameCarried ==
    ASSUME Stepped, HostStill, Carried, Same, Place \in Reading => Received' = Received,
           DownRight', AckRight'
    PROVE  Carried'
<1>1. /\ SameData /\ Place' = Place /\ Sending' = Sending /\ Up' = Up /\ (Busy' <=> Busy)
  BY StayingKeeps DEF Stepped
<1> QED BY <1>1, WorkFrame, UpFrame DEF Carried

\* The packet at the head of recorded_commands is one of the current call's.
LEMMA RequestIs ==
    ASSUME Recorded, recorded_commands \in Seq(Packet), recorded_commands # <<>>,
           calls \in Seq(Calls), executed \in Nat, Stage \in 0 .. 2
    PROVE  /\ executed + 1 \in 1 .. Len(calls) /\ Current \in Calls
           /\ Request.cmd = Current.cmd /\ Request.sub_cmd = Stage
           /\ Request.body = Operand(Current, Stage)
<1> DEFINE L == Len(calls)
           R == Len(recorded_commands)
<1>1. L \in Nat /\ R \in Nat /\ R >= 1 /\ Request = recorded_commands[1]
  BY DEF Request
<1>2. Stage = 3 * (L - executed) - R
  BY DEF Stage
<1>3. executed + 1 \in 1 .. L
  BY <1>1, <1>2
<1>4. PICK k \in 1 .. L : k = executed + 1
  BY <1>3
<1>5. PICK n \in 0 .. 2 : n = Stage
  OBVIOUS
<1> HIDE DEF L, R
<1>7. R - 1 = 3 * (L - k) + (2 - n) /\ 1 \in 1 .. R
  BY <1>1, <1>2, <1>4, <1>5
<1>6. Packs(1, k, n)
  BY <1>7 DEF Recorded, L, R
<1> QED BY <1>1, <1>3, <1>4, <1>5, <1>6 DEF Current, L, Packs

-----------------------------------------------------------------------------
(* A command on its way down, or just arrived.                             *)

\* A clock of the board before the command reaches the processor.
LEMMA FreeBoard ==
    ASSUME Stepped, HostStill, Carried, CpFree, NextIsAddr,
           cp.state = "CP_IDLE" => rx_packet_ready = 0, Unanswered => Down' = Down
    PROVE  Carried'
<1> USE DEF Stepped
<1>1. /\ CpFree'
      /\ Up' = Up \/ (Up' = Append(Up, Sending) /\ Sending \in Debugs)
  BY FreeStep
<1>2. RegisterFrame
  BY RegistersKept DEF Clocked
<1>3. KeepsOperands
  BY <1>2, PlaceIs DEF RegisterFrame, CpFree, Place, Clocked, AfterMem
<1> QED BY <1>1, <1>3, FreeCarried

\* Which of the groups a place belongs to.
LEMMA CpHasAt ==
    ASSUME CpHas'
    PROVE  /\ CpAtWork'
           /\ Place' \in Early => Group1'
           /\ Place' \in Late \cup {"CP_STOP", "CP_STOP_MODIFIED"} => Group4'
<1>1. CpAtWork' /\ (Group1' \/ Group2' \/ Group3' \/ Group4')
  BY DEF CpHas, CpAtWork, Group1, Group2, Group3, Group4
<1>2. Place' \in Early => Group1'
  BY <1>1 DEF Early, Group2, Group3, Group4, Late, AfterMem
<1>3. Place' \in Late \cup {"CP_STOP", "CP_STOP_MODIFIED"} => Group4'
  BY <1>1 DEF Early, Group1, Group2, Group3, Late, AfterMem
<1> QED BY <1>1, <1>2, <1>3

\* The processor takes the command: its registers hold what Request asks.
LEMMA CommandArrives ==
    ASSUME Stepped, HostStill, Carried, DownHas, cp.state = "CP_IDLE", rx_packet_ready # 0
    PROVE  Carried'
<1> USE DEF Stepped
<1>1. rx_packet_ready = 1
  BY DEF RxTypeOK
<1>2. port_out = <<>> /\ prx.state = "RX_END"
  BY <1>1 DEF DownHas, DownShape
<1>3. Down = Received /\ rx_data_en = 1
  BY <1>2, RxArrived DEF DownHas
<1>4. DownHere
  BY <1>1, <1>2, <1>3 DEF DownHere, DownIdle
<1>5. Received' = Received
  BY <1>4, DownHereStays
<1>6. Place = "CP_IDLE" /\ ~Busy
  BY PlaceIs, BusyPlaces DEF Clocked
<1>7. Received \in Requests /\ Received \in Packet
  BY <1>3, RequestsDecodable DEF DownHas
<1>8. Unanswered
  <2>1. \A i \in 1 .. Len(Up) : Up[i] \notin Acks
    BY KindsApart DEF DownHas, FreeUp, StatsOnly
  <2> QED BY <2>1 DEF Unanswered, DownHas
<1>9. Received = Request /\ Stage >= 0
  BY <1>3, <1>8 DEF Carried, DownRight
<1>10. /\ Passes("CP_PACKET_DECODE") /\ cp'.pkt_cmd = Received.cmd /\ cp'.pkt_sub_cmd = Received.sub_cmd
  BY <1>7, CpRests DEF Clocked
<1>11. cp'.pkt_id = Received.id
  BY CommandTaken DEF Clocked
<1>12. Place' = "CP_PACKET_DECODE" /\ Target' = "CP_PACKET_DECODE"
  BY <1>10 DEF Passes, Place, Target, DebugPlaces
<1>13. Stage' = Stage /\ Request' = Request
  BY FinishedFrame, CallFrame DEF HostStill
<1>14. AtWork'
  BY <1>5, <1>9, <1>10, <1>11, <1>12, <1>13 DEF AtWork, FetchPlaces, WritePlaces
<1>15. SendingRight'
  BY <1>12 DEF SendingRight
<1>16. (DownHas' \/ CpHas')
  BY BoardDownHas
<1>17. CpHas'
  BY <1>12, <1>16 DEF DownHas, CpFree
<1>18. DownRight' /\ AckRight'
  BY <1>17, CpUndecided
<1>19. StatsOnly(Up') /\ NextIsAddr'
  <2>1. Group1'
    BY <1>12, <1>17, CpHasAt DEF Early
  <2> QED BY <2>1 DEF Group1, StatsOnly, Debugs
<1>20. UpRight' /\ WriteRight'
  BY <1>19, NoTraffic
<1> QED BY <1>14, <1>15, <1>18, <1>20 DEF Carried

\* A command on its way.
LEMMA DownHasCarried ==
    ASSUME Stepped, HostStill, Carried, DownHas
    PROVE  Carried'
<1>1. CASE cp.state = "CP_IDLE" => rx_packet_ready = 0
  <2>1. Down' = Down
    BY RxStep DEF DownHas, Stepped
  <2> QED BY <1>1, <2>1, FreeBoard DEF DownHas
<1>2. CASE ~(cp.state = "CP_IDLE" => rx_packet_ready = 0)
  BY <1>2, CommandArrives
<1> QED BY <1>1, <1>2

-----------------------------------------------------------------------------
(* The processor at work, before it has sent anything.                     *)

\* What the calls and their packets are.
CallsTyped ==
    /\ recorded_commands \in Seq(Packet) /\ recorded_commands # <<>>
    /\ calls \in Seq(Calls) /\ executed \in Nat
    /\ Recorded /\ Stages

\* A step of the processor at work, away from its place.
Busily ==
    /\ Stepped /\ HostStill /\ CallsTyped /\ CpAtWork
    /\ AtWork /\ Received' = Received /\ rx_packet_ready = 1

\* Outside its statistics the processor goes on where it is.
LEMMA WorkingAt ==
    ASSUME AtWork, Place \notin DebugPlaces, Place \notin {"CP_IDLE", "CP_STOP", "CP_STOP_MODIFIED"}
    PROVE  Working /\ Target = Place
BY DEF Target, Working

\* The command stays the one of the packet mSync waits for.
LEMMA CarriesCommand ==
    ASSUME HostStill, KeepsCommand, KeepsOperands, AtWork, Working
    PROVE  /\ cp'.pkt_id = Request'.id /\ cp'.pkt_cmd = Request'.cmd /\ cp'.pkt_sub_cmd = Request'.sub_cmd
           /\ Stage' = Stage /\ Request' = Request /\ Current' = Current
           /\ Finished' <=> Finished
<1>1. Stage' = Stage /\ Request' = Request /\ Current' = Current /\ (Finished' <=> Finished)
  BY FinishedFrame DEF HostStill
<1> QED BY <1>1 DEF AtWork, KeepsCommand, SameCommand

\* Stage is what Stages says.
LEMMA TypedStage ==
    ASSUME CallsTyped
    PROVE  Stage \in -1 .. 2
BY DEF CallsTyped, Stages

\* DECODE sends the packet of operand n to the state that fits Stage n.
LEMMA DecodeCarried ==
    ASSUME Busily, Place = "CP_PACKET_DECODE", cp.state = "CP_PACKET_DECODE",
           Place' = cp'.state
    PROVE  AtWork' /\ SendingRight'
<1> USE DEF Busily, Stepped, Clocked
<1>1. Working
  BY WorkingAt DEF DebugPlaces
<1>2. RegisterFrame
  BY RegistersKept
<1>3. KeepsCommand /\ KeepsOperands
  BY <1>2 DEF RegisterFrame
<1>4. /\ cp'.pkt_id = Request'.id /\ cp'.pkt_cmd = Request'.cmd /\ cp'.pkt_sub_cmd = Request'.sub_cmd
      /\ Stage' = Stage /\ Request' = Request
  BY <1>1, <1>3, CarriesCommand
<1>5. Stage \in 0 .. 2 /\ Received.body = Request.body
      /\ cp.pkt_cmd = Request.cmd /\ cp.pkt_sub_cmd = Request.sub_cmd
  BY <1>1, TypedStage DEF AtWork, Reading
<1>6. /\ Current \in Calls /\ Request.cmd = Current.cmd /\ Request.sub_cmd = Stage
  BY <1>5, RequestIs DEF CallsTyped
<1>7. Request.cmd \in {ADD, MULP2, DIVP2}
  BY <1>6, ApplicationAssumption
<1>8. cp'.state = Decoded(cp.pkt_cmd, cp.pkt_sub_cmd)
  BY CommandDecoded
<1>9. /\ cp'.state \in {"CP_FETCH_OP1", "CP_FETCH_OP2", "CP_ADD", "CP_MULP2", "CP_DIVP2"}
      /\ cp'.state = "CP_FETCH_OP1" => Stage = 0
      /\ cp'.state = "CP_FETCH_OP2" => Stage = 1
      /\ cp'.state = "CP_ADD" => Stage = 2 /\ Request.cmd = ADD
      /\ cp'.state = "CP_MULP2" => Stage = 2 /\ Request.cmd = MULP2
      /\ cp'.state = "CP_DIVP2" => Stage = 2 /\ Request.cmd = DIVP2
  BY <1>5, <1>6, <1>7, <1>8 DEF Decoded, ADD, MULP2, DIVP2, HANDSHAKE, OP_1, OP_2, OP_3
<1>10. Target' = cp'.state
  BY <1>9 DEF Target, DebugPlaces
<1>11. AtWork'
  BY <1>4, <1>5, <1>9, <1>10 DEF AtWork, FetchPlaces, WritePlaces
<1>12. SendingRight'
  BY <1>9 DEF SendingRight
<1> QED BY <1>11, <1>12

\* The fetch states ask for the body of the packet at hand.
LEMMA AddressCarried ==
    ASSUME Busily, Place \in {"CP_FETCH_OP1", "CP_FETCH_OP2"}, cp.state = Place,
           Place' = "CP_MEM_FETCH_PREP"
    PROVE  AtWork' /\ SendingRight'
<1> USE DEF Busily, Stepped, Clocked
<1>1. Working
  BY WorkingAt DEF DebugPlaces
<1>2. RegisterFrame
  BY RegistersKept
<1>3. KeepsCommand /\ KeepsOperands
  BY <1>2 DEF RegisterFrame
<1>4. /\ cp'.pkt_id = Request'.id /\ cp'.pkt_cmd = Request'.cmd /\ cp'.pkt_sub_cmd = Request'.sub_cmd
      /\ Stage' = Stage /\ Request' = Request
  BY <1>1, <1>3, CarriesCommand
<1>5. Received.body = Request.body
      /\ (Place = "CP_FETCH_OP1" => Stage = 0) /\ (Place = "CP_FETCH_OP2" => Stage = 1)
  BY <1>1 DEF AtWork, Reading
<1>6. Fetching'
  BY <1>4, <1>5, AddressTaken DEF Fetching
<1>7. Target' = "CP_MEM_FETCH_PREP"
  BY DEF Target, DebugPlaces
<1>8. AtWork'
  BY <1>4, <1>6, <1>7 DEF AtWork, FetchPlaces, WritePlaces, Reading
<1>9. SendingRight'
  BY DEF SendingRight
<1> QED BY <1>8, <1>9

\* The read request carries it.
LEMMA FetchCarried ==
    ASSUME Busily, SameReturns,
           \/ Place = "CP_MEM_FETCH_PREP" /\ Place' = "CP_MEM_FETCH"
           \/ Place = "CP_MEM_FETCH" /\ Place' = "CP_MEM_FETCH_END",
           cp.state = Place
    PROVE  AtWork' /\ SendingRight'
<1> USE DEF Busily, Stepped, Clocked
<1>1. Working
  BY WorkingAt DEF DebugPlaces
<1>2. RegisterFrame
  BY RegistersKept
<1>3. KeepsCommand /\ KeepsOperands /\ KeepsAddresses /\ (cp.state = "CP_MEM_FETCH" => KeepsTag)
  BY <1>2 DEF RegisterFrame
<1>4. /\ cp'.pkt_id = Request'.id /\ cp'.pkt_cmd = Request'.cmd /\ cp'.pkt_sub_cmd = Request'.sub_cmd
      /\ Stage' = Stage /\ Request' = Request
  BY <1>1, <1>3, CarriesCommand
<1>5. Fetching
  BY <1>1 DEF AtWork, FetchPlaces
<1>6. Fetching'
  BY <1>3, <1>4, <1>5 DEF Fetching, KeepsAddresses, SameReturns
<1>7. Target' = Place'
  BY DEF Target, DebugPlaces
<1>8. AtWork'
  BY <1>4, <1>6, <1>7 DEF AtWork, FetchPlaces, WritePlaces, Reading
<1>9. SendingRight'
  <2>1. CASE Place = "CP_MEM_FETCH"
    <3>1. Sending' = CpRequest(MEM_READ, cp.mem_fetch_addr)
      BY <2>1, PacketAnnounced
    <3>2. Sending'.id = cp'.tx_cmd_id /\ Sending'.body = cp'.mem_fetch_addr
      BY <1>3, <2>1, <3>1 DEF CpRequest, Payload, KeepsTag, KeepsAddresses
    <3> QED BY <2>1, <3>2 DEF SendingRight, IsRead
  <2>2. CASE Place = "CP_MEM_FETCH_PREP"
    BY <2>2 DEF SendingRight
  <2> QED BY <2>1, <2>2
<1> QED BY <1>8, <1>9

\* ADD, MULP2 and DIVP2 compute with both operands in their registers.
LEMMA ExecuteCarried ==
    ASSUME Busily, Place \in {"CP_ADD", "CP_MULP2", "CP_DIVP2"}, cp.state = Place,
           Place' = "CP_MEM_WRITE_ADDR_PREP"
    PROVE  AtWork' /\ SendingRight'
<1> USE DEF Busily, Stepped, Clocked
<1>1. Working
  BY WorkingAt DEF DebugPlaces
<1>2. RegisterFrame
  BY RegistersKept
<1>3. KeepsCommand /\ KeepsOperands
  BY <1>2 DEF RegisterFrame
<1>4. /\ cp'.pkt_id = Request'.id /\ cp'.pkt_cmd = Request'.cmd /\ cp'.pkt_sub_cmd = Request'.sub_cmd
      /\ Stage' = Stage /\ Request' = Request
  BY <1>1, <1>3, CarriesCommand
<1>5. Received.body = Request.body /\ Stage = 2 /\ cp.pkt_cmd = CommandAt(cp.state)
  BY <1>1 DEF AtWork, Reading, CommandAt
<1>6. /\ cp'.mem_write_addr = Received.body
      /\ cp'.mem_val = RtlAlu(CommandAt(cp.state), cp.op_1, cp.op_2)
  BY ResultComputed
<1>7. cp'.mem_val = RtlAlu(cp'.pkt_cmd, cp'.op_1, cp'.op_2)
  BY <1>3, <1>5, <1>6 DEF KeepsCommand, SameCommand, KeepsOperands
<1>8. Writing'
  BY <1>4, <1>5, <1>6, <1>7 DEF Writing
<1>9. Target' = Place'
  BY DEF Target, DebugPlaces
<1>10. AtWork'
  BY <1>4, <1>5, <1>8, <1>9 DEF AtWork, FetchPlaces, WritePlaces, Reading
<1>11. SendingRight'
  BY DEF SendingRight
<1> QED BY <1>10, <1>11

\* A write announces its address, then its value.
LEMMA WriteCarried ==
    ASSUME Busily, Stage = 2,
           \/ Place = "CP_MEM_WRITE_ADDR_PREP" /\ Place' = "CP_MEM_WRITE_ADDR"
           \/ Place = "CP_MEM_WRITE_ADDR" /\ Place' = "CP_MEM_WRITE_VAL_PREP"
           \/ Place = "CP_MEM_WRITE_VAL_PREP" /\ Place' = "CP_MEM_WRITE_VAL"
           \/ Place = "CP_MEM_WRITE_VAL" /\ Place' = "CP_MEM_WRITE_END",
           cp.state = Place
    PROVE  AtWork' /\ SendingRight'
<1> USE DEF Busily, Stepped, Clocked
<1>1. Working
  BY WorkingAt DEF DebugPlaces
<1>2. RegisterFrame
  BY RegistersKept
<1>3. KeepsCommand /\ KeepsOperands /\ KeepsAddresses /\ KeepsValue
      /\ (cp.state \in {"CP_MEM_WRITE_ADDR", "CP_MEM_WRITE_VAL"} => KeepsTag)
  BY <1>2 DEF RegisterFrame
<1>4. /\ cp'.pkt_id = Request'.id /\ cp'.pkt_cmd = Request'.cmd /\ cp'.pkt_sub_cmd = Request'.sub_cmd
      /\ Stage' = Stage /\ Request' = Request
  BY <1>1, <1>3, CarriesCommand
<1>5. Writing
  BY <1>1 DEF AtWork, WritePlaces
<1>6. Writing'
  BY <1>3, <1>4, <1>5 DEF Writing, KeepsAddresses, KeepsValue, KeepsCommand, SameCommand,
     KeepsOperands
<1>7. Target' = Place'
  BY DEF Target, DebugPlaces
<1>8. AtWork'
  BY <1>4, <1>6, <1>7 DEF AtWork, FetchPlaces, WritePlaces, Reading
<1>9. SendingRight'
  <2>1. CASE Place = "CP_MEM_WRITE_ADDR"
    <3>1. Sending' = CpRequest(MEM_WRITE, cp.mem_write_addr)
      BY <2>1, PacketAnnounced
    <3>2. Sending'.body = cp'.mem_write_addr
      BY <1>3, <3>1 DEF CpRequest, Payload, KeepsAddresses
    <3> QED BY <2>1, <3>2 DEF SendingRight, IsAddr
  <2>2. CASE Place = "CP_MEM_WRITE_VAL"
    <3>1. Sending' = CpRequest(MEM_WRITE, cp.mem_val)
      BY <2>2, PacketAnnounced
    <3>2. Sending'.id = cp'.tx_cmd_id /\ Sending'.body = cp'.mem_val
      BY <1>3, <2>2, <3>1 DEF CpRequest, Payload, KeepsTag, KeepsValue
    <3> QED BY <2>2, <3>2 DEF SendingRight, IsValue
  <2>3. CASE Place \in {"CP_MEM_WRITE_ADDR_PREP", "CP_MEM_WRITE_VAL_PREP"}
    BY <2>3 DEF SendingRight
  <2> QED BY <2>1, <2>2, <2>3
<1> QED BY <1>8, <1>9

\* A clock that leaves the processor at its place, with its packet up.
LEMMA PacketUpFrame ==
    ASSUME Stepped, HostStill, AtWork, SendingRight, PacketUp, Received' = Received
    PROVE  /\ AtWork' /\ SendingRight' /\ SameData /\ Place' = Place /\ Busy /\ ~Busy'
           /\ Up' = Append(Up, Sending)
<1>1. /\ SameData /\ Place' = Place /\ Sending' = Sending
      /\ Up' = Append(Up, Sending) /\ Busy /\ ~Busy'
  BY StayingKeeps DEF Stepped
<1> QED BY <1>1, WorkFrame

\* A packet more is up.
LEMMA UpMore ==
    ASSUME Up \in Seq(Frame), Sending \in Frame, Up' = Append(Up, Sending)
    PROVE  /\ Len(Up) \in Nat /\ Len(Up') = Len(Up) + 1 /\ Up'[Len(Up) + 1] = Sending
           /\ \A i \in 1 .. Len(Up) : Up'[i] = Up[i]
           /\ \A i \in 1 .. Len(Up') : i \in 1 .. Len(Up) \/ i = Len(Up) + 1
<1>1. /\ Len(Up) \in Nat /\ Len(Up') = Len(Up) + 1 /\ Up'[Len(Up) + 1] = Sending
      /\ \A i \in 1 .. Len(Up) : Up'[i] = Up[i]
  BY Grow
<1> QED BY <1>1

\* The read request is up.
LEMMA ReadUp ==
    ASSUME Stepped, HostStill, SameData, Up' = Append(Up, Sending), StatsOnly(Up), NextIsAddr,
           Sending \in Reads, IsRead(Sending), Place' = "CP_MEM_FETCH_END"
    PROVE  UpRight' /\ WriteRight'
<1>1. /\ \A i \in 1 .. Len(Up) : Up'[i] = Up[i]
      /\ \A i \in 1 .. Len(Up') : i \in 1 .. Len(Up) \/ i = Len(Up) + 1
      /\ Up'[Len(Up) + 1] = Sending
  BY UpMore DEF Stepped
<1>2. \A i \in 1 .. Len(Up') :
          /\ Up'[i] \notin Writes /\ Up'[i] \notin Acks
          /\ Up'[i] \in Reads => Up'[i] = Sending
  BY <1>1, KindsApart DEF StatsOnly
<1>3. Sending.id = cp'.tx_cmd_id /\ Sending.body = cp'.mem_fetch_addr
  BY DEF IsRead, SameData, KeepsTag, KeepsAddresses
<1>4. UpRight'
  BY <1>2, <1>3 DEF UpRight, IsRead, Reads, Writes, Acks
<1>5. WriteRight'
  BY <1>2 DEF WriteRight, HostStill, NextIsAddr, Writes
<1> QED BY <1>4, <1>5

\* The address of a write is up.
LEMMA AddrGoesUp ==
    ASSUME Stepped, HostStill, SameData, Up' = Append(Up, Sending), StatsOnly(Up), NextIsAddr,
           Sending \in Writes, IsAddr(Sending), Place' = "CP_MEM_WRITE_VAL_PREP", Stage = 2
    PROVE  UpRight' /\ WriteRight'
<1>1. /\ \A i \in 1 .. Len(Up) : Up'[i] = Up[i]
      /\ \A i \in 1 .. Len(Up') : i \in 1 .. Len(Up) \/ i = Len(Up) + 1
      /\ Up'[Len(Up) + 1] = Sending
  BY UpMore DEF Stepped
<1>2. \A i \in 1 .. Len(Up') :
          /\ Up'[i] \notin Acks
          /\ Up'[i] \in Writes => Up'[i] = Sending
  BY <1>1, KindsApart DEF StatsOnly
<1>3. Sending.body = cp'.mem_write_addr /\ Stage' = 2
  BY CallFrame DEF IsAddr, SameData, KeepsAddresses, HostStill
<1>4. UpRight'
  BY <1>2, <1>3 DEF UpRight, Reads, Writes, Acks
<1>5. WriteRight'
  BY <1>2, <1>3 DEF WriteRight, HostStill, NextIsAddr, Writes, ValueSent, IsAddr
<1> QED BY <1>4, <1>5

\* Before it has sent anything.
LEMMA EarlyCarried ==
    ASSUME Busily, Carried, Place \in Early, Group1, ~Same
    PROVE  AtWork' /\ SendingRight' /\ Up' = Up
<1> USE DEF Busily, Stepped
<1>1. Received \in Packet
  BY RequestsDecodable DEF Group1
<1>2. ~PacketUp
  BY BusyPlaces DEF PacketUp, Early
<1>3. cp.state = Place
  BY <1>2, AtPlace
<1>4. Working
  BY WorkingAt DEF Early, DebugPlaces
<1>5. Place \notin {"CP_HANDSHAKE_PREP", "CP_HANDSHAKE"}
  BY <1>4 DEF AtWork
<1>6. Decodable
  BY DEF CpAtWork
<1>7. \/ \E q \in CpState : Moves("CP_PACKET_DECODE", q)
      \/ Moves("CP_MEM_FETCH_PREP", "CP_MEM_FETCH")
      \/ Moves("CP_MEM_WRITE_ADDR_PREP", "CP_MEM_WRITE_ADDR")
      \/ Place \in {"CP_FETCH_OP1", "CP_FETCH_OP2"} /\ To("CP_MEM_FETCH_PREP")
      \/ Place \in {"CP_ADD", "CP_MULP2", "CP_DIVP2"} /\ To("CP_MEM_WRITE_ADDR_PREP")
      \/ Place = "CP_MEM_FETCH" /\ Announces(Reads, "CP_MEM_FETCH_END")
      \/ Place = "CP_MEM_WRITE_ADDR" /\ Announces(Writes, "CP_MEM_WRITE_VAL_PREP")
  <2>1. {"CP_HANDSHAKE_PREP", "CP_FETCH_OP1", "CP_FETCH_OP2", "CP_ADD", "CP_MULP2", "CP_DIVP2"}
            \subseteq CpState
    BY DEF CpState
  <2>2. ~Moves("CP_HANDSHAKE_PREP", "CP_HANDSHAKE")
    BY <1>5 DEF Moves
  <2> QED BY <1>1, <1>2, <1>5, <1>6, <2>1, <2>2, EarlyMoves
<1>8. Place \in WritePlaces /\ Place \in Early => Stage = 2
  BY <1>4 DEF AtWork, Early
<1>9. CASE \E q \in CpState : Moves("CP_PACKET_DECODE", q)
  <2>1. PICK q \in CpState : Moves("CP_PACKET_DECODE", q)
    BY <1>9
  <2>2. CpPacketDecode
    BY <1>3, <2>1, CpAt DEF At, Moves, Clocked
  <2>3. cp'.state = Decoded(cp.pkt_cmd, cp.pkt_sub_cmd)
    BY <1>3, <2>1, CommandDecoded DEF Moves, Clocked
  <2>4. Place' = cp'.state
    BY <2>3 DEF Decoded, Place
  <2> QED BY <1>3, <2>1, <2>4, DecodeCarried DEF Moves, To
<1>10. CASE Moves("CP_MEM_FETCH_PREP", "CP_MEM_FETCH")
  BY <1>3, <1>10, FetchCarried DEF Moves, To
<1>11. CASE Moves("CP_MEM_WRITE_ADDR_PREP", "CP_MEM_WRITE_ADDR")
  BY <1>3, <1>8, <1>11, WriteCarried DEF Moves, To, WritePlaces
<1>12. CASE Place \in {"CP_FETCH_OP1", "CP_FETCH_OP2"} /\ To("CP_MEM_FETCH_PREP")
  BY <1>3, <1>12, AddressCarried DEF To
<1>13. CASE Place \in {"CP_ADD", "CP_MULP2", "CP_DIVP2"} /\ To("CP_MEM_WRITE_ADDR_PREP")
  BY <1>3, <1>13, ExecuteCarried DEF To
<1>14. CASE Place = "CP_MEM_FETCH" /\ Announces(Reads, "CP_MEM_FETCH_END")
  BY <1>3, <1>14, FetchCarried DEF Announces
<1>15. CASE Place = "CP_MEM_WRITE_ADDR" /\ Announces(Writes, "CP_MEM_WRITE_VAL_PREP")
  BY <1>3, <1>8, <1>15, WriteCarried DEF Announces, WritePlaces
<1> QED BY <1>7, <1>9, <1>10, <1>11, <1>12, <1>13, <1>14, <1>15

\* And with its first packet.
LEMMA Group1Carried ==
    ASSUME Busily, Carried, Group1, ~Same
    PROVE  Carried'
<1> USE DEF Busily, Stepped
<1>1. CpHas' \/ MemUpHas'
  BY Group1Has
<1>2. Up' = Up \/ Up' = Append(Up, Sending)
  BY DEF Clocked, UpStays, UpGrows
<1>3. Up' \in Seq(Frame)
  BY <1>2
<1>4. DownRight' /\ AckRight'
  BY <1>1, <1>3, CpUndecided, MemUpUndecided
<1>5. NextIsAddr'
  BY DEF Group1, HostStill, NextIsAddr
<1>6. CASE Place \in Early
  <2>1. AtWork' /\ SendingRight' /\ Up' = Up
    BY <1>6, EarlyCarried
  <2>2. StatsOnly(Up')
    BY <2>1 DEF Group1
  <2> QED BY <1>4, <1>5, <2>1, <2>2, NoTraffic DEF Carried
<1>7. CASE Place \in {"CP_MEM_FETCH_END", "CP_MEM_WRITE_VAL_PREP"} /\ Busy
  <2>1. PacketUp
    <3>1. ~Moves("CP_MEM_WRITE_VAL_PREP", "CP_MEM_WRITE_VAL")
      BY <1>7 DEF Moves, To
    <3>2. ~To("CP_DEBUG_WRITE_WAIT_PREP") /\ ~To(cp.mem_op_restore_state)
      BY <1>7 DEF To
    <3>3. Received \in Packet
      BY RequestsDecodable DEF Group1
    <3> QED BY <1>7, <3>1, <3>2, <3>3, MemMoves
  <2>2. /\ AtWork' /\ SendingRight' /\ SameData /\ Place' = Place
        /\ Up' = Append(Up, Sending)
    BY <2>1, PacketUpFrame DEF Carried
  <2>3. Working
    BY <1>7, WorkingAt DEF DebugPlaces, Carried
  <2>4. CASE Place = "CP_MEM_FETCH_END"
    <3>1. UpRight' /\ WriteRight'
      BY <2>2, <2>4, ReadUp DEF SendingKind, Group1, Carried, SendingRight
    <3> QED BY <1>4, <2>2, <3>1 DEF Carried
  <2>5. CASE Place = "CP_MEM_WRITE_VAL_PREP"
    <3>1. Stage = 2
      BY <2>3, <2>5 DEF Carried, AtWork, WritePlaces
    <3>2. UpRight' /\ WriteRight'
      BY <2>2, <2>5, <3>1, AddrGoesUp DEF SendingKind, Group1, Carried, SendingRight
    <3> QED BY <1>4, <2>2, <3>2 DEF Carried
  <2> QED BY <1>7, <2>4, <2>5
<1> QED BY <1>6, <1>7 DEF Group1

-----------------------------------------------------------------------------
(* Between the two halves of a write.                                      *)

\* The address stays the only write that is up.
LEMMA WriteUpKept ==
    ASSUME HostStill, KeepsAddresses, KeepsOperands, Up' = Up, Place \in WritePlaces,
           Place' \in WritePlaces, ~ValueSent, ~ValueSent', UpRight, WriteRight
    PROVE  UpRight' /\ WriteRight'
<1>1. Stage' = Stage /\ Request' = Request /\ (Finished' <=> Finished)
  BY FinishedFrame DEF HostStill
<1>2. UpRight'
  BY <1>1 DEF UpRight, RightAck, Reads, Writes, Acks, WritePlaces
<1>3. WriteRight'
  BY DEF WriteRight, KeepsAddresses, HostStill, NextIsAddr, Writes, IsAddr
<1> QED BY <1>2, <1>3

\* The value is up, behind the address.
LEMMA ValueGoesUp ==
    ASSUME Stepped, HostStill, SameData, Up' = Append(Up, Sending), AddrUp, WriteRight,
           Sending \in Writes, IsValue(Sending), Place = "CP_MEM_WRITE_END",
           Place' = "CP_MEM_WRITE_END", Busy, ~Busy', Stage = 2
    PROVE  UpRight' /\ WriteRight'
<1>1. /\ \A i \in 1 .. Len(Up) : Up'[i] = Up[i]
      /\ \A i \in 1 .. Len(Up') : i \in 1 .. Len(Up) \/ i = Len(Up) + 1
      /\ Up'[Len(Up) + 1] = Sending /\ Len(Up) \in Nat /\ Len(Up') = Len(Up) + 1
  BY UpMore DEF Stepped
<1>2. Sending.id = cp'.tx_cmd_id /\ Sending.body = cp'.mem_val /\ Stage' = 2
      /\ cp'.mem_write_addr = cp.mem_write_addr
  BY CallFrame DEF IsValue, SameData, KeepsTag, KeepsValue, KeepsAddresses, HostStill
<1>3. ~ValueSent /\ ValueSent'
  BY DEF ValueSent
<1>4. ASSUME NEW i \in 1 .. Len(Up)
      PROVE  /\ Up[i] \notin Acks
             /\ Up[i] \in Writes => NextIsAddr /\ i = Len(Up) /\ Up[i].body = cp.mem_write_addr
  <2>1. NextIsAddr /\ StatsThen(Up, Writes)
    BY <1>1, <1>4, EmptyLength DEF AddrUp, Stepped
  <2>2. i = Len(Up) \/ Up[i] \in Debugs
    BY <1>1, <1>4, <2>1 DEF StatsThen
  <2>3. Up[Len(Up)] \in Writes
    BY <2>1 DEF StatsThen
  <2>4. Up[i] \in Writes => IsAddr(Up[i])
    BY <1>3, <1>4 DEF WriteRight, WritePlaces
  <2> QED BY <2>1, <2>2, <2>3, <2>4, KindsApart DEF IsAddr
<1>5. UpRight'
  BY <1>1, <1>2, <1>4, KindsApart DEF UpRight, Reads, Writes, Acks
<1>6. ~NextIsAddr => mem_write_addr_scratch = cp.mem_write_addr
  BY DEF WriteRight
<1>7. CASE NextIsAddr
  <2>1. ASSUME NEW i \in 1 .. Len(Up'), NEW l \in 1 .. Len(Up'), i < l,
               Up'[i] \in Writes, Up'[l] \in Writes
        PROVE  /\ Up'[i].body = cp'.mem_write_addr
               /\ Up'[l].id = cp'.tx_cmd_id /\ Up'[l].body = cp'.mem_val
    <3>1. i \in 1 .. Len(Up) /\ Up'[i] = Up[i] /\ i = Len(Up)
      BY <1>1, <1>4, <2>1
    <3>2. Up'[l] = Sending
      BY <1>1, <2>1, <3>1
    <3> QED BY <1>2, <1>4, <2>1, <3>1, <3>2
  <2> QED BY <1>3, <1>5, <1>7, <2>1 DEF WriteRight, HostStill, NextIsAddr, Writes, IsAddr, IsValue
<1>8. CASE ~NextIsAddr
  <2>1. \A i \in 1 .. Len(Up') : Up'[i] = Sending
    BY <1>1, <1>8, EmptyLength DEF AddrUp, Stepped
  <2> QED BY <1>2, <1>3, <1>5, <1>6, <1>8, <2>1
             DEF WriteRight, HostStill, NextIsAddr, Writes, IsValue
<1> QED BY <1>5, <1>7, <1>8

\* From one half to the other.
LEMMA Group2Carried ==
    ASSUME Busily, Carried, Group2, ~Same
    PROVE  Carried'
<1> USE DEF Busily, Stepped
<1>1. CpHas' \/ MemUpHas'
  BY Group2Has
<1>2. Up' = Up \/ Up' = Append(Up, Sending)
  BY DEF Clocked, UpStays, UpGrows
<1>3. Up' \in Seq(Frame)
  BY <1>2
<1>4. DownRight' /\ AckRight'
  BY <1>1, <1>3, CpUndecided, MemUpUndecided
<1>5. Received \in Packet /\ ~(Received.type = RESPONSE)
  BY RequestsDecodable DEF Group2, REQUEST, RESPONSE
<1>6. Place \in {"CP_MEM_WRITE_VAL_PREP", "CP_MEM_WRITE_VAL", "CP_MEM_WRITE_END"} /\ ~ValueSent
      /\ Place \in WritePlaces
  BY DEF Group2, ValueSent, WritePlaces
<1>7. Working
  BY <1>6, WorkingAt DEF DebugPlaces
<1>8. Stage = 2
  BY <1>6, <1>7 DEF AtWork, Group2
<1>9. CASE PacketUp
  <2>1. Place = "CP_MEM_WRITE_END" /\ Busy
    BY <1>9 DEF PacketUp, Group2
  <2>2. /\ AtWork' /\ SendingRight' /\ SameData /\ Place' = Place /\ ~Busy'
        /\ Up' = Append(Up, Sending)
    BY <1>9, PacketUpFrame DEF Carried
  <2>3. UpRight' /\ WriteRight'
    BY <1>8, <2>1, <2>2, ValueGoesUp DEF SendingKind, Group2, Carried, SendingRight
  <2> QED BY <1>4, <2>2, <2>3 DEF Carried
<1>10. ASSUME ~PacketUp
       PROVE  cp.state = Place
  BY <1>10, AtPlace
<1>11. RegisterFrame
  BY RegistersKept DEF Clocked
<1>12. CASE Moves("CP_MEM_WRITE_VAL_PREP", "CP_MEM_WRITE_VAL")
  <2>1. ~PacketUp
    BY <1>12 DEF PacketUp, Moves, To
  <2>2. Place' = "CP_MEM_WRITE_VAL" /\ Up' = Up /\ Place = "CP_MEM_WRITE_VAL_PREP"
    BY <1>12 DEF Moves, To
  <2>3. AtWork' /\ SendingRight'
    BY <1>8, <1>10, <2>1, <2>2, WriteCarried
  <2>4. KeepsAddresses /\ KeepsOperands /\ ~ValueSent' /\ Place' \in WritePlaces
    BY <1>10, <1>11, <2>1, <2>2 DEF RegisterFrame, ValueSent, WritePlaces
  <2>5. UpRight' /\ WriteRight'
    BY <1>6, <2>2, <2>4, WriteUpKept DEF Carried
  <2> QED BY <1>4, <2>3, <2>5 DEF Carried
<1>13. CASE Place = "CP_MEM_WRITE_VAL" /\ Announces(Writes, "CP_MEM_WRITE_END")
  <2>1. ~PacketUp
    BY <1>13 DEF PacketUp, Announces
  <2>2. Place' = "CP_MEM_WRITE_END" /\ Up' = Up /\ Busy'
    BY <1>13 DEF Announces
  <2>3. AtWork' /\ SendingRight'
    BY <1>8, <1>10, <1>13, <2>1, <2>2, WriteCarried
  <2>4. KeepsAddresses /\ KeepsOperands /\ ~ValueSent' /\ Place' \in WritePlaces
    BY <1>10, <1>11, <1>13, <2>1, <2>2 DEF RegisterFrame, ValueSent, WritePlaces
  <2>5. UpRight' /\ WriteRight'
    BY <1>6, <2>2, <2>4, WriteUpKept DEF Carried
  <2> QED BY <1>4, <2>3, <2>5 DEF Carried
<1> QED BY <1>5, <1>6, <1>9, <1>12, <1>13, MemMoves

-----------------------------------------------------------------------------
(* After the memory operation.                                             *)

\* The way to the statistics and back changes nothing of the command.
LEMMA LateFrame ==
    ASSUME HostStill, KeepsCommand, KeepsOperands, KeepsValue, AtWork, Working, Target' = Target,
           Place' \in DebugPlaces \cup Late, Place' \in Late => Place' = Target'
    PROVE  AtWork'
<1>1. /\ cp'.pkt_id = Request'.id /\ cp'.pkt_cmd = Request'.cmd /\ cp'.pkt_sub_cmd = Request'.sub_cmd
      /\ Stage' = Stage /\ Request' = Request /\ Current' = Current
      /\ Finished' <=> Finished
  BY CarriesCommand
<1>2. Place' \notin Reading \cup FetchPlaces \cup WritePlaces \cup
                    {"CP_HANDSHAKE_PREP", "CP_HANDSHAKE"}
  BY DEF Reading, FetchPlaces, WritePlaces, DebugPlaces, Late, AfterMem
<1>3. /\ Target = "CP_FETCH_OP1_END" => Stage = 0 /\ cp.mem_val = contents[Current.first]
      /\ Target = "CP_FETCH_OP2_END" => Stage = 1 /\ cp.mem_val = contents[Current.second]
      /\ Target \in {"CP_CMD_END_PREP", "CP_CMD_END"} => Finished
  BY DEF AtWork
<1>4. /\ Target' = "CP_FETCH_OP1_END" => Stage' = 0 /\ cp'.mem_val = contents'[Current'.first]
      /\ Target' = "CP_FETCH_OP2_END" => Stage' = 1 /\ cp'.mem_val = contents'[Current'.second]
      /\ Target' \in {"CP_CMD_END_PREP", "CP_CMD_END"} => Finished'
  BY <1>1, <1>3 DEF KeepsValue, HostStill
<1> QED BY <1>1, <1>2, <1>4 DEF AtWork, Reading

\* The statistics are announced and sent.
LEMMA Group3Carried ==
    ASSUME Busily, Carried, Group3, ~Same
    PROVE  Carried'
<1> USE DEF Busily, Stepped
<1>1. CpHas'
  BY Group3Has
<1>2. DownRight' /\ AckRight'
  BY <1>1, CpUndecided
<1>3. NextIsAddr' /\ Place \in DebugPlaces
  BY DEF Group3, HostStill, NextIsAddr, DebugPlaces
<1>4. Target \in AfterMem /\ Target = cp.debug_restore_state /\ Working
  BY <1>3 DEF Target, Group3, AfterMem, Working
<1>5. RegisterFrame
  BY RegistersKept DEF Clocked
<1>6. ASSUME cp.state = Place, Place' \in {"CP_DEBUG_WRITE_WAIT", "CP_DEBUG_WRITE_RESTORE"},
             cp'.debug_restore_state = cp.debug_restore_state, Up' = Up
      PROVE  Carried'
  <2>1. KeepsCommand /\ KeepsOperands /\ KeepsValue
    BY <1>3, <1>5, <1>6 DEF RegisterFrame, DebugPlaces
  <2>2. Target' = Target
    BY <1>4, <1>6 DEF Target, DebugPlaces
  <2>3. AtWork'
    BY <1>4, <1>6, <2>1, <2>2, LateFrame DEF DebugPlaces, Late, AfterMem
  <2>4. SendingRight'
    BY <1>6 DEF SendingRight
  <2>5. UpRight' /\ WriteRight'
    BY <1>3, <1>6, NoTraffic DEF Group3, StatsOnly
  <2> QED BY <1>2, <2>3, <2>4, <2>5 DEF Carried
<1>7. CASE PacketUp
  <2>1. Place = "CP_DEBUG_WRITE_RESTORE"
    BY <1>7, BusyPlaces DEF PacketUp, Group3
  <2>2. /\ AtWork' /\ SendingRight' /\ Up' = Append(Up, Sending)
    BY <1>7, PacketUpFrame DEF Carried
  <2>3. StatsOnly(Up')
    BY <2>1, <2>2, GrowStats DEF SendingKind, Group3
  <2> QED BY <1>2, <1>3, <2>2, <2>3, NoTraffic DEF Carried
<1>8. CASE ~PacketUp
  <2>1. cp.state = Place
    BY <1>8, AtPlace
  <2>2. Decodable
    BY DEF CpAtWork
  <2>3. CASE Place = "CP_DEBUG_WRITE_WAIT_PREP"
    <3>1. To("CP_DEBUG_WRITE_WAIT") /\ cp'.debug_restore_state = cp.debug_restore_state
      BY <1>8, <2>2, <2>3, LateMoves DEF Moves
    <3> QED BY <1>6, <2>1, <3>1 DEF To
  <2>4. CASE Place = "CP_DEBUG_WRITE_WAIT"
    <3>1. Announces(Debugs, "CP_DEBUG_WRITE_RESTORE")
      BY <1>8, <2>4, FreeMoves DEF Moves
    <3> QED BY <1>6, <2>1, <3>1 DEF Announces, SameReturns
  <2>5. CASE Place = "CP_DEBUG_WRITE_RESTORE" /\ Busy
    BY <1>8, <2>5, FreeMoves DEF Moves, To
  <2> QED BY <2>3, <2>4, <2>5 DEF Group3
<1> QED BY <1>7, <1>8

\* The response to the command is up.
LEMMA ResponseUp ==
    ASSUME Stepped, HostStill, KeepsOperands, Up' = Append(Up, Sending), StatsOnly(Up), NextIsAddr,
           Sending \in Acks, RightAck(Sending), Place' \in {"CP_STOP", "CP_STOP_MODIFIED"}
    PROVE  UpRight' /\ WriteRight'
<1>1. /\ \A i \in 1 .. Len(Up) : Up'[i] = Up[i]
      /\ \A i \in 1 .. Len(Up') : i \in 1 .. Len(Up) \/ i = Len(Up) + 1
      /\ Up'[Len(Up) + 1] = Sending
  BY UpMore DEF Stepped
<1>2. \A i \in 1 .. Len(Up') :
          /\ Up'[i] \notin Writes
          /\ Up'[i] \in Acks => Up'[i] = Sending
  BY <1>1, KindsApart DEF StatsOnly
<1>3. /\ Sending.id = Request'.id /\ Sending.type = RESPONSE /\ Sending.cmd = Request'.cmd
      /\ Sending.sub_cmd = Request'.sub_cmd /\ Finished'
  BY FinishedFrame DEF HostStill
<1>4. UpRight'
  BY <1>2, <1>3 DEF UpRight, RightAck, Reads, Writes, Acks
<1>5. WriteRight'
  BY <1>2 DEF WriteRight, HostStill, NextIsAddr, Writes
<1> QED BY <1>4, <1>5

\* The fetched value is the current call's operand.
LEMMA OperandCarried ==
    ASSUME Busily, Place \in {"CP_FETCH_OP1_END", "CP_FETCH_OP2_END"}, cp.state = Place,
           Place' = "CP_CMD_END_PREP"
    PROVE  AtWork' /\ SendingRight'
<1> USE DEF Busily, Stepped, Clocked
<1>1. Working /\ Target = Place
  BY WorkingAt DEF DebugPlaces
<1>2. RegisterFrame
  BY RegistersKept
<1>3. KeepsCommand
  BY <1>2 DEF RegisterFrame
<1>4. Stage' = Stage /\ Current' = Current /\ Request' = Request
  BY CallFrame DEF HostStill
<1>5. Finished'
  <2>1. CASE Place = "CP_FETCH_OP1_END"
    <3>1. Stage = 0 /\ cp'.op_1 = contents[Current.first]
      BY <1>1, <2>1, OperandTaken DEF AtWork
    <3> QED BY <1>4, <3>1 DEF Finished, HostStill
  <2>2. CASE Place = "CP_FETCH_OP2_END"
    <3>1. Stage = 1 /\ cp'.op_2 = contents[Current.second]
      BY <1>1, <2>2, OperandTaken DEF AtWork
    <3> QED BY <1>4, <3>1 DEF Finished, HostStill
  <2> QED BY <2>1, <2>2
<1>6. Target' = "CP_CMD_END_PREP"
  BY DEF Target, DebugPlaces
<1>7. cp'.pkt_id = Request'.id /\ cp'.pkt_cmd = Request'.cmd /\ cp'.pkt_sub_cmd = Request'.sub_cmd
  BY <1>1, <1>3, <1>4 DEF AtWork, KeepsCommand, SameCommand
<1>8. AtWork'
  BY <1>5, <1>6, <1>7 DEF AtWork, FetchPlaces, WritePlaces, Reading
<1>9. SendingRight'
  BY DEF SendingRight
<1> QED BY <1>8, <1>9

\* From the operand to the response.
LEMMA Group4Carried ==
    ASSUME Busily, Carried, Group4, ~Same
    PROVE  Carried'
<1> USE DEF Busily, Stepped
<1>1. CpHas' \/ AckUpHas'
  BY Group4Has
<1>2. Up' = Up \/ Up' = Append(Up, Sending)
  BY DEF Clocked, UpStays, UpGrows
<1>3. Up' \in Seq(Frame)
  BY <1>2
<1>4. DownRight' /\ AckRight'
  BY <1>1, <1>3, CpUndecided, AckUpUndecided
<1>5. NextIsAddr' /\ Decodable
  BY DEF Group4, HostStill, NextIsAddr, CpAtWork
<1>6. RegisterFrame
  BY RegistersKept DEF Clocked
<1>7. ASSUME Up' = Up
      PROVE  UpRight' /\ WriteRight'
  BY <1>5, <1>7, NoTraffic DEF Group4
<1>8. CASE Place = "CP_DEBUG_WRITE_RESTORE" /\ ~Busy /\ cp.debug_restore_state \in AfterMem
  <2>1. ~PacketUp
    BY <1>8 DEF PacketUp
  <2>2. To(cp.debug_restore_state) /\ cp.state = Place
    BY <1>8, <2>1, FreeMoves, AtPlace DEF Moves
  <2>3. Target = cp.debug_restore_state /\ Working
    BY <1>8 DEF Target, DebugPlaces, Working, AfterMem
  <2>4. Place' = Target /\ Target' = Target /\ Up' = Up
    BY <1>8, <2>2, <2>3 DEF To, Target, DebugPlaces, AfterMem
  <2>5. KeepsCommand /\ KeepsOperands /\ KeepsValue
    BY <1>6, <1>8, <2>2 DEF RegisterFrame
  <2>6. AtWork'
    BY <1>8, <2>3, <2>4, <2>5, LateFrame DEF Late
  <2>7. SendingRight'
    BY <1>8, <2>3, <2>4 DEF SendingRight, AfterMem
  <2> QED BY <1>4, <1>7, <2>4, <2>6, <2>7 DEF Carried
<1>9. CASE Place \in Late
  <2>1. ~PacketUp
    BY <1>9, BusyPlaces DEF PacketUp, Late, AfterMem
  <2>2. cp.state = Place
    BY <2>1, AtPlace
  <2>3. Working /\ Target = Place
    BY <1>9, WorkingAt DEF Late, AfterMem, DebugPlaces
  <2>4. \/ Moves("CP_FETCH_OP1_END", "CP_CMD_END_PREP")
        \/ Moves("CP_FETCH_OP2_END", "CP_CMD_END_PREP")
        \/ Moves("CP_CMD_END_PREP", "CP_CMD_END")
        \/ Place = "CP_CMD_END" /\ Announces(Acks, "CP_STOP")
    <3>1. Place # "CP_DEBUG_WRITE_WAIT_PREP"
      BY <1>9 DEF Late, AfterMem
    <3> QED BY <1>5, <1>9, <2>1, <3>1, LateMoves
  <2>5. CASE \/ Moves("CP_FETCH_OP1_END", "CP_CMD_END_PREP")
             \/ Moves("CP_FETCH_OP2_END", "CP_CMD_END_PREP")
    <3>1. AtWork' /\ SendingRight' /\ Up' = Up
      BY <2>2, <2>5, OperandCarried DEF Moves, To
    <3> QED BY <1>4, <1>7, <3>1 DEF Carried
  <2>6. CASE Moves("CP_CMD_END_PREP", "CP_CMD_END")
    <3>1. Place' = "CP_CMD_END" /\ Place = "CP_CMD_END_PREP" /\ Up' = Up
      BY <2>6 DEF Moves, To
    <3>2. KeepsCommand /\ KeepsOperands /\ Stage' = Stage /\ Request' = Request /\ (Finished' <=> Finished)
      BY <1>6, <2>2, <3>1, FinishedFrame DEF RegisterFrame, HostStill
    <3>3. Finished
      BY <2>3, <3>1 DEF AtWork
    <3>4. Target' = "CP_CMD_END"
      BY <3>1 DEF Target, DebugPlaces
    <3>5. cp'.pkt_id = Request'.id /\ cp'.pkt_cmd = Request'.cmd /\ cp'.pkt_sub_cmd = Request'.sub_cmd
      BY <2>3, <3>2 DEF AtWork, KeepsCommand, SameCommand
    <3>6. AtWork'
      BY <3>1, <3>2, <3>3, <3>4, <3>5 DEF AtWork, FetchPlaces, WritePlaces, Reading
    <3>7. SendingRight'
      BY <3>1 DEF SendingRight
    <3> QED BY <1>4, <1>7, <3>1, <3>6, <3>7 DEF Carried
  <2>7. CASE Place = "CP_CMD_END" /\ Announces(Acks, "CP_STOP")
    <3>1. Place' = "CP_STOP" /\ Up' = Up
      BY <2>7 DEF Announces
    <3>2. KeepsOperands /\ Request' = Request /\ (Finished' <=> Finished)
      BY <1>6, <2>2, <2>7, FinishedFrame DEF RegisterFrame, HostStill
    <3>3. Finished /\ cp.pkt_id = Request.id /\ cp.pkt_cmd = Request.cmd /\ cp.pkt_sub_cmd = Request.sub_cmd
      BY <2>3, <2>7 DEF AtWork
    <3>4. Sending' = CpResponse(0)
      BY <1>5, <2>2, <2>7, PacketAnnounced DEF Clocked
    <3>5. /\ Sending'.id = Request'.id /\ Sending'.type = RESPONSE /\ Sending'.cmd = Request'.cmd
          /\ Sending'.sub_cmd = Request'.sub_cmd
      BY <3>2, <3>3, <3>4 DEF CpResponse, Payload
    <3>6. SendingRight'
      BY <3>1, <3>2, <3>3, <3>5 DEF SendingRight, RightAck
    <3>7. AtWork'
      BY <3>1 DEF AtWork, Working, Target, DebugPlaces
    <3> QED BY <1>4, <1>7, <3>1, <3>6, <3>7 DEF Carried
  <2> QED BY <2>4, <2>5, <2>6, <2>7
<1>10. CASE Place \in {"CP_STOP", "CP_STOP_MODIFIED"} /\ Busy
  <2>1. PacketUp
    BY <1>10, FreeMoves DEF Moves, To
  <2>2. /\ AtWork' /\ SendingRight' /\ SameData /\ Place' = Place /\ Up' = Append(Up, Sending)
    BY <2>1, PacketUpFrame DEF Carried
  <2>3. UpRight' /\ WriteRight'
    BY <1>10, <2>2, ResponseUp DEF SendingKind, Group4, Carried, SendingRight, SameData
  <2> QED BY <1>4, <2>2, <2>3 DEF Carried
<1> QED BY <1>8, <1>9, <1>10 DEF Group4

\* Wherever the processor is at work.
LEMMA CpHasCarried ==
    ASSUME Stepped, HostStill, CallsTyped, Carried, CpHas
    PROVE  Carried'
<1>1. CpAtWork /\ (Group1 \/ Group2 \/ Group3 \/ Group4)
  BY CpHasIs
<1>2. Received' = Received /\ rx_packet_ready = 1
  BY <1>1, AtWorkStays
<1>3. CASE Same
  <2>1. CpHas'
    BY <1>3, SameHas
  <2> QED BY <1>2, <1>3, <2>1, CpUndecided, SameCarried
<1>4. CASE ~Same
  <2>1. Busily
    BY <1>1, <1>2 DEF Busily, Carried
  <2> QED BY <1>1, <1>4, <2>1, Group1Carried, Group2Carried, Group3Carried, Group4Carried
<1> QED BY <1>3, <1>4

-----------------------------------------------------------------------------
(* A memory request or its answer on its way.                              *)

\* The request is on its way.
LEMMA MemUpCarried ==
    ASSUME Stepped, HostStill, Carried, MemUpHas
    PROVE  Carried'
<1> USE DEF Stepped
<1>1. MemUpHas'
  BY BoardMemUpHas
<1>2. Received' = Received
  BY DownHereStays DEF MemUpHas
<1>3. Received \in Packet /\ Received.type # RESPONSE
  BY RequestsDecodable DEF MemUpHas, REQUEST, RESPONSE
<1>4. Same
  BY <1>3, MemMoves DEF MemUpHas, PacketUp, Moves
<1>5. Up' \in Seq(Frame)
  BY <1>4 DEF Same
<1> QED BY <1>1, <1>2, <1>4, <1>5, MemUpUndecided, SameCarried

\* The host has answered.
LEMMA MemDownIs ==
    ASSUME MemDownHas
    PROVE  MemAnswered /\ ~CpFree
BY DEF MemDownHas, MemAnswered, CpFree

\* The answer is on its way down.
LEMMA AnswerComing ==
    ASSUME Stepped, HostStill, Carried, MemDownHas, Same
    PROVE  Carried'
<1> USE DEF Stepped
<1>1. /\ SameData /\ Place' = Place /\ Sending' = Sending /\ Up' = Up /\ (Busy' <=> Busy)
  BY StayingKeeps
<1>2. ~CpFree'
  BY <1>1 DEF CpFree, MemDownHas
<1>3. Down' = Down
  BY RxStep DEF MemDownHas
<1>4. RightAnswer(Down)
  BY MemDownIs DEF Carried, DownRight
<1>5. Stage' = Stage
  BY CallFrame DEF HostStill
<1>6. DownRight'
  BY <1>1, <1>2, <1>3, <1>4, <1>5 DEF DownRight, Unanswered, RightAnswer, SameData,
     KeepsAddresses, HostStill
<1>7. AckRight'
  BY NoAckFrame DEF MemDownHas, HostStill, NoAck
<1>8. Place \notin Reading
  BY DEF MemDownHas, Reading
<1> QED BY <1>6, <1>7, <1>8, SameCarried

\* The processor takes it: the value read, or the end of the write.
LEMMA AnswerTaken ==
    ASSUME Stepped, HostStill, CallsTyped, Carried, MemDownHas, ~Same
    PROVE  Carried'
<1> USE DEF Stepped
<1>1. ~Busy /\ Place \in {"CP_MEM_FETCH_END", "CP_MEM_WRITE_END"}
  BY DEF MemDownHas
<1>2. ASSUME rx_packet_ready = 1, port_out = <<>>
      PROVE  Received = Down /\ Received \in Answers
  <2>1. prx.state = "RX_END"
    BY <1>2 DEF MemDownHas, DownShape
  <2> QED BY <1>2, <2>1, RxArrived DEF MemDownHas
<1>3. rx_packet_ready = 1 => Received \in Packet
  BY <1>2, Kinds DEF MemDownHas
<1>4. /\ rx_packet_ready = 1 /\ Received.type = RESPONSE
      /\ cp.mem_op_restore_state \in AfterMem
      /\ IF DEVICE_DEBUG
         THEN /\ To("CP_DEBUG_WRITE_WAIT_PREP")
              /\ cp'.debug_restore_state = cp.mem_op_restore_state
         ELSE To(cp.mem_op_restore_state)
  BY <1>1, <1>3, MemMoves DEF PacketUp, Moves
<1>5. Received = Down
  BY <1>2, <1>4, RequestsDecodable DEF MemDownHas, REQUEST, RESPONSE
<1>6. RightAnswer(Received)
  BY <1>5, MemDownIs DEF Carried, DownRight
<1>7. ~PacketUp
  BY <1>1 DEF PacketUp
<1>8. cp.state = Place
  BY <1>7, AtPlace
<1>9. Working
  BY <1>1, WorkingAt DEF DebugPlaces, Carried
<1>10. RegisterFrame
  BY RegistersKept DEF Clocked
<1>11. KeepsCommand /\ KeepsOperands
  BY <1>1, <1>8, <1>10 DEF RegisterFrame
<1>12. /\ cp'.pkt_id = Request'.id /\ cp'.pkt_cmd = Request'.cmd /\ cp'.pkt_sub_cmd = Request'.sub_cmd
       /\ Stage' = Stage /\ Current' = Current /\ (Finished' <=> Finished)
  BY <1>9, <1>11, CarriesCommand DEF Carried
<1>13. Target' = cp.mem_op_restore_state /\ Place' \in AfterMem \cup {"CP_DEBUG_WRITE_WAIT_PREP"}
       /\ Up' = <<>>
  BY <1>4 DEF To, Target, DebugPlaces, MemDownHas, AfterMem
<1>14. /\ Target' = "CP_FETCH_OP1_END" => Stage = 0 /\ cp'.mem_val = contents[Current.first]
       /\ Target' = "CP_FETCH_OP2_END" => Stage = 1 /\ cp'.mem_val = contents[Current.second]
       /\ Target' \in {"CP_CMD_END_PREP", "CP_CMD_END"} => Finished
  <2>1. CASE Place = "CP_MEM_FETCH_END"
    <3>1. Fetching
      BY <1>9, <2>1 DEF Carried, AtWork, FetchPlaces
    <3>2. Stage \in 0 .. 1
      BY <3>1 DEF Fetching
    <3>3. Request.body = Operand(Current, Stage)
      BY <3>2, RequestIs DEF CallsTyped
    <3>4. Stage = 0 => Request.body = Current.first
      BY <3>3 DEF Operand, OP_1, OP_2, OP_3
    <3>5. Stage = 1 => Request.body = Current.second
      BY <3>3 DEF Operand, OP_1, OP_2, OP_3
    <3>6. cp' # cp
      BY <1>4, <1>8, <1>13, <2>1 DEF Place, AfterMem
    <3>7. cp'.mem_val = Received.body
      BY <1>8, <2>1, <3>6, ValueRead DEF Clocked
    <3>8. cp'.mem_val = contents[Request.body]
      BY <1>6, <2>1, <3>1, <3>7 DEF RightAnswer, Fetching
    <3> QED BY <1>13, <3>1, <3>4, <3>5, <3>8 DEF Fetching
  <2>2. CASE Place = "CP_MEM_WRITE_END"
    <3>1. Finished
      BY <1>6, <2>2 DEF RightAnswer, Finished
    <3>2. cp.mem_op_restore_state = "CP_CMD_END_PREP"
      BY <2>2 DEF Clocked, CpPlaces, WritePlaces
    <3> QED BY <1>13, <3>1, <3>2
  <2> QED BY <1>1, <2>1, <2>2
<1>15. Place' \notin Reading \cup FetchPlaces \cup WritePlaces \cup
                    {"CP_HANDSHAKE_PREP", "CP_HANDSHAKE"}
  BY <1>13 DEF Reading, FetchPlaces, WritePlaces, AfterMem
<1>16. AtWork'
  BY <1>12, <1>14, <1>15 DEF AtWork, Reading, HostStill
<1>17. SendingRight'
  BY <1>13 DEF SendingRight, AfterMem
<1>18. UpRight' /\ WriteRight'
  BY <1>13, NoTraffic DEF StatsOnly, MemDownHas, HostStill, NextIsAddr
<1>19. CpHas'
  BY <1>13, BoardMemDownHas DEF MemDownHas, AfterMem
<1> QED BY <1>16, <1>17, <1>18, <1>19, CpUndecided DEF Carried

\* The response is on its way, or the host has it.
LEMMA AnswerCarried ==
    ASSUME Stepped, HostStill, CallsTyped, Carried, AckUpHas \/ AckHas
    PROVE  Carried'
<1>1. CpFree /\ NextIsAddr /\ cp.state # "CP_IDLE"
  BY DEF AckUpHas, AckHas
<1>2. ~Unanswered
  <2>1. CASE AckUpHas
    <3>1. PICK k \in 1 .. 2 : k <= Len(Up) /\ Up[k] \in Acks
      BY <2>1 DEF AckUpHas, StatsAround
    <3>2. k \in 1 .. Len(Up)
      BY <3>1, EmptyLength DEF Stepped
    <3> QED BY <3>1, <3>2 DEF Unanswered
  <2>2. CASE AckHas
    <3>1. ~NoAck
      BY <2>2, EmptyLength DEF AckHas, NoAck
    <3> QED BY <3>1 DEF Unanswered
  <2> QED BY <2>1, <2>2
<1> QED BY <1>1, <1>2, FreeBoard

-----------------------------------------------------------------------------
(* A clock of the board.                                                   *)

\* The operands in their registers stay those of the current call.
LEMMA OperandsKept ==
    ASSUME Stepped, HostStill, Somebody, Stages, Operands, InCall => AtWork, Stage \in Int
    PROVE  Operands'
<1> USE DEF Stepped
<1>1. RegisterFrame
  BY RegistersKept DEF Clocked
<1>2. Stage' = Stage /\ Current' = Current /\ contents' = contents
  BY CallFrame DEF HostStill
<1>3. CASE cp.state \notin {"CP_FETCH_OP1_END", "CP_FETCH_OP2_END"}
  <2>1. KeepsOperands
    BY <1>1, <1>3 DEF RegisterFrame
  <2> QED BY <1>2, <2>1 DEF Operands, KeepsOperands
<1>4. CASE cp.state \in {"CP_FETCH_OP1_END", "CP_FETCH_OP2_END"}
  <2>1. Place = cp.state /\ ~CpFree
    BY <1>4 DEF Place, CpFree
  <2>2. CASE InCall
    <3>1. Working /\ Target = Place
      BY <1>4, <2>1, <2>2, WorkingAt DEF DebugPlaces
    <3>2. /\ cp.state = "CP_FETCH_OP1_END" => Stage = 0
          /\ cp.state = "CP_FETCH_OP2_END" => Stage = 1
      BY <2>1, <2>2, <3>1 DEF AtWork
    <3>3. cp.state = "CP_FETCH_OP2_END" => cp'.op_1 = cp.op_1
      BY OperandTaken DEF Clocked
    <3> QED BY <1>2, <1>4, <3>2, <3>3 DEF Operands
  <2>3. CASE ~InCall
    <3>1. host # "sync"
      BY <2>1 DEF Somebody, HostHas, DownHas, CpHas, MemUpHas, MemDownHas, AckUpHas, AckHas, Waiting
    <3>2. Stage = 0
      BY <2>3, <3>1 DEF Stages, InCall, Syncing
    <3> QED BY <1>2, <3>2 DEF Operands
  <2> QED BY <2>2, <2>3
<1> QED BY <1>3, <1>4

\* What the invariant says when there is nobody in a call.
LEMMA ErrandParts ==
    ASSUME Errand
    PROVE  /\ Recorded /\ Stages /\ Operands /\ Stage \in Int
           /\ InCall => Carried
           /\ ~InCall => NoAck
BY DEF Errand, Carried, Stages

LEMMA ErrandNext ==
    ASSUME Recorded', Stages', Operands', InCall' => Carried', ~InCall' => NoAck'
    PROVE  Errand'
BY DEF Errand, Carried

\* In a call somebody has something to do.
LEMMA CallWaits ==
    ASSUME InCall
    PROVE  ~HostHas
BY DEF InCall, HostHas

\* Whoever it is.
LEMMA CarriedOn ==
    ASSUME Stepped, HostStill, CallsTyped, Carried, Somebody, InCall
    PROVE  Carried'
<1>1. ~HostHas
  BY CallWaits
<1>2. CASE DownHas
  BY <1>2, DownHasCarried
<1>3. CASE CpHas
  BY <1>3, CpHasCarried
<1>4. CASE MemUpHas
  BY <1>4, MemUpCarried
<1>5. CASE MemDownHas
  BY <1>5, AnswerComing, AnswerTaken
<1>6. CASE AckUpHas \/ AckHas
  BY <1>6, AnswerCarried
<1> QED BY <1>1, <1>2, <1>3, <1>4, <1>5, <1>6 DEF Somebody

\* The clock of the board keeps Errand.
LEMMA BoardErrand ==
    ASSUME TypeOK, Turns, Errand, BoardStep
    PROVE  Errand'
<1>1. Stepped
  BY BoardStepped
<1>2. HostStill
  BY DEF BoardStep, HostStill, implVars, driverVars, history
<1>3. Somebody /\ CommandsRecorded
  BY TurnsIs
<1>4. /\ Recorded /\ Stages /\ Operands /\ Stage \in Int
      /\ InCall => Carried
      /\ ~InCall => NoAck
  BY ErrandParts
<1>5. Stage' = Stage /\ Recorded'
  BY <1>2, <1>4, CallFrame DEF HostStill
<1>6. Stages'
  BY <1>2, <1>4, <1>5 DEF Stages, HostStill, Syncing
<1>7. Operands'
  BY <1>1, <1>2, <1>3, <1>4, OperandsKept DEF Carried
<1>8. ASSUME InCall
      PROVE  Carried'
  <2>1. recorded_commands \in Seq(Packet) /\ calls \in Seq(Calls) /\ executed \in Nat
    BY DEF TypeOK
  <2>2. CallsTyped
    BY <1>3, <1>4, <1>8, <2>1 DEF CallsTyped, CommandsRecorded, InCall
  <2> QED BY <1>1, <1>2, <1>3, <1>4, <1>8, <2>2, CarriedOn
<1>9. InCall' <=> InCall
  BY <1>2 DEF InCall, HostStill
<1>10. NoAck => NoAck'
  BY <1>2 DEF NoAck, HostStill
<1> QED BY <1>4, <1>5, <1>6, <1>7, <1>8, <1>9, <1>10, ErrandNext

-----------------------------------------------------------------------------
(* Steps of the host.                                                      *)

CallsKept == UNCHANGED <<calls, executed, recorded_commands, contents>>

\* What the board holds.
LEMMA RestsWork ==
    ASSUME BoardRests, CallsKept
    PROVE  /\ Stage' = Stage /\ Current' = Current /\ Request' = Request
           /\ Finished' <=> Finished
           /\ CpFree' <=> CpFree
           /\ Recorded => Recorded'
           /\ Operands => Operands'
           /\ AtWork => AtWork'
           /\ SendingRight => SendingRight'
<1>1. /\ Place' = Place /\ (Busy' <=> Busy) /\ Sending' = Sending /\ Received' = Received /\ cp' = cp
  BY RestsCp
<1>2. contents' = contents
  BY DEF CallsKept
<1>3. Stage' = Stage /\ Current' = Current /\ Request' = Request /\ (Recorded => Recorded')
  BY CallFrame DEF CallsKept
<1>4. Finished' <=> Finished
  BY <1>1, <1>2, <1>3 DEF Finished
<1>5. Operands => Operands'
  BY <1>1, <1>2, <1>3 DEF Operands
<1>6. CpFree' <=> CpFree
  BY <1>1 DEF CpFree
<1>7. Target' = Target /\ (Working' <=> Working)
  BY <1>1 DEF Target, Working
<1>8. AtWork => AtWork'
  BY <1>1, <1>2, <1>3, <1>4, <1>7 DEF AtWork, Fetching, Writing
<1>9. SendingRight => SendingRight'
  BY <1>1, <1>3, <1>4 DEF SendingRight, IsRead, IsAddr, IsValue, RightAck
<1> QED BY <1>3, <1>4, <1>5, <1>6, <1>8, <1>9

\* Nobody is in a call.
LEMMA OutErrand ==
    ASSUME Errand, ~InCall, ~InCall', BoardRests, CallsKept,
           received_payloads' = received_payloads, unread' = unread,
           Stage = 0 \/ host' = host
    PROVE  Errand'
<1>1. /\ Recorded /\ Stages /\ Operands /\ NoAck
  BY ErrandParts
<1>2. Stage' = Stage /\ Recorded' /\ Operands'
  BY <1>1, RestsWork
<1>3. executed' = executed /\ calls' = calls
  BY DEF CallsKept
<1>4. Stages'
  BY <1>1, <1>2, <1>3 DEF Stages, Syncing
<1>5. NoAck'
  BY <1>1 DEF NoAck
<1> QED BY <1>2, <1>4, <1>5, ErrandNext

\* Nor is anything new up.
LEMMA RestsUp ==
    ASSUME BoardRests, CallsKept, Up' = Up, UpRight, WriteRight,
           UNCHANGED <<device_packet_recv_state, mem_write_addr_scratch>>
    PROVE  UpRight' /\ WriteRight'
<1>1. /\ Stage' = Stage /\ Request' = Request /\ (Finished' <=> Finished)
  BY RestsWork
<1>2. /\ Place' = Place /\ (Busy' <=> Busy) /\ cp' = cp
  BY RestsCp
<1>3. /\ cp'.tx_cmd_id = cp.tx_cmd_id /\ cp'.mem_fetch_addr = cp.mem_fetch_addr
      /\ cp'.mem_write_addr = cp.mem_write_addr /\ cp'.mem_val = cp.mem_val
  BY <1>2
<1>4. UpRight'
  BY <1>1, <1>2, <1>3 DEF UpRight, IsRead, RightAck, Reads, Writes, Acks
<1>5. (NextIsAddr' <=> NextIsAddr) /\ (ValueSent' <=> ValueSent)
  BY <1>2 DEF NextIsAddr, ValueSent
<1>6. WriteRight'
  BY <1>2, <1>3, <1>5 DEF WriteRight, IsAddr, IsValue, Writes
<1> QED BY <1>4, <1>6

\* In a call, a step that moves no packet.
LEMMA QuietErrand ==
    ASSUME Errand, InCall, host' \in {"stat", "cmd_sync"}, BoardRests, CallsKept, Up' = Up,
           port_out' = port_out,
           UNCHANGED <<received_payloads, unread, device_packet_recv_state, mem_write_addr_scratch>>
    PROVE  Errand'
<1>1. /\ Recorded /\ Stages /\ Operands /\ Carried
  BY ErrandParts
<1>2. /\ Stage' = Stage /\ Request' = Request /\ (Finished' <=> Finished) /\ (CpFree' <=> CpFree)
      /\ Recorded' /\ Operands' /\ AtWork' /\ SendingRight'
  BY <1>1, RestsWork DEF Carried
<1>3. UpRight' /\ WriteRight'
  BY <1>1, RestsUp DEF Carried
<1>4. Down' = Down
  BY RestsDown
<1>5. /\ Place' = Place /\ (Busy' <=> Busy) /\ cp' = cp
  BY RestsCp
<1>6. contents' = contents /\ executed' = executed /\ calls' = calls
  BY DEF CallsKept
<1>7. Unanswered' <=> Unanswered
  BY <1>2 DEF Unanswered, NoAck, Acks
<1>8. MemAnswered' <=> MemAnswered
  BY <1>5 DEF MemAnswered, NextIsAddr
<1>9. DownRight'
  BY <1>1, <1>2, <1>4, <1>5, <1>6, <1>7, <1>8 DEF Carried, DownRight, RightAnswer
<1>10. AckRight'
  BY <1>1, <1>2 DEF Carried, AckRight, RightAck
<1>11. Stages'
  BY <1>1, <1>2, <1>6 DEF Stages, Syncing, InCall
<1>12. InCall'
  BY DEF InCall
<1> QED BY <1>2, <1>3, <1>9, <1>10, <1>11, <1>12, ErrandNext DEF Carried

-----------------------------------------------------------------------------
(* mInit, the application and the ends of mSync.                           *)

\* Outside mSync every call is through.
LEMMA StageOutside ==
    ASSUME Errand
    PROVE  /\ ~Syncing => Stage = 0
           /\ ~InCall => NoAck
           /\ host # "sync" /\ ~InCall => Stage = 0
BY DEF Errand, Stages, Syncing, InCall

\* mInit and the start of mSync.
LEMMA FindErrand ==
    ASSUME Errand, UNCHANGED <<boardVars, ringVars, history>>,
           Find \/ FindByte \/ FindAnswer \/ FindTimeout \/ MSync
    PROVE  Errand'
<1>1. /\ BoardRests /\ CallsKept /\ received_payloads' = received_payloads /\ unread' = unread
      /\ host \in {"start", "finding", "app"} /\ host' \in {"finding", "app", "sync", "exited"}
  BY DEF Find, FindByte, FindAnswer, FindTimeout, FindReads, MSync, Goto, SendRequest, BoardRests,
     CallsKept, history, implVars
<1>2. ~InCall /\ ~InCall' /\ host # "sync"
  BY <1>1 DEF InCall
<1> QED BY <1>1, <1>2, StageOutside, OutErrand

\* With no packet left every call is through.
LEMMA ThroughStage ==
    ASSUME NEW L \in Nat, NEW e \in Nat, 3 * (L - e) \in -1 .. 2
    PROVE  3 * (L - e) = 0 /\ L = e
<1>1. L - e \in Int /\ 3 * (L - e) < 3 /\ 3 * (L - e) > -3
  OBVIOUS
<1> QED BY <1>1

\* mSync returns after the last call.
LEMMA SyncReturnErrand ==
    ASSUME TypeOK, Errand, UNCHANGED <<boardVars, ringVars, history>>, SyncReturn
    PROVE  Errand' /\ executed = Len(calls)
<1>1. /\ BoardRests /\ CallsKept /\ received_payloads' = received_payloads /\ unread' = unread
      /\ host = "sync" /\ host' = "app" /\ recorded_commands = <<>>
  BY DEF SyncReturn, Goto, BoardRests, CallsKept, history, implVars
<1>2. ~InCall /\ ~InCall'
  BY <1>1 DEF InCall
<1>3. Len(calls) \in Nat /\ executed \in Nat
  BY DEF TypeOK
<1>4. Stage = 3 * (Len(calls) - executed)
  BY <1>1, <1>3 DEF Stage
<1>5. Stage \in -1 .. 2
  BY DEF Errand, Stages
<1>6. Stage = 0 /\ Len(calls) = executed
  BY <1>3, <1>4, <1>5, ThroughStage
<1> QED BY <1>1, <1>2, <1>6, OutErrand

\* The application stores a word while no call is at hand.
LEMMA ValueErrand ==
    ASSUME Errand, UNCHANGED <<boardVars, ringVars, history>>,
           (\E v \in Vals : NewMInt(v)) \/ (\E a \in Addr, v \in Vals : SetValue(a, v))
    PROVE  Errand'
<1>1. /\ UNCHANGED <<calls, executed, recorded_commands, received_payloads, unread, host>>
      /\ host = "app"
  BY DEF NewMInt, SetValue, history, implVars, driverVars
<1>2. ~InCall /\ ~Syncing /\ ~InCall'
  BY <1>1 DEF InCall, Syncing
<1>3. Stage = 0 /\ NoAck /\ Recorded /\ Stages
  BY <1>2, StageOutside DEF Errand
<1>4. Stage' = Stage
  BY <1>1 DEF Stage
<1>5. Recorded'
  <2>1. recorded_commands' = recorded_commands /\ calls' = calls
    BY <1>1
  <2>2. SUFFICES ASSUME NEW i \in 1 .. Len(recorded_commands), NEW k \in 1 .. Len(calls), NEW n \in 0 .. 2,
                        Len(recorded_commands) - i = 3 * (Len(calls) - k) + (2 - n)
                 PROVE  Packs(i, k, n)'
    BY <2>1 DEF Recorded
  <2>3. Packs(i, k, n)
    BY <1>3, <2>2 DEF Recorded
  <2> QED BY <2>1, <2>3 DEF Packs
<1>6. Stages'
  BY <1>1, <1>3, <1>4 DEF Stages, Syncing
<1>7. Operands'
  BY <1>3, <1>4 DEF Operands
<1>8. NoAck'
  BY <1>1, <1>3 DEF NoAck
<1> QED BY <1>2, <1>5, <1>6, <1>7, <1>8, ErrandNext

-----------------------------------------------------------------------------
(* A call recorded.                                                        *)

\* Three packets are appended.
LEMMA ThreeMore ==
    ASSUME NEW s \in Seq(Packet), NEW a \in Packet, NEW b \in Packet, NEW c \in Packet,
           NEW t, t = s \o <<a, b, c>>
    PROVE  /\ Len(s) \in Nat /\ Len(t) = Len(s) + 3
           /\ \A i \in 1 .. Len(s) : t[i] = s[i]
           /\ t[Len(s) + 1] = a /\ t[Len(s) + 2] = b /\ t[Len(s) + 3] = c
<1>1. <<a, b, c>> \in Seq(Packet) /\ Len(<<a, b, c>>) = 3
  OBVIOUS
<1>2. Len(s) \in Nat /\ Len(t) = Len(s) + 3 /\ \A i \in 1 .. Len(s) : t[i] = s[i]
  BY <1>1
<1>3. ASSUME NEW j \in 1 .. 3
      PROVE  t[Len(s) + j] = <<a, b, c>>[j]
  <2>1. Len(s) + j \in 1 .. Len(s) + 3 /\ ~(Len(s) + j <= Len(s)) /\ (Len(s) + j) - Len(s) = j
    BY <1>2
  <2> QED BY <1>1, <1>2, <2>1
<1> QED BY <1>2, <1>3

\* Where the packets of a call are.
LEMMA WhichPacket ==
    ASSUME NEW R \in Nat, NEW L \in Nat, NEW i \in 1 .. R + 3, NEW k \in 1 .. L + 1, NEW n \in 0 .. 2,
           (R + 3) - i = 3 * ((L + 1) - k) + (2 - n)
    PROVE  \/ k = L + 1 /\ i = R + 1 + n
           \/ k \in 1 .. L /\ i \in 1 .. R /\ R - i = 3 * (L - k) + (2 - n)
<1>1. CASE k = L + 1
  BY <1>1
<1>2. CASE k # L + 1
  <2>1. k \in 1 .. L /\ L - k \in Nat
    BY <1>2
  <2>2. PICK d \in Nat : d = L - k
    BY <2>1
  <2>3. (L + 1) - k = d + 1
    BY <2>2
  <2>4. (R + 3) - i = 3 * (d + 1) + (2 - n)
    BY <2>3
  <2>5. R - i = 3 * d + (2 - n) /\ i \in 1 .. R
    BY <2>4
  <2> QED BY <2>1, <2>2, <2>5
<1> QED BY <1>1, <1>2

\* A call is recorded behind the others.
LEMMA RecordErrand ==
    ASSUME TypeOK, Errand, UNCHANGED <<boardVars, ringVars>>, NEW c \in Calls, RecordCall(c)
    PROVE  Errand'
<1> DEFINE g == global_command_id % 10
           p0 == Payload(g, REQUEST, c.cmd, OP_1, c.first)
           p1 == Payload(g + 1, REQUEST, c.cmd, OP_2, c.second)
           p2 == Payload(g + 2, REQUEST, c.cmd, OP_3, c.result)
<1>1. /\ host = "app" /\ UNCHANGED <<executed, host, received_payloads, unread>>
      /\ calls' = Append(calls, c)
      /\ recorded_commands' = recorded_commands \o <<p0, p1, p2>>
  BY DEF RecordCall, Record, implVars
<1>2. ~InCall /\ ~InCall' /\ ~Syncing /\ ~Syncing'
  BY <1>1 DEF InCall, Syncing
<1>3. Stage = 0 /\ NoAck /\ Recorded /\ executed <= Len(calls)
  BY <1>2, StageOutside DEF Errand, Stages
<1>4. recorded_commands \in Seq(Packet) /\ calls \in Seq(Calls) /\ executed \in Nat
  BY DEF TypeOK
<1>5. g \in 0 .. 9
  BY DEF TypeOK
<1>6. /\ p0.cmd = c.cmd /\ p0.sub_cmd = 0 /\ p0.body = Operand(c, 0)
      /\ p1.cmd = c.cmd /\ p1.sub_cmd = 1 /\ p1.body = Operand(c, 1)
      /\ p2.cmd = c.cmd /\ p2.sub_cmd = 2 /\ p2.body = Operand(c, 2)
  BY DEF Payload, Operand, OP_1, OP_2, OP_3
<1> HIDE DEF g
<1>7. p0 \in Packet /\ p1 \in Packet /\ p2 \in Packet
  BY <1>5, RecordedThree DEF Requests
<1> HIDE DEF p0, p1, p2
<1> DEFINE R == Len(recorded_commands)
           L == Len(calls)
<1>8. /\ R \in Nat /\ Len(recorded_commands') = R + 3
      /\ \A i \in 1 .. R : recorded_commands'[i] = recorded_commands[i]
      /\ recorded_commands'[R + 1] = p0 /\ recorded_commands'[R + 2] = p1
      /\ recorded_commands'[R + 3] = p2
  BY <1>1, <1>4, <1>7, ThreeMore
<1>9. /\ L \in Nat /\ Len(calls') = L + 1 /\ calls'[L + 1] = c
      /\ \A k \in 1 .. L : calls'[k] = calls[k]
  BY <1>1, <1>4
<1>10. Stage' = 0 /\ executed' <= Len(calls')
  <2>1. 3 * (L - executed) - R = 0
    BY <1>3 DEF Stage
  <2>2. 3 * ((L + 1) - executed) - (R + 3) = 0
    BY <1>4, <1>8, <1>9, <2>1
  <2> HIDE DEF R, L
  <2>3. Stage' = 3 * ((L + 1) - executed) - (R + 3)
    BY <1>1, <1>8, <1>9 DEF Stage
  <2> QED BY <1>1, <1>3, <1>4, <1>9, <2>2, <2>3 DEF L
<1>11. Recorded'
  <2>0. Len(recorded_commands') = R + 3 /\ Len(calls') = L + 1
    BY <1>8, <1>9
  <2>1. SUFFICES ASSUME NEW i \in 1 .. R + 3, NEW k \in 1 .. L + 1, NEW n \in 0 .. 2,
                        (R + 3) - i = 3 * ((L + 1) - k) + (2 - n)
                 PROVE  Packs(i, k, n)'
    BY <2>0 DEF Recorded
  <2>2. CASE k = L + 1 /\ i = R + 1 + n
    <3>1. recorded_commands'[i] = IF n = 0 THEN p0 ELSE IF n = 1 THEN p1 ELSE p2
      BY <1>8, <2>2
    <3>2. calls'[k] = c
      BY <1>9, <2>2
    <3> QED BY <1>6, <3>1, <3>2 DEF Packs
  <2>3. CASE k \in 1 .. L /\ i \in 1 .. R /\ R - i = 3 * (L - k) + (2 - n)
    <3>1. Packs(i, k, n)
      BY <1>3, <2>3 DEF Recorded
    <3>2. recorded_commands'[i] = recorded_commands[i] /\ calls'[k] = calls[k]
      BY <1>8, <1>9, <2>3
    <3> QED BY <3>1, <3>2 DEF Packs
  <2>4. R \in Nat /\ L \in Nat
    BY <1>8, <1>9
  <2> HIDE DEF R, L
  <2>5. \/ k = L + 1 /\ i = R + 1 + n
        \/ k \in 1 .. L /\ i \in 1 .. R /\ R - i = 3 * (L - k) + (2 - n)
    BY <2>1, <2>4, WhichPacket
  <2> QED BY <2>2, <2>3, <2>5
<1>12. Stages'
  BY <1>1, <1>2, <1>10 DEF Stages
<1>13. Operands'
  BY <1>10 DEF Operands
<1>14. NoAck'
  BY <1>1, <1>3 DEF NoAck
<1> QED BY <1>2, <1>11, <1>12, <1>13, <1>14, ErrandNext

-----------------------------------------------------------------------------
(* Steps of a call that move no packet.                                    *)

\* The statistics' request is remembered.
LEMMA SyncStatErrand ==
    ASSUME Errand, UNCHANGED <<boardVars, ringVars, history>>, SyncStat
    PROVE  Errand'
<1>1. /\ host = "stat" /\ host' = "cmd_sync" /\ CallsKept /\ BoardRests
      /\ UNCHANGED <<received_payloads, unread, device_packet_recv_state, mem_write_addr_scratch,
                     portVars, found, scratch>>
  BY DEF SyncStat, Goto, RememberRequest, CallsKept, BoardRests, history
<1>2. Up' = Up
  BY <1>1, RestsBytes DEF portVars
<1>3. InCall /\ host' \in {"stat", "cmd_sync"} /\ port_out' = port_out
  BY <1>1 DEF InCall, portVars
<1> QED BY <1>1, <1>2, <1>3, QuietErrand

\* The bytes on their way up move on.
LEMMA BytesErrand ==
    ASSUME Errand, BoardRests, CallsKept, UpBytes' = UpBytes, port_out' = port_out, host' = host,
           UNCHANGED <<received_payloads, unread, device_packet_recv_state, mem_write_addr_scratch>>
    PROVE  Errand'
<1>1. Up' = Up
  BY UpKept
<1>2. CASE InCall
  <2>1. host' \in {"stat", "cmd_sync"}
    BY <1>2 DEF InCall
  <2> QED BY <1>1, <1>2, <2>1, QuietErrand
<1>3. CASE ~InCall
  <2>1. ~InCall'
    BY <1>3 DEF InCall
  <2> QED BY <1>3, <2>1, OutErrand
<1> QED BY <1>2, <1>3

LEMMA ListenErrand ==
    ASSUME TypeOK, Turns, Errand, ListenStep
    PROVE  Errand'
<1>1. /\ BoardRests /\ CallsKept /\ port_out' = port_out /\ host' = host
      /\ UNCHANGED <<received_payloads, unread, device_packet_recv_state, mem_write_addr_scratch>>
  BY DEF ListenStep, BoardRests, CallsKept, implVars, driverVars, history
<1> QED BY <1>1, ListenKeeps, BytesErrand

LEMMA ProcessByteErrand ==
    ASSUME TypeOK, Errand, ProcessStep, ProcessByte
    PROVE  Errand' /\ executed' = executed
<1>1. ~StoresResult
  <2>1. scratch \in Seq(Byte)
    BY BytesShape
  <2> QED BY <2>1 DEF ProcessByte, StoresResult
<1>2. executed' = executed
  BY <1>1 DEF ProcessStep, TypeOK
<1>3. /\ BoardRests /\ CallsKept /\ port_out' = port_out /\ host' = host
      /\ UNCHANGED <<received_payloads, unread, device_packet_recv_state, mem_write_addr_scratch>>
  BY <1>2 DEF ProcessStep, ProcessByte, BoardRests, CallsKept, portVars, driverVars
<1> QED BY <1>2, <1>3, ByteKeeps, BytesErrand

-----------------------------------------------------------------------------
(* A packet sent, and its response read.                                   *)

\* A processor without a command is at no work and asks for nothing.
LEMMA FreeIsIdle ==
    ASSUME CpFree
    PROVE  /\ ~Working
           /\ Place \notin {"CP_MEM_FETCH_END", "CP_MEM_WRITE_VAL_PREP", "CP_MEM_WRITE_END"}
           /\ Place \in {"CP_STOP", "CP_STOP_MODIFIED"} => ~Busy
           /\ ~MemAnswered
BY DEF CpFree, Working, Target, DebugPlaces, MemAnswered

\* The packet goes down; the processor is free and no response is about.
LEMMA SyncSendErrand ==
    ASSUME TypeOK, Turns, Errand, UNCHANGED <<boardVars, ringVars, history>>, SyncSend
    PROVE  Errand'
<1>1. /\ BoardRests /\ host = "sync" /\ host' \in {"stat", "cmd_sync"}
      /\ WritePacket(Request) /\ recorded_commands # <<>> /\ CallsKept
      /\ UNCHANGED <<port_in, implVars, found, recorded_commands, unread>>
  BY DEF BoardRests, SyncSend, Goto, SendRequest, Request, CallsKept, history
<1>2. HostHas
  BY <1>1 DEF Turns, DownHas, CpHas, MemUpHas, MemDownHas, AckUpHas, AckHas, Waiting
<1>3. UpBytes' = UpBytes /\ Up' = Up
  BY <1>1, RestsBytes DEF implVars
<1>4. Request \in Requests
  BY <1>1, NextCommand DEF Request
<1>5. DownHas' /\ Down' = Request
  BY <1>1, <1>2, <1>3, <1>4, SendHas DEF implVars, Waiting
<1>6. Recorded /\ Stages /\ Operands
  BY DEF Errand
<1>7. Stage' = Stage /\ Request' = Request /\ Recorded' /\ Operands'
  BY <1>1, <1>6, RestsWork
<1>8. Stage \in 0 .. 2 /\ executed <= Len(calls)
  BY <1>1, <1>6 DEF Stages
<1>9. InCall' /\ Syncing'
  BY <1>1 DEF InCall, Syncing
<1>10. Stages'
  BY <1>1, <1>7, <1>8, <1>9 DEF Stages, CallsKept
<1>11. CpFree
  BY <1>2 DEF HostHas
<1>12. /\ Place' = Place /\ (Busy' <=> Busy) /\ cp' = cp
  BY <1>1, RestsCp
<1>13. AtWork'
  BY <1>11, <1>12, FreeIsIdle DEF AtWork, Working, Target
<1>14. SendingRight'
  BY <1>11, <1>12, FreeIsIdle DEF SendingRight
<1>15. UpRight' /\ WriteRight'
  BY <1>5, NoTraffic DEF DownHas, FreeUp
<1>16. ~MemAnswered'
  BY <1>11, <1>12, FreeIsIdle DEF MemAnswered
<1>17. DownRight'
  BY <1>5, <1>7, <1>8, <1>16 DEF DownRight
<1>18. AckRight'
  BY <1>5, NoAckFrame DEF DownHas
<1> QED BY <1>7, <1>9, <1>10, <1>13, <1>14, <1>15, <1>17, <1>18, ErrandNext DEF Carried

\* The driver takes the response from one list to the other.
LEMMA ReceiveErrand ==
    ASSUME TypeOK, Turns, Errand, UNCHANGED <<boardVars, ringVars, history>>, Receive
    PROVE  Errand'
<1>1. /\ BoardRests /\ received_payloads # <<>> /\ CallsKept
      /\ unread' = unread \cup {Head(received_payloads)}
      /\ received_payloads' = Tail(received_payloads)
      /\ UNCHANGED <<portVars, scratch, device_packet_recv_state, mem_write_addr_scratch, host, found>>
  BY DEF BoardRests, Receive, CallsKept, history
<1>2. AckHas
  BY <1>1 DEF Turns, HostHas, DownHas, CpHas, MemUpHas, MemDownHas, AckUpHas, NoAck
<1>3. Len(received_payloads) = 1 /\ unread = {}
  BY <1>1, <1>2 DEF AckHas
<1>4. received_payloads' = <<>> /\ unread' = {received_payloads[1]}
  <2>1. received_payloads \in Seq(Packet)
    BY DEF TypeOK, ImplTypeOK
  <2>2. Tail(received_payloads) \in Seq(Packet) /\ Len(Tail(received_payloads)) = 0
        /\ Head(received_payloads) = received_payloads[1]
    BY <1>1, <1>3, <2>1, HeadTailProperties
  <2> QED BY <1>1, <1>3, <2>2, EmptySeq
<1>5. Up' = Up
  BY <1>1, RestsBytes DEF portVars
<1>6. InCall /\ Carried /\ Recorded /\ Stages /\ Operands
  BY <1>1, ErrandParts DEF NoAck
<1>7. /\ Stage' = Stage /\ Request' = Request /\ (Finished' <=> Finished) /\ (CpFree' <=> CpFree)
      /\ Recorded' /\ Operands' /\ AtWork' /\ SendingRight'
  BY <1>1, <1>6, RestsWork DEF Carried
<1>8. UpRight' /\ WriteRight'
  BY <1>1, <1>5, <1>6, RestsUp DEF Carried
<1>9. ~Unanswered'
  BY <1>4 DEF Unanswered, NoAck
<1>10. ~MemAnswered'
  <2>1. CpFree
    BY <1>2 DEF AckHas
  <2>2. Place' = Place /\ (Busy' <=> Busy)
    BY <1>1, RestsCp
  <2> QED BY <2>1, <2>2, FreeIsIdle DEF MemAnswered
<1>11. RightAck(received_payloads[1])
  BY <1>3, <1>6 DEF Carried, AckRight
<1>12. AckRight'
  BY <1>4, <1>7, <1>11 DEF AckRight, RightAck
<1>13. InCall' /\ Stages'
  BY <1>1, <1>6, <1>7 DEF InCall, Stages, Syncing, CallsKept
<1> QED BY <1>7, <1>8, <1>9, <1>10, <1>12, <1>13, ErrandNext DEF Carried, DownRight

\* The packets behind the first.
LEMMA OneFurther ==
    ASSUME NEW R \in Nat \ {0}, NEW L \in Nat, NEW i \in 1 .. R - 1, NEW k \in 1 .. L,
           NEW n \in 0 .. 2, (R - 1) - i = 3 * (L - k) + (2 - n)
    PROVE  i + 1 \in 1 .. R /\ R - (i + 1) = 3 * (L - k) + (2 - n)
<1>1. PICK m \in Int : m = 3 * (L - k) + (2 - n)
  OBVIOUS
<1>2. (R - 1) - i = m
  BY <1>1
<1> QED BY <1>1, <1>2

\* The next packet of the calls.
LEMMA NextStage ==
    ASSUME recorded_commands \in Seq(Packet), recorded_commands # <<>>,
           recorded_commands' = Tail(recorded_commands), UNCHANGED <<calls, executed>>,
           calls \in Seq(Calls), executed \in Nat, Recorded
    PROVE  Stage' = Stage + 1 /\ Current' = Current /\ Recorded'
<1>1. /\ Len(recorded_commands) \in Nat \ {0}
      /\ Len(recorded_commands') = Len(recorded_commands) - 1
      /\ \A i \in 1 .. Len(recorded_commands) - 1 : recorded_commands'[i] = recorded_commands[i + 1]
  BY HeadTailProperties, LenProperties, EmptySeq
<1>2. Len(calls) \in Nat
  OBVIOUS
<1>3. Stage' = Stage + 1
  <2> DEFINE n == 3 * (Len(calls) - executed)
             l == Len(recorded_commands)
  <2>1. n \in Int /\ l \in Int
    BY <1>1, <1>2
  <2>2. Stage = n - l /\ Stage' = n - (l - 1)
    BY <1>1 DEF Stage
  <2> HIDE DEF n, l
  <2> QED BY <2>1, <2>2
<1>4. Current' = Current
  BY DEF Current
<1>5. Recorded'
  <2> DEFINE R == Len(recorded_commands)
             L == Len(calls)
  <2>1. R \in Nat \ {0} /\ L \in Nat
    BY <1>1, <1>2
  <2>2. \A i \in 1 .. R, k \in 1 .. L, n \in 0 .. 2 :
            R - i = 3 * (L - k) + (2 - n) => Packs(i, k, n)
    BY DEF Recorded
  <2>3. Len(recorded_commands') = R - 1 /\ Len(calls') = L
    BY <1>1
  <2> HIDE DEF R, L
  <2>4. ASSUME NEW i \in 1 .. R - 1, NEW k \in 1 .. L, NEW n \in 0 .. 2,
               (R - 1) - i = 3 * (L - k) + (2 - n)
        PROVE  /\ recorded_commands'[i].cmd = calls'[k].cmd
               /\ recorded_commands'[i].sub_cmd = n
               /\ recorded_commands'[i].body = Operand(calls'[k], n)
    <3> DEFINE j == i + 1
    <3>1. j \in 1 .. R /\ R - j = 3 * (L - k) + (2 - n)
      BY <2>1, <2>4, OneFurther
    <3>2. recorded_commands'[i] = recorded_commands[j]
      BY <1>1, <2>1, <2>4 DEF R
    <3> HIDE DEF j
    <3>3. Packs(j, k, n)
      BY <2>2, <2>4, <3>1
    <3> QED BY <3>2, <3>3 DEF Packs
  <2> DEFINE PacksNext(i, k, n) ==
                 /\ recorded_commands'[i].cmd = calls'[k].cmd
                 /\ recorded_commands'[i].sub_cmd = n
                 /\ recorded_commands'[i].body = Operand(calls'[k], n)
  <2>5. \A i \in 1 .. R - 1, k \in 1 .. L, n \in 0 .. 2 :
            (R - 1) - i = 3 * (L - k) + (2 - n) => PacksNext(i, k, n)
    BY <2>4
  <2>6. Recorded' <=> \A i \in 1 .. Len(recorded_commands'), k \in 1 .. Len(calls'), n \in 0 .. 2 :
            Len(recorded_commands') - i = 3 * (Len(calls') - k) + (2 - n) => PacksNext(i, k, n)
    BY Zenon DEF Recorded, Packs, Operand
  <2> HIDE DEF PacksNext
  <2> QED BY <2>3, <2>5, <2>6
<1> QED BY <1>3, <1>4, <1>5

\* cmdSync finds the response and mSync goes on to the next packet.
LEMMA CmdSyncErrand ==
    ASSUME TypeOK, Turns, Errand, UNCHANGED <<boardVars, ringVars, history>>, CmdSync
    PROVE  Errand'
<1>1. /\ BoardRests /\ host = "cmd_sync" /\ host' = "sync"
      /\ \E p \in unread : Finishes(p)
      /\ unread' = {p \in unread : ~Finishes(p)}
      /\ recorded_commands' = Tail(recorded_commands)
      /\ UNCHANGED <<contents, received_payloads, calls, executed>>
  BY DEF BoardRests, CmdSync, Goto, history, implVars
<1>2. AckHas /\ recorded_commands # <<>>
  BY <1>1 DEF Turns, HostHas, DownHas, CpHas, MemUpHas, MemDownHas, AckUpHas, NoAck
<1>3. unread' = {} /\ received_payloads = <<>>
  BY <1>1, <1>2 DEF AckHas
<1>4. Carried /\ Recorded /\ Stages /\ Operands
  BY <1>1, ErrandParts DEF InCall
<1>5. Finished
  BY <1>1, <1>4 DEF Carried, AckRight, RightAck
<1>6. recorded_commands \in Seq(Packet) /\ calls \in Seq(Calls) /\ executed \in Nat
  BY DEF TypeOK
<1>7. Stage' = Stage + 1 /\ Current' = Current /\ Recorded'
  BY <1>1, <1>2, <1>4, <1>6, NextStage
<1>8. Stage \in -1 .. 1 /\ executed <= Len(calls)
  BY <1>4, <1>5 DEF Finished, Stages
<1>9. Stages' /\ ~InCall'
  BY <1>1, <1>7, <1>8 DEF Stages, Syncing, InCall
<1>10. Operands'
  <2>1. cp' = cp /\ contents' = contents
    BY <1>1, RestsCp
  <2> QED BY <1>4, <1>5, <1>7, <1>8, <2>1 DEF Operands, Finished
<1>11. NoAck'
  BY <1>1, <1>3 DEF NoAck
<1> QED BY <1>7, <1>9, <1>10, <1>11, ErrandNext

-----------------------------------------------------------------------------
(* The processing thread takes the oldest packet.                          *)

\* The packets behind the oldest move up.
LEMMA TakesFollows ==
    ASSUME Takes
    PROVE  /\ Follows(Up, Up') /\ Up' \in Seq(Frame)
           /\ 1 \in 1 .. Len(Up) /\ Up' = Tail(Up)
           /\ \A i \in 1 .. Len(Up') : i + 1 \in 1 .. Len(Up) /\ Up'[i] = Up[i + 1]
<1>1. Up \in Seq(Frame) /\ Up # <<>> /\ Up' = Tail(Up)
  BY DEF Takes
<1>2. Follows(Up, Up') /\ Up' \in Seq(Frame)
  BY <1>1, TailFollows
<1> QED BY <1>1, <1>2 DEF Follows

\* Statistics: what the others are stays as it is.
LEMMA StatsUp ==
    ASSUME Takes, CallsKept, Up[1] \in Debugs, UpRight, WriteRight,
           UNCHANGED <<device_packet_recv_state, mem_write_addr_scratch>>
    PROVE  UpRight' /\ WriteRight'
<1>1. /\ Stage' = Stage /\ Request' = Request /\ (Finished' <=> Finished)
  BY RestsWork DEF Takes
<1>2. /\ Place' = Place /\ (Busy' <=> Busy) /\ cp' = cp
  BY RestsCp DEF Takes
<1>3. /\ cp'.tx_cmd_id = cp.tx_cmd_id /\ cp'.mem_fetch_addr = cp.mem_fetch_addr
      /\ cp'.mem_write_addr = cp.mem_write_addr /\ cp'.mem_val = cp.mem_val
  BY <1>2
<1>4. \A i \in 1 .. Len(Up') : i + 1 \in 1 .. Len(Up) /\ Up'[i] = Up[i + 1]
  BY TakesFollows
<1>5. UpRight'
  <2>1. SUFFICES ASSUME NEW i \in 1 .. Len(Up')
                 PROVE  /\ Up'[i] \in Reads /\ Place = "CP_MEM_FETCH_END" =>
                               Up'[i].id = cp.tx_cmd_id /\ Up'[i].body = cp.mem_fetch_addr
                        /\ Up'[i] \in Writes => Stage = 2
                        /\ Up'[i] \in Acks => RightAck(Up'[i])
    BY <1>1, <1>2, <1>3 DEF UpRight, IsRead, RightAck, Reads, Writes, Acks
  <2>2. PICK j \in 1 .. Len(Up) : Up'[i] = Up[j]
    BY <1>4
  <2> QED BY <2>2 DEF UpRight, IsRead
<1>6. (NextIsAddr' <=> NextIsAddr) /\ (ValueSent' <=> ValueSent)
  BY <1>2 DEF NextIsAddr, ValueSent
<1>7. ASSUME NEW i \in 1 .. Len(Up'), Up'[i] \in Writes
      PROVE  /\ Place \in WritePlaces /\ ~ValueSent => IsAddr(Up'[i])
             /\ ValueSent /\ ~NextIsAddr => IsValue(Up'[i])
  <2>1. PICK j \in 1 .. Len(Up) : Up'[i] = Up[j]
    BY <1>4
  <2> QED BY <1>7, <2>1 DEF WriteRight
<1>8. ASSUME NEW i \in 1 .. Len(Up'), NEW l \in 1 .. Len(Up'), i < l, ValueSent, NextIsAddr,
             Up'[i] \in Writes, Up'[l] \in Writes
      PROVE  IsAddr(Up'[i]) /\ IsValue(Up'[l])
  <2>1. /\ i + 1 \in 1 .. Len(Up) /\ l + 1 \in 1 .. Len(Up) /\ i + 1 < l + 1
        /\ Up'[i] = Up[i + 1] /\ Up'[l] = Up[l + 1]
    BY <1>4, <1>8
  <2>2. PICK m \in 1 .. Len(Up), n \in 1 .. Len(Up) : m < n /\ Up'[i] = Up[m] /\ Up'[l] = Up[n]
    BY <2>1
  <2> QED BY <1>8, <2>2 DEF WriteRight
<1>9. WriteRight'
  BY <1>2, <1>3, <1>6, <1>7, <1>8 DEF WriteRight, IsAddr, IsValue, Writes
<1> QED BY <1>5, <1>9

\* The last packet up is not one of statistics while its answer is awaited.
LEMMA StatsNotLast ==
    ASSUME Takes, Somebody, Up[1] \in Debugs, Up' = <<>>
    PROVE  \/ CpFree
           \/ Place \notin {"CP_MEM_FETCH_END", "CP_MEM_WRITE_END"}
           \/ Busy
<1>1. Len(Up) = 1
  BY TakesFollows, EmptyLength DEF Follows
<1>2. Up[1] \notin Reads /\ Up[1] \notin Writes
  BY KindsApart
<1>3. ~MemUpHas
  BY <1>1, <1>2 DEF MemUpHas, StatsThen, StatsThenTwo
<1>4. ~MemDownHas
  BY <1>1, EmptyLength DEF MemDownHas, Takes
<1> QED BY <1>3, <1>4, FreeIsIdle DEF Somebody, HostHas, DownHas, CpHas, AckUpHas, AckHas, Early,
           Late, AfterMem

\* Statistics are logged.
LEMMA StatsErrand ==
    ASSUME Errand, Somebody, Takes, CallsKept, Up[1] \in Debugs, port_out' = port_out, host' = host,
           UNCHANGED <<received_payloads, unread, device_packet_recv_state, mem_write_addr_scratch>>
    PROVE  Errand'
<1>1. CASE ~InCall
  <2>1. ~InCall'
    BY <1>1 DEF InCall
  <2> QED BY <1>1, <2>1, OutErrand DEF Takes
<1>2. CASE InCall
  <2>1. Carried /\ Recorded /\ Stages /\ Operands
    BY <1>2, ErrandParts
  <2>2. /\ Stage' = Stage /\ Request' = Request /\ (Finished' <=> Finished) /\ (CpFree' <=> CpFree)
        /\ Recorded' /\ Operands' /\ AtWork' /\ SendingRight'
    BY <2>1, RestsWork DEF Carried, Takes
  <2>3. UpRight' /\ WriteRight'
    BY <2>1, StatsUp DEF Carried
  <2>4. Down' = Down
    BY RestsDown DEF Takes
  <2>5. Place' = Place /\ (Busy' <=> Busy)
    BY RestsCp DEF Takes
  <2>6. Unanswered' => Unanswered
    <3>1. Follows(Up, Up') /\ Up[1] \notin Acks /\ Up \in Seq(Frame)
      BY TakesFollows, KindsApart DEF Takes
    <3>2. ASSUME NEW i \in 1 .. Len(Up), Up[i] \in Acks
          PROVE  \E j \in 1 .. Len(Up') : Up'[j] \in Acks
      <4>1. i # 1 /\ i - 1 \in 1 .. Len(Up') /\ Up'[i - 1] = Up[i]
        BY <3>1, <3>2 DEF Follows
      <4> QED BY <3>2, <4>1
    <3> QED BY <2>2, <3>2 DEF Unanswered, NoAck, Acks
  <2>7. ~MemAnswered'
    <3>1. MemAnswered' => Up' = <<>> /\ Place \in {"CP_MEM_FETCH_END", "CP_MEM_WRITE_END"} /\ ~Busy
      BY <2>5 DEF MemAnswered
    <3> QED BY <3>1, StatsNotLast, FreeIsIdle
  <2>8. DownRight'
    BY <2>1, <2>2, <2>4, <2>6, <2>7 DEF Carried, DownRight
  <2>9. AckRight'
    BY <2>1, <2>2 DEF Carried, AckRight, RightAck
  <2>10. InCall' /\ Stages'
    BY <1>2, <2>1, <2>2 DEF InCall, Stages, Syncing, CallsKept
  <2> QED BY <2>2, <2>3, <2>8, <2>9, <2>10, ErrandNext DEF Carried
<1> QED BY <1>1, <1>2

\* The response to the command.
LEMMA ResponseErrand ==
    ASSUME TypeOK, Errand, Takes, CallsKept, InCall, AckUpHas, Up[1] \in Acks, StatsOnly(Tail(Up)),
           host' = host, received_payloads' = Append(received_payloads, Up[1]), unread' = unread,
           NextIsAddr'
    PROVE  Errand'
<1>1. Carried /\ Recorded /\ Stages /\ Operands
  BY ErrandParts
<1>2. /\ Stage' = Stage /\ Request' = Request /\ (Finished' <=> Finished)
      /\ Recorded' /\ Operands' /\ AtWork' /\ SendingRight'
  BY <1>1, RestsWork DEF Carried, Takes
<1>3. UpRight' /\ WriteRight'
  BY NoTraffic DEF Takes, StatsOnly, Debugs
<1>4. received_payloads' = <<Up[1]>> /\ unread' = {}
  BY DEF AckUpHas, NoAck
<1>5. RightAck(Up[1])
  BY <1>1, TakesFollows DEF Carried, UpRight
<1>6. AckRight'
  <2>1. \A i \in 1 .. Len(received_payloads') : received_payloads'[i] = Up[1]
    BY <1>4
  <2> QED BY <1>2, <1>4, <1>5, <2>1 DEF AckRight, RightAck
<1>7. ~Unanswered'
  BY <1>4 DEF Unanswered, NoAck
<1>8. ~MemAnswered'
  <2>1. CpFree /\ Place' = Place /\ (Busy' <=> Busy)
    BY RestsCp DEF AckUpHas, Takes
  <2> QED BY <2>1, FreeIsIdle DEF MemAnswered
<1>9. InCall' /\ Stages'
  BY <1>1, <1>2 DEF InCall, Stages, Syncing, CallsKept
<1> QED BY <1>2, <1>3, <1>6, <1>7, <1>8, <1>9, ErrandNext DEF Carried, DownRight

\* What the response that goes down carries.
LEMMA ResponseDown ==
    ASSUME TypeOK, Takes, MemUpHas, NEW p \in Packet, p.cmd = MEMORY, p.sub_cmd \in {MEM_READ, MEM_WRITE},
           NEW v \in Word, Respond(p, v)
    PROVE  Down'.body = v
<1> DEFINE r == Payload(p.id, RESPONSE, p.cmd, p.sub_cmd, v)
<1>1. r \in Packet /\ r.body = v
  BY ResponseIsAnswer DEF Answers, Payload
<1>2. WritePacket(r)
  BY DEF Respond
<1> HIDE DEF r
<1>3. RxTypeOK /\ DownIdle
  BY TypesOf DEF MemUpHas, DownHere
<1>4. Down' = r
  BY <1>1, <1>2, <1>3, RxBegins DEF Takes, BoardRests, boardVars
<1> QED BY <1>1, <1>4

LEMMA NothingUp == StatsOnly(<<>>)
BY DEF StatsOnly

\* A read is answered with what the memory holds.
LEMMA ReadErrand ==
    ASSUME TypeOK, Errand, Takes, CallsKept, InCall, CallsTyped, MemUpHas, Place = "CP_MEM_FETCH_END",
           Up[1] \in Reads, Tail(Up) = <<>>, host' = host, NextIsAddr', ProcessRead(Up[1]),
           UNCHANGED <<received_payloads, unread>>
    PROVE  Errand'
<1>1. Carried /\ Recorded /\ Stages /\ Operands
  BY ErrandParts
<1>2. /\ Stage' = Stage /\ Request' = Request /\ (Finished' <=> Finished) /\ (CpFree' <=> CpFree)
      /\ Recorded' /\ Operands' /\ AtWork' /\ SendingRight'
  BY <1>1, RestsWork DEF Carried, Takes
<1>3. UpRight' /\ WriteRight'
  <2>1. Up' = <<>>
    BY DEF Takes
  <2>2. StatsOnly(Up')
    BY <2>1, NothingUp
  <2> QED BY <2>2, NoTraffic
<1>4. /\ Place' = Place /\ (Busy' <=> Busy) /\ cp' = cp /\ contents' = contents
  BY RestsCp DEF Takes, CallsKept
<1>5. IsRead(Up[1])
  BY <1>1, TakesFollows DEF Carried, UpRight
<1>6. Working
  BY <1>1, WorkingAt DEF Carried, DebugPlaces
<1>7. Fetching
  BY <1>1, <1>6 DEF Carried, AtWork, FetchPlaces
<1>8. Stage \in 0 .. 1
  BY <1>7 DEF Fetching
<1>9. Request.body = Operand(Current, Stage) /\ Current \in Calls
  BY <1>8, RequestIs DEF CallsTyped
<1>10. cp.mem_fetch_addr \in Addr
  <2>1. Current.first \in Addr /\ Current.second \in Addr
    BY <1>9, ApplicationAssumption
  <2>2. Request.body \in Addr
    BY <1>8, <1>9, <2>1 DEF Operand, OP_1, OP_2, OP_3
  <2> QED BY <1>7, <2>2 DEF Fetching
<1>11. PICK v \in MemoryRead(Up[1].body) : Respond(Up[1], v)
  BY DEF ProcessRead
<1>12. v = contents[cp.mem_fetch_addr] /\ v \in Word
  <2>1. contents \in [Addr -> Word]
    BY DEF TypeOK, MemoryTypeOK
  <2> QED BY <1>5, <1>10, <1>11, <2>1 DEF MemoryRead, IsRead
<1>13. Down'.body = v
  BY <1>11, <1>12, ResponseDown DEF Reads
<1>14. ~Unanswered'
  <2>1. ~CpFree
    BY FreeIsIdle
  <2> QED BY <1>2, <2>1 DEF Unanswered
<1>15. DownRight'
  BY <1>4, <1>12, <1>13, <1>14 DEF DownRight, RightAnswer
<1>16. AckRight'
  BY NoAckFrame DEF MemUpHas, NoAck
<1>17. InCall' /\ Stages'
  BY <1>1, <1>2 DEF InCall, Stages, Syncing, CallsKept
<1> QED BY <1>2, <1>3, <1>15, <1>16, <1>17, ErrandNext DEF Carried

\* The first half of a write.
LEMMA AddrErrand ==
    ASSUME TypeOK, Errand, Takes, CallsKept, InCall, NextIsAddr, ~NextIsAddr', Up[1] \in Writes,
           host' = host, mem_write_addr_scratch' = Up[1].body,
           UNCHANGED <<received_payloads, unread>>,
           \/ CpAtWork /\ Group2 /\ Tail(Up) = <<>> /\ CpHas'
           \/ MemUpHas /\ Place = "CP_MEM_WRITE_END" /\ Len(Tail(Up)) = 1 /\ Tail(Up)[1] \in Writes
              /\ MemUpHas'
    PROVE  Errand'
<1>1. Carried /\ Recorded /\ Stages /\ Operands
  BY ErrandParts
<1>2. /\ Stage' = Stage /\ Request' = Request /\ (Finished' <=> Finished) /\ (CpFree' <=> CpFree)
      /\ Recorded' /\ Operands' /\ AtWork' /\ SendingRight'
  BY <1>1, RestsWork DEF Carried, Takes
<1>3. /\ Place' = Place /\ (Busy' <=> Busy) /\ cp' = cp
  BY RestsCp DEF Takes
<1>4. /\ Follows(Up, Up') /\ Up' \in Seq(Frame) /\ 1 \in 1 .. Len(Up) /\ Up' = Tail(Up)
      /\ \A i \in 1 .. Len(Up') : i + 1 \in 1 .. Len(Up) /\ Up'[i] = Up[i + 1]
  BY TakesFollows
<1>5. Stage = 2
  BY <1>1, <1>4 DEF Carried, UpRight
<1>6. ASSUME CpAtWork /\ Group2 /\ Tail(Up) = <<>> /\ CpHas'
      PROVE  UpRight' /\ WriteRight' /\ DownRight' /\ AckRight'
  <2>1. Place \in WritePlaces /\ ~ValueSent
    BY <1>6 DEF Group2, ValueSent, WritePlaces
  <2>2. IsAddr(Up[1])
    BY <1>1, <1>4, <2>1 DEF Carried, WriteRight
  <2>3. UpRight' /\ WriteRight'
    <3>1. Len(Up') = 0
      BY <1>4, <1>6
    <3>2. ~ValueSent'
      BY <1>3, <2>1 DEF ValueSent
    <3> QED BY <1>3, <2>2, <3>1, <3>2 DEF UpRight, WriteRight, IsAddr
  <2> QED BY <1>6, <2>3, CpUndecided
<1>7. ASSUME MemUpHas /\ Place = "CP_MEM_WRITE_END" /\ Len(Tail(Up)) = 1 /\ Tail(Up)[1] \in Writes
             /\ MemUpHas'
      PROVE  UpRight' /\ WriteRight' /\ DownRight' /\ AckRight'
  <2>1. ValueSent
    BY <1>7 DEF MemUpHas, ValueSent
  <2>2. Up'[1] = Up[2] /\ Len(Up') = 1 /\ 2 \in 1 .. Len(Up) /\ Up[2] \in Writes
    <3>1. Len(Up') = 1 /\ Up'[1] \in Writes
      BY <1>4, <1>7
    <3>2. 1 \in 1 .. Len(Up')
      BY <3>1
    <3>3. 1 + 1 \in 1 .. Len(Up) /\ Up'[1] = Up[1 + 1]
      BY <1>4, <3>2
    <3>4. 1 + 1 = 2
      OBVIOUS
    <3> QED BY <3>1, <3>3, <3>4
  <2>3. IsAddr(Up[1]) /\ IsValue(Up[2])
    <3>1. \A i, l \in 1 .. Len(Up) : i < l /\ Up[i] \in Writes /\ Up[l] \in Writes
                                       => IsAddr(Up[i]) /\ IsValue(Up[l])
      BY <1>1, <2>1 DEF Carried, WriteRight
    <3> QED BY <1>4, <2>2, <3>1
  <2>4. UpRight'
    <3>1. \A i \in 1 .. Len(Up') : Up'[i] = Up[2]
      BY <2>2
    <3>2. Up[2] \notin Acks /\ Up[2] \notin Reads
      BY <2>2, KindsApart
    <3> QED BY <1>2, <1>5, <3>1, <3>2 DEF UpRight, Acks, Reads, Writes
  <2>5. WriteRight'
    <3>1. \A i \in 1 .. Len(Up') : Up'[i] = Up[2]
      BY <2>2
    <3>2. ValueSent'
      BY <1>3, <2>1 DEF ValueSent
    <3> QED BY <1>3, <2>3, <3>1, <3>2 DEF WriteRight, IsAddr, IsValue
  <2> QED BY <1>4, <1>7, <2>4, <2>5, MemUpUndecided
<1>8. UpRight' /\ WriteRight' /\ DownRight' /\ AckRight'
  BY <1>6, <1>7
<1>9. InCall' /\ Stages'
  BY <1>1, <1>2 DEF InCall, Stages, Syncing, CallsKept
<1> QED BY <1>2, <1>8, <1>9, ErrandNext DEF Carried

\* The second half of a write is the result of the current call.
Performs ==
    /\ executed + 1 \in 1 .. Len(calls) /\ Current \in Calls
    /\ contents' = [contents EXCEPT ![Current.result] =
           RtlAlu(Current.cmd, contents[Current.first], contents[Current.second])]
    /\ executed' = executed + 1 /\ calls' = calls

LEMMA ResultStored ==
    ASSUME Carried, Operands, CallsTyped, MemUpHas, Place = "CP_MEM_WRITE_END", ~NextIsAddr,
           Up[1] \in Writes, 1 \in 1 .. Len(Up), MemoryWrite(mem_write_addr_scratch, Up[1].body),
           executed' = executed + 1, calls' = calls
    PROVE  Performs /\ Stage = 2
<1>1. ValueSent
  BY DEF MemUpHas, ValueSent
<1>2. IsValue(Up[1]) /\ mem_write_addr_scratch = cp.mem_write_addr
  BY <1>1 DEF Carried, WriteRight
<1>3. Stage = 2
  BY DEF Carried, UpRight
<1>4. Working
  BY WorkingAt DEF Carried, DebugPlaces
<1>5. Writing /\ cp.pkt_cmd = Request.cmd
  BY <1>4 DEF Carried, AtWork, WritePlaces
<1>6. /\ executed + 1 \in 1 .. Len(calls) /\ Current \in Calls
      /\ Request.cmd = Current.cmd /\ Request.body = Operand(Current, Stage)
  BY <1>3, RequestIs DEF CallsTyped
<1>7. Request.body = Current.result
  BY <1>3, <1>6 DEF Operand, OP_1, OP_2, OP_3
<1>8. cp.op_1 = contents[Current.first] /\ cp.op_2 = contents[Current.second]
  BY <1>3 DEF Operands
<1>9. Up[1].body = RtlAlu(Current.cmd, contents[Current.first], contents[Current.second])
  BY <1>2, <1>5, <1>6, <1>8 DEF IsValue, Writing
<1>10. mem_write_addr_scratch = Current.result
  BY <1>2, <1>5, <1>7 DEF Writing
<1> QED BY <1>3, <1>6, <1>9, <1>10 DEF Performs, MemoryWrite

\* After it the call's response is due, and Stage is -1.
LEMMA ValueErrandTaken ==
    ASSUME TypeOK, Errand, Takes, InCall, CallsTyped, MemUpHas, Place = "CP_MEM_WRITE_END",
           Up[1] \in Writes, Tail(Up) = <<>>, host' = host, NextIsAddr', Performs, Stage = 2,
           UNCHANGED <<received_payloads, unread, recorded_commands>>
    PROVE  Errand'
<1>1. Carried /\ Recorded /\ Stages /\ Operands
  BY ErrandParts
<1>2. executed' = executed + 1 /\ calls' = calls /\ executed \in Nat /\ Len(calls) \in Nat
  BY DEF Performs, TypeOK
<1>3. Stage' = -1
  <2> DEFINE l == Len(calls)
             r == Len(recorded_commands)
  <2>1. l \in Nat /\ r \in Nat
    BY <1>2 DEF TypeOK
  <2>2. 3 * (l - executed) - r = 2 /\ Stage' = 3 * (l - executed') - r
    BY <1>2 DEF Stage
  <2> HIDE DEF l, r
  <2> QED BY <1>2, <2>1, <2>2
<1>4. Request' = Request /\ Recorded'
  BY <1>1, <1>2 DEF Request, Recorded, Packs
<1>5. /\ Place' = Place /\ (Busy' <=> Busy) /\ cp' = cp /\ Sending' = Sending
  BY RestsCp DEF Takes
<1>6. executed' <= Len(calls')
  BY <1>2 DEF Performs
<1>7. InCall' /\ Stages'
  BY <1>3, <1>6 DEF InCall, Stages, Syncing
<1>8. Operands'
  BY <1>3 DEF Operands
<1>9. AtWork'
  <2>1. Working
    BY <1>1, WorkingAt DEF Carried, DebugPlaces
  <2>2. /\ Writing /\ cp.pkt_id = Request.id /\ cp.pkt_cmd = Request.cmd
        /\ cp.pkt_sub_cmd = Request.sub_cmd
    BY <1>1, <2>1 DEF Carried, AtWork, WritePlaces
  <2>3. ~Busy' /\ Place' = "CP_MEM_WRITE_END" /\ Target' = "CP_MEM_WRITE_END"
    BY <1>5 DEF MemUpHas, Target, DebugPlaces
  <2>4. Place' \notin Reading \cup FetchPlaces
    BY <2>3 DEF Reading, FetchPlaces
  <2>5. Writing'
    BY <1>4, <1>5, <2>2 DEF Writing
  <2>6. cp'.pkt_id = Request'.id /\ cp'.pkt_cmd = Request'.cmd /\ cp'.pkt_sub_cmd = Request'.sub_cmd
    BY <1>4, <1>5, <2>2
  <2> QED BY <1>3, <2>3, <2>4, <2>5, <2>6 DEF AtWork
<1>10. SendingRight'
  BY <1>1, <1>5 DEF Carried, SendingRight, IsValue
<1>11. UpRight' /\ WriteRight'
  <2>1. Up' = <<>>
    BY DEF Takes
  <2>2. StatsOnly(Up')
    BY <2>1, NothingUp
  <2> QED BY <2>2, NoTraffic
<1>12. ~Unanswered'
  <2>1. ~CpFree
    BY FreeIsIdle
  <2> QED BY <1>5, <2>1 DEF Unanswered, CpFree
<1>13. DownRight'
  BY <1>3, <1>5, <1>12 DEF DownRight, RightAnswer
<1>14. AckRight'
  BY NoAckFrame DEF MemUpHas, NoAck
<1> QED BY <1>4, <1>7, <1>8, <1>9, <1>10, <1>11, <1>13, <1>14, ErrandNext DEF Carried

-----------------------------------------------------------------------------
(* Whatever packet it is.                                                  *)

\* Packets of memory operations come up in a call only.
LEMMA MemoryInCall ==
    ASSUME Turns, Errand, MemUpHas \/ CpAtWork \/ AckUpHas, Listening, Running
    PROVE  InCall
<1>1. Waiting
  BY DEF MemUpHas, CpAtWork, AckUpHas
<1> QED BY <1>1 DEF Waiting, Listening, Running, InCall

\* What taking a packet does to the calls and the memory.
LEMMA ProcessPacketErrand ==
    ASSUME TypeOK, Turns, Errand, Running, ProcessStep, ProcessPacket
    PROVE  /\ Errand'
           /\ \/ CallsKept
              \/ Performs /\ InCall /\ host' = host
<1>1. /\ Arriving = Up[1] /\ Gathered /\ calls' = calls /\ Len(scratch) = 5
      /\ executed' = executed + (IF StoresResult THEN 1 ELSE 0)
      /\ \/ ProcessCommandResponse(Up[1])
         \/ ProcessRead(Up[1])
         \/ ProcessWriteAddr(Up[1])
         \/ ProcessWriteVal(Up[1])
         \/ ProcessDebugRequest(Up[1])
         \/ ProcessDebugResponse(Up[1])
  BY PacketGathered
<1>2. Somebody /\ CommandsRecorded
  BY TurnsIs
<1>3. /\ Takes /\ Listening /\ host' = host /\ unread' = unread
      /\ recorded_commands' = recorded_commands
  BY <1>1 DEF Gathered, driverVars
<1>4. executed \in Nat /\ recorded_commands \in Seq(Packet) /\ calls \in Seq(Calls)
  BY DEF TypeOK
<1>5. Up[1].cmd # MEMORY \/ Up[1].sub_cmd # MEM_WRITE \/ NextIsAddr => executed' = executed
  BY <1>1, <1>4 DEF StoresResult, NextIsAddr
<1>6. InCall => CallsTyped
  BY <1>2, <1>4 DEF CallsTyped, InCall, CommandsRecorded, Errand
<1>7. Up \in Seq(Frame) /\ Up # <<>> /\ Up' = Tail(Up)
  BY <1>3 DEF Takes
<1>8. CASE ProcessDebugRequest(Up[1]) \/ ProcessDebugResponse(Up[1])
  <2>1. /\ Up[1].cmd = MEMORY /\ Up[1].sub_cmd = DEBUG
        /\ UNCHANGED <<port_out, contents, device_packet_recv_state, mem_write_addr_scratch,
                       received_payloads>>
    BY <1>8 DEF ProcessDebugRequest, ProcessDebugResponse
  <2>2. CallsKept
    BY <1>1, <1>3, <1>5, <2>1 DEF CallsKept, DEBUG, MEM_WRITE
  <2>3. Up[1] \notin Reads /\ Up[1] \notin Writes /\ Up[1] \notin Acks
    BY <2>1 DEF Reads, Writes, Acks, DEBUG, MEM_READ, MEM_WRITE
  <2>4. Up[1] \in Debugs
    BY <1>2, <1>7, <2>3, FirstUp
  <2> QED BY <1>2, <1>3, <2>1, <2>2, <2>4, StatsErrand
<1>9. CASE ProcessCommandResponse(Up[1])
  <2>1. /\ Up[1].cmd # MEMORY /\ received_payloads' = Append(received_payloads, Up[1])
        /\ UNCHANGED <<port_out, contents, device_packet_recv_state, mem_write_addr_scratch>>
    BY <1>9 DEF ProcessCommandResponse
  <2>2. CallsKept
    BY <1>1, <1>3, <1>5, <2>1 DEF CallsKept
  <2>3. Up[1] \notin Debugs /\ Up[1] \notin Reads /\ Up[1] \notin Writes
    BY <2>1 DEF Debugs, Reads, Writes
  <2>4. AckUpHas /\ Up[1] \in Acks /\ StatsOnly(Tail(Up))
    BY <1>2, <1>7, <2>3, FirstUp
  <2>5. InCall /\ NextIsAddr'
    BY <1>3, <2>1, <2>4, MemoryInCall DEF AckUpHas, NextIsAddr
  <2> QED BY <1>3, <2>1, <2>2, <2>4, <2>5, ResponseErrand
<1>10. CASE ProcessRead(Up[1])
  <2>1. /\ Up[1].cmd = MEMORY /\ Up[1].sub_cmd = MEM_READ
        /\ UNCHANGED <<contents, device_packet_recv_state, received_payloads>>
    BY <1>10 DEF ProcessRead
  <2>2. CallsKept
    BY <1>1, <1>3, <1>5, <2>1 DEF CallsKept, MEM_READ, MEM_WRITE
  <2>3. Up[1] \notin Debugs /\ Up[1] \notin Acks /\ Up[1] \notin Writes
    BY <2>1 DEF Debugs, Acks, Writes, DEBUG, MEM_READ, MEM_WRITE
  <2>4. MemUpHas /\ Place = "CP_MEM_FETCH_END" /\ NextIsAddr /\ Up[1] \in Reads /\ Tail(Up) = <<>>
    BY <1>2, <1>7, <2>3, FirstUp
  <2>5. InCall /\ NextIsAddr'
    BY <1>3, <2>1, <2>4, MemoryInCall DEF NextIsAddr
  <2> QED BY <1>3, <1>6, <1>10, <2>1, <2>2, <2>4, <2>5, ReadErrand
<1>11. CASE ProcessWriteAddr(Up[1])
  <2>1. /\ Up[1].cmd = MEMORY /\ Up[1].sub_cmd = MEM_WRITE /\ NextIsAddr /\ ~NextIsAddr'
        /\ mem_write_addr_scratch' = Up[1].body /\ device_packet_recv_state' = "VAL_RECV"
        /\ UNCHANGED <<port_out, contents, received_payloads>>
    BY <1>11 DEF ProcessWriteAddr, NextIsAddr
  <2>2. CallsKept
    BY <1>1, <1>3, <1>5, <2>1 DEF CallsKept
  <2>3. Up[1] \notin Debugs /\ Up[1] \notin Acks /\ Up[1] \notin Reads
    BY <2>1 DEF Debugs, Acks, Reads, DEBUG, MEM_READ, MEM_WRITE
  <2>4. /\ Up[1] \in Writes
        /\ \/ CpAtWork /\ Group2 /\ Tail(Up) = <<>>
           \/ /\ MemUpHas /\ Place = "CP_MEM_WRITE_END" /\ Len(Tail(Up)) = 1 /\ Tail(Up)[1] \in Writes
    BY <1>2, <1>7, <2>1, <2>3, FirstUp
  <2>5. CpAtWork /\ Group2 /\ Tail(Up) = <<>> => CpHas'
    BY <1>3, <2>1, AddrTakenEarly
  <2>6. MemUpHas /\ Place = "CP_MEM_WRITE_END" /\ Len(Tail(Up)) = 1 /\ Tail(Up)[1] \in Writes
            => MemUpHas'
    BY <1>3, <2>1, AddrTakenLate
  <2>7. InCall
    BY <1>3, <2>4, MemoryInCall
  <2> QED BY <1>3, <2>1, <2>2, <2>4, <2>5, <2>6, <2>7, AddrErrand
<1>12. CASE ProcessWriteVal(Up[1])
  <2>1. /\ Up[1].cmd = MEMORY /\ Up[1].sub_cmd = MEM_WRITE /\ ~NextIsAddr /\ NextIsAddr'
        /\ MemoryWrite(mem_write_addr_scratch, Up[1].body)
        /\ UNCHANGED <<received_payloads>>
    BY <1>12 DEF ProcessWriteVal, NextIsAddr
  <2>2. executed' = executed + 1
    <3>1. device_packet_recv_state = "VAL_RECV"
      BY <1>12 DEF ProcessWriteVal
    <3> QED BY <1>1, <2>1, <3>1 DEF StoresResult
  <2>3. Up[1] \notin Debugs /\ Up[1] \notin Acks /\ Up[1] \notin Reads
    BY <2>1 DEF Debugs, Acks, Reads, DEBUG, MEM_READ, MEM_WRITE
  <2>4. MemUpHas /\ Place = "CP_MEM_WRITE_END" /\ Up[1] \in Writes /\ Tail(Up) = <<>>
    BY <1>2, <1>7, <2>1, <2>3, FirstUp
  <2>5. InCall
    BY <1>3, <2>4, MemoryInCall
  <2>6. Carried /\ Operands /\ 1 \in 1 .. Len(Up)
    BY <1>3, <2>5, ErrandParts, TakesFollows
  <2>7. Performs /\ Stage = 2
    BY <1>1, <1>6, <2>1, <2>2, <2>4, <2>5, <2>6, ResultStored
  <2> QED BY <1>3, <1>6, <2>1, <2>4, <2>5, <2>7, ValueErrandTaken
<1> QED BY <1>1, <1>8, <1>9, <1>10, <1>11, <1>12

-----------------------------------------------------------------------------
(* Errand is inductive.                                                    *)

\* Nothing is recorded, nothing is under way.
LEMMA InitErrand == Init => Errand
<1> SUFFICES ASSUME Init PROVE Errand
  OBVIOUS
<1>1. /\ host = "start" /\ recorded_commands = <<>> /\ calls = <<>> /\ executed = 0
      /\ unread = {} /\ received_payloads = <<>>
  BY DEF Init, ImplInit
<1>2. Len(recorded_commands) = 0 /\ Len(calls) = 0
  BY <1>1
<1>3. Stage = 0
  BY <1>1, <1>2 DEF Stage
<1>4. Recorded
  BY <1>2 DEF Recorded
<1>5. Stages /\ Operands /\ ~InCall
  BY <1>1, <1>2, <1>3 DEF Stages, Operands, InCall
<1>6. NoAck
  BY <1>1 DEF NoAck
<1> QED BY <1>4, <1>5, <1>6 DEF Errand

\* Every step keeps it.
LEMMA NextErrand ==
    ASSUME TypeOK, Turns, Errand, [Next]_vars
    PROVE  Errand'
<1>1. CASE HostStep(AppStep)
  <2>1. UNCHANGED <<boardVars, ringVars>>
    BY <1>1 DEF HostStep
  <2>2. CASE \E c \in Calls : RecordCall(c)
    BY <2>1, <2>2, RecordErrand
  <2>3. CASE /\ (\E v \in Vals : NewMInt(v)) \/ (\E a \in Addr, v \in Vals : SetValue(a, v))
             /\ UNCHANGED history
    BY <2>1, <2>3, ValueErrand
  <2>4. CASE MSync /\ UNCHANGED history
    BY <2>1, <2>4, FindErrand
  <2> QED BY <1>1, <2>2, <2>3, <2>4 DEF HostStep, AppStep
<1>2. CASE HostStep(LibraryStep)
  <2>1. UNCHANGED <<boardVars, ringVars, history>> /\ LibraryStep
    BY <1>2 DEF HostStep, LibraryStep
  <2> QED BY <2>1, FindErrand, SyncReturnErrand, SyncSendErrand, SyncStatErrand, CmdSyncErrand
         DEF LibraryStep
<1>3. CASE HostStep(FindTimeout /\ UNCHANGED history)
  BY <1>3, FindErrand DEF HostStep
<1>4. CASE HostStep(Receive /\ UNCHANGED history)
  BY <1>4, ReceiveErrand DEF HostStep
<1>5. CASE ListenStep
  BY <1>5, ListenErrand
<1>6. CASE Running /\ ProcessStep
  BY <1>6, ProcessByteErrand, ProcessPacketErrand DEF ProcessStep
<1>7. CASE BoardStep
  BY <1>7, BoardErrand
<1>8. CASE UNCHANGED vars
  <2>1. /\ UNCHANGED <<boardVars, portVars, ringVars, contents, implVars>>
        /\ UNCHANGED <<driverVars, history>>
    BY <1>8 DEF vars
  <2>2. UpBytes' = UpBytes
    BY <2>1, RestsBytes DEF portVars, implVars, driverVars
  <2> QED BY <2>1, <2>2, BytesErrand
         DEF BoardRests, CallsKept, portVars, implVars, driverVars, history
<1> QED BY <1>1, <1>2, <1>3, <1>4, <1>5, <1>6, <1>7, <1>8 DEF Next, Terminated

\* Whatever packet is under way, and whatever the processor has in its registers,
\* is what the call at hand asks for: the strengthening behind the theorems below,
\* inductive with TypeOK and Turns.
THEOREM SerialErrand == Spec => [](TypeOK /\ Turns /\ Errand)
<1>1. Init => TypeOK /\ Turns /\ Errand
  BY InitTypeOK, InitTurns, InitErrand
<1>2. TypeOK /\ Turns /\ Errand /\ [Next]_vars => (TypeOK /\ Turns /\ Errand)'
  BY NextTurns, NextErrand
<1> QED BY <1>1, <1>2, PTL DEF Spec

\* A response that cmdSync (matrix.cpp:166-183) finds answers the packet mSync
\* waits for: none is left from an earlier packet with the same id.
THEOREM SerialNoStaleAnswer == Spec => []UnreadIsAwaited
<1>1. ASSUME Errand PROVE UnreadIsAwaited
  <2>1. SUFFICES ASSUME NEW p \in unread
                 PROVE  /\ host \in {"stat", "cmd_sync"}
                        /\ p.id = Head(recorded_commands).id
                        /\ p.cmd = Head(recorded_commands).cmd
                        /\ p.sub_cmd = Head(recorded_commands).sub_cmd
    BY DEF UnreadIsAwaited
  <2>2. InCall
    BY <1>1, <2>1 DEF Errand, NoAck
  <2>3. RightAck(p)
    BY <1>1, <2>1, <2>2 DEF Errand, AckRight
  <2> QED BY <2>2, <2>3 DEF RightAck, InCall, Request
<1> QED BY <1>1, SerialErrand, PTL

-----------------------------------------------------------------------------
(* The host and the board implement MatrixAccelerator.                     *)

LEMMA SerialAcceleratorInit == Init => Accelerator!Init
BY DEF Init, MemoryInit, Syncing, Accelerator!Init

\* The application: a call is recorded, an integer gets a value, mSync starts.
LEMMA AppImplements ==
    ASSUME AppStep
    PROVE  [Accelerator!Next]_(Accelerator!accelVars)
<1>0. ~Syncing
  BY DEF AppStep, RecordCall, Record, NewMInt, SetValue, MSync, Goto, Syncing
<1>1. CASE \E c \in Calls : RecordCall(c)
  <2>1. PICK c \in Calls : RecordCall(c)
    BY <1>1
  <2>2. calls' = Append(calls, c) /\ UNCHANGED <<contents, executed, host>>
    BY <2>1 DEF RecordCall, Record
  <2>3. c \in Accelerator!Call
    BY ApplicationAssumption DEF Accelerator!Call
  <2>4. Accelerator!RecordCall(c)
    BY <1>0, <2>2 DEF Accelerator!RecordCall, Syncing
  <2> QED BY <2>3, <2>4 DEF Accelerator!Next
<1>2. CASE /\ (\E v \in Vals : NewMInt(v)) \/ (\E a \in Addr, v \in Vals : SetValue(a, v))
           /\ UNCHANGED history
  <2>1. PICK a \in Addr, v \in Word : contents' = [contents EXCEPT ![a] = v]
    BY <1>2, ApplicationAssumption DEF NewMInt, SetValue, AllocateAndWrite, MemoryWrite
  <2>2. UNCHANGED <<calls, executed, host>>
    BY <1>2 DEF NewMInt, SetValue, history, driverVars
  <2>3. Accelerator!Store(a, v)
    BY <1>0, <2>1, <2>2 DEF Accelerator!Store, Syncing
  <2> QED BY <2>1, <2>3 DEF Accelerator!Next
<1>3. CASE MSync /\ UNCHANGED history
  <2>1. host' = "sync" /\ UNCHANGED <<contents, calls, executed>>
    BY <1>3 DEF MSync, Goto, history
  <2>2. Accelerator!BeginSync
    BY <1>0, <2>1 DEF Accelerator!BeginSync, Syncing
  <2> QED BY <2>2 DEF Accelerator!Next
<1> QED BY <1>1, <1>2, <1>3 DEF AppStep

\* mSync returns when every recorded call is performed.
LEMMA LibraryImplements ==
    ASSUME TypeOK, Errand, HostStep(LibraryStep)
    PROVE  [Accelerator!Next]_(Accelerator!accelVars)
<1>1. UNCHANGED <<boardVars, ringVars, history>> /\ LibraryStep
  BY DEF HostStep, LibraryStep
<1>2. UNCHANGED <<contents, calls, executed>>
  BY <1>1 DEF LibraryStep, Find, FindByte, FindAnswer, FindReads, SyncReturn, SyncSend, SyncStat,
              CmdSync, SendRequest, RememberRequest, history
<1>3. CASE SyncReturn
  <2>1. host = "sync" /\ host' = "app"
    BY <1>3 DEF SyncReturn, Goto
  <2>2. executed = Len(calls)
    BY <1>1, <1>3, SyncReturnErrand
  <2>3. Accelerator!EndSync
    BY <1>2, <2>1, <2>2 DEF Accelerator!EndSync, Syncing
  <2> QED BY <2>3 DEF Accelerator!Next
<1>4. CASE ~SyncReturn
  <2>1. Syncing' = Syncing
    BY <1>1, <1>4 DEF LibraryStep, Find, FindByte, FindAnswer, FindReads, SyncSend, SyncStat,
                      CmdSync, Goto, Syncing
  <2> QED BY <1>2, <2>1 DEF Accelerator!accelVars
<1> QED BY <1>3, <1>4

\* The second half of a memory write performs the next call.
LEMMA ProcessImplements ==
    ASSUME TypeOK, Turns, Errand, Running, ProcessStep
    PROVE  [Accelerator!Next]_(Accelerator!accelVars)
<1>1. host' = host /\ calls' = calls
  BY DEF ProcessStep, driverVars
<1>2. CASE ProcessByte
  <2>1. executed' = executed
    BY <1>2, ProcessByteErrand
  <2>2. contents' = contents
    BY <1>2 DEF ProcessByte
  <2> QED BY <1>1, <2>1, <2>2 DEF Accelerator!accelVars, Syncing
<1>3. CASE ProcessPacket
  <2>1. CallsKept \/ (Performs /\ InCall)
    BY <1>3, ProcessPacketErrand
  <2>2. CASE CallsKept
    BY <1>1, <2>2 DEF CallsKept, Accelerator!accelVars, Syncing
  <2>3. CASE Performs /\ InCall
    <3>1. executed < Len(calls)
      <4>1. executed \in Nat /\ Len(calls) \in Nat
        BY DEF TypeOK
      <4> QED BY <2>3, <4>1 DEF Performs
    <3>2. Accelerator!Execute
      BY <1>1, <2>3, <3>1 DEF Performs, Current, InCall, Accelerator!Execute, Syncing
    <3> QED BY <3>2 DEF Accelerator!Next
  <2> QED BY <2>1, <2>2, <2>3
<1> QED BY <1>2, <1>3 DEF ProcessStep

\* Each step is a step of MatrixAccelerator or leaves it as it is.
LEMMA StepImplements ==
    TypeOK /\ Turns /\ Errand /\ [Next]_vars => [Accelerator!Next]_(Accelerator!accelVars)
<1> SUFFICES ASSUME TypeOK, Turns, Errand, [Next]_vars
             PROVE  [Accelerator!Next]_(Accelerator!accelVars)
  OBVIOUS
<1>1. CASE HostStep(AppStep)
  BY <1>1, AppImplements DEF HostStep
<1>2. CASE HostStep(LibraryStep)
  BY <1>2, LibraryImplements
<1>3. CASE Running /\ ProcessStep
  BY <1>3, ProcessImplements
<1>4. CASE \/ HostStep(FindTimeout /\ UNCHANGED history) \/ HostStep(Receive /\ UNCHANGED history)
           \/ ListenStep \/ BoardStep \/ UNCHANGED vars
  <2>1. UNCHANGED <<contents, calls, executed>> /\ (Syncing' = Syncing)
    BY <1>4 DEF HostStep, FindTimeout, Goto, Receive, ListenStep, BoardStep, driverVars, history,
                vars, Syncing
  <2> QED BY <2>1 DEF Accelerator!accelVars
<1> QED BY <1>1, <1>2, <1>3, <1>4 DEF Next, Terminated

\* The application gets from the board what it gets from the functional model:
\* every call is performed once, in order, on what the calls before it left, all
\* of them before mSync (matrix.cpp:185-202) returns, and nothing else writes the
\* memory; in release and in debug builds.
THEOREM SerialImplementsAccelerator == Spec => ImplementsAccelerator
<1>1. TypeOK /\ Turns /\ Errand /\ [Next]_vars
        => [Accelerator!Next]_(Accelerator!accelVars)
  BY StepImplements
<1> QED BY <1>1, SerialAcceleratorInit, SerialErrand, PTL
        DEF Spec, ImplementsAccelerator, Accelerator!Spec

-----------------------------------------------------------------------------
(* Remembering: what the statistics are about.                             *)

\* Where the processor goes after its statistics tells what they are about.
LEMMA StatisticsType ==
    ASSUME cp \in CpRecord, CpClock, DEVICE_DEBUG
    PROVE  /\ cp.state = "CP_STOP" => cp' = cp \/ cp'.debug_pkt_type = REQUEST
           /\ cp.state = "CP_DEBUG_WRITE_WAIT_PREP" => cp' = cp \/ cp'.debug_pkt_type = RESPONSE
           /\ cp.state = "CP_STOP" => KeepsTag
           /\ cp.state = "CP_STOP_MODIFIED" /\ rx_packet_ready # 0 => cp' = cp
<1>1. cp.state = "CP_STOP" => CpStop
  BY CpAt DEF At
<1>2. cp.state = "CP_DEBUG_WRITE_WAIT_PREP" => CpDebugWriteWaitPrep
  BY CpAt DEF At
<1>3. cp.state = "CP_STOP_MODIFIED" => CpNextCommand
  BY CpAt DEF At
<1>4. cp.state = "CP_STOP" => KeepsTag /\ (cp' = cp \/ cp'.debug_pkt_type = REQUEST)
  BY <1>1 DEF CpStop, Statistics, commandProcessorVars, CpRecord, KeepsTag
<1>5. cp.state = "CP_DEBUG_WRITE_WAIT_PREP" => cp' = cp \/ cp'.debug_pkt_type = RESPONSE
  BY <1>2 DEF CpDebugWriteWaitPrep, Statistics, commandProcessorVars, CpRecord
<1>6. cp.state = "CP_STOP_MODIFIED" /\ rx_packet_ready # 0 => cp' = cp
  BY <1>3 DEF CpNextCommand, Registers
<1> QED BY <1>4, <1>5, <1>6

\* The three cases of the invariant.
Forgotten == ~StatsDue /\ last_response_pkt = <<>> /\ NoStats

Awaited == StatsDue /\ Remembered /\ NoStats

OnTheirWay == ~StatsDue /\ Remembered /\ StatsUnderWay

\* The invariant in these terms.
LEMMA RememberingIs ==
    ASSUME DEVICE_DEBUG
    PROVE  Remembering <=> StatsPrepared /\ (Forgotten \/ Awaited \/ OnTheirWay)
BY DEF Remembering, Forgotten, Awaited, OnTheirWay

LEMMA RememberingNext ==
    ASSUME DEVICE_DEBUG, StatsPrepared', Forgotten' \/ Awaited' \/ OnTheirWay'
    PROVE  Remembering'
BY DEF Remembering, Forgotten, Awaited, OnTheirWay

\* Statistics are due between the host's answer and the packet about it.
LEMMA DueWhen ==
    ASSUME StatsDue, Somebody, CpPlaces
    PROVE  /\ MemDownHas \/ (CpAtWork /\ Group3)
           /\ Up = <<>> /\ NextIsAddr
<1>1. CASE MemAnswered
  <2>1. ~HostHas /\ ~DownHas /\ ~AckUpHas /\ ~AckHas
    BY <1>1, FreeIsIdle DEF HostHas, DownHas, AckUpHas, AckHas
  <2>2. ~CpHas
    BY <1>1 DEF MemAnswered, CpHas, Early, Late, AfterMem, Busy
  <2>3. ~MemUpHas
    BY <1>1 DEF MemAnswered, MemUpHas, StatsThen, StatsThenTwo
  <2> QED BY <1>1, <2>1, <2>2, <2>3 DEF Somebody, MemAnswered
<1>2. CASE ~MemAnswered
  <2>1. /\ Place \in DebugPlaces /\ AboutMemory
        /\ Place = "CP_DEBUG_WRITE_RESTORE" => Busy
    BY <1>2 DEF StatsDue, DebugPlaces
  <2>2. ~CpFree
    BY <2>1 DEF CpFree, DebugPlaces, AboutMemory, AfterMem
  <2>3. CpAtWork /\ Group3
    BY <2>1, <2>2 DEF Somebody, HostHas, DownHas, AckUpHas, AckHas, MemUpHas, MemDownHas, CpHas,
                      CpAtWork, Group3, DebugPlaces, Early, Late, AfterMem
  <2> QED BY <2>3 DEF Group3
<1> QED BY <1>1, <1>2

\* They are under way until the response is behind them.
LEMMA UnderWayWhen ==
    ASSUME ResponseDue, Somebody, CpPlaces, Up \in Seq(Frame), Up # <<>>
    PROVE  AckUpHas \/ (CpAtWork /\ Group4)
<1>1. ASSUME StatsOnly(Up) PROVE \A i \in 1 .. Len(Up) : Up[i] \notin Acks
  BY <1>1, KindsApart DEF StatsOnly
<1>2. ASSUME CpFree, StatsOnly(Up) PROVE FALSE
  <2>1. Target \notin Late
    BY <1>2 DEF CpFree, Target, DebugPlaces, Late, AfterMem
  <2>2. ~(Place \in {"CP_STOP", "CP_STOP_MODIFIED"} /\ Busy)
    BY <1>2 DEF CpFree
  <2> QED BY <1>1, <1>2, <2>1, <2>2 DEF ResponseDue
<1>3. ~HostHas /\ ~DownHas /\ ~AckHas
  BY <1>2 DEF HostHas, DownHas, AckHas, FreeUp
<1>4. ASSUME Place \notin DebugPlaces, Place \notin Late,
             Place \notin {"CP_STOP", "CP_STOP_MODIFIED"},
             \A i \in 1 .. Len(Up) : Up[i] \notin Acks
      PROVE  FALSE
  BY <1>4 DEF ResponseDue, Target
<1>5. ~MemDownHas
  <2>1. ASSUME MemDownHas PROVE FALSE
    <3>1. Up = <<>> /\ Len(Up) = 0
      BY <2>1 DEF MemDownHas
    <3>2. \A i \in 1 .. Len(Up) : Up[i] \notin Acks
      BY <3>1
    <3> QED BY <1>4, <2>1, <3>2 DEF MemDownHas, DebugPlaces, Late, AfterMem
  <2> QED BY <2>1
<1>6. ~MemUpHas
  <2>1. ASSUME MemUpHas PROVE FALSE
    <3>1. Len(Up) \in Nat
      OBVIOUS
    <3>2. \A i \in 1 .. Len(Up) : Up[i] \in Reads \/ Up[i] \in Writes \/ Up[i] \in Debugs
      BY <2>1, <3>1 DEF MemUpHas, StatsThen, StatsThenTwo
    <3>3. \A i \in 1 .. Len(Up) : Up[i] \notin Acks
      BY <3>2, KindsApart
    <3> QED BY <1>4, <2>1, <3>3 DEF MemUpHas, DebugPlaces, Late, AfterMem
  <2> QED BY <2>1
<1>7. ASSUME CpHas PROVE CpAtWork /\ Group4
  <2>1. CpAtWork /\ (Group1 \/ Group2 \/ Group3 \/ Group4)
    BY <1>7, CpHasIs
  <2>2. ~Group1
    <3>1. ASSUME Group1 PROVE FALSE
      <4>1. \A i \in 1 .. Len(Up) : Up[i] \notin Acks
        BY <1>1, <3>1 DEF Group1
      <4> QED BY <1>4, <3>1, <4>1 DEF Group1, Early, DebugPlaces, Late, AfterMem
    <3> QED BY <3>1
  <2>3. ~Group2
    <3>1. ASSUME Group2 PROVE FALSE
      <4>1. \A i \in 1 .. Len(Up) : Up[i] \in Writes \/ Up[i] \in Debugs
        <5>1. Len(Up) \in Nat /\ (Up = <<>> => Len(Up) = 0)
          OBVIOUS
        <5> QED BY <3>1, <5>1 DEF Group2, AddrUp, StatsThen
      <4>2. \A i \in 1 .. Len(Up) : Up[i] \notin Acks
        BY <4>1, KindsApart
      <4> QED BY <1>4, <3>1, <4>2 DEF Group2, DebugPlaces, Late, AfterMem
    <3> QED BY <3>1
  <2> QED BY <2>1, <2>2, <2>3 DEF Group3
<1> QED BY <1>3, <1>5, <1>6, <1>7 DEF Somebody

\* A clock of the board of a debug build.
DebugBoard == Stepped /\ DEVICE_DEBUG /\ last_response_pkt' = last_response_pkt

\* What the statistics of a place are about follows from the way there.
LEMMA PreparedStays ==
    ASSUME DebugBoard, StatsPrepared, Same \/ PacketUp
    PROVE  StatsPrepared' /\ (AboutMemory' <=> AboutMemory)
<1>1. SameData /\ Place' = Place /\ Sending' = Sending
  BY StayingKeeps DEF DebugBoard, Stepped
<1>2. cp'.debug_pkt_type = cp.debug_pkt_type /\ cp'.debug_restore_state = cp.debug_restore_state
  BY <1>1 DEF SameData, KeepsType, SameReturns
<1> QED BY <1>1, <1>2 DEF StatsPrepared, AboutMemory

\* Elsewhere there are none.
LEMMA PreparedElsewhere ==
    ASSUME Place' \notin {"CP_DEBUG_WRITE_WAIT", "CP_DEBUG_WRITE_RESTORE"}
    PROVE  StatsPrepared'
BY DEF StatsPrepared

\* The statistics of a command begin.
LEMMA PreparedCommand ==
    ASSUME DebugBoard, Place = "CP_STOP", cp.state = Place, To("CP_DEBUG_WRITE_WAIT"),
           cp'.debug_restore_state = "CP_STOP_MODIFIED"
    PROVE  StatsPrepared' /\ ~AboutMemory' /\ KeepsTag
<1>1. cp' # cp
  BY DEF To, Place
<1>2. cp'.debug_pkt_type = REQUEST /\ KeepsTag
  BY <1>1, StatisticsType DEF DebugBoard, Stepped, Clocked
<1>3. Place' = "CP_DEBUG_WRITE_WAIT"
  BY DEF To
<1>4. ~AboutMemory'
  BY DEF AboutMemory, AfterMem
<1> QED BY <1>2, <1>3, <1>4 DEF StatsPrepared, REQUEST, RESPONSE

\* Those of a memory operation begin.
LEMMA PreparedMemory ==
    ASSUME DebugBoard, Place = "CP_DEBUG_WRITE_WAIT_PREP", cp.state = Place, AboutMemory,
           To("CP_DEBUG_WRITE_WAIT"), cp'.debug_restore_state = cp.debug_restore_state
    PROVE  StatsPrepared' /\ AboutMemory'
<1>1. cp' # cp
  BY DEF To, Place
<1>2. cp'.debug_pkt_type = RESPONSE
  BY <1>1, StatisticsType DEF DebugBoard, Stepped, Clocked
<1>3. Place' = "CP_DEBUG_WRITE_WAIT"
  BY DEF To
<1>4. AboutMemory'
  BY DEF AboutMemory
<1> QED BY <1>2, <1>3, <1>4 DEF StatsPrepared

\* Their packet is announced.
LEMMA PreparedPacket ==
    ASSUME DebugBoard, StatsPrepared, Place = "CP_DEBUG_WRITE_WAIT", cp.state = Place,
           Announces(Debugs, "CP_DEBUG_WRITE_RESTORE")
    PROVE  StatsPrepared' /\ (AboutMemory' <=> AboutMemory) /\ KeepsTag
<1>1. RegisterFrame
  BY RegistersKept DEF DebugBoard, Stepped, Clocked
<1>2. KeepsType /\ KeepsTag
  BY <1>1 DEF RegisterFrame
<1>3. Sending' = Payload(cp.pkt_id, cp.debug_pkt_type, MEMORY, DEBUG, 0)
  BY PacketAnnounced DEF DebugBoard, Stepped, Clocked
<1>4. Sending'.type = cp.debug_pkt_type
  BY <1>3 DEF Payload
<1>5. Place' = "CP_DEBUG_WRITE_RESTORE" /\ cp'.debug_restore_state = cp.debug_restore_state
  BY DEF Announces, SameReturns
<1>6. AboutMemory' <=> AboutMemory
  BY <1>5 DEF AboutMemory
<1> QED BY <1>2, <1>4, <1>5, <1>6 DEF StatsPrepared, KeepsType

\* How the three cases go on.
NoNews == Up' = Up \/ (Up' = Append(Up, Sending) /\ Sending \notin MemoryStats)

\* A packet of another kind comes behind.
LEMMA NoNewStats ==
    ASSUME Up \in Seq(Frame), Sending \in Frame, NoNews
    PROVE  /\ NoStats => NoStats'
           /\ StatsFirst => StatsFirst'
           /\ (\E i \in 1 .. Len(Up) : Up[i] \in Acks) => (\E i \in 1 .. Len(Up') : Up'[i] \in Acks)
<1>1. CASE Up' = Up
  BY <1>1 DEF NoStats, StatsFirst
<1>2. CASE Up' = Append(Up, Sending) /\ Sending \notin MemoryStats
  <2>1. /\ Len(Up) \in Nat /\ Len(Up') = Len(Up) + 1 /\ Up'[Len(Up) + 1] = Sending
        /\ \A i \in 1 .. Len(Up) : Up'[i] = Up[i]
        /\ \A i \in 1 .. Len(Up') : i \in 1 .. Len(Up) \/ i = Len(Up) + 1
    BY <1>2, UpMore
  <2>2. NoStats => NoStats'
    BY <1>2, <2>1 DEF NoStats
  <2>3. StatsFirst => StatsFirst'
    <3>1. SUFFICES ASSUME StatsFirst PROVE StatsFirst'
      OBVIOUS
    <3>2. Len(Up) >= 1
      BY <2>1, <3>1, EmptyLength DEF StatsFirst
    <3>3. Up'[1] = Up[1] /\ Up' # <<>>
      BY <1>2, <2>1, <3>2, AppendToEmpty
    <3> QED BY <1>2, <2>1, <3>1, <3>2, <3>3 DEF StatsFirst
  <2>4. \A i \in 1 .. Len(Up) : i \in 1 .. Len(Up')
    BY <2>1
  <2> QED BY <2>1, <2>2, <2>3, <2>4
<1> QED BY <1>1, <1>2 DEF NoNews

\* Nothing due, and nothing becomes due.
LEMMA ForgottenStays ==
    ASSUME DebugBoard, Forgotten, NoNews, ~StatsDue'
    PROVE  Forgotten'
BY NoNewStats DEF DebugBoard, Stepped, Forgotten

\* The processor keeps the id.
LEMMA RememberedStays ==
    ASSUME DebugBoard, Remembered, KeepsTag
    PROVE  Remembered'
BY DEF DebugBoard, Remembered, KeepsTag

\* The response still follows.
LEMMA OnTheirWayStays ==
    ASSUME DebugBoard, OnTheirWay, NoNews, KeepsTag, ~StatsDue', ResponseDue'
    PROVE  OnTheirWay'
BY NoNewStats, RememberedStays DEF DebugBoard, Stepped, OnTheirWay, StatsUnderWay

\* The processor waits.
LEMMA SameRemembers ==
    ASSUME DebugBoard, Remembering, Same
    PROVE  Remembering'
<1>1. SameData /\ Place' = Place /\ Up' = Up /\ (Busy' <=> Busy)
  BY StayingKeeps DEF DebugBoard, Stepped
<1>2. StatsPrepared' /\ (AboutMemory' <=> AboutMemory)
  BY PreparedStays DEF Remembering, DebugBoard
<1>3. NextIsAddr' <=> NextIsAddr
  BY DEF DebugBoard, Stepped, Still, NextIsAddr
<1>4. StatsDue' <=> StatsDue
  BY <1>1, <1>2, <1>3 DEF StatsDue, MemAnswered
<1>5. Target' = Target
  BY <1>1 DEF Target, SameData, SameReturns
<1>6. ResponseDue => ResponseDue'
  BY <1>1, <1>5 DEF ResponseDue
<1>7. (NoStats => NoStats') /\ (StatsFirst => StatsFirst')
  BY <1>1 DEF NoStats, StatsFirst
<1>8. Remembered => Remembered'
  BY <1>1, RememberedStays DEF SameData
<1> QED BY <1>2, <1>4, <1>6, <1>7, <1>8 DEF Remembering, StatsUnderWay, DebugBoard

\* Statistics are neither due nor is one under way, unless the processor or the
\* host is where they come from.
LEMMA StatsAt ==
    ASSUME Somebody, CpPlaces, Up \in Seq(Frame), Forgotten \/ Awaited \/ OnTheirWay
    PROVE  /\ Awaited => Up = <<>> /\ NextIsAddr /\ (MemDownHas \/ (CpAtWork /\ Group3))
           /\ OnTheirWay => AckUpHas \/ (CpAtWork /\ Group4)
BY DueWhen, UnderWayWhen DEF Awaited, OnTheirWay, StatsUnderWay, StatsFirst

\* The groups of places are apart.
LEMMA GroupsApart ==
    /\ CpFree => ~Group1 /\ ~Group2 /\ ~Group3 /\ ~Group4 /\ ~MemDownHas
    /\ Group1 => ~Group3 /\ ~Group4 /\ ~MemDownHas
    /\ Group2 => ~Group3 /\ ~Group4 /\ ~MemDownHas
    /\ Group3 => ~Group4
<1>1. MemDownHas => Place \in {"CP_MEM_FETCH_END", "CP_MEM_WRITE_END"} /\ ~Busy
  BY DEF MemDownHas
<1> QED BY <1>1 DEF CpFree, Group1, Group2, Group3, Group4, Early, Late, AfterMem

\* No packet but those of statistics is one of them.
LEMMA NotMemoryStats ==
    ASSUME NEW p
    PROVE  /\ p \in Reads \/ p \in Writes \/ p \in Acks => p \notin MemoryStats
           /\ p.type # RESPONSE => p \notin MemoryStats
<1>1. p \in MemoryStats => p \in Debugs /\ p.type = RESPONSE
  BY DEF MemoryStats
<1> QED BY <1>1, KindsApart

\* A step that makes nothing due.
LEMMA NotDueAt ==
    ASSUME Place' \notin {"CP_MEM_FETCH_END", "CP_MEM_WRITE_END"} \/ Busy' \/ Up' # <<>>,
           Place' # "CP_DEBUG_WRITE_WAIT_PREP",
           Place' = "CP_DEBUG_WRITE_WAIT" => ~AboutMemory',
           Place' = "CP_DEBUG_WRITE_RESTORE" => ~AboutMemory' \/ ~Busy'
    PROVE  ~StatsDue'
BY DEF StatsDue, MemAnswered

\* The processor has no command: its own statistics may go up.
FreeGoesOn ==
    /\ StatsPrepared' /\ ~StatsDue' /\ NoNews
    /\ cp.state = "CP_IDLE" \/ rx_packet_ready = 0 \/ KeepsTag

LEMMA FreeRemembers ==
    ASSUME DebugBoard, Remembering, CpFree, ~Same,
           cp.state = "CP_IDLE" /\ rx_packet_ready # 0 => Received \in Packet
    PROVE  FreeGoesOn
<1> USE DEF DebugBoard, Stepped
<1>1. StatsPrepared
  BY DEF Remembering
<1>2. RegisterFrame
  BY RegistersKept DEF Clocked
<1>3. Place \in {"CP_IDLE", "CP_STOP", "CP_STOP_MODIFIED", "CP_DEBUG_WRITE_WAIT",
                 "CP_DEBUG_WRITE_RESTORE"}
  BY DEF CpFree
<1>4. Place \in {"CP_DEBUG_WRITE_WAIT", "CP_DEBUG_WRITE_RESTORE"} => ~AboutMemory
  BY DEF CpFree, AboutMemory, AfterMem
<1>5. CASE PacketUp
  <2>1. SameData /\ Place' = Place /\ Up' = Append(Up, Sending) /\ Busy
    BY <1>5, StayingKeeps
  <2>2. Place = "CP_DEBUG_WRITE_RESTORE"
    BY <2>1, BusyPlaces DEF CpFree
  <2>3. StatsPrepared' /\ ~AboutMemory'
    BY <1>1, <1>4, <1>5, <2>2, PreparedStays
  <2>4. Sending.type # RESPONSE
    BY <1>1, <1>4, <2>2 DEF StatsPrepared
  <2>5. NoNews
    BY <2>1, <2>4, NotMemoryStats DEF NoNews
  <2>6. ~StatsDue'
    BY <2>1, <2>2, <2>3, NotDueAt
  <2> QED BY <2>1, <2>3, <2>5, <2>6 DEF FreeGoesOn, SameData
<1>6. CASE ~PacketUp
  <2>1. cp.state = Place
    BY <1>6, AtPlace
  <2>2. ASSUME Up' = Up, Place' \in {"CP_IDLE", "CP_STOP_MODIFIED", "CP_PACKET_DECODE"},
               cp.state = "CP_IDLE" \/ rx_packet_ready = 0 \/ KeepsTag
        PROVE  FreeGoesOn
    BY <2>2, NotDueAt, PreparedElsewhere DEF FreeGoesOn, NoNews
  <2>3. CASE Place = "CP_IDLE"
    <3>1. cp.state = "CP_IDLE" /\ To("CP_PACKET_DECODE")
      BY <1>6, <2>3, FreeMoves DEF Moves
    <3> QED BY <2>2, <3>1 DEF To
  <2>4. CASE Place \in {"CP_STOP", "CP_STOP_MODIFIED"} /\ rx_packet_ready = 0 /\ To("CP_IDLE")
    BY <2>2, <2>4 DEF To
  <2>5. CASE /\ Place = "CP_STOP" /\ To("CP_DEBUG_WRITE_WAIT")
             /\ cp'.debug_restore_state = "CP_STOP_MODIFIED"
    <3>1. StatsPrepared' /\ ~AboutMemory' /\ KeepsTag
      BY <2>1, <2>5, PreparedCommand
    <3>2. Place' = "CP_DEBUG_WRITE_WAIT" /\ Up' = Up
      BY <2>5 DEF To
    <3> QED BY <3>1, <3>2, NotDueAt DEF FreeGoesOn, NoNews
  <2>6. CASE Place = "CP_DEBUG_WRITE_WAIT" /\ Announces(Debugs, "CP_DEBUG_WRITE_RESTORE")
    <3>1. StatsPrepared' /\ ~AboutMemory' /\ KeepsTag
      BY <1>1, <1>4, <2>1, <2>6, PreparedPacket
    <3>2. Place' = "CP_DEBUG_WRITE_RESTORE" /\ Up' = Up
      BY <2>6 DEF Announces
    <3> QED BY <3>1, <3>2, NotDueAt DEF FreeGoesOn, NoNews
  <2>7. CASE Moves("CP_DEBUG_WRITE_RESTORE", cp.debug_restore_state)
    <3>1. Place = "CP_DEBUG_WRITE_RESTORE" /\ cp.debug_restore_state = "CP_STOP_MODIFIED"
      BY <2>7 DEF Moves, CpFree
    <3>2. Place' = "CP_STOP_MODIFIED" /\ Up' = Up
      BY <2>7, <3>1 DEF Moves, To
    <3>3. KeepsTag
      BY <1>2, <2>1, <3>1 DEF RegisterFrame
    <3> QED BY <2>2, <3>2, <3>3
  <2> QED BY <1>3, <1>6, <2>3, <2>4, <2>5, <2>6, <2>7, FreeMoves
<1> QED BY <1>5, <1>6

\* Nothing is due while the processor is free, begins a command or sends a write.
LEMMA NothingDue ==
    ASSUME DebugBoard, Remembering, Somebody, CpFree \/ Group1 \/ Group2
    PROVE  Forgotten \/ (CpFree /\ OnTheirWay /\ AckUpHas)
<1>1. Forgotten \/ Awaited \/ OnTheirWay
  BY RememberingIs DEF DebugBoard
<1>2. /\ Awaited => MemDownHas \/ Group3
      /\ OnTheirWay => AckUpHas \/ Group4
  BY <1>1, StatsAt DEF DebugBoard, Stepped, Clocked
<1>3. AckUpHas => CpFree
  BY DEF AckUpHas
<1> QED BY <1>1, <1>2, <1>3, GroupsApart

\* The processor has no command.
LEMMA FreeKeepsStats ==
    ASSUME DebugBoard, Remembering, Somebody, CpFree, ~Same,
           cp.state = "CP_IDLE" /\ rx_packet_ready # 0 => Received \in Packet
    PROVE  Remembering'
<1> USE DEF DebugBoard, Stepped
<1>1. FreeGoesOn
  BY FreeRemembers
<1>2. CASE Forgotten
  BY <1>1, <1>2, ForgottenStays, RememberingNext DEF FreeGoesOn
<1>3. CASE OnTheirWay /\ AckUpHas
  <2>1. rx_packet_ready = 1 /\ cp.state # "CP_IDLE"
    BY <1>3, DownHereStays DEF AckUpHas
  <2>2. KeepsTag
    BY <1>1, <2>1 DEF FreeGoesOn
  <2>3. \E i \in 1 .. Len(Up) : Up[i] \in Acks
    <3>1. PICK k \in 1 .. 2 : k <= Len(Up) /\ Up[k] \in Acks
      BY <1>3 DEF AckUpHas, StatsAround
    <3>2. k \in 1 .. Len(Up)
      BY <3>1
    <3> QED BY <3>1, <3>2
  <2>4. ResponseDue'
    BY <1>1, <2>3, NoNewStats DEF FreeGoesOn, ResponseDue
  <2> QED BY <1>1, <1>3, <2>2, <2>4, OnTheirWayStays, RememberingNext DEF FreeGoesOn
<1> QED BY <1>2, <1>3, NothingDue

\* A packet of a command is up.
LEMMA UpIsNews ==
    ASSUME DebugBoard, PacketUp, Sending \in Reads \/ Sending \in Writes \/ Sending \in Acks
    PROVE  NoNews /\ Up' # <<>>
<1>1. Up' = Append(Up, Sending)
  BY DEF PacketUp
<1>2. Up' # <<>>
  <2>1. Len(Up) \in Nat /\ Len(Up') = Len(Up) + 1
    BY <1>1, UpMore DEF DebugBoard, Stepped
  <2> QED BY <2>1
<1> QED BY <1>1, <1>2, NotMemoryStats DEF NoNews

\* The processor begins the command.
LEMMA Group1Remembers ==
    ASSUME DebugBoard, Remembering, Somebody, CpAtWork, Group1, ~Same
    PROVE  Remembering'
<1> USE DEF DebugBoard, Stepped
<1>1. Forgotten /\ StatsPrepared
  BY NothingDue, GroupsApart DEF Remembering
<1>2. Received \in Packet /\ Decodable
  BY RequestsDecodable DEF Group1, CpAtWork
<1>3. ASSUME NoNews,
             Place' \notin {"CP_MEM_FETCH_END", "CP_MEM_WRITE_END"} \/ Busy' \/ Up' # <<>>,
             Place' \notin DebugPlaces
      PROVE  Remembering'
  <2>1. ~StatsDue' /\ StatsPrepared'
    BY <1>3, NotDueAt, PreparedElsewhere DEF DebugPlaces
  <2> QED BY <1>1, <1>3, <2>1, ForgottenStays, RememberingNext
<1>4. CASE PacketUp
  <2>1. Place' = Place /\ Busy
    BY <1>4, StayingKeeps
  <2>2. Place \in {"CP_MEM_FETCH_END", "CP_MEM_WRITE_VAL_PREP"}
    BY <2>1, BusyPlaces DEF Group1, Early
  <2>3. Sending \in Reads \/ Sending \in Writes
    BY <2>2 DEF SendingKind
  <2> QED BY <1>3, <1>4, <2>1, <2>2, <2>3, UpIsNews DEF DebugPlaces
<1>5. CASE ~PacketUp
  <2>1. Place \in Early
    <3>1. ASSUME Place \in {"CP_MEM_FETCH_END", "CP_MEM_WRITE_VAL_PREP"} PROVE ~Busy
      BY <1>2, <1>5, <3>1, MemMoves DEF Moves, To, Announces
    <3> QED BY <3>1 DEF Group1
  <2>2. /\ Up' = Up
        /\ Place' \in Early \/ Place' \in {"CP_STOP", "CP_STOP_MODIFIED", "CP_MEM_WRITE_VAL_PREP"}
           \/ (Place' = "CP_MEM_FETCH_END" /\ Busy')
    BY <1>2, <1>5, <2>1, EarlyMoves DEF Moves, To, Announces, Early
  <2> QED BY <1>3, <2>2 DEF Early, DebugPlaces, NoNews
<1> QED BY <1>4, <1>5

\* The two halves of a write.
LEMMA Group2Remembers ==
    ASSUME DebugBoard, Remembering, Somebody, CpAtWork, Group2, ~Same
    PROVE  Remembering'
<1> USE DEF DebugBoard, Stepped
<1>1. Forgotten /\ StatsPrepared
  BY NothingDue, GroupsApart DEF Remembering
<1>2. Received \in Packet
  BY RequestsDecodable DEF Group2
<1>3. ASSUME NoNews, Place' \in {"CP_MEM_WRITE_VAL", "CP_MEM_WRITE_END"},
             Place' = "CP_MEM_WRITE_END" => Busy' \/ Up' # <<>>
      PROVE  Remembering'
  <2>1. ~StatsDue' /\ StatsPrepared'
    BY <1>3, NotDueAt, PreparedElsewhere
  <2> QED BY <1>1, <1>3, <2>1, ForgottenStays, RememberingNext
<1>4. CASE PacketUp
  <2>1. Place' = Place /\ Busy
    BY <1>4, StayingKeeps
  <2>2. Place = "CP_MEM_WRITE_END"
    BY <2>1, BusyPlaces DEF Group2
  <2>3. Sending \in Writes
    BY <2>2 DEF SendingKind
  <2> QED BY <1>3, <1>4, <2>1, <2>2, <2>3, UpIsNews
<1>5. CASE ~PacketUp
  <2>1. \/ Moves("CP_MEM_WRITE_VAL_PREP", "CP_MEM_WRITE_VAL")
        \/ Announces(Writes, "CP_MEM_WRITE_END")
        \/ Place = "CP_MEM_WRITE_END" /\ To("CP_DEBUG_WRITE_WAIT_PREP")
    BY <1>2, <1>5, MemMoves DEF Group2
  <2>2. ~(Place = "CP_MEM_WRITE_END" /\ To("CP_DEBUG_WRITE_WAIT_PREP"))
    BY DEF Group2, To
  <2>3. /\ Up' = Up
        /\ Place' = "CP_MEM_WRITE_VAL" \/ (Place' = "CP_MEM_WRITE_END" /\ Busy')
    BY <2>1, <2>2 DEF Moves, To, Announces
  <2> QED BY <1>3, <2>3 DEF NoNews
<1> QED BY <1>4, <1>5

\* A step from one case to itself or the next.
LEMMA RemembersNext ==
    ASSUME DebugBoard, StatsPrepared',
           \/ Awaited /\ StatsDue' /\ KeepsTag /\ Up' = Up
           \/ OnTheirWay /\ ~StatsDue' /\ ResponseDue' /\ KeepsTag /\ NoNews
           \/ Forgotten /\ ~StatsDue' /\ NoNews
    PROVE  Remembering'
<1>1. ASSUME Awaited, StatsDue', KeepsTag, Up' = Up PROVE Awaited'
  <2>1. NoStats'
    BY <1>1 DEF Awaited, NoStats
  <2> QED BY <1>1, <2>1, RememberedStays DEF Awaited
<1> QED BY <1>1, ForgottenStays, OnTheirWayStays, RememberingNext DEF DebugBoard

\* The processor takes the host's answer.
LEMMA AnswerRemembers ==
    ASSUME DebugBoard, Remembering, Somebody, MemDownHas, ~Same
    PROVE  Remembering'
<1> USE DEF DebugBoard, Stepped
<1>1. ~Busy /\ Place \in {"CP_MEM_FETCH_END", "CP_MEM_WRITE_END"}
  BY DEF MemDownHas
<1>2. ASSUME rx_packet_ready = 1, port_out = <<>>
      PROVE  Received \in Answers
  <2>1. prx.state = "RX_END"
    BY <1>2 DEF MemDownHas, DownShape
  <2> QED BY <1>2, <2>1, RxArrived DEF MemDownHas
<1>3. rx_packet_ready = 1 => Received \in Packet
  BY <1>2, Kinds DEF MemDownHas
<1>4. /\ cp.mem_op_restore_state \in AfterMem
      /\ To("CP_DEBUG_WRITE_WAIT_PREP")
      /\ cp'.debug_restore_state = cp.mem_op_restore_state
  BY <1>1, <1>3, MemMoves DEF PacketUp, Moves
<1>5. Awaited
  <2>1. StatsDue
    BY MemDownIs DEF StatsDue
  <2> QED BY <2>1, RememberingIs DEF Forgotten, OnTheirWay
<1>6. cp.state = Place
  BY <1>1, <1>4, AtPlace DEF PacketUp, To, Same, Keeps
<1>7. KeepsTag
  <2>1. RegisterFrame
    BY RegistersKept DEF Clocked
  <2> QED BY <1>1, <1>6, <2>1 DEF RegisterFrame
<1>8. Place' = "CP_DEBUG_WRITE_WAIT_PREP" /\ Up' = Up /\ AboutMemory'
  BY <1>4 DEF To, AboutMemory
<1>9. StatsDue' /\ StatsPrepared'
  BY <1>8, PreparedElsewhere DEF StatsDue
<1> QED BY <1>5, <1>7, <1>8, <1>9, RemembersNext

\* The statistics go up.
LEMMA Group3Remembers ==
    ASSUME DebugBoard, Remembering, Somebody, CpAtWork, Group3, ~Same
    PROVE  Remembering'
<1> USE DEF DebugBoard, Stepped
<1>1. AboutMemory /\ Up = <<>> /\ StatsPrepared
  BY DEF Group3, AboutMemory, Remembering
<1>2. Awaited
  <2>1. StatsDue
    BY <1>1 DEF StatsDue, Group3
  <2> QED BY <2>1, RememberingIs DEF Forgotten, OnTheirWay
<1>3. RegisterFrame
  BY RegistersKept DEF Clocked
<1>4. CASE PacketUp
  <2>1. SameData /\ Place' = Place /\ Up' = Append(Up, Sending) /\ Busy /\ ~Busy'
    BY <1>4, StayingKeeps
  <2>2. Place = "CP_DEBUG_WRITE_RESTORE"
    BY <2>1, BusyPlaces DEF Group3
  <2>3. StatsPrepared' /\ AboutMemory'
    BY <1>1, <1>4, PreparedStays
  <2>4. Sending \in MemoryStats
    BY <1>1, <2>2 DEF SendingKind, StatsPrepared, MemoryStats
  <2>5. Len(Up') = 1 /\ Up'[1] = Sending /\ Up' # <<>>
    BY <1>1, <2>1, AppendToEmpty
  <2>6. StatsFirst'
    BY <2>4, <2>5 DEF StatsFirst
  <2>7. Target' \in Late
    BY <2>1, <2>2, <2>3 DEF Target, DebugPlaces, AboutMemory, Late
  <2>8. ~StatsDue'
    BY <2>1, <2>2, <2>5, NotDueAt
  <2>9. Remembered'
    BY <1>2, <2>1, RememberedStays DEF Awaited, SameData
  <2>10. OnTheirWay'
    BY <2>6, <2>7, <2>8, <2>9 DEF OnTheirWay, StatsUnderWay, ResponseDue
  <2> QED BY <2>3, <2>10, RememberingNext
<1>5. CASE ~PacketUp
  <2>1. cp.state = Place
    BY <1>5, AtPlace
  <2>2. Decodable
    BY DEF CpAtWork
  <2>3. CASE Place = "CP_DEBUG_WRITE_WAIT_PREP"
    <3>1. To("CP_DEBUG_WRITE_WAIT") /\ cp'.debug_restore_state = cp.debug_restore_state
      BY <1>5, <2>2, <2>3, LateMoves DEF Moves
    <3>2. StatsPrepared' /\ AboutMemory'
      BY <1>1, <2>1, <2>3, <3>1, PreparedMemory
    <3>3. KeepsTag
      BY <1>3, <2>1, <2>3 DEF RegisterFrame
    <3>4. Up' = Up /\ StatsDue'
      BY <3>1, <3>2 DEF To, StatsDue
    <3> QED BY <1>2, <3>2, <3>3, <3>4, RemembersNext
  <2>4. CASE Place = "CP_DEBUG_WRITE_WAIT"
    <3>1. Announces(Debugs, "CP_DEBUG_WRITE_RESTORE")
      BY <1>5, <2>4, FreeMoves DEF Moves
    <3>2. StatsPrepared' /\ AboutMemory' /\ KeepsTag
      BY <1>1, <2>1, <2>4, <3>1, PreparedPacket
    <3>3. Up' = Up /\ StatsDue'
      BY <3>1, <3>2 DEF Announces, StatsDue
    <3> QED BY <1>2, <3>2, <3>3, RemembersNext
  <2>5. CASE Place = "CP_DEBUG_WRITE_RESTORE" /\ Busy
    BY <1>5, <2>5, FreeMoves DEF Moves, To
  <2> QED BY <2>3, <2>4, <2>5 DEF Group3
<1> QED BY <1>4, <1>5

\* The response follows them.
LEMMA Group4Remembers ==
    ASSUME DebugBoard, Remembering, Somebody, CpAtWork, Group4, ~Same
    PROVE  Remembering'
<1> USE DEF DebugBoard, Stepped
<1>1. StatsPrepared /\ (Forgotten \/ Awaited \/ OnTheirWay) /\ Decodable
  BY RememberingIs DEF CpAtWork
<1>2. Forgotten \/ OnTheirWay
  <2>1. Awaited => MemDownHas \/ Group3
    BY <1>1, StatsAt DEF Clocked
  <2>2. ~MemDownHas
    BY DEF MemDownHas, Group4, Late, AfterMem
  <2> QED BY <1>1, <2>1, <2>2, GroupsApart
<1>3. ASSUME StatsPrepared', NoNews, KeepsTag, ResponseDue', ~StatsDue'
      PROVE  Remembering'
  BY <1>2, <1>3, RemembersNext
<1>4. RegisterFrame
  BY RegistersKept DEF Clocked
<1>5. CASE PacketUp
  <2>1. SameData /\ Place' = Place /\ Up' = Append(Up, Sending) /\ Busy /\ ~Busy'
    BY <1>5, StayingKeeps
  <2>2. Place \in {"CP_STOP", "CP_STOP_MODIFIED"}
    BY <2>1, BusyPlaces DEF Group4, Late, AfterMem
  <2>3. StatsPrepared'
    BY <1>1, <1>5, PreparedStays
  <2>4. Sending \in Acks
    BY <2>1, <2>2 DEF SendingKind
  <2>5. NoNews
    BY <1>5, <2>4, UpIsNews
  <2>6. ~StatsDue'
    BY <2>1, <2>2, NotDueAt
  <2>7. ResponseDue'
    <3>1. /\ Len(Up) \in Nat /\ Len(Up') = Len(Up) + 1 /\ Up'[Len(Up) + 1] = Sending
      BY <2>1, UpMore
    <3>2. Len(Up) + 1 \in 1 .. Len(Up')
      BY <3>1
    <3> QED BY <2>4, <3>1, <3>2 DEF ResponseDue
  <2> QED BY <1>3, <2>1, <2>3, <2>5, <2>6, <2>7 DEF SameData
<1>6. CASE ~PacketUp
  <2>1. cp.state = Place
    BY <1>6, AtPlace
  <2>2. ~(Place \in {"CP_STOP", "CP_STOP_MODIFIED"} /\ Busy)
    BY <2>1, Idle DEF Waits
  <2>3. ASSUME Up' = Up, Place' \in Late PROVE Remembering'
    <3>1. StatsPrepared' /\ ~StatsDue' /\ NoNews
      BY <2>3, NotDueAt, PreparedElsewhere DEF Late, AfterMem, NoNews
    <3>2. KeepsTag
      BY <1>4, <2>1, <2>2 DEF RegisterFrame, Group4, Late, AfterMem
    <3>3. Target' \in Late
      BY <2>3 DEF Target, DebugPlaces, Late, AfterMem
    <3> QED BY <1>3, <3>1, <3>2, <3>3 DEF ResponseDue
  <2>4. CASE Place = "CP_DEBUG_WRITE_RESTORE"
    <3>1. Moves("CP_DEBUG_WRITE_RESTORE", cp.debug_restore_state)
      BY <1>6, <2>4, FreeMoves
    <3>2. cp.debug_restore_state \in Late
      BY <2>4 DEF Group4, Late, AfterMem
    <3> QED BY <2>3, <3>1, <3>2 DEF Moves, To
  <2>5. CASE Place \in Late
    <3>1. CASE Up' = Up /\ Place' \in Late
      BY <2>3, <3>1
    <3>2. CASE Place = "CP_CMD_END" /\ Announces(Acks, "CP_STOP")
      <4>1. Place' = "CP_STOP" /\ Busy' /\ Up' = Up
        BY <3>2 DEF Announces
      <4>2. KeepsTag
        BY <1>4, <2>1, <3>2 DEF RegisterFrame
      <4> QED BY <1>3, <4>1, <4>2, NotDueAt, PreparedElsewhere DEF ResponseDue, NoNews
    <3> QED BY <1>1, <1>6, <2>5, <3>1, <3>2, LateMoves DEF Moves, To, Late, AfterMem
  <2> QED BY <2>2, <2>4, <2>5 DEF Group4
<1> QED BY <1>5, <1>6

\* A clock of the board.
LEMMA BoardRemembering ==
    ASSUME TypeOK, Turns, Remembering, BoardStep
    PROVE  Remembering'
<1> SUFFICES ASSUME DEVICE_DEBUG PROVE Remembering'
  BY DEF Remembering
<1>1. DebugBoard
  BY BoardStepped DEF BoardStep, DebugBoard, implVars
<1>2. Stepped /\ Somebody
  BY <1>1, TurnsIs DEF DebugBoard
<1>3. CASE Same
  BY <1>1, <1>3, SameRemembers
<1>4. CASE ~Same
  <2>1. CASE HostHas \/ AckUpHas \/ AckHas
    <3>1. CpFree /\ (cp.state = "CP_IDLE" => rx_packet_ready = 0)
      BY <2>1 DEF HostHas, AckUpHas, AckHas
    <3> QED BY <1>1, <1>2, <1>4, <3>1, FreeKeepsStats
  <2>2. CASE DownHas
    <3>1. ASSUME cp.state = "CP_IDLE", rx_packet_ready # 0 PROVE Received \in Packet
      <4>1. rx_packet_ready = 1
        BY <1>2, <3>1 DEF Stepped, RxTypeOK
      <4>2. port_out = <<>> /\ prx.state = "RX_END"
        BY <2>2, <3>1, <4>1 DEF DownHas, DownShape
      <4>3. Down = Received
        BY <1>2, <2>2, <4>2, RxArrived DEF DownHas, Stepped
      <4> QED BY <2>2, <4>3, RequestsDecodable DEF DownHas
    <3>2. CpFree
      BY <2>2 DEF DownHas
    <3> QED BY <1>1, <1>2, <1>4, <3>1, <3>2, FreeKeepsStats
  <2>3. CASE CpHas
    <3>1. CpAtWork /\ (Group1 \/ Group2 \/ Group3 \/ Group4)
      BY <2>3, CpHasIs
    <3> QED BY <1>1, <1>2, <1>4, <3>1, Group1Remembers, Group2Remembers, Group3Remembers,
               Group4Remembers
  <2>4. CASE MemUpHas
    <3>1. Received' = Received
      BY <1>2, <2>4, DownHereStays DEF MemUpHas, Stepped
    <3>2. Received \in Packet /\ Received.type # RESPONSE
      BY <2>4, RequestsDecodable DEF MemUpHas, REQUEST, RESPONSE
    <3> QED BY <1>2, <1>4, <2>4, <3>2, MemMoves DEF MemUpHas, PacketUp, Moves, Stepped
  <2>5. CASE MemDownHas
    BY <1>1, <1>2, <1>4, <2>5, AnswerRemembers
  <2> QED BY <1>2, <2>1, <2>2, <2>3, <2>4, <2>5 DEF Somebody
<1> QED BY <1>3, <1>4

-----------------------------------------------------------------------------
(* Steps of the host.                                                      *)

\* The board rests.
LEMMA RestsPrepared ==
    ASSUME BoardRests
    PROVE  /\ StatsPrepared => StatsPrepared'
           /\ (AboutMemory' <=> AboutMemory) /\ Target' = Target
           /\ ~StatsDue /\ ~MemAnswered' => ~StatsDue'
           /\ StatsDue /\ ~MemAnswered => StatsDue'
           /\ last_response_pkt' = last_response_pkt /\ Remembered => Remembered'
<1>1. /\ Place' = Place /\ (Busy' <=> Busy) /\ Sending' = Sending /\ cp' = cp
  BY RestsCp
<1>2. /\ cp'.debug_restore_state = cp.debug_restore_state /\ cp'.debug_pkt_type = cp.debug_pkt_type
      /\ cp'.tx_cmd_id = cp.tx_cmd_id
  BY <1>1
<1>3. (AboutMemory' <=> AboutMemory) /\ Target' = Target
  BY <1>1, <1>2 DEF AboutMemory, Target
<1>4. StatsPrepared => StatsPrepared'
  BY <1>1, <1>2, <1>3 DEF StatsPrepared
<1>5. last_response_pkt' = last_response_pkt /\ Remembered => Remembered'
  BY <1>2 DEF Remembered
<1> QED BY <1>1, <1>3, <1>4, <1>5 DEF StatsDue

\* No packet moves, and the list of responses stays.
LEMMA RestsRemember ==
    ASSUME BoardRests, Remembering, Up' = Up,
           UNCHANGED <<last_response_pkt, device_packet_recv_state>>
    PROVE  Remembering'
<1> SUFFICES ASSUME DEVICE_DEBUG PROVE Remembering'
  BY DEF Remembering
<1>1. MemAnswered' <=> MemAnswered
  BY RestsCp DEF MemAnswered, NextIsAddr
<1>2. (StatsDue' <=> StatsDue) /\ StatsPrepared'
  BY <1>1, RestsPrepared, RememberingIs DEF StatsDue
<1>3. (NoStats' <=> NoStats) /\ (StatsFirst' <=> StatsFirst)
  BY DEF NoStats, StatsFirst, MemoryStats, Debugs
<1>4. ResponseDue => ResponseDue'
  BY RestsCp, RestsPrepared DEF ResponseDue, Acks
<1>5. Remembered => Remembered'
  BY RestsPrepared
<1> QED BY <1>2, <1>3, <1>4, <1>5, RememberingIs, RememberingNext
       DEF Forgotten, Awaited, OnTheirWay, StatsUnderWay

\* A packet is taken: the others have no more statistics than they had.
LEMMA TakesStats ==
    ASSUME Takes
    PROVE  /\ NoStats => NoStats'
           /\ StatsFirst => NoStats'
<1>1. /\ \A i \in 1 .. Len(Up') : i + 1 \in 1 .. Len(Up) /\ Up'[i] = Up[i + 1]
      /\ Up' \in Seq(Frame)
  BY TakesFollows
<1>2. ASSUME NEW i \in 1 .. Len(Up') PROVE i + 1 \in 2 .. Len(Up) /\ Up'[i] = Up[i + 1]
  <2>1. i \in Nat /\ i >= 1
    BY <1>1
  <2> QED BY <1>1, <2>1
<1>3. NoStats => NoStats'
  BY <1>1 DEF NoStats, MemoryStats, Debugs
<1>4. StatsFirst => NoStats'
  BY <1>2 DEF StatsFirst, NoStats, MemoryStats, Debugs
<1> QED BY <1>3, <1>4

\* Nothing is due, and nothing becomes due.
LEMMA TakesForgotten ==
    ASSUME DEVICE_DEBUG, Takes, Remembering, Forgotten, ~MemAnswered',
           last_response_pkt' = last_response_pkt
    PROVE  Remembering'
<1>1. StatsPrepared' /\ ~StatsDue'
  BY RestsPrepared, RememberingIs DEF Takes, Forgotten
<1>2. NoStats'
  BY TakesStats DEF Forgotten
<1> QED BY <1>1, <1>2, RememberingNext DEF Forgotten

\* The oldest packet is not one of the statistics that are awaited or up.
LEMMA OtherFirst ==
    ASSUME DEVICE_DEBUG, Takes, Remembering, Somebody, CpPlaces, Up[1] \notin MemoryStats
    PROVE  Forgotten
<1>1. Up # <<>>
  BY DEF Takes
<1> QED BY <1>1, RememberingIs, DueWhen DEF Awaited, OnTheirWay, StatsUnderWay, StatsFirst

\* mInit takes the answer to its handshake.
LEMMA FoundRemembers ==
    ASSUME TypeOK, Turns, Remembering, UNCHANGED <<boardVars, ringVars, history>>, FindAnswer
    PROVE  Remembering'
<1> SUFFICES ASSUME DEVICE_DEBUG PROVE Remembering'
  BY DEF Remembering
<1>1. Takes /\ Up[1] \in Acks /\ AckUpHas
  BY AnswerFound
<1>2. Somebody /\ CpPlaces
  BY TurnsIs
<1>3. Forgotten
  BY <1>1, <1>2, OtherFirst, NotMemoryStats
<1>4. ~MemAnswered'
  <2>1. CpFree'
    BY <1>1, RestsPlaces DEF Takes, AckUpHas
  <2>2. CpFree' => ~MemAnswered'
    BY DEF CpFree, MemAnswered
  <2> QED BY <2>1, <2>2
<1>5. last_response_pkt' = last_response_pkt
  BY DEF FindAnswer, FindReads, implVars
<1> QED BY <1>1, <1>3, <1>4, <1>5, TakesForgotten

\* The answer to a memory request is sent, and remembered.
LEMMA AnswerRemembered ==
    ASSUME DEVICE_DEBUG, Takes, Remembering, Forgotten, MemAnswered',
           NEW p, NEW b, p.id = cp.tx_cmd_id, Respond(p, b)
    PROVE  Remembering'
<1>1. StatsPrepared' /\ NoStats'
  BY RestsPrepared, TakesStats, RememberingIs DEF Takes, Forgotten
<1>2. StatsDue'
  BY DEF StatsDue
<1>3. Remembered'
  <2> DEFINE r == Payload(p.id, RESPONSE, p.cmd, p.sub_cmd, b)
  <2>1. r.id = cp.tx_cmd_id
    BY DEF Payload
  <2> HIDE DEF r
  <2>2. last_response_pkt' = <<r>>
    BY DEF Respond, r, Forgotten
  <2>3. cp' = cp
    BY RestsCp DEF Takes
  <2> QED BY <2>1, <2>2, <2>3 DEF Remembered
<1> QED BY <1>1, <1>2, <1>3, RememberingNext DEF Awaited

\* Statistics are in: those of a memory operation are the ones under way.
LEMMA StatsRemember ==
    ASSUME DEVICE_DEBUG, Takes, Gathered, Remembering, Somebody, CpPlaces, Up[1] \in Debugs,
           ProcessDebugRequest(Up[1]) \/ ProcessDebugResponse(Up[1])
    PROVE  Remembering'
<1>1. ~MemAnswered'
  <2>1. MemAnswered' => Up' = <<>> /\ Place \in {"CP_MEM_FETCH_END", "CP_MEM_WRITE_END"} /\ ~Busy
    BY RestsCp DEF MemAnswered, Takes
  <2> QED BY <2>1, StatsNotLast, FreeIsIdle
<1>2. CASE ProcessDebugRequest(Up[1])
  <2>1. Up[1] \notin MemoryStats /\ last_response_pkt' = last_response_pkt
    BY <1>2, NotMemoryStats DEF ProcessDebugRequest, REQUEST, RESPONSE
  <2> QED BY <1>1, <2>1, OtherFirst, TakesForgotten
<1>3. CASE ProcessDebugResponse(Up[1])
  <2>1. Up[1] \in MemoryStats /\ last_response_pkt' = PopFront(last_response_pkt)
    BY <1>3 DEF ProcessDebugResponse, MemoryStats
  <2>2. 1 \in 1 .. Len(Up) /\ Up # <<>>
    BY TakesFollows DEF Takes
  <2>3. OnTheirWay
    BY <2>1, <2>2, DueWhen, RememberingIs DEF Forgotten, Awaited, NoStats
  <2>4. last_response_pkt' = <<>>
    <3>1. last_response_pkt \in Seq(Packet) /\ Len(last_response_pkt) = 1
      BY <2>3 DEF Gathered, OnTheirWay, Remembered
    <3>2. last_response_pkt # <<>>
      BY <3>1, EmptyLength
    <3>3. /\ Follows(last_response_pkt, Tail(last_response_pkt))
          /\ Tail(last_response_pkt) \in Seq(Packet)
      BY <3>1, <3>2, TailFollows
    <3>4. Len(Tail(last_response_pkt)) = 0
      BY <3>1, <3>3 DEF Follows
    <3>5. Tail(last_response_pkt) = <<>>
      BY <3>3, <3>4, EmptyLength
    <3> QED BY <2>1, <3>2, <3>5 DEF PopFront
  <2>5. StatsPrepared' /\ ~StatsDue' /\ NoStats'
    BY <1>1, <2>3, RestsPrepared, TakesStats, RememberingIs DEF Takes, OnTheirWay, StatsUnderWay
  <2> QED BY <2>4, <2>5, RememberingNext DEF Forgotten
<1> QED BY <1>2, <1>3

\* The processing thread takes a packet.
LEMMA PacketRemembers ==
    ASSUME TypeOK, Turns, Errand, Remembering, Running, ProcessStep, ProcessPacket
    PROVE  Remembering'
<1> SUFFICES ASSUME DEVICE_DEBUG PROVE Remembering'
  BY DEF Remembering
<1>1. /\ Takes /\ Gathered /\ Listening
      /\ \/ ProcessCommandResponse(Up[1])
         \/ ProcessRead(Up[1])
         \/ ProcessWriteAddr(Up[1])
         \/ ProcessWriteVal(Up[1])
         \/ ProcessDebugRequest(Up[1])
         \/ ProcessDebugResponse(Up[1])
  BY PacketGathered DEF Gathered
<1>2. Somebody /\ CpPlaces
  BY TurnsIs
<1>3. /\ Up \in Seq(Frame) /\ Up # <<>> /\ Up' = Tail(Up) /\ BoardRests
      /\ 1 \in 1 .. Len(Up)
  BY <1>1, TakesFollows DEF Takes
<1>4. /\ Place' = Place /\ (Busy' <=> Busy)
      /\ CpFree => CpFree'
  BY <1>3, RestsCp, RestsPlaces
<1>5. CASE ProcessDebugRequest(Up[1]) \/ ProcessDebugResponse(Up[1])
  <2>1. Up[1].cmd = MEMORY /\ Up[1].sub_cmd = DEBUG
    BY <1>5 DEF ProcessDebugRequest, ProcessDebugResponse
  <2>2. Up[1] \notin Reads /\ Up[1] \notin Writes /\ Up[1] \notin Acks
    BY <2>1 DEF Reads, Writes, Acks, DEBUG, MEM_READ, MEM_WRITE
  <2>3. Up[1] \in Debugs
    BY <1>2, <1>3, <2>2, FirstUp
  <2> QED BY <1>1, <1>2, <1>5, <2>3, StatsRemember
<1>6. CASE ProcessCommandResponse(Up[1])
  <2>1. Up[1].cmd # MEMORY /\ last_response_pkt' = last_response_pkt
    BY <1>6 DEF ProcessCommandResponse
  <2>2. Up[1] \notin Debugs /\ Up[1] \notin Reads /\ Up[1] \notin Writes
    BY <2>1 DEF Debugs, Reads, Writes
  <2>3. AckUpHas /\ Up[1] \in Acks
    BY <1>2, <1>3, <2>2, FirstUp
  <2>4. CpFree'
    BY <1>4, <2>3 DEF AckUpHas
  <2>5. CpFree' => ~MemAnswered'
    BY DEF CpFree, MemAnswered
  <2>6. Forgotten
    BY <1>1, <1>2, <2>3, OtherFirst, NotMemoryStats
  <2> QED BY <1>1, <2>1, <2>4, <2>5, <2>6, TakesForgotten
<1>7. CASE ProcessRead(Up[1])
  <2>1. /\ Up[1].cmd = MEMORY /\ Up[1].sub_cmd = MEM_READ
        /\ UNCHANGED device_packet_recv_state
        /\ \E v \in MemoryRead(Up[1].body) : Respond(Up[1], v)
    BY <1>7 DEF ProcessRead
  <2>2. Up[1] \notin Debugs /\ Up[1] \notin Acks /\ Up[1] \notin Writes
    BY <2>1 DEF Debugs, Acks, Writes, DEBUG, MEM_READ, MEM_WRITE
  <2>3. MemUpHas /\ Place = "CP_MEM_FETCH_END" /\ NextIsAddr /\ Up[1] \in Reads /\ Tail(Up) = <<>>
    BY <1>2, <1>3, <2>2, FirstUp
  <2>4. MemAnswered'
    <3>1. ~Busy
      BY <2>3 DEF MemUpHas
    <3> QED BY <1>3, <1>4, <2>1, <2>3, <3>1 DEF MemAnswered, NextIsAddr
  <2>5. InCall
    BY <1>1, <2>3, MemoryInCall
  <2>6. Up[1].id = cp.tx_cmd_id
    BY <1>3, <2>3, <2>5, ErrandParts DEF Carried, UpRight, IsRead
  <2>7. Forgotten
    BY <1>1, <1>2, <2>3, OtherFirst, NotMemoryStats
  <2>8. PICK v : Respond(Up[1], v)
    BY <2>1
  <2> QED BY <1>1, <2>4, <2>6, <2>7, <2>8, AnswerRemembered
<1>8. CASE ProcessWriteAddr(Up[1])
  <2>1. /\ Up[1].cmd = MEMORY /\ Up[1].sub_cmd = MEM_WRITE /\ NextIsAddr /\ ~NextIsAddr'
        /\ last_response_pkt' = last_response_pkt
    BY <1>8 DEF ProcessWriteAddr, NextIsAddr
  <2>2. Up[1] \notin Debugs
    BY <2>1 DEF Debugs, DEBUG, MEM_WRITE
  <2>3. Up[1] \notin MemoryStats
    BY <2>2 DEF MemoryStats
  <2>4. ~MemAnswered'
    BY <2>1 DEF MemAnswered
  <2> QED BY <1>1, <1>2, <2>1, <2>3, <2>4, OtherFirst, TakesForgotten
<1>9. CASE ProcessWriteVal(Up[1])
  <2>1. /\ Up[1].cmd = MEMORY /\ Up[1].sub_cmd = MEM_WRITE /\ ~NextIsAddr /\ NextIsAddr'
        /\ Respond(Up[1], 0)
    BY <1>9 DEF ProcessWriteVal, NextIsAddr
  <2>2. Up[1] \notin Debugs /\ Up[1] \notin Acks /\ Up[1] \notin Reads
    BY <2>1 DEF Debugs, Acks, Reads, DEBUG, MEM_READ, MEM_WRITE
  <2>3. MemUpHas /\ Place = "CP_MEM_WRITE_END" /\ Up[1] \in Writes /\ Tail(Up) = <<>>
    BY <1>2, <1>3, <2>1, <2>2, FirstUp
  <2>4. ~Busy
    BY <2>3 DEF MemUpHas
  <2>5. MemAnswered'
    BY <1>3, <1>4, <2>1, <2>3, <2>4 DEF MemAnswered
  <2>6. InCall
    BY <1>1, <2>3, MemoryInCall
  <2>7. Up[1].id = cp.tx_cmd_id
    BY <1>3, <2>1, <2>3, <2>4, <2>6, ErrandParts DEF Carried, WriteRight, ValueSent, IsValue
  <2>8. Forgotten
    BY <1>1, <1>2, <2>3, OtherFirst, NotMemoryStats
  <2> QED BY <1>1, <2>1, <2>5, <2>7, <2>8, AnswerRemembered
<1> QED BY <1>1, <1>5, <1>6, <1>7, <1>8, <1>9

-----------------------------------------------------------------------------
(* Remembering is inductive.                                               *)

\* No packet is up, no statistics are due.
LEMMA InitRemembering == Init => Remembering
<1> SUFFICES ASSUME Init PROVE Remembering
  OBVIOUS
<1>1. cp.state = "CP_IDLE" /\ last_response_pkt = <<>> /\ Up = <<>>
  BY InitUp DEF Init, BoardInit, CpInit, ImplInit
<1>2. Place = "CP_IDLE"
  BY <1>1 DEF Place
<1>3. StatsPrepared /\ ~StatsDue
  BY <1>2 DEF StatsPrepared, StatsDue, MemAnswered
<1>4. NoStats
  <2>1. Len(Up) = 0
    BY <1>1
  <2> QED BY <2>1 DEF NoStats
<1> QED BY <1>1, <1>3, <1>4 DEF Remembering

\* Every step keeps it.
LEMMA NextRemembering ==
    ASSUME TypeOK, Turns, Errand, Remembering, [Next]_vars
    PROVE  Remembering'
<1>1. CASE HostStep(LibraryStep) /\ FindAnswer
  BY <1>1, FoundRemembers DEF HostStep, LibraryStep
<1>2. CASE HostStep(LibraryStep) /\ FindByte
  <2>1. UNCHANGED <<boardVars, ringVars, history>>
    BY <1>2 DEF HostStep, LibraryStep
  <2>2. Up' = Up
    BY <1>2, <2>1, ByteFound
  <2> QED BY <1>2, <2>1, <2>2, RestsRemember DEF BoardRests, FindByte, FindReads, implVars
<1>3. CASE \/ HostStep(AppStep)
           \/ HostStep(LibraryStep) /\ ~FindAnswer /\ ~FindByte
           \/ HostStep(FindTimeout /\ UNCHANGED history)
           \/ HostStep(Receive /\ UNCHANGED history)
           \/ UNCHANGED vars
  <2>1. /\ UNCHANGED <<boardVars, ringVars, found, scratch, port_in>>
        /\ UNCHANGED <<last_response_pkt, device_packet_recv_state>>
    BY <1>3 DEF HostStep, AppStep, RecordCall, Record, NewMInt, SetValue, MSync, LibraryStep, Find,
                SyncReturn, SyncSend, SyncStat, CmdSync, FindTimeout, Receive, SendRequest,
                RememberRequest, WritePacket, Goto, vars, portVars, implVars, driverVars
  <2>2. Up' = Up
    BY <2>1, RestsBytes
  <2> QED BY <2>1, <2>2, RestsRemember DEF BoardRests
<1>4. CASE ListenStep
  <2>1. Up' = Up
    BY <1>4, ListenKeeps, UpKept
  <2> QED BY <1>4, <2>1, RestsRemember DEF ListenStep, BoardRests, implVars
<1>5. CASE Running /\ ProcessStep
  <2>1. CASE ProcessByte
    <3>1. Up' = Up
      BY <1>5, <2>1, ByteKeeps, UpKept
    <3> QED BY <1>5, <2>1, <3>1, RestsRemember DEF ProcessStep, ProcessByte, BoardRests
  <2>2. CASE ProcessPacket
    BY <1>5, <2>2, PacketRemembers
  <2> QED BY <1>5, <2>1, <2>2 DEF ProcessStep
<1>6. CASE BoardStep
  BY <1>6, BoardRemembering
<1> QED BY <1>1, <1>2, <1>3, <1>4, <1>5, <1>6 DEF Next, Terminated

\* A process that has ended has gathered no byte.
StaysExited == host = "exited" => scratch = <<>>

LEMMA NextExited ==
    ASSUME Turns, StaysExited, [Next]_vars
    PROVE  StaysExited'
<1> SUFFICES ASSUME host' = "exited" PROVE scratch' = <<>>
  BY DEF StaysExited
<1>1. CASE host = "exited"
  <2>1. scratch' = scratch
    BY <1>1 DEF Next, Running, Terminated, vars, implVars
  <2> QED BY <1>1, <2>1 DEF StaysExited
<1>2. CASE host # "exited"
  <2>1. host = "finding" /\ scratch' = scratch
    BY <1>2 DEF Next, HostStep, AppStep, RecordCall, Record, NewMInt, SetValue, MSync, LibraryStep,
                Find, FindByte, FindAnswer, FindReads, SyncReturn, SyncSend, SyncStat, CmdSync,
                FindTimeout, Receive, ListenStep, ProcessStep, BoardStep, Terminated, Goto,
                vars, implVars, driverVars
  <2> QED BY <2>1, TurnsIs DEF NotListening
<1> QED BY <1>1, <1>2

-----------------------------------------------------------------------------
(* The statistics that arrive find what they are about.                    *)

\* The packet that the next byte completes is the oldest one up.
LEMMA ArrivingIs ==
    ASSUME TypeOK, Turns, StaysExited, read_buffer_ptr_hi # read_buffer_ptr_lo, Len(scratch) = 5
    PROVE  Up # <<>> /\ Arriving = Up[1] /\ Up \in Seq(Frame)
<1>1. /\ Ring \in Seq(Byte) /\ scratch \in Seq(Byte) /\ port_in \in Seq(Byte) /\ InRing \in Nat
      /\ UpBytes \in Seq(Byte) /\ Len(Ring) = InRing
  BY BytesShape
<1>2. scratch # <<>>
  <2>1. scratch = <<>> => Len(scratch) = 0
    BY <1>1, EmptyLength, Zenon
  <2>2. 5 # 0
    OBVIOUS
  <2> QED BY <2>1, <2>2, Zenon
<1>3. found = <<>>
  BY <1>2, TurnsIs DEF NotListening, StaysExited
<1>4. Ring # <<>> /\ NextByte = Head(Ring)
  <2>1. RingTypeOK
    BY DEF TypeOK
  <2> QED BY <2>1, FirstInRing
<1> DEFINE h == Head(Ring)
           t == Tail(Ring) \o port_in
           f == Append(scratch, NextByte)
<1>5. h \in Byte /\ Tail(Ring) \in Seq(Byte)
  BY <1>1, <1>4, Cons
<1>6. t \in Seq(Byte) /\ UpBytes = Append(scratch, Head(Ring)) \o t
  BY <1>1, <1>3, <1>4, <1>5, PacketSplits
<1>7. f \in Seq(Byte) /\ Len(f) = 6
  BY <1>1, <1>4, <1>5, SixthByte
<1>8. Joined(UpBytes, f, t)
  BY <1>4, <1>6, <1>7 DEF Joined
<1>9. Up # <<>> /\ Unflatten(f) = Head(Up)
  <2> HIDE DEF f, t
  <2> QED BY <1>1, <1>6, <1>7, <1>8, PacketTaken, UpIs
<1>10. Up \in Seq(Frame)
  BY UpShape
<1> QED BY <1>9, <1>10, HeadTailProperties DEF Arriving

\* A statistics packet about a memory operation (serial_impl.cpp:140) finds exactly
\* one response in the host's list, the one it is about: the list neither grows nor
\* runs empty, although only the order of the packets relates the two.
THEOREM SerialStatsFindTheirs == Spec => []ResponseStatsAttribution
<1>1. Init => Remembering /\ StaysExited
  BY InitRemembering DEF Init, StaysExited
<1>2. /\ TypeOK /\ Turns /\ Errand /\ Remembering /\ StaysExited /\ [Next]_vars
      => Remembering' /\ StaysExited'
  BY NextRemembering, NextExited
<1>3. ASSUME TypeOK, Turns, Remembering, StaysExited
      PROVE  ResponseStatsAttribution
  <2>1. SUFFICES ASSUME read_buffer_ptr_hi # read_buffer_ptr_lo, Len(scratch) = 5,
                        Arriving.cmd = MEMORY, Arriving.sub_cmd = DEBUG, Arriving.type = RESPONSE
                 PROVE  Remembered
    BY DEF ResponseStatsAttribution, Remembered
  <2>2. Up # <<>> /\ Arriving = Up[1] /\ Up \in Seq(Frame)
    BY <1>3, <2>1, ArrivingIs
  <2>3. Somebody /\ CpPlaces
    BY <1>3, TurnsIs
  <2>4. Up[1] \notin Reads /\ Up[1] \notin Writes /\ Up[1] \notin Acks
    BY <2>1, <2>2 DEF Reads, Writes, Acks, DEBUG, MEM_READ, MEM_WRITE
  <2>5. Up[1] \in MemoryStats /\ DEVICE_DEBUG
    BY <2>1, <2>2, <2>3, <2>4, FirstUp DEF MemoryStats, Debugs
  <2>6. ~Forgotten
    <3>1. 1 \in 1 .. Len(Up)
      BY <2>2, EmptyLength
    <3> QED BY <2>5, <3>1 DEF Forgotten, NoStats
  <2> QED BY <1>3, <2>5, <2>6, RememberingIs DEF Awaited, OnTheirWay
<1> QED BY <1>1, <1>2, <1>3, SerialErrand, PTL DEF Spec
=============================================================================
