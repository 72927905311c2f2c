-------------------------- MODULE CommandProcessor --------------------------
(***************************************************************************)
(* The command processor of the FPGA (command_processor.v).  CpClock is    *)
(* one rising edge: one branch of the state machine.  A branch that waits  *)
(* leaves every register alone.                                            *)
(*                                                                         *)
(* cp holds the registers but the two that are wires to the packet layer.  *)
(* cp_cycle_count only fills the body of a statistics packet: it is left   *)
(* out and the body is 0.                                                  *)
(***************************************************************************)
EXTENDS PacketBytes, PreinceptionAlu

VARIABLES
    rx_packet, rx_packet_ready,     \* wires in
    tx_packet_sent,
    cp,
    tx_packet, tx_packet_ready      \* wires out

commandProcessorVars == <<cp, tx_packet, tx_packet_ready>>

CpState ==
    {"CP_IDLE", "CP_PACKET_DECODE", "CP_HANDSHAKE_PREP", "CP_HANDSHAKE",
     "CP_TX_PACKET_SENT_WAIT", "CP_DELAY", "CP_STOP", "CP_MEM_FETCH_PREP",
     "CP_MEM_FETCH", "CP_MEM_FETCH_END", "CP_MEM_WRITE_ADDR_PREP",
     "CP_MEM_WRITE_ADDR", "CP_MEM_WRITE_VAL_PREP", "CP_MEM_WRITE_VAL",
     "CP_MEM_WRITE_END", "CP_FETCH_OP1", "CP_FETCH_OP1_END", "CP_FETCH_OP2",
     "CP_FETCH_OP2_END", "CP_CMD_END_PREP", "CP_CMD_END", "CP_ADD", "CP_MULP2",
     "CP_DIVP2", "CP_DEBUG_WRITE_WAIT_PREP", "CP_DEBUG_WRITE_WAIT",
     "CP_STOP_MODIFIED", "CP_DEBUG_WRITE_RESTORE"}

CpTypeOK ==
    /\ cp \in [state : CpState, delay_counter : 0 .. 2, delay_cycles : {1, 2},
               delay_restore_state : CpState, wait_restore_state : CpState,
               mem_op_restore_state : CpState, debug_restore_state : CpState,
               pkt_id : Nibble, pkt_cmd : Nibble, pkt_sub_cmd : Nibble,
               tx_cmd_id : Nibble, mem_fetch_addr : Word, mem_write_addr : Word,
               mem_val : Word, op_1 : Word, op_2 : Word,
               debug_pkt_type : {REQUEST, RESPONSE}]
    /\ tx_packet \in [1 .. 6 -> Byte]
    /\ tx_packet_ready \in {0, 1}

\* debug_restore_state is not reset; it is written before it is read.
CpInit ==
    /\ cp = [state |-> "CP_IDLE", delay_counter |-> 0, delay_cycles |-> 1,
             delay_restore_state |-> "CP_IDLE", wait_restore_state |-> "CP_IDLE",
             mem_op_restore_state |-> "CP_IDLE", debug_restore_state |-> "CP_IDLE",
             pkt_id |-> 0, pkt_cmd |-> 0, pkt_sub_cmd |-> 0, tx_cmd_id |-> 0,
             mem_fetch_addr |-> 0, mem_write_addr |-> 0, mem_val |-> 0,
             op_1 |-> 0, op_2 |-> 0, debug_pkt_type |-> REQUEST]
    /\ tx_packet = [i \in 1 .. 6 |-> 0]
    /\ tx_packet_ready = 0

At(state) == cp.state = state

\* Only registers change, or none at all.
Registers(new) == cp' = new /\ UNCHANGED <<tx_packet, tx_packet_ready>>

\* Lower tx_packet_ready and go to then after a delay of three clocks.
Lower(new, then) ==
    /\ tx_packet_ready' = 0
    /\ cp' = [new EXCEPT !.delay_counter = 0, !.delay_cycles = 2,
                         !.delay_restore_state = then, !.state = "CP_DELAY"]
    /\ UNCHANGED tx_packet

\* Raise tx_packet_ready on a packet.
Raise(p, new) == tx_packet' = Flatten(p) /\ tx_packet_ready' = 1 /\ cp' = new

\* Raise it and wait until the packet is sent, then go to then.
Transmit(p, then) ==
    Raise(p, [cp EXCEPT !.wait_restore_state = then, !.state = "CP_TX_PACKET_SENT_WAIT"])

-----------------------------------------------------------------------------
(* Receiving, decoding, waiting.                                           *)

CpIdle ==
    /\ At("CP_IDLE")
    /\ Registers(
           IF rx_packet_ready = 0 THEN cp
           ELSE [cp EXCEPT !.debug_pkt_type = REQUEST, !.delay_cycles = 1,
                           !.delay_counter = 0, !.mem_op_restore_state = "CP_IDLE",
                           !.wait_restore_state = "CP_IDLE",
                           !.delay_restore_state = "CP_IDLE",
                           !.pkt_id = LowNibble(rx_packet[1]),
                           !.pkt_cmd = LowNibble(rx_packet[2]),
                           !.pkt_sub_cmd = HighNibble(rx_packet[2]),
                           !.state = "CP_PACKET_DECODE"])

\* A command or an operand that is none of these keeps it here.
Decoded(cmd, sub_cmd) ==
    CASE cmd = HANDSHAKE -> "CP_HANDSHAKE_PREP"
      [] cmd \in {ADD, MULP2, DIVP2} /\ sub_cmd = OP_1 -> "CP_FETCH_OP1"
      [] cmd \in {ADD, MULP2, DIVP2} /\ sub_cmd = OP_2 -> "CP_FETCH_OP2"
      [] cmd = ADD   /\ sub_cmd = OP_3 -> "CP_ADD"
      [] cmd = MULP2 /\ sub_cmd = OP_3 -> "CP_MULP2"
      [] cmd = DIVP2 /\ sub_cmd = OP_3 -> "CP_DIVP2"
      [] OTHER -> "CP_PACKET_DECODE"

CpPacketDecode ==
    /\ At("CP_PACKET_DECODE")
    /\ Registers([cp EXCEPT !.state = Decoded(cp.pkt_cmd, cp.pkt_sub_cmd)])

CpDelay ==
    /\ At("CP_DELAY")
    /\ Registers(IF cp.delay_counter = cp.delay_cycles
                 THEN [cp EXCEPT !.state = cp.delay_restore_state]
                 ELSE [cp EXCEPT !.delay_counter = @ + 1])

CpTxPacketSentWait ==
    /\ At("CP_TX_PACKET_SENT_WAIT")
    /\ Registers(IF tx_packet_sent = 1
                 THEN [cp EXCEPT !.state = cp.wait_restore_state] ELSE cp)

-----------------------------------------------------------------------------
(* The response to a command.                                              *)

CpHandshakePrep == At("CP_HANDSHAKE_PREP") /\ Lower(cp, "CP_HANDSHAKE")

CpResponse(body) == Payload(cp.pkt_id, RESPONSE, cp.pkt_cmd, cp.pkt_sub_cmd, body)

CpHandshake ==
    /\ At("CP_HANDSHAKE")
    /\ Transmit(CpResponse(HandshakeBody),
                IF DEVICE_DEBUG THEN "CP_STOP_MODIFIED" ELSE "CP_STOP")

CpCmdEndPrep == At("CP_CMD_END_PREP") /\ Lower(cp, "CP_CMD_END")

CpCmdEnd == At("CP_CMD_END") /\ Transmit(CpResponse(0), "CP_STOP")

\* Mutant: the processor does not wait for the packet to go away.
CpNextCommandAtOnce ==
    /\ At(IF DEVICE_DEBUG THEN "CP_STOP_MODIFIED" ELSE "CP_STOP")
    /\ Registers([cp EXCEPT !.tx_cmd_id = 0, !.state = "CP_IDLE"])

\* Mutant: the falling of rx_packet_ready is not seen.
CpNextCommandMissed ==
    /\ At(IF DEVICE_DEBUG THEN "CP_STOP_MODIFIED" ELSE "CP_STOP")
    /\ Registers(cp)

\* Wait for the next packet to begin: until then the last one is still ready.
CpNextCommand ==
    /\ At(IF DEVICE_DEBUG THEN "CP_STOP_MODIFIED" ELSE "CP_STOP")
    /\ Registers(IF rx_packet_ready = 0
                 THEN [cp EXCEPT !.tx_cmd_id = 0, !.state = "CP_IDLE"] ELSE cp)

-----------------------------------------------------------------------------
(* Debug builds: a statistics packet after the response to a command and   *)
(* after each memory operation.  Ready is lowered for one clock only.      *)

Statistics(state, type, new) ==
    /\ DEVICE_DEBUG
    /\ At(state)
    /\ IF tx_packet_sent = 1
       THEN /\ tx_packet_ready' = 0
            /\ cp' = [new EXCEPT !.debug_pkt_type = type, !.state = "CP_DEBUG_WRITE_WAIT"]
            /\ UNCHANGED tx_packet
       ELSE UNCHANGED commandProcessorVars

CpStop ==
    Statistics("CP_STOP", REQUEST, [cp EXCEPT !.debug_restore_state = "CP_STOP_MODIFIED"])

CpDebugWriteWaitPrep == Statistics("CP_DEBUG_WRITE_WAIT_PREP", RESPONSE, cp)

\* Mutant: the statistics are marked as halves of a memory write.
CpDebugWriteWaitAsWrite ==
    /\ At("CP_DEBUG_WRITE_WAIT")
    /\ Transmit(Payload(cp.pkt_id, cp.debug_pkt_type, MEMORY, MEM_WRITE, 0),
                "CP_DEBUG_WRITE_RESTORE")

CpDebugWriteWait ==
    /\ At("CP_DEBUG_WRITE_WAIT")
    /\ Transmit(Payload(cp.pkt_id, cp.debug_pkt_type, MEMORY, DEBUG, 0),
                "CP_DEBUG_WRITE_RESTORE")

CpDebugWriteRestore ==
    /\ At("CP_DEBUG_WRITE_RESTORE")
    /\ Registers([cp EXCEPT !.state = cp.debug_restore_state])

-----------------------------------------------------------------------------
(* Memory operations.                                                      *)

NextId == [cp EXCEPT !.tx_cmd_id = (@ + 1) % 16]

CpRequest(sub_cmd, body) == Payload(cp.tx_cmd_id, REQUEST, MEMORY, sub_cmd, body)

CpMemFetchPrep == At("CP_MEM_FETCH_PREP") /\ Lower(NextId, "CP_MEM_FETCH")

CpMemFetch ==
    /\ At("CP_MEM_FETCH")
    /\ Transmit(CpRequest(MEM_READ, cp.mem_fetch_addr), "CP_MEM_FETCH_END")

\* The packet that is ready answers the memory operation that is pending.
Answered(sub_cmd) ==
    LET p == Unflatten(rx_packet) IN
    /\ rx_packet_ready = 1
    /\ p.id = cp.tx_cmd_id
    /\ p.type = RESPONSE
    /\ p.cmd = MEMORY
    /\ p.sub_cmd = sub_cmd

AfterMemOp(new) ==
    IF DEVICE_DEBUG
    THEN [new EXCEPT !.debug_restore_state = cp.mem_op_restore_state,
                     !.state = "CP_DEBUG_WRITE_WAIT_PREP"]
    ELSE [new EXCEPT !.state = cp.mem_op_restore_state]

CpMemFetchEnd ==
    /\ At("CP_MEM_FETCH_END")
    /\ Registers(IF Answered(MEM_READ)
                 THEN AfterMemOp([cp EXCEPT !.mem_val = Body(rx_packet)]) ELSE cp)

CpMemWriteAddrPrep == At("CP_MEM_WRITE_ADDR_PREP") /\ Lower(NextId, "CP_MEM_WRITE_ADDR")

CpMemWriteAddr ==
    /\ At("CP_MEM_WRITE_ADDR")
    /\ Raise(CpRequest(MEM_WRITE, cp.mem_write_addr),
             [cp EXCEPT !.state = "CP_MEM_WRITE_VAL_PREP"])

\* Mutant: the value does not wait until the address is sent.
CpMemWriteValPrepAtOnce ==
    At("CP_MEM_WRITE_VAL_PREP") /\ Lower(NextId, "CP_MEM_WRITE_VAL")

CpMemWriteValPrep ==
    /\ At("CP_MEM_WRITE_VAL_PREP")
    /\ IF tx_packet_sent = 1 THEN Lower(NextId, "CP_MEM_WRITE_VAL")
                             ELSE UNCHANGED commandProcessorVars

\* Mutant: the command is ended without waiting for the answer.
CpMemWriteValUnanswered ==
    /\ At("CP_MEM_WRITE_VAL")
    /\ Transmit(CpRequest(MEM_WRITE, cp.mem_val), cp.mem_op_restore_state)

CpMemWriteVal ==
    /\ At("CP_MEM_WRITE_VAL")
    /\ Transmit(CpRequest(MEM_WRITE, cp.mem_val), "CP_MEM_WRITE_END")

CpMemWriteEnd ==
    /\ At("CP_MEM_WRITE_END")
    /\ Registers(IF Answered(MEM_WRITE) THEN AfterMemOp(cp) ELSE cp)

-----------------------------------------------------------------------------
(* The commands.  The body is read from the packet layer's register, not   *)
(* from a copy.                                                            *)

CpFetchOp(state, then) ==
    /\ At(state)
    /\ Registers([cp EXCEPT !.mem_fetch_addr = Body(rx_packet),
                            !.mem_op_restore_state = then,
                            !.state = "CP_MEM_FETCH_PREP"])

CpFetchOp1 == CpFetchOp("CP_FETCH_OP1", "CP_FETCH_OP1_END")
CpFetchOp2 == CpFetchOp("CP_FETCH_OP2", "CP_FETCH_OP2_END")

CpFetchOp1End ==
    /\ At("CP_FETCH_OP1_END")
    /\ Registers([cp EXCEPT !.op_1 = cp.mem_val, !.state = "CP_CMD_END_PREP"])

\* Mutant: the second operand lands in the first.
CpFetchOp2EndSwapped ==
    /\ At("CP_FETCH_OP2_END")
    /\ Registers([cp EXCEPT !.op_1 = cp.mem_val, !.state = "CP_CMD_END_PREP"])

CpFetchOp2End ==
    /\ At("CP_FETCH_OP2_END")
    /\ Registers([cp EXCEPT !.op_2 = cp.mem_val, !.state = "CP_CMD_END_PREP"])

CpExecute(state, cmd) ==
    /\ At(state)
    /\ Registers([cp EXCEPT !.mem_write_addr = Body(rx_packet),
                            !.mem_val = RtlAlu(cmd, cp.op_1, cp.op_2),
                            !.mem_op_restore_state = "CP_CMD_END_PREP",
                            !.state = "CP_MEM_WRITE_ADDR_PREP"])

CpClock ==
    \/ CpIdle
    \/ CpPacketDecode
    \/ CpDelay
    \/ CpTxPacketSentWait
    \/ CpHandshakePrep
    \/ CpHandshake
    \/ CpCmdEndPrep
    \/ CpCmdEnd
    \/ CpNextCommand
    \/ CpStop
    \/ CpDebugWriteWaitPrep
    \/ CpDebugWriteWait
    \/ CpDebugWriteRestore
    \/ CpMemFetchPrep
    \/ CpMemFetch
    \/ CpMemFetchEnd
    \/ CpMemWriteAddrPrep
    \/ CpMemWriteAddr
    \/ CpMemWriteValPrep
    \/ CpMemWriteVal
    \/ CpMemWriteEnd
    \/ CpFetchOp1
    \/ CpFetchOp1End
    \/ CpFetchOp2
    \/ CpFetchOp2End
    \/ CpExecute("CP_ADD", ADD)
    \/ CpExecute("CP_MULP2", MULP2)
    \/ CpExecute("CP_DIVP2", DIVP2)
=============================================================================
