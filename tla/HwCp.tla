-------------------------------- MODULE HwCp --------------------------------
(***************************************************************************)
(* The command processor of the functional model: HwCp::execute, run once  *)
(* per clock tick by its only thread.  Each action is one branch of the    *)
(* state machine; a branch that finds nothing to do leaves the state alone *)
(* and is a stuttering step, so is DECODE of a packet it does not know.    *)
(*                                                                         *)
(* cp holds the object's fields.  op1 and op2 are never initialised in the *)
(* program: their first value is any member of Garbage.  The other fields  *)
(* without an initialiser are written before they are read and start at 0. *)
(* cp_cycle_count only fills the body of a debug packet and is left out.   *)
(***************************************************************************)
EXTENDS HwModule, PreinceptionAlu

CONSTANT Garbage    \* what the uninitialised operands may hold

ASSUME CpAssumption == Garbage \subseteq Word

VARIABLE cp

CpState == {"IDLE", "DECODE", "HANDSHAKE", "MEM_FETCH", "MEM_FETCH_WAIT",
            "MEM_WRITE_ADDR", "MEM_WRITE_VAL_PREP", "MEM_WRITE_VAL",
            "MEM_WRITE_WAIT", "FETCH_OP1", "FETCH_OP1_END", "FETCH_OP2",
            "FETCH_OP2_END", "ADD", "MULP2", "DIVP2", "CMD_END",
            "CMD_END_WAIT", "DEBUG_WRITE_REQUEST", "DEBUG_WRITE_RESPONSE",
            "DEBUG_WRITE_WAIT"}

CpTypeOK ==
    cp \in [state : CpState, mem_op_restore_state : CpState,
            wait_restore_state : CpState, pkt : Packet,
            mem_fetch_addr : Word, mem_write_addr : Word, mem_val : Word,
            op1 : Word, op2 : Word, tx_cmd_id : Nibble]

CpInit ==
    \E g1, g2 \in Garbage :
        cp = [state |-> "IDLE", mem_op_restore_state |-> "IDLE",
              wait_restore_state |-> "IDLE",
              pkt |-> Payload(0, REQUEST, MEMORY, OP_1, 0),
              mem_fetch_addr |-> 0, mem_write_addr |-> 0, mem_val |-> 0,
              op1 |-> g1, op2 |-> g2, tx_cmd_id |-> 0]

-----------------------------------------------------------------------------
(* Receiving and decoding a command packet.                                *)

CpIdle ==
    /\ cp.state = "IDLE"
    /\ TakeMessage(PKT_TO_CP)
    /\ cp' = [cp EXCEPT !.pkt = messages[PKT_TO_CP], !.state = "DECODE"]

\* Where DECODE goes; an unknown command or operand keeps it in DECODE.
Decoded(p) ==
    CASE p.cmd = HANDSHAKE -> "HANDSHAKE"
      [] p.cmd \in {ADD, MULP2, DIVP2} /\ p.sub_cmd = OP_1 -> "FETCH_OP1"
      [] p.cmd \in {ADD, MULP2, DIVP2} /\ p.sub_cmd = OP_2 -> "FETCH_OP2"
      [] p.cmd = ADD   /\ p.sub_cmd = OP_3 -> "ADD"
      [] p.cmd = MULP2 /\ p.sub_cmd = OP_3 -> "MULP2"
      [] p.cmd = DIVP2 /\ p.sub_cmd = OP_3 -> "DIVP2"
      [] OTHER -> "DECODE"

CpDecode ==
    /\ cp.state = "DECODE"
    /\ cp' = [cp EXCEPT !.state = Decoded(cp.pkt)]
    /\ UNCHANGED messages

\* The response is pushed and the state goes to IDLE at once: unlike every
\* other packet it is not waited for.
CpHandshake ==
    /\ cp.state = "HANDSHAKE"
    /\ PushMessage(PKT_FROM_CP,
           Payload(cp.pkt.id, RESPONSE, cp.pkt.cmd, cp.pkt.sub_cmd, HandshakeBody))
    /\ cp' = [cp EXCEPT !.state = "IDLE"]

-----------------------------------------------------------------------------
(* Debug builds: statistics after a memory operation and after a command.  *)

DebugPayload(type) == Payload(cp.pkt.id, type, MEMORY, DEBUG, 0)

CpDebugWriteRequest ==
    /\ cp.state = "DEBUG_WRITE_REQUEST"
    /\ PushMessage(PKT_FROM_CP, DebugPayload(REQUEST))
    /\ cp' = [cp EXCEPT !.state = "DEBUG_WRITE_WAIT"]

CpDebugWriteResponse ==
    /\ cp.state = "DEBUG_WRITE_RESPONSE"
    /\ PushMessage(PKT_FROM_CP, DebugPayload(RESPONSE))
    /\ cp' = [cp EXCEPT !.state = "DEBUG_WRITE_WAIT"]

\* Mutant: the processor goes on while its statistics are still pending.
CpDebugWriteNoWait ==
    /\ cp.state = "DEBUG_WRITE_WAIT"
    /\ cp' = [cp EXCEPT !.state = cp.wait_restore_state]
    /\ UNCHANGED messages

CpDebugWriteWait ==
    /\ cp.state = "DEBUG_WRITE_WAIT"
    /\ MessageAck(PKT_FROM_CP)
    /\ cp' = [cp EXCEPT !.state = cp.wait_restore_state]
    /\ UNCHANGED messages

-----------------------------------------------------------------------------
(* Memory traffic with the host.                                           *)

\* Mutant: the id is not kept to four bits.
NextTxIdUnbounded == cp.tx_cmd_id + 1

NextTxId == (cp.tx_cmd_id + 1) % 16

\* The three memory requests: advance tx_cmd_id, push the packet, move on.
CpRequest(from, sub_cmd, body, to) ==
    /\ cp.state = from
    /\ PushMessage(PKT_FROM_CP, Payload(NextTxId, REQUEST, MEMORY, sub_cmd, body))
    /\ cp' = [cp EXCEPT !.tx_cmd_id = NextTxId, !.state = to]

CpMemFetch    == CpRequest("MEM_FETCH", MEM_READ, cp.mem_fetch_addr, "MEM_FETCH_WAIT")
CpMemWriteAddr ==
    CpRequest("MEM_WRITE_ADDR", MEM_WRITE, cp.mem_write_addr, "MEM_WRITE_VAL_PREP")

\* Mutant: the command is ended without waiting for the write's response.
CpMemWriteValUnanswered == CpRequest("MEM_WRITE_VAL", MEM_WRITE, cp.mem_val, "CMD_END")

CpMemWriteVal == CpRequest("MEM_WRITE_VAL", MEM_WRITE, cp.mem_val, "MEM_WRITE_WAIT")

\* Mutant: the value follows the address without waiting for its ack.
CpMemWriteValPrepUnacked ==
    /\ cp.state = "MEM_WRITE_VAL_PREP"
    /\ cp' = [cp EXCEPT !.state = "MEM_WRITE_VAL"]
    /\ UNCHANGED messages

CpMemWriteValPrep ==
    /\ cp.state = "MEM_WRITE_VAL_PREP"
    /\ MessageAck(PKT_FROM_CP)
    /\ cp' = [cp EXCEPT !.state = "MEM_WRITE_VAL"]
    /\ UNCHANGED messages

\* Does p answer the memory request of the given kind that is outstanding?
Answers(p, sub_cmd) ==
    /\ p.id = cp.tx_cmd_id
    /\ p.type = RESPONSE
    /\ p.cmd = MEMORY
    /\ p.sub_cmd = sub_cmd

\* Mutant: a debug build forgets which state the memory operation came from.
AfterMemOpForgets(c) ==
    IF DEVICE_DEBUG
    THEN [c EXCEPT !.wait_restore_state = "CMD_END", !.state = "DEBUG_WRITE_RESPONSE"]
    ELSE [c EXCEPT !.state = c.mem_op_restore_state]

\* Back to the interrupted command, after a statistics packet in debug builds.
AfterMemOp(c) ==
    IF DEVICE_DEBUG
    THEN [c EXCEPT !.wait_restore_state = c.mem_op_restore_state,
                   !.state = "DEBUG_WRITE_RESPONSE"]
    ELSE [c EXCEPT !.state = c.mem_op_restore_state]

\* A packet that does not answer the request is consumed and dropped.
CpMemFetchWait ==
    /\ cp.state = "MEM_FETCH_WAIT"
    /\ TakeMessage(PKT_TO_CP)
    /\ LET p == messages[PKT_TO_CP] IN
       cp' = IF Answers(p, MEM_READ)
             THEN AfterMemOp([cp EXCEPT !.mem_val = p.body])
             ELSE cp

CpMemWriteWait ==
    /\ cp.state = "MEM_WRITE_WAIT"
    /\ TakeMessage(PKT_TO_CP)
    /\ cp' = IF Answers(messages[PKT_TO_CP], MEM_WRITE) THEN AfterMemOp(cp) ELSE cp

-----------------------------------------------------------------------------
(* The commands.                                                           *)

CpFetchOp1 ==
    /\ cp.state = "FETCH_OP1"
    /\ cp' = [cp EXCEPT !.mem_fetch_addr = cp.pkt.body,
                        !.mem_op_restore_state = "FETCH_OP1_END",
                        !.state = "MEM_FETCH"]
    /\ UNCHANGED messages

CpFetchOp1End ==
    /\ cp.state = "FETCH_OP1_END"
    /\ cp' = [cp EXCEPT !.op1 = cp.mem_val, !.state = "CMD_END"]
    /\ UNCHANGED messages

CpFetchOp2 ==
    /\ cp.state = "FETCH_OP2"
    /\ cp' = [cp EXCEPT !.mem_fetch_addr = cp.pkt.body,
                        !.mem_op_restore_state = "FETCH_OP2_END",
                        !.state = "MEM_FETCH"]
    /\ UNCHANGED messages

\* Mutant: the second operand lands in the first.
CpFetchOp2EndSwapped ==
    /\ cp.state = "FETCH_OP2_END"
    /\ cp' = [cp EXCEPT !.op1 = cp.mem_val, !.state = "CMD_END"]
    /\ UNCHANGED messages

CpFetchOp2End ==
    /\ cp.state = "FETCH_OP2_END"
    /\ cp' = [cp EXCEPT !.op2 = cp.mem_val, !.state = "CMD_END"]
    /\ UNCHANGED messages

\* ADD, MULP2 and DIVP2: compute, then write the result to the host.
CpExecute(state, cmd) ==
    /\ cp.state = state
    /\ cp' = [cp EXCEPT !.mem_write_addr = cp.pkt.body,
                        !.mem_val = Alu(cmd, cp.op1, cp.op2),
                        !.mem_op_restore_state = "CMD_END",
                        !.state = "MEM_WRITE_ADDR"]
    /\ UNCHANGED messages

\* Mutant: the response carries the processor's own request id.
CpCmdEndWrongId ==
    /\ cp.state = "CMD_END"
    /\ PushMessage(PKT_FROM_CP,
           Payload(cp.tx_cmd_id, RESPONSE, cp.pkt.cmd, cp.pkt.sub_cmd, 0))
    /\ cp' = [cp EXCEPT !.state = "CMD_END_WAIT"]

CpCmdEnd ==
    /\ cp.state = "CMD_END"
    /\ PushMessage(PKT_FROM_CP,
           Payload(cp.pkt.id, RESPONSE, cp.pkt.cmd, cp.pkt.sub_cmd, 0))
    /\ cp' = [cp EXCEPT !.state = "CMD_END_WAIT"]

CpCmdEndWait ==
    /\ cp.state = "CMD_END_WAIT"
    /\ MessageAck(PKT_FROM_CP)
    /\ cp' = IF DEVICE_DEBUG
             THEN [cp EXCEPT !.wait_restore_state = "IDLE",
                             !.state = "DEBUG_WRITE_REQUEST"]
             ELSE [cp EXCEPT !.state = "IDLE"]
    /\ UNCHANGED messages

CpExecuteTick ==
    \/ CpIdle
    \/ CpDecode
    \/ CpHandshake
    \/ CpDebugWriteRequest
    \/ CpDebugWriteResponse
    \/ CpDebugWriteWait
    \/ CpMemFetch
    \/ CpMemFetchWait
    \/ CpMemWriteAddr
    \/ CpMemWriteValPrep
    \/ CpMemWriteVal
    \/ CpMemWriteWait
    \/ CpFetchOp1
    \/ CpFetchOp1End
    \/ CpFetchOp2
    \/ CpFetchOp2End
    \/ CpExecute("ADD", ADD)
    \/ CpExecute("MULP2", MULP2)
    \/ CpExecute("DIVP2", DIVP2)
    \/ CpCmdEnd
    \/ CpCmdEndWait
=============================================================================
