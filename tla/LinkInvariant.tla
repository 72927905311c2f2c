---------------------------- MODULE LinkInvariant ----------------------------
(***************************************************************************)
(* Why no mailbox of FunctionalSystem is ever overwritten: the link works  *)
(* like a baton.  At any time at most one party may start something: the   *)
(* application's thread, or the packet on its way down to the command      *)
(* processor, or the processor, or the packet on its way up to the host,   *)
(* or the response the host is about to send, or the acknowledgement on    *)
(* its way to cmdSync.  Statistics packets and the address half of a       *)
(* memory write travel up beside the baton.                                *)
(*                                                                         *)
(* This needs a build with LOG_ENABLED: without it the application goes on *)
(* after the handshake's timeout, while the handshake is still under way.  *)
(***************************************************************************)
EXTENDS FunctionalSystem

\* The packets the processor sends, by what the host does with them.
Debugs == {p \in Packet : DEVICE_DEBUG /\ p.cmd = MEMORY /\ p.sub_cmd = DEBUG}
Reads  == {p \in Packet : p.cmd = MEMORY /\ p.sub_cmd = MEM_READ}
Writes == {p \in Packet : p.cmd = MEMORY /\ p.sub_cmd = MEM_WRITE}
Acks   == {p \in Packet : p.cmd # MEMORY}

Opt(m) == IF m = NoMsg THEN <<>> ELSE <<m>>

\* Everything on its way up, oldest first: the processor appends to it, the
\* host's receive thread takes its head, and the steps in between keep it.
Up == ((Opt(impl_msg) \o driver_payload) \o Opt(tx_msg)) \o Opt(messages[PKT_FROM_CP])

AllDebug(s) == \A i \in 1 .. Len(s) : s[i] \in Debugs

\* One packet of S among statistics packets, or two.
One(s, S) ==
    \E k \in 1 .. Len(s) :
        /\ s[k] \in S
        /\ \A i \in 1 .. Len(s) : i # k => s[i] \in Debugs

Two(s, S) ==
    \E k, l \in 1 .. Len(s) :
        /\ k < l
        /\ s[k] \in S
        /\ s[l] \in S
        /\ \A i \in 1 .. Len(s) : i # k /\ i # l => s[i] \in Debugs

-----------------------------------------------------------------------------
(* The command processor by itself.                                        *)

AfterMem == {"FETCH_OP1_END", "FETCH_OP2_END", "CMD_END"}

MemoryState == {"MEM_FETCH", "MEM_FETCH_WAIT", "MEM_WRITE_ADDR",
                "MEM_WRITE_VAL_PREP", "MEM_WRITE_VAL", "MEM_WRITE_WAIT"}

DebugState == {"DEBUG_WRITE_REQUEST", "DEBUG_WRITE_RESPONSE", "DEBUG_WRITE_WAIT"}

\* What from_cp may hold in each state: where the processor has just pushed,
\* that packet or nothing; elsewhere nothing.
FromCpMay ==
    CASE cp.state = "MEM_FETCH_WAIT" -> Reads \cup {NoMsg}
      [] cp.state \in {"MEM_WRITE_VAL_PREP", "MEM_WRITE_WAIT"} -> Writes \cup {NoMsg}
      [] cp.state \in {"CMD_END_WAIT", "IDLE"} -> Acks \cup {NoMsg}
      [] cp.state = "DEBUG_WRITE_WAIT" -> Debugs \cup {NoMsg}
      [] OTHER -> {NoMsg}

CpInv ==
    /\ cp.state \notin {"IDLE", "DECODE"} => cp.pkt.cmd # MEMORY
    /\ cp.state \in MemoryState => cp.mem_op_restore_state \in AfterMem
    /\ cp.state = "DEBUG_WRITE_RESPONSE" => cp.wait_restore_state \in AfterMem
    /\ cp.state = "DEBUG_WRITE_REQUEST" => cp.wait_restore_state = "IDLE"
    /\ cp.state = "DEBUG_WRITE_WAIT" => cp.wait_restore_state \in AfterMem \cup {"IDLE"}
    /\ cp.state \in DebugState => DEVICE_DEBUG
    /\ messages[PKT_FROM_CP] \in FromCpMay

\* The processor is through with a command, but for its statistics.
Resting ==
    \/ cp.state \in {"IDLE", "CMD_END_WAIT", "DEBUG_WRITE_REQUEST"}
    \/ cp.state = "DEBUG_WRITE_WAIT" /\ cp.wait_restore_state = "IDLE"

-----------------------------------------------------------------------------
(* Who has the baton.                                                      *)

Waiting == mainPc \in {"hs_stat", "hs_pop", "hs_wait", "stat", "cmd_sync"}

DownEmpty ==
    /\ messages[PKT_TO_DEVICE] = NoMsg
    /\ rx_msg = NoMsg
    /\ messages[PKT_TO_CP] = NoMsg

DownOne ==
    \/ /\ messages[PKT_TO_DEVICE] # NoMsg
       /\ rx_msg = NoMsg
       /\ messages[PKT_TO_CP] = NoMsg
    \/ /\ messages[PKT_TO_DEVICE] = NoMsg
       /\ rx_msg # NoMsg
       /\ messages[PKT_TO_CP] = NoMsg
    \/ /\ messages[PKT_TO_DEVICE] = NoMsg
       /\ rx_msg = NoMsg
       /\ messages[PKT_TO_CP] # NoMsg

AllRead == \A i \in DOMAIN command_status_readback : command_status_readback[i].read

OneUnread ==
    \E k \in DOMAIN command_status_readback :
        \A i \in DOMAIN command_status_readback :
            i # k => command_status_readback[i].read

AckEmpty ==
    /\ received_payloads = <<>>
    /\ scratch = NoMsg
    /\ AllRead

AckOne ==
    \/ Len(received_payloads) = 1 /\ scratch = NoMsg /\ AllRead
    \/ received_payloads = <<>> /\ scratch # NoMsg /\ AllRead
    \/ received_payloads = <<>> /\ scratch = NoMsg /\ OneUnread

UpQuiet == AllDebug(Up) /\ mem_write_state = "ADDR_RECV"

MainHas ==
    /\ ~Waiting
    /\ DownEmpty /\ Resting /\ UpQuiet /\ impl_reply = NoMsg /\ AckEmpty

DownHas ==
    /\ Waiting
    /\ DownOne /\ UpQuiet /\ impl_reply = NoMsg /\ AckEmpty
    /\ Resting \/ cp.state \in {"MEM_FETCH_WAIT", "MEM_WRITE_WAIT"}

CpHas ==
    /\ Waiting
    /\ DownEmpty /\ impl_reply = NoMsg /\ AckEmpty
    /\ ~Resting
    /\ IF cp.state \in {"MEM_WRITE_VAL_PREP", "MEM_WRITE_VAL"}
       THEN \/ One(Up, Writes) /\ mem_write_state = "ADDR_RECV"
            \/ AllDebug(Up) /\ mem_write_state = "VAL_RECV"
       ELSE UpQuiet

UpHas ==
    /\ Waiting
    /\ DownEmpty /\ impl_reply = NoMsg /\ AckEmpty
    /\ \/ cp.state = "MEM_FETCH_WAIT" /\ One(Up, Reads) /\ mem_write_state = "ADDR_RECV"
       \/ cp.state = "MEM_WRITE_WAIT" /\ Two(Up, Writes) /\ mem_write_state = "ADDR_RECV"
       \/ cp.state = "MEM_WRITE_WAIT" /\ One(Up, Writes) /\ mem_write_state = "VAL_RECV"
       \/ Resting /\ One(Up, Acks) /\ mem_write_state = "ADDR_RECV"

ReplyHas ==
    /\ Waiting
    /\ DownEmpty /\ UpQuiet /\ impl_reply # NoMsg /\ AckEmpty
    /\ cp.state \in {"MEM_FETCH_WAIT", "MEM_WRITE_WAIT"}

AckHas ==
    /\ Waiting
    /\ DownEmpty /\ Resting /\ UpQuiet /\ impl_reply = NoMsg
    /\ AckOne \/ AckEmpty

\* The inductive invariant behind NoOverwrite and QuietOutsideSync: the
\* processor's registers fit its state, and the baton is in one place (or the
\* process has ended), although six threads push to three one-packet mailboxes
\* without looking (hw_module.h:61-68).
Baton ==
    /\ CpInv
    /\ \/ mainPc = "exited"
       \/ MainHas
       \/ DownHas
       \/ CpHas
       \/ UpHas
       \/ ReplyHas
       \/ AckHas

-----------------------------------------------------------------------------
(* What the parties carry.  Baton says that one packet at a time goes      *)
(* round; Errand says which one: the packet mSync waits for goes down, its *)
(* memory requests carry the addresses and the value they should, their    *)
(* answers bring what the memory holds, and what comes back to cmdSync     *)
(* answers the packet it waits for.  With it each write to the memory is   *)
(* the result of the next call, which is what MatrixAccelerator asks for.  *)

(* How far the calls are.                                                  *)

\* The body of the packet of each operand number.
Operand(c, n) ==
    CASE n = OP_1 -> c.first
      [] n = OP_2 -> c.second
      [] n = OP_3 -> c.result

\* recorded_commands is the rest of the calls' packets, three to a call.
Recorded ==
    \A i \in 1 .. Len(recorded_commands), k \in 1 .. Len(calls), n \in 0 .. 2 :
        Len(recorded_commands) - i = 3 * (Len(calls) - k) + (2 - n) =>
            /\ recorded_commands[i].cmd = calls[k].cmd
            /\ recorded_commands[i].sub_cmd = n
            /\ recorded_commands[i].body = Operand(calls[k], n)

\* The call that is performed now or next, and which of its operands the
\* packet at the head of recorded_commands has; -1 when the call's result is
\* in the memory and its last packet not acknowledged yet.
Current == calls[executed + 1]

Stage == 3 * (Len(calls) - executed) - Len(recorded_commands)

Stages ==
    /\ executed <= Len(calls)
    /\ Stage \in -1 .. 2
    /\ mainPc = "sync" => Stage # -1
    /\ ~Syncing => Stage = 0

\* The operands of the current call that are through are in the registers.
Operands ==
    /\ Stage >= 1 => cp.op1 = contents[Current.first]
    /\ Stage = 2 => cp.op2 = contents[Current.second]

-----------------------------------------------------------------------------
(* The packet the application's thread waits for.                          *)

InCall == mainPc \in {"stat", "cmd_sync"}

Request == IF InCall THEN Head(recorded_commands) ELSE HandshakeRequest

\* What the packet asks for is done.
Finished ==
    InCall => \/ Stage = -1
              \/ Stage = 0 /\ cp.op1 = contents[Current.first]
              \/ Stage = 1 /\ cp.op2 = contents[Current.second]

\* p is the response to it.
RightAck(p) ==
    /\ p.id = Request.id
    /\ p.type = RESPONSE
    /\ p.cmd = Request.cmd
    /\ p.sub_cmd = Request.sub_cmd
    /\ Finished

-----------------------------------------------------------------------------
(* The processor at work on it.                                            *)

\* Where the processor goes on after its statistics.
Target == IF cp.state \in DebugState THEN cp.wait_restore_state ELSE cp.state

WriteState == {"MEM_WRITE_ADDR", "MEM_WRITE_VAL_PREP", "MEM_WRITE_VAL", "MEM_WRITE_WAIT"}

Fetching ==
    /\ cp.mem_fetch_addr = cp.pkt.body
    /\ \/ Stage = 0 /\ cp.mem_op_restore_state = "FETCH_OP1_END"
       \/ Stage = 1 /\ cp.mem_op_restore_state = "FETCH_OP2_END"

Writing ==
    /\ cp.mem_write_addr = cp.pkt.body
    /\ cp.mem_val = Alu(cp.pkt.cmd, cp.op1, cp.op2)
    /\ cp.mem_op_restore_state = "CMD_END"

AtWork ==
    /\ cp.pkt = Request
    /\ cp.state = "DECODE" => Stage >= 0
    /\ ~InCall => cp.state \in {"DECODE", "HANDSHAKE"}
    /\ InCall => cp.state # "HANDSHAKE"
    /\ cp.state = "FETCH_OP1" => Stage = 0
    /\ cp.state = "FETCH_OP2" => Stage = 1
    /\ cp.state = "ADD"   => Stage = 2 /\ cp.pkt.cmd = ADD
    /\ cp.state = "MULP2" => Stage = 2 /\ cp.pkt.cmd = MULP2
    /\ cp.state = "DIVP2" => Stage = 2 /\ cp.pkt.cmd = DIVP2
    /\ cp.state \in {"MEM_FETCH", "MEM_FETCH_WAIT"} => Fetching
    /\ cp.state \in WriteState => Writing /\ Stage \in {-1, 2}
    /\ cp.state \in WriteState \ {"MEM_WRITE_WAIT"} => Stage = 2
    /\ Target = "FETCH_OP1_END" => Stage = 0 /\ cp.mem_val = contents[Current.first]
    /\ Target = "FETCH_OP2_END" => Stage = 1 /\ cp.mem_val = contents[Current.second]
    /\ Target = "CMD_END" => Finished

-----------------------------------------------------------------------------
(* The packets under way.                                                  *)

\* The answer the processor waits for in MEM_FETCH_WAIT and MEM_WRITE_WAIT.
RightAnswer(p) ==
    /\ cp.state = "MEM_FETCH_WAIT" =>
           Answers(p, MEM_READ) /\ p.body = contents[cp.mem_fetch_addr]
    /\ cp.state = "MEM_WRITE_WAIT" => Answers(p, MEM_WRITE) /\ Stage = -1

RightDown(p) ==
    p # NoMsg => IF Resting THEN p = Request /\ Stage >= 0 ELSE RightAnswer(p)

DownRight ==
    /\ RightDown(messages[PKT_TO_DEVICE])
    /\ RightDown(rx_msg)
    /\ RightDown(messages[PKT_TO_CP])

ReplyRight == impl_reply # NoMsg => RightAnswer(impl_reply)

\* A packet that goes up, whatever goes before it.
RightUp(p) ==
    /\ p \in Reads => p.id = cp.tx_cmd_id /\ p.body = cp.mem_fetch_addr
    /\ p \in Acks => RightAck(p)
    /\ p \in Writes => Stage = 2

UpRight == \A i \in 1 .. Len(Up) : RightUp(Up[i])

IsValue(p) == p.id = cp.tx_cmd_id /\ p.body = cp.mem_val

\* Of the two packets of a write, the address goes first.
WriteRight ==
    /\ mem_write_state = "VAL_RECV" => mem_write_addr_scratch = cp.mem_write_addr
    /\ cp.state \in {"MEM_WRITE_VAL_PREP", "MEM_WRITE_VAL"} =>
           \A i \in 1 .. Len(Up) : Up[i] \in Writes => Up[i].body = cp.mem_write_addr
    /\ cp.state = "MEM_WRITE_WAIT" /\ mem_write_state = "VAL_RECV" =>
           \A i \in 1 .. Len(Up) : Up[i] \in Writes => IsValue(Up[i])
    /\ cp.state = "MEM_WRITE_WAIT" /\ mem_write_state = "ADDR_RECV" =>
           \A i, l \in 1 .. Len(Up) :
               i < l /\ Up[i] \in Writes /\ Up[l] \in Writes =>
                   Up[i].body = cp.mem_write_addr /\ IsValue(Up[l])

AckRight ==
    /\ \A i \in DOMAIN received_payloads : RightAck(received_payloads[i])
    /\ scratch # NoMsg => RightAck(scratch)
    /\ \A i \in DOMAIN command_status_readback :
           ~command_status_readback[i].read => RightAck(command_status_readback[i].pkt)

\* Before mInit has returned nobody receives for mSync.
NotReceiving ==
    mainPc \in {"init", "hs_stat", "hs_pop", "hs_wait"} =>
        ~recv_running /\ scratch = NoMsg /\ command_status_readback = <<>>

\* The inductive invariant behind UnreadIsAwaited and the refinement of
\* MatrixAccelerator: each party holds the packet, the operand or the address
\* that the call at hand needs, although a packet is known by four bits only
\* and nothing but the order says which half of a write it is
\* (functional_impl.cpp:136-170).
Errand ==
    /\ Recorded
    /\ mainPc = "exited" => AllRead
    /\ mainPc # "exited" =>
           /\ Stages
           /\ Operands
           /\ ~Resting => AtWork
           /\ DownRight
           /\ ReplyRight
           /\ UpRight
           /\ WriteRight
           /\ AckRight
           /\ NotReceiving
-----------------------------------------------------------------------------
(* The statistics of debug builds.                                         *)

\* Nothing else goes up, even when the process has ended.
UpKinds == \A i \in 1 .. Len(Up) : Up[i] \in Debugs \cup Reads \cup Writes \cup Acks

\* The statistics packets about the processor's memory operations.
MemoryStats == {p \in Debugs : p.type = RESPONSE}

NoStats == \A i \in 1 .. Len(Up) : Up[i] \notin MemoryStats

\* The host has answered, and the processor has not sent its statistics yet.
StatsDue ==
    \/ cp.state \in {"MEM_FETCH_WAIT", "MEM_WRITE_WAIT"} /\ ~DownEmpty
    \/ cp.state = "DEBUG_WRITE_RESPONSE"

\* They are on their way up; the acknowledgement of the packet the operation
\* was for goes after them, so they are in before there is another operation.
StatsInOrder ==
    \E k \in 1 .. Len(Up) :
        /\ Up[k] \in MemoryStats
        /\ \A i \in 1 .. Len(Up) : i # k => Up[i] \notin MemoryStats
        /\ \A i \in 1 .. Len(Up) : Up[i] \in Acks => k < i

StatsUnderWay ==
    /\ StatsInOrder
    /\ IF Resting THEN \E i \in 1 .. Len(Up) : Up[i] \in Acks
       ELSE Target \in AfterMem

\* The response they are about is alone in the host's list.
Remembered ==
    /\ Len(last_response_pkt) = 1
    /\ Head(last_response_pkt).id = cp.tx_cmd_id

\* The inductive invariant behind ResponseStatsAttribution: the list of responses
\* holds the one whose statistics are due or under way, and nothing else.
Accounted ==
    DEVICE_DEBUG =>
        IF StatsDue THEN Remembered /\ NoStats
        ELSE \/ last_response_pkt = <<>> /\ NoStats
             \/ Remembered /\ StatsUnderWay
=============================================================================
