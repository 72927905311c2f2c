--------------------------- MODULE SerialInvariant ---------------------------
(***************************************************************************)
(* The inductive invariants of SerialSystem.  Turns says what the bytes    *)
(* between the board and the host are, who has something to send and what  *)
(* kind of packet it is; Errand says which packet; Remembering says whose  *)
(* statistics are due or under way in a debug build.                       *)
(***************************************************************************)
EXTENDS SerialSystem

\* The ring holds what the board sends without being asked: in a release build
\* the two halves of a write, in a debug build a packet of statistics before
\* them.  The program's ring has 256 bytes.
ASSUME BufferAssumption == RingSize >= IF DEVICE_DEBUG THEN 18 ELSE 12

-----------------------------------------------------------------------------
(* From the board to the host: bytes on their way up, in found or scratch, *)
(* in the ring and in the port, and the packets they make.                 *)

Ring == [i \in 1 .. InRing |-> read_buffer[(read_buffer_ptr_lo + (i - 1)) % RingSize]]

UpBytes == (found \o scratch) \o (Ring \o port_in)

Total == Len(UpBytes)

\* The packets that are up as a whole; the oldest byte begins the first.
Up == [j \in 1 .. Total \div 6 |-> Unflatten([i \in 1 .. 6 |-> UpBytes[6 * (j - 1) + i]])]

\* Bytes of tx_packet that UARTTx has sent.
Delivered ==
    CASE ptx.state = "TX_IDLE" -> 0
      [] ptx.state = "TX_SEND" -> ptx.idx
      [] ptx.state = "TX_SEND_WAIT" -> IF phase \in {"idle", "shift"} THEN ptx.idx - 1 ELSE ptx.idx
      [] ptx.state = "TX_END" -> 6

Busy == tx_packet_ready = 1 /\ Delivered < 6

\* Bytes of a packet that is not up as a whole.
Partial == IF Delivered = 6 THEN 0 ELSE Delivered

Sending == Unflatten(tx_packet)

Framed ==
    /\ Total % 6 = Partial
    /\ \A i \in 1 .. Partial : UpBytes[6 * (Total \div 6) + i] = tx_packet[i]

-----------------------------------------------------------------------------
(* The packet layer's transmitter and UARTTx.                              *)

\* UARTTx has nothing to do.
ByteIdle == phase = "idle" /\ data_sent = 0 /\ tx_data_en = 0

\* The request for a packet's last byte is still up.
ByteLeft == phase = "done" /\ data_sent = 1 /\ tx_data_en = 1

\* The handshakes on both sides of the packet layer (uart_packet.v:213-318,
\* uart_tx.v:113).
TxHandshake ==
    /\ ptx.state = "TX_IDLE" => tx_packet_sent = 0 /\ (ByteIdle \/ ByteLeft)
    /\ ptx.state = "TX_SEND" =>
           /\ ptx.idx < 6 /\ tx_packet_sent = 0 /\ tx_packet_ready = 1
           /\ \/ ByteIdle
              \/ phase = "done" /\ data_sent = 1 /\ (tx_data_en = 0 \/ ptx.idx = 0)
    /\ ptx.state = "TX_SEND_WAIT" =>
           /\ ptx.idx > 0 /\ tx_packet_sent = 0 /\ tx_packet_ready = 1
           /\ tx_data_en = 1 /\ tx_data = tx_packet[ptx.idx]
           /\ \/ phase \in {"idle", "shift", "stop"} /\ data_sent = 0
              \/ phase = "done" /\ data_sent = 1
           /\ phase = "shift" => byte = tx_packet[ptx.idx]
    /\ ptx.state = "TX_END" => ByteLeft

\* Where the processor stands towards the packet layer: a packet is announced
\* only when the layer has seen that the one before it has been withdrawn.
Settled ==
    \/ tx_packet_ready = 0 /\ ptx.state = "TX_IDLE"
    \/ tx_packet_ready = 1 /\ ptx.state = "TX_END" /\ tx_packet_sent = 1

Announce == {"CP_HANDSHAKE", "CP_MEM_FETCH", "CP_CMD_END", "CP_MEM_WRITE_ADDR", "CP_MEM_WRITE_VAL"}

CpHandshakes ==
    CASE cp.state \in {"CP_TX_PACKET_SENT_WAIT", "CP_MEM_WRITE_VAL_PREP"} -> tx_packet_ready = 1
      [] cp.state = "CP_DELAY" ->
             /\ tx_packet_ready = 0
             /\ ptx.state \in {"TX_END", "TX_IDLE"}
             /\ cp.delay_counter > 0 => ptx.state = "TX_IDLE"
             /\ cp.delay_cycles = 2
             /\ cp.delay_restore_state \in Announce
      [] cp.state \in Announce -> tx_packet_ready = 0 /\ ptx.state = "TX_IDLE"
      [] cp.state = "CP_DEBUG_WRITE_WAIT" -> tx_packet_ready = 0 /\ ptx.state = "TX_END"
      [] OTHER -> Settled

-----------------------------------------------------------------------------
(* From the host to the board: at most one packet at a time, whose bytes   *)
(* are in the port, in rx_data and in rx_packet.                           *)

DownByte(i) ==
    LET n == 6 - Len(port_out)      \* bytes UARTRx has reported
    IN  IF i > n THEN port_out[i - n]
        ELSE IF prx.state = "RX_RECEIVE" /\ i = prx.idx + 1 THEN rx_data
        ELSE rx_packet[i]

Down == Unflatten([i \in 1 .. 6 |-> DownByte(i)])

\* How far the packet layer and UARTRx are with it (uart_packet.v:61-206).
DownShape ==
    LET n == 6 - Len(port_out) IN
    /\ n \in 0 .. 6
    /\ rx_packet_ready = 1 => prx.state = "RX_END"
    /\ \/ n = 0 /\ prx.state = "RX_IDLE"
       \/ n = 0 /\ prx.state = "RX_END" /\ rx_packet_ready = 1
       \/ n = 0 /\ prx.state = "RX_RECEIVE" /\ prx.idx = 0 /\ rx_data_en = 0
       \/ n > 0 /\ prx.state = "RX_RECEIVE" /\ prx.idx = n - 1 /\ rx_data_en = 1
       \/ n > 0 /\ prx.state = "RX_RECEIVE_WAIT" /\ prx.idx = n /\ (n < 6 \/ rx_data_en = 1)
       \/ n \in 1 .. 5 /\ prx.state = "RX_RECEIVE" /\ prx.idx = n /\ rx_data_en = 0
       \/ n = 6 /\ prx.state = "RX_END" /\ rx_data_en = 1

\* Nothing comes down, and the last packet is ready if there was one.
DownIdle ==
    /\ port_out = <<>> /\ rx_data_en = 1
    /\ \/ prx.state = "RX_IDLE" /\ rx_packet_ready = 0
       \/ prx.state = "RX_END" /\ rx_packet_ready = 1

DownHere == DownIdle /\ prx.state = "RX_END"

Received == Unflatten(rx_packet)

-----------------------------------------------------------------------------
(* Kinds of packets.                                                       *)

Debugs   == {p \in Packet : DEVICE_DEBUG /\ p.cmd = MEMORY /\ p.sub_cmd = DEBUG}
Reads    == {p \in Packet : p.cmd = MEMORY /\ p.sub_cmd = MEM_READ}
Writes   == {p \in Packet : p.cmd = MEMORY /\ p.sub_cmd = MEM_WRITE}
Acks     == {p \in Packet : p.cmd # MEMORY /\ p.type = RESPONSE}
Requests == {p \in Packet : p.cmd # MEMORY /\ p.sub_cmd # DEBUG /\ p.type = REQUEST}
Answers  == {p \in Packet : p.cmd = MEMORY /\ p.sub_cmd # DEBUG /\ p.type = RESPONSE}

\* At most one packet of statistics.
StatsOnly(s) == Len(s) <= 1 /\ \A i \in 1 .. Len(s) : s[i] \in Debugs

\* A packet of S after at most one of statistics; two packets of S.
StatsThen(s, S) ==
    /\ Len(s) \in 1 .. 2
    /\ s[Len(s)] \in S
    /\ Len(s) = 2 => s[1] \in Debugs

StatsThenTwo(s, S) ==
    /\ Len(s) \in 2 .. 3
    /\ s[Len(s) - 1] \in S /\ s[Len(s)] \in S
    /\ Len(s) = 3 => s[1] \in Debugs

\* A packet of S after at most one of statistics, and perhaps one after it.
StatsAround(s, S, after) ==
    \E k \in 1 .. 2 :
        /\ k <= Len(s) /\ Len(s) <= k + 1
        /\ s[k] \in S
        /\ \A j \in 1 .. Len(s) : j # k => s[j] \in Debugs
        /\ Len(s) = k + 1 => after

-----------------------------------------------------------------------------
(* Where the processor is.                                                 *)

\* The state it goes on in, if it delays or waits until a packet is sent.
Place ==
    IF cp.state = "CP_DELAY" THEN cp.delay_restore_state
    ELSE IF cp.state = "CP_TX_PACKET_SENT_WAIT" THEN cp.wait_restore_state
    ELSE cp.state

FetchPlaces == {"CP_MEM_FETCH_PREP", "CP_MEM_FETCH", "CP_MEM_FETCH_END"}

WritePlaces == {"CP_MEM_WRITE_ADDR_PREP", "CP_MEM_WRITE_ADDR", "CP_MEM_WRITE_VAL_PREP",
                "CP_MEM_WRITE_VAL", "CP_MEM_WRITE_END"}

DebugPlaces == {"CP_DEBUG_WRITE_WAIT_PREP", "CP_DEBUG_WRITE_WAIT", "CP_DEBUG_WRITE_RESTORE"}

AfterMem == {"CP_FETCH_OP1_END", "CP_FETCH_OP2_END", "CP_CMD_END_PREP"}

\* With a command, before it has sent anything.
Early == {"CP_PACKET_DECODE", "CP_HANDSHAKE_PREP", "CP_HANDSHAKE", "CP_FETCH_OP1",
          "CP_FETCH_OP2", "CP_MEM_FETCH_PREP", "CP_MEM_FETCH", "CP_ADD", "CP_MULP2",
          "CP_DIVP2", "CP_MEM_WRITE_ADDR_PREP", "CP_MEM_WRITE_ADDR"}

\* With a command whose memory operation has been answered.
Late == AfterMem \cup {"CP_CMD_END"}

\* A command and an operand the processor decodes.
Decodable ==
    /\ cp.pkt_cmd \in {HANDSHAKE, ADD, MULP2, DIVP2}
    /\ cp.pkt_sub_cmd \in {OP_1, OP_2, OP_3}

CpPlaces ==
    /\ cp.state = "CP_TX_PACKET_SENT_WAIT" =>
           cp.wait_restore_state \in {"CP_STOP", "CP_STOP_MODIFIED", "CP_DEBUG_WRITE_RESTORE",
                                      "CP_MEM_FETCH_END", "CP_MEM_WRITE_END"}
    /\ Place \in FetchPlaces =>
           cp.mem_op_restore_state \in {"CP_FETCH_OP1_END", "CP_FETCH_OP2_END"}
    /\ Place \in WritePlaces => cp.mem_op_restore_state = "CP_CMD_END_PREP"
    /\ Place \in DebugPlaces =>
           DEVICE_DEBUG /\ cp.debug_restore_state \in AfterMem \cup {"CP_STOP_MODIFIED"}
    /\ Place = "CP_DEBUG_WRITE_WAIT_PREP" => cp.debug_restore_state \in AfterMem

\* What it sends, or has sent last.
SendingKind ==
    /\ Place = "CP_MEM_FETCH_END" => Sending \in Reads
    /\ Place \in {"CP_MEM_WRITE_VAL_PREP", "CP_MEM_WRITE_END"} => Sending \in Writes
    /\ Place = "CP_DEBUG_WRITE_RESTORE" => Sending \in Debugs
    /\ Place \in {"CP_STOP", "CP_STOP_MODIFIED"} /\ Busy => Sending \in Acks

\* It has answered its last command; statistics may follow.
CpFree ==
    \/ Place \in {"CP_IDLE", "CP_STOP", "CP_STOP_MODIFIED"} /\ ~Busy
    \/ /\ Place \in {"CP_DEBUG_WRITE_WAIT", "CP_DEBUG_WRITE_RESTORE"}
       /\ cp.debug_restore_state = "CP_STOP_MODIFIED"

\* They are up.
StatsSent ==
    \/ Place \in {"CP_IDLE", "CP_STOP_MODIFIED"}
    \/ Place = "CP_DEBUG_WRITE_RESTORE" /\ ~Busy

FreeUp == StatsOnly(Up) /\ (Up # <<>> => StatsSent)

-----------------------------------------------------------------------------
(* Who has something to send.                                              *)

Waiting == host \in {"finding", "stat", "cmd_sync", "exited"}

NoAck == received_payloads = <<>> /\ unread = {}

NextIsAddr == device_packet_recv_state = "ADDR_RECV"

\* The host, next.
HostHas ==
    /\ host \in {"start", "app", "sync", "exited"}
    /\ CpFree /\ FreeUp /\ DownIdle /\ NoAck /\ NextIsAddr
    /\ cp.state = "CP_IDLE" => rx_packet_ready = 0

\* A command is on its way to the processor.
DownHas ==
    /\ Waiting /\ CpFree /\ FreeUp /\ NoAck /\ NextIsAddr
    /\ DownShape /\ Down \in Requests
    /\ cp.state = "CP_IDLE" /\ rx_packet_ready = 1 => port_out = <<>>

\* The first half of a write is up.
AddrUp ==
    \/ NextIsAddr /\ StatsThen(Up, Writes)
    \/ ~NextIsAddr /\ Up = <<>>

\* The processor is at work.
CpHas ==
    /\ Waiting /\ NoAck /\ DownHere /\ Decodable
    /\ \/ /\ \/ Place \in Early
             \/ Place \in {"CP_MEM_FETCH_END", "CP_MEM_WRITE_VAL_PREP"} /\ Busy
          /\ Received \in Requests /\ NextIsAddr /\ StatsOnly(Up)
       \/ /\ \/ Place \in {"CP_MEM_WRITE_VAL_PREP", "CP_MEM_WRITE_VAL"} /\ ~Busy
             \/ Place = "CP_MEM_WRITE_END" /\ Busy
          /\ Received \in Requests /\ AddrUp
       \/ /\ \/ Place \in {"CP_DEBUG_WRITE_WAIT_PREP", "CP_DEBUG_WRITE_WAIT"}
             \/ Place = "CP_DEBUG_WRITE_RESTORE" /\ Busy
          /\ cp.debug_restore_state \in AfterMem /\ NextIsAddr /\ Up = <<>>
       \/ /\ \/ /\ Place = "CP_DEBUG_WRITE_RESTORE" /\ ~Busy
                /\ cp.debug_restore_state \in AfterMem
             \/ Place \in Late
             \/ Place \in {"CP_STOP", "CP_STOP_MODIFIED"} /\ Busy
          /\ NextIsAddr /\ StatsOnly(Up)

\* The processor's memory request is up.
MemUpHas ==
    /\ Waiting /\ NoAck /\ DownHere /\ Decodable /\ Received \in Requests /\ ~Busy
    /\ \/ Place = "CP_MEM_FETCH_END" /\ NextIsAddr /\ StatsThen(Up, Reads)
       \/ Place = "CP_MEM_WRITE_END" /\ NextIsAddr /\ StatsThenTwo(Up, Writes)
       \/ Place = "CP_MEM_WRITE_END" /\ ~NextIsAddr /\ Len(Up) = 1 /\ Up[1] \in Writes

\* The host's answer to it is on its way down.
MemDownHas ==
    /\ Waiting /\ NoAck /\ NextIsAddr /\ Decodable /\ Up = <<>> /\ ~Busy
    /\ Place \in {"CP_MEM_FETCH_END", "CP_MEM_WRITE_END"}
    /\ DownShape /\ Down \in Answers /\ prx.state # "RX_IDLE"
    /\ rx_packet_ready = 1 /\ port_out # <<>> => Received \in Requests

\* The response to the command is up, perhaps between two statistics.
AckUpHas ==
    /\ Waiting /\ NoAck /\ NextIsAddr /\ DownHere /\ CpFree /\ cp.state # "CP_IDLE"
    /\ StatsAround(Up, Acks, StatsSent)

\* The driver has it.
AckHas ==
    /\ Waiting /\ NextIsAddr /\ DownHere /\ CpFree /\ cp.state # "CP_IDLE" /\ FreeUp
    /\ \/ Len(received_payloads) = 1 /\ received_payloads[1] \in Acks /\ unread = {}
       \/ received_payloads = <<>> /\ \E p \in Acks : unread = {p}

\* Before device_find has found the device nobody listens.
NotListening ==
    /\ host \in {"start", "finding"} => scratch = <<>> /\ InRing = 0
    /\ host \notin {"finding", "exited"} => found = <<>>

\* Its handshake is the only command then, and the answer to it comes up first.
Finding ==
    /\ host = "start" => cp.state = "CP_IDLE" /\ Up = <<>>
    /\ host = "finding" =>
           \/ Up = <<>> /\ cp.state = "CP_IDLE" /\ Down.cmd = HANDSHAKE
           \/ Up = <<>> /\ cp.pkt_cmd = HANDSHAKE
              /\ Place \in {"CP_PACKET_DECODE", "CP_HANDSHAKE_PREP", "CP_HANDSHAKE"}
           \/ Up = <<>> /\ Place \in {"CP_STOP", "CP_STOP_MODIFIED"} /\ Busy
           \/ Up # <<>> /\ Up[1] \in Acks

\* The inductive invariant behind RingNotOverrun, FramesAligned and
\* TxPacketStable: one party at a time has something to send, and what the board
\* sends without being asked is bounded.
Turns ==
    /\ TxHandshake /\ CpHandshakes
    /\ Framed
    /\ CpPlaces /\ SendingKind
    /\ NotListening /\ Finding
    /\ \A i \in 1 .. Len(recorded_commands) : recorded_commands[i] \in Requests
    /\ host \in {"stat", "cmd_sync"} => recorded_commands # <<>>
    /\ \/ HostHas
       \/ DownHas
       \/ CpHas
       \/ MemUpHas
       \/ MemDownHas
       \/ AckUpHas
       \/ AckHas

-----------------------------------------------------------------------------
(* What the parties carry: the packet mSync waits for goes down, its       *)
(* memory requests carry the addresses and the value they should, their    *)
(* answers bring what the memory holds, and what comes back to cmdSync     *)
(* answers the packet it waits for.                                        *)

(* How far the calls are.                                                  *)

\* The body of the packet of each operand number.
Operand(c, n) ==
    CASE n = OP_1 -> c.first
      [] n = OP_2 -> c.second
      [] n = OP_3 -> c.result

\* Packet i of recorded_commands is the one of operand n of call k.
Packs(i, k, n) ==
    /\ recorded_commands[i].cmd = calls[k].cmd
    /\ recorded_commands[i].sub_cmd = n
    /\ recorded_commands[i].body = Operand(calls[k], n)

\* recorded_commands is the rest of the calls' packets, three to a call.
Recorded ==
    \A i \in 1 .. Len(recorded_commands), k \in 1 .. Len(calls), n \in 0 .. 2 :
        Len(recorded_commands) - i = 3 * (Len(calls) - k) + (2 - n) => Packs(i, k, n)

\* The call that is performed now or next, and which of its operands the
\* packet at the head of recorded_commands has; -1 when the call's result is
\* in the memory and its last packet not acknowledged yet.
Current == calls[executed + 1]

Stage == 3 * (Len(calls) - executed) - Len(recorded_commands)

Stages ==
    /\ executed <= Len(calls)
    /\ Stage \in -1 .. 2
    /\ host = "sync" => Stage # -1
    /\ ~Syncing => Stage = 0

\* The operands of the current call that are through are in the registers.
Operands ==
    /\ Stage >= 1 => cp.op_1 = contents[Current.first]
    /\ Stage = 2 => cp.op_2 = contents[Current.second]

-----------------------------------------------------------------------------
(* The packet mSync waits for.                                             *)

InCall == host \in {"stat", "cmd_sync"}

Request == Head(recorded_commands)

\* What it asks for is done.
Finished ==
    \/ Stage = -1
    \/ Stage = 0 /\ cp.op_1 = contents[Current.first]
    \/ Stage = 1 /\ cp.op_2 = contents[Current.second]

\* p is the response to it.
RightAck(p) ==
    /\ p.id = Request.id
    /\ p.type = RESPONSE
    /\ p.cmd = Request.cmd
    /\ p.sub_cmd = Request.sub_cmd
    /\ Finished

-----------------------------------------------------------------------------
(* The processor at work on it.                                            *)

\* Where the processor goes on after its statistics.
Target == IF Place \in DebugPlaces THEN cp.debug_restore_state ELSE Place

Working == Target \notin {"CP_IDLE", "CP_STOP", "CP_STOP_MODIFIED"}

\* Where the body is still to be read from the packet layer's register.
Reading == {"CP_PACKET_DECODE", "CP_FETCH_OP1", "CP_FETCH_OP2", "CP_ADD", "CP_MULP2", "CP_DIVP2"}

Fetching ==
    /\ cp.mem_fetch_addr = Request.body
    /\ \/ Stage = 0 /\ cp.mem_op_restore_state = "CP_FETCH_OP1_END"
       \/ Stage = 1 /\ cp.mem_op_restore_state = "CP_FETCH_OP2_END"

Writing ==
    /\ cp.mem_write_addr = Request.body
    /\ cp.mem_val = RtlAlu(cp.pkt_cmd, cp.op_1, cp.op_2)

AtWork ==
    Working =>
        /\ cp.pkt_id = Request.id /\ cp.pkt_cmd = Request.cmd /\ cp.pkt_sub_cmd = Request.sub_cmd
        /\ Place \in Reading => Received.body = Request.body
        /\ Place \notin {"CP_HANDSHAKE_PREP", "CP_HANDSHAKE"}
        /\ Place = "CP_PACKET_DECODE" => Stage >= 0
        /\ Place = "CP_FETCH_OP1" => Stage = 0
        /\ Place = "CP_FETCH_OP2" => Stage = 1
        /\ Place = "CP_ADD"   => Stage = 2 /\ cp.pkt_cmd = ADD
        /\ Place = "CP_MULP2" => Stage = 2 /\ cp.pkt_cmd = MULP2
        /\ Place = "CP_DIVP2" => Stage = 2 /\ cp.pkt_cmd = DIVP2
        /\ Place \in FetchPlaces => Fetching
        /\ Place \in WritePlaces => Writing /\ Stage \in {-1, 2}
        /\ Place \in WritePlaces /\ (Place = "CP_MEM_WRITE_END" => Busy) => Stage = 2
        /\ Target = "CP_FETCH_OP1_END" => Stage = 0 /\ cp.mem_val = contents[Current.first]
        /\ Target = "CP_FETCH_OP2_END" => Stage = 1 /\ cp.mem_val = contents[Current.second]
        /\ Target \in {"CP_CMD_END_PREP", "CP_CMD_END"} => Finished

-----------------------------------------------------------------------------
(* The packets under way.                                                  *)

IsRead(p) == p.id = cp.tx_cmd_id /\ p.body = cp.mem_fetch_addr

IsAddr(p) == p.body = cp.mem_write_addr

IsValue(p) == p.id = cp.tx_cmd_id /\ p.body = cp.mem_val

SendingRight ==
    /\ Place = "CP_MEM_FETCH_END" => IsRead(Sending)
    /\ Place = "CP_MEM_WRITE_VAL_PREP" => IsAddr(Sending)
    /\ Place = "CP_MEM_WRITE_END" => IsValue(Sending)
    /\ Place \in {"CP_STOP", "CP_STOP_MODIFIED"} /\ Busy => RightAck(Sending)

UpRight ==
    \A i \in 1 .. Len(Up) :
        /\ Up[i] \in Reads /\ Place = "CP_MEM_FETCH_END" => IsRead(Up[i])
        /\ Up[i] \in Writes => Stage = 2
        /\ Up[i] \in Acks => RightAck(Up[i])

\* Of the two packets of a write, the address goes first.
ValueSent == Place = "CP_MEM_WRITE_END" /\ ~Busy

WriteRight ==
    /\ ~NextIsAddr => mem_write_addr_scratch = cp.mem_write_addr
    /\ Place \in WritePlaces /\ ~ValueSent =>
           \A i \in 1 .. Len(Up) : Up[i] \in Writes => IsAddr(Up[i])
    /\ ValueSent /\ ~NextIsAddr =>
           \A i \in 1 .. Len(Up) : Up[i] \in Writes => IsValue(Up[i])
    /\ ValueSent /\ NextIsAddr =>
           \A i, l \in 1 .. Len(Up) :
               i < l /\ Up[i] \in Writes /\ Up[l] \in Writes => IsAddr(Up[i]) /\ IsValue(Up[l])

\* The processor has no command and no response is on its way.
Unanswered ==
    /\ CpFree /\ NoAck
    /\ \A i \in 1 .. Len(Up) : Up[i] \notin Acks

\* The host has answered the processor's memory request.
MemAnswered ==
    /\ Place \in {"CP_MEM_FETCH_END", "CP_MEM_WRITE_END"} /\ ~Busy
    /\ Up = <<>> /\ NextIsAddr

RightAnswer(p) ==
    /\ Place = "CP_MEM_FETCH_END" => p.body = contents[cp.mem_fetch_addr]
    /\ Place = "CP_MEM_WRITE_END" => Stage = -1

DownRight ==
    /\ Unanswered => Down = Request /\ Stage >= 0
    /\ MemAnswered => RightAnswer(Down)

AckRight ==
    /\ \A i \in 1 .. Len(received_payloads) : RightAck(received_payloads[i])
    /\ \A p \in unread : RightAck(p)

\* The inductive invariant behind UnreadIsAwaited and the refinement of
\* MatrixAccelerator: each party holds the packet, the operand or the address
\* that the call at hand needs, although nothing but the order says which half of
\* a write a packet is (serial_impl.cpp:103-132) and the processor reads a body
\* from the packet layer's register long after it has taken the packet.
Errand ==
    /\ Recorded /\ Stages /\ Operands
    /\ InCall => AtWork /\ SendingRight /\ UpRight /\ WriteRight /\ DownRight /\ AckRight
    /\ ~InCall => NoAck

-----------------------------------------------------------------------------
(* The statistics of debug builds.                                         *)

\* The statistics packets about the processor's memory operations.
MemoryStats == {p \in Debugs : p.type = RESPONSE}

\* The statistics at hand are about a memory operation.
AboutMemory == cp.debug_restore_state \in AfterMem

StatsPrepared ==
    /\ Place \in {"CP_DEBUG_WRITE_WAIT", "CP_DEBUG_WRITE_RESTORE"} =>
           (cp.debug_pkt_type = RESPONSE <=> AboutMemory)
    /\ Place = "CP_DEBUG_WRITE_RESTORE" => Sending.type = cp.debug_pkt_type

\* The host has answered, and the processor has not sent its statistics yet.
StatsDue ==
    \/ MemAnswered
    \/ Place \in {"CP_DEBUG_WRITE_WAIT_PREP", "CP_DEBUG_WRITE_WAIT"} /\ AboutMemory
    \/ Place = "CP_DEBUG_WRITE_RESTORE" /\ AboutMemory /\ Busy

NoStats == \A i \in 1 .. Len(Up) : Up[i] \notin MemoryStats

\* They are up, before anything else.
StatsFirst ==
    /\ Up # <<>> /\ Up[1] \in MemoryStats
    /\ \A i \in 2 .. Len(Up) : Up[i] \notin MemoryStats

\* The command's response is to be sent, or behind them.
ResponseDue ==
    \/ Target \in Late
    \/ Place \in {"CP_STOP", "CP_STOP_MODIFIED"} /\ Busy
    \/ \E i \in 1 .. Len(Up) : Up[i] \in Acks

\* So they are in before there is another operation.
StatsUnderWay == StatsFirst /\ ResponseDue

\* The response they are about is alone in the host's list.
Remembered ==
    /\ Len(last_response_pkt) = 1
    /\ Head(last_response_pkt).id = cp.tx_cmd_id

\* The inductive invariant behind ResponseStatsAttribution: the list of responses
\* holds the one whose statistics are due or under way, and nothing else.
Remembering ==
    DEVICE_DEBUG =>
        /\ StatsPrepared
        /\ IF StatsDue THEN Remembered /\ NoStats
           ELSE \/ last_response_pkt = <<>> /\ NoStats
                \/ Remembered /\ StatsUnderWay

=============================================================================
