----------------------------- MODULE SerialSystem -----------------------------
(***************************************************************************)
(* An application, the matrix driver, SerialImpl and the FPGA board at the *)
(* other end of the line.  The host has four threads: the application's,   *)
(* the driver's receive thread, and the two of SerialDevice; the board     *)
(* steps with its clock.                                                   *)
(*                                                                         *)
(* The driver is the one of MatrixDriver; here only what the device sees   *)
(* of it is kept.  host is where the application's thread is:              *)
(*   start, finding      in mInit, in device_find                          *)
(*   app                 in the application, between calls of the library  *)
(*   sync                in mSync, at the head of the loop                 *)
(*   stat                in send_device_payload, packet written (debug)    *)
(*   cmd_sync            in cmdSync                                        *)
(*   exited              log_error_and_exit ended the process              *)
(***************************************************************************)
EXTENDS Tangnano20kUart, SerialImpl

CONSTANTS
    Vals,       \* words the application stores
    Calls,      \* calls it makes: [cmd, first, second, result]
    MaxCalls    \* bound on the number of calls it records

ASSUME ApplicationAssumption ==
    /\ Vals \subseteq Word
    /\ Calls \subseteq [cmd : {ADD, MULP2, DIVP2}, first : Addr, second : Addr, result : Addr]
    /\ MaxCalls \in Nat

VARIABLES
    host,
    found,                  \* bytes of the answer to the handshake
    recorded_commands,
    global_command_id,
    unread                  \* packets in command_status_readback not read yet

\* History: the calls recorded, and how many results reached the memory.
VARIABLES calls, executed

driverVars == <<host, found, recorded_commands, global_command_id, unread>>
history == <<calls, executed>>

vars == <<boardVars, portVars, ringVars, contents, allocation_ptr, implVars,
          driverVars, history>>

Init ==
    /\ BoardInit
    /\ PortInit
    /\ RingInit
    /\ MemoryInit
    /\ ImplInit
    /\ host = "start" /\ found = <<>> /\ recorded_commands = <<>>
    /\ global_command_id = 0 /\ unread = {}
    /\ calls = <<>> /\ executed = 0

Goto(from, to) == host = from /\ host' = to

-----------------------------------------------------------------------------
(* mInit: device_find on the one port that opens, reading it directly.     *)

HandshakeRequest == Payload(1, REQUEST, HANDSHAKE, OP_1, 0)

\* The push to last_request_pkt is undone at once, no other thread runs yet.
Find ==
    /\ Goto("start", "finding")
    /\ SendRequest(HandshakeRequest)
    /\ UNCHANGED <<found, recorded_commands, global_command_id, unread>>

FindReads ==
    /\ host = "finding"
    /\ port_in # <<>>
    /\ port_in' = Tail(port_in)
    /\ UNCHANGED <<port_out, contents, allocation_ptr, implVars,
                   recorded_commands, global_command_id, unread>>

FindByte ==
    /\ FindReads
    /\ Len(found) < 5
    /\ found' = Append(found, Head(port_in))
    /\ UNCHANGED host

HandshakeMatches(p) ==
    /\ p.id = 1
    /\ p.type = RESPONSE
    /\ BodyByte(p.body, 1) = 2
    /\ BodyByte(p.body, 2) = 1

\* In a build with LOG_ENABLED log_error_and_exit ends the process; one
\* without it goes on with a closed port and is left out.
FindAnswer ==
    /\ FindReads
    /\ Len(found) = 5
    /\ found' = <<>>
    /\ host' = IF HandshakeMatches(Unflatten(Append(found, Head(port_in))))
               THEN "app" ELSE "exited"

FindTimeout ==
    /\ Goto("finding", "exited")
    /\ UNCHANGED <<portVars, contents, allocation_ptr, implVars, found,
                   recorded_commands, global_command_id, unread>>

-----------------------------------------------------------------------------
(* The application.                                                        *)

NewMInt(v) ==
    /\ host = "app"
    /\ AllocateAndWrite(v)
    /\ UNCHANGED <<portVars, implVars, driverVars>>

SetValue(a, v) ==
    /\ host = "app"
    /\ a \in Allocated
    /\ MemoryWrite(a, v)
    /\ UNCHANGED <<portVars, implVars, driverVars>>

\* mAdd, mMulPow2, mDivPow2; the library rejects a negative power.
Record(c) ==
    LET g == global_command_id % 10 IN
    /\ host = "app"
    /\ {c.first, c.second, c.result} \subseteq Allocated
    /\ c.cmd # ADD => Signed(contents[c.second]) >= 0
    /\ recorded_commands' = recorded_commands \o
           << Payload(g,     REQUEST, c.cmd, OP_1, c.first),
              Payload(g + 1, REQUEST, c.cmd, OP_2, c.second),
              Payload(g + 2, REQUEST, c.cmd, OP_3, c.result) >>
    /\ global_command_id' = g + 3
    /\ UNCHANGED <<portVars, contents, allocation_ptr, implVars, host, found, unread>>

RecordCall(c) ==
    /\ Len(calls) < MaxCalls
    /\ Record(c)
    /\ calls' = Append(calls, c)
    /\ UNCHANGED executed

MSync ==
    /\ Goto("app", "sync")
    /\ UNCHANGED <<portVars, contents, allocation_ptr, implVars, found,
                   recorded_commands, global_command_id, unread>>

-----------------------------------------------------------------------------
(* mSync.                                                                  *)

SyncReturn ==
    /\ recorded_commands = <<>>
    /\ Goto("sync", "app")
    /\ UNCHANGED <<portVars, contents, allocation_ptr, implVars, found,
                   recorded_commands, global_command_id, unread>>

SyncSend ==
    /\ recorded_commands # <<>>
    /\ Goto("sync", IF DEVICE_DEBUG THEN "stat" ELSE "cmd_sync")
    /\ SendRequest(Head(recorded_commands))
    /\ UNCHANGED <<found, recorded_commands, global_command_id, unread>>

SyncStat ==
    /\ Goto("stat", "cmd_sync")
    /\ RememberRequest(Head(recorded_commands))
    /\ UNCHANGED <<found, recorded_commands, global_command_id, unread>>

\* Every unread response with this id is marked as read, so neither the order
\* of the list nor an entry that is there twice makes a difference.
Finishes(p) == p.id = Head(recorded_commands).id /\ p.type = RESPONSE

CmdSync ==
    /\ \E p \in unread : Finishes(p)
    /\ Goto("cmd_sync", "sync")
    /\ unread' = {p \in unread : ~Finishes(p)}
    /\ recorded_commands' = Tail(recorded_commands)
    /\ UNCHANGED <<portVars, contents, allocation_ptr, implVars, found, global_command_id>>

\* The driver's receive thread.
Receive ==
    /\ host \notin {"start", "finding"}
    /\ received_payloads # <<>>
    /\ unread' = unread \cup {Head(received_payloads)}
    /\ received_payloads' = Tail(received_payloads)
    /\ UNCHANGED <<portVars, contents, allocation_ptr, scratch,
                   device_packet_recv_state, mem_write_addr_scratch,
                   last_request_pkt, last_response_pkt, host, found,
                   recorded_commands, global_command_id>>

-----------------------------------------------------------------------------
(* One step of each part.                                                  *)

\* What the application decides to do next.
AppStep ==
    \/ \E c \in Calls : RecordCall(c)
    \/ /\ \/ \E v \in Vals : NewMInt(v)
          \/ \E a \in Addr, v \in Vals : SetValue(a, v)
          \/ MSync
       /\ UNCHANGED history

LibraryStep ==
    /\ \/ Find
       \/ FindByte
       \/ FindAnswer
       \/ SyncReturn
       \/ SyncSend
       \/ SyncStat
       \/ CmdSync
    /\ UNCHANGED history

HostStep(step) == step /\ UNCHANGED <<boardVars, ringVars>>

\* SerialDevice's two threads start when device_find has found the device.
Listening == host \notin {"start", "finding"}

ListenStep ==
    /\ Listening
    /\ (ListenStore \/ ListenAdvance)
    /\ UNCHANGED <<boardVars, port_out, contents, allocation_ptr, implVars,
                   driverVars, history>>

ProcessStep ==
    /\ Listening
    /\ TakeByte
    /\ ProcessByte \/ ProcessPacket
    /\ executed' = executed + (IF StoresResult THEN 1 ELSE 0)
    /\ UNCHANGED <<boardVars, driverVars, calls>>

BoardStep ==
    /\ Clock
    /\ UNCHANGED <<ringVars, contents, allocation_ptr, implVars, driverVars, history>>

Running == host # "exited"

Terminated == ~Running /\ UNCHANGED vars

Next ==
    \/ Running /\ HostStep(AppStep)
    \/ Running /\ HostStep(LibraryStep)
    \/ Running /\ HostStep(FindTimeout /\ UNCHANGED history)
    \/ Running /\ HostStep(Receive /\ UNCHANGED history)
    \/ Running /\ ListenStep
    \/ Running /\ ProcessStep
    \/ Running /\ BoardStep
    \/ Terminated

\* The operating system schedules every thread and the clock never stops.
Fairness ==
    /\ WF_vars(Running /\ HostStep(LibraryStep))
    /\ WF_vars(Running /\ HostStep(Receive /\ UNCHANGED history))
    /\ WF_vars(Running /\ ListenStep)
    /\ WF_vars(Running /\ ProcessStep)
    /\ WF_vars(Running /\ BoardStep)

Spec == Init /\ [][Next]_vars

FairSpec == Spec /\ Fairness

-----------------------------------------------------------------------------
(* Properties.                                                             *)

TypeOK ==
    /\ BoardTypeOK
    /\ PortTypeOK
    /\ RingTypeOK
    /\ MemoryTypeOK
    /\ ImplTypeOK
    /\ host \in {"start", "finding", "app", "sync", "stat", "cmd_sync", "exited"}
    /\ found \in Seq(Byte) /\ Len(found) < 6
    /\ recorded_commands \in Seq(Packet)
    /\ global_command_id \in Nat
    /\ unread \subseteq Packet
    /\ calls \in Seq(Calls)
    /\ executed \in Nat

Syncing == host \in {"sync", "stat", "cmd_sync"}

\* The application gets from the board what it gets from the functional model:
\* every call performed once, in order, on operands the calls before it left,
\* all of them before mSync returns.
Accelerator == INSTANCE MatrixAccelerator WITH
    Address <- Addr, Value <- Word, Command <- {ADD, MULP2, DIVP2}, Apply <- RtlAlu,
    mem <- contents, syncing <- Syncing

ImplementsAccelerator == Accelerator!Spec

\* The ring is written without a look at the reader (serial_device.cpp:39-41):
\* the protocol bounds what the board sends before it waits for an answer, so
\* no byte is overwritten however late the processing thread runs.
RingNotOverrun == InRing <= RingSize

\* Packets are framed by counting six bytes, on both sides, and nothing
\* resynchronises them: whenever the board is between two packets, the bytes the
\* host has not put together are whole packets.
FramesAligned ==
    ptx.state \in {"TX_END", "TX_IDLE"} =>
        (Len(found) + Len(port_in) + InRing + Len(scratch)) % 6 = 0

\* The packet layer reads tx_packet byte by byte for as long as the packet
\* takes to send: the processor leaves it alone until it is announced sent.
TxPacketStable == [][ptx.state \in {"TX_SEND", "TX_SEND_WAIT"} => tx_packet' = tx_packet]_vars

\* A response cmdSync has not used answers the packet mSync is waiting for.
UnreadIsAwaited ==
    \A p \in unread :
        /\ host \in {"stat", "cmd_sync"}
        /\ p.id = Head(recorded_commands).id
        /\ p.cmd = Head(recorded_commands).cmd
        /\ p.sub_cmd = Head(recorded_commands).sub_cmd

\* Statistics of memory operations are matched with responses by order alone
\* (serial_impl.cpp:140): a statistics packet finds exactly the one response it
\* is about.
ResponseStatsAttribution ==
    read_buffer_ptr_hi # read_buffer_ptr_lo /\ Len(scratch) = 5
    /\ Arriving.cmd = MEMORY /\ Arriving.sub_cmd = DEBUG /\ Arriving.type = RESPONSE =>
        /\ Len(last_response_pkt) = 1
        /\ Head(last_response_pkt).id = cp.tx_cmd_id

\* Every call of the library returns, or mInit ends the process.
EveryCallReturns == host # "app" ~> host \in {"app", "exited"}
===============================================================================
