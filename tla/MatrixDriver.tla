---------------------------- MODULE MatrixDriver ----------------------------
(***************************************************************************)
(* The driver library (matrix.cpp) on the application's thread, and its    *)
(* own receive thread, which moves packets from the device's queue to      *)
(* command_status_readback.  mAdd, mMulPow2 and mDivPow2 only record three *)
(* packets each; mSync sends the recorded packets one by one and waits for *)
(* the response to each by polling the readback list.                      *)
(*                                                                         *)
(* mainPc is where the application's thread is:                            *)
(*   init        before mInit                                              *)
(*   hs_stat, hs_pop, hs_wait  in device_initialize, after the send        *)
(*   app         in the application, between calls of the library          *)
(*   sync        in mSync, at the head of the loop                         *)
(*   stat        in mSync's send_device_payload, packet pushed (debug)     *)
(*   cmd_sync    in cmdSync                                                *)
(*   freeing     in mFree, device not deleted yet                          *)
(*   freed       device deleted                                            *)
(*   exited      log_error_and_exit ended the process                      *)
(***************************************************************************)
EXTENDS FunctionalImpl, PreinceptionAlu

VARIABLES
    mainPc,
    recorded_commands,          \* packets recorded and not acknowledged yet
    global_command_id,
    command_status_readback,    \* [pkt, read] of every response seen
    recv_running,               \* the driver's receive thread exists
    scratch,                    \* packet it moves, or NoMsg
    free_called

driverVars == <<mainPc, recorded_commands, global_command_id,
                command_status_readback, recv_running, scratch, free_called>>

deviceVars == <<messages, rx_msg, tx_msg, driver_payload, contents,
                allocation_ptr, implVars>>

MainPc == {"init", "hs_stat", "hs_pop", "hs_wait", "app", "sync", "stat",
           "cmd_sync", "freeing", "freed", "exited"}

DriverTypeOK ==
    /\ mainPc \in MainPc
    /\ recorded_commands \in Seq(Packet)
    /\ global_command_id \in Nat
    /\ command_status_readback \in Seq([pkt : Packet, read : BOOLEAN])
    /\ recv_running \in BOOLEAN
    /\ scratch \in Packet \cup {NoMsg}
    /\ free_called \in BOOLEAN

DriverInit ==
    /\ mainPc = "init"
    /\ recorded_commands = <<>>
    /\ global_command_id = 0
    /\ command_status_readback = <<>>
    /\ recv_running = FALSE
    /\ scratch = NoMsg
    /\ free_called = FALSE

Goto(from, to) == mainPc = from /\ mainPc' = to

\* send_device_payload returns at once in a build without DEVICE_DEBUG.
AfterSend(remember, then) == IF DEVICE_DEBUG THEN remember ELSE then

-----------------------------------------------------------------------------
(* mInit: device_initialize, then start the receive thread.                *)

HandshakeRequest == Payload(1, REQUEST, HANDSHAKE, OP_1, 0)

MInit ==
    /\ Goto("init", AfterSend("hs_stat", "hs_wait"))
    /\ SendRequest(HandshakeRequest)
    /\ UNCHANGED <<recorded_commands, global_command_id,
                   command_status_readback, recv_running, scratch, free_called>>

HandshakeStat ==
    /\ Goto("hs_stat", "hs_pop")
    /\ RememberRequest(HandshakeRequest)
    /\ UNCHANGED <<recorded_commands, global_command_id,
                   command_status_readback, recv_running, scratch, free_called>>

\* last_request_pkt.pop_front(): no statistics packet follows a handshake.
HandshakePop ==
    /\ Goto("hs_pop", "hs_wait")
    /\ last_request_pkt' = PopFront(last_request_pkt)
    /\ UNCHANGED <<messages, rx_msg, tx_msg, driver_payload, contents,
                   allocation_ptr, impl_msg, impl_reply, mem_write_state,
                   mem_write_addr_scratch, received_payloads,
                   last_response_pkt, recorded_commands, global_command_id,
                   command_status_readback, recv_running, scratch, free_called>>

HandshakeMatches(p) ==
    /\ p.id = 1
    /\ p.type = RESPONSE
    /\ BodyByte(p.body, 1) = 2
    /\ BodyByte(p.body, 2) = 1

\* One turn of the loop that finds a packet; another packet is dropped.
HandshakeReceive ==
    /\ mainPc = "hs_wait"
    /\ TakeReceived
    /\ IF HandshakeMatches(Head(received_payloads))
       THEN mainPc' = "app" /\ recv_running' = TRUE
       ELSE UNCHANGED <<mainPc, recv_running>>
    /\ UNCHANGED <<recorded_commands, global_command_id,
                   command_status_readback, scratch, free_called>>

\* Two seconds have passed.  log_error_and_exit ends the process only in a
\* build with LOG_ENABLED; otherwise mInit goes on as if a device were there.
HandshakeTimeout ==
    /\ Goto("hs_wait", IF LOG_ENABLED THEN "exited" ELSE "app")
    /\ recv_running' = ~LOG_ENABLED
    /\ UNCHANGED deviceVars
    /\ UNCHANGED <<recorded_commands, global_command_id,
                   command_status_readback, scratch, free_called>>

-----------------------------------------------------------------------------
(* The application's calls between mInit and mFree.                        *)

\* MIntDeviceMemory(v) and setValue(v); values are words.
NewMInt(v) ==
    /\ mainPc = "app"
    /\ AllocateAndWrite(v)
    /\ UNCHANGED <<messages, rx_msg, tx_msg, driver_payload, implVars, driverVars>>

SetValue(a, v) ==
    /\ mainPc = "app"
    /\ a \in Allocated
    /\ MemoryWrite(a, v)
    /\ UNCHANGED <<messages, rx_msg, tx_msg, driver_payload, implVars, driverVars>>

\* Mutant: ids are reduced to what fits the packet's nibble only.
drv_preproc16(id) == id % 16

drv_preproc(id) == id % 10

\* The three packets of a call get consecutive ids, starting below 10.
Record(cmd, first, second, result) ==
    LET g == drv_preproc(global_command_id) IN
    /\ {first, second, result} \subseteq Allocated
    /\ recorded_commands' = recorded_commands \o
           << Payload(g,     REQUEST, cmd, OP_1, first),
              Payload(g + 1, REQUEST, cmd, OP_2, second),
              Payload(g + 2, REQUEST, cmd, OP_3, result) >>
    /\ global_command_id' = g + 3

MAdd(first, second, result) ==
    /\ mainPc = "app"
    /\ Record(ADD, first, second, result)
    /\ UNCHANGED deviceVars
    /\ UNCHANGED <<mainPc, command_status_readback, recv_running, scratch, free_called>>

\* mMulPow2 and mDivPow2 look at the power now; it is used when mSync runs.
MPow2(cmd, first, second, result) ==
    /\ mainPc = "app"
    /\ second \in Allocated
    /\ Signed(contents[second]) >= 0 \/ ~LOG_ENABLED
    /\ Record(cmd, first, second, result)
    /\ UNCHANGED deviceVars
    /\ UNCHANGED <<mainPc, command_status_readback, recv_running, scratch, free_called>>

MMulPow2(first, second, result) == MPow2(MULP2, first, second, result)
MDivPow2(first, second, result) == MPow2(DIVP2, first, second, result)

\* A negative power: log_error_and_exit.
MPow2Rejected(second) ==
    /\ LOG_ENABLED
    /\ second \in Allocated
    /\ Signed(contents[second]) < 0
    /\ Goto("app", "exited")
    /\ global_command_id' = drv_preproc(global_command_id)
    /\ UNCHANGED deviceVars
    /\ UNCHANGED <<recorded_commands, command_status_readback, recv_running,
                   scratch, free_called>>

MFree ==
    /\ Goto("app", "freeing")
    /\ free_called' = TRUE
    /\ UNCHANGED deviceVars
    /\ UNCHANGED <<recorded_commands, global_command_id,
                   command_status_readback, recv_running, scratch>>

DeleteDevice ==
    /\ Goto("freeing", "freed")
    /\ UNCHANGED deviceVars
    /\ UNCHANGED <<recorded_commands, global_command_id,
                   command_status_readback, recv_running, scratch, free_called>>

-----------------------------------------------------------------------------
(* mSync.                                                                  *)

MSync ==
    /\ Goto("app", "sync")
    /\ UNCHANGED deviceVars
    /\ UNCHANGED <<recorded_commands, global_command_id,
                   command_status_readback, recv_running, scratch, free_called>>

SyncReturn ==
    /\ recorded_commands = <<>>
    /\ Goto("sync", "app")
    /\ UNCHANGED deviceVars
    /\ UNCHANGED <<recorded_commands, global_command_id,
                   command_status_readback, recv_running, scratch, free_called>>

SyncSend ==
    /\ recorded_commands # <<>>
    /\ Goto("sync", AfterSend("stat", "cmd_sync"))
    /\ SendRequest(Head(recorded_commands))
    /\ UNCHANGED <<recorded_commands, global_command_id,
                   command_status_readback, recv_running, scratch, free_called>>

SyncStat ==
    /\ Goto("stat", "cmd_sync")
    /\ RememberRequest(Head(recorded_commands))
    /\ UNCHANGED <<recorded_commands, global_command_id,
                   command_status_readback, recv_running, scratch, free_called>>

\* An unread response with this id: cmdSync compares nothing else.
Finishes(item, id) == ~item.read /\ item.pkt.id = id /\ item.pkt.type = RESPONSE

\* Mutant: entries stay unread.
MarkNothing(matching) == command_status_readback

MarkRead(matching) ==
    [i \in DOMAIN command_status_readback |->
        IF i \in matching THEN [pkt |-> command_status_readback[i].pkt, read |-> TRUE]
        ELSE command_status_readback[i]]

CmdSync ==
    LET id == Head(recorded_commands).id
        matching == {i \in DOMAIN command_status_readback :
                         Finishes(command_status_readback[i], id)}
    IN
    /\ matching # {}
    /\ Goto("cmd_sync", "sync")
    /\ command_status_readback' = MarkRead(matching)
    /\ recorded_commands' = Tail(recorded_commands)
    /\ UNCHANGED deviceVars
    /\ UNCHANGED <<global_command_id, recv_running, scratch, free_called>>

-----------------------------------------------------------------------------
(* The receive thread started by mInit.                                    *)

RecvTake ==
    /\ recv_running
    /\ ~free_called
    /\ scratch = NoMsg
    /\ TakeReceived
    /\ scratch' = Head(received_payloads)
    /\ UNCHANGED <<mainPc, recorded_commands, global_command_id,
                   command_status_readback, recv_running, free_called>>

RecvPush ==
    /\ recv_running
    /\ scratch # NoMsg
    /\ command_status_readback' =
           Append(command_status_readback, [pkt |-> scratch, read |-> FALSE])
    /\ scratch' = NoMsg
    /\ UNCHANGED deviceVars
    /\ UNCHANGED <<mainPc, recorded_commands, global_command_id, recv_running, free_called>>

RecvStop ==
    /\ recv_running
    /\ free_called
    /\ scratch = NoMsg
    /\ recv_running' = FALSE
    /\ UNCHANGED deviceVars
    /\ UNCHANGED <<mainPc, recorded_commands, global_command_id,
                   command_status_readback, scratch, free_called>>
=============================================================================
