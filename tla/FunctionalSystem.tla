-------------------------- MODULE FunctionalSystem --------------------------
(***************************************************************************)
(* An application, the matrix driver and the functional device as they run *)
(* in one process: six threads (the application's, the driver's receive    *)
(* thread, FunctionalImpl's receive thread, the two of HwInterface and the *)
(* one of HwCp) over the mailboxes, lists and memory they share.  The      *)
(* threads of the hardware run when the clock ticks; a tick a thread       *)
(* misses only delays it, so ticks are not modelled.                       *)
(*                                                                         *)
(* The application is any program that creates at most Cells integers,     *)
(* gives them values of Vals, makes at most MaxCalls of the calls Calls,   *)
(* and calls mSync and mFree when it likes.                                *)
(***************************************************************************)
EXTENDS HwCp, MatrixDriver

CONSTANTS
    Vals,       \* words the application stores
    Calls,      \* calls it makes: [cmd, first, second, result]
    MaxCalls    \* bound on the number of calls it records

CallRecord == [cmd : {ADD, MULP2, DIVP2}, first : Addr, second : Addr, result : Addr]

ASSUME ApplicationAssumption ==
    /\ Vals \subseteq Word
    /\ Calls \subseteq CallRecord
    /\ MaxCalls \in Nat

\* History: the calls recorded, and how many results reached the memory.
\* No step of the program reads them.
VARIABLES calls, executed

history == <<calls, executed>>

vars == <<deviceVars, cp, driverVars, history>>

Init ==
    /\ MessagesInit
    /\ CpInit
    /\ InterfaceInit
    /\ MemoryInit
    /\ ImplInit
    /\ DriverInit
    /\ calls = <<>>
    /\ executed = 0

-----------------------------------------------------------------------------
(* One step of each thread.                                                *)

Application(c) ==
    \/ c.cmd = ADD   /\ MAdd(c.first, c.second, c.result)
    \/ c.cmd = MULP2 /\ MMulPow2(c.first, c.second, c.result)
    \/ c.cmd = DIVP2 /\ MDivPow2(c.first, c.second, c.result)

RecordCall(c) ==
    /\ Len(calls) < MaxCalls
    /\ Application(c)
    /\ calls' = Append(calls, c)
    /\ UNCHANGED <<cp, executed>>

\* What the application decides to do next.
AppStep ==
    \/ \E c \in Calls : RecordCall(c)
    \/ /\ \/ \E v \in Vals : NewMInt(v)
          \/ \E a \in Addr, v \in Vals : SetValue(a, v)
          \/ \E c \in Calls : c.cmd # ADD /\ MPow2Rejected(c.second)
          \/ MSync
          \/ MFree
       /\ UNCHANGED <<cp, history>>

\* What the library does on the application's thread.
LibraryStep ==
    /\ \/ MInit
       \/ HandshakeStat
       \/ HandshakePop
       \/ HandshakeReceive
       \/ SyncReturn
       \/ SyncSend
       \/ SyncStat
       \/ CmdSync
       \/ DeleteDevice
    /\ UNCHANGED <<cp, history>>

TimeoutStep == HandshakeTimeout /\ UNCHANGED <<cp, history>>

RecvStep == (RecvTake \/ RecvPush \/ RecvStop) /\ UNCHANGED <<cp, history>>

ImplStep ==
    \/ /\ \/ ImplPoll
          \/ ImplQueue
          \/ ImplRead
          \/ ImplWriteAddr
          \/ ImplDebugRequest
          \/ ImplDebugResponse
          \/ ImplRespond
       /\ UNCHANGED <<cp, driverVars, history>>
    \/ /\ ImplWriteVal
       /\ executed' = executed + 1
       /\ UNCHANGED <<cp, driverVars, calls>>

InterfaceStep(thread) ==
    /\ thread
    /\ UNCHANGED <<cp, contents, allocation_ptr, implVars, driverVars, history>>

RxStep == InterfaceStep(execute_rx)
TxStep == InterfaceStep(execute_tx)

CpStep ==
    /\ CpExecuteTick
    /\ UNCHANGED <<rx_msg, tx_msg, driver_payload, contents, allocation_ptr,
                   implVars, driverVars, history>>

\* Deleting the device or ending the process ends every thread as far as the
\* model goes.
Running == mainPc \notin {"freed", "exited"}

Terminated == ~Running /\ UNCHANGED vars

Next ==
    \/ Running /\ AppStep
    \/ Running /\ LibraryStep
    \/ Running /\ TimeoutStep
    \/ Running /\ RecvStep
    \/ Running /\ ImplStep
    \/ Running /\ RxStep
    \/ Running /\ TxStep
    \/ Running /\ CpStep
    \/ Terminated

\* Every thread that can take a step takes one eventually: the operating
\* system schedules them all and the clock never stops.  Nothing is assumed of
\* the application's choices, nor of the timeout.
Fairness ==
    /\ WF_vars(Running /\ LibraryStep)
    /\ WF_vars(Running /\ RecvStep)
    /\ WF_vars(Running /\ ImplStep)
    /\ WF_vars(Running /\ RxStep)
    /\ WF_vars(Running /\ TxStep)
    /\ WF_vars(Running /\ CpStep)

Spec == Init /\ [][Next]_vars

FairSpec == Spec /\ Fairness

-----------------------------------------------------------------------------
(* Properties.                                                             *)

\* Every variable holds a value of its type: in particular every packet, in
\* every mailbox and list, is one the link can carry, and ids fit a nibble.
TypeOK ==
    /\ MessagesTypeOK
    /\ CpTypeOK
    /\ InterfaceTypeOK
    /\ MemoryTypeOK
    /\ ImplTypeOK
    /\ DriverTypeOK
    /\ calls \in Seq(CallRecord)
    /\ executed \in Nat

Syncing == mainPc \in {"sync", "stat", "cmd_sync"}

\* push_message never overwrites a packet its reader has not taken
\* (hw_module.h:61-68 does not check): the protocol must never push twice.
NoOverwrite ==
    [][\A b \in Mailbox :
          messages[b] # NoMsg => messages'[b] \in {messages[b], NoMsg}]_vars

\* The application gets what the library promises: every call performed once,
\* in order, on operands the calls before it left, all of them before mSync
\* returns, and the memory written by nothing else.
Accelerator == INSTANCE MatrixAccelerator WITH
    Address <- Addr, Value <- Word, Command <- {ADD, MULP2, DIVP2}, Apply <- Alu,
    mem <- contents, syncing <- Syncing

ImplementsAccelerator == Accelerator!Spec

\* A response in the readback list that cmdSync has not used yet is the answer
\* to the packet mSync is waiting for, so no later packet with the same id can
\* be taken for finished by a stale entry (ids repeat after ten packets, and
\* command_status_readback is never emptied, matrix.cpp:35-55).
UnreadIsAwaited ==
    \A i \in DOMAIN command_status_readback :
        LET item == command_status_readback[i] IN
        ~item.read =>
            /\ mainPc \in {"stat", "cmd_sync"}
            /\ item.pkt.id = Head(recorded_commands).id
            /\ item.pkt.cmd = Head(recorded_commands).cmd
            /\ item.pkt.sub_cmd = Head(recorded_commands).sub_cmd

\* Packets that are somewhere between the driver and the command processor.
InFlight ==
    ({messages[b] : b \in Mailbox} \cup {rx_msg, tx_msg, impl_msg, impl_reply, scratch}
        \cup {driver_payload[i] : i \in DOMAIN driver_payload}
        \cup {received_payloads[i] : i \in DOMAIN received_payloads}) \ {NoMsg}

\* Between mInit and mFree the device is at rest whenever the application is
\* outside mSync: nothing in flight but the statistics of the last command, so
\* the memory the application then reads is no longer being written, and mFree
\* (matrix.cpp:204-218) abandons no command.
QuietOutsideSync ==
    mainPc \in {"app", "freeing", "freed"} =>
        /\ \A p \in InFlight : DEVICE_DEBUG /\ p.cmd = MEMORY /\ p.sub_cmd = DEBUG
        /\ cp.state \in {"IDLE", "CMD_END_WAIT", "DEBUG_WRITE_REQUEST", "DEBUG_WRITE_WAIT"}
        /\ mem_write_state = "ADDR_RECV"

\* The FPGA misbehaves "on and above ID=13" (matrix.cpp:29-32): no packet the
\* library records has such an id.
IdsBelow13 == \A i \in DOMAIN recorded_commands : recorded_commands[i].id < 13

\* Each statistics packet about a memory operation finds exactly the response
\* it is about: the last one sent, which answered the processor's last request.
ResponseStatsAttribution ==
    impl_msg # NoMsg /\ impl_msg.cmd = MEMORY /\ impl_msg.sub_cmd = DEBUG
    /\ impl_msg.type = RESPONSE =>
        /\ Len(last_response_pkt) = 1
        /\ Head(last_response_pkt).id = cp.tx_cmd_id

\* Every call of the library returns: mInit (or the process ends), mSync and
\* mFree.  cmdSync spins without a timeout (matrix.cpp:35-55), so this needs
\* every packet of a command and its response to get through.
EveryCallReturns ==
    mainPc \notin {"app", "freed", "exited"} ~> mainPc \in {"app", "freed", "exited"}

-----------------------------------------------------------------------------
(* What the sources say of the program and the model refutes.              *)

\* A line of the statistics names the packet (PKT_ID) and its instruction
\* (INSTR): both are of the same packet, so the list of requests holds the one
\* the statistics packet is about (functional_impl.cpp:37, 175-188).
RequestStatsAttribution ==
    impl_msg # NoMsg /\ impl_msg.cmd = MEMORY /\ impl_msg.sub_cmd = DEBUG
    /\ impl_msg.type = REQUEST =>
        /\ last_request_pkt # <<>>
        /\ Head(last_request_pkt).id = impl_msg.id

\* "Power cannot be negative" (matrix.cpp:117, 153): no shift has one.
PowerNotNegative == cp.state \in {"MULP2", "DIVP2"} => Signed(cp.op2) >= 0

\* mInit returns only when the device answered the handshake; otherwise
\* log_error_and_exit ends the process (functional_impl.cpp:87-88).
InitFindsDevice ==
    [][mainPc = "hs_wait" /\ mainPc' = "app" =>
          /\ received_payloads # <<>>
          /\ HandshakeMatches(Head(received_payloads))]_vars
=============================================================================
