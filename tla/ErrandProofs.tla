----------------------------- MODULE ErrandProofs -----------------------------
(***************************************************************************)
(* Proof that Errand is an invariant of the functional system in builds    *)
(* with LOG_ENABLED, and of what follows from it: no stale answer in the   *)
(* readback list, and that the system implements MatrixAccelerator.  The   *)
(* last section proves Accounted, and with it that the statistics packet   *)
(* of a memory operation finds its own response.                           *)
(***************************************************************************)
EXTENDS LinkProofs

-----------------------------------------------------------------------------
(* What changes neither the calls nor how far they are.                    *)

\* The packet asked for stays the same, and what it asks for as well.
LEMMA CallFrame ==
    ASSUME UNCHANGED <<calls, executed, recorded_commands, contents>>,
           InCall' = InCall
    PROVE  /\ Stage' = Stage /\ Current' = Current /\ Request' = Request
           /\ Recorded' = Recorded
<1>1. Stage' = Stage /\ Current' = Current /\ Recorded' = Recorded
  BY DEF Stage, Current, Recorded
<1>2. Request' = Request
  BY DEF Request, HandshakeRequest
<1> QED BY <1>1, <1>2

\* If the operands stay too, so does what is finished.
LEMMA OperandFrame ==
    ASSUME UNCHANGED <<calls, executed, recorded_commands, contents>>,
           InCall' = InCall, cp'.op1 = cp.op1, cp'.op2 = cp.op2
    PROVE  /\ Operands' = Operands /\ Finished' = Finished
           /\ \A p : RightAck(p)' = RightAck(p)
<1>1. /\ Stage' = Stage /\ Current' = Current /\ Request' = Request
  BY CallFrame
<1>2. Operands' = Operands /\ Finished' = Finished
  BY <1>1 DEF Operands, Finished
<1> QED BY <1>1, <1>2 DEF RightAck

\* The processor's errand is the same while it does not move.
LEMMA WorkFrame ==
    ASSUME UNCHANGED <<calls, executed, recorded_commands, contents, cp>>,
           InCall' = InCall
    PROVE  /\ AtWork' = AtWork /\ (Resting' = Resting)
           /\ \A p : RightAnswer(p)' = RightAnswer(p)
           /\ \A p : RightDown(p)' = RightDown(p)
           /\ \A p : RightUp(p)' = RightUp(p)
           /\ \A p : IsValue(p)' = IsValue(p)
<1>1. /\ Stage' = Stage /\ Current' = Current /\ Request' = Request
      /\ Finished' = Finished /\ \A p : RightAck(p)' = RightAck(p)
  BY CallFrame, OperandFrame
<1>2. AtWork' = AtWork
  BY <1>1 DEF AtWork, Target, Fetching, Writing
<1>3. Resting' = Resting
  BY DEF Resting
<1>4. \A p : RightAnswer(p)' = RightAnswer(p)
  BY <1>1 DEF RightAnswer, Answers
<1>5. \A p : RightDown(p)' = RightDown(p)
  BY <1>1, <1>3, <1>4 DEF RightDown
<1>6. \A p : RightUp(p)' = RightUp(p)
  BY <1>1 DEF RightUp
<1> QED BY <1>2, <1>3, <1>4, <1>5, <1>6 DEF IsValue

\* With nothing under way but statistics, only the processor's own errand, the
\* acknowledgement and the calls count.
LEMMA QuietErrand ==
    ASSUME DownEmpty', UpQuiet', impl_reply' = NoMsg, AckEmpty' \/ AckRight',
           mainPc' # "exited", Recorded', Stages', Operands', NotReceiving',
           Resting' \/ AtWork'
    PROVE  Errand'
<1>1. \A i \in 1 .. Len(Up') : /\ Up'[i] \notin Reads /\ Up'[i] \notin Acks
                               /\ Up'[i] \notin Writes
  BY Kinds DEF UpQuiet, AllDebug
<1>2. DownRight'
  BY DEF DownRight, RightDown, DownEmpty
<1>3. ReplyRight'
  BY DEF ReplyRight
<1>4. UpRight'
  BY <1>1 DEF UpRight, RightUp
<1>5. WriteRight'
  BY <1>1 DEF WriteRight, UpQuiet
<1>6. AckRight'
  BY DEF AckRight, AckEmpty, AllRead
<1> QED BY <1>2, <1>3, <1>4, <1>5, <1>6 DEF Errand
-----------------------------------------------------------------------------
(* The packet at the head of recorded_commands.                            *)

LEMMA StageType ==
    ASSUME TypeInv
    PROVE  /\ Stage \in Int /\ Len(calls) \in Nat /\ executed \in Nat
           /\ Len(recorded_commands) \in Nat
           /\ recorded_commands # <<>> => Len(recorded_commands) >= 1
BY DEF TypeInv, TypeOK, DriverTypeOK, Stage

\* It is the packet of operand Stage of the current call.
LEMMA HeadOfCall ==
    ASSUME TypeInv, Recorded, Stage \in 0 .. 2, recorded_commands # <<>>
    PROVE  /\ executed < Len(calls)
           /\ Current \in CallRecord
           /\ Head(recorded_commands).cmd = Current.cmd
           /\ Head(recorded_commands).sub_cmd = Stage
           /\ Head(recorded_commands).body = Operand(Current, Stage)
<1> DEFINE k == executed + 1
<1>1. executed < Len(calls) /\ k \in 1 .. Len(calls)
  BY StageType DEF Stage
<1>2. Current \in CallRecord /\ Current = calls[k]
  BY <1>1 DEF Current, TypeInv, TypeOK
<1>3. 1 \in 1 .. Len(recorded_commands) /\ Head(recorded_commands) = recorded_commands[1]
  BY StageType DEF TypeInv, TypeOK, DriverTypeOK
<1>4. Len(recorded_commands) - 1 = 3 * (Len(calls) - k) + (2 - Stage)
  BY StageType DEF Stage
<1> HIDE DEF k
<1>5. /\ recorded_commands[1].cmd = calls[k].cmd
      /\ recorded_commands[1].sub_cmd = Stage
      /\ recorded_commands[1].body = Operand(calls[k], Stage)
  BY <1>1, <1>3, <1>4 DEF Recorded
<1> QED BY <1>1, <1>2, <1>3, <1>5

\* What the request of a call in progress is.
LEMMA RequestOfCall ==
    ASSUME TypeInv, Recorded, Stages, InCall, Stage # -1
    PROVE  /\ executed < Len(calls) /\ Current \in CallRecord
           /\ Request.cmd = Current.cmd
           /\ Request.sub_cmd = Stage
           /\ Request.body = Operand(Current, Stage)
           /\ Request.body \in Addr
<1>1. Stage \in 0 .. 2
  BY DEF Stages
<1>2. recorded_commands # <<>>
  BY DEF TypeInv, Awaiting, InCall
<1>3. /\ executed < Len(calls) /\ Current \in CallRecord
      /\ Request.cmd = Current.cmd
      /\ Request.sub_cmd = Stage
      /\ Request.body = Operand(Current, Stage)
  BY <1>1, <1>2, HeadOfCall DEF Request
<1>4. Operand(Current, Stage) \in Addr
  BY <1>1, <1>3 DEF Operand, OP_1, OP_2, OP_3, CallRecord
<1> QED BY <1>3, <1>4

-----------------------------------------------------------------------------
(* The application's thread.                                               *)

\* Three packets are recorded for each call.
LEMMA RecordErrand ==
    ASSUME TypeInv, Recorded, NEW c \in Calls, RecordCall(c)
    PROVE  Recorded' /\ Stage' = Stage
<1> DEFINE g == drv_preproc(global_command_id)
           p1 == Payload(g, REQUEST, c.cmd, OP_1, c.first)
           p2 == Payload(g + 1, REQUEST, c.cmd, OP_2, c.second)
           p3 == Payload(g + 2, REQUEST, c.cmd, OP_3, c.result)
           R == recorded_commands
<1>1. /\ R' = R \o <<p1, p2, p3>>
      /\ calls' = Append(calls, c) /\ executed' = executed
  BY DEF RecordCall, Application, MAdd, MMulPow2, MDivPow2, MPow2, Record
<1>2. /\ p1.cmd = c.cmd /\ p1.sub_cmd = 0 /\ p1.body = Operand(c, 0)
      /\ p2.cmd = c.cmd /\ p2.sub_cmd = 1 /\ p2.body = Operand(c, 1)
      /\ p3.cmd = c.cmd /\ p3.sub_cmd = 2 /\ p3.body = Operand(c, 2)
  <2> HIDE DEF g
  <2> QED BY DEF Payload, Operand, OP_1, OP_2, OP_3
<1> HIDE DEF p1, p2, p3
<1> DEFINE l == Len(R)  m == Len(calls)
<1>3. R \in Seq(Packet) /\ calls \in Seq(CallRecord) /\ l \in Nat /\ m \in Nat /\ executed \in Nat
  BY DEF TypeInv, TypeOK, DriverTypeOK
<1>4. /\ Len(R') = l + 3
      /\ \A i \in 1 .. l : R'[i] = R[i]
      /\ R'[l + 1] = p1 /\ R'[l + 2] = p2 /\ R'[l + 3] = p3
  BY <1>1, <1>3
<1>5. /\ Len(calls') = m + 1
      /\ \A k \in 1 .. m : calls'[k] = calls[k]
      /\ calls'[m + 1] = c
  BY <1>1, <1>3
<1>6. \A i \in 1 .. l, k \in 1 .. m, n \in 0 .. 2 :
          l - i = 3 * (m - k) + (2 - n) =>
              /\ R[i].cmd = calls[k].cmd
              /\ R[i].sub_cmd = n
              /\ R[i].body = Operand(calls[k], n)
  BY DEF Recorded
<1>7. Stage = 3 * (m - executed) - l
  BY DEF Stage
<1> HIDE DEF l, m
<1>8. Stage' = Stage
  <2>1. Stage' = 3 * ((m + 1) - executed) - (l + 3)
    BY <1>1, <1>4, <1>5 DEF Stage
  <2> QED BY <1>3, <1>7, <2>1
<1>9. ASSUME NEW i \in 1 .. l + 3, NEW k \in 1 .. m + 1, NEW n \in 0 .. 2,
             l + 3 - i = 3 * (m + 1 - k) + (2 - n)
      PROVE  /\ R'[i].cmd = calls'[k].cmd
             /\ R'[i].sub_cmd = n
             /\ R'[i].body = Operand(calls'[k], n)
  <2>1. CASE i <= l
    <3>1. i \in 1 .. l /\ k \in 1 .. m /\ l - i = 3 * (m - k) + (2 - n)
      BY <1>3, <1>9, <2>1
    <3>2. R'[i] = R[i] /\ calls'[k] = calls[k]
      BY <1>4, <1>5, <3>1
    <3> QED BY <1>6, <3>1, <3>2
  <2>2. CASE i > l
    <3>1. k = m + 1 /\ i = l + 1 + n
      BY <1>3, <1>9, <2>2
    <3>2. calls'[k] = c
      BY <1>5, <3>1
    <3>3. \/ n = 0 /\ R'[i] = p1
          \/ n = 1 /\ R'[i] = p2
          \/ n = 2 /\ R'[i] = p3
      BY <1>3, <1>4, <3>1
    <3> QED BY <1>2, <3>2, <3>3
  <2> QED BY <1>3, <2>1, <2>2
<1>10. Recorded'
  <2> SUFFICES ASSUME NEW i \in 1 .. Len(R'), NEW k \in 1 .. Len(calls'), NEW n \in 0 .. 2,
                      Len(R') - i = 3 * (Len(calls') - k) + (2 - n)
               PROVE  /\ R'[i].cmd = calls'[k].cmd
                      /\ R'[i].sub_cmd = n
                      /\ R'[i].body = Operand(calls'[k], n)
    BY DEF Recorded, R
  <2>1. i \in 1 .. l + 3 /\ k \in 1 .. m + 1 /\ l + 3 - i = 3 * (m + 1 - k) + (2 - n)
    BY <1>3, <1>4, <1>5
  <2> QED BY <1>9, <2>1
<1> QED BY <1>8, <1>10

\* What the application does between the library's calls.
LEMMA AppErrand ==
    ASSUME TypeInv, Baton, Baton', Errand, Running, AppStep
    PROVE  Errand'
<1>1. mainPc = "app" /\ mainPc' \in {"app", "sync", "freeing", "exited"}
  BY DEF AppStep, RecordCall, Application, MAdd, MMulPow2, MDivPow2, MPow2, NewMInt,
         SetValue, MPow2Rejected, MSync, MFree, driverVars, Goto
<1>2. Recorded /\ Stages /\ Stage = 0
  BY <1>1 DEF Errand, Stages, Syncing
<1>3. executed' = executed /\ Recorded' /\ Stage' = 0 /\ executed' <= Len(calls')
  <2>1. CASE \E c \in Calls : RecordCall(c)
    <3>1. PICK c \in Calls : RecordCall(c)
      BY <2>1
    <3>2. Len(calls') = Len(calls) + 1 /\ executed' = executed
      BY <3>1 DEF RecordCall, TypeInv, TypeOK
    <3> QED BY <1>2, <3>1, <3>2, RecordErrand, StageType DEF Stages
  <2>2. CASE UNCHANGED <<recorded_commands, history>>
    BY <1>2, <2>2 DEF history, Recorded, Stage, Stages
  <2> QED BY <2>1, <2>2
          DEF AppStep, NewMInt, SetValue, MPow2Rejected, MSync, MFree, driverVars
<1>4. MainHas
  BY <1>1, Holders DEF Waiting
<1>5. CASE mainPc' = "exited"
  <2>1. UNCHANGED command_status_readback
    BY <1>1, <1>5 DEF AppStep, RecordCall, Application, MAdd, MMulPow2, MDivPow2, MPow2,
         NewMInt, SetValue, MPow2Rejected, MSync, MFree, driverVars, Goto
  <2> QED BY <1>3, <1>4, <1>5, <2>1 DEF Errand, MainHas, AckEmpty, AllRead
<1>6. CASE mainPc' # "exited"
  <2>1. MainHas'
    BY <1>1, <1>6 DEF Baton, MainHas, DownHas, CpHas, UpHas, ReplyHas, AckHas, Waiting
  <2>2. Stages' /\ Operands' /\ NotReceiving'
    BY <1>1, <1>3, <1>6 DEF Stages, Operands, NotReceiving
  <2> QED BY <1>3, <1>6, <2>1, <2>2, QuietErrand DEF MainHas
<1> QED BY <1>5, <1>6

-----------------------------------------------------------------------------
(* The library on the application's thread.                                *)

\* A request is sent.
LEMMA SendErrand ==
    ASSUME TypeInv, Baton, Errand, ~Waiting, mainPc # "exited", mainPc' # "exited",
           NEW p \in Packet, SendRequest(p), Request' = p, Stage >= 0,
           UNCHANGED <<history, recorded_commands, command_status_readback, scratch, cp>>,
           Stages', NotReceiving'
    PROVE  Errand'
<1>1. MainHas
  BY Holders
<1>2. /\ messages' = [messages EXCEPT ![PKT_TO_DEVICE] = p]
      /\ UNCHANGED <<rx_msg, tx_msg, driver_payload, impl_msg, impl_reply, contents,
                     mem_write_state, mem_write_addr_scratch, received_payloads>>
  BY DEF SendRequest, PushMessage, implVars
<1>3. /\ messages'[PKT_TO_DEVICE] = p
      /\ messages'[PKT_TO_CP] = NoMsg
      /\ messages'[PKT_FROM_CP] = messages[PKT_FROM_CP]
  BY <1>1, <1>2, LinkTypes
     DEF MessagesTypeOK, Mailbox, PKT_TO_DEVICE, PKT_TO_CP, PKT_FROM_CP, MainHas, DownEmpty
<1>4. Stage' = Stage /\ Recorded' /\ Operands'
  <2>1. (Stage' = Stage) /\ (Current' = Current) /\ (Recorded' = Recorded)
    BY DEF Stage, Current, Recorded, history
  <2>2. Recorded /\ Operands
    BY DEF Errand
  <2> QED BY <1>2, <2>1, <2>2 DEF Operands
<1>5. Up' = Up
  <2>1. Opt(messages[PKT_FROM_CP])' = Opt(messages[PKT_FROM_CP])
    BY <1>3 DEF Opt
  <2>2. Opt(impl_msg)' = Opt(impl_msg) /\ Opt(tx_msg)' = Opt(tx_msg)
    BY <1>2
  <2> QED BY <1>2, <2>1, <2>2 DEF Up
<1>6. Resting' /\ UpQuiet' /\ impl_reply' = NoMsg /\ AckEmpty'
  BY <1>1, <1>2, <1>5 DEF MainHas, Resting, UpQuiet, AckEmpty, AllRead
<1>7. \A i \in 1 .. Len(Up') : /\ Up'[i] \notin Reads /\ Up'[i] \notin Acks
                               /\ Up'[i] \notin Writes
  BY <1>6, Kinds DEF UpQuiet, AllDebug
<1>8. DownRight'
  BY <1>1, <1>2, <1>3, <1>4, <1>6 DEF DownRight, RightDown, MainHas, DownEmpty
<1>9. UpRight' /\ WriteRight'
  BY <1>6, <1>7 DEF UpRight, RightUp, WriteRight, UpQuiet
<1>10. ReplyRight' /\ AckRight'
  BY <1>6 DEF ReplyRight, AckRight, AckEmpty, AllRead
<1> QED BY <1>4, <1>6, <1>8, <1>9, <1>10 DEF Errand

\* The application's thread goes on while its packet is under way.
LEMMA GoOnErrand ==
    ASSUME Errand, mainPc # "exited", mainPc' # "exited", UNCHANGED linkVars,
           UNCHANGED <<history, recorded_commands, contents, mem_write_addr_scratch>>,
           InCall' = InCall, Stages', NotReceiving'
    PROVE  Errand'
<1>1. Up' = Up
  BY Frame
<1>2. Recorded' /\ Operands' /\ (\A p : RightAck(p)' = RightAck(p))
  BY CallFrame, OperandFrame DEF Errand, history, linkVars
<1>3. /\ AtWork' = AtWork /\ (Resting' = Resting)
      /\ \A p : RightAnswer(p)' = RightAnswer(p)
      /\ \A p : RightDown(p)' = RightDown(p)
      /\ \A p : RightUp(p)' = RightUp(p)
      /\ \A p : IsValue(p)' = IsValue(p)
  BY WorkFrame DEF history, linkVars
<1>4. DownRight' /\ ReplyRight'
  BY <1>3 DEF Errand, DownRight, ReplyRight, linkVars
<1>5. UpRight'
  BY <1>1, <1>3 DEF Errand, UpRight
<1>6. WriteRight'
  BY <1>1, <1>3 DEF Errand, WriteRight, linkVars
<1>7. AckRight'
  BY <1>2 DEF Errand, AckRight, linkVars
<1> QED BY <1>2, <1>3, <1>4, <1>5, <1>6, <1>7 DEF Errand

\* mSync takes the packet it waited for off the list.
LEMMA CmdSyncErrand ==
    ASSUME TypeInv, Baton, Baton', Errand, CmdSync, UNCHANGED <<cp, history>>
    PROVE  Errand'
<1> DEFINE R == recorded_commands  B == command_status_readback
<1>1. /\ mainPc = "cmd_sync" /\ mainPc' = "sync" /\ contents' = contents
      /\ R' = Tail(R) /\ UNCHANGED <<recv_running, scratch>>
  BY DEF CmdSync, Goto, deviceVars
<1>2. /\ R \in Seq(Packet) /\ R # <<>> /\ Len(R) \in Nat /\ Len(R) >= 1
      /\ Len(R') = Len(R) - 1
      /\ \A i \in 1 .. Len(R') : R'[i] = R[i + 1]
  BY <1>1 DEF TypeInv, TypeOK, DriverTypeOK, Awaiting
<1>3. InCall /\ Stages /\ Operands /\ AckRight /\ Recorded
  BY <1>1 DEF InCall, Errand
<1>4. Finished
  <2>1. PICK id : {i \in DOMAIN B : Finishes(B[i], id)} # {}
    BY DEF CmdSync
  <2>2. PICK i \in DOMAIN B : ~B[i].read
    BY <2>1 DEF Finishes
  <2> QED BY <1>3, <2>2 DEF AckRight, RightAck
<1>5. /\ Stage \in -1 .. 1 /\ Stage' = Stage + 1 /\ Stage' \in 0 .. 2
      /\ Current' = Current
  <2>1. Stage \in -1 .. 1
    BY <1>3, <1>4 DEF Finished
  <2>2. Stage' = Stage + 1
    BY <1>2, StageType DEF Stage, history
  <2> QED BY <2>1, <2>2 DEF Current, history
<1>6. Recorded'
  <2> SUFFICES ASSUME NEW i \in 1 .. Len(R'), NEW k \in 1 .. Len(calls), NEW n \in 0 .. 2,
                      Len(R') - i = 3 * (Len(calls) - k) + (2 - n)
               PROVE  /\ R'[i].cmd = calls[k].cmd
                      /\ R'[i].sub_cmd = n
                      /\ R'[i].body = Operand(calls[k], n)
    BY DEF Recorded, history
  <2>1. i + 1 \in 1 .. Len(R) /\ Len(R) - (i + 1) = 3 * (Len(calls) - k) + (2 - n)
        /\ R'[i] = R[i + 1]
    BY <1>2
  <2>2. \A j \in 1 .. Len(R) :
            Len(R) - j = 3 * (Len(calls) - k) + (2 - n) =>
                /\ R[j].cmd = calls[k].cmd
                /\ R[j].sub_cmd = n
                /\ R[j].body = Operand(calls[k], n)
    BY <1>3 DEF Recorded
  <2> HIDE DEF R
  <2> QED BY <2>1, <2>2
<1>7. Stages'
  BY <1>1, <1>3, <1>5 DEF Stages, Syncing, history
<1>8. Operands'
  BY <1>1, <1>3, <1>4, <1>5 DEF Operands, Finished
<1>9. MainHas'
  BY <1>1 DEF Baton, MainHas, DownHas, CpHas, UpHas, ReplyHas, AckHas, Waiting
<1>10. NotReceiving'
  BY <1>1 DEF NotReceiving
<1> QED BY <1>1, <1>6, <1>7, <1>8, <1>9, <1>10, QuietErrand DEF MainHas

LEMMA LibraryErrand ==
    ASSUME TypeInv, Baton, Baton', Errand, Running, LibraryStep
    PROVE  Errand'
<1>0. /\ mainPc # "exited" /\ UNCHANGED <<cp, history>>
      /\ Recorded /\ Stages /\ Operands /\ NotReceiving
  BY DEF Running, LibraryStep, Errand
<1>1. CASE MInit
  <2>1. HandshakeRequest \in Packet
    BY ZeroWord DEF HandshakeRequest, Payload, Packet, Nibble
  <2>2. /\ mainPc = "init" /\ mainPc' \in {"hs_stat", "hs_wait"}
        /\ UNCHANGED <<recorded_commands, command_status_readback, recv_running, scratch>>
    BY <1>1 DEF MInit, Goto, AfterSend
  <2>3. ~Waiting /\ Request' = HandshakeRequest /\ Stage = 0 /\ Stage' = Stage
    BY <1>0, <2>2 DEF Waiting, Request, InCall, Stages, Syncing, Stage, history
  <2>4. Stages' /\ NotReceiving'
    BY <1>0, <2>2, <2>3 DEF Stages, Syncing, NotReceiving, history
  <2> QED BY <1>0, <1>1, <2>1, <2>2, <2>3, <2>4, SendErrand DEF MInit
<1>2. CASE SyncSend
  <2>1. Head(recorded_commands) \in Packet
    BY <1>2, LinkTypes, ListTypes DEF SyncSend, DriverTypeOK
  <2>2. /\ mainPc = "sync" /\ mainPc' \in {"stat", "cmd_sync"}
        /\ UNCHANGED <<recorded_commands, command_status_readback, recv_running, scratch>>
    BY <1>2 DEF SyncSend, Goto, AfterSend
  <2>3. ~Waiting /\ Request' = Head(recorded_commands) /\ Stage >= 0 /\ Stage' = Stage
    BY <1>0, <2>2 DEF Waiting, Request, InCall, Stages, Stage, history
  <2>4. Stages' /\ NotReceiving'
    BY <1>0, <2>2, <2>3 DEF Stages, Syncing, NotReceiving, history
  <2> QED BY <1>0, <1>2, <2>1, <2>2, <2>3, <2>4, SendErrand DEF SyncSend
<1>3. CASE HandshakeReceive
  <2>1. /\ mainPc = "hs_wait" /\ mainPc' \in {"app", "hs_wait"}
        /\ received_payloads # <<>> /\ received_payloads' = Tail(received_payloads)
        /\ UNCHANGED <<messages, rx_msg, tx_msg, driver_payload, impl_msg, impl_reply,
                       mem_write_state, scratch, command_status_readback,
                       recorded_commands, contents>>
        /\ mainPc' = "hs_wait" => recv_running' = recv_running
    BY <1>3 DEF HandshakeReceive, TakeReceived
  <2>2. AckHas /\ AckOne
    BY <1>0, <2>1, Holders DEF AckEmpty
  <2>3. Len(received_payloads) = 1 /\ scratch = NoMsg /\ AllRead
    BY <2>1, <2>2 DEF AckOne
  <2>4. received_payloads \in Seq(Packet)
    BY LinkTypes DEF ImplTypeOK
  <2>5. AckEmpty'
    BY <2>1, <2>3, <2>4 DEF AckEmpty, AllRead
  <2>6. Up' = Up
    BY <2>1 DEF Up, Opt
  <2>7. DownEmpty' /\ Resting' /\ UpQuiet' /\ impl_reply' = NoMsg
    BY <1>0, <2>1, <2>2, <2>6 DEF AckHas, DownEmpty, Resting, UpQuiet
  <2>8. InCall' = InCall
    BY <2>1 DEF InCall
  <2>9. (Stage' = Stage) /\ Recorded' /\ Operands'
    BY <1>0, <2>1, <2>8, CallFrame, OperandFrame DEF history
  <2>10. Stages' /\ NotReceiving'
    BY <1>0, <2>1, <2>9 DEF Stages, Syncing, NotReceiving, history
  <2> QED BY <2>1, <2>5, <2>7, <2>9, <2>10, QuietErrand
<1>4. CASE CmdSync
  BY <1>0, <1>4, CmdSyncErrand
<1>5. CASE HandshakeStat \/ HandshakePop \/ SyncStat
  <2>1. UNCHANGED linkVars
        /\ UNCHANGED <<recorded_commands, contents, mem_write_addr_scratch, recv_running>>
    BY <1>0, <1>5 DEF HandshakeStat, HandshakePop, SyncStat, RememberRequest, linkVars
  <2>2. \/ mainPc \in {"hs_stat", "hs_pop"} /\ mainPc' \in {"hs_pop", "hs_wait"}
        \/ mainPc = "stat" /\ mainPc' = "cmd_sync"
    BY <1>5 DEF HandshakeStat, HandshakePop, SyncStat, Goto
  <2>3. InCall' = InCall /\ mainPc' # "exited"
    BY <2>2 DEF InCall
  <2>4. Stage' = Stage
    BY <1>0, <2>1 DEF Stage, history
  <2>5. Stages' /\ NotReceiving'
    BY <1>0, <2>1, <2>2, <2>4 DEF Stages, Syncing, NotReceiving, history, linkVars
  <2> QED BY <1>0, <2>1, <2>3, <2>5, GoOnErrand
<1>6. CASE SyncReturn \/ DeleteDevice
  <2>1. UNCHANGED linkVars
        /\ UNCHANGED <<recorded_commands, contents, mem_write_addr_scratch, recv_running>>
    BY <1>0, <1>6 DEF SyncReturn, DeleteDevice, deviceVars, implVars, linkVars
  <2>2. \/ mainPc = "sync" /\ mainPc' = "app" /\ recorded_commands = <<>>
        \/ mainPc = "freeing" /\ mainPc' = "freed"
    BY <1>6 DEF SyncReturn, DeleteDevice, Goto
  <2>3. InCall' = InCall /\ mainPc' # "exited"
    BY <2>2 DEF InCall
  <2>4. (Stage' = Stage) /\ Stage = 0
    <3>1. Stage' = Stage
      BY <1>0, <2>1 DEF Stage, history
    <3>2. CASE recorded_commands = <<>> /\ mainPc = "sync"
      BY <1>0, <3>1, <3>2, StageType DEF Stages, Stage
    <3>3. CASE mainPc = "freeing"
      BY <1>0, <3>1, <3>3 DEF Stages, Syncing
    <3> QED BY <2>2, <3>1, <3>2, <3>3
  <2>5. Stages' /\ NotReceiving'
    BY <1>0, <2>1, <2>2, <2>4 DEF Stages, Syncing, NotReceiving, history, linkVars
  <2> QED BY <1>0, <2>1, <2>3, <2>5, GoOnErrand
<1> QED BY <1>1, <1>2, <1>3, <1>4, <1>5, <1>6 DEF LibraryStep

-----------------------------------------------------------------------------
(* The driver's receive thread and the interface threads.                  *)

LEMMA RecvErrand ==
    ASSUME TypeInv, Baton, Errand, Running, RecvStep
    PROVE  Errand'
<1>0. /\ mainPc # "exited" /\ UNCHANGED <<cp, mainPc, history, recorded_commands>>
      /\ Recorded /\ Stages /\ Operands /\ NotReceiving /\ AckRight
  BY DEF Running, RecvStep, RecvTake, RecvPush, RecvStop, Errand
<1>1. UNCHANGED <<messages, rx_msg, tx_msg, driver_payload, impl_msg, impl_reply,
                  mem_write_state, mem_write_addr_scratch, contents>>
  BY DEF RecvStep, RecvTake, RecvPush, RecvStop, TakeReceived, deviceVars, implVars
<1>2. InCall' = InCall
  BY <1>0 DEF InCall
<1>3. /\ (Stage' = Stage) /\ Recorded' /\ Operands'
      /\ Request' = Request /\ Finished' = Finished
  BY <1>0, <1>1, <1>2, CallFrame, OperandFrame DEF history
<1>4. Stages' /\ recv_running
  BY <1>0, <1>3 DEF Stages, Syncing, history, RecvStep, RecvTake, RecvPush, RecvStop
<1>5. NotReceiving'
  BY <1>0, <1>4 DEF NotReceiving
<1>6. CASE RecvStop
  <2>1. UNCHANGED linkVars
    BY <1>0, <1>1, <1>6 DEF RecvStop, deviceVars, implVars, linkVars
  <2> QED BY <1>0, <1>1, <1>2, <1>4, <1>5, <2>1, GoOnErrand
<1>7. CASE RecvTake \/ RecvPush
  <2>1. ~AckEmpty
    BY <1>7 DEF RecvTake, RecvPush, TakeReceived, AckEmpty
  <2>2. AckHas /\ AckOne
    BY <1>0, <2>1, Holders
  <2>3. Up' = Up
    BY <1>1 DEF Up, Opt
  <2>4. DownEmpty' /\ Resting' /\ UpQuiet' /\ impl_reply' = NoMsg
    BY <1>0, <1>1, <2>2, <2>3 DEF AckHas, DownEmpty, Resting, UpQuiet
  <2>5. AckRight'
    <3>1. CASE RecvTake
      <4>1. /\ received_payloads # <<>>
            /\ received_payloads' = Tail(received_payloads)
            /\ scratch' = Head(received_payloads)
            /\ UNCHANGED command_status_readback
        BY <3>1 DEF RecvTake, TakeReceived
      <4>2. /\ received_payloads \in Seq(Packet) /\ Len(received_payloads) = 1
            /\ scratch = NoMsg
        BY <2>2, <4>1, LinkTypes DEF AckOne, ImplTypeOK
      <4>3. received_payloads' = <<>> /\ scratch' = received_payloads[1]
            /\ 1 \in DOMAIN received_payloads
        BY <4>1, <4>2
      <4> QED BY <1>0, <1>3, <4>1, <4>3 DEF AckRight, RightAck
    <3>2. CASE RecvPush
      <4> DEFINE R == command_status_readback
                 e == [pkt |-> scratch, read |-> FALSE]
      <4>1. scratch # NoMsg /\ scratch' = NoMsg /\ R' = Append(R, e)
            /\ UNCHANGED received_payloads
        BY <3>2 DEF RecvPush, deviceVars, implVars
      <4>2. R \in Seq([pkt : Packet, read : BOOLEAN])
        BY LinkTypes DEF DriverTypeOK
      <4>3. /\ DOMAIN R = 1 .. Len(R) /\ DOMAIN R' = 1 .. Len(R) + 1 /\ Len(R) \in Nat
            /\ \A i \in 1 .. Len(R) : R'[i] = R[i]
            /\ R'[Len(R) + 1] = e
        <5> HIDE DEF e
        <5> QED BY <4>1, <4>2
      <4>4. RightAck(e.pkt) /\ \A i \in DOMAIN R : ~R[i].read => RightAck(R[i].pkt)
        BY <1>0, <4>1 DEF AckRight
      <4> HIDE DEF R, e
      <4>5. ASSUME NEW i \in DOMAIN R', ~R'[i].read PROVE RightAck(R'[i].pkt)
        BY <4>3, <4>4, <4>5
      <4>6. (\A i \in DOMAIN R : ~R[i].read => RightAck(R[i].pkt))'
        BY <1>3, <4>5 DEF RightAck
      <4>7. (\A i \in DOMAIN received_payloads : RightAck(received_payloads[i]))'
        BY <1>0, <1>3, <4>1 DEF AckRight, RightAck
      <4> QED BY <4>1, <4>6, <4>7 DEF AckRight, RightAck, R
    <3> QED BY <1>7, <3>1, <3>2
  <2> QED BY <1>0, <1>3, <1>4, <1>5, <2>4, <2>5, QuietErrand
<1> QED BY <1>6, <1>7 DEF RecvStep

\* What goes up moves on, and the first packet perhaps leaves.
LEMMA UpFewer ==
    ASSUME UNCHANGED <<history, recorded_commands, contents, cp>>, InCall' = InCall,
           NEW d \in {0, 1}, Len(Up) \in Nat, Len(Up') = Len(Up) - d,
           \A i \in 1 .. Len(Up') : Up'[i] = Up[i + d],
           UpRight
    PROVE  /\ UpRight'
           /\ WriteRight /\ UNCHANGED <<mem_write_state, mem_write_addr_scratch>>
                  => WriteRight'
<1> DEFINE U == Up
<1>1. \A i \in 1 .. Len(U') : i + d \in 1 .. Len(U) /\ U'[i] = U[i + d]
  OBVIOUS
<1>2. /\ Stage' = Stage /\ Request' = Request /\ Finished' = Finished
  BY CallFrame, OperandFrame DEF history
<1>3. \A i \in 1 .. Len(U) : RightUp(U[i])
  BY DEF UpRight
<1>w. WriteRight =>
        /\ cp.state \in {"MEM_WRITE_VAL_PREP", "MEM_WRITE_VAL"} =>
               \A i \in 1 .. Len(U) : U[i] \in Writes => U[i].body = cp.mem_write_addr
        /\ cp.state = "MEM_WRITE_WAIT" /\ mem_write_state = "VAL_RECV" =>
               \A i \in 1 .. Len(U) :
                   U[i] \in Writes => U[i].id = cp.tx_cmd_id /\ U[i].body = cp.mem_val
        /\ cp.state = "MEM_WRITE_WAIT" /\ mem_write_state = "ADDR_RECV" =>
               \A i, l \in 1 .. Len(U) :
                   i < l /\ U[i] \in Writes /\ U[l] \in Writes =>
                       /\ U[i].body = cp.mem_write_addr
                       /\ U[l].id = cp.tx_cmd_id /\ U[l].body = cp.mem_val
  BY DEF WriteRight, IsValue
<1>4. UpRight'
  <2> SUFFICES (\A i \in 1 .. Len(U) : RightUp(U[i]))'
    BY DEF UpRight
  <2> HIDE DEF U
  <2>1. ASSUME NEW i \in 1 .. Len(U') PROVE RightUp(U'[i])
    <3>1. i + d \in 1 .. Len(U) /\ U'[i] = U[i + d]
      BY <1>1
    <3> QED BY <1>3, <3>1
  <2>2. ASSUME NEW i \in 1 .. Len(U') PROVE RightUp(U[i])'
    <3> DEFINE q == U'[i]
    <3>1. RightUp(q)
      BY <2>1
    <3> QED BY <1>2, <3>1 DEF RightUp, RightAck
  <2> QED BY <2>2
<1>5. ASSUME WriteRight, UNCHANGED <<mem_write_state, mem_write_addr_scratch>>
      PROVE  WriteRight'
  <2>1. (mem_write_state = "VAL_RECV" => mem_write_addr_scratch = cp.mem_write_addr)'
    BY <1>5 DEF WriteRight
  <2>2. (cp.state \in {"MEM_WRITE_VAL_PREP", "MEM_WRITE_VAL"} =>
           \A i \in 1 .. Len(U) : U[i] \in Writes => U[i].body = cp.mem_write_addr)'
    <3> HIDE DEF U
    <3> QED BY <1>1, <1>5, <1>w
  <2>3. (cp.state = "MEM_WRITE_WAIT" /\ mem_write_state = "VAL_RECV" =>
           \A i \in 1 .. Len(U) : U[i] \in Writes => IsValue(U[i]))'
    <3> HIDE DEF U
    <3> QED BY <1>1, <1>5, <1>w DEF IsValue
  <2>4. (cp.state = "MEM_WRITE_WAIT" /\ mem_write_state = "ADDR_RECV" =>
           \A i, l \in 1 .. Len(U) :
               i < l /\ U[i] \in Writes /\ U[l] \in Writes =>
                   U[i].body = cp.mem_write_addr /\ IsValue(U[l]))'
    <3> SUFFICES ASSUME cp'.state = "MEM_WRITE_WAIT", mem_write_state' = "ADDR_RECV",
                        NEW i \in 1 .. Len(U'), NEW l \in 1 .. Len(U'), i < l,
                        U'[i] \in Writes, U'[l] \in Writes
                 PROVE  /\ U'[i].body = cp'.mem_write_addr
                        /\ U'[l].id = cp'.tx_cmd_id /\ U'[l].body = cp'.mem_val
      BY DEF IsValue
    <3>1. /\ i + d \in 1 .. Len(U) /\ l + d \in 1 .. Len(U) /\ i + d < l + d
          /\ U'[i] = U[i + d] /\ U'[l] = U[l + d]
      BY <1>1
    <3> HIDE DEF U
    <3> QED BY <1>5, <1>w, <3>1
  <2> QED BY <2>1, <2>2, <2>3, <2>4 DEF WriteRight
<1> QED BY <1>4, <1>5

\* A packet moves on.
LEMMA MoveErrand ==
    ASSUME Errand, mainPc # "exited",
           UNCHANGED <<cp, history, contents, driverVars, mem_write_state,
                       mem_write_addr_scratch, received_payloads>>,
           impl_reply' \in {impl_reply, NoMsg}, DownRight',
           NEW d \in {0, 1}, Len(Up) \in Nat, Len(Up') = Len(Up) - d,
           \A i \in 1 .. Len(Up') : Up'[i] = Up[i + d]
    PROVE  Errand'
<1>1. InCall' = InCall /\ mainPc' = mainPc /\ NotReceiving' = NotReceiving
      /\ UNCHANGED recorded_commands
  BY DEF InCall, NotReceiving, driverVars
<1>2. /\ Recorded' /\ Operands' /\ (Stage' = Stage)
      /\ Request' = Request /\ Finished' = Finished
  BY <1>1, CallFrame, OperandFrame DEF Errand, history
<1>3. AtWork' = AtWork /\ (Resting' = Resting) /\ \A p : RightAnswer(p)' = RightAnswer(p)
  BY <1>1, WorkFrame DEF history
<1>4. ReplyRight'
  <2>1. CASE impl_reply' = NoMsg
    BY <2>1 DEF ReplyRight
  <2>2. CASE impl_reply' = impl_reply
    BY <1>2, <2>2 DEF Errand, ReplyRight, RightAnswer, Answers
  <2> QED BY <2>1, <2>2
<1>5. UpRight' /\ WriteRight'
  BY <1>1, UpFewer DEF Errand
<1>6. AckRight'
  BY <1>2 DEF Errand, AckRight, RightAck, driverVars
<1>7. Stages'
  BY <1>1, <1>2 DEF Errand, Stages, Syncing, history
<1> QED BY <1>1, <1>2, <1>3, <1>4, <1>5, <1>6, <1>7 DEF Errand

LEMMA InterfaceErrand ==
    ASSUME TypeInv, Baton, Errand, Running, RxStep \/ TxStep
    PROVE  Errand'
<1>0. /\ mainPc # "exited"
      /\ UNCHANGED <<cp, history, contents, driverVars, impl_msg, impl_reply,
                     mem_write_state, mem_write_addr_scratch, received_payloads>>
  BY DEF Running, RxStep, TxStep, InterfaceStep, implVars
<1>t. messages \in [Mailbox -> Packet \cup {NoMsg}] /\ UpTypes
      /\ PKT_TO_DEVICE \in Mailbox /\ PKT_TO_CP \in Mailbox /\ PKT_FROM_CP \in Mailbox
      /\ Up \in Seq(Packet)
  BY LinkTypes DEF MessagesTypeOK, Mailbox
<1>i. InCall' = InCall /\ UNCHANGED recorded_commands
  BY <1>0 DEF InCall, driverVars
<1>w. /\ (Resting' = Resting) /\ \A p : RightDown(p)' = RightDown(p)
      /\ (Stage' = Stage) /\ Request' = Request
  BY <1>0, <1>i, WorkFrame, CallFrame DEF history
<1>d. /\ RightDown(messages[PKT_TO_DEVICE])
      /\ RightDown(rx_msg)
      /\ RightDown(messages[PKT_TO_CP])
  BY <1>0 DEF Errand, DownRight
<1>1. CASE execute_tx
  <2>1. /\ messages'[PKT_TO_DEVICE] = messages[PKT_TO_DEVICE]
        /\ messages'[PKT_TO_CP] = messages[PKT_TO_CP]
        /\ rx_msg' = rx_msg
    BY <1>1, <1>t DEF execute_tx, TxTake, TxPush, TakeMessage, PKT_TO_DEVICE, PKT_TO_CP,
                      PKT_FROM_CP
  <2>2. Up' = Up
    BY <1>0, <1>1, <1>t, UpMove
  <2>3. DownRight'
    BY <1>0, <1>d, <1>w, <2>1 DEF DownRight, RightDown, RightAnswer, Answers
  <2> QED BY <1>0, <1>t, <2>2, <2>3, MoveErrand
<1>2. CASE execute_rx
  <2>1. /\ messages'[PKT_FROM_CP] = messages[PKT_FROM_CP]
        /\ UNCHANGED <<tx_msg, driver_payload>>
        /\ \/ /\ messages'[PKT_TO_DEVICE] = NoMsg
              /\ messages'[PKT_TO_CP] = messages[PKT_TO_CP]
              /\ rx_msg' = messages[PKT_TO_DEVICE]
           \/ /\ messages'[PKT_TO_CP] = rx_msg
              /\ messages'[PKT_TO_DEVICE] = messages[PKT_TO_DEVICE]
              /\ rx_msg' = NoMsg
    BY <1>2, <1>t DEF execute_rx, RxTake, RxPush, TakeMessage, PushMessage,
                      PKT_TO_DEVICE, PKT_TO_CP, PKT_FROM_CP
  <2>2. Up' = Up
    <3>1. Opt(messages[PKT_FROM_CP])' = Opt(messages[PKT_FROM_CP])
      BY <2>1 DEF Opt
    <3>2. Opt(impl_msg)' = Opt(impl_msg) /\ Opt(tx_msg)' = Opt(tx_msg)
      BY <1>0, <2>1
    <3> QED BY <2>1, <3>1, <3>2 DEF Up
  <2>3. DownRight'
    BY <1>0, <1>d, <1>w, <2>1 DEF DownRight, RightDown, RightAnswer, Answers
  <2> QED BY <1>0, <1>t, <2>2, <2>3, MoveErrand
<1> QED BY <1>1, <1>2 DEF RxStep, TxStep, InterfaceStep

-----------------------------------------------------------------------------
(* The device's receive thread.                                            *)

\* What the packets in Up are shows in the one that is taken.
LEMMA HeadRight ==
    ASSUME TypeInv, UpRight, impl_msg # NoMsg, impl_msg' = NoMsg,
           UNCHANGED <<messages, tx_msg, driver_payload>>
    PROVE  /\ impl_msg \in Packet /\ RightUp(impl_msg)
           /\ Len(Up) \in Nat /\ Len(Up) >= 1 /\ Len(Up') = Len(Up) - 1
           /\ Up[1] = impl_msg
           /\ \A i \in 1 .. Len(Up') : Up'[i] = Up[i + 1]
<1>1. UpTypes /\ Up \in Seq(Packet) /\ impl_msg \in Packet
  BY LinkTypes DEF ImplTypeOK
<1>2. Up # <<>> /\ Head(Up) = impl_msg /\ Up' = Tail(Up)
  BY <1>1, UpTail
<1> DEFINE U == Up
<1>3. /\ Len(U) \in Nat /\ Len(U) >= 1 /\ Len(U') = Len(U) - 1
      /\ U[1] = impl_msg
      /\ \A i \in 1 .. Len(U') : U'[i] = U[i + 1]
  <2> HIDE DEF U
  <2>1. U \in Seq(Packet) /\ U # <<>> /\ Head(U) = impl_msg /\ U' = Tail(U)
    BY <1>1, <1>2 DEF U
  <2> QED BY <2>1
<1>4. RightUp(impl_msg)
  BY <1>3 DEF UpRight
<1> QED BY <1>1, <1>3, <1>4

\* It reads the operand the processor asked for.
LEMMA ReadErrand ==
    ASSUME TypeInv, Errand, mainPc # "exited", cp.state = "MEM_FETCH_WAIT",
           impl_msg \in Reads, RightUp(impl_msg),
           NEW v \in MemoryRead(impl_msg.body), impl_reply' = MemResponse(impl_msg, v),
           UNCHANGED <<cp, contents>>
    PROVE  RightAnswer(impl_reply)'
<1>1. /\ impl_msg.id = cp.tx_cmd_id /\ impl_msg.body = cp.mem_fetch_addr
      /\ impl_msg.cmd = MEMORY /\ impl_msg.sub_cmd = MEM_READ
  BY DEF RightUp, Reads
<1>2. AtWork /\ Recorded /\ Stages
  BY DEF Errand, Resting
<1>3. InCall /\ cp.mem_fetch_addr = Request.body /\ Stage \in {0, 1}
  BY <1>2 DEF AtWork, Fetching
<1>4. cp.mem_fetch_addr \in Addr
  BY <1>2, <1>3, RequestOfCall
<1>5. v = contents[cp.mem_fetch_addr]
  BY <1>1, <1>4 DEF MemoryRead
<1> QED BY <1>1, <1>5 DEF RightAnswer, Answers, MemResponse, Payload

\* It writes the result of the current call.
LEMMA WriteErrand ==
    ASSUME TypeInv, Errand, mainPc # "exited", cp.state = "MEM_WRITE_WAIT",
           mem_write_state = "VAL_RECV", impl_msg = Up[1], Len(Up) >= 1, Len(Up) \in Nat,
           impl_msg \in Writes, RightUp(impl_msg)
    PROVE  /\ InCall /\ Stage = 2 /\ executed < Len(calls) /\ Current \in CallRecord
           /\ mem_write_addr_scratch = Current.result
           /\ impl_msg.body =
                  Alu(Current.cmd, contents[Current.first], contents[Current.second])
           /\ impl_msg.id = cp.tx_cmd_id
<1>1. AtWork /\ Recorded /\ Stages /\ Operands /\ WriteRight
  BY DEF Errand, Resting
<1>2. InCall /\ Writing /\ cp.pkt = Request
  BY <1>1 DEF AtWork, WriteState
<1>3. Stage = 2
  BY DEF RightUp
<1>4. /\ executed < Len(calls) /\ Current \in CallRecord
      /\ Request.cmd = Current.cmd /\ Request.body = Current.result
  BY <1>1, <1>2, <1>3, RequestOfCall DEF Operand, OP_1, OP_2, OP_3
<1>5. cp.op1 = contents[Current.first] /\ cp.op2 = contents[Current.second]
  BY <1>1, <1>3 DEF Operands
<1>6. mem_write_addr_scratch = cp.mem_write_addr
  BY <1>1 DEF WriteRight
<1>7. impl_msg.id = cp.tx_cmd_id /\ impl_msg.body = cp.mem_val
  <2>1. 1 \in 1 .. Len(Up)
    OBVIOUS
  <2> QED BY <1>1, <2>1 DEF WriteRight, IsValue
<1> QED BY <1>2, <1>3, <1>4, <1>5, <1>6, <1>7 DEF Writing

\* With the result in the memory the next call is current, but its packets wait
\* until this one's last packet is acknowledged.
LEMMA WriteValErrand ==
    ASSUME TypeInv, Baton, Baton', Errand, Running, ImplWriteVal,
           executed' = executed + 1, UNCHANGED <<cp, driverVars, calls>>
    PROVE  Errand'
<1>0. /\ mainPc # "exited" /\ mainPc' = mainPc /\ recorded_commands' = recorded_commands
      /\ Recorded /\ Stages /\ NotReceiving /\ UpRight
  BY DEF Running, Errand, driverVars
<1>1. /\ impl_msg # NoMsg /\ impl_msg' = NoMsg
      /\ impl_msg.cmd = MEMORY /\ impl_msg.sub_cmd = MEM_WRITE
      /\ mem_write_state = "VAL_RECV" /\ mem_write_state' = "ADDR_RECV"
      /\ impl_reply' = MemResponse(impl_msg, 0)
      /\ UNCHANGED <<messages, rx_msg, tx_msg, driver_payload, received_payloads>>
  BY DEF ImplWriteVal, Processing
<1>2. /\ impl_msg \in Packet /\ RightUp(impl_msg)
      /\ Len(Up) \in Nat /\ Len(Up) >= 1 /\ Up[1] = impl_msg
  BY <1>0, <1>1, HeadRight
<1>3. impl_msg \in Writes /\ impl_msg \notin Debugs
  BY <1>1, <1>2 DEF Writes, Debugs, MEM_WRITE, DEBUG
<1>4. /\ AllDebug(Up) => impl_msg \in Debugs /\ AllDebug(Up')
      /\ \A S : One(Up, S) => \/ impl_msg \in S /\ AllDebug(Up')
                              \/ impl_msg \in Debugs /\ One(Up', S)
  BY <1>0, <1>1, HeadOfUp
<1>5. ~AllDebug(Up)
  BY <1>3, <1>4
<1>6. UpHas /\ cp.state = "MEM_WRITE_WAIT" /\ One(Up, Writes)
  BY <1>0, <1>1, <1>5, Holders DEF MainHas, DownHas, CpHas, UpHas, ReplyHas, AckHas, UpQuiet
<1>7. AllDebug(Up')
  BY <1>3, <1>4, <1>6
<1>8. /\ InCall /\ Stage = 2 /\ executed < Len(calls) /\ impl_msg.id = cp.tx_cmd_id
      /\ AtWork
  BY <1>0, <1>1, <1>2, <1>3, <1>6, WriteErrand DEF Errand, Resting
<1>9. Stage' = -1
  BY <1>0, <1>8, StageType DEF Stage
<1>10. InCall' /\ Request' = Request
  BY <1>0, <1>8 DEF InCall, Request
<1>11. Recorded' /\ NotReceiving'
  BY <1>0, <1>8 DEF Recorded, NotReceiving, InCall
<1>12. Stages'
  BY <1>0, <1>8, <1>9, StageType DEF Stages, Syncing, InCall
<1>13. Operands'
  BY <1>9 DEF Operands
<1>14. AtWork'
  BY <1>6, <1>8, <1>9, <1>10 DEF AtWork, Target, Writing, WriteState, DebugState
<1>15. DownRight'
  BY <1>1, <1>6 DEF UpHas, DownEmpty, DownRight, RightDown
<1>16. ReplyRight'
  BY <1>1, <1>6, <1>8, <1>9 DEF ReplyRight, RightAnswer, Answers, MemResponse, Payload
<1>17. \A i \in 1 .. Len(Up') : /\ Up'[i] \notin Reads /\ Up'[i] \notin Acks
                                /\ Up'[i] \notin Writes
  BY <1>7, Kinds DEF AllDebug
<1>18. UpRight' /\ WriteRight'
  BY <1>1, <1>17 DEF UpRight, RightUp, WriteRight
<1>19. AckRight'
  BY <1>1, <1>6 DEF UpHas, AckEmpty, AllRead, AckRight, driverVars
<1> QED BY <1>0, <1>11, <1>12, <1>13, <1>14, <1>15, <1>16, <1>18, <1>19 DEF Errand

\* The address is in; the value is next.
LEMMA WriteAddrErrand ==
    ASSUME TypeInv, Baton, Errand, Running, ImplWriteAddr,
           UNCHANGED <<cp, driverVars, history>>
    PROVE  Errand'
<1> DEFINE U == Up
<1>0. /\ mainPc # "exited" /\ mainPc' = mainPc
      /\ UNCHANGED <<recorded_commands, scratch, command_status_readback>>
      /\ UpRight /\ WriteRight
  BY DEF Running, Errand, driverVars
<1>1. /\ impl_msg # NoMsg /\ impl_msg' = NoMsg
      /\ impl_msg.cmd = MEMORY /\ impl_msg.sub_cmd = MEM_WRITE
      /\ mem_write_state = "ADDR_RECV" /\ mem_write_state' = "VAL_RECV"
      /\ mem_write_addr_scratch' = impl_msg.body
      /\ UNCHANGED <<messages, rx_msg, tx_msg, driver_payload, received_payloads,
                     impl_reply, contents>>
  BY DEF ImplWriteAddr, Processing
<1>2. /\ impl_msg \in Packet
      /\ Len(U) \in Nat /\ Len(U) >= 1 /\ Len(U') = Len(U) - 1
      /\ U[1] = impl_msg
      /\ \A i \in 1 .. Len(U') : U'[i] = U[i + 1]
  BY <1>0, <1>1, HeadRight
<1>3. impl_msg \in Writes /\ impl_msg \notin Debugs /\ impl_msg \notin Reads
      /\ impl_msg \notin Acks
  BY <1>1, <1>2 DEF Writes, Debugs, Reads, Acks, MEM_READ, MEM_WRITE, DEBUG
<1>4. /\ AllDebug(Up) => impl_msg \in Debugs
      /\ \A S : One(Up, S) => impl_msg \in S \cup Debugs
  BY <1>0, <1>1, HeadOfUp
<1>5. /\ ~AllDebug(Up) /\ ~One(Up, Reads) /\ ~One(Up, Acks)
  BY <1>3, <1>4
<1>6. \/ /\ CpHas /\ cp.state \in {"MEM_WRITE_VAL_PREP", "MEM_WRITE_VAL"}
      \/ /\ UpHas /\ cp.state = "MEM_WRITE_WAIT" /\ Two(Up, Writes)
  BY <1>0, <1>1, <1>5, Holders DEF MainHas, DownHas, CpHas, UpHas, ReplyHas, AckHas, UpQuiet
<1>w. /\ cp.state \in {"MEM_WRITE_VAL_PREP", "MEM_WRITE_VAL"} =>
             \A i \in 1 .. Len(U) : U[i] \in Writes => U[i].body = cp.mem_write_addr
      /\ cp.state = "MEM_WRITE_WAIT" =>
             \A i, l \in 1 .. Len(U) :
                 i < l /\ U[i] \in Writes /\ U[l] \in Writes =>
                     /\ U[i].body = cp.mem_write_addr
                     /\ U[l].id = cp.tx_cmd_id /\ U[l].body = cp.mem_val
  BY <1>0, <1>1 DEF WriteRight, IsValue
<1>u. cp.state = "MEM_WRITE_WAIT" => \E l \in 1 .. Len(U) : 1 < l /\ U[l] \in Writes
  BY <1>2, <1>6 DEF Two
<1>7. impl_msg.body = cp.mem_write_addr
  <2> HIDE DEF U
  <2>1. CASE cp.state \in {"MEM_WRITE_VAL_PREP", "MEM_WRITE_VAL"}
    BY <1>2, <1>3, <1>w, <2>1
  <2>2. CASE cp.state = "MEM_WRITE_WAIT"
    <3>1. PICK l \in 1 .. Len(U) : 1 < l /\ U[l] \in Writes
      BY <1>u, <2>2
    <3>2. 1 \in 1 .. Len(U)
      BY <1>2
    <3> QED BY <1>2, <1>3, <1>w, <2>2, <3>1, <3>2
  <2> QED BY <1>6, <2>1, <2>2
<1>8. WriteRight'
  <2>1. (cp.state \in {"MEM_WRITE_VAL_PREP", "MEM_WRITE_VAL"} =>
           \A i \in 1 .. Len(U) : U[i] \in Writes => U[i].body = cp.mem_write_addr)'
    <3> HIDE DEF U
    <3> QED BY <1>2, <1>w
  <2>2. (cp.state = "MEM_WRITE_WAIT" =>
           \A i \in 1 .. Len(U) : U[i] \in Writes => IsValue(U[i]))'
    <3> SUFFICES ASSUME cp.state = "MEM_WRITE_WAIT", NEW i \in 1 .. Len(U'),
                        U'[i] \in Writes
                 PROVE  U'[i].id = cp.tx_cmd_id /\ U'[i].body = cp.mem_val
      BY DEF IsValue
    <3> HIDE DEF U
    <3>1. 1 \in 1 .. Len(U) /\ i + 1 \in 1 .. Len(U) /\ 1 < i + 1 /\ U'[i] = U[i + 1]
      BY <1>2
    <3> QED BY <1>2, <1>3, <1>w, <3>1
  <2> QED BY <1>1, <1>7, <2>1, <2>2 DEF WriteRight
<1>9. InCall' = InCall
  BY <1>0 DEF InCall
<1>10. UpRight'
  BY <1>0, <1>1, <1>2, <1>9, UpFewer DEF history
<1>11. /\ (Stage' = Stage) /\ Recorded' /\ Operands'
       /\ Request' = Request /\ Finished' = Finished
  BY <1>0, <1>1, <1>9, CallFrame, OperandFrame DEF Errand, history
<1>12. /\ AtWork' = AtWork /\ (Resting' = Resting)
       /\ \A p : RightAnswer(p)' = RightAnswer(p)
       /\ \A p : RightDown(p)' = RightDown(p)
  BY <1>0, <1>1, <1>9, WorkFrame DEF history
<1>13. DownRight' /\ ReplyRight'
  BY <1>0, <1>1, <1>6 DEF CpHas, UpHas, DownEmpty, DownRight, RightDown, ReplyRight
<1>14. AckRight'
  BY <1>1, <1>0, <1>6 DEF CpHas, UpHas, AckEmpty, AllRead, AckRight
<1>15. Stages' /\ NotReceiving'
  BY <1>0, <1>11 DEF Errand, Stages, Syncing, NotReceiving, driverVars, history
<1> QED BY <1>0, <1>8, <1>10, <1>11, <1>12, <1>13, <1>14, <1>15 DEF Errand

LEMMA ImplErrand ==
    ASSUME TypeInv, Baton, Baton', Errand, Running, ImplStep
    PROVE  Errand'
<1>0. /\ mainPc # "exited"
      /\ UNCHANGED <<cp, driverVars, mainPc, recorded_commands, scratch,
                     command_status_readback, rx_msg>>
      /\ DownRight /\ ReplyRight /\ UpRight
  BY DEF Running, ImplStep, driverVars, ImplPoll, ImplQueue, ImplRead, ImplWriteAddr,
         ImplWriteVal, ImplDebugRequest, ImplDebugResponse, ImplRespond, Processing, Errand
<1>i. InCall' = InCall
  BY <1>0 DEF InCall
<1>t. /\ messages \in [Mailbox -> Packet \cup {NoMsg}] /\ UpTypes /\ Up \in Seq(Packet)
      /\ PKT_TO_DEVICE \in Mailbox /\ PKT_TO_CP \in Mailbox /\ PKT_FROM_CP \in Mailbox
      /\ received_payloads \in Seq(Packet)
  BY LinkTypes DEF MessagesTypeOK, Mailbox, ImplTypeOK
<1>1. CASE ImplPoll /\ UNCHANGED history
  <2>1. UNCHANGED <<messages, rx_msg, contents, impl_reply, mem_write_state,
                    mem_write_addr_scratch, received_payloads>>
    BY <1>1 DEF ImplPoll
  <2>2. Up' = Up
    BY <1>1, <1>t, UpMove
  <2>3. /\ (Resting' = Resting) /\ (Stage' = Stage) /\ Request' = Request
    BY <1>0, <1>1, <1>i, <2>1, WorkFrame, CallFrame DEF history
  <2>4. DownRight'
    BY <1>0, <2>1, <2>3 DEF DownRight, RightDown, RightAnswer, Answers
  <2> QED BY <1>0, <1>1, <1>t, <2>1, <2>2, <2>4, MoveErrand DEF Errand
<1>2. CASE ImplRespond /\ UNCHANGED history
  <2>1. /\ impl_reply # NoMsg /\ impl_reply' = NoMsg
        /\ messages' = [messages EXCEPT ![PKT_TO_DEVICE] = impl_reply]
        /\ UNCHANGED <<tx_msg, driver_payload, impl_msg, mem_write_state, contents,
                       mem_write_addr_scratch, received_payloads>>
    BY <1>2 DEF ImplRespond, PushMessage
  <2>2. /\ messages'[PKT_TO_DEVICE] = impl_reply
        /\ messages'[PKT_TO_CP] = messages[PKT_TO_CP]
        /\ messages'[PKT_FROM_CP] = messages[PKT_FROM_CP]
    BY <1>t, <2>1 DEF PKT_TO_DEVICE, PKT_TO_CP, PKT_FROM_CP
  <2>3. ReplyHas
    BY <1>0, <2>1, Holders
  <2>4. Up' = Up
    <3>1. Opt(messages[PKT_FROM_CP])' = Opt(messages[PKT_FROM_CP])
      BY <2>2 DEF Opt
    <3>2. Opt(impl_msg)' = Opt(impl_msg) /\ Opt(tx_msg)' = Opt(tx_msg)
      BY <2>1
    <3> QED BY <2>1, <3>1, <3>2 DEF Up
  <2>5. /\ (Resting' = Resting) /\ (Stage' = Stage)
    BY <1>0, <1>2, <1>i, <2>1, WorkFrame, CallFrame DEF history
  <2>6. ~Resting /\ RightAnswer(impl_reply)
    BY <1>0, <2>1, <2>3 DEF ReplyHas, Resting, ReplyRight
  <2>7. DownRight'
    BY <1>0, <2>1, <2>2, <2>3, <2>5, <2>6
       DEF ReplyHas, DownEmpty, DownRight, RightDown, RightAnswer, Answers
  <2> QED BY <1>0, <1>2, <1>t, <2>1, <2>4, <2>7, MoveErrand DEF Errand
<1>3. CASE (ImplDebugRequest \/ ImplDebugResponse) /\ UNCHANGED history
  <2>1. /\ impl_msg # NoMsg /\ impl_msg' = NoMsg
        /\ UNCHANGED <<messages, rx_msg, tx_msg, driver_payload, contents, impl_reply,
                       mem_write_state, mem_write_addr_scratch, received_payloads>>
    BY <1>3 DEF ImplDebugRequest, ImplDebugResponse, Processing
  <2>2. /\ Len(Up) \in Nat /\ Len(Up') = Len(Up) - 1
        /\ \A i \in 1 .. Len(Up') : Up'[i] = Up[i + 1]
    BY <1>0, <2>1, HeadRight
  <2>3. /\ (Resting' = Resting) /\ (Stage' = Stage) /\ Request' = Request
    BY <1>0, <1>3, <1>i, <2>1, WorkFrame, CallFrame DEF history
  <2>4. DownRight'
    BY <1>0, <2>1, <2>3 DEF DownRight, RightDown, RightAnswer, Answers
  <2> QED BY <1>0, <1>3, <2>1, <2>2, <2>4, MoveErrand DEF Errand
<1>4. CASE (ImplQueue \/ ImplRead) /\ UNCHANGED history
  <2>1. /\ impl_msg # NoMsg /\ impl_msg' = NoMsg
        /\ UNCHANGED <<messages, rx_msg, tx_msg, driver_payload, contents,
                       mem_write_state, mem_write_addr_scratch>>
    BY <1>4 DEF ImplQueue, ImplRead, Processing
  <2>2. /\ impl_msg \in Packet /\ RightUp(impl_msg)
        /\ Len(Up) \in Nat /\ Len(Up') = Len(Up) - 1
        /\ \A i \in 1 .. Len(Up') : Up'[i] = Up[i + 1]
    BY <1>0, <2>1, HeadRight
  <2>3. /\ AllDebug(Up) => impl_msg \in Debugs
        /\ \A S : One(Up, S) => \/ impl_msg \in S /\ AllDebug(Up')
                                \/ impl_msg \in Debugs
        /\ \A S : Two(Up, S) => impl_msg \in S \cup Debugs
    BY <1>0, <2>1, HeadOfUp
  <2>4. /\ (Stage' = Stage) /\ Recorded' /\ Operands'
        /\ Request' = Request /\ Finished' = Finished
    BY <1>0, <1>4, <1>i, <2>1, CallFrame, OperandFrame DEF Errand, history
  <2>5. Stages' /\ NotReceiving'
    BY <1>0, <1>4, <2>4 DEF Errand, Stages, Syncing, NotReceiving, driverVars, history
  <2>6. /\ AtWork' = AtWork /\ (Resting' = Resting)
    BY <1>0, <1>4, <1>i, <2>1, WorkFrame DEF history
  <2>7. CASE ImplQueue
    <3>1. /\ impl_msg.cmd # MEMORY /\ impl_reply' = impl_reply
          /\ received_payloads' = Append(received_payloads, impl_msg)
      BY <2>7 DEF ImplQueue
    <3>2. /\ impl_msg \notin Debugs /\ impl_msg \notin Reads /\ impl_msg \notin Writes
          /\ impl_msg \in Acks
      BY <2>2, <3>1 DEF Debugs, Reads, Writes, Acks
    <3>3. ~AllDebug(Up) /\ ~One(Up, Writes) /\ ~One(Up, Reads) /\ ~Two(Up, Writes)
      BY <2>3, <3>2
    <3>4. UpHas /\ Resting /\ One(Up, Acks) /\ mem_write_state = "ADDR_RECV"
      BY <1>0, <3>3, Holders
         DEF MainHas, DownHas, CpHas, UpHas, ReplyHas, AckHas, UpQuiet
    <3>5. UpQuiet' /\ DownEmpty' /\ impl_reply' = NoMsg
      BY <1>0, <2>1, <2>3, <3>1, <3>2, <3>4 DEF UpHas, UpQuiet, DownEmpty
    <3>6. received_payloads = <<>> /\ scratch = NoMsg /\ AllRead
      BY <3>4 DEF UpHas, AckEmpty
    <3>7. received_payloads' = <<impl_msg>>
      BY <3>1, <3>6
    <3>8. RightAck(impl_msg)
      BY <2>2, <3>2 DEF RightUp
    <3>9. \A i \in DOMAIN received_payloads' : received_payloads'[i] = impl_msg
      BY <3>7
    <3>10. AckRight'
      BY <1>0, <2>4, <3>6, <3>8, <3>9 DEF AckRight, RightAck, AllRead
    <3> QED BY <1>0, <2>4, <2>5, <2>6, <3>4, <3>5, <3>10, QuietErrand
  <2>8. CASE ImplRead
    <3>1. /\ impl_msg.cmd = MEMORY /\ impl_msg.sub_cmd = MEM_READ
          /\ UNCHANGED <<received_payloads, mem_write_state>>
          /\ \E v \in MemoryRead(impl_msg.body) : impl_reply' = MemResponse(impl_msg, v)
      BY <2>8 DEF ImplRead, Processing
    <3>2. /\ impl_msg \notin Debugs /\ impl_msg \notin Acks /\ impl_msg \notin Writes
          /\ impl_msg \in Reads
      BY <2>2, <3>1 DEF Debugs, Acks, Writes, Reads, MEM_READ, MEM_WRITE, DEBUG
    <3>3. ~AllDebug(Up) /\ ~One(Up, Writes) /\ ~One(Up, Acks) /\ ~Two(Up, Writes)
      BY <2>3, <3>2
    <3>4. UpHas /\ cp.state = "MEM_FETCH_WAIT" /\ One(Up, Reads)
          /\ mem_write_state = "ADDR_RECV"
      BY <1>0, <3>3, Holders
         DEF MainHas, DownHas, CpHas, UpHas, ReplyHas, AckHas, UpQuiet
    <3>5. AllDebug(Up')
      BY <2>3, <3>2, <3>4
    <3>6. RightAnswer(impl_reply)'
      BY <1>0, <2>1, <2>2, <3>1, <3>2, <3>4, ReadErrand
    <3>7. AtWork'
      BY <1>0, <2>6, <3>4 DEF Errand, Resting
    <3>8. DownRight'
      BY <1>0, <2>1, <3>4 DEF UpHas, DownEmpty, DownRight, RightDown
    <3>9. \A i \in 1 .. Len(Up') : /\ Up'[i] \notin Reads /\ Up'[i] \notin Acks
                                   /\ Up'[i] \notin Writes
      BY <3>5, Kinds DEF AllDebug
    <3>10. UpRight' /\ WriteRight'
      BY <2>1, <3>4, <3>9 DEF UpRight, RightUp, WriteRight
    <3>11. ReplyRight'
      BY <3>6 DEF ReplyRight
    <3>12. AckRight'
      BY <1>0, <3>1, <3>4 DEF UpHas, AckEmpty, AllRead, AckRight
    <3> QED BY <1>0, <2>4, <2>5, <3>7, <3>8, <3>10, <3>11, <3>12 DEF Errand
  <2> QED BY <1>4, <2>7, <2>8
<1>5. CASE ImplWriteAddr /\ UNCHANGED history
  BY <1>0, <1>5, WriteAddrErrand
<1>6. CASE ImplWriteVal /\ executed' = executed + 1 /\ UNCHANGED <<cp, driverVars, calls>>
  BY <1>6, WriteValErrand
<1> QED BY <1>1, <1>2, <1>3, <1>4, <1>5, <1>6 DEF ImplStep

-----------------------------------------------------------------------------
(* The command processor.                                                  *)

\* No step of the processor changes the calls or what the host holds.
LEMMA CpCalls ==
    ASSUME Errand, Running, CpStep
    PROVE  /\ mainPc # "exited" /\ mainPc' = mainPc /\ CpFrame /\ CpExecuteTick
           /\ UNCHANGED <<history, recorded_commands, contents, scratch, impl_reply, rx_msg,
                          received_payloads, command_status_readback, mem_write_state,
                          mem_write_addr_scratch>>
           /\ InCall' = InCall /\ Stage' = Stage /\ Current' = Current
           /\ Request' = Request
           /\ Recorded /\ Recorded' /\ Stages /\ Stages' /\ NotReceiving'
           /\ Operands /\ UpRight /\ WriteRight /\ DownRight /\ (~Resting => AtWork)
<1>1. /\ mainPc # "exited" /\ mainPc' = mainPc /\ CpFrame /\ CpExecuteTick
      /\ UNCHANGED <<history, recorded_commands, contents, scratch, impl_reply, rx_msg,
                     received_payloads, command_status_readback, mem_write_state,
                     mem_write_addr_scratch, recv_running>>
  BY DEF Running, CpStep, CpFrame, implVars, driverVars
<1>2. InCall' = InCall
  BY <1>1 DEF InCall
<1>3. /\ Stage' = Stage /\ Current' = Current /\ Request' = Request /\ Recorded' = Recorded
  BY <1>1, <1>2, CallFrame DEF history
<1>4. Recorded /\ Stages /\ NotReceiving /\ Operands /\ UpRight /\ WriteRight /\ DownRight
      /\ (~Resting => AtWork)
  BY <1>1 DEF Errand
<1>5. Stages' /\ NotReceiving'
  BY <1>1, <1>3, <1>4 DEF Stages, Syncing, NotReceiving, history
<1> QED BY <1>1, <1>2, <1>3, <1>4, <1>5

\* The processor at work keeps the baton; nothing is under way but statistics.
LEMMA WorkErrand ==
    ASSUME TypeInv, Baton, Baton', Errand, Running, CpStep, ~Resting,
           cp.state \notin {"MEM_FETCH_WAIT", "MEM_WRITE_WAIT", "MEM_WRITE_VAL_PREP",
                            "MEM_WRITE_VAL"},
           UNCHANGED messages, AtWork', Operands'
    PROVE  Errand'
<1>1. CpHas /\ UpQuiet
  BY CpCalls, CpWorks DEF CpHas
<1>2. UpQuiet' /\ DownEmpty' /\ AckEmpty' /\ impl_reply' = NoMsg
  BY <1>1, CpCalls, CpStay, CpFrameFacts DEF CpHas
<1> QED BY <1>2, CpCalls, QuietErrand

\* It takes the packet with the request from its mailbox.
LEMMA IdleErrand ==
    ASSUME TypeInv, Baton, Baton', Errand, Running, CpStep, CpIdle
    PROVE  Errand'
<1>t. CpTypeOK
  BY LinkTypes
<1>1. /\ cp.state = "IDLE" /\ TakeMessage(PKT_TO_CP) /\ messages[PKT_TO_CP] # NoMsg
      /\ cp'.pkt = messages[PKT_TO_CP] /\ cp'.state = "DECODE"
      /\ cp'.op1 = cp.op1 /\ cp'.op2 = cp.op2
  BY <1>t DEF CpIdle, TakeMessage, CpTypeOK
<1>2. DownHas /\ DownEmpty' /\ UpQuiet'
  BY <1>1, CpCalls, CpTake
<1>3. AckEmpty' /\ impl_reply' = NoMsg
  BY <1>2, CpCalls, CpFrameFacts DEF DownHas
<1>4. messages[PKT_TO_CP] = Request /\ Stage >= 0
  BY <1>1, CpCalls DEF DownRight, RightDown, Resting
<1>5. AtWork'
  BY <1>1, <1>4, CpCalls DEF AtWork, Target, DebugState, WriteState
<1>6. Operands'
  BY <1>1, CpCalls DEF Operands
<1> QED BY <1>2, <1>3, <1>5, <1>6, CpCalls, QuietErrand

LEMMA DecodeErrand ==
    ASSUME TypeInv, Baton, Baton', Errand, Running, CpStep, CpDecode
    PROVE  Errand'
<1>t. CpTypeOK
  BY LinkTypes
<1>1. /\ cp.state = "DECODE" /\ cp' = [cp EXCEPT !.state = Decoded(cp.pkt)]
      /\ UNCHANGED messages
  BY DEF CpDecode
<1>2. /\ cp'.state = Decoded(cp.pkt) /\ cp'.pkt = cp.pkt
      /\ cp'.op1 = cp.op1 /\ cp'.op2 = cp.op2
  BY <1>1, <1>t DEF CpTypeOK
<1>3. ~Resting /\ AtWork /\ cp.pkt = Request /\ Stage >= 0
  BY <1>1, CpCalls DEF Resting, AtWork
<1>4. CASE ~InCall
  <2>0. cp.pkt.cmd = HANDSHAKE
    BY <1>3, <1>4 DEF Request, HandshakeRequest, Payload
  <2>1. cp'.state = "HANDSHAKE"
    BY <1>2, <2>0 DEF Decoded, HANDSHAKE, ADD, MULP2, DIVP2
  <2>2. AtWork'
    BY <1>2, <1>3, <1>4, <2>1, CpCalls DEF AtWork, Target, DebugState, WriteState
  <2>3. Operands'
    BY <1>2, CpCalls DEF Operands
  <2> QED BY <1>1, <1>3, <2>2, <2>3, WorkErrand
<1>5. CASE InCall
  <2>1. /\ Current \in CallRecord /\ cp.pkt.cmd = Current.cmd /\ cp.pkt.sub_cmd = Stage
        /\ Stage \in 0 .. 2
    BY <1>3, <1>5, CpCalls, RequestOfCall DEF Stages
  <2>2. cp.pkt.cmd \in {ADD, MULP2, DIVP2}
    BY <2>1 DEF CallRecord
  <2>3. \/ Stage = 0 /\ cp'.state = "FETCH_OP1"
        \/ Stage = 1 /\ cp'.state = "FETCH_OP2"
        \/ Stage = 2 /\ \/ cp.pkt.cmd = ADD /\ cp'.state = "ADD"
                        \/ cp.pkt.cmd = MULP2 /\ cp'.state = "MULP2"
                        \/ cp.pkt.cmd = DIVP2 /\ cp'.state = "DIVP2"
    BY <1>2, <2>1, <2>2
       DEF Decoded, HANDSHAKE, ADD, MULP2, DIVP2, OP_1, OP_2, OP_3
  <2>4. AtWork'
    BY <1>2, <1>3, <1>5, <2>3, CpCalls DEF AtWork, Target, DebugState, WriteState
  <2>5. Operands'
    BY <1>2, CpCalls DEF Operands
  <2> QED BY <1>1, <1>3, <2>4, <2>5, WorkErrand
<1> QED BY <1>4, <1>5

\* The commands: fetch an operand, use it, compute.
LEMMA CommandErrand ==
    ASSUME TypeInv, Baton, Baton', Errand, Running, CpStep,
           \/ CpFetchOp1 \/ CpFetchOp1End \/ CpFetchOp2 \/ CpFetchOp2End
           \/ CpExecute("ADD", ADD) \/ CpExecute("MULP2", MULP2)
           \/ CpExecute("DIVP2", DIVP2)
    PROVE  Errand'
<1>t. CpTypeOK
  BY LinkTypes
<1>1. /\ cp.state \in {"FETCH_OP1", "FETCH_OP1_END", "FETCH_OP2", "FETCH_OP2_END",
                       "ADD", "MULP2", "DIVP2"}
      /\ UNCHANGED messages /\ cp'.pkt = cp.pkt
  BY <1>t DEF CpFetchOp1, CpFetchOp1End, CpFetchOp2, CpFetchOp2End, CpExecute, CpTypeOK
<1>2. ~Resting /\ AtWork /\ InCall /\ cp.pkt = Request /\ Target = cp.state
  BY <1>1, CpCalls DEF Resting, AtWork, Target, DebugState
<1>3. CASE CpFetchOp1 \/ CpFetchOp2
  <2>1. /\ cp'.mem_fetch_addr = cp.pkt.body /\ cp'.state = "MEM_FETCH"
        /\ cp'.op1 = cp.op1 /\ cp'.op2 = cp.op2
        /\ \/ Stage = 0 /\ cp'.mem_op_restore_state = "FETCH_OP1_END"
           \/ Stage = 1 /\ cp'.mem_op_restore_state = "FETCH_OP2_END"
    BY <1>2, <1>3, <1>t DEF CpFetchOp1, CpFetchOp2, CpTypeOK, AtWork
  <2>2. AtWork'
    BY <1>1, <1>2, <2>1, CpCalls DEF AtWork, Target, Fetching, DebugState, WriteState
  <2>3. Operands'
    BY <2>1, CpCalls DEF Operands
  <2> QED BY <1>1, <1>2, <2>2, <2>3, WorkErrand
<1>4. CASE CpFetchOp1End
  <2>1. /\ cp'.op1 = cp.mem_val /\ cp'.state = "CMD_END"
        /\ Stage = 0 /\ cp.mem_val = contents[Current.first]
    BY <1>2, <1>4, <1>t DEF CpFetchOp1End, CpTypeOK, AtWork
  <2>2. Finished' /\ Operands'
    BY <2>1, CpCalls DEF Finished, Operands
  <2>3. AtWork'
    BY <1>1, <1>2, <2>1, <2>2, CpCalls DEF AtWork, Target, DebugState, WriteState
  <2> QED BY <1>1, <1>2, <2>2, <2>3, WorkErrand
<1>5. CASE CpFetchOp2End
  <2>1. /\ cp'.op2 = cp.mem_val /\ cp'.op1 = cp.op1 /\ cp'.state = "CMD_END"
        /\ Stage = 1 /\ cp.mem_val = contents[Current.second]
    BY <1>2, <1>5, <1>t DEF CpFetchOp2End, CpTypeOK, AtWork
  <2>2. Finished' /\ Operands'
    BY <2>1, CpCalls DEF Finished, Operands
  <2>3. AtWork'
    BY <1>1, <1>2, <2>1, <2>2, CpCalls DEF AtWork, Target, DebugState, WriteState
  <2> QED BY <1>1, <1>2, <2>2, <2>3, WorkErrand
<1>6. ASSUME NEW state \in {"ADD", "MULP2", "DIVP2"}, NEW cmd, CpExecute(state, cmd),
             cp.pkt.cmd = cmd, Stage = 2
      PROVE  Errand'
  <2>1. /\ cp'.mem_write_addr = cp.pkt.body /\ cp'.state = "MEM_WRITE_ADDR"
        /\ cp'.mem_op_restore_state = "CMD_END"
        /\ cp'.mem_val = Alu(cp.pkt.cmd, cp.op1, cp.op2)
        /\ cp'.op1 = cp.op1 /\ cp'.op2 = cp.op2
    BY <1>6, <1>t DEF CpExecute, CpTypeOK
  <2>2. AtWork'
    BY <1>1, <1>2, <1>6, <2>1, CpCalls DEF AtWork, Target, Writing, DebugState, WriteState
  <2>3. Operands'
    BY <2>1, CpCalls DEF Operands
  <2> QED BY <1>1, <1>2, <2>2, <2>3, WorkErrand
<1>7. CASE \/ CpExecute("ADD", ADD) \/ CpExecute("MULP2", MULP2)
           \/ CpExecute("DIVP2", DIVP2)
  BY <1>2, <1>6, <1>7 DEF CpExecute, AtWork
<1> QED BY <1>3, <1>4, <1>5, <1>7

\* What goes up after a push: what went up before, then the packet.
LEMMA Appended ==
    ASSUME NEW p \in Packet, Up \in Seq(Packet), Up' = Append(Up, p)
    PROVE  /\ Len(Up) \in Nat /\ Len(Up') = Len(Up) + 1 /\ Up'[Len(Up) + 1] = p
           /\ \A i \in 1 .. Len(Up) : Up'[i] = Up[i]
           /\ \A i \in 1 .. Len(Up') :
                  \/ i \in 1 .. Len(Up) /\ Up'[i] = Up[i]
                  \/ i = Len(Up) + 1 /\ Up'[i] = p
<1> DEFINE s == Up  t == Append(s, p)
<1>1. /\ Len(s) \in Nat /\ Len(t) = Len(s) + 1 /\ t[Len(s) + 1] = p
      /\ \A i \in 1 .. Len(s) : t[i] = s[i]
  <2> HIDE DEF s
  <2> QED BY DEF s
<1>2. \A i \in 1 .. Len(t) : i \in 1 .. Len(s) \/ i = Len(s) + 1
  <2> HIDE DEF s, t
  <2> QED BY <1>1
<1> QED BY <1>1, <1>2

\* The command is through: its acknowledgement goes up.
LEMMA AckErrand ==
    ASSUME TypeInv, Baton, Baton', Errand, Running, CpStep, CpHandshake \/ CpCmdEnd
    PROVE  Errand'
<1>t. CpTypeOK /\ cp.pkt \in Packet
  BY LinkTypes
<1>1. PICK body \in Word :
          PushMessage(PKT_FROM_CP,
              Payload(cp.pkt.id, RESPONSE, cp.pkt.cmd, cp.pkt.sub_cmd, body))
  BY ZeroWord, WordAssumption DEF CpHandshake, CpCmdEnd
<1> DEFINE p == Payload(cp.pkt.id, RESPONSE, cp.pkt.cmd, cp.pkt.sub_cmd, body)
<1>2. /\ cp.state \in {"HANDSHAKE", "CMD_END"}
      /\ cp'.op1 = cp.op1 /\ cp'.op2 = cp.op2
      /\ cp'.state \in {"IDLE", "CMD_END_WAIT"}
  BY <1>t DEF CpHandshake, CpCmdEnd, CpTypeOK
<1>3. ~Resting /\ AtWork /\ cp.pkt = Request
  BY <1>2, CpCalls DEF Resting, AtWork
<1>4. Finished
  BY <1>2, <1>3 DEF AtWork, Target, DebugState, Finished
<1>5. Operands' /\ Finished'
  BY <1>2, <1>4, CpCalls DEF Operands, Finished
<1>6. p \in Packet
  BY <1>t, PacketFields, PayloadPacket DEF RESPONSE
<1>7. /\ p.id = Request.id /\ p.type = RESPONSE
      /\ p.cmd = Request.cmd /\ p.sub_cmd = Request.sub_cmd
  BY <1>3 DEF Payload
<1> HIDE DEF p
<1>8. CpHas /\ UpQuiet /\ messages[PKT_FROM_CP] = NoMsg /\ cp.pkt.cmd # MEMORY
  BY <1>2, <1>3, CpCalls, CpWorks DEF CpHas, Baton, CpInv, FromCpMay
<1>9. DownEmpty' = DownEmpty /\ Up \in Seq(Packet) /\ Up' = Append(Up, p)
  BY <1>1, <1>6, <1>8, CpCalls, CpPush DEF p
<1>10. DownEmpty' /\ AckEmpty' /\ impl_reply' = NoMsg /\ mem_write_state' = "ADDR_RECV"
  BY <1>8, <1>9, CpCalls, CpFrameFacts DEF CpHas, UpQuiet
<1>11. p \in Acks
  BY <1>3, <1>6, <1>7, <1>8 DEF Acks
<1>12. \A i \in 1 .. Len(Up') : Up'[i] \in Debugs \/ Up'[i] = p
  BY <1>6, <1>8, <1>9, Appended DEF UpQuiet, AllDebug
<1>13. ASSUME NEW i \in 1 .. Len(Up') PROVE RightUp(Up[i])'
  <2>1. Up'[i] \notin Reads /\ Up'[i] \notin Writes
    BY <1>11, <1>12, Kinds
  <2>2. Up'[i] \in Acks => Up'[i] = p
    BY <1>12, Kinds
  <2> QED BY <1>5, <1>7, <2>1, <2>2, CpCalls DEF RightUp, RightAck
<1>14. UpRight'
  BY <1>13 DEF UpRight
<1>15. WriteRight'
  BY <1>2, <1>10 DEF WriteRight
<1>16. DownRight' /\ ReplyRight'
  BY <1>10 DEF DownRight, RightDown, DownEmpty, ReplyRight
<1>17. AckRight'
  BY <1>10 DEF AckRight, AckEmpty, AllRead
<1>18. Resting'
  BY <1>2 DEF Resting
<1> QED BY <1>5, <1>14, <1>15, <1>16, <1>17, <1>18, CpCalls DEF Errand

\* What the processor does at rest is about its statistics only.
LEMMA RestErrand ==
    ASSUME TypeInv, Baton, Errand, Running, CpStep, Resting, Resting',
           cp'.op1 = cp.op1, cp'.op2 = cp.op2, cp'.tx_cmd_id = cp.tx_cmd_id,
           cp'.mem_fetch_addr = cp.mem_fetch_addr,
           messages'[PKT_TO_DEVICE] = messages[PKT_TO_DEVICE],
           messages'[PKT_TO_CP] = messages[PKT_TO_CP],
           \A i \in 1 .. Len(Up') :
               Up'[i] \in Debugs \/ (i \in 1 .. Len(Up) /\ Up'[i] = Up[i])
    PROVE  Errand'
<1>1. /\ (Stage' = Stage) /\ (Current' = Current) /\ (Request' = Request)
      /\ UNCHANGED <<contents, received_payloads, scratch, command_status_readback, rx_msg,
                     impl_reply, mem_write_state>>
  BY CpCalls
<1>2. (Finished' = Finished) /\ Operands'
  BY <1>1, CpCalls DEF Finished, Operands
<1>3. impl_reply = NoMsg /\ mem_write_state = "ADDR_RECV"
  BY CpCalls, Holders
     DEF MainHas, DownHas, CpHas, UpHas, ReplyHas, AckHas, Resting, UpQuiet
<1>4. DownRight'
  BY <1>1, CpCalls DEF DownRight, RightDown
<1>5. ReplyRight'
  BY <1>1, <1>3 DEF ReplyRight
<1>6. ASSUME NEW i \in 1 .. Len(Up') PROVE RightUp(Up[i])'
  <2>1. CASE Up'[i] \in Debugs
    BY <2>1, Kinds DEF RightUp
  <2>2. CASE i \in 1 .. Len(Up) /\ Up'[i] = Up[i]
    <3>1. RightUp(Up[i])
      BY <2>2, CpCalls DEF UpRight
    <3> QED BY <1>1, <1>2, <2>2, <3>1 DEF RightUp, RightAck
  <2> QED BY <2>1, <2>2
<1>7. UpRight'
  BY <1>6 DEF UpRight
<1>8. WriteRight'
  BY <1>1, <1>3 DEF WriteRight, Resting
<1>9. AckRight'
  BY <1>1, <1>2, CpCalls DEF AckRight, RightAck, Errand
<1> QED BY <1>2, <1>4, <1>5, <1>7, <1>8, <1>9, CpCalls DEF Errand

\* Statistics go up beside everything else.
LEMMA DebugErrand ==
    ASSUME TypeInv, Baton, Baton', Errand, Running, CpStep,
           CpDebugWriteRequest \/ CpDebugWriteResponse
    PROVE  Errand'
<1>t. CpTypeOK /\ cp.pkt \in Packet
  BY LinkTypes
<1>1. PICK type \in {REQUEST, RESPONSE} : PushMessage(PKT_FROM_CP, DebugPayload(type))
  BY DEF CpDebugWriteRequest, CpDebugWriteResponse
<1> DEFINE p == DebugPayload(type)
<1>2. /\ cp.state \in {"DEBUG_WRITE_REQUEST", "DEBUG_WRITE_RESPONSE"}
      /\ cp'.state = "DEBUG_WRITE_WAIT"
      /\ cp'.wait_restore_state = cp.wait_restore_state /\ cp'.pkt = cp.pkt
      /\ cp'.op1 = cp.op1 /\ cp'.op2 = cp.op2 /\ cp'.tx_cmd_id = cp.tx_cmd_id
      /\ cp'.mem_fetch_addr = cp.mem_fetch_addr /\ cp'.mem_val = cp.mem_val
  BY <1>t DEF CpDebugWriteRequest, CpDebugWriteResponse, CpTypeOK
<1>3. p \in Packet /\ p.cmd = MEMORY /\ p.sub_cmd = DEBUG
  BY <1>t, PacketFields, PayloadPacket, ZeroWord DEF DebugPayload, Payload
<1>4. p \in Debugs /\ messages[PKT_FROM_CP] = NoMsg
  BY <1>2, <1>3 DEF Baton, CpInv, FromCpMay, Debugs, DebugState
<1> HIDE DEF p
<1>5. /\ messages'[PKT_TO_CP] = messages[PKT_TO_CP]
      /\ messages'[PKT_TO_DEVICE] = messages[PKT_TO_DEVICE]
  BY <1>1, LinkTypes DEF PushMessage, MessagesTypeOK, Mailbox, PKT_TO_DEVICE, PKT_TO_CP,
                         PKT_FROM_CP
<1>6. DownEmpty' = DownEmpty /\ Up \in Seq(Packet) /\ Up' = Append(Up, p)
  BY <1>1, <1>3, <1>4, CpCalls, CpPush DEF p
<1>7. CASE cp.state = "DEBUG_WRITE_REQUEST"
  <2>1. Resting /\ Resting'
    BY <1>2, <1>7 DEF Baton, CpInv, Resting
  <2>2. \A i \in 1 .. Len(Up') :
            Up'[i] \in Debugs \/ (i \in 1 .. Len(Up) /\ Up'[i] = Up[i])
    BY <1>3, <1>4, <1>6, Appended
  <2> QED BY <1>2, <1>5, <2>1, <2>2, RestErrand
<1>8. CASE cp.state = "DEBUG_WRITE_RESPONSE"
  <2>1. ~Resting /\ cp.wait_restore_state \in AfterMem
    BY <1>8 DEF Baton, CpInv, Resting
  <2>2. CpHas /\ UpQuiet
    BY <1>8, <2>1, CpCalls, CpWorks DEF CpHas
  <2>3. AllDebug(Up')
    BY <1>3, <1>4, <1>6, <2>2, AppendKinds DEF UpQuiet
  <2>4. DownEmpty' /\ UpQuiet' /\ AckEmpty' /\ impl_reply' = NoMsg
    BY <1>6, <2>2, <2>3, CpCalls, CpFrameFacts DEF CpHas, UpQuiet
  <2>5. Operands' /\ Finished' = Finished
    BY <1>2, CpCalls DEF Operands, Finished
  <2>6. AtWork' 
    BY <1>2, <1>8, <2>1, <2>5, CpCalls DEF AtWork, Target, DebugState, WriteState
  <2> QED BY <2>4, <2>5, <2>6, CpCalls, QuietErrand
<1> QED BY <1>2, <1>7, <1>8

\* Its packet is taken: it goes back to where it came from, or to rest.
LEMMA WaitErrand ==
    ASSUME TypeInv, Baton, Baton', Errand, Running, CpStep, CpDebugWriteWait \/ CpCmdEndWait
    PROVE  Errand'
<1>t. CpTypeOK
  BY LinkTypes
<1>1. /\ cp.state \in {"DEBUG_WRITE_WAIT", "CMD_END_WAIT"}
      /\ UNCHANGED messages /\ cp'.pkt = cp.pkt
      /\ cp'.op1 = cp.op1 /\ cp'.op2 = cp.op2 /\ cp'.tx_cmd_id = cp.tx_cmd_id
      /\ cp'.mem_fetch_addr = cp.mem_fetch_addr /\ cp'.mem_val = cp.mem_val
  BY <1>t DEF CpDebugWriteWait, CpCmdEndWait, CpTypeOK
<1>2. \/ cp.state = "DEBUG_WRITE_WAIT" /\ cp'.state = cp.wait_restore_state
         /\ cp'.state \in AfterMem \cup {"IDLE"}
      \/ cp.state = "CMD_END_WAIT" /\ cp'.state \in {"IDLE", "DEBUG_WRITE_REQUEST"}
  BY <1>t DEF CpDebugWriteWait, CpCmdEndWait, CpTypeOK, Baton, CpInv
<1>3. CASE Resting
  <2>1. Resting'
    BY <1>2, <1>3 DEF Resting
  <2>2. Up' = Up
    BY <1>1, CpCalls, CpStay
  <2> QED BY <1>1, <1>3, <2>1, <2>2, RestErrand
<1>4. CASE ~Resting
  <2>1. /\ cp.state = "DEBUG_WRITE_WAIT" /\ cp'.state = cp.wait_restore_state
        /\ cp'.state \in AfterMem
    BY <1>2, <1>4 DEF Resting
  <2>2. Operands' /\ Finished' = Finished
    BY <1>1, CpCalls DEF Operands, Finished
  <2>3. AtWork'
    BY <1>1, <1>4, <2>1, <2>2, CpCalls
       DEF AtWork, Target, DebugState, WriteState, AfterMem
  <2> QED BY <1>1, <1>4, <2>1, <2>2, <2>3, WorkErrand
<1> QED BY <1>3, <1>4

\* The processor sends a memory request.
LEMMA Requested ==
    ASSUME TypeInv, Baton, Errand, Running, CpStep,
           NEW from \in {"MEM_FETCH", "MEM_WRITE_ADDR", "MEM_WRITE_VAL"},
           NEW sub_cmd \in {MEM_READ, MEM_WRITE}, NEW body \in Word,
           NEW to \in {"MEM_FETCH_WAIT", "MEM_WRITE_VAL_PREP", "MEM_WRITE_WAIT"},
           CpRequest(from, sub_cmd, body, to)
    PROVE  /\ CpHas /\ AtWork /\ DownEmpty' /\ AckEmpty' /\ impl_reply' = NoMsg
           /\ DownRight' /\ ReplyRight' /\ AckRight' /\ Operands'
           /\ cp.state = from /\ cp'.state = to /\ cp'.pkt = cp.pkt
           /\ cp'.op1 = cp.op1 /\ cp'.op2 = cp.op2 /\ cp'.mem_val = cp.mem_val
           /\ cp'.mem_fetch_addr = cp.mem_fetch_addr
           /\ cp'.mem_write_addr = cp.mem_write_addr
           /\ cp'.mem_op_restore_state = cp.mem_op_restore_state
           /\ Up \in Seq(Packet)
           /\ \E p \in Packet : /\ p.cmd = MEMORY /\ p.sub_cmd = sub_cmd
                                /\ p.id = cp'.tx_cmd_id /\ p.body = body
                                /\ Up' = Append(Up, p)
<1>t. CpTypeOK /\ cp.pkt \in Packet /\ NextTxId \in Nibble
  <2>1. cp.tx_cmd_id \in Nibble
    BY LinkTypes, CpFields
  <2> QED BY <2>1, LinkTypes DEF NextTxId, Nibble
<1> DEFINE p == Payload(NextTxId, REQUEST, MEMORY, sub_cmd, body)
<1>1. /\ p \in Packet /\ p.cmd = MEMORY /\ p.sub_cmd = sub_cmd
      /\ p.id = NextTxId /\ p.body = body
  <2>1. sub_cmd \in {OP_1, OP_2, OP_3, DEBUG}
    BY DEF MEM_READ, MEM_WRITE, OP_1, OP_2
  <2> QED BY <1>t, <2>1, PayloadPacket DEF Payload
<1>2. /\ cp.state = from /\ cp'.state = to /\ cp'.pkt = cp.pkt
      /\ cp'.op1 = cp.op1 /\ cp'.op2 = cp.op2 /\ cp'.mem_val = cp.mem_val
      /\ cp'.mem_fetch_addr = cp.mem_fetch_addr
      /\ cp'.mem_write_addr = cp.mem_write_addr
      /\ cp'.mem_op_restore_state = cp.mem_op_restore_state
      /\ cp'.tx_cmd_id = NextTxId
      /\ PushMessage(PKT_FROM_CP, p)
  BY <1>t DEF CpRequest, CpTypeOK
<1> HIDE DEF p
<1>3. ~Resting /\ messages[PKT_FROM_CP] = NoMsg
  BY <1>2 DEF Baton, CpInv, FromCpMay, Resting
<1>4. CpHas /\ AtWork
  BY <1>2, <1>3, CpCalls, CpWorks
<1>5. DownEmpty' = DownEmpty /\ Up \in Seq(Packet) /\ Up' = Append(Up, p)
  BY <1>1, <1>2, <1>3, CpCalls, CpPush
<1>6. DownEmpty' /\ AckEmpty' /\ impl_reply' = NoMsg
  BY <1>4, <1>5, CpCalls, CpFrameFacts DEF CpHas
<1>7. DownRight' /\ ReplyRight' /\ AckRight'
  BY <1>6 DEF DownRight, RightDown, DownEmpty, ReplyRight, AckRight, AckEmpty, AllRead
<1>8. Operands'
  BY <1>2, CpCalls DEF Operands
<1> QED BY <1>1, <1>2, <1>4, <1>5, <1>6, <1>7, <1>8

LEMMA FetchErrand ==
    ASSUME TypeInv, Baton, Baton', Errand, Running, CpStep, CpMemFetch
    PROVE  Errand'
<1>0. cp.mem_fetch_addr \in Word
  BY LinkTypes, CpFields
<1>1. /\ CpHas /\ AtWork
      /\ DownRight' /\ ReplyRight' /\ AckRight' /\ Operands'
      /\ cp.state = "MEM_FETCH" /\ cp'.state = "MEM_FETCH_WAIT" /\ cp'.pkt = cp.pkt
      /\ cp'.mem_fetch_addr = cp.mem_fetch_addr
      /\ cp'.mem_op_restore_state = cp.mem_op_restore_state
      /\ Up \in Seq(Packet)
  BY <1>0, Requested DEF CpMemFetch
<1>2. PICK p \in Packet : /\ p.cmd = MEMORY /\ p.sub_cmd = MEM_READ
                          /\ p.id = cp'.tx_cmd_id /\ p.body = cp.mem_fetch_addr
                          /\ Up' = Append(Up, p)
  BY <1>0, Requested DEF CpMemFetch
<1>3. UpQuiet
  BY <1>1 DEF CpHas
<1>4. p \in Reads
  BY <1>2 DEF Reads
<1>5. ASSUME NEW i \in 1 .. Len(Up') PROVE RightUp(Up[i])'
  <2>1. Up'[i] \in Debugs \/ Up'[i] = p
    BY <1>1, <1>2, <1>3, Appended DEF UpQuiet, AllDebug
  <2> QED BY <1>1, <1>2, <1>4, <2>1, Kinds DEF RightUp
<1>6. UpRight'
  BY <1>5 DEF UpRight
<1>7. WriteRight'
  BY <1>1, <1>3, CpCalls DEF WriteRight, UpQuiet
<1>8. InCall /\ Fetching
  BY <1>1 DEF AtWork
<1>9. AtWork'
  BY <1>1, <1>8, CpCalls DEF AtWork, Target, Fetching, DebugState, WriteState
<1> QED BY <1>1, <1>6, <1>7, <1>9, CpCalls DEF Errand

LEMMA AddressErrand ==
    ASSUME TypeInv, Baton, Baton', Errand, Running, CpStep, CpMemWriteAddr
    PROVE  Errand'
<1>0. cp.mem_write_addr \in Word
  BY LinkTypes, CpFields
<1>1. /\ CpHas /\ AtWork
      /\ DownRight' /\ ReplyRight' /\ AckRight' /\ Operands'
      /\ cp.state = "MEM_WRITE_ADDR" /\ cp'.state = "MEM_WRITE_VAL_PREP"
      /\ cp'.pkt = cp.pkt /\ cp'.op1 = cp.op1 /\ cp'.op2 = cp.op2
      /\ cp'.mem_val = cp.mem_val /\ cp'.mem_write_addr = cp.mem_write_addr
      /\ cp'.mem_op_restore_state = cp.mem_op_restore_state
      /\ Up \in Seq(Packet)
  BY <1>0, Requested DEF CpMemWriteAddr
<1>2. PICK p \in Packet : /\ p.cmd = MEMORY /\ p.sub_cmd = MEM_WRITE
                          /\ p.body = cp.mem_write_addr
                          /\ Up' = Append(Up, p)
  BY <1>0, Requested DEF CpMemWriteAddr
<1>3. UpQuiet
  BY <1>1 DEF CpHas
<1>4. p \in Writes
  BY <1>2 DEF Writes
<1>5. InCall /\ Writing /\ Stage = 2
  BY <1>1 DEF AtWork, WriteState
<1>6. \A i \in 1 .. Len(Up') : Up'[i] \in Debugs \/ Up'[i] = p
  BY <1>1, <1>2, <1>3, Appended DEF UpQuiet, AllDebug
<1>7. UpRight'
  <2> SUFFICES ASSUME NEW i \in 1 .. Len(Up') PROVE RightUp(Up[i])'
    BY DEF UpRight
  <2> QED BY <1>4, <1>5, <1>6, Kinds, CpCalls DEF RightUp
<1>8. \A i \in 1 .. Len(Up') : Up'[i] \in Writes => Up'[i] = p
  BY <1>6, Kinds
<1>9. WriteRight'
  BY <1>1, <1>2, <1>3, <1>8, CpCalls DEF WriteRight, UpQuiet
<1>10. AtWork'
  BY <1>1, <1>5, CpCalls DEF AtWork, Target, Writing, DebugState, WriteState
<1> QED BY <1>1, <1>7, <1>9, <1>10, CpCalls DEF Errand

LEMMA ValueErrand ==
    ASSUME TypeInv, Baton, Baton', Errand, Running, CpStep, CpMemWriteVal
    PROVE  Errand'
<1>0. cp.mem_val \in Word
  BY LinkTypes, CpFields
<1>1. /\ CpHas /\ AtWork
      /\ DownRight' /\ ReplyRight' /\ AckRight' /\ Operands'
      /\ cp.state = "MEM_WRITE_VAL" /\ cp'.state = "MEM_WRITE_WAIT"
      /\ cp'.pkt = cp.pkt /\ cp'.op1 = cp.op1 /\ cp'.op2 = cp.op2
      /\ cp'.mem_val = cp.mem_val /\ cp'.mem_write_addr = cp.mem_write_addr
      /\ cp'.mem_op_restore_state = cp.mem_op_restore_state
      /\ Up \in Seq(Packet)
  BY <1>0, Requested DEF CpMemWriteVal
<1>2. PICK p \in Packet : /\ p.cmd = MEMORY /\ p.sub_cmd = MEM_WRITE
                          /\ p.id = cp'.tx_cmd_id /\ p.body = cp.mem_val
                          /\ Up' = Append(Up, p)
  BY <1>0, Requested DEF CpMemWriteVal
<1>3. p \in Writes /\ IsValue(p)'
  BY <1>1, <1>2 DEF Writes, IsValue
<1>4. InCall /\ Writing /\ Stage = 2
  BY <1>1 DEF AtWork, WriteState
<1>5. /\ Len(Up) \in Nat /\ Len(Up') = Len(Up) + 1 /\ Up'[Len(Up) + 1] = p
      /\ \A i \in 1 .. Len(Up) : Up'[i] = Up[i]
      /\ \A i \in 1 .. Len(Up') :
             \/ i \in 1 .. Len(Up) /\ Up'[i] = Up[i]
             \/ i = Len(Up) + 1 /\ Up'[i] = p
  BY <1>1, <1>2, Appended
<1>6. /\ \/ One(Up, Writes) /\ mem_write_state = "ADDR_RECV"
         \/ AllDebug(Up) /\ mem_write_state = "VAL_RECV"
      /\ mem_write_state' = mem_write_state
      /\ mem_write_addr_scratch' = mem_write_addr_scratch
  BY <1>1, CpCalls DEF CpHas
<1>7. \A i \in 1 .. Len(Up) : Up[i] \in Debugs \/ Up[i] \in Writes
  BY <1>6 DEF One, AllDebug
<1>8. /\ mem_write_state = "VAL_RECV" => mem_write_addr_scratch = cp.mem_write_addr
      /\ \A i \in 1 .. Len(Up) : Up[i] \in Writes => Up[i].body = cp.mem_write_addr
  BY <1>1, CpCalls DEF WriteRight
<1>9. UpRight'
  <2> SUFFICES ASSUME NEW i \in 1 .. Len(Up') PROVE RightUp(Up[i])'
    BY DEF UpRight
  <2>1. Up'[i] \in Debugs \/ Up'[i] \in Writes
    BY <1>3, <1>5, <1>7
  <2> QED BY <1>4, <2>1, Kinds, CpCalls DEF RightUp
<1>10. ASSUME mem_write_state = "VAL_RECV", NEW i \in 1 .. Len(Up'), Up'[i] \in Writes
       PROVE  IsValue(Up[i])'
  <2>1. \A k \in 1 .. Len(Up) : Up[k] \notin Writes
    BY <1>6, <1>10, Kinds DEF AllDebug
  <2>2. Up'[i] = p
    BY <1>5, <1>10, <2>1
  <2> QED BY <1>3, <2>2 DEF IsValue
<1>11. ASSUME mem_write_state = "ADDR_RECV",
              NEW i \in 1 .. Len(Up'), NEW l \in 1 .. Len(Up'),
              i < l, Up'[i] \in Writes, Up'[l] \in Writes
       PROVE  Up'[i].body = cp'.mem_write_addr /\ IsValue(Up[l])'
  <2>1. PICK k \in 1 .. Len(Up) : \A j \in 1 .. Len(Up) : j # k => Up[j] \in Debugs
    BY <1>6, <1>11 DEF One
  <2>2. \A j \in 1 .. Len(Up) : Up[j] \in Writes => j = k
    BY <2>1, Kinds
  <2>3. i \in 1 .. Len(Up) /\ Up'[i] = Up[i]
    BY <1>5, <1>11
  <2>4. Up'[l] = p
    BY <1>5, <1>11, <2>2, <2>3
  <2> QED BY <1>1, <1>3, <1>8, <1>11, <2>3, <2>4 DEF IsValue
<1>12. WriteRight'
  BY <1>1, <1>6, <1>8, <1>10, <1>11 DEF WriteRight
<1>13. AtWork'
  BY <1>1, <1>4, CpCalls DEF AtWork, Target, Writing, DebugState, WriteState
<1> QED BY <1>1, <1>9, <1>12, <1>13, CpCalls DEF Errand

LEMMA ValuePrepErrand ==
    ASSUME TypeInv, Baton, Baton', Errand, Running, CpStep, CpMemWriteValPrep
    PROVE  Errand'
<1>t. CpTypeOK
  BY LinkTypes
<1>1. /\ cp.state = "MEM_WRITE_VAL_PREP" /\ cp'.state = "MEM_WRITE_VAL"
      /\ UNCHANGED messages /\ cp'.pkt = cp.pkt
      /\ cp'.op1 = cp.op1 /\ cp'.op2 = cp.op2 /\ cp'.tx_cmd_id = cp.tx_cmd_id
      /\ cp'.mem_val = cp.mem_val /\ cp'.mem_fetch_addr = cp.mem_fetch_addr
      /\ cp'.mem_write_addr = cp.mem_write_addr
      /\ cp'.mem_op_restore_state = cp.mem_op_restore_state
  BY <1>t DEF CpMemWriteValPrep, CpTypeOK
<1>2. ~Resting /\ CpHas /\ AtWork /\ InCall
  BY <1>1, CpCalls, CpWorks DEF Resting, AtWork
<1>3. (Up' = Up) /\ DownEmpty' /\ AckEmpty' /\ impl_reply' = NoMsg
  BY <1>1, <1>2, CpCalls, CpStay, CpFrameFacts DEF CpHas
<1>4. Operands' /\ Finished' = Finished
  BY <1>1, CpCalls DEF Operands, Finished
<1>5. DownRight' /\ ReplyRight' /\ AckRight'
  BY <1>3 DEF DownRight, RightDown, DownEmpty, ReplyRight, AckRight, AckEmpty, AllRead
<1>6. UpRight'
  <2> SUFFICES ASSUME NEW i \in 1 .. Len(Up') PROVE RightUp(Up[i])'
    BY DEF UpRight
  <2>1. RightUp(Up[i]) /\ Up'[i] = Up[i]
    BY <1>3, CpCalls DEF UpRight
  <2> QED BY <1>1, <1>4, <2>1, CpCalls DEF RightUp, RightAck
<1>7. WriteRight'
  BY <1>1, <1>3, CpCalls DEF WriteRight
<1>8. AtWork'
  BY <1>1, <1>2, <1>4, CpCalls DEF AtWork, Target, Writing, DebugState, WriteState
<1> QED BY <1>4, <1>5, <1>6, <1>7, <1>8, CpCalls DEF Errand

\* The answer it waited for is there: it goes back to the command.
LEMMA AnswerErrand ==
    ASSUME TypeInv, Baton, Baton', Errand, Running, CpStep, CpMemFetchWait \/ CpMemWriteWait
    PROVE  Errand'
<1>t. CpTypeOK /\ DEVICE_DEBUG \in BOOLEAN
  BY LinkTypes, FlagAssumption
<1> DEFINE p == messages[PKT_TO_CP]
<1>1. /\ cp.state \in {"MEM_FETCH_WAIT", "MEM_WRITE_WAIT"}
      /\ TakeMessage(PKT_TO_CP) /\ p # NoMsg
  BY DEF CpMemFetchWait, CpMemWriteWait, TakeMessage
<1>2. ~Resting /\ AtWork /\ InCall /\ RightAnswer(p)
  BY <1>1, CpCalls DEF Resting, AtWork, DownRight, RightDown
<1>3. DownHas /\ DownEmpty' /\ UpQuiet'
  BY <1>1, CpCalls, CpTake
<1>4. AckEmpty' /\ impl_reply' = NoMsg
  BY <1>3, CpCalls, CpFrameFacts DEF DownHas
<1>5. CASE cp.state = "MEM_FETCH_WAIT"
  <2>1. Answers(p, MEM_READ) /\ p.body = contents[cp.pkt.body] /\ Fetching
    BY <1>2, <1>5 DEF RightAnswer, AtWork, Fetching
  <2>2. cp' = AfterMemOp([cp EXCEPT !.mem_val = p.body])
    BY <1>5, <2>1 DEF CpMemFetchWait, CpMemWriteWait
  <2> HIDE DEF p
  <2>3. /\ cp'.pkt = cp.pkt /\ cp'.op1 = cp.op1 /\ cp'.op2 = cp.op2
        /\ cp'.mem_val = p.body
        /\ \/ /\ cp'.state = "DEBUG_WRITE_RESPONSE"
              /\ cp'.wait_restore_state = cp.mem_op_restore_state
           \/ cp'.state = cp.mem_op_restore_state
    BY <1>t, <2>2 DEF AfterMemOp, CpTypeOK
  <2>4. /\ Stage \in {0, 1} /\ cp.pkt.body = Operand(Current, Stage)
    BY <1>2, <2>1, CpCalls, RequestOfCall DEF Fetching, AtWork
  <2>5. \/ /\ Stage = 0 /\ cp.mem_op_restore_state = "FETCH_OP1_END"
           /\ p.body = contents[Current.first]
        \/ /\ Stage = 1 /\ cp.mem_op_restore_state = "FETCH_OP2_END"
           /\ p.body = contents[Current.second]
    BY <2>1, <2>4 DEF Fetching, Operand, OP_1, OP_2, OP_3
  <2>6. Operands'
    BY <2>3, CpCalls DEF Operands
  <2>7. AtWork'
    BY <1>2, <2>3, <2>5, CpCalls DEF AtWork, Target, DebugState, WriteState
  <2> QED BY <1>3, <1>4, <2>6, <2>7, CpCalls, QuietErrand
<1>6. CASE cp.state = "MEM_WRITE_WAIT"
  <2>1. Answers(p, MEM_WRITE) /\ Stage = -1 /\ Writing
    BY <1>2, <1>6 DEF RightAnswer, AtWork, WriteState
  <2>2. cp' = AfterMemOp(cp)
    BY <1>6, <2>1 DEF CpMemFetchWait, CpMemWriteWait
  <2>3. /\ cp'.pkt = cp.pkt /\ cp'.op1 = cp.op1 /\ cp'.op2 = cp.op2
        /\ \/ /\ cp'.state = "DEBUG_WRITE_RESPONSE" /\ cp'.wait_restore_state = "CMD_END"
           \/ cp'.state = "CMD_END"
    BY <1>t, <2>1, <2>2 DEF AfterMemOp, CpTypeOK, Writing
  <2>4. Operands' /\ Finished'
    BY <2>1, <2>3, CpCalls DEF Operands, Finished
  <2>5. AtWork'
    BY <1>2, <2>3, <2>4, CpCalls DEF AtWork, Target, DebugState, WriteState
  <2> QED BY <1>3, <1>4, <2>4, <2>5, CpCalls, QuietErrand
<1> QED BY <1>1, <1>5, <1>6

LEMMA CpErrand ==
    ASSUME TypeInv, Baton, Baton', Errand, Running, CpStep
    PROVE  Errand'
<1>1. CpExecuteTick
  BY DEF CpStep
<1> QED BY <1>1, IdleErrand, DecodeErrand, AckErrand, DebugErrand, WaitErrand, FetchErrand,
           AddressErrand, ValuePrepErrand, ValueErrand, AnswerErrand, CommandErrand
        DEF CpExecuteTick

-----------------------------------------------------------------------------
(* The system.                                                             *)

LEMMA TimeoutErrand ==
    ASSUME LOG_ENABLED, Errand, Running, TimeoutStep
    PROVE  Errand'
<1>1. /\ mainPc \in {"hs_stat", "hs_wait"} /\ mainPc # "exited" /\ mainPc' = "exited"
      /\ UNCHANGED <<history, recorded_commands, command_status_readback>>
  BY DEF Running, TimeoutStep, HandshakeTimeout, Goto
<1>2. Recorded' = Recorded
  BY <1>1 DEF Recorded, history
<1>3. AllRead'
  BY <1>1 DEF Errand, NotReceiving, AllRead
<1> QED BY <1>1, <1>2, <1>3 DEF Errand

LEMMA ErrandInit == Init => Errand
<1> SUFFICES ASSUME Init PROVE Errand
  OBVIOUS
<1>1. /\ mainPc = "init" /\ recorded_commands = <<>> /\ calls = <<>> /\ executed = 0
      /\ command_status_readback = <<>> /\ received_payloads = <<>> /\ scratch = NoMsg
      /\ ~recv_running /\ impl_reply = NoMsg
  BY DEF Init, ImplInit, DriverInit
<1>2. Recorded /\ Stage = 0
  BY <1>1 DEF Recorded, Stage
<1>3. Stages /\ Operands /\ NotReceiving
  BY <1>1, <1>2 DEF Stages, Operands, NotReceiving, Syncing
<1>4. MainHas
  BY <1>1, BatonInit, Holders DEF Waiting
<1>5. \A i \in 1 .. Len(Up) : /\ Up[i] \notin Reads /\ Up[i] \notin Acks
                              /\ Up[i] \notin Writes
  BY <1>4, Kinds DEF MainHas, UpQuiet, AllDebug
<1>6. DownRight /\ ReplyRight /\ UpRight /\ WriteRight /\ AckRight
  BY <1>4, <1>5 DEF MainHas, DownEmpty, DownRight, RightDown, ReplyRight, UpRight, RightUp,
                    WriteRight, UpQuiet, AckRight, AckEmpty, AllRead
<1> QED BY <1>1, <1>2, <1>3, <1>4, <1>6 DEF Errand, MainHas

LEMMA ErrandStep ==
    LOG_ENABLED /\ TypeInv /\ Baton /\ Errand /\ [Next]_vars => Errand'
<1> SUFFICES ASSUME LOG_ENABLED, TypeInv, Baton, Errand, [Next]_vars PROVE Errand'
  OBVIOUS
<1>1. Baton'
  BY BatonStep
<1>2. CASE Running /\ (AppStep \/ LibraryStep \/ TimeoutStep \/ RecvStep)
  BY <1>1, <1>2, AppErrand, LibraryErrand, TimeoutErrand, RecvErrand
<1>3. CASE Running /\ (ImplStep \/ RxStep \/ TxStep \/ CpStep)
  BY <1>1, <1>3, ImplErrand, InterfaceErrand, CpErrand
<1>4. CASE UNCHANGED vars
  <2>1. /\ UNCHANGED linkVars /\ (mainPc' = mainPc)
        /\ UNCHANGED <<history, recorded_commands, contents, mem_write_addr_scratch,
                       recv_running, scratch, command_status_readback>>
    BY <1>4 DEF vars, deviceVars, implVars, driverVars, linkVars
  <2>2. CASE mainPc = "exited"
    BY <2>1, <2>2 DEF Errand, Recorded, AllRead, history
  <2>3. CASE mainPc # "exited"
    <3>1. Stages' /\ NotReceiving'
      BY <2>1, <2>3 DEF Errand, Stages, Stage, Syncing, NotReceiving, history
    <3> QED BY <2>1, <2>3, <3>1, GoOnErrand DEF InCall
  <2> QED BY <2>2, <2>3
<1> QED BY <1>2, <1>3, <1>4 DEF Next, Terminated

LEMMA ErrandHolds == LOG_ENABLED => (Spec => []Errand)
<1> SUFFICES ASSUME LOG_ENABLED PROVE Spec => []Errand
  OBVIOUS
<1>1. TypeInv /\ Baton /\ Errand /\ [Next]_vars => Errand'
  BY ErrandStep
<1> QED BY <1>1, ErrandInit, BatonInvariant, TypeInvariant, PTL DEF Spec

\* The link is on the errand of the call at hand: in builds with LOG_ENABLED
\* each of the parties holds the packet, the operand or the address that the
\* call needs (functional_impl.cpp:136-170 tells the halves of a write apart by
\* their order only).
THEOREM RightErrand ==
    ASSUME LOG_ENABLED
    PROVE  Spec => []Errand
BY ErrandHolds

\* cmdSync (matrix.cpp:35-55) compares nothing but the id, and ids repeat after
\* ten packets; yet an entry of the readback list that it has not marked read
\* is always the answer to the packet it waits for.
THEOREM NoStaleAnswer ==
    ASSUME LOG_ENABLED
    PROVE  Spec => []UnreadIsAwaited
<1>1. ASSUME Baton, Errand PROVE UnreadIsAwaited
  <2> SUFFICES ASSUME NEW i \in DOMAIN command_status_readback,
                      ~command_status_readback[i].read
               PROVE  /\ mainPc \in {"stat", "cmd_sync"}
                      /\ command_status_readback[i].pkt.id = Head(recorded_commands).id
                      /\ command_status_readback[i].pkt.cmd = Head(recorded_commands).cmd
                      /\ command_status_readback[i].pkt.sub_cmd
                             = Head(recorded_commands).sub_cmd
    BY DEF UnreadIsAwaited
  <2>1. ~AllRead
    BY DEF AllRead
  <2>2. mainPc # "exited" /\ NotReceiving /\ AckRight
    BY <1>1, <2>1 DEF Errand
  <2>3. Waiting
    BY <1>1, <2>1, <2>2
       DEF Baton, MainHas, DownHas, CpHas, UpHas, ReplyHas, AckHas, AckEmpty
  <2>4. mainPc \notin {"hs_stat", "hs_pop", "hs_wait"}
    BY <2>2 DEF NotReceiving
  <2>5. InCall
    BY <2>3, <2>4 DEF Waiting, InCall
  <2>6. RightAck(command_status_readback[i].pkt)
    BY <2>2 DEF AckRight
  <2> QED BY <2>5, <2>6 DEF RightAck, Request, InCall
<1> QED BY <1>1, ErrandHolds, BatonInvariant, PTL

-----------------------------------------------------------------------------
(* The system implements MatrixAccelerator.                                *)

LEMMA AcceleratorInit == Init => Accelerator!Init
BY DEF Init, DriverInit, MemoryInit, Syncing, Accelerator!Init

\* The application: a call is recorded, an integer gets a value, mSync starts.
LEMMA AppImplements ==
    ASSUME TypeInv, AppStep
    PROVE  [Accelerator!Next]_(Accelerator!accelVars)
<1>0. mainPc = "app" /\ ~Syncing
  BY DEF AppStep, RecordCall, Application, MAdd, MMulPow2, MDivPow2, MPow2, NewMInt,
         SetValue, MPow2Rejected, MSync, MFree, Goto, Syncing
<1>1. CASE \E c \in Calls : RecordCall(c)
  <2>1. PICK c \in Calls : RecordCall(c)
    BY <1>1
  <2>2. /\ calls' = Append(calls, c)
        /\ UNCHANGED <<contents, executed, mainPc>>
    BY <2>1 DEF RecordCall, Application, MAdd, MMulPow2, MDivPow2, MPow2, deviceVars
  <2>3. c \in Accelerator!Call
    BY ApplicationAssumption DEF CallRecord, Accelerator!Call
  <2>4. Accelerator!RecordCall(c)
    BY <1>0, <2>2 DEF Accelerator!RecordCall, Syncing
  <2> QED BY <2>3, <2>4 DEF Accelerator!Next
<1>2. CASE /\ \/ \E v \in Vals : NewMInt(v)
              \/ \E a \in Addr, v \in Vals : SetValue(a, v)
           /\ UNCHANGED <<cp, history>>
  <2>1. PICK a \in Addr, v \in Word : contents' = [contents EXCEPT ![a] = v]
    BY <1>2, ApplicationAssumption DEF NewMInt, SetValue, AllocateAndWrite, MemoryWrite
  <2>2. UNCHANGED <<calls, executed, mainPc>>
    BY <1>2 DEF NewMInt, SetValue, history, driverVars
  <2>3. Accelerator!Store(a, v)
    BY <1>0, <2>1, <2>2 DEF Accelerator!Store, Syncing
  <2> QED BY <2>1, <2>3 DEF Accelerator!Next
<1>3. CASE MSync /\ UNCHANGED <<cp, history>>
  <2>1. mainPc' = "sync" /\ UNCHANGED <<contents, calls, executed>>
    BY <1>3 DEF MSync, Goto, deviceVars, history
  <2>2. Accelerator!BeginSync
    BY <1>0, <2>1 DEF Accelerator!BeginSync, Syncing
  <2> QED BY <2>2 DEF Accelerator!Next
<1>4. CASE ((\E c \in Calls : c.cmd # ADD /\ MPow2Rejected(c.second)) \/ MFree)
           /\ UNCHANGED <<cp, history>>
  <2>1. mainPc' \in {"exited", "freeing"} /\ UNCHANGED <<contents, calls, executed>>
    BY <1>4 DEF MPow2Rejected, MFree, Goto, deviceVars, history
  <2> QED BY <1>0, <2>1 DEF Accelerator!accelVars, Syncing
<1> QED BY <1>1, <1>2, <1>3, <1>4 DEF AppStep

\* mSync returns when every recorded call is performed.
LEMMA LibraryImplements ==
    ASSUME TypeInv, Errand, LibraryStep
    PROVE  [Accelerator!Next]_(Accelerator!accelVars)
<1>0. UNCHANGED <<contents, calls, executed>>
  BY DEF LibraryStep, MInit, HandshakeStat, HandshakePop, HandshakeReceive, SyncReturn,
         SyncSend, SyncStat, CmdSync, DeleteDevice, SendRequest, RememberRequest,
         TakeReceived, deviceVars, history
<1>1. CASE SyncReturn
  <2>1. mainPc = "sync" /\ mainPc' = "app" /\ recorded_commands = <<>>
    BY <1>1 DEF SyncReturn, Goto
  <2>2. executed <= Len(calls) /\ Stage \in 0 .. 2
    BY <2>1 DEF Errand, Stages
  <2>3. executed = Len(calls)
    BY <2>1, <2>2, StageType DEF Stage
  <2>4. Accelerator!EndSync
    BY <1>0, <2>1, <2>3 DEF Accelerator!EndSync, Syncing
  <2> QED BY <2>4 DEF Accelerator!Next
<1>2. CASE ~SyncReturn
  <2>1. Syncing' = Syncing
    BY <1>2 DEF LibraryStep, MInit, HandshakeStat, HandshakePop, HandshakeReceive,
                SyncSend, SyncStat, CmdSync, DeleteDevice, Goto, AfterSend, Syncing
  <2> QED BY <1>0, <2>1 DEF Accelerator!accelVars
<1> QED BY <1>1, <1>2

\* The second half of a memory write performs the next call.
LEMMA ImplImplements ==
    ASSUME TypeInv, Baton, Errand, Running, ImplStep
    PROVE  [Accelerator!Next]_(Accelerator!accelVars)
<1>0. mainPc # "exited" /\ (Syncing' = Syncing)
  BY DEF Running, ImplStep, driverVars, Syncing
<1>1. CASE ImplWriteVal /\ executed' = executed + 1 /\ UNCHANGED <<cp, driverVars, calls>>
  <2>1. /\ impl_msg # NoMsg /\ impl_msg' = NoMsg
        /\ impl_msg.cmd = MEMORY /\ impl_msg.sub_cmd = MEM_WRITE
        /\ mem_write_state = "VAL_RECV"
        /\ contents' = [contents EXCEPT ![mem_write_addr_scratch] = impl_msg.body]
        /\ UNCHANGED <<messages, tx_msg, driver_payload>>
    BY <1>1 DEF ImplWriteVal, Processing, MemoryWrite
  <2>2. /\ impl_msg \in Packet /\ RightUp(impl_msg)
        /\ Len(Up) \in Nat /\ Len(Up) >= 1 /\ Up[1] = impl_msg
    BY <1>0, <2>1, HeadRight DEF Errand
  <2>3. impl_msg \in Writes /\ impl_msg \notin Debugs
    BY <2>1, <2>2 DEF Writes, Debugs, MEM_WRITE, DEBUG
  <2>4. ~AllDebug(Up)
    BY <1>0, <2>1, <2>3, HeadOfUp
  <2>5. cp.state = "MEM_WRITE_WAIT"
    BY <1>0, <2>1, <2>4, Holders DEF MainHas, DownHas, CpHas, UpHas, ReplyHas, AckHas, UpQuiet
  <2>6. /\ InCall /\ executed < Len(calls)
        /\ mem_write_addr_scratch = Current.result
        /\ impl_msg.body =
               Alu(Current.cmd, contents[Current.first], contents[Current.second])
    BY <1>0, <2>1, <2>2, <2>3, <2>5, WriteErrand
  <2>7. Accelerator!Execute
    BY <1>0, <1>1, <2>1, <2>6 DEF Accelerator!Execute, Syncing, InCall, Current
  <2> QED BY <2>7 DEF Accelerator!Next
<1>2. CASE /\ \/ ImplPoll \/ ImplQueue \/ ImplRead \/ ImplWriteAddr
              \/ ImplDebugRequest \/ ImplDebugResponse \/ ImplRespond
           /\ UNCHANGED <<cp, driverVars, history>>
  <2>1. UNCHANGED <<contents, calls, executed>>
    BY <1>2 DEF ImplPoll, ImplQueue, ImplRead, ImplWriteAddr, ImplDebugRequest,
                ImplDebugResponse, ImplRespond, history
  <2> QED BY <1>0, <2>1 DEF Accelerator!accelVars
<1> QED BY <1>1, <1>2 DEF ImplStep

LEMMA StepImplements ==
    TypeInv /\ Baton /\ Errand /\ [Next]_vars => [Accelerator!Next]_(Accelerator!accelVars)
<1> SUFFICES ASSUME TypeInv, Baton, Errand, [Next]_vars
             PROVE  [Accelerator!Next]_(Accelerator!accelVars)
  OBVIOUS
<1>1. CASE Running /\ (AppStep \/ LibraryStep \/ ImplStep)
  BY <1>1, AppImplements, LibraryImplements, ImplImplements
<1>2. CASE \/ Running /\ (TimeoutStep \/ RecvStep \/ RxStep \/ TxStep \/ CpStep)
           \/ UNCHANGED vars
  <2>1. UNCHANGED <<contents, calls, executed>> /\ (Syncing' = Syncing)
    BY <1>2 DEF TimeoutStep, HandshakeTimeout, Goto, RecvStep, RecvTake, RecvPush, RecvStop,
                TakeReceived, RxStep, TxStep, InterfaceStep, CpStep, deviceVars, driverVars,
                history, vars, Syncing
  <2> QED BY <2>1 DEF Accelerator!accelVars
<1> QED BY <1>1, <1>2 DEF Next, Terminated

\* The application gets what the library promises, in builds with LOG_ENABLED:
\* every call is performed once, in order, on what the calls before it left, all
\* of them before mSync (matrix.cpp:185-202) returns, and nothing else writes the
\* memory.
THEOREM SystemImplementsAccelerator ==
    ASSUME LOG_ENABLED
    PROVE  Spec => ImplementsAccelerator
<1>1. TypeInv /\ Baton /\ Errand /\ [Next]_vars
        => [Accelerator!Next]_(Accelerator!accelVars)
  BY StepImplements
<1> QED BY <1>1, AcceleratorInit, ErrandHolds, BatonInvariant, TypeInvariant, PTL
        DEF Spec, ImplementsAccelerator, Accelerator!Spec


-----------------------------------------------------------------------------
(* What goes up.                                                           *)

LEMMA UpSame ==
    ASSUME UNCHANGED <<impl_msg, driver_payload, tx_msg>>,
           messages'[PKT_FROM_CP] = messages[PKT_FROM_CP]
    PROVE  Up' = Up
<1>1. Opt(messages[PKT_FROM_CP])' = Opt(messages[PKT_FROM_CP])
  BY DEF Opt
<1>2. Opt(impl_msg)' = Opt(impl_msg) /\ Opt(tx_msg)' = Opt(tx_msg)
  BY DEF Opt
<1> QED BY <1>1, <1>2 DEF Up

\* Nothing changes while the processor stays where it is and no response is
\* taken into the host's list.
LEMMA StatsFrame ==
    ASSUME Accounted, UNCHANGED <<cp, last_response_pkt>>, Up' = Up,
           StatsDue' = StatsDue
    PROVE  Accounted'
<1>1. (NoStats' = NoStats) /\ (StatsInOrder' = StatsInOrder)
  BY DEF NoStats, StatsInOrder
<1>2. StatsUnderWay' = StatsUnderWay
  BY <1>1 DEF StatsUnderWay, Resting, Target
<1>3. Remembered' = Remembered
  BY DEF Remembered
<1> QED BY <1>1, <1>2, <1>3 DEF Accounted

\* The host takes the packet at the head, which is about something else.
LEMMA StatsTail ==
    ASSUME Accounted, UNCHANGED <<cp, last_response_pkt>>, StatsDue' = StatsDue,
           Len(Up) \in Nat, Len(Up) >= 1, Len(Up') = Len(Up) - 1,
           \A i \in 1 .. Len(Up') : Up'[i] = Up[i + 1],
           Up[1] \notin MemoryStats
    PROVE  Accounted'
<1> DEFINE n == Len(Up)  m == Len(Up')
<1>0. n \in Nat /\ n >= 1 /\ m = n - 1 /\ \A i \in 1 .. m : Up'[i] = Up[i + 1]
  OBVIOUS
<1>1. NoStats => NoStats'
  <2>1. SUFFICES ASSUME NoStats, NEW i \in 1 .. m PROVE Up'[i] \notin MemoryStats
    BY DEF NoStats
  <2> HIDE DEF n, m
  <2>2. i + 1 \in 1 .. n
    BY <1>0
  <2>3. Up[i + 1] \notin MemoryStats
    BY <2>1, <2>2 DEF NoStats, n
  <2> QED BY <1>0, <2>3
<1>2. StatsInOrder => /\ StatsInOrder' /\ Up[1] \notin Acks
  <2> SUFFICES ASSUME StatsInOrder PROVE StatsInOrder' /\ Up[1] \notin Acks
    OBVIOUS
  <2>1. PICK k \in 1 .. n : /\ Up[k] \in MemoryStats
                            /\ \A i \in 1 .. n : i # k => Up[i] \notin MemoryStats
                            /\ \A i \in 1 .. n : Up[i] \in Acks => k < i
    BY DEF StatsInOrder
  <2> HIDE DEF n, m
  <2>2. k # 1 /\ k - 1 \in 1 .. m /\ 1 \in 1 .. n
    BY <1>0, <2>1
  <2>3. Up'[k - 1] = Up[k]
    BY <1>0, <2>1, <2>2
  <2>4. ASSUME NEW i \in 1 .. m
        PROVE  /\ i # k - 1 => Up'[i] \notin MemoryStats
               /\ Up'[i] \in Acks => k - 1 < i
    <3>1. i + 1 \in 1 .. n /\ Up'[i] = Up[i + 1]
      BY <1>0
    <3>2. i # k - 1 => i + 1 # k
      BY <1>0
    <3>3. Up[i + 1] \in Acks => k < i + 1
      BY <2>1, <3>1
    <3> QED BY <1>0, <2>1, <3>1, <3>2, <3>3
  <2>5. StatsInOrder'
    BY <2>1, <2>2, <2>3, <2>4 DEF StatsInOrder, m
  <2>6. Up[1] \notin Acks
    BY <1>0, <2>1, <2>2
  <2> QED BY <2>5, <2>6
<1>3. ASSUME Up[1] \notin Acks, NEW i \in 1 .. n, Up[i] \in Acks
      PROVE  \E j \in 1 .. m : Up'[j] \in Acks
  <2> HIDE DEF n, m
  <2>1. i - 1 \in 1 .. m /\ (i - 1) + 1 = i
    BY <1>0, <1>3
  <2>2. Up'[i - 1] = Up[i]
    BY <1>0, <2>1
  <2> QED BY <1>3, <2>1, <2>2
<1>4. StatsUnderWay => StatsUnderWay'
  BY <1>2, <1>3 DEF StatsUnderWay, Resting, Target
<1>5. Remembered' = Remembered
  BY DEF Remembered
<1> QED BY <1>1, <1>4, <1>5 DEF Accounted

\* The processor adds a packet about something else.
LEMMA StatsAppend ==
    ASSUME NEW p \in Packet, Up \in Seq(Packet), Up' = Append(Up, p), p \notin MemoryStats
    PROVE  /\ NoStats => NoStats'
           /\ StatsInOrder => StatsInOrder'
           /\ (\E i \in 1 .. Len(Up) : Up[i] \in Acks)
                  => \E i \in 1 .. Len(Up') : Up'[i] \in Acks
           /\ p \in Acks => \E i \in 1 .. Len(Up') : Up'[i] \in Acks
<1> DEFINE n == Len(Up)  m == Len(Up')
<1>1. /\ n \in Nat /\ m = n + 1 /\ Up'[n + 1] = p
      /\ \A i \in 1 .. n : Up'[i] = Up[i]
      /\ \A i \in 1 .. m : \/ i \in 1 .. n /\ Up'[i] = Up[i]
                           \/ i = n + 1 /\ Up'[i] = p
  BY Appended
<1>2. NoStats => NoStats'
  BY <1>1 DEF NoStats
<1>3. StatsInOrder => StatsInOrder'
  <2> SUFFICES ASSUME StatsInOrder PROVE StatsInOrder'
    OBVIOUS
  <2>1. PICK k \in 1 .. n : /\ Up[k] \in MemoryStats
                            /\ \A i \in 1 .. n : i # k => Up[i] \notin MemoryStats
                            /\ \A i \in 1 .. n : Up[i] \in Acks => k < i
    BY DEF StatsInOrder
  <2> HIDE DEF n, m
  <2>0. n \in Nat /\ m = n + 1
    BY <1>1
  <2>2. k \in 1 .. m /\ k < n + 1
    BY <2>0
  <2>4. Up'[k] = Up[k]
    BY <1>1
  <2>3. \A i \in 1 .. m : /\ i # k => Up'[i] \notin MemoryStats
                          /\ Up'[i] \in Acks => k < i
    BY <1>1, <2>1, <2>2
  <2> QED BY <2>1, <2>2, <2>3, <2>4 DEF StatsInOrder, m
<1> HIDE DEF n, m
<1>4. \A i \in 1 .. n : i \in 1 .. m
  BY <1>1
<1>5. n + 1 \in 1 .. m
  BY <1>1
<1> QED BY <1>1, <1>2, <1>3, <1>4, <1>5 DEF n, m

\* When nothing of the last operation is left: the processor is at work on
\* something else, or at rest with nothing acknowledged under way.
LEMMA NothingLeft ==
    ASSUME Accounted, DEVICE_DEBUG, ~StatsDue,
           \/ ~Resting /\ Target \notin AfterMem
           \/ Resting /\ UpQuiet
    PROVE  last_response_pkt = <<>> /\ NoStats
<1>1. UpQuiet => \A i \in 1 .. Len(Up) : Up[i] \notin Acks
  BY Kinds DEF UpQuiet, AllDebug
<1> QED BY <1>1 DEF Accounted, StatsUnderWay

-----------------------------------------------------------------------------
(* The steps of the threads.                                               *)

\* The application's thread sends only while the processor rests.
LEMMA MainStats ==
    ASSUME TypeInv, Baton, Accounted, Running, AppStep \/ LibraryStep \/ TimeoutStep \/ RecvStep
    PROVE  Accounted'
<1>0. mainPc # "exited" /\ UNCHANGED <<cp, last_response_pkt>>
  BY DEF Running, AppStep, RecordCall, Application, MAdd, MMulPow2, MDivPow2, MPow2, NewMInt,
         SetValue, MPow2Rejected, MSync, MFree, LibraryStep, MInit, HandshakeStat,
         HandshakePop, HandshakeReceive, SyncReturn, SyncSend, SyncStat, CmdSync,
         DeleteDevice, SendRequest, RememberRequest, TimeoutStep, HandshakeTimeout, RecvStep,
         RecvTake, RecvPush, RecvStop, TakeReceived, deviceVars, implVars
<1>1. CASE MInit \/ SyncSend
  <2>1. PICK p : SendRequest(p)
    BY <1>1 DEF MInit, SyncSend
  <2>2. /\ messages'[PKT_FROM_CP] = messages[PKT_FROM_CP]
        /\ UNCHANGED <<impl_msg, driver_payload, tx_msg>>
    BY <2>1, LinkTypes DEF SendRequest, PushMessage, implVars, MessagesTypeOK, Mailbox,
                           PKT_TO_DEVICE, PKT_TO_CP, PKT_FROM_CP
  <2>3. ~Waiting
    BY <1>1 DEF MInit, SyncSend, Goto, Waiting
  <2>4. Resting
    BY <1>0, <2>3, Holders DEF MainHas
  <2>5. StatsDue' = StatsDue
    BY <1>0, <2>4 DEF StatsDue, Resting
  <2> QED BY <1>0, <2>2, <2>5, UpSame, StatsFrame
<1>2. CASE ~(MInit \/ SyncSend)
  <2>1. UNCHANGED <<messages, rx_msg, impl_msg, driver_payload, tx_msg>>
    BY <1>2 DEF AppStep, RecordCall, Application, MAdd, MMulPow2, MDivPow2, MPow2, NewMInt,
           SetValue, MPow2Rejected, MSync, MFree, LibraryStep, HandshakeStat,
           HandshakePop, HandshakeReceive, SyncReturn, SyncStat, CmdSync,
           DeleteDevice, RememberRequest, TimeoutStep, HandshakeTimeout, RecvStep,
           RecvTake, RecvPush, RecvStop, TakeReceived, deviceVars, implVars
  <2>2. StatsDue' = StatsDue
    BY <1>0, <2>1 DEF StatsDue, DownEmpty
  <2> QED BY <1>0, <2>1, <2>2, UpSame, StatsFrame
<1> QED BY <1>1, <1>2

LEMMA InterfaceStats ==
    ASSUME TypeInv, Accounted, RxStep \/ TxStep
    PROVE  Accounted'
<1>0. UNCHANGED <<cp, last_response_pkt, impl_msg>>
  BY DEF RxStep, TxStep, InterfaceStep, implVars
<1>t. /\ messages \in [Mailbox -> Packet \cup {NoMsg}] /\ UpTypes
      /\ PKT_TO_DEVICE \in Mailbox /\ PKT_TO_CP \in Mailbox /\ PKT_FROM_CP \in Mailbox
      /\ rx_msg \in Packet \cup {NoMsg}
  BY LinkTypes DEF MessagesTypeOK, InterfaceTypeOK, Mailbox
<1>1. CASE execute_tx
  <2>1. Up' = Up
    BY <1>0, <1>1, <1>t, UpMove
  <2>2. DownEmpty' = DownEmpty
    BY <1>1, <1>t DEF execute_tx, TxTake, TxPush, TakeMessage, DownEmpty, PKT_TO_DEVICE,
                      PKT_TO_CP, PKT_FROM_CP
  <2> QED BY <1>0, <2>1, <2>2, StatsFrame DEF StatsDue
<1>2. CASE execute_rx
  <2>1. /\ messages'[PKT_FROM_CP] = messages[PKT_FROM_CP]
        /\ UNCHANGED <<tx_msg, driver_payload>>
    BY <1>2, <1>t DEF execute_rx, RxTake, RxPush, TakeMessage, PushMessage,
                      PKT_TO_DEVICE, PKT_TO_CP, PKT_FROM_CP
  <2>2. ~DownEmpty
    BY <1>2 DEF execute_rx, RxTake, RxPush, TakeMessage, DownEmpty
  <2>3. CASE RxTake
    <3>1. rx_msg' # NoMsg
      BY <2>3 DEF RxTake, TakeMessage
    <3> QED BY <1>0, <2>1, <2>2, <3>1, UpSame, StatsFrame DEF StatsDue, DownEmpty
  <2>4. CASE RxPush
    <3>1. messages'[PKT_TO_CP] # NoMsg
      BY <1>t, <2>4 DEF RxPush, PushMessage
    <3> QED BY <1>0, <2>1, <2>2, <3>1, UpSame, StatsFrame DEF StatsDue, DownEmpty
  <2> QED BY <1>2, <2>3, <2>4 DEF execute_rx
<1> QED BY <1>1, <1>2 DEF RxStep, TxStep, InterfaceStep

\* The device's receive thread takes statistics, or any other packet, or sends
\* the response.
LEMMA ImplStats ==
    ASSUME TypeInv, Baton, Errand, Accounted, Running, ImplStep
    PROVE  Accounted'
<1>0. /\ mainPc # "exited" /\ UNCHANGED cp
      /\ ReplyRight /\ UpRight
  BY DEF Running, ImplStep, Errand
<1>t. /\ messages \in [Mailbox -> Packet \cup {NoMsg}] /\ UpTypes
      /\ PKT_TO_DEVICE \in Mailbox /\ PKT_FROM_CP \in Mailbox
      /\ last_response_pkt \in Seq(Packet) /\ impl_reply \in Packet \cup {NoMsg}
      /\ DEVICE_DEBUG \in BOOLEAN
  BY LinkTypes, FlagAssumption DEF MessagesTypeOK, ImplTypeOK, Mailbox
<1>1. CASE ImplPoll
  <2>1. Up' = Up
    BY <1>1, <1>t, UpMove
  <2>2. UNCHANGED <<messages, rx_msg, last_response_pkt>>
    BY <1>1 DEF ImplPoll
  <2> QED BY <1>0, <2>1, <2>2, StatsFrame DEF StatsDue, DownEmpty
<1>2. CASE ImplRespond
  <2>1. /\ impl_reply # NoMsg /\ impl_reply \in Packet
        /\ messages'[PKT_TO_DEVICE] = impl_reply
        /\ messages'[PKT_FROM_CP] = messages[PKT_FROM_CP]
        /\ UNCHANGED <<impl_msg, driver_payload, tx_msg>>
    BY <1>2, <1>t DEF ImplRespond, PushMessage, PKT_TO_DEVICE, PKT_FROM_CP
  <2>2. /\ DownEmpty /\ ~Resting /\ RightAnswer(impl_reply)
        /\ cp.state \in {"MEM_FETCH_WAIT", "MEM_WRITE_WAIT"}
    BY <1>0, <2>1, Holders DEF ReplyHas, Resting, ReplyRight
  <2>3. impl_reply.id = cp.tx_cmd_id
    BY <2>2 DEF RightAnswer, Answers
  <2>4. ~StatsDue /\ StatsDue'
    BY <1>0, <2>1, <2>2 DEF StatsDue, DownEmpty
  <2>5. CASE DEVICE_DEBUG
    <3>1. last_response_pkt = <<>> /\ NoStats
      BY <2>2, <2>4, <2>5, NothingLeft DEF Target, AfterMem, DebugState
    <3>2. last_response_pkt' = <<impl_reply>>
      BY <1>2, <2>5, <3>1 DEF ImplRespond
    <3>3. Remembered'
      BY <1>0, <2>3, <3>2 DEF Remembered
    <3>4. NoStats'
      BY <2>1, <3>1, UpSame DEF NoStats
    <3> QED BY <2>4, <3>3, <3>4 DEF Accounted
  <2> QED BY <2>5 DEF Accounted
<1>3. ASSUME impl_msg # NoMsg, impl_msg' = NoMsg,
             UNCHANGED <<messages, rx_msg, tx_msg, driver_payload>>
      PROVE  /\ impl_msg \in Packet /\ Up[1] = impl_msg /\ (StatsDue' = StatsDue)
             /\ Len(Up) \in Nat /\ Len(Up) >= 1 /\ Len(Up') = Len(Up) - 1
             /\ \A i \in 1 .. Len(Up') : Up'[i] = Up[i + 1]
  BY <1>0, <1>3, HeadRight DEF StatsDue, DownEmpty
<1>4. CASE ImplQueue \/ ImplRead \/ ImplWriteAddr \/ ImplWriteVal \/ ImplDebugRequest
  <2>1. /\ impl_msg # NoMsg /\ impl_msg' = NoMsg
        /\ UNCHANGED <<messages, rx_msg, tx_msg, driver_payload, last_response_pkt>>
    BY <1>4 DEF ImplQueue, ImplRead, ImplWriteAddr, ImplWriteVal, ImplDebugRequest,
                Processing
  <2>2. impl_msg \notin MemoryStats
    BY <1>4 DEF ImplQueue, ImplRead, ImplWriteAddr, ImplWriteVal, ImplDebugRequest,
                Processing, MemoryStats, Debugs, MEM_READ, MEM_WRITE, DEBUG, REQUEST,
                RESPONSE
  <2> QED BY <1>0, <1>3, <2>1, <2>2, StatsTail
<1>5. CASE ImplDebugResponse
  <2>1. /\ impl_msg # NoMsg /\ impl_msg' = NoMsg /\ DEVICE_DEBUG
        /\ UNCHANGED <<messages, rx_msg, tx_msg, driver_payload>>
        /\ impl_msg.cmd = MEMORY /\ impl_msg.sub_cmd = DEBUG /\ impl_msg.type = RESPONSE
        /\ last_response_pkt' = PopFront(last_response_pkt)
    BY <1>5 DEF ImplDebugResponse, Processing
  <2>2. /\ impl_msg \in Packet /\ Up[1] = impl_msg /\ (StatsDue' = StatsDue)
        /\ Len(Up) \in Nat /\ Len(Up) >= 1 /\ Len(Up') = Len(Up) - 1
        /\ \A i \in 1 .. Len(Up') : Up'[i] = Up[i + 1]
    BY <1>3, <2>1
  <2>3. 1 \in 1 .. Len(Up) /\ Up[1] \in MemoryStats
    BY <2>1, <2>2 DEF MemoryStats, Debugs
  <2>4. Remembered /\ StatsInOrder /\ ~StatsDue
    BY <2>1, <2>3 DEF Accounted, NoStats, StatsUnderWay
  <2>5. last_response_pkt' = <<>>
    BY <1>t, <2>1, <2>4 DEF Remembered, PopFront
  <2>6. \A i \in 1 .. Len(Up) : i # 1 => Up[i] \notin MemoryStats
    BY <2>3, <2>4 DEF StatsInOrder
  <2> DEFINE n == Len(Up)  m == Len(Up')
  <2>7. \A i \in 1 .. m : i + 1 \in 1 .. n /\ i + 1 # 1 /\ Up'[i] = Up[i + 1]
    <3>1. /\ n \in Nat /\ m = n - 1 /\ \A i \in 1 .. m : Up'[i] = Up[i + 1]
      BY <2>2
    <3> HIDE DEF n, m
    <3> QED BY <3>1
  <2>8. NoStats'
    BY <2>6, <2>7 DEF NoStats
  <2> QED BY <2>2, <2>4, <2>5, <2>8 DEF Accounted
<1> QED BY <1>1, <1>2, <1>4, <1>5 DEF ImplStep

\* What a step of the processor leaves alone.
LEMMA CpStats ==
    ASSUME TypeInv, Baton, Errand, Running, CpStep
    PROVE  /\ CpTypeOK /\ CpFrame /\ mainPc # "exited" /\ CpInv
           /\ UNCHANGED <<rx_msg, tx_msg, driver_payload, impl_msg, last_response_pkt>>
BY LinkTypes, CpCalls DEF CpStep, implVars, Baton

\* It goes on without sending or taking anything.
LEMMA StayStats ==
    ASSUME Accounted, UNCHANGED last_response_pkt, Up' = Up,
           ~StatsDue, ~StatsDue', cp'.tx_cmd_id = cp.tx_cmd_id,
           \/ Resting /\ Resting'
           \/ ~Resting /\ ~Resting' /\ (Target \in AfterMem => Target' \in AfterMem)
    PROVE  Accounted'
<1>1. (NoStats' = NoStats) /\ (StatsInOrder' = StatsInOrder)
  BY DEF NoStats, StatsInOrder
<1>2. StatsUnderWay => StatsUnderWay'
  BY <1>1 DEF StatsUnderWay
<1>3. Remembered' = Remembered
  BY DEF Remembered
<1> QED BY <1>1, <1>2, <1>3 DEF Accounted

LEMMA SilentStats ==
    ASSUME TypeInv, Baton, Errand, Accounted, Running, CpStep,
           \/ CpDecode \/ CpDebugWriteWait \/ CpMemWriteValPrep \/ CpFetchOp1 \/ CpFetchOp1End
           \/ CpFetchOp2 \/ CpFetchOp2End \/ CpExecute("ADD", ADD)
           \/ CpExecute("MULP2", MULP2) \/ CpExecute("DIVP2", DIVP2) \/ CpCmdEndWait
    PROVE  Accounted'
<1>0. CpTypeOK /\ CpFrame /\ CpInv /\ UNCHANGED last_response_pkt
  BY CpStats
<1>1. /\ UNCHANGED messages /\ cp'.tx_cmd_id = cp.tx_cmd_id
      /\ cp'.wait_restore_state \in {cp.wait_restore_state, "IDLE"}
  BY <1>0 DEF CpDecode, CpDebugWriteWait, CpMemWriteValPrep, CpFetchOp1, CpFetchOp1End,
              CpFetchOp2, CpFetchOp2End, CpExecute, CpCmdEndWait, CpTypeOK
<1>2. Up' = Up
  BY <1>0, <1>1, CpStay
<1>3. \/ /\ cp.state \in {"DECODE", "FETCH_OP1", "FETCH_OP2", "ADD", "MULP2", "DIVP2",
                          "MEM_WRITE_VAL_PREP"}
         /\ cp'.state \in {"DECODE", "HANDSHAKE", "FETCH_OP1", "FETCH_OP2", "ADD", "MULP2",
                           "DIVP2", "MEM_FETCH", "MEM_WRITE_ADDR", "MEM_WRITE_VAL"}
      \/ cp.state \in {"FETCH_OP1_END", "FETCH_OP2_END"} /\ cp'.state = "CMD_END"
      \/ cp.state = "CMD_END_WAIT" /\ cp'.state \in {"IDLE", "DEBUG_WRITE_REQUEST"}
      \/ /\ cp.state = "DEBUG_WRITE_WAIT" /\ cp'.state = cp.wait_restore_state
         /\ cp'.state \in AfterMem \cup {"IDLE"}
  <2>1. CASE CpDecode
    BY <1>0, <2>1 DEF CpDecode, CpTypeOK, Decoded
  <2>2. CASE CpDebugWriteWait
    BY <1>0, <2>2 DEF CpDebugWriteWait, CpTypeOK, CpInv
  <2>3. CASE \/ CpMemWriteValPrep \/ CpFetchOp1 \/ CpFetchOp1End
             \/ CpFetchOp2 \/ CpFetchOp2End \/ CpExecute("ADD", ADD)
             \/ CpExecute("MULP2", MULP2) \/ CpExecute("DIVP2", DIVP2) \/ CpCmdEndWait
    BY <1>0, <2>3 DEF CpMemWriteValPrep, CpFetchOp1, CpFetchOp1End, CpFetchOp2,
                      CpFetchOp2End, CpExecute, CpCmdEndWait, CpTypeOK
  <2> QED BY <2>1, <2>2, <2>3
<1>4. ~StatsDue /\ ~StatsDue'
  BY <1>3 DEF StatsDue, AfterMem
<1>5. \/ Resting /\ Resting'
      \/ ~Resting /\ ~Resting' /\ (Target \in AfterMem => Target' \in AfterMem)
  BY <1>3 DEF Resting, Target, AfterMem, DebugState
<1> QED BY <1>0, <1>1, <1>2, <1>4, <1>5, StayStats

\* With nothing of the last operation left, it starts something else.
LEMMA AfreshStats ==
    ASSUME UNCHANGED last_response_pkt, last_response_pkt = <<>>, NoStats', ~StatsDue'
    PROVE  Accounted'
BY DEF Accounted

LEMMA IdleStats ==
    ASSUME TypeInv, Baton, Errand, Accounted, Running, CpStep, CpIdle
    PROVE  Accounted'
<1>0. CpTypeOK /\ CpFrame /\ mainPc # "exited" /\ UNCHANGED last_response_pkt
  BY CpStats
<1>1. /\ cp.state = "IDLE" /\ cp'.state = "DECODE" /\ TakeMessage(PKT_TO_CP)
  BY <1>0 DEF CpIdle, CpTypeOK
<1>2. UpQuiet /\ Up' = Up
  BY <1>0, <1>1, CpTake DEF DownHas
<1>3. Resting /\ ~StatsDue /\ ~StatsDue'
  BY <1>1 DEF Resting, StatsDue
<1>4. CASE DEVICE_DEBUG
  <2>1. last_response_pkt = <<>> /\ NoStats
    BY <1>2, <1>3, <1>4, NothingLeft
  <2>2. NoStats'
    BY <1>2, <2>1 DEF NoStats
  <2> QED BY <1>0, <1>3, <2>1, <2>2, AfreshStats
<1> QED BY <1>4 DEF Accounted

\* The acknowledgement goes up after the statistics.
LEMMA AckStats ==
    ASSUME TypeInv, Baton, Errand, Accounted, Running, CpStep, CpHandshake \/ CpCmdEnd
    PROVE  Accounted'
<1>0. CpTypeOK /\ CpFrame /\ CpInv /\ UNCHANGED last_response_pkt /\ cp.pkt \in Packet
  BY CpStats, LinkTypes
<1>1. PICK body \in Word :
          PushMessage(PKT_FROM_CP,
              Payload(cp.pkt.id, RESPONSE, cp.pkt.cmd, cp.pkt.sub_cmd, body))
  BY ZeroWord, WordAssumption DEF CpHandshake, CpCmdEnd
<1> DEFINE p == Payload(cp.pkt.id, RESPONSE, cp.pkt.cmd, cp.pkt.sub_cmd, body)
<1>2. /\ cp.state \in {"HANDSHAKE", "CMD_END"} /\ cp'.tx_cmd_id = cp.tx_cmd_id
      /\ cp'.state \in {"IDLE", "CMD_END_WAIT"}
  BY <1>0 DEF CpHandshake, CpCmdEnd, CpTypeOK
<1>3. p \in Packet /\ p.cmd = cp.pkt.cmd
  BY <1>0, PacketFields, PayloadPacket DEF RESPONSE, Payload
<1> HIDE DEF p
<1>4. messages[PKT_FROM_CP] = NoMsg /\ cp.pkt.cmd # MEMORY
  BY <1>0, <1>2 DEF CpInv, FromCpMay
<1>5. Up \in Seq(Packet) /\ Up' = Append(Up, p)
  BY <1>0, <1>1, <1>3, <1>4, CpPush DEF p
<1>6. p \in Acks /\ p \notin MemoryStats
  BY <1>3, <1>4 DEF Acks, MemoryStats, Debugs
<1>7. Resting' /\ ~StatsDue /\ ~StatsDue'
  BY <1>2 DEF Resting, StatsDue
<1>8. /\ NoStats => NoStats'
      /\ StatsInOrder => StatsInOrder'
      /\ \E i \in 1 .. Len(Up') : Up'[i] \in Acks
  BY <1>3, <1>5, <1>6, StatsAppend
<1> QED BY <1>0, <1>2, <1>7, <1>8 DEF Accounted, StatsUnderWay, Remembered

\* The statistics about a command go up, or those about a memory operation.
LEMMA DebugStats ==
    ASSUME TypeInv, Baton, Errand, Accounted, Running, CpStep,
           CpDebugWriteRequest \/ CpDebugWriteResponse
    PROVE  Accounted'
<1>0. /\ CpTypeOK /\ CpFrame /\ CpInv /\ mainPc # "exited"
      /\ UNCHANGED last_response_pkt /\ cp.pkt \in Packet
  BY CpStats, LinkTypes
<1>1. PICK type \in {REQUEST, RESPONSE} :
          /\ PushMessage(PKT_FROM_CP, DebugPayload(type))
          /\ type = REQUEST => cp.state = "DEBUG_WRITE_REQUEST"
          /\ type = RESPONSE => cp.state = "DEBUG_WRITE_RESPONSE"
  BY DEF CpDebugWriteRequest, CpDebugWriteResponse, REQUEST, RESPONSE
<1> DEFINE p == DebugPayload(type)
<1>2. /\ cp'.state = "DEBUG_WRITE_WAIT" /\ cp'.tx_cmd_id = cp.tx_cmd_id
      /\ cp'.wait_restore_state = cp.wait_restore_state
  BY <1>0 DEF CpDebugWriteRequest, CpDebugWriteResponse, CpTypeOK
<1>3. p \in Packet /\ p.cmd = MEMORY /\ p.sub_cmd = DEBUG /\ p.type = type
  BY <1>0, PacketFields, PayloadPacket, ZeroWord DEF DebugPayload, Payload
<1>4. p \in Debugs /\ messages[PKT_FROM_CP] = NoMsg
  BY <1>0, <1>1, <1>3 DEF CpInv, FromCpMay, Debugs, DebugState, REQUEST, RESPONSE
<1> HIDE DEF p
<1>5. Up \in Seq(Packet) /\ Up' = Append(Up, p)
  BY <1>0, <1>1, <1>3, <1>4, CpPush DEF p
<1>6. CASE type = REQUEST
  <2>1. p \notin MemoryStats
    BY <1>3, <1>6 DEF MemoryStats, REQUEST, RESPONSE
  <2>2. Resting /\ Resting' /\ ~StatsDue /\ ~StatsDue'
    BY <1>0, <1>1, <1>2, <1>6 DEF Resting, StatsDue, CpInv
  <2>3. /\ NoStats => NoStats'
        /\ StatsInOrder => StatsInOrder'
        /\ (\E i \in 1 .. Len(Up) : Up[i] \in Acks)
               => \E i \in 1 .. Len(Up') : Up'[i] \in Acks
    BY <1>3, <1>5, <2>1, StatsAppend
  <2> QED BY <1>0, <1>2, <2>2, <2>3 DEF Accounted, StatsUnderWay, Remembered
<1>7. CASE type = RESPONSE
  <2>1. p \in MemoryStats
    BY <1>3, <1>4, <1>7 DEF MemoryStats
  <2>2. /\ cp.state = "DEBUG_WRITE_RESPONSE" /\ cp.wait_restore_state \in AfterMem
        /\ DEVICE_DEBUG
    BY <1>0, <1>1, <1>7 DEF CpInv, DebugState
  <2>3. StatsDue /\ ~StatsDue' /\ ~Resting /\ ~Resting' /\ Target' \in AfterMem
    BY <1>2, <2>2 DEF StatsDue, Resting, Target, AfterMem, DebugState
  <2>4. UpQuiet
    BY <1>0, <2>2, <2>3, CpWorks DEF CpHas
  <2>5. Remembered /\ NoStats
    BY <2>2, <2>3 DEF Accounted
  <2>6. /\ Len(Up) \in Nat /\ Len(Up') = Len(Up) + 1 /\ Up'[Len(Up) + 1] = p
        /\ \A i \in 1 .. Len(Up') :
               \/ i \in 1 .. Len(Up) /\ Up'[i] = Up[i]
               \/ i = Len(Up) + 1 /\ Up'[i] = p
    BY <1>3, <1>5, Appended
  <2>7. \A i \in 1 .. Len(Up) : Up[i] \notin MemoryStats
    BY <2>5 DEF NoStats
  <2>8. \A i \in 1 .. Len(Up') : Up'[i] \notin Acks
    BY <1>4, <2>4, <2>6, Kinds DEF UpQuiet, AllDebug
  <2> DEFINE k == Len(Up) + 1
  <2>9. /\ k \in 1 .. Len(Up') /\ Up'[k] \in MemoryStats
        /\ \A i \in 1 .. Len(Up') : i # k => Up'[i] \notin MemoryStats
    BY <2>1, <2>6, <2>7
  <2>10. StatsInOrder'
    BY <2>8, <2>9 DEF StatsInOrder
  <2> QED BY <1>0, <1>2, <2>3, <2>5, <2>10 DEF Accounted, StatsUnderWay, Remembered
<1> QED BY <1>1, <1>6, <1>7

\* Another memory operation.
LEMMA RequestStats ==
    ASSUME TypeInv, Baton, Errand, Accounted, Running, CpStep,
           CpMemFetch \/ CpMemWriteAddr \/ CpMemWriteVal
    PROVE  Accounted'
<1>0. UNCHANGED last_response_pkt
  BY CpStats
<1>1. cp.mem_fetch_addr \in Word /\ cp.mem_write_addr \in Word /\ cp.mem_val \in Word
  BY LinkTypes, CpFields
<1>2. PICK from \in {"MEM_FETCH", "MEM_WRITE_ADDR", "MEM_WRITE_VAL"},
           sub_cmd \in {MEM_READ, MEM_WRITE}, body \in Word,
           to \in {"MEM_FETCH_WAIT", "MEM_WRITE_VAL_PREP", "MEM_WRITE_WAIT"} :
          CpRequest(from, sub_cmd, body, to)
  BY <1>1 DEF CpMemFetch, CpMemWriteAddr, CpMemWriteVal
<1>3. /\ cp.state = from /\ cp'.state = to /\ DownEmpty' /\ Up \in Seq(Packet)
      /\ \E p \in Packet : /\ p.cmd = MEMORY /\ p.sub_cmd = sub_cmd
                           /\ Up' = Append(Up, p)
  BY <1>2, Requested
<1>4. ~Resting /\ ~StatsDue /\ Target \notin AfterMem /\ ~StatsDue'
  BY <1>3 DEF Resting, StatsDue, Target, AfterMem, DebugState
<1>5. CASE DEVICE_DEBUG
  <2>1. last_response_pkt = <<>> /\ NoStats
    BY <1>4, <1>5, NothingLeft
  <2>2. PICK p \in Packet : p.sub_cmd = sub_cmd /\ Up' = Append(Up, p)
    BY <1>3
  <2>3. p \notin MemoryStats
    BY <2>2 DEF MemoryStats, Debugs, MEM_READ, MEM_WRITE, DEBUG
  <2>4. NoStats'
    BY <1>3, <2>1, <2>2, <2>3, StatsAppend
  <2> QED BY <1>0, <1>4, <2>1, <2>4, AfreshStats
<1> QED BY <1>5 DEF Accounted

\* The answer is in: the processor goes for its statistics.
LEMMA AnswerStats ==
    ASSUME TypeInv, Baton, Errand, Accounted, Running, CpStep, CpMemFetchWait \/ CpMemWriteWait
    PROVE  Accounted'
<1>0. CpTypeOK /\ CpFrame /\ mainPc # "exited" /\ UNCHANGED last_response_pkt
  BY CpStats
<1> DEFINE p == messages[PKT_TO_CP]
<1>1. /\ cp.state \in {"MEM_FETCH_WAIT", "MEM_WRITE_WAIT"}
      /\ TakeMessage(PKT_TO_CP) /\ p # NoMsg
  BY DEF CpMemFetchWait, CpMemWriteWait, TakeMessage
<1>2. RightAnswer(p)
  BY <1>1, CpCalls DEF Resting, DownRight, RightDown
<1>3. StatsDue /\ Up' = Up
  BY <1>0, <1>1, CpTake DEF StatsDue, DownEmpty
<1>4. cp' = AfterMemOp([cp EXCEPT !.mem_val = p.body]) \/ cp' = AfterMemOp(cp)
  BY <1>1, <1>2 DEF CpMemFetchWait, CpMemWriteWait, RightAnswer
<1> HIDE DEF p
<1>5. CASE DEVICE_DEBUG
  <2>1. cp'.state = "DEBUG_WRITE_RESPONSE" /\ cp'.tx_cmd_id = cp.tx_cmd_id
    BY <1>0, <1>4, <1>5 DEF AfterMemOp, CpTypeOK
  <2>2. Remembered /\ NoStats
    BY <1>3, <1>5 DEF Accounted
  <2>3. StatsDue' /\ Remembered' /\ NoStats'
    BY <1>0, <1>3, <2>1, <2>2 DEF StatsDue, Remembered, NoStats
  <2> QED BY <2>3 DEF Accounted
<1> QED BY <1>5 DEF Accounted

-----------------------------------------------------------------------------
(* The system.                                                             *)

LEMMA AccountedInit == Init => Accounted
<1> SUFFICES ASSUME Init PROVE Accounted
  OBVIOUS
<1>1. /\ last_response_pkt = <<>> /\ cp.state = "IDLE" /\ mainPc = "init"
  BY DEF Init, ImplInit, CpInit, DriverInit
<1>2. Up = <<>>
  BY DEF Init, MessagesInit, Mailbox, InterfaceInit, ImplInit, Up, Opt
<1>3. NoStats
  BY <1>2 DEF NoStats
<1> QED BY <1>1, <1>3 DEF Accounted, StatsDue

LEMMA AccountedStep ==
    LOG_ENABLED /\ TypeInv /\ Baton /\ Errand /\ Accounted /\ [Next]_vars => Accounted'
<1> SUFFICES ASSUME LOG_ENABLED, TypeInv, Baton, Errand, Accounted, [Next]_vars
             PROVE  Accounted'
  OBVIOUS
<1>1. CASE Running /\ (AppStep \/ LibraryStep \/ TimeoutStep \/ RecvStep)
  BY <1>1, MainStats
<1>2. CASE Running /\ (ImplStep \/ RxStep \/ TxStep)
  BY <1>2, ImplStats, InterfaceStats
<1>3. CASE Running /\ CpStep
  <2>1. CpExecuteTick
    BY <1>3 DEF CpStep
  <2> QED BY <1>3, <2>1, IdleStats, SilentStats, AckStats, DebugStats, RequestStats,
             AnswerStats DEF CpExecuteTick
<1>4. CASE UNCHANGED vars
  <2>1. /\ UNCHANGED <<cp, last_response_pkt, messages, rx_msg, tx_msg, driver_payload,
                       impl_msg>>
    BY <1>4 DEF vars, deviceVars, implVars
  <2>2. (Up' = Up) /\ StatsDue' = StatsDue
    BY <2>1, UpSame DEF StatsDue, DownEmpty
  <2> QED BY <2>1, <2>2, StatsFrame
<1> QED BY <1>1, <1>2, <1>3, <1>4 DEF Next, Terminated

LEMMA AccountedInvariant == LOG_ENABLED => (Spec => []Accounted)
<1> SUFFICES ASSUME LOG_ENABLED PROVE Spec => []Accounted
  OBVIOUS
<1>1. TypeInv /\ Baton /\ Errand /\ Accounted /\ [Next]_vars => Accounted'
  BY AccountedStep
<1> QED BY <1>1, AccountedInit, ErrandHolds, BatonInvariant, TypeInvariant, PTL DEF Spec

\* The packets that go up are of the four kinds; in a build without DEVICE_DEBUG
\* no statistics are among them.
LEMMA BatonKinds == Baton /\ mainPc # "exited" => UpKinds
<1> SUFFICES ASSUME Baton, mainPc # "exited" PROVE UpKinds
  OBVIOUS
<1>1. \/ AllDebug(Up)
      \/ \E S \in {Reads, Writes, Acks} : One(Up, S) \/ Two(Up, S)
  BY Holders DEF MainHas, DownHas, CpHas, UpHas, ReplyHas, AckHas, UpQuiet
<1>2. CASE AllDebug(Up)
  BY <1>2 DEF AllDebug, UpKinds
<1>3. ASSUME NEW S \in {Reads, Writes, Acks}, One(Up, S) \/ Two(Up, S)
      PROVE  UpKinds
  <2>1. \A i \in 1 .. Len(Up) : Up[i] \in Debugs \cup S
    BY <1>3 DEF One, Two
  <2> QED BY <1>3, <2>1 DEF UpKinds
<1> QED BY <1>1, <1>2, <1>3

LEMMA KindsInvariant == LOG_ENABLED => (Spec => []UpKinds)
<1> SUFFICES ASSUME LOG_ENABLED PROVE Spec => []UpKinds
  OBVIOUS
<1>1. Init => UpKinds
  BY BatonInit, BatonKinds DEF Init, DriverInit
<1>2. ASSUME TypeInv, Baton, UpKinds, [Next]_vars PROVE UpKinds'
  <2>1. Baton'
    BY <1>2, BatonStep
  <2>2. CASE mainPc' # "exited"
    <3>1. /\ (CpInv /\ (MainHas \/ DownHas \/ CpHas \/ UpHas \/ ReplyHas \/ AckHas))'
      BY <2>1, <2>2 DEF Baton
    <3>2. \/ AllDebug(Up')
          \/ \E S \in {Reads, Writes, Acks} : One(Up', S) \/ Two(Up', S)
      BY <3>1 DEF MainHas, DownHas, CpHas, UpHas, ReplyHas, AckHas, UpQuiet
    <3>3. CASE AllDebug(Up')
      BY <3>3 DEF AllDebug, UpKinds
    <3>4. ASSUME NEW S \in {Reads, Writes, Acks}, One(Up', S) \/ Two(Up', S)
          PROVE  UpKinds'
      <4>1. \A i \in 1 .. Len(Up') : Up'[i] \in Debugs \cup S
        BY <3>4 DEF One, Two
      <4> QED BY <3>4, <4>1 DEF UpKinds
    <3> QED BY <3>2, <3>3, <3>4
  <2>3. CASE mainPc' = "exited"
    <3>1. UNCHANGED <<messages, impl_msg, driver_payload, tx_msg>>
      <4>1. CASE UNCHANGED vars
        BY <4>1 DEF vars, deviceVars, implVars
      <4>2. CASE Running /\ AppStep
        <5>1. \E c \in Calls : c.cmd # ADD /\ MPow2Rejected(c.second)
          BY <2>3, <4>2 DEF AppStep, RecordCall, Application, MAdd, MMulPow2, MDivPow2, MPow2,
                NewMInt, SetValue, MSync, MFree, Goto, driverVars
        <5> QED BY <5>1 DEF MPow2Rejected, deviceVars, implVars
      <4>3. CASE Running /\ TimeoutStep
        BY <4>3 DEF TimeoutStep, HandshakeTimeout, deviceVars, implVars
      <4>4. CASE Running /\ LibraryStep
        BY <2>3, <4>4 DEF Running, LibraryStep, MInit, HandshakeStat, HandshakePop,
              HandshakeReceive, SyncReturn, SyncSend, SyncStat, CmdSync, DeleteDevice, Goto,
              AfterSend
      <4>5. CASE Running /\ (RecvStep \/ ImplStep \/ RxStep \/ TxStep \/ CpStep)
        <5>1. mainPc' = mainPc
          BY <4>5 DEF RecvStep, RecvTake, RecvPush, RecvStop, ImplStep, RxStep, TxStep,
                InterfaceStep, CpStep, driverVars
        <5> QED BY <2>3, <4>5, <5>1 DEF Running
      <4> QED BY <1>2, <4>1, <4>2, <4>3, <4>4, <4>5 DEF Next, Terminated
    <3>2. Up' = Up
      BY <3>1, UpSame
    <3> QED BY <1>2, <3>2 DEF UpKinds
  <2> QED BY <2>2, <2>3
<1> QED BY <1>1, <1>2, BatonInvariant, TypeInvariant, PTL DEF Spec

\* Each statistics packet about a memory operation finds the response it is
\* about, and it alone, in last_response_pkt (functional_impl.cpp:175-188): the
\* host's list and the processor's packets never get out of step, in builds with
\* LOG_ENABLED.
THEOREM ResponseStatsFindTheirs ==
    ASSUME LOG_ENABLED
    PROVE  Spec => []ResponseStatsAttribution
<1>1. ASSUME TypeInv, UpKinds, Accounted PROVE ResponseStatsAttribution
  <2> SUFFICES ASSUME impl_msg # NoMsg, impl_msg.cmd = MEMORY, impl_msg.sub_cmd = DEBUG,
                      impl_msg.type = RESPONSE
               PROVE  Remembered
    BY DEF ResponseStatsAttribution, Remembered
  <2>1. UpTypes /\ Up \in Seq(Packet) /\ impl_msg \in Packet
    BY <1>1, LinkTypes DEF UpTypes
  <2>2. 1 \in 1 .. Len(Up) /\ Up[1] = impl_msg
    <3> DEFINE D == driver_payload  T == Opt(tx_msg)  M == Opt(messages[PKT_FROM_CP])
    <3>1. D \in Seq(Packet) /\ T \in Seq(Packet) /\ M \in Seq(Packet)
      BY <2>1, OptType DEF UpTypes
    <3>2. Up = ((<<impl_msg>> \o D) \o T) \o M
      BY DEF Up, Opt
    <3> HIDE DEF D, T, M
    <3>3. <<impl_msg>> \o D \in Seq(Packet) /\ (<<impl_msg>> \o D)[1] = impl_msg
          /\ Len(<<impl_msg>> \o D) >= 1
      BY <2>1, <3>1
    <3>4. /\ Len((<<impl_msg>> \o D) \o T) >= 1
          /\ (<<impl_msg>> \o D) \o T \in Seq(Packet)
          /\ ((<<impl_msg>> \o D) \o T)[1] = impl_msg
      BY <3>1, <3>3
    <3> QED BY <2>1, <3>1, <3>2, <3>4
  <2>3. Up[1] \in Debugs
    BY <1>1, <2>2 DEF UpKinds, Reads, Writes, Acks, MEM_READ, MEM_WRITE, DEBUG
  <2>4. Up[1] \in MemoryStats /\ DEVICE_DEBUG
    BY <2>2, <2>3 DEF MemoryStats, Debugs
  <2> QED BY <1>1, <2>2, <2>4 DEF Accounted, NoStats
<1> QED BY <1>1, AccountedInvariant, KindsInvariant, TypeInvariant, PTL
==============================================================================
