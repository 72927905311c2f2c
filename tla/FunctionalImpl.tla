--------------------------- MODULE FunctionalImpl ---------------------------
(***************************************************************************)
(* The Device that links the driver with the functional model              *)
(* (FunctionalImpl).  Its receive thread polls the packets coming from the *)
(* hardware: memory requests are served from the host's memory, statistics *)
(* packets of debug builds are matched with the packet they are about, and *)
(* every other packet is queued for the driver.  send_device_payload runs  *)
(* on two threads, the application's and the receive thread.               *)
(*                                                                         *)
(* Reading or writing memory and pushing the response are separate steps   *)
(* (impl_reply holds the response in between); what the receive thread     *)
(* does to fields only it uses is part of the step before.                 *)
(***************************************************************************)
EXTENDS HwInterface, HostResidentMemory

VARIABLES
    impl_msg,               \* packet the receive thread is handling, or NoMsg
    impl_reply,             \* response it is about to send, or NoMsg
    mem_write_state,        \* which half of a memory write comes next
    mem_write_addr_scratch,
    received_payloads,      \* packets queued for the driver
    last_request_pkt,       \* debug builds: requests sent, responses sent, that
    last_response_pkt       \* no statistics packet has accounted for yet

implVars == <<impl_msg, impl_reply, mem_write_state, mem_write_addr_scratch,
              received_payloads, last_request_pkt, last_response_pkt>>

ImplTypeOK ==
    /\ impl_msg \in Packet \cup {NoMsg}
    /\ impl_reply \in Packet \cup {NoMsg}
    /\ mem_write_state \in {"ADDR_RECV", "VAL_RECV"}
    /\ mem_write_addr_scratch \in Word
    /\ received_payloads \in Seq(Packet)
    /\ last_request_pkt \in Seq(Packet)
    /\ last_response_pkt \in Seq(Packet)

ImplInit ==
    /\ impl_msg = NoMsg
    /\ impl_reply = NoMsg
    /\ mem_write_state = "ADDR_RECV"
    /\ mem_write_addr_scratch = 0
    /\ received_payloads = <<>>
    /\ last_request_pkt = <<>>
    /\ last_response_pkt = <<>>

\* Mutant: the packet is looked at and stays in the list.
PeekFront(s) == s

\* Popping an empty list returns nullopt; the statistics code dereferences it
\* all the same, reads rubbish and leaves the list empty.
PopFront(s) == IF s = <<>> THEN <<>> ELSE Tail(s)

-----------------------------------------------------------------------------
(* The receive thread.                                                     *)

ImplPoll ==
    /\ impl_msg = NoMsg
    /\ impl_reply = NoMsg
    /\ driver_payload # <<>>
    /\ impl_msg' = Head(driver_payload)
    /\ driver_payload' = Tail(driver_payload)
    /\ UNCHANGED <<messages, rx_msg, tx_msg, contents, allocation_ptr,
                   impl_reply, mem_write_state, mem_write_addr_scratch,
                   received_payloads, last_request_pkt, last_response_pkt>>

ImplQueue ==
    /\ impl_msg # NoMsg
    /\ impl_msg.cmd # MEMORY
    /\ received_payloads' = Append(received_payloads, impl_msg)
    /\ impl_msg' = NoMsg
    /\ UNCHANGED <<messages, rx_msg, tx_msg, driver_payload, contents,
                   allocation_ptr, impl_reply, mem_write_state,
                   mem_write_addr_scratch, last_request_pkt, last_response_pkt>>

\* process_device_request is handling a packet of this kind.
Processing(sub_cmd) ==
    /\ impl_msg # NoMsg
    /\ impl_msg.cmd = MEMORY
    /\ impl_msg.sub_cmd = sub_cmd
    /\ impl_msg' = NoMsg
    /\ UNCHANGED <<messages, rx_msg, tx_msg, driver_payload, received_payloads>>

MemResponse(p, body) == Payload(p.id, RESPONSE, p.cmd, p.sub_cmd, body)

ImplRead ==
    /\ Processing(MEM_READ)
    /\ \E v \in MemoryRead(impl_msg.body) : impl_reply' = MemResponse(impl_msg, v)
    /\ UNCHANGED <<contents, allocation_ptr, mem_write_state,
                   mem_write_addr_scratch, last_request_pkt, last_response_pkt>>

ImplWriteAddr ==
    /\ Processing(MEM_WRITE)
    /\ mem_write_state = "ADDR_RECV"
    /\ mem_write_addr_scratch' = impl_msg.body
    /\ mem_write_state' = "VAL_RECV"
    /\ UNCHANGED <<contents, allocation_ptr, impl_reply,
                   last_request_pkt, last_response_pkt>>

ImplWriteVal ==
    /\ Processing(MEM_WRITE)
    /\ mem_write_state = "VAL_RECV"
    /\ MemoryWrite(mem_write_addr_scratch, impl_msg.body)
    /\ impl_reply' = MemResponse(impl_msg, 0)
    /\ mem_write_state' = "ADDR_RECV"
    /\ UNCHANGED <<mem_write_addr_scratch, last_request_pkt, last_response_pkt>>

\* Statistics: the packet they are about is the oldest one not accounted for.
ImplDebugRequest ==
    /\ DEVICE_DEBUG
    /\ Processing(DEBUG)
    /\ impl_msg.type = REQUEST
    /\ last_request_pkt' = PopFront(last_request_pkt)
    /\ UNCHANGED <<contents, allocation_ptr, impl_reply, mem_write_state,
                   mem_write_addr_scratch, last_response_pkt>>

ImplDebugResponse ==
    /\ DEVICE_DEBUG
    /\ Processing(DEBUG)
    /\ impl_msg.type = RESPONSE
    /\ last_response_pkt' = PopFront(last_response_pkt)
    /\ UNCHANGED <<contents, allocation_ptr, impl_reply, mem_write_state,
                   mem_write_addr_scratch, last_request_pkt>>

\* send_device_payload on the receive thread: a response.
ImplRespond ==
    /\ impl_reply # NoMsg
    /\ PushMessage(PKT_TO_DEVICE, impl_reply)
    /\ last_response_pkt' = IF DEVICE_DEBUG THEN Append(last_response_pkt, impl_reply)
                            ELSE last_response_pkt
    /\ impl_reply' = NoMsg
    /\ UNCHANGED <<rx_msg, tx_msg, driver_payload, contents, allocation_ptr,
                   impl_msg, mem_write_state, mem_write_addr_scratch,
                   received_payloads, last_request_pkt>>

-----------------------------------------------------------------------------
(* send_device_payload on the application's thread: a request.  Pushing it *)
(* to the hardware and remembering it for the statistics are two steps,    *)
(* and the hardware runs in between.                                       *)

SendRequest(p) ==
    /\ PushMessage(PKT_TO_DEVICE, p)
    /\ UNCHANGED <<rx_msg, tx_msg, driver_payload, contents, allocation_ptr, implVars>>

RememberRequest(p) ==
    /\ last_request_pkt' = Append(last_request_pkt, p)
    /\ UNCHANGED <<messages, rx_msg, tx_msg, driver_payload, contents,
                   allocation_ptr, impl_msg, impl_reply, mem_write_state,
                   mem_write_addr_scratch, received_payloads, last_response_pkt>>

\* receive_device_payload, on a queue that is not empty: reads its head.
TakeReceived ==
    /\ received_payloads # <<>>
    /\ received_payloads' = Tail(received_payloads)
    /\ UNCHANGED <<messages, rx_msg, tx_msg, driver_payload, contents,
                   allocation_ptr, impl_msg, impl_reply, mem_write_state,
                   mem_write_addr_scratch, last_request_pkt, last_response_pkt>>
=============================================================================
