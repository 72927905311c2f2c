------------------------------ MODULE SerialImpl ------------------------------
(***************************************************************************)
(* The Device that links the driver with the board (SerialImpl).  The      *)
(* processing thread of SerialDevice gathers bytes into packets: memory    *)
(* requests are served from the host's memory, statistics packets of debug *)
(* builds are matched with the packet they are about, and every other      *)
(* packet is queued for the driver.                                        *)
(*                                                                         *)
(* What that thread does between two bytes touches nothing another thread  *)
(* reads before its write() to the port, so it is one step.  A memory      *)
(* packet of another kind is dropped in the code; the board sends none.    *)
(***************************************************************************)
EXTENDS SerialDevice, HostResidentMemory

VARIABLES
    scratch,                    \* bytes of the packet coming in
    device_packet_recv_state,   \* which half of a memory write comes next
    mem_write_addr_scratch,
    received_payloads,          \* packets queued for the driver
    last_request_pkt,           \* debug builds: requests and responses sent
    last_response_pkt           \* that no statistics packet has accounted for

implVars == <<scratch, device_packet_recv_state, mem_write_addr_scratch,
              received_payloads, last_request_pkt, last_response_pkt>>

ImplTypeOK ==
    /\ scratch \in Seq(Byte) /\ Len(scratch) < 6
    /\ device_packet_recv_state \in {"ADDR_RECV", "VAL_RECV"}
    /\ mem_write_addr_scratch \in Word
    /\ received_payloads \in Seq(Packet)
    /\ last_request_pkt \in Seq(Packet)
    /\ last_response_pkt \in Seq(Packet)

ImplInit ==
    /\ scratch = <<>>
    /\ device_packet_recv_state = "ADDR_RECV"
    /\ mem_write_addr_scratch = 0
    /\ received_payloads = <<>>
    /\ last_request_pkt = <<>>
    /\ last_response_pkt = <<>>

\* Mutant: the packet is looked at and stays in the list.
PeekFront(s) == s

\* Popping an empty list returns nullopt, which the statistics dereference.
PopFront(s) == IF s = <<>> THEN <<>> ELSE Tail(s)

\* A byte that does not complete a packet.
ProcessByte ==
    /\ Len(scratch) < 5
    /\ scratch' = Append(scratch, NextByte)
    /\ UNCHANGED <<portVars, contents, allocation_ptr, device_packet_recv_state,
                   mem_write_addr_scratch, received_payloads, last_request_pkt,
                   last_response_pkt>>

\* The packet NextByte completes.
Arriving == Unflatten(Append(scratch, NextByte))

\* NextByte completes the value of a memory write.
StoresResult ==
    /\ Len(scratch) = 5
    /\ Arriving.cmd = MEMORY /\ Arriving.sub_cmd = MEM_WRITE
    /\ device_packet_recv_state = "VAL_RECV"

ProcessCommandResponse(p) ==
    /\ p.cmd # MEMORY
    /\ received_payloads' = Append(received_payloads, p)
    /\ UNCHANGED <<port_out, contents, allocation_ptr, device_packet_recv_state,
                   mem_write_addr_scratch, last_request_pkt, last_response_pkt>>

\* send_device_payload of the response to memory request p.
Respond(p, body) ==
    LET response == Payload(p.id, RESPONSE, p.cmd, p.sub_cmd, body) IN
    /\ WritePacket(response)
    /\ last_response_pkt' = IF DEVICE_DEBUG THEN Append(last_response_pkt, response)
                            ELSE last_response_pkt

ProcessRead(p) ==
    /\ p.cmd = MEMORY /\ p.sub_cmd = MEM_READ
    /\ \E v \in MemoryRead(p.body) : Respond(p, v)
    /\ UNCHANGED <<contents, allocation_ptr, device_packet_recv_state,
                   mem_write_addr_scratch, received_payloads, last_request_pkt>>

ProcessWriteAddr(p) ==
    /\ p.cmd = MEMORY /\ p.sub_cmd = MEM_WRITE
    /\ device_packet_recv_state = "ADDR_RECV"
    /\ mem_write_addr_scratch' = p.body
    /\ device_packet_recv_state' = "VAL_RECV"
    /\ UNCHANGED <<port_out, contents, allocation_ptr, received_payloads,
                   last_request_pkt, last_response_pkt>>

ProcessWriteVal(p) ==
    /\ p.cmd = MEMORY /\ p.sub_cmd = MEM_WRITE
    /\ device_packet_recv_state = "VAL_RECV"
    /\ MemoryWrite(mem_write_addr_scratch, p.body)
    /\ Respond(p, 0)
    /\ device_packet_recv_state' = "ADDR_RECV"
    /\ UNCHANGED <<mem_write_addr_scratch, received_payloads, last_request_pkt>>

ProcessDebugRequest(p) ==
    /\ DEVICE_DEBUG
    /\ p.cmd = MEMORY /\ p.sub_cmd = DEBUG /\ p.type = REQUEST
    /\ last_request_pkt' = PopFront(last_request_pkt)
    /\ UNCHANGED <<port_out, contents, allocation_ptr, device_packet_recv_state,
                   mem_write_addr_scratch, received_payloads, last_response_pkt>>

ProcessDebugResponse(p) ==
    /\ DEVICE_DEBUG
    /\ p.cmd = MEMORY /\ p.sub_cmd = DEBUG /\ p.type = RESPONSE
    /\ last_response_pkt' = PopFront(last_response_pkt)
    /\ UNCHANGED <<port_out, contents, allocation_ptr, device_packet_recv_state,
                   mem_write_addr_scratch, received_payloads, last_request_pkt>>

ProcessPacket ==
    /\ Len(scratch) = 5
    /\ \/ ProcessCommandResponse(Arriving)
       \/ ProcessRead(Arriving)
       \/ ProcessWriteAddr(Arriving)
       \/ ProcessWriteVal(Arriving)
       \/ ProcessDebugRequest(Arriving)
       \/ ProcessDebugResponse(Arriving)
    /\ scratch' = <<>>
    /\ UNCHANGED port_in

-----------------------------------------------------------------------------
(* send_device_payload on the application's thread.                        *)

SendRequest(p) ==
    /\ WritePacket(p)
    /\ UNCHANGED <<port_in, contents, allocation_ptr, implVars>>

RememberRequest(p) ==
    /\ last_request_pkt' = Append(last_request_pkt, p)
    /\ UNCHANGED <<portVars, contents, allocation_ptr, scratch,
                   device_packet_recv_state, mem_write_addr_scratch,
                   received_payloads, last_response_pkt>>
===============================================================================
