----------------------------- MODULE SerialPort -----------------------------
(***************************************************************************)
(* The host's end of the serial line: the operating system's two queues    *)
(* behind port_fd.  Nothing on the host's side loses a byte; what the      *)
(* board's UART makes of the line is ByteReceiver and ByteTransmitter.     *)
(***************************************************************************)
EXTENDS PacketBytes

VARIABLES
    port_in,    \* bytes received and not read yet
    port_out    \* bytes written and not sent yet

portVars == <<port_in, port_out>>

PortTypeOK == port_in \in Seq(Byte) /\ port_out \in Seq(Byte)

PortInit == port_in = <<>> /\ port_out = <<>>

\* write(port_fd, packet, 6)
WritePacket(p) == port_out' = port_out \o Flatten(p)
=============================================================================
