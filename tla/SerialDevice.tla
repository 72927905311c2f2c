----------------------------- MODULE SerialDevice -----------------------------
(***************************************************************************)
(* The host's byte buffer (serial_device.cpp): one thread reads bytes from *)
(* the port into a ring, another takes them out.  Neither counter is       *)
(* atomic; the build has no optimisation flags, so each turn of a loop     *)
(* reads them from memory and the stores are in the order written.         *)
(*                                                                         *)
(* RingSize is 256 in the program; the counters count modulo 2^32, any     *)
(* multiple of RingSize here.                                              *)
(***************************************************************************)
EXTENDS SerialPort

CONSTANTS RingSize, CounterSize

ASSUME RingAssumption ==
    /\ RingSize \in Nat \ {0}
    /\ CounterSize \in Nat /\ CounterSize > RingSize
    /\ CounterSize % RingSize = 0

VARIABLES
    read_buffer,
    read_buffer_ptr_hi, read_buffer_ptr_lo,
    listen_stored       \* the byte is in the ring, the counter not advanced

ringVars == <<read_buffer, read_buffer_ptr_hi, read_buffer_ptr_lo, listen_stored>>

RingTypeOK ==
    /\ read_buffer \in [0 .. RingSize - 1 -> Byte]
    /\ read_buffer_ptr_hi \in 0 .. CounterSize - 1
    /\ read_buffer_ptr_lo \in 0 .. CounterSize - 1
    /\ listen_stored \in BOOLEAN

RingInit ==
    /\ read_buffer = [i \in 0 .. RingSize - 1 |-> 0]
    /\ read_buffer_ptr_hi = 0
    /\ read_buffer_ptr_lo = 0
    /\ listen_stored = FALSE

\* A read that times out without a byte changes nothing.
ListenStore ==
    /\ ~listen_stored
    /\ port_in # <<>>
    /\ read_buffer' = [read_buffer EXCEPT ![read_buffer_ptr_hi % RingSize] = Head(port_in)]
    /\ port_in' = Tail(port_in)
    /\ listen_stored' = TRUE
    /\ UNCHANGED <<read_buffer_ptr_hi, read_buffer_ptr_lo>>

ListenAdvance ==
    /\ listen_stored
    /\ read_buffer_ptr_hi' = (read_buffer_ptr_hi + 1) % CounterSize
    /\ listen_stored' = FALSE
    /\ UNCHANGED <<port_in, read_buffer, read_buffer_ptr_lo>>

NextByte == read_buffer[read_buffer_ptr_lo % RingSize]

\* The processing thread takes NextByte.  It alone advances the counter, after
\* it has processed the byte.
TakeByte ==
    /\ read_buffer_ptr_hi # read_buffer_ptr_lo
    /\ read_buffer_ptr_lo' = (read_buffer_ptr_lo + 1) % CounterSize
    /\ UNCHANGED <<read_buffer, read_buffer_ptr_hi, listen_stored>>

\* Bytes stored and not taken, as long as they are fewer than CounterSize.
InRing ==
    ((read_buffer_ptr_hi - read_buffer_ptr_lo) % CounterSize) + (IF listen_stored THEN 1 ELSE 0)
===============================================================================
