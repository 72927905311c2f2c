------------------------- MODULE HostResidentMemory -------------------------
(***************************************************************************)
(* The device memory, which lives on the host: a bump allocator over one   *)
(* malloc'ed block.  The driver only allocates, reads and writes 4-byte    *)
(* integers, so a cell is one word at an address that is a multiple of 4,  *)
(* and splitting a word into bytes and joining them again is left out.     *)
(*                                                                         *)
(* Cells bounds how many integers an application creates; the block has    *)
(* room for 2.5 * 10^8 and allocate() does not check it.  A read elsewhere *)
(* in the block finds bytes nobody wrote: any member of Unwritten.         *)
(***************************************************************************)
EXTENDS PreinceptionDefs

CONSTANTS
    Cells,      \* integers an application creates at most
    Unwritten   \* words that memory nobody wrote may hold

VARIABLES
    contents,       \* [Addr -> Word]
    allocation_ptr  \* first address not handed out

Addr == {4 * i : i \in 0 .. Cells - 1}

ASSUME MemoryAssumption ==
    /\ Cells \in Nat \ {0}
    /\ Addr \subseteq Word
    /\ Unwritten \subseteq Word
    /\ 0 \in Unwritten

Allocated == {a \in Addr : a < allocation_ptr}

MemoryTypeOK ==
    /\ contents \in [Addr -> Word]
    /\ allocation_ptr \in Nat

\* malloc leaves the block uninitialised; no cell is read before its
\* constructor wrote it, so the first contents do not matter.
MemoryInit ==
    /\ contents = [a \in Addr |-> 0]
    /\ allocation_ptr = 0

\* What read(a, 4) may return.
MemoryRead(a) == IF a \in Addr THEN {contents[a]} ELSE Unwritten

\* write(a, 4, v); outside the cells it changes nothing that is modelled.
MemoryWrite(a, v) ==
    /\ contents' = [contents EXCEPT ![a] = v]
    /\ UNCHANGED allocation_ptr

\* MIntDeviceMemory(v): allocate the next cell and write its first value.
AllocateAndWrite(v) ==
    /\ allocation_ptr \in Addr
    /\ contents' = [contents EXCEPT ![allocation_ptr] = v]
    /\ allocation_ptr' = allocation_ptr + 4
=============================================================================
