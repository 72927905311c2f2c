----------------------------- MODULE PacketBytes -----------------------------
(***************************************************************************)
(* The six bytes of a DevicePayload on the serial line: id and type in the *)
(* nibbles of the first, cmd and sub_cmd in those of the second, then the  *)
(* body, low byte first.                                                   *)
(***************************************************************************)
EXTENDS PreinceptionDefs, Sequences

\* A byte of the line; those of a body have WordBits \div 4 bits.
Byte == 0 .. 255

\* A word is four bytes; the second conjunct is the law of exponents.
ASSUME ByteAssumption ==
    LET b == WordBits \div 4 IN
    /\ 2^b - 1 \in Byte
    /\ \A n \in 0 .. 3 : 2^(n * b + b) = 2^(n * b) * 2^b
    /\ 2^WordBits = 2^(3 * b + b)

LowNibble(b)  == b % 16
HighNibble(b) == b \div 16

Flatten(p) ==
    <<p.id + 16 * p.type, p.cmd + 16 * p.sub_cmd>> \o [n \in 1 .. 4 |-> BodyByte(p.body, n)]

\* Mutant: the high byte first.
BodyReversed(bytes) ==
    LET b(n) == bytes[7 - n] * 2^((n - 1) * (WordBits \div 4))
    IN  b(1) + b(2) + b(3) + b(4)

Body(bytes) ==
    LET b(n) == bytes[n + 2] * 2^((n - 1) * (WordBits \div 4))
    IN  b(1) + b(2) + b(3) + b(4)

Unflatten(bytes) ==
    Payload(LowNibble(bytes[1]), HighNibble(bytes[1]),
            LowNibble(bytes[2]), HighNibble(bytes[2]), Body(bytes))
==============================================================================
