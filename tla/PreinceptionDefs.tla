------------------------- MODULE PreinceptionDefs -------------------------
(***************************************************************************)
(* The vocabulary of the host/device link of the Preinception accelerator: *)
(* the 48-bit DevicePayload as a record of its fields, the numbers of its  *)
(* types and commands, and the words it carries.  The bit packing of the   *)
(* two header bytes is abstracted: a nibble setter and its getter agree on *)
(* every value used here.                                                  *)
(*                                                                         *)
(* A word of the program has 32 bits and four 8-bit bytes.  WordBits lets  *)
(* a small instance keep the same layout: four bytes of WordBits \div 4    *)
(* bits each.                                                              *)
(***************************************************************************)
EXTENDS Integers

CONSTANTS
    WordBits,       \* width of a body, 32 in the program
    NoMsg,          \* "no packet": a mailbox or a variable that holds none
    DEVICE_DEBUG,   \* build flags, from the configuration's "debug" and
    LOG_ENABLED     \* "log_enabled"

Word == 0 .. 2^WordBits - 1

Nibble == 0 .. 15

\* enum TYPE, enum CMD (0 is the memory traffic of the command processor) and
\* the operand numbers of ADD, MULP2 and DIVP2.
REQUEST   == 0
RESPONSE  == 1

MEMORY    == 0
HANDSHAKE == 1
ADD       == 2
MULP2     == 3
DIVP2     == 4

OP_1 == 0
OP_2 == 1
OP_3 == 2

MEM_READ  == 0
MEM_WRITE == 1
DEBUG     == 15

Packet == [id      : Nibble,
           type    : {REQUEST, RESPONSE},
           cmd     : {MEMORY, HANDSHAKE, ADD, MULP2, DIVP2},
           sub_cmd : {OP_1, OP_2, OP_3, DEBUG},
           body    : Word]

Payload(id, type, cmd, sub_cmd, body) ==
    [id |-> id, type |-> type, cmd |-> cmd, sub_cmd |-> sub_cmd, body |-> body]

\* Byte n (1 is the low one) of a word: fields.body_1 .. fields.body_4.
BodyByte(w, n) ==
    (w \div 2^((n - 1) * (WordBits \div 4))) % 2^(WordBits \div 4)

\* The body of the handshake response: body_1 = 2, body_2 = 1, others 0.
HandshakeBody == 2 + 2^(WordBits \div 4)

\* The facts on powers of two that hold for every width the program can be
\* built with (WordBits = 32) and for the instances checked (WordBits = 8).
ASSUME WordAssumption ==
    /\ WordBits \in Nat \ {0}
    /\ \A n \in 0 .. WordBits : 2^n \in Nat \ {0}
    /\ HandshakeBody \in Word

ASSUME FlagAssumption ==
    /\ DEVICE_DEBUG \in BOOLEAN
    /\ LOG_ENABLED \in BOOLEAN

ASSUME NoMsgAssumption == NoMsg \notin Packet
===========================================================================
