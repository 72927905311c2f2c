-------------------------- MODULE PreinceptionAlu --------------------------
(***************************************************************************)
(* The three operations of the command processor on two's-complement       *)
(* words.  HwCp computes on the host: + wraps, and the shift instructions  *)
(* of the build take the shift count modulo the width, so a count of at    *)
(* least WordBits (undefined in the C++) is reduced.  The RTL computes the *)
(* same operations in Verilog, where such a count shifts every bit out.    *)
(***************************************************************************)
EXTENDS PreinceptionDefs

\* Half of the words are negative.
ASSUME HalfAssumption == 2^WordBits = 2 * 2^(WordBits - 1)

Signed(w) == IF w < 2^(WordBits - 1) THEN w ELSE w - 2^WordBits

Wrap(n) == n % 2^WordBits

\* HwCp: bit_cast<int>(op1) + bit_cast<int>(op2).
AddWords(a, b) == Wrap(Signed(a) + Signed(b))

\* HwCp: bit_cast<int>(op1) << op2.
ShiftLeft(a, b) == Wrap(Signed(a) * 2^(b % WordBits))

\* Mutant: the shift forgets the sign.
ShiftRightLogical(a, b) == a \div 2^(b % WordBits)

\* HwCp: bit_cast<int>(op1) >> op2, an arithmetic shift: it rounds down.
ShiftRight(a, b) == Wrap(Signed(a) \div 2^(b % WordBits))

Alu(cmd, a, b) ==
    CASE cmd = ADD   -> AddWords(a, b)
      [] cmd = MULP2 -> ShiftLeft(a, b)
      [] cmd = DIVP2 -> ShiftRight(a, b)

\* RTL: op_1 << op_2 and op_1 >>> op_2 on a signed op_1.
RtlShiftLeft(a, b) == IF b < WordBits THEN Wrap(Signed(a) * 2^b) ELSE 0

\* Mutant: op_1 is declared without "signed", so >>> shifts zeros in.
RtlShiftRightUnsigned(a, b) == IF b < WordBits THEN a \div 2^b ELSE 0

RtlShiftRight(a, b) ==
    IF b < WordBits THEN Wrap(Signed(a) \div 2^b)
    ELSE Wrap(IF Signed(a) < 0 THEN -1 ELSE 0)

RtlAlu(cmd, a, b) ==
    CASE cmd = ADD   -> Wrap(a + b)
      [] cmd = MULP2 -> RtlShiftLeft(a, b)
      [] cmd = DIVP2 -> RtlShiftRight(a, b)
============================================================================
