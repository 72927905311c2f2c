--------------------------- MODULE AluEquivalence ---------------------------
(***************************************************************************)
(* The arithmetic of the command processor against the integers, and the   *)
(* functional model's against the RTL's, over every pair of operands of a  *)
(* small width.  A step only chooses the next operation.                   *)
(***************************************************************************)
EXTENDS PreinceptionAlu

\* Laws of exponents, as far as the powers of a width go.
ASSUME ExponentAssumption ==
    /\ \A n \in 0 .. 2^(WordBits - 1) - 1 :
          2^n \in Nat \ {0} /\ 2^(WordBits + n) = 2^WordBits * 2^n
    /\ \A n \in 0 .. WordBits : 2^WordBits = 2^n * 2^(WordBits - n)

VARIABLES cmd, a, b

vars == <<cmd, a, b>>

Init == cmd = ADD /\ a = 0 /\ b = 0

Next ==
    /\ cmd' \in {ADD, MULP2, DIVP2}
    /\ a' \in Word
    /\ b' \in Word

Spec == Init /\ [][Next]_vars

-----------------------------------------------------------------------------
\* The library refuses negative powers and no others (matrix.cpp:118, 154).
LegalPower == cmd = ADD \/ Signed(b) >= 0

\* The integer the operation stands for; a division is rounded down.
Exact(power) ==
    CASE cmd = ADD   -> Signed(a) + Signed(b)
      [] cmd = MULP2 -> Signed(a) * 2^power
      [] cmd = DIVP2 -> Signed(a) \div 2^power

\* That integer modulo 2^WordBits, as a word; a quotient itself.
IsExact(r, power) ==
    /\ r \in Word
    /\ (Signed(r) - Exact(power)) % 2^WordBits = 0
    /\ cmd = DIVP2 => Signed(r) = Exact(power)

\* On every power the library lets through, the RTL computes what the operation
\* stands for: sums and products that fit are right, the others wrap
\* (command_processor.v:503-531).  HwCp does so for the power modulo the width:
\* it is the right one below the width only (hw_cp.cpp:245-278).
AluIsArithmetic ==
    LegalPower => /\ IsExact(Alu(cmd, a, b), b % WordBits)
                  /\ IsExact(RtlAlu(cmd, a, b), b)

\* Operands on which a power of at least the width and its remainder do the
\* same: all bits of the product are shifted out, or all but the sign of the
\* quotient.
SpentEitherWay ==
    LET n == b % WordBits IN
    \/ cmd = MULP2 /\ a % 2^(WordBits - n) = 0
    \/ cmd = DIVP2 /\ -(2^n) <= Signed(a) /\ Signed(a) < 2^n

\* The functional model and the RTL give the same result for every sum and
\* every power below the width, and part on every other power the library lets
\* through, unless the operand is spent (hw_cp.cpp:257, 268;
\* command_processor.v:517, 527).
RtlAgrees ==
    LegalPower =>
        (RtlAlu(cmd, a, b) = Alu(cmd, a, b)
         <=> cmd = ADD \/ b < WordBits \/ SpentEitherWay)
=============================================================================
