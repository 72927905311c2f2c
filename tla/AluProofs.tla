----------------------------- MODULE AluProofs -----------------------------
(***************************************************************************)
(* The operations of the command processor return words, for every width.  *)
(***************************************************************************)
EXTENDS PreinceptionAlu, TLAPS

\* Reducing an integer modulo 2^WordBits gives a word.
LEMMA WrapWord ==
    ASSUME NEW n \in Int
    PROVE  Wrap(n) \in Word
<1> DEFINE m == 2^WordBits
<1>1. m \in Nat \ {0}
  BY WordAssumption
<1>2. n % m \in 0 .. m - 1
  <2> HIDE DEF m
  <2> QED BY <1>1
<1> QED BY <1>2 DEF Wrap, Word

\* The value of a word is an integer.
LEMMA SignedInt ==
    ASSUME NEW w \in Word
    PROVE  Signed(w) \in Int
<1>1. WordBits \in 0 .. WordBits
  BY WordAssumption
<1>2. 2^WordBits \in Nat
  BY <1>1, WordAssumption
<1>3. w \in Int
  BY <1>2 DEF Word
<1> QED BY <1>2, <1>3 DEF Signed

\* A shift count is reduced to one the width allows, whose power is positive.
LEMMA ShiftPower ==
    ASSUME NEW b \in Word
    PROVE  2^(b % WordBits) \in Nat \ {0}
<1>1. 2^WordBits \in Nat
  BY WordAssumption
<1>2. b \in Nat
  BY <1>1 DEF Word
<1>3. b % WordBits \in 0 .. WordBits
  BY <1>2, WordAssumption
<1> QED BY <1>3, WordAssumption

\* Whatever the operands, HwCp's result fits the body of a packet
\* (hw_cp.cpp:245-278): adding wraps and a shift count is reduced.
LEMMA AluWord ==
    ASSUME NEW cmd \in {ADD, MULP2, DIVP2}, NEW a \in Word, NEW b \in Word
    PROVE  Alu(cmd, a, b) \in Word
<1>1. Signed(a) \in Int /\ Signed(b) \in Int
  BY SignedInt
<1> DEFINE p == 2^(b % WordBits)
<1>2. p \in Nat \ {0}
  BY ShiftPower
<1>3. /\ Signed(a) + Signed(b) \in Int
      /\ Signed(a) * p \in Int
      /\ Signed(a) \div p \in Int
  <2> HIDE DEF p
  <2> QED BY <1>1, <1>2
<1>4. /\ AddWords(a, b) \in Word
      /\ ShiftLeft(a, b) \in Word
      /\ ShiftRight(a, b) \in Word
  BY <1>3, WrapWord DEF AddWords, ShiftLeft, ShiftRight
<1> QED BY <1>4 DEF Alu, ADD, MULP2, DIVP2

\* Neither does the RTL's (command_processor.v:429-455): it wraps, and a shift
\* by the width or more leaves zeros or copies of the sign.
LEMMA RtlAluWord ==
    ASSUME NEW cmd \in {ADD, MULP2, DIVP2}, NEW a \in Word, NEW b \in Word
    PROVE  RtlAlu(cmd, a, b) \in Word
<1>1. Signed(a) \in Int
  BY SignedInt
<1>2. a \in Int /\ b \in Nat
  <2>1. WordBits \in 0 .. WordBits
    BY WordAssumption
  <2>2. 2^WordBits \in Nat
    BY <2>1, WordAssumption
  <2> QED BY <2>2 DEF Word
<1>3. Wrap(a + b) \in Word
  <2>1. a + b \in Int
    BY <1>2
  <2> QED BY <2>1, WrapWord
<1>4. 0 \in Int /\ -1 \in Int
  OBVIOUS
<1>5. /\ Wrap(0) \in Word /\ Wrap(-1) \in Word
  BY <1>4, WrapWord
<1>6. 0 \in Word
  BY WordAssumption DEF Word
<1>7. CASE b < WordBits
  <2> DEFINE p == 2^b
  <2>1. b \in 0 .. WordBits
    BY <1>2, <1>7, WordAssumption
  <2>2. p \in Nat \ {0}
    BY <2>1, WordAssumption
  <2>3. Signed(a) * p \in Int /\ Signed(a) \div p \in Int
    <3> HIDE DEF p
    <3> QED BY <1>1, <2>2
  <2>4. Wrap(Signed(a) * p) \in Word /\ Wrap(Signed(a) \div p) \in Word
    BY <2>3, WrapWord
  <2>5. RtlShiftLeft(a, b) \in Word /\ RtlShiftRight(a, b) \in Word
    BY <1>7, <2>4 DEF RtlShiftLeft, RtlShiftRight
  <2> QED BY <1>3, <2>5 DEF RtlAlu, ADD, MULP2, DIVP2
<1>8. CASE ~(b < WordBits)
  <2>1. RtlShiftLeft(a, b) \in Word /\ RtlShiftRight(a, b) \in Word
    BY <1>5, <1>6, <1>8 DEF RtlShiftLeft, RtlShiftRight
  <2> QED BY <1>3, <2>1 DEF RtlAlu, ADD, MULP2, DIVP2
<1> QED BY <1>7, <1>8
============================================================================
