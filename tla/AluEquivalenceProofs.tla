------------------------ MODULE AluEquivalenceProofs ------------------------
(***************************************************************************)
(* What AluEquivalence checks for every pair of operands of five bits, for *)
(* every pair of every width: the operations are those of the integers,    *)
(* and the functional model's part from the RTL's on the powers of at      *)
(* least the width, and on no others.                                      *)
(***************************************************************************)
EXTENDS AluEquivalence, AluProofs

-----------------------------------------------------------------------------
(* Remainders.                                                             *)

\* A remainder is known by its range.
LEMMA RemainderUnique ==
    ASSUME NEW m \in Nat \ {0}, NEW q \in Int, NEW r \in 0 .. m - 1
    PROVE  (m * q + r) % m = r
OBVIOUS

\* Every integer is a multiple and a remainder.
LEMMA DivisionWithRemainder ==
    ASSUME NEW m \in Nat \ {0}, NEW n \in Int
    PROVE  /\ n \div m \in Int
           /\ n % m \in 0 .. m - 1
           /\ n = m * (n \div m) + (n % m)
OBVIOUS

\* Multiples leave nothing.
LEMMA MultipleRemainder ==
    ASSUME NEW m \in Nat \ {0}, NEW k \in Int
    PROVE  (m * k) % m = 0
OBVIOUS

\* One multiple less leaves the same.
LEMMA RemainderShift ==
    ASSUME NEW m \in Nat \ {0}, NEW n \in Int
    PROVE  (n - m) % m = n % m
<1> DEFINE q == n \div m
           r == n % m
<1>1. q \in Int /\ r \in 0 .. m - 1 /\ n = m * q + r
  BY DivisionWithRemainder
<1>2. n - m = m * (q - 1) + r
  <2> HIDE DEF q, r
  <2> QED BY <1>1
<1>3. (m * (q - 1) + r) % m = r
  <2> HIDE DEF q, r
  <2>1. q - 1 \in Int
    BY <1>1
  <2> QED BY <1>1, <2>1, RemainderUnique
<1> QED BY <1>2, <1>3

-----------------------------------------------------------------------------
(* Words.                                                                  *)

\* The number of words is twice the number of those that are not negative.
LEMMA Halves ==
    /\ 2^WordBits \in Nat \ {0}
    /\ 2^(WordBits - 1) \in Nat \ {0}
    /\ 2^WordBits = 2 * 2^(WordBits - 1)
<1>1. WordBits \in 0 .. WordBits /\ WordBits - 1 \in 0 .. WordBits
  BY WordAssumption
<1> QED BY <1>1, WordAssumption, HalfAssumption

\* The value of a word lies between the least and the greatest integer of the
\* width, and is the word up to a multiple of the number of words.
LEMMA SignedRange ==
    ASSUME NEW w \in Word
    PROVE  /\ Signed(w) \in -(2^(WordBits - 1)) .. 2^(WordBits - 1) - 1
           /\ Signed(w) = w \/ Signed(w) = w - 2^WordBits
<1> DEFINE m == 2^WordBits
           h == 2^(WordBits - 1)
<1>1. m \in Nat \ {0} /\ h \in Nat \ {0} /\ m = 2 * h
  BY Halves
<1>2. w \in 0 .. m - 1
  BY DEF Word
<1>3. Signed(w) = IF w < h THEN w ELSE w - m
  BY DEF Signed
<1> HIDE DEF m, h
<1>4. /\ Signed(w) \in -h .. h - 1
      /\ Signed(w) = w \/ Signed(w) = w - m
  BY <1>1, <1>2, <1>3
<1> QED BY <1>4 DEF m, h

\* Signed undoes Wrap on the integers of the width.
LEMMA SignedOfWrap ==
    ASSUME NEW n \in -(2^(WordBits - 1)) .. 2^(WordBits - 1) - 1
    PROVE  Signed(Wrap(n)) = n
<1> DEFINE m == 2^WordBits
           h == 2^(WordBits - 1)
           w == Wrap(n)
<1>1. m \in Nat \ {0} /\ h \in Nat \ {0} /\ m = 2 * h
  BY Halves
<1>2. n \in -h .. h - 1
  OBVIOUS
<1>3. Signed(w) = IF w < h THEN w ELSE w - m
  BY DEF Signed
<1>4. w = n % m
  BY DEF Wrap
<1> HIDE DEF m, h, w
<1>5. n \in Int /\ -m <= n /\ n < m
  BY <1>1, <1>2
<1>6. CASE n >= 0
  <2>1. w = n
    BY <1>1, <1>4, <1>5, <1>6
  <2> QED BY <1>1, <1>2, <1>3, <2>1 DEF w
<1>7. CASE n < 0
  <2>1. w = n + m
    BY <1>1, <1>4, <1>5, <1>7
  <2>2. ~(w < h) /\ w - m = n
    BY <1>1, <1>2, <2>1
  <2> QED BY <1>3, <2>2 DEF w
<1> QED BY <1>5, <1>6, <1>7

\* Wrapping an integer and reading the word as a number changes it by a
\* multiple of the number of words.
LEMMA WrapCongruent ==
    ASSUME NEW n \in Int
    PROVE  (Signed(Wrap(n)) - n) % 2^WordBits = 0
<1> DEFINE m == 2^WordBits
           w == Wrap(n)
           q == n \div m
<1>1. m \in Nat \ {0}
  BY Halves
<1>2. w \in Word
  BY WrapWord
<1>3. Signed(w) = w \/ Signed(w) = w - m
  BY <1>2, SignedRange
<1>4. q \in Int /\ w \in 0 .. m - 1 /\ n = m * q + w
  <2>1. w = n % m
    BY DEF Wrap
  <2> HIDE DEF m
  <2> QED BY <1>1, <2>1, DivisionWithRemainder
<1> HIDE DEF m, w, q
<1>5. CASE Signed(w) = w
  <2>1. -q \in Int /\ Signed(w) - n = m * (-q)
    BY <1>1, <1>4, <1>5
  <2> QED BY <1>1, <2>1, MultipleRemainder DEF m, w
<1>6. CASE Signed(w) = w - m
  <2>1. -q - 1 \in Int /\ Signed(w) - n = m * (-q - 1)
    BY <1>1, <1>4, <1>6
  <2> QED BY <1>1, <2>1, MultipleRemainder DEF m, w
<1> QED BY <1>3, <1>5, <1>6

\* The sum of two words and the sum of their values wrap to the same word.
LEMMA SumOfValues ==
    ASSUME NEW x \in Word, NEW y \in Word
    PROVE  Wrap(Signed(x) + Signed(y)) = Wrap(x + y)
<1> DEFINE m == 2^WordBits
<1>1. m \in Nat \ {0}
  BY Halves
<1>2. x \in Int /\ y \in Int
  BY <1>1 DEF Word
<1>3. /\ Signed(x) = x \/ Signed(x) = x - m
      /\ Signed(y) = y \/ Signed(y) = y - m
  BY SignedRange
<1>4. \A n : Wrap(n) = n % m
  BY DEF Wrap
<1> HIDE DEF m
<1>5. x + y \in Int /\ x + y - m \in Int
  BY <1>1, <1>2
<1>6. /\ (x + y - m) % m = (x + y) % m
      /\ (x + y - m - m) % m = (x + y - m) % m
  <2>1. ASSUME NEW n \in Int
        PROVE  (n - m) % m = n % m
    BY <1>1, RemainderShift
  <2> DEFINE s == x + y
             t == x + y - m
  <2>2. s \in Int /\ t \in Int
    BY <1>5
  <2>3. (s - m) % m = s % m /\ (t - m) % m = t % m
    <3> HIDE DEF s, t
    <3> QED BY <2>1, <2>2
  <2> QED BY <1>1, <1>2, <2>3
<1>7. \/ Signed(x) + Signed(y) = x + y
      \/ Signed(x) + Signed(y) = x + y - m
      \/ Signed(x) + Signed(y) = x + y - m - m
  BY <1>1, <1>2, <1>3
<1> QED BY <1>4, <1>6, <1>7

\* A quotient by a positive number is no longer than the dividend.
LEMMA QuotientRange ==
    ASSUME NEW h \in Nat \ {0}, NEW p \in Nat \ {0}, NEW n \in -h .. h - 1
    PROVE  n \div p \in -h .. h - 1
OBVIOUS

\* A number at least as great as half the number of words leaves only the sign.
LEMMA QuotientSign ==
    ASSUME NEW h \in Nat \ {0}, NEW p \in Nat \ {0}, p >= h, NEW n \in -h .. h - 1
    PROVE  n \div p = IF n < 0 THEN -1 ELSE 0
OBVIOUS

\* A quotient by a positive number is the sign alone exactly when the dividend
\* is that small.
LEMMA SignQuotient ==
    ASSUME NEW p \in Nat \ {0}, NEW n \in Int
    PROVE  (n \div p = IF n < 0 THEN -1 ELSE 0) <=> (-p <= n /\ n < p)
OBVIOUS

\* Products of a number with smaller ones are smaller.
LEMMA ProductRange ==
    ASSUME NEW p \in Nat \ {0}, NEW q \in Nat \ {0}, NEW r \in 0 .. q - 1
    PROVE  p * r \in 0 .. p * q - 1 /\ (p * r = 0 <=> r = 0)
<1>1. r + 1 <= q
  OBVIOUS
<1>2. p * (r + 1) <= p * q
  BY <1>1
<1>3. p * (r + 1) = p * r + p
  OBVIOUS
<1>4. p * r >= 0 /\ p * r \in Int /\ p * q \in Int
  OBVIOUS
<1>5. r > 0 => p * r > 0
  OBVIOUS
<1> QED BY <1>2, <1>3, <1>4, <1>5

\* A factor of the dividend and the divisor can be left out.
LEMMA CommonFactor ==
    ASSUME NEW p \in Nat \ {0}, NEW q \in Nat \ {0}, NEW n \in Int
    PROVE  (n * p) % (p * q) = 0 <=> n % q = 0
<1> DEFINE k == n \div q
           r == n % q
<1>1. k \in Int /\ r \in 0 .. q - 1 /\ n = q * k + r
  BY DivisionWithRemainder
<1> HIDE DEF k, r
<1>2. n * p = (p * q) * k + p * r
  BY <1>1
<1>3. p * r \in 0 .. p * q - 1 /\ (p * r = 0 <=> r = 0)
  BY <1>1, ProductRange
<1>4. p * q \in Nat \ {0}
  OBVIOUS
<1>5. (n * p) % (p * q) = p * r
  <2> DEFINE m == p * q
             t == p * r
             x == n * p
  <2>1. m \in Nat \ {0} /\ t \in 0 .. m - 1 /\ x = m * k + t
    BY <1>2, <1>3, <1>4
  <2> HIDE DEF m, t, x
  <2>2. (m * k + t) % m = t
    BY <1>1, <2>1, RemainderUnique
  <2>3. x % m = t
    BY <2>1, <2>2
  <2> QED BY <2>3 DEF m, t, x
<1> QED BY <1>3, <1>5 DEF r

-----------------------------------------------------------------------------
(* The state: an operation and two words.                                  *)

AluTypeOK == cmd \in {ADD, MULP2, DIVP2} /\ a \in Word /\ b \in Word

LEMMA AluTypeCorrect == Spec => []AluTypeOK
<1>1. Init => AluTypeOK
  BY Halves DEF Init, AluTypeOK, Word
<1>2. AluTypeOK /\ [Next]_vars => AluTypeOK'
  BY DEF AluTypeOK, Next, vars
<1> QED BY <1>1, <1>2, PTL DEF Spec

\* The count of HwCp's shifts is one the width has.
LEMMA ReducedCount ==
    ASSUME AluTypeOK
    PROVE  /\ b % WordBits \in 0 .. WordBits - 1
           /\ 2^(b % WordBits) \in Nat \ {0}
<1>1. b \in Nat
  BY Halves DEF AluTypeOK, Word
<1>2. b % WordBits \in 0 .. WordBits - 1
  BY <1>1, WordAssumption
<1>3. b % WordBits \in 0 .. WordBits
  BY <1>2, WordAssumption
<1> QED BY <1>2, <1>3, WordAssumption

\* A power the library lets through is no negative number and has a power of
\* two, which is that of its remainder below the width and a multiple of the
\* number of words otherwise.
LEMMA LegalCount ==
    ASSUME AluTypeOK, LegalPower, cmd # ADD
    PROVE  /\ b \in Nat /\ 2^b \in Nat \ {0}
           /\ b < WordBits => b % WordBits = b
           /\ b >= WordBits => \E k \in Nat \ {0} : 2^b = 2^WordBits * k
<1> DEFINE m == 2^WordBits
           h == 2^(WordBits - 1)
<1>1. m \in Nat \ {0} /\ h \in Nat \ {0} /\ m = 2 * h
  BY Halves
<1>2. b \in 0 .. m - 1
  BY DEF AluTypeOK, Word
<1>3. Signed(b) = (IF b < h THEN b ELSE b - m) /\ Signed(b) >= 0
  BY DEF Signed, LegalPower
<1>4. b \in 0 .. h - 1
  <2> HIDE DEF m, h
  <2> QED BY <1>1, <1>2, <1>3
<1>5. b \in Nat /\ 2^b \in Nat \ {0}
  <2>1. b \in Nat
    <3> HIDE DEF m, h
    <3> QED BY <1>1, <1>4
  <2> QED BY <1>4, <2>1, ExponentAssumption
<1>6. b < WordBits => b % WordBits = b
  BY <1>5, WordAssumption
<1>7. ASSUME b >= WordBits
      PROVE  \E k \in Nat \ {0} : 2^b = 2^WordBits * k
  <2> DEFINE n == b - WordBits
  <2>1. n \in 0 .. h - 1 /\ WordBits + n = b
    <3> HIDE DEF m, h
    <3> QED BY <1>1, <1>4, <1>7, WordAssumption
  <2>2. 2^n \in Nat \ {0} /\ 2^(WordBits + n) = 2^WordBits * 2^n
    <3> HIDE DEF n
    <3> QED BY <2>1, ExponentAssumption
  <2> QED BY <2>1, <2>2
<1> QED BY <1>5, <1>6, <1>7

\* Wrapping an exact result makes it one that the operations may return.
LEMMA WrapIsExact ==
    ASSUME AluTypeOK, NEW power, Exact(power) \in Int,
           cmd = DIVP2 => Exact(power) \in -(2^(WordBits - 1)) .. 2^(WordBits - 1) - 1
    PROVE  IsExact(Wrap(Exact(power)), power)
BY WrapWord, WrapCongruent, SignedOfWrap DEF IsExact

\* A quotient of a value by a positive number is a value of the width.
LEMMA ValueQuotient ==
    ASSUME AluTypeOK, NEW p \in Nat \ {0}
    PROVE  Signed(a) \div p \in -(2^(WordBits - 1)) .. 2^(WordBits - 1) - 1
<1>1. Signed(a) \in -(2^(WordBits - 1)) .. 2^(WordBits - 1) - 1
  BY SignedRange DEF AluTypeOK
<1> QED BY <1>1, Halves, QuotientRange

\* The exact results of a power that has a power of two.
LEMMA ExactValue ==
    ASSUME AluTypeOK, NEW power, cmd # ADD => 2^power \in Nat \ {0}
    PROVE  /\ Exact(power) \in Int
           /\ cmd = DIVP2 =>
                Exact(power) \in -(2^(WordBits - 1)) .. 2^(WordBits - 1) - 1
<1>1. Signed(a) \in Int /\ Signed(b) \in Int
  BY SignedInt DEF AluTypeOK
<1>2. CASE cmd = ADD
  BY <1>1, <1>2 DEF Exact, ADD, MULP2, DIVP2
<1>3. CASE cmd = MULP2
  <2> DEFINE p == 2^power
  <2>1. p \in Nat \ {0} /\ Exact(power) = Signed(a) * p
    BY <1>3 DEF Exact, ADD, MULP2, DIVP2
  <2>2. Signed(a) * p \in Int
    <3> HIDE DEF p
    <3> QED BY <1>1, <2>1
  <2> QED BY <1>3, <2>1, <2>2 DEF MULP2, DIVP2
<1>4. CASE cmd = DIVP2
  <2> DEFINE p == 2^power
  <2>1. p \in Nat \ {0} /\ Exact(power) = Signed(a) \div p
    BY <1>4 DEF Exact, ADD, MULP2, DIVP2
  <2>2. Signed(a) \div p \in Int
    <3> HIDE DEF p
    <3> QED BY <1>1, <2>1, DivisionWithRemainder
  <2> QED BY <2>1, <2>2, ValueQuotient
<1> QED BY <1>2, <1>3, <1>4 DEF AluTypeOK

\* HwCp wraps the exact result of the power modulo the width.
LEMMA AluWraps ==
    ASSUME AluTypeOK
    PROVE  Alu(cmd, a, b) = Wrap(Exact(b % WordBits))
BY DEF AluTypeOK, Alu, AddWords, ShiftLeft, ShiftRight, Exact, ADD, MULP2, DIVP2

\* What the RTL's shifts leave of a value when the power is at least the width.
LEMMA RtlBeyond ==
    ASSUME AluTypeOK, cmd # ADD, ~(b < WordBits)
    PROVE  /\ cmd = MULP2 => RtlAlu(cmd, a, b) = 0
           /\ cmd = DIVP2 => RtlAlu(cmd, a, b) = Wrap(IF Signed(a) < 0 THEN -1 ELSE 0)
BY DEF RtlAlu, RtlShiftLeft, RtlShiftRight, ADD, MULP2, DIVP2

\* The word 0 has the value 0.
LEMMA ZeroIsExact ==
    ASSUME AluTypeOK, cmd = MULP2, NEW power, NEW k \in Int,
           Exact(power) = 2^WordBits * k
    PROVE  IsExact(0, power)
<1> DEFINE m == 2^WordBits
<1>1. m \in Nat \ {0} /\ 2^(WordBits - 1) \in Nat \ {0}
  BY Halves
<1>2. 0 \in Word /\ Signed(0) = 0
  BY <1>1 DEF Word, Signed
<1>3. -k \in Int /\ (m * (-k)) % m = 0
  <2> HIDE DEF m
  <2>1. -k \in Int
    OBVIOUS
  <2> QED BY <1>1, <2>1, MultipleRemainder
<1>4. Signed(0) - Exact(power) = m * (-k)
  <2>1. Exact(power) = m * k
    OBVIOUS
  <2> HIDE DEF m
  <2> QED BY <1>1, <1>2, <2>1
<1> QED BY <1>2, <1>3, <1>4 DEF IsExact, MULP2, DIVP2

\* The RTL computes the operation on every power the library lets through.
LEMMA RtlIsExact ==
    ASSUME AluTypeOK, LegalPower
    PROVE  IsExact(RtlAlu(cmd, a, b), b)
<1>1. cmd # ADD => 2^b \in Nat \ {0}
  BY LegalCount
<1>2. /\ Exact(b) \in Int
      /\ cmd = DIVP2 => Exact(b) \in -(2^(WordBits - 1)) .. 2^(WordBits - 1) - 1
  BY <1>1, ExactValue
<1>3. IsExact(Wrap(Exact(b)), b)
  BY <1>2, WrapIsExact
<1>4. CASE cmd = ADD
  <2>1. RtlAlu(cmd, a, b) = Wrap(Exact(b))
    BY <1>4, SumOfValues DEF AluTypeOK, RtlAlu, Exact, ADD, MULP2, DIVP2
  <2> QED BY <1>3, <2>1
<1>5. CASE cmd # ADD /\ b < WordBits
  <2>1. RtlAlu(cmd, a, b) = Wrap(Exact(b))
    BY <1>5 DEF AluTypeOK, RtlAlu, RtlShiftLeft, RtlShiftRight, Exact, ADD, MULP2, DIVP2
  <2> QED BY <1>3, <2>1
<1>6. CASE cmd # ADD /\ ~(b < WordBits)
  <2>1. PICK k \in Nat \ {0} : 2^b = 2^WordBits * k
    BY <1>6, LegalCount, WordAssumption
  <2>2. Signed(a) \in -(2^(WordBits - 1)) .. 2^(WordBits - 1) - 1
    BY SignedRange DEF AluTypeOK
  <2> DEFINE m == 2^WordBits
             h == 2^(WordBits - 1)
             p == 2^b
             v == Signed(a)
  <2>3. /\ m \in Nat \ {0} /\ h \in Nat \ {0} /\ m = 2 * h
        /\ p = m * k /\ p \in Nat \ {0} /\ v \in -h .. h - 1
    BY <1>1, <1>6, <2>1, <2>2, Halves
  <2>4. CASE cmd = MULP2
    <3>1. Exact(b) = v * p
      BY <2>4 DEF Exact, ADD, MULP2, DIVP2
    <3>2. v * p = m * (k * v) /\ k * v \in Int
      <4> HIDE DEF m, h, p, v
      <4> QED BY <2>3
    <3>3. Exact(b) = 2^WordBits * (k * v)
      BY <3>1, <3>2
    <3>4. RtlAlu(cmd, a, b) = 0
      BY <1>6, <2>4, RtlBeyond
    <3> DEFINE j == k * v
    <3>5. j \in Int /\ Exact(b) = 2^WordBits * j
      BY <3>2, <3>3
    <3>6. IsExact(0, b)
      <4> HIDE DEF m, h, p, v, j
      <4> QED BY <2>4, <3>5, ZeroIsExact
    <3> QED BY <3>4, <3>6
  <2>5. CASE cmd = DIVP2
    <3>1. Exact(b) = v \div p
      BY <2>5 DEF Exact, ADD, MULP2, DIVP2
    <3>2. v \div p = IF v < 0 THEN -1 ELSE 0
      <4> HIDE DEF m, h, p, v
      <4>1. m <= m * k
        BY <2>3
      <4>2. p >= h
        BY <2>3, <4>1
      <4> QED BY <2>3, <4>2, QuotientSign
    <3>3. RtlAlu(cmd, a, b) = Wrap(Exact(b))
      BY <1>6, <2>5, <3>1, <3>2, RtlBeyond
    <3> QED BY <1>3, <3>3
  <2> QED BY <1>6, <2>4, <2>5 DEF AluTypeOK
<1> QED BY <1>4, <1>5, <1>6

\* For every width and every power the library lets through, the RTL's result
\* is the exact one modulo the number of words, and a quotient is exact, rounded
\* down; HwCp's is so for the power modulo the width (hw_cp.cpp:245-278,
\* command_processor.v:503-531).
THEOREM AluIsArithmeticAlways == Spec => []AluIsArithmetic
<1>1. AluTypeOK => AluIsArithmetic
  <2> SUFFICES ASSUME AluTypeOK, LegalPower
               PROVE  /\ IsExact(Alu(cmd, a, b), b % WordBits)
                      /\ IsExact(RtlAlu(cmd, a, b), b)
    BY DEF AluIsArithmetic
  <2> DEFINE n == b % WordBits
  <2>1. 2^n \in Nat \ {0} /\ Alu(cmd, a, b) = Wrap(Exact(n))
    BY ReducedCount, AluWraps
  <2>2. /\ Exact(n) \in Int
        /\ cmd = DIVP2 => Exact(n) \in -(2^(WordBits - 1)) .. 2^(WordBits - 1) - 1
    <3> HIDE DEF n
    <3> QED BY <2>1, ExactValue
  <2>3. IsExact(Alu(cmd, a, b), n)
    <3> HIDE DEF n
    <3> QED BY <2>1, <2>2, WrapIsExact
  <2> QED BY <2>3, RtlIsExact
<1> QED BY <1>1, AluTypeCorrect, PTL

\* A product wraps to 0 exactly when the factor of two and the trailing zeros of
\* the word make up the width.
LEMMA ProductSpent ==
    ASSUME AluTypeOK, NEW n \in 0 .. WordBits
    PROVE  Wrap(Signed(a) * 2^n) = 0 <=> a % 2^(WordBits - n) = 0
<1>1. WordBits - n \in 0 .. WordBits
  BY WordAssumption
<1> DEFINE m == 2^WordBits
           p == 2^n
           q == 2^(WordBits - n)
           v == Signed(a)
<1>2. p \in Nat \ {0} /\ q \in Nat \ {0} /\ m \in Nat \ {0} /\ m = p * q
  BY <1>1, WordAssumption, ExponentAssumption, Halves
<1>3. a \in 0 .. m - 1 /\ v \in Int /\ (v = a \/ v = a - m)
  BY SignedRange, SignedInt DEF AluTypeOK, Word
<1>4. Wrap(v * p) = (v * p) % m
  BY DEF Wrap
<1>5. (v * p) % m = 0 <=> v % q = 0
  <2> HIDE DEF m, p, q, v
  <2> QED BY <1>2, <1>3, CommonFactor
<1>6. v % q = a % q
  <2> HIDE DEF m, p, q, v
  <2>1. CASE v = a
    BY <2>1
  <2>2. CASE v = a - m
    <3> DEFINE k == a \div q
               r == a % q
    <3>1. k \in Int /\ r \in 0 .. q - 1 /\ a = q * k + r
      <4>1. a \in Int
        BY <1>2, <1>3
      <4> QED BY <1>2, <4>1, DivisionWithRemainder
    <3> HIDE DEF k, r
    <3>2. v = q * (k - p) + r /\ k - p \in Int
      BY <1>2, <2>2, <3>1
    <3>3. (q * (k - p) + r) % q = r
      <4> DEFINE j == k - p
      <4>1. j \in Int
        BY <3>2
      <4> HIDE DEF j
      <4>2. (q * j + r) % q = r
        BY <1>2, <3>1, <4>1, RemainderUnique
      <4> QED BY <4>2 DEF j
    <3> QED BY <3>2, <3>3 DEF r
  <2> QED BY <1>3, <2>1, <2>2
<1> QED BY <1>4, <1>5, <1>6

\* For every width, HwCp and the RTL agree on sums and on the powers below the
\* width, and part on every other power the library lets through unless the
\* operand is spent (command_processor.v:503-531, hw_cp.cpp:245-278).
THEOREM RtlAgreesAlways == Spec => []RtlAgrees
<1>1. AluTypeOK => RtlAgrees
  <2> SUFFICES ASSUME AluTypeOK, LegalPower
               PROVE  RtlAlu(cmd, a, b) = Alu(cmd, a, b)
                      <=> cmd = ADD \/ b < WordBits \/ SpentEitherWay
    BY DEF RtlAgrees
  <2> DEFINE n == b % WordBits
  <2>1. n \in 0 .. WordBits - 1 /\ n \in 0 .. WordBits /\ 2^n \in Nat \ {0}
    <3>1. n \in 0 .. WordBits - 1 /\ 2^n \in Nat \ {0}
      BY ReducedCount
    <3> HIDE DEF n
    <3> QED BY <3>1, WordAssumption
  <2>2. CASE cmd = ADD
    BY <2>2, SumOfValues DEF AluTypeOK, RtlAlu, Alu, AddWords, ADD, MULP2, DIVP2
  <2>3. CASE cmd # ADD /\ b < WordBits
    <3>1. n = b
      BY <2>3, LegalCount
    <3>2. RtlAlu(cmd, a, b) = Alu(cmd, a, b)
      BY <2>3, <3>1 DEF AluTypeOK, RtlAlu, Alu, RtlShiftLeft, RtlShiftRight,
                        ShiftLeft, ShiftRight, ADD, MULP2, DIVP2
    <3> QED BY <2>3, <3>2
  <2>4. CASE cmd = MULP2 /\ ~(b < WordBits)
    <3>1. RtlAlu(cmd, a, b) = 0
      BY <2>4, RtlBeyond DEF ADD, MULP2
    <3>2. Alu(cmd, a, b) = Wrap(Signed(a) * 2^n)
      BY <2>4 DEF Alu, ShiftLeft, ADD, MULP2, DIVP2
    <3>3. Wrap(Signed(a) * 2^n) = 0 <=> a % 2^(WordBits - n) = 0
      <4> HIDE DEF n
      <4> QED BY <2>1, ProductSpent
    <3>4. SpentEitherWay <=> a % 2^(WordBits - n) = 0
      BY <2>4 DEF SpentEitherWay, MULP2, DIVP2
    <3> QED BY <2>4, <3>1, <3>2, <3>3, <3>4 DEF ADD, MULP2
  <2>5. CASE cmd = DIVP2 /\ ~(b < WordBits)
    <3> DEFINE h == 2^(WordBits - 1)
               v == Signed(a)
               p == 2^n
               sign == IF v < 0 THEN -1 ELSE 0
    <3>1. RtlAlu(cmd, a, b) = Wrap(sign)
      BY <2>5, RtlBeyond DEF ADD, DIVP2
    <3>2. Alu(cmd, a, b) = Wrap(v \div p)
      BY <2>5 DEF Alu, ShiftRight, ADD, MULP2, DIVP2
    <3>3. v \div p \in -h .. h - 1
      <4> HIDE DEF n
      <4> QED BY <2>1, ValueQuotient
    <3>4. sign \in -h .. h - 1
      <4>1. h \in Nat \ {0}
        BY Halves
      <4> HIDE DEF h, v
      <4> QED BY <4>1
    <3>5. Signed(Wrap(sign)) = sign /\ Signed(Wrap(v \div p)) = v \div p
      <4> HIDE DEF v, p, sign
      <4> QED BY <3>3, <3>4, SignedOfWrap
    <3>6. Wrap(sign) = Wrap(v \div p) <=> sign = v \div p
      BY <3>5
    <3>7. v \div p = sign <=> (-p <= v /\ v < p)
      <4>1. v \in Int /\ p \in Nat \ {0}
        BY <2>1, SignedInt DEF AluTypeOK
      <4> HIDE DEF v, p
      <4> QED BY <4>1, SignQuotient
    <3>8. SpentEitherWay <=> (-p <= v /\ v < p)
      BY <2>5 DEF SpentEitherWay, MULP2, DIVP2
    <3>9. RtlAlu(cmd, a, b) = Alu(cmd, a, b) <=> SpentEitherWay
      BY <3>1, <3>2, <3>6, <3>7, <3>8
    <3> QED BY <2>5, <3>9 DEF ADD, DIVP2
  <2> QED BY <2>2, <2>3, <2>4, <2>5 DEF AluTypeOK
<1> QED BY <1>1, AluTypeCorrect, PTL
=============================================================================
