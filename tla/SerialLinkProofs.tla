--------------------------- MODULE SerialLinkProofs ---------------------------
(***************************************************************************)
(* Proof that Turns is an invariant of the serial system, and what follows *)
(* from it: types, the bound of the ring, framing, and that a packet keeps *)
(* still while it is sent.                                                 *)
(***************************************************************************)
EXTENDS SerialInvariant, AluProofs, SequenceTheorems

-----------------------------------------------------------------------------
(* Packets and their bytes.                                                *)

\* Bytes of a body are numbers below this one.
Base == 2^(WordBits \div 4)

\* The powers that the layout of a body uses.
LEMMA Bases ==
    /\ Base \in 1 .. 256
    /\ 2^((1 - 1) * (WordBits \div 4)) = 1
    /\ 2^((2 - 1) * (WordBits \div 4)) = Base
    /\ 2^((3 - 1) * (WordBits \div 4)) = Base * Base
    /\ 2^((4 - 1) * (WordBits \div 4)) = Base * Base * Base
    /\ 2^WordBits = Base * Base * Base * Base
<1> DEFINE b == WordBits \div 4
<1>0. b \in Nat /\ b \in 0 .. WordBits
  BY WordAssumption
<1>1. 2^b \in Nat \ {0}
  BY <1>0, WordAssumption
<1>2. /\ 2^b - 1 \in 0 .. 255
      /\ \A n \in 0 .. 3 : 2^(n * b + b) = 2^(n * b) * 2^b
      /\ 2^WordBits = 2^(3 * b + b)
  BY ByteAssumption DEF Byte
<1> HIDE DEF b
<1>3. /\ 0 * b = 0 /\ 0 * b + b = b /\ 1 * b = b /\ 1 * b + b = 2 * b /\ 2 * b + b = 3 * b
      /\ (1 - 1) * b = 0 /\ (2 - 1) * b = b /\ (3 - 1) * b = 2 * b /\ (4 - 1) * b = 3 * b
  BY <1>0
<1>4. 2^(2 * b) = 2^b * 2^b
  <2>1. 2^(1 * b + b) = 2^(1 * b) * 2^b
    BY <1>2
  <2> QED BY <1>3, <2>1
<1>5. 2^(3 * b) = 2^(2 * b) * 2^b
  <2>1. 2^(2 * b + b) = 2^(2 * b) * 2^b
    BY <1>2
  <2> QED BY <1>3, <2>1
<1>6. 2^WordBits = 2^(3 * b) * 2^b
  BY <1>2
<1>7. 2^0 = 1
  OBVIOUS
<1>8. Base = 2^b
  BY DEF Base, b
<1>9. 2^((1 - 1) * b) = 1 /\ 2^((2 - 1) * b) = Base /\ 2^((3 - 1) * b) = Base * Base
      /\ 2^((4 - 1) * b) = Base * Base * Base /\ 2^WordBits = Base * Base * Base * Base
  BY <1>3, <1>4, <1>5, <1>6, <1>7, <1>8
<1>10. Base \in 1 .. 256
  BY <1>1, <1>2, <1>8
<1> QED BY <1>9, <1>10 DEF b

LEMMA DivideTwice ==
    ASSUME NEW q \in Nat \ {0}, NEW w \in Nat
    PROVE  (w \div q) \div q = w \div (q * q)
OBVIOUS

LEMMA Remainder ==
    ASSUME NEW q \in Nat \ {0}, NEW w \in Nat
    PROVE  /\ w \div q \in Nat /\ w % q \in 0 .. q - 1
           /\ w = q * (w \div q) + (w % q)
OBVIOUS

\* w is put together from its four digits to the base q.
FourDigits(w, q) ==
    LET d0 == w % q
        d1 == (w \div q) % q
        d2 == (w \div (q * q)) % q
        d3 == (w \div (q * q * q)) % q
    IN  /\ {d0, d1, d2, d3} \subseteq 0 .. q - 1
        /\ w = d0 + d1 * q + d2 * (q * q) + d3 * (q * q * q)

\* A number below q^4 has four digits.
LEMMA Digits ==
    ASSUME NEW q \in Nat \ {0}, NEW w \in 0 .. q * q * q * q - 1
    PROVE  FourDigits(w, q)
<1> DEFINE w1 == w \div q
           w2 == w1 \div q
           w3 == w2 \div q
<1>0. w \in Nat /\ q * q \in Nat \ {0} /\ q * q * q \in Nat \ {0}
  OBVIOUS
<1>1. w1 \in Nat /\ w % q \in 0 .. q - 1 /\ w = q * w1 + (w % q)
  BY Remainder, <1>0
<1>2. w2 \in Nat /\ w1 % q \in 0 .. q - 1 /\ w1 = q * w2 + (w1 % q)
  <2> HIDE DEF w1
  <2> QED BY Remainder, <1>1
<1>3. w3 \in Nat /\ w2 % q \in 0 .. q - 1 /\ w2 = q * w3 + (w2 % q)
  <2> HIDE DEF w2
  <2> QED BY Remainder, <1>2
<1>4. w2 = w \div (q * q)
  BY DivideTwice, <1>0
<1>5. w3 = w \div (q * q * q)
  OBVIOUS
<1> DEFINE d0 == w % q
           d1 == w1 % q
           d2 == w2 % q
<1>6. w3 < q
  <2> HIDE DEF w1, w2, w3, d0, d1, d2
  <2> QED BY <1>1, <1>2, <1>3
<1>7. w3 % q = w3
  <2> HIDE DEF w3
  <2> QED BY <1>3, <1>6
<1>8. w = d0 + d1 * q + d2 * (q * q) + w3 * (q * q * q)
  <2>1. /\ w1 \in Int /\ w2 \in Int /\ w3 \in Int /\ d0 \in Int /\ d1 \in Int /\ d2 \in Int
        /\ w = q * w1 + d0 /\ w1 = q * w2 + d1 /\ w2 = q * w3 + d2
    BY <1>1, <1>2, <1>3
  <2> HIDE DEF w1, w2, w3, d0, d1, d2
  <2>2. w = q * (q * (q * w3 + d2) + d1) + d0
    BY <2>1
  <2>3. q * (q * (q * w3 + d2) + d1) = (q * q * q) * w3 + (q * q) * d2 + q * d1
    BY <2>1
  <2> QED BY <2>1, <2>2, <2>3
<1>9. /\ d1 = (w \div q) % q /\ d2 = (w \div (q * q)) % q /\ w3 = (w \div (q * q * q)) % q
  BY <1>4, <1>5, <1>7
<1>10. d0 \in 0 .. q - 1 /\ d1 \in 0 .. q - 1 /\ d2 \in 0 .. q - 1 /\ w3 \in 0 .. q - 1
  <2> HIDE DEF w3
  <2> QED BY <1>1, <1>2, <1>3, <1>6
<1> HIDE DEF w1, w2, w3, d1, d2
<1> QED BY <1>8, <1>9, <1>10 DEF FourDigits

\* The body survives the line: its four bytes make it up again.
LEMMA BodyBytes ==
    ASSUME NEW w \in Word
    PROVE  /\ \A n \in 1 .. 4 : BodyByte(w, n) \in 0 .. Base - 1
           /\ w = BodyByte(w, 1) * 2^((1 - 1) * (WordBits \div 4))
                  + BodyByte(w, 2) * 2^((2 - 1) * (WordBits \div 4))
                  + BodyByte(w, 3) * 2^((3 - 1) * (WordBits \div 4))
                  + BodyByte(w, 4) * 2^((4 - 1) * (WordBits \div 4))
<1> DEFINE q == Base
<1>1. /\ q \in Nat \ {0}
      /\ 2^((1 - 1) * (WordBits \div 4)) = 1
      /\ 2^((2 - 1) * (WordBits \div 4)) = q
      /\ 2^((3 - 1) * (WordBits \div 4)) = q * q
      /\ 2^((4 - 1) * (WordBits \div 4)) = q * q * q
      /\ 2^WordBits = q * q * q * q
  BY Bases
<1>2. w \in 0 .. q * q * q * q - 1
  BY <1>1 DEF Word
<1>3. /\ BodyByte(w, 1) = (w \div 1) % q
      /\ BodyByte(w, 2) = (w \div q) % q
      /\ BodyByte(w, 3) = (w \div (q * q)) % q
      /\ BodyByte(w, 4) = (w \div (q * q * q)) % q
  BY <1>1 DEF BodyByte, Base
<1> HIDE DEF q
<1>4. w \div 1 = w
  BY <1>1, <1>2
<1>5. BodyByte(w, 1) = w % q
  BY <1>3, <1>4
<1>6. /\ BodyByte(w, 1) \in 0 .. q - 1 /\ BodyByte(w, 2) \in 0 .. q - 1
      /\ BodyByte(w, 3) \in 0 .. q - 1 /\ BodyByte(w, 4) \in 0 .. q - 1
      /\ w = BodyByte(w, 1) + BodyByte(w, 2) * q + BodyByte(w, 3) * (q * q)
             + BodyByte(w, 4) * (q * q * q)
  <2> DEFINE d1 == w % q
             d2 == (w \div q) % q
             d3 == (w \div (q * q)) % q
             d4 == (w \div (q * q * q)) % q
  <2>1. /\ d1 \in 0 .. q - 1 /\ d2 \in 0 .. q - 1 /\ d3 \in 0 .. q - 1 /\ d4 \in 0 .. q - 1
        /\ w = d1 + d2 * q + d3 * (q * q) + d4 * (q * q * q)
    <3>1. FourDigits(w, q)
      BY <1>1, <1>2, Digits
    <3> QED BY <3>1 DEF FourDigits
  <2>2. /\ BodyByte(w, 1) = d1 /\ BodyByte(w, 2) = d2
        /\ BodyByte(w, 3) = d3 /\ BodyByte(w, 4) = d4
    BY <1>3, <1>5
  <2> HIDE DEF d1, d2, d3, d4
  <2> QED BY <2>1, <2>2
<1>7. BodyByte(w, 1) * 1 = BodyByte(w, 1)
  BY <1>6
<1>8. \A n \in 1 .. 4 : BodyByte(w, n) \in 0 .. q - 1
  <2> TAKE n \in 1 .. 4
  <2>1. n = 1 \/ n = 2 \/ n = 3 \/ n = 4
    OBVIOUS
  <2> QED BY <1>6, <2>1
<1> QED BY <1>1, <1>6, <1>7, <1>8 DEF q

\* The six bytes of a packet.
LEMMA PacketSix ==
    ASSUME NEW p \in Packet
    PROVE  /\ Flatten(p) \in Seq(Byte) /\ Len(Flatten(p)) = 6
           /\ Flatten(p) \in [1 .. 6 -> Byte]
           /\ Flatten(p)[1] = p.id + 16 * p.type
           /\ Flatten(p)[2] = p.cmd + 16 * p.sub_cmd
           /\ \A n \in 1 .. 4 : Flatten(p)[n + 2] = BodyByte(p.body, n)
<1> DEFINE h == <<p.id + 16 * p.type, p.cmd + 16 * p.sub_cmd>>
           t == [n \in 1 .. 4 |-> BodyByte(p.body, n)]
<1>1. /\ p.id \in 0 .. 15 /\ p.type \in {0, 1} /\ p.cmd \in 0 .. 4 /\ p.sub_cmd \in 0 .. 15
      /\ p.body \in Word
  BY DEF Packet, Nibble, REQUEST, RESPONSE, MEMORY, HANDSHAKE, ADD, MULP2, DIVP2,
         OP_1, OP_2, OP_3, DEBUG
<1>2. /\ p.id + 16 * p.type \in Byte /\ p.cmd + 16 * p.sub_cmd \in Byte
  BY <1>1 DEF Byte
<1>3. \A n \in 1 .. 4 : BodyByte(p.body, n) \in Byte
  <2>1. \A n \in 1 .. 4 : BodyByte(p.body, n) \in 0 .. Base - 1
    BY <1>1, BodyBytes
  <2>2. Base \in 1 .. 256
    BY Bases
  <2> QED BY <2>1, <2>2 DEF Byte
<1>4. h \in Seq(Byte) /\ Len(h) = 2 /\ h[1] = p.id + 16 * p.type
      /\ h[2] = p.cmd + 16 * p.sub_cmd
  BY <1>2
<1>5. t \in Seq(Byte) /\ Len(t) = 4 /\ \A n \in 1 .. 4 : t[n] = BodyByte(p.body, n)
  BY <1>3
<1>6. Flatten(p) = h \o t
  BY DEF Flatten
<1> HIDE DEF h, t
<1>7. /\ h \o t \in Seq(Byte) /\ Len(h \o t) = 6
      /\ \A i \in 1 .. 6 : (h \o t)[i] = IF i <= 2 THEN h[i] ELSE t[i - 2]
  <2>1. /\ h \o t \in Seq(Byte) /\ Len(h \o t) = Len(h) + Len(t)
        /\ \A i \in 1 .. Len(h) + Len(t) : (h \o t)[i] = IF i <= Len(h) THEN h[i] ELSE t[i - Len(h)]
    BY <1>4, <1>5, ConcatProperties, Zenon
  <2> QED BY <2>1, <1>4, <1>5
<1>8. (h \o t)[1] = h[1] /\ (h \o t)[2] = h[2] /\ \A n \in 1 .. 4 : (h \o t)[n + 2] = t[n]
  BY <1>7
<1>9. h \o t \in [1 .. 6 -> Byte]
  BY <1>7, LenProperties
<1> QED BY <1>4, <1>5, <1>6, <1>7, <1>8, <1>9

\* A packet is made of six bytes and of nothing else.
LEMMA SixBytes ==
    ASSUME NEW f, NEW g, \A i \in 1 .. 6 : f[i] = g[i]
    PROVE  Unflatten(f) = Unflatten(g)
<1>1. f[1] = g[1] /\ f[2] = g[2] /\ f[1 + 2] = g[1 + 2] /\ f[2 + 2] = g[2 + 2]
      /\ f[3 + 2] = g[3 + 2] /\ f[4 + 2] = g[4 + 2]
  OBVIOUS
<1>2. Body(f) = Body(g)
  BY <1>1 DEF Body
<1> QED BY <1>1, <1>2 DEF Unflatten

\* What comes off the line is what was put on it.
LEMMA RoundTrip ==
    ASSUME NEW p \in Packet
    PROVE  Unflatten(Flatten(p)) = p
<1> DEFINE f == Flatten(p)
<1>1. /\ p.id \in 0 .. 15 /\ p.type \in {0, 1} /\ p.cmd \in 0 .. 4 /\ p.sub_cmd \in 0 .. 15
      /\ p.body \in Word
      /\ p = [id |-> p.id, type |-> p.type, cmd |-> p.cmd, sub_cmd |-> p.sub_cmd, body |-> p.body]
  BY DEF Packet, Nibble, REQUEST, RESPONSE, MEMORY, HANDSHAKE, ADD, MULP2, DIVP2,
         OP_1, OP_2, OP_3, DEBUG
<1>2. /\ f[1] = p.id + 16 * p.type
      /\ f[2] = p.cmd + 16 * p.sub_cmd
      /\ \A n \in 1 .. 4 : f[n + 2] = BodyByte(p.body, n)
  BY PacketSix
<1>3. Body(f) = p.body
  <2>1. f[1 + 2] = BodyByte(p.body, 1) /\ f[2 + 2] = BodyByte(p.body, 2)
        /\ f[3 + 2] = BodyByte(p.body, 3) /\ f[4 + 2] = BodyByte(p.body, 4)
    BY <1>2
  <2> HIDE DEF f
  <2> QED BY <1>1, <2>1, BodyBytes DEF Body
<1> HIDE DEF f
<1>4. /\ f[1] % 16 = p.id /\ f[1] \div 16 = p.type
      /\ f[2] % 16 = p.cmd /\ f[2] \div 16 = p.sub_cmd
  BY <1>1, <1>2
<1>5. Unflatten(f) = p
  BY <1>1, <1>3, <1>4 DEF Unflatten, Payload, LowNibble, HighNibble
<1> QED BY <1>5 DEF f

-----------------------------------------------------------------------------
(* The ring.                                                               *)

LEMMA Mod ==
    ASSUME NEW R \in Nat \ {0}, NEW n \in Int
    PROVE  n % R \in 0 .. R - 1
OBVIOUS

LEMMA ModSmall ==
    ASSUME NEW R \in Nat \ {0}, NEW n \in 0 .. R - 1
    PROVE  n % R = n
OBVIOUS

LEMMA ModUnique ==
    ASSUME NEW R \in Nat \ {0}, NEW x \in Nat, NEW q \in Nat, NEW r \in 0 .. R - 1,
           x = R * q + r
    PROVE  x % R = r
<1> DEFINE v == x \div R
           t == x % R
<1>1. x = R * v + t /\ v \in Nat /\ t \in 0 .. R - 1
  BY Remainder
<1> HIDE DEF v, t
<1>2. t - r = R * (q - v)
  BY <1>1
<1>3. CASE q - v >= 1
  <2>1. R * (q - v) >= R
    BY <1>1, <1>3
  <2> QED BY <1>1, <1>2, <2>1
<1>4. CASE v - q >= 1
  <2>1. R * (v - q) >= R
    BY <1>1, <1>4
  <2>2. R * (q - v) = -(R * (v - q))
    BY <1>1
  <2> QED BY <1>1, <1>2, <2>1, <2>2
<1>5. CASE q = v
  BY <1>1, <1>5 DEF t
<1> QED BY <1>1, <1>3, <1>4, <1>5

LEMMA ModMultiple ==
    ASSUME NEW R \in Nat \ {0}, NEW C \in Nat, C % R = 0, NEW n \in Nat
    PROVE  (C + n) % R = n % R
<1>1. PICK m \in Nat : C = R * m
  <2>1. C = R * (C \div R) + (C % R) /\ C \div R \in Nat
    BY Remainder
  <2> QED BY <2>1
<1> DEFINE q == n \div R
           r == n % R
<1>2. n = R * q + r /\ q \in Nat /\ r \in 0 .. R - 1
  BY Remainder
<1> HIDE DEF q, r
<1>3. R * m + n = R * (m + q) + r /\ R * m + n \in Nat /\ m + q \in Nat
  BY <1>1, <1>2
<1>4. (R * m + n) % R = r
  BY <1>2, <1>3, ModUnique
<1> QED BY <1>1, <1>4 DEF r

LEMMA ModDistinct ==
    ASSUME NEW R \in Nat \ {0}, NEW a \in Nat, NEW j \in Nat, NEW k \in Nat,
           j < k, k < R
    PROVE  (a + j) % R # (a + k) % R
<1>1. a + j = R * ((a + j) \div R) + ((a + j) % R) /\ (a + j) \div R \in Nat
  BY Remainder
<1>2. a + k = R * ((a + k) \div R) + ((a + k) % R) /\ (a + k) \div R \in Nat
  BY Remainder
<1> DEFINE u == (a + j) \div R
           v == (a + k) \div R
           r == (a + j) % R
           t == (a + k) % R
<1>3. a + j = R * u + r /\ a + k = R * v + t /\ u \in Nat /\ v \in Nat /\ r \in Int /\ t \in Int
  BY <1>1, <1>2
<1> HIDE DEF u, v, r, t
<1>4. SUFFICES ASSUME r = t PROVE FALSE
  BY DEF r, t
<1>5. k - j = R * (v - u)
  BY <1>3, <1>4
<1>6. CASE v <= u
  <2>1. R * (v - u) <= 0
    BY <1>3, <1>6
  <2> QED BY <1>5, <2>1
<1>7. CASE v - u >= 1
  <2>1. R * (v - u) >= R
    BY <1>3, <1>7
  <2> QED BY <1>5, <2>1
<1> QED BY <1>3, <1>6, <1>7
LEMMA ModNear ==
    ASSUME NEW C \in Nat \ {0}, NEW x \in Int
    PROVE  /\ x \in 0 .. C - 1 => x % C = x
           /\ x = C => x % C = 0
           /\ x \in -C .. -1 => x % C = x + C
OBVIOUS

\* The distance of two counters that wrap.
LEMMA Distance ==
    ASSUME NEW C \in Nat \ {0}, NEW hi \in 0 .. C - 1, NEW lo \in 0 .. C - 1
    PROVE  /\ (hi - lo) % C = IF hi >= lo THEN hi - lo ELSE hi - lo + C
           /\ (hi - lo) % C \in 0 .. C - 1
           /\ (hi + 1) % C = IF hi + 1 = C THEN 0 ELSE hi + 1
           /\ (hi + 1) % C \in 0 .. C - 1
<1>1. /\ hi - lo \in Int /\ hi + 1 \in Int
      /\ hi >= lo => hi - lo \in 0 .. C - 1
      /\ hi < lo => hi - lo \in -C .. -1
      /\ hi + 1 = C \/ hi + 1 \in 0 .. C - 1
  OBVIOUS
<1>2. /\ hi - lo \in 0 .. C - 1 => (hi - lo) % C = hi - lo
      /\ hi - lo \in -C .. -1 => (hi - lo) % C = hi - lo + C
  BY <1>1, ModNear, Zenon
<1>3. /\ hi + 1 \in 0 .. C - 1 => (hi + 1) % C = hi + 1
      /\ hi + 1 = C => (hi + 1) % C = 0
  BY <1>1, ModNear, Zenon
<1> DEFINE d == (hi - lo) % C
           h == (hi + 1) % C
<1> HIDE DEF d, h
<1>4. d = IF hi >= lo THEN hi - lo ELSE hi - lo + C
  BY <1>1, <1>2 DEF d
<1>5. h = IF hi + 1 = C THEN 0 ELSE hi + 1
  BY <1>1, <1>3 DEF h
<1>6. d \in 0 .. C - 1 /\ h \in 0 .. C - 1
  BY <1>4, <1>5
<1> QED BY <1>4, <1>5, <1>6 DEF d, h

LEMMA DistanceDown ==
    ASSUME NEW C \in Nat \ {0}, NEW hi \in 0 .. C - 1, NEW lo \in 0 .. C - 1, hi # lo
    PROVE  (hi - ((lo + 1) % C)) % C = ((hi - lo) % C) - 1
<1>1. (lo + 1) % C = IF lo + 1 = C THEN 0 ELSE lo + 1
  BY Distance
<1>2. (lo + 1) % C \in 0 .. C - 1
  BY Distance
<1> DEFINE l == (lo + 1) % C
<1>3. (hi - l) % C = IF hi >= l THEN hi - l ELSE hi - l + C
  BY <1>2, Distance
<1>4. (hi - lo) % C = IF hi >= lo THEN hi - lo ELSE hi - lo + C
  BY Distance
<1> HIDE DEF l
<1>5. l = IF lo + 1 = C THEN 0 ELSE lo + 1
  BY <1>1 DEF l
<1>6. (hi - l) % C = ((hi - lo) % C) - 1
  BY <1>3, <1>4, <1>5
<1> QED BY <1>6 DEF l

LEMMA DistanceUp ==
    ASSUME NEW C \in Nat \ {0}, NEW hi \in 0 .. C - 1, NEW lo \in 0 .. C - 1,
           (hi - lo) % C < C - 1
    PROVE  (((hi + 1) % C) - lo) % C = ((hi - lo) % C) + 1
<1>1. (hi + 1) % C = IF hi + 1 = C THEN 0 ELSE hi + 1
  BY Distance
<1>2. (hi + 1) % C \in 0 .. C - 1
  BY Distance
<1> DEFINE h == (hi + 1) % C
<1>3. (h - lo) % C = IF h >= lo THEN h - lo ELSE h - lo + C
  BY <1>2, Distance
<1>4. (hi - lo) % C = IF hi >= lo THEN hi - lo ELSE hi - lo + C
  BY Distance
<1> HIDE DEF h
<1>5. h = IF hi + 1 = C THEN 0 ELSE hi + 1
  BY <1>1 DEF h
<1>6. (h - lo) % C = ((hi - lo) % C) + 1
  BY <1>3, <1>4, <1>5
<1> QED BY <1>6 DEF h

-----------------------------------------------------------------------------
(* Bytes into the ring and out of it.                                      *)

LEMMA AppendIs ==
    ASSUME NEW S, NEW s \in Seq(S), NEW b \in S
    PROVE  Append(s, b) = [i \in 1 .. Len(s) + 1 |-> IF i = Len(s) + 1 THEN b ELSE s[i]]
<1>1. /\ Append(s, b) \in Seq(S) /\ Len(s) \in Nat /\ Len(Append(s, b)) = Len(s) + 1
      /\ Append(s, b)[Len(s) + 1] = b
      /\ \A i \in 1 .. Len(s) : Append(s, b)[i] = s[i]
  BY AppendProperties, LenProperties
<1>2. Append(s, b) \in [1 .. Len(s) + 1 -> S]
  BY <1>1, LenProperties
<1> DEFINE t == Append(s, b)
           n == Len(s) + 1
<1>3. ASSUME NEW i \in 1 .. n PROVE t[i] = IF i = n THEN b ELSE s[i]
  <2> HIDE DEF t
  <2>1. t[Len(s) + 1] = b /\ (\A j \in 1 .. Len(s) : t[j] = s[j]) /\ Len(s) \in Nat
    BY <1>1 DEF t
  <2>2. i # n => i \in 1 .. Len(s)
    BY <2>1
  <2> QED BY <2>1, <2>2
<1>4. t = [i \in 1 .. n |-> t[i]]
  BY <1>2
<1> HIDE DEF t, n
<1>5. t = [i \in 1 .. n |-> IF i = n THEN b ELSE s[i]]
  BY <1>3, <1>4
<1> QED BY <1>5 DEF t, n

LEMMA TailIs ==
    ASSUME NEW S, NEW s \in Seq(S), s # <<>>
    PROVE  Tail(s) = [i \in 1 .. Len(s) - 1 |-> s[i + 1]]
<1>1. /\ Len(s) \in Nat /\ Len(Tail(s)) = Len(s) - 1
      /\ Tail(s) \in [1 .. Len(s) - 1 -> S]
      /\ \A i \in 1 .. Len(s) - 1 : Tail(s)[i] = s[i + 1]
  BY HeadTailProperties, LenProperties
<1> QED BY <1>1

LEMMA RingShape ==
    ASSUME RingTypeOK
    PROVE  /\ InRing \in Nat /\ Ring \in Seq(Byte) /\ Len(Ring) = InRing
           /\ \A i \in 1 .. InRing :
                  Ring[i] = read_buffer[(read_buffer_ptr_lo + (i - 1)) % RingSize]
<1> DEFINE R == RingSize
           C == CounterSize
           hi == read_buffer_ptr_hi
           lo == read_buffer_ptr_lo
           d == (hi - lo) % C
<1>1. /\ C \in Nat \ {0} /\ R \in Nat \ {0} /\ hi \in 0 .. C - 1 /\ lo \in 0 .. C - 1
      /\ read_buffer \in [0 .. R - 1 -> Byte]
  BY RingAssumption DEF RingTypeOK
<1>2. d \in 0 .. C - 1
  BY <1>1, Distance, Zenon
<1>3. InRing = d + (IF listen_stored THEN 1 ELSE 0)
  BY DEF InRing
<1> HIDE DEF d
<1>4. InRing \in Nat
  BY <1>1, <1>2, <1>3
<1>5. ASSUME NEW i \in 1 .. InRing PROVE read_buffer[(lo + (i - 1)) % R] \in Byte
  <2>1. lo + (i - 1) \in Int
    BY <1>1, <1>4
  <2>2. (lo + (i - 1)) % R \in 0 .. R - 1
    BY <1>1, <2>1, Mod, Zenon
  <2> QED BY <1>1, <2>2
<1>6. Ring \in [1 .. InRing -> Byte]
  BY <1>5 DEF Ring
<1> QED BY <1>4, <1>6 DEF Ring

\* The byte whose turn it is, if the counters differ, is the first in the ring.
LEMMA FirstInRing ==
    ASSUME RingTypeOK, read_buffer_ptr_hi # read_buffer_ptr_lo
    PROVE  InRing \in Nat \ {0} /\ Ring # <<>> /\ NextByte = Head(Ring)
<1> DEFINE C == CounterSize
           hi == read_buffer_ptr_hi
           lo == read_buffer_ptr_lo
           d == (hi - lo) % C
<1>1. C \in Nat \ {0} /\ hi \in 0 .. C - 1 /\ lo \in 0 .. C - 1 /\ hi # lo
  BY RingAssumption DEF RingTypeOK
<1>2. d \in 0 .. C - 1 /\ d # 0
  BY <1>1, Distance
<1>3. InRing = d + (IF listen_stored THEN 1 ELSE 0)
  BY DEF InRing
<1> HIDE DEF d
<1>4. InRing \in Nat \ {0}
  BY <1>1, <1>2, <1>3
<1>5. /\ Ring \in Seq(Byte) /\ Len(Ring) = InRing /\ Ring # <<>>
      /\ \A i \in 1 .. InRing : Ring[i] = read_buffer[(lo + (i - 1)) % RingSize]
  BY <1>4, RingShape
<1>6. NextByte = Head(Ring)
  <2>1. lo + (1 - 1) = lo /\ 1 \in 1 .. InRing
    BY <1>1, <1>4
  <2>2. Ring[1] = read_buffer[(lo + (1 - 1)) % RingSize]
    BY <1>5, <2>1
  <2> QED BY <1>1, <1>5, <2>1, <2>2 DEF NextByte
<1> QED BY <1>4, <1>5, <1>6

\* Taking a byte moves the others one closer.
LEMMA Take ==
    ASSUME RingTypeOK, TakeByte
    PROVE  /\ RingTypeOK' /\ Ring # <<>> /\ NextByte = Head(Ring) /\ Ring' = Tail(Ring)
           /\ InRing' = InRing - 1
<1> DEFINE R == RingSize
           C == CounterSize
           hi == read_buffer_ptr_hi
           lo == read_buffer_ptr_lo
<1>1. /\ R \in Nat \ {0} /\ C \in Nat \ {0} /\ C % R = 0
      /\ hi \in 0 .. C - 1 /\ lo \in 0 .. C - 1 /\ hi # lo
      /\ lo' = (lo + 1) % C /\ hi' = hi /\ read_buffer' = read_buffer
      /\ listen_stored' = listen_stored /\ listen_stored \in BOOLEAN
      /\ read_buffer \in [0 .. R - 1 -> Byte]
  BY RingAssumption DEF RingTypeOK, TakeByte
<1>2. (hi - ((lo + 1) % C)) % C = ((hi - lo) % C) - 1
  BY <1>1, DistanceDown
<1>3. (hi - lo) % C \in 0 .. C - 1 /\ (hi - lo) % C # 0
  BY <1>1, Distance
<1>4. (lo + 1) % C = IF lo + 1 = C THEN 0 ELSE lo + 1
  BY <1>1, Distance
<1>5. InRing \in Nat \ {0} /\ InRing' = InRing - 1
  <2> DEFINE d == (hi - lo) % C
  <2>1. InRing = d + (IF listen_stored THEN 1 ELSE 0)
    BY DEF InRing
  <2>2. InRing' = (d - 1) + (IF listen_stored THEN 1 ELSE 0)
    BY <1>1, <1>2 DEF InRing
  <2>3. d \in Nat \ {0}
    BY <1>1, <1>3
  <2> HIDE DEF d
  <2> QED BY <1>1, <2>1, <2>2, <2>3
<1>6. RingTypeOK'
  BY <1>1, <1>4 DEF RingTypeOK
<1>7. /\ Ring \in Seq(Byte) /\ Len(Ring) = InRing /\ Ring # <<>>
      /\ \A i \in 1 .. InRing : Ring[i] = read_buffer[(lo + (i - 1)) % R]
  BY <1>5, RingShape
<1>8. NextByte = Head(Ring)
  BY <1>1, FirstInRing
<1>9. ASSUME NEW k \in Nat PROVE (lo' + k) % R = (lo + (k + 1)) % R
  <2>1. CASE lo + 1 = C
    <3>1. lo' = 0
      BY <1>1, <2>1, <1>4
    <3>2. (C + k) % R = k % R
      BY <1>1, ModMultiple
    <3>3. 0 + k = k /\ lo + (k + 1) = C + k
      BY <1>1, <2>1
    <3> QED BY <3>1, <3>2, <3>3
  <2>2. CASE lo + 1 # C
    <3>1. lo' = lo + 1
      BY <1>1, <2>2, <1>4
    <3>2. (lo + 1) + k = lo + (k + 1)
      BY <1>1
    <3> QED BY <3>1, <3>2
  <2> QED BY <2>1, <2>2
<1>10. Ring' = [i \in 1 .. InRing - 1 |-> Ring[i + 1]]
  <2>1. Ring' = [i \in 1 .. InRing - 1 |-> read_buffer[(lo' + (i - 1)) % R]]
    BY <1>1, <1>5 DEF Ring
  <2>2. ASSUME NEW i \in 1 .. InRing - 1
        PROVE  read_buffer[(lo' + (i - 1)) % R] = Ring[i + 1]
    <3> DEFINE k == i - 1
    <3>1. k \in Nat /\ i + 1 \in 1 .. InRing /\ (i + 1) - 1 = k + 1
      BY <1>5
    <3>2. Ring[i + 1] = read_buffer[(lo + ((i + 1) - 1)) % R]
      BY <1>7, <3>1
    <3> HIDE DEF k
    <3>3. (lo' + k) % R = (lo + (k + 1)) % R
      BY <1>9, <3>1
    <3> QED BY <3>1, <3>2, <3>3 DEF k
  <2> QED BY <2>1, <2>2
<1>11. Tail(Ring) = [i \in 1 .. InRing - 1 |-> Ring[i + 1]]
  BY <1>7, TailIs
<1> QED BY <1>5, <1>6, <1>7, <1>8, <1>10, <1>11

\* Storing a byte leaves those before it alone, as long as there is room.
LEMMA Store ==
    ASSUME RingTypeOK, PortTypeOK, ListenStore, InRing < RingSize
    PROVE  RingTypeOK' /\ Ring' = Append(Ring, Head(port_in)) /\ InRing' = InRing + 1
<1> DEFINE R == RingSize
           C == CounterSize
           hi == read_buffer_ptr_hi
           lo == read_buffer_ptr_lo
           d == (hi - lo) % C
<1>1. /\ R \in Nat \ {0} /\ C \in Nat \ {0} /\ C % R = 0
      /\ hi \in 0 .. C - 1 /\ lo \in 0 .. C - 1
      /\ lo' = lo /\ hi' = hi
      /\ ~listen_stored /\ listen_stored' = TRUE
      /\ read_buffer \in [0 .. R - 1 -> Byte]
      /\ read_buffer' = [read_buffer EXCEPT ![hi % R] = Head(port_in)]
      /\ Head(port_in) \in Byte
  BY RingAssumption DEF RingTypeOK, PortTypeOK, ListenStore
<1>a. d \in 0 .. C - 1
  BY <1>1, Distance, Zenon
<1>b. d = IF hi >= lo THEN hi - lo ELSE hi - lo + C
  <2> HIDE DEF C, hi, lo
  <2>1. C \in Nat \ {0} /\ hi \in 0 .. C - 1 /\ lo \in 0 .. C - 1
    BY <1>1
  <2> QED BY <2>1, Distance
<1>c. InRing = d /\ InRing' = d + 1
  BY <1>1, <1>a DEF InRing
<1> HIDE DEF d
<1>d. PICK n \in 0 .. C - 1 : n = d
  BY <1>a
<1>2. n = IF hi >= lo THEN hi - lo ELSE hi - lo + C
  BY <1>b, <1>d
<1>3. InRing = n /\ InRing' = n + 1 /\ n \in Nat /\ n < R
  BY <1>c, <1>d, <1>1
<1>4. hi % R = (lo + n) % R
  <2>1. CASE hi >= lo
    BY <1>1, <1>2, <2>1
  <2>2. CASE hi < lo
    <3>1. lo + n = C + hi
      BY <1>1, <1>2, <2>2
    <3>2. (C + hi) % R = hi % R
      <4>1. hi \in Nat /\ C \in Nat
        BY <1>1
      <4> QED BY <1>1, <4>1, ModMultiple, Zenon
    <3> QED BY <3>1, <3>2
  <2> QED BY <1>1, <2>1, <2>2
<1>5. ASSUME NEW k \in 0 .. n - 1 PROVE (lo + k) % R # (lo + n) % R
  <2>1. lo \in Nat /\ k \in Nat /\ n \in Nat /\ k < n /\ n < R
    BY <1>1, <1>2, <1>3
  <2> QED BY <1>1, <2>1, ModDistinct, Zenon
<1>6. ASSUME NEW k \in Nat PROVE (lo + k) % R \in 0 .. R - 1
  <2>1. lo + k \in Int
    BY <1>1
  <2> QED BY <1>1, <2>1, Mod, Zenon
<1>7. RingTypeOK'
  BY <1>1 DEF RingTypeOK
<1>8. read_buffer'[(lo + n) % R] = Head(port_in)
  <2>1. hi % R \in 0 .. R - 1
    BY <1>3, <1>4, <1>6
  <2> QED BY <1>1, <1>4, <2>1
<1>9. ASSUME NEW k \in 0 .. n - 1
      PROVE  read_buffer'[(lo + k) % R] = read_buffer[(lo + k) % R]
  <2>1. (lo + k) % R \in 0 .. R - 1 /\ (lo + k) % R # hi % R
    BY <1>2, <1>4, <1>5, <1>6
  <2> QED BY <1>1, <2>1
<1>10. /\ Ring \in Seq(Byte) /\ Len(Ring) = n
       /\ \A i \in 1 .. n : Ring[i] = read_buffer[(lo + (i - 1)) % R]
  BY <1>3, RingShape
<1>11. Ring' = [i \in 1 .. n + 1 |-> read_buffer'[(lo + (i - 1)) % R]]
  BY <1>1, <1>3 DEF Ring
<1>12. ASSUME NEW i \in 1 .. n + 1
       PROVE  read_buffer'[(lo + (i - 1)) % R] = IF i = n + 1 THEN Head(port_in) ELSE Ring[i]
  <2> DEFINE k == i - 1
  <2>1. k \in 0 .. n /\ (i # n + 1 => k \in 0 .. n - 1 /\ i \in 1 .. n) /\ (i = n + 1 => k = n)
    BY <1>3
  <2>2. i \in 1 .. n => Ring[i] = read_buffer[(lo + k) % R]
    BY <1>10
  <2> HIDE DEF k
  <2>3. read_buffer'[(lo + k) % R] = IF i = n + 1 THEN Head(port_in) ELSE Ring[i]
    BY <1>8, <1>9, <2>1, <2>2
  <2> QED BY <2>3 DEF k
<1>13. Ring' = [i \in 1 .. n + 1 |-> IF i = n + 1 THEN Head(port_in) ELSE Ring[i]]
  BY <1>11, <1>12
<1>14. Append(Ring, Head(port_in)) = [i \in 1 .. n + 1 |-> IF i = n + 1 THEN Head(port_in) ELSE Ring[i]]
  BY <1>1, <1>10, AppendIs
<1> QED BY <1>3, <1>7, <1>13, <1>14

\* Advancing the counter changes no byte.
LEMMA Advance ==
    ASSUME RingTypeOK, ListenAdvance, InRing <= RingSize
    PROVE  RingTypeOK' /\ Ring' = Ring /\ InRing' = InRing
<1> DEFINE R == RingSize
           C == CounterSize
           hi == read_buffer_ptr_hi
           lo == read_buffer_ptr_lo
           n == (hi - lo) % C
<1>1. /\ R \in Nat \ {0} /\ C \in Nat \ {0} /\ C > R
      /\ hi \in 0 .. C - 1 /\ lo \in 0 .. C - 1
      /\ lo' = lo /\ hi' = (hi + 1) % C
      /\ listen_stored /\ listen_stored' = FALSE
      /\ read_buffer' = read_buffer /\ read_buffer \in [0 .. R - 1 -> Byte]
  BY RingAssumption DEF RingTypeOK, ListenAdvance
<1>2. n \in 0 .. C - 1
  BY <1>1, Distance, Zenon
<1>3. InRing = n + 1 /\ InRing \in Nat
  BY <1>1, <1>2 DEF InRing
<1>4. (((hi + 1) % C) - lo) % C = n + 1
  BY <1>1, <1>2, <1>3, DistanceUp
<1>5. InRing' = n + 1
  <2>1. InRing' = ((hi' - lo') % C) + (IF listen_stored' THEN 1 ELSE 0)
    BY DEF InRing
  <2> HIDE DEF n
  <2> QED BY <1>1, <1>2, <1>4, <2>1
<1>6. (hi + 1) % C \in 0 .. C - 1
  BY <1>1, Distance
<1>7. RingTypeOK'
  BY <1>1, <1>6 DEF RingTypeOK
<1>8. InRing' = InRing
  BY <1>3, <1>5
<1>9. Ring' = Ring
  BY <1>1, <1>8 DEF Ring
<1> QED BY <1>7, <1>8, <1>9

-----------------------------------------------------------------------------
(* The bytes on their way up.                                              *)

LEMMA Cons ==
    ASSUME NEW S, NEW q \in Seq(S), q # <<>>
    PROVE  /\ Head(q) \in S /\ Tail(q) \in Seq(S) /\ q = <<Head(q)>> \o Tail(q)
           /\ <<Head(q)>> \in Seq(S)
           /\ Len(Tail(q)) = Len(q) - 1 /\ Len(q) \in Nat \ {0}
OBVIOUS

\* Moving the first of q to the end of s.
LEMMA MoveOne ==
    ASSUME NEW S, NEW s \in Seq(S), NEW q \in Seq(S), q # <<>>
    PROVE  Append(s, Head(q)) \o Tail(q) = s \o q
<1> DEFINE h == Head(q)
           t == Tail(q)
<1>1. h \in S /\ t \in Seq(S) /\ q = <<h>> \o t /\ <<h>> \in Seq(S)
  BY Cons
<1> HIDE DEF h, t
<1>2. Append(s, h) = s \o <<h>>
  BY <1>1, AppendIsConcat
<1>3. (s \o <<h>>) \o t = s \o (<<h>> \o t)
  BY <1>1, ConcatAssociative
<1>4. Append(s, h) \o t = s \o q
  BY <1>1, <1>2, <1>3
<1> QED BY <1>4 DEF h, t

LEMMA BytesShape ==
    ASSUME TypeOK
    PROVE  /\ found \in Seq(Byte) /\ scratch \in Seq(Byte) /\ Ring \in Seq(Byte)
           /\ port_in \in Seq(Byte) /\ Len(Ring) = InRing /\ InRing \in Nat
           /\ UpBytes \in Seq(Byte) /\ Len(UpBytes) = Total /\ Total \in Nat
           /\ Total = Len(found) + Len(scratch) + InRing + Len(port_in)
<1>1. /\ found \in Seq(Byte) /\ scratch \in Seq(Byte) /\ Ring \in Seq(Byte)
      /\ port_in \in Seq(Byte) /\ Len(Ring) = InRing /\ InRing \in Nat
      /\ Len(found) \in Nat /\ Len(scratch) \in Nat /\ Len(port_in) \in Nat
  BY RingShape DEF TypeOK, ImplTypeOK, PortTypeOK
<1>2. found \o scratch \in Seq(Byte) /\ Len(found \o scratch) = Len(found) + Len(scratch)
  BY <1>1, ConcatProperties
<1>3. Ring \o port_in \in Seq(Byte) /\ Len(Ring \o port_in) = Len(Ring) + Len(port_in)
  BY <1>1, ConcatProperties
<1>4. UpBytes \in Seq(Byte)
      /\ Len(UpBytes) = Len(found \o scratch) + Len(Ring \o port_in)
  BY <1>2, <1>3, ConcatProperties DEF UpBytes
<1> QED BY <1>1, <1>2, <1>3, <1>4 DEF Total

\* A byte found.
LEMMA FindByteKeeps ==
    ASSUME TypeOK, scratch = <<>>, Ring = <<>>, port_in # <<>>,
           found' = Append(found, Head(port_in)), port_in' = Tail(port_in),
           scratch' = scratch, Ring' = Ring
    PROVE  UpBytes' = UpBytes
<1>1. found \in Seq(Byte) /\ port_in \in Seq(Byte)
  BY BytesShape
<1>2. Append(found, Head(port_in)) \o Tail(port_in) = found \o port_in
  BY <1>1, MoveOne
<1>3. Append(found, Head(port_in)) \in Seq(Byte) /\ Tail(port_in) \in Seq(Byte)
  BY <1>1, Cons
<1>4. UpBytes = found \o port_in
  BY <1>1, ConcatEmptySeq DEF UpBytes
<1>5. UpBytes' = Append(found, Head(port_in)) \o Tail(port_in)
  <2>1. UpBytes' = (Append(found, Head(port_in)) \o <<>>) \o (<<>> \o Tail(port_in))
    BY DEF UpBytes
  <2>2. Append(found, Head(port_in)) \o <<>> = Append(found, Head(port_in))
    BY <1>3, ConcatEmptySeq
  <2>3. <<>> \o Tail(port_in) = Tail(port_in)
    BY <1>3, ConcatEmptySeq
  <2> QED BY <2>1, <2>2, <2>3
<1> QED BY <1>2, <1>4, <1>5

\* A byte stored in the ring.
LEMMA StoreKeeps ==
    ASSUME TypeOK, port_in # <<>>, found' = found, scratch' = scratch,
           Ring' = Append(Ring, Head(port_in)), port_in' = Tail(port_in)
    PROVE  UpBytes' = UpBytes
<1>1. Ring \in Seq(Byte) /\ port_in \in Seq(Byte)
  BY BytesShape
<1>2. Append(Ring, Head(port_in)) \o Tail(port_in) = Ring \o port_in
  BY <1>1, MoveOne
<1> QED BY <1>2 DEF UpBytes

LEMMA JoinAssociative ==
    ASSUME NEW S, NEW s \in Seq(S), NEW t \in Seq(S), NEW u \in Seq(S)
    PROVE  s \o (t \o u) = (s \o t) \o u
BY ConcatAssociative

LEMMA ConsConcat ==
    ASSUME NEW h \in Byte, NEW t \in Seq(Byte), NEW s \in Seq(Byte)
    PROVE  <<h>> \o (t \o s) = (<<h>> \o t) \o s
<1>1. <<h>> \in Seq(Byte)
  OBVIOUS
<1> QED BY <1>1, JoinAssociative

\* A byte taken out of the ring into scratch.
LEMMA ProcessByteKeeps ==
    ASSUME TypeOK, Ring # <<>>, found' = found, scratch' = Append(scratch, Head(Ring)),
           Ring' = Tail(Ring), port_in' = port_in
    PROVE  UpBytes' = UpBytes
<1>1. Ring \in Seq(Byte) /\ port_in \in Seq(Byte) /\ found \in Seq(Byte) /\ scratch \in Seq(Byte)
  BY BytesShape
<1> DEFINE h == Head(Ring)
           t == Tail(Ring)
<1>2. h \in Byte /\ t \in Seq(Byte) /\ Ring = <<h>> \o t /\ <<h>> \in Seq(Byte)
  BY <1>1, Cons
<1>3. UpBytes' = (found \o Append(scratch, h)) \o (t \o port_in)
  BY DEF UpBytes
<1> HIDE DEF h, t
<1>4. Append(scratch, h) = scratch \o <<h>>
  BY <1>1, <1>2, AppendIsConcat
<1>5. found \o (scratch \o <<h>>) = (found \o scratch) \o <<h>>
  BY <1>1, <1>2, ConcatAssociative
<1> DEFINE x == found \o scratch
           y == t \o port_in
<1>6. x \in Seq(Byte) /\ y \in Seq(Byte)
  BY <1>1, <1>2, ConcatProperties
<1>7. <<h>> \o y = Ring \o port_in
  <2>1. <<h>> \o (t \o port_in) = (<<h>> \o t) \o port_in
    BY <1>1, <1>2, ConsConcat
  <2> QED BY <2>1, <1>2
<1>8. UpBytes = x \o (<<h>> \o y)
  BY <1>7 DEF UpBytes
<1>9. UpBytes' = (x \o <<h>>) \o y
  BY <1>3, <1>4, <1>5
<1> HIDE DEF x, y
<1>10. (x \o <<h>>) \o y = x \o (<<h>> \o y)
  BY <1>2, <1>6, ConcatAssociative
<1> QED BY <1>8, <1>9, <1>10

\* A byte delivered to the port.
LEMMA DeliverGrows ==
    ASSUME TypeOK, NEW b \in Byte, found' = found, scratch' = scratch,
           Ring' = Ring, port_in' = Append(port_in, b)
    PROVE  UpBytes' = Append(UpBytes, b)
<1>1. /\ Ring \in Seq(Byte) /\ port_in \in Seq(Byte) /\ found \in Seq(Byte)
      /\ scratch \in Seq(Byte) /\ <<b>> \in Seq(Byte) /\ UpBytes \in Seq(Byte)
  BY BytesShape
<1>2. Append(port_in, b) = port_in \o <<b>>
  BY <1>1, AppendIsConcat
<1> DEFINE x == found \o scratch
           y == Ring \o port_in
<1>3. x \in Seq(Byte) /\ y \in Seq(Byte)
  BY <1>1, ConcatProperties
<1>4. Ring \o (port_in \o <<b>>) = y \o <<b>>
  BY <1>1, ConcatAssociative
<1>5. UpBytes' = x \o (y \o <<b>>)
  BY <1>2, <1>4 DEF UpBytes
<1>6. UpBytes = x \o y
  BY DEF UpBytes
<1> HIDE DEF x, y
<1>7. x \o (y \o <<b>>) = (x \o y) \o <<b>>
  <2>1. <<b>> \in Seq(Byte)
    BY <1>1
  <2> QED BY <1>3, <2>1, JoinAssociative
<1>8. Append(UpBytes, b) = UpBytes \o <<b>>
  BY <1>1, AppendIsConcat
<1> QED BY <1>5, <1>6, <1>7, <1>8

\* The six oldest bytes, when the last of them is in the ring.
LEMMA PacketSplits ==
    ASSUME TypeOK, Ring # <<>>, found = <<>>
    PROVE  /\ UpBytes = Append(scratch, Head(Ring)) \o (Tail(Ring) \o port_in)
           /\ Tail(Ring) \o port_in \in Seq(Byte)
<1>1. Ring \in Seq(Byte) /\ port_in \in Seq(Byte) /\ scratch \in Seq(Byte)
  BY BytesShape
<1> DEFINE h == Head(Ring)
           t == Tail(Ring)
           y == t \o port_in
<1>2. h \in Byte /\ t \in Seq(Byte) /\ Ring = <<h>> \o t /\ <<h>> \in Seq(Byte)
  BY <1>1, Cons
<1> HIDE DEF h, t
<1>3. y \in Seq(Byte)
  BY <1>1, <1>2, ConcatProperties
<1>4. UpBytes = scratch \o (Ring \o port_in)
  <2>1. found \o scratch = scratch
    BY <1>1, ConcatEmptySeq
  <2> QED BY <2>1 DEF UpBytes
<1>5. Ring \o port_in = <<h>> \o y
  BY <1>1, <1>2, ConcatAssociative
<1> HIDE DEF y
<1>6. scratch \o (<<h>> \o y) = (scratch \o <<h>>) \o y
  <2>1. (scratch \o <<h>>) \o y = scratch \o (<<h>> \o y)
    BY <1>1, <1>2, <1>3, ConcatAssociative
  <2> QED BY <2>1
<1>7. Append(scratch, h) = scratch \o <<h>>
  BY <1>1, <1>2, AppendIsConcat
<1> QED BY <1>3, <1>4, <1>5, <1>6, <1>7 DEF h, t, y

\* A packet taken out of the ring.
LEMMA ProcessPacketTakes ==
    ASSUME TypeOK, Ring # <<>>, found = <<>>, found' = found, scratch' = <<>>,
           Ring' = Tail(Ring), port_in' = port_in
    PROVE  UpBytes = Append(scratch, Head(Ring)) \o UpBytes'
           /\ UpBytes' \in Seq(Byte)
<1> DEFINE t == Tail(Ring) \o port_in
<1>1. UpBytes = Append(scratch, Head(Ring)) \o t /\ t \in Seq(Byte)
  BY PacketSplits
<1>2. UpBytes' = (<<>> \o <<>>) \o t
  BY DEF UpBytes
<1> HIDE DEF t
<1>3. UpBytes' = t
  <2>1. <<>> \in Seq(Byte)
    BY EmptySeq
  <2>2. <<>> \o <<>> = <<>>
    BY <2>1, ConcatEmptySeq
  <2>3. <<>> \o t = t
    BY <1>1, ConcatEmptySeq
  <2> QED BY <1>2, <2>2, <2>3
<1> QED BY <1>1, <1>3

\* A packet found.
LEMMA FindAnswerTakes ==
    ASSUME TypeOK, Ring = <<>>, scratch = <<>>, port_in # <<>>, found' = <<>>,
           scratch' = scratch, Ring' = Ring, port_in' = Tail(port_in)
    PROVE  UpBytes = Append(found, Head(port_in)) \o UpBytes'
           /\ UpBytes' \in Seq(Byte)
<1>1. found \in Seq(Byte) /\ port_in \in Seq(Byte)
  BY BytesShape
<1>2. Append(found, Head(port_in)) \o Tail(port_in) = found \o port_in
  BY <1>1, MoveOne
<1>3. Tail(port_in) \in Seq(Byte)
  BY <1>1, Cons
<1>4. UpBytes = found \o port_in
  BY <1>1, ConcatEmptySeq DEF UpBytes
<1>5. UpBytes' = Tail(port_in)
  <2>1. UpBytes' = (<<>> \o <<>>) \o (<<>> \o Tail(port_in))
    BY DEF UpBytes
  <2>2. <<>> \o <<>> = <<>>
    BY <1>1, ConcatEmptySeq
  <2>3. <<>> \o Tail(port_in) = Tail(port_in)
    BY <1>3, ConcatEmptySeq
  <2> QED BY <2>1, <2>2, <2>3
<1> QED BY <1>2, <1>3, <1>4, <1>5
-----------------------------------------------------------------------------
(* The packets they make.                                                  *)

\* What six bytes make.
Frame == {Unflatten(f) : f \in [1 .. 6 -> Byte]}

\* The bytes of packet j.
SixOf(s, j) == [i \in 1 .. 6 |-> s[6 * (j - 1) + i]]

LEMMA SixOfType ==
    ASSUME NEW s \in Seq(Byte), NEW j \in 1 .. Len(s) \div 6
    PROVE  SixOf(s, j) \in [1 .. 6 -> Byte]
<1>1. Len(s) \in Nat /\ j \in Nat /\ 6 * j <= Len(s)
  OBVIOUS
<1>2. ASSUME NEW i \in 1 .. 6 PROVE s[6 * (j - 1) + i] \in Byte
  <2>1. 6 * (j - 1) + i \in 1 .. Len(s)
    BY <1>1
  <2> QED BY <2>1, ElementOfSeq
<1> QED BY <1>2 DEF SixOf

LEMMA UpShape ==
    ASSUME TypeOK
    PROVE  /\ Up \in Seq(Frame) /\ Len(Up) = Total \div 6 /\ Len(Up) \in Nat
           /\ \A j \in 1 .. Len(Up) : Up[j] = Unflatten(SixOf(UpBytes, j))
<1>1. UpBytes \in Seq(Byte) /\ Total \in Nat /\ Total = Len(UpBytes)
  BY BytesShape DEF Total
<1>2. Total \div 6 \in Nat
  BY <1>1
<1>3. Up = [j \in 1 .. Total \div 6 |-> Unflatten(SixOf(UpBytes, j))]
  BY DEF Up, SixOf
<1>4. \A j \in 1 .. Total \div 6 : Unflatten(SixOf(UpBytes, j)) \in Frame
  BY <1>1, SixOfType DEF Frame
<1>5. Up \in [1 .. Total \div 6 -> Frame]
  BY <1>3, <1>4
<1> QED BY <1>2, <1>3, <1>5

LEMMA UpKept ==
    ASSUME UpBytes' = UpBytes
    PROVE  Up' = Up /\ Total' = Total
BY DEF Up, Total

\* A byte more, which does not complete a packet.
LEMMA UpPart ==
    ASSUME TypeOK, NEW b \in Byte, UpBytes' = Append(UpBytes, b), Total % 6 # 5
    PROVE  /\ Up' = Up /\ Total' = Total + 1 /\ Total' \div 6 = Total \div 6
           /\ UpBytes'[Total + 1] = b
           /\ \A i \in 1 .. Total : UpBytes'[i] = UpBytes[i]
<1>1. UpBytes \in Seq(Byte) /\ Total \in Nat /\ Total = Len(UpBytes)
  BY BytesShape DEF Total
<1>2. /\ Len(UpBytes') = Total + 1 /\ UpBytes'[Total + 1] = b
      /\ \A i \in 1 .. Total : UpBytes'[i] = UpBytes[i]
  BY <1>1, AppendProperties
<1>3. Total' = Total + 1
  BY <1>2 DEF Total
<1>4. Total' \div 6 = Total \div 6 /\ Total \div 6 \in Nat /\ 6 * (Total \div 6) <= Total
  BY <1>1, <1>3
<1>5. ASSUME NEW j \in 1 .. Total \div 6
      PROVE  SixOf(UpBytes', j) = SixOf(UpBytes, j)
  <2>1. ASSUME NEW i \in 1 .. 6 PROVE 6 * (j - 1) + i \in 1 .. Total
    BY <1>1, <1>4
  <2> QED BY <1>2, <2>1 DEF SixOf
<1>6. Up = [j \in 1 .. Total \div 6 |-> Unflatten(SixOf(UpBytes, j))]
  BY DEF Up, SixOf
<1>7. Up' = [j \in 1 .. Total' \div 6 |-> Unflatten(SixOf(UpBytes', j))]
  BY DEF Up, SixOf
<1> QED BY <1>2, <1>3, <1>4, <1>5, <1>6, <1>7

\* The bytes after the first n packets of s are the first k of f.
Begun(s, n, f, k) == \A i \in 1 .. k : s[6 * n + i] = f[i]

PacketsOf(s) == [j \in 1 .. Len(s) \div 6 |-> Unflatten(SixOf(s, j))]

LEMMA PacketsOfType ==
    ASSUME NEW s \in Seq(Byte), NEW n \in Nat, n = Len(s) \div 6
    PROVE  /\ PacketsOf(s) \in Seq(Frame) /\ Len(PacketsOf(s)) = n
           /\ \A j \in 1 .. n : PacketsOf(s)[j] = Unflatten(SixOf(s, j))
<1>1. \A j \in 1 .. n : Unflatten(SixOf(s, j)) \in Frame
  BY SixOfType DEF Frame
<1>2. PacketsOf(s) = [j \in 1 .. n |-> Unflatten(SixOf(s, j))]
  BY DEF PacketsOf
<1>3. PacketsOf(s) \in [1 .. n -> Frame]
  BY <1>1, <1>2
<1> QED BY <1>2, <1>3

LEMMA SameSequence ==
    ASSUME NEW S, NEW s \in Seq(S), NEW t \in Seq(S), NEW n,
           Len(s) = n, Len(t) = n, \A i \in 1 .. n : s[i] = t[i]
    PROVE  s = t
<1>1. s \in [1 .. n -> S] /\ t \in [1 .. n -> S]
  BY LenProperties
<1> QED BY <1>1

\* The byte that completes a packet.
LEMMA PacketCompleted ==
    ASSUME NEW s \in Seq(Byte), NEW n \in Nat, Len(s) = 6 * n + 5,
           NEW f \in [1 .. 6 -> Byte], Begun(s, n, f, 5)
    PROVE  PacketsOf(Append(s, f[6])) = Append(PacketsOf(s), Unflatten(f))
<1>1. f[6] \in Byte
  OBVIOUS
<1> DEFINE t == Append(s, f[6])
<1>2. /\ t \in Seq(Byte) /\ Len(t) = (6 * n + 5) + 1 /\ t[(6 * n + 5) + 1] = f[6]
      /\ \A i \in 1 .. 6 * n + 5 : t[i] = s[i]
  <2>1. /\ t \in Seq(Byte) /\ Len(t) = Len(s) + 1 /\ t[Len(s) + 1] = f[6]
        /\ \A i \in 1 .. Len(s) : t[i] = s[i]
    BY <1>1, AppendProperties
  <2> HIDE DEF t
  <2> QED BY <2>1
<1> HIDE DEF t
<1>3. Len(t) \div 6 = n + 1 /\ Len(s) \div 6 = n
  BY <1>2
<1>4. ASSUME NEW j \in 1 .. n PROVE SixOf(t, j) = SixOf(s, j)
  <2>1. ASSUME NEW i \in 1 .. 6 PROVE 6 * (j - 1) + i \in 1 .. 6 * n + 5
    OBVIOUS
  <2> QED BY <1>2, <2>1 DEF SixOf
<1>5. Unflatten(SixOf(t, n + 1)) = Unflatten(f)
  <2> DEFINE g == SixOf(t, n + 1)
  <2>1. ASSUME NEW i \in 1 .. 6 PROVE g[i] = f[i]
    <3>1. g[i] = t[6 * ((n + 1) - 1) + i]
      BY DEF SixOf
    <3>2. 6 * ((n + 1) - 1) + i = 6 * n + i
      OBVIOUS
    <3> HIDE DEF g
    <3>3. CASE i \in 1 .. 5
      <4>1. 6 * n + i \in 1 .. 6 * n + 5
        BY <3>3
      <4>2. s[6 * n + i] = f[i]
        BY <3>3 DEF Begun
      <4> QED BY <1>2, <3>1, <3>2, <4>1, <4>2
    <3>4. CASE i = 6
      <4>1. 6 * n + i = (6 * n + 5) + 1
        BY <3>4
      <4> QED BY <1>2, <3>1, <3>2, <3>4, <4>1
    <3> QED BY <3>3, <3>4
  <2> HIDE DEF g
  <2>2. Unflatten(g) = Unflatten(f)
    BY <2>1, SixBytes
  <2> QED BY <2>2 DEF g
<1> DEFINE P == PacketsOf(s)
           u == Unflatten(f)
<1>7. P \in Seq(Frame) /\ Len(P) = n /\ (\A j \in 1 .. n : P[j] = Unflatten(SixOf(s, j))) /\ u \in Frame
  BY <1>3, PacketsOfType DEF Frame
<1> HIDE DEF P, u
<1>8. /\ Append(P, u) \in Seq(Frame) /\ Len(Append(P, u)) = Len(P) + 1
      /\ \A j \in 1 .. Len(P) : Append(P, u)[j] = P[j]
      /\ Append(P, u)[Len(P) + 1] = u
  BY <1>7, AppendProperties
<1> DEFINE A == Append(P, u)
           Q == PacketsOf(t)
<1>9. A \in Seq(Frame) /\ Len(A) = n + 1 /\ A[n + 1] = u /\ \A j \in 1 .. n : A[j] = P[j]
  BY <1>7, <1>8
<1>10. Q \in Seq(Frame) /\ Len(Q) = n + 1 /\ \A j \in 1 .. n + 1 : Q[j] = Unflatten(SixOf(t, j))
  BY <1>2, <1>3, PacketsOfType
<1> HIDE DEF A, Q
<1>11. ASSUME NEW j \in 1 .. n + 1 PROVE Q[j] = A[j]
  <2>1. j # n + 1 => j \in 1 .. n
    OBVIOUS
  <2> QED BY <1>4, <1>5, <1>7, <1>9, <1>10, <2>1 DEF u
<1>12. Q = A
  BY <1>9, <1>10, <1>11, SameSequence
<1> QED BY <1>12 DEF t, P, u, A, Q

\* The six bytes of f, then those of t.
Joined(s, f, t) == Len(f) = 6 /\ s = f \o t

LEMMA JoinedBytes ==
    ASSUME NEW s \in Seq(Byte), NEW f \in Seq(Byte), NEW t \in Seq(Byte), Joined(s, f, t)
    PROVE  /\ Len(s) = 6 + Len(t) /\ Len(t) \in Nat
           /\ \A i \in 1 .. 6 : s[i] = f[i]
           /\ \A i \in 1 .. Len(t) : s[i + 6] = t[i]
<1> DEFINE m == Len(f)
<1>1. /\ Len(f \o t) = m + Len(t) /\ m \in Nat /\ Len(t) \in Nat
      /\ \A i \in 1 .. m + Len(t) : (f \o t)[i] = IF i <= m THEN f[i] ELSE t[i - m]
  BY ConcatProperties, LenProperties
<1>2. m = 6 /\ s = f \o t
  BY DEF Joined
<1> HIDE DEF m
<1>3. /\ Len(s) = m + Len(t)
      /\ \A i \in 1 .. m + Len(t) : s[i] = IF i <= m THEN f[i] ELSE t[i - m]
  BY <1>1, <1>2, Zenon
<1>4. ASSUME NEW i \in 1 .. m PROVE s[i] = f[i]
  <2>1. i \in 1 .. m + Len(t) /\ i <= m
    BY <1>1
  <2> QED BY <1>3, <2>1
<1>5. ASSUME NEW i \in 1 .. Len(t) PROVE s[i + m] = t[i]
  <2> DEFINE j == i + m
  <2>1. j \in 1 .. m + Len(t) /\ ~(j <= m) /\ j - m = i
    BY <1>1
  <2> HIDE DEF j
  <2>2. s[j] = t[j - m]
    BY <1>3, <2>1
  <2> QED BY <2>1, <2>2 DEF j
<1> QED BY <1>1, <1>2, <1>3, <1>4, <1>5

\* The place of a byte of the packets behind the first.
LEMMA LaterByte ==
    ASSUME NEW n \in Nat, NEW m \in Nat, 6 * n <= m, NEW j \in 1 .. n, NEW i \in 1 .. 6
    PROVE  6 * (j - 1) + i \in 1 .. m /\ (6 * (j - 1) + i) + 6 = 6 * ((j + 1) - 1) + i
<1>1. PICK d \in Nat : j = d + 1 /\ d + 1 <= n
  <2>1. j - 1 \in Nat /\ j = (j - 1) + 1 /\ (j - 1) + 1 <= n
    OBVIOUS
  <2> QED BY <2>1
<1>2. j - 1 = d /\ (j + 1) - 1 = d + 1
  BY <1>1
<1>3. 6 * d + 6 <= m
  BY <1>1
<1>4. 6 * d + i \in 1 .. m /\ (6 * d + i) + 6 = 6 * (d + 1) + i
  BY <1>3
<1> QED BY <1>2, <1>4

\* The oldest packet taken away.
LEMMA PacketTaken ==
    ASSUME NEW s \in Seq(Byte), NEW f \in Seq(Byte), NEW t \in Seq(Byte),
           Joined(s, f, t)
    PROVE  /\ PacketsOf(s) # <<>> /\ PacketsOf(t) = Tail(PacketsOf(s))
           /\ Unflatten(f) = Head(PacketsOf(s))
<1>1. /\ Len(s) = 6 + Len(t) /\ Len(t) \in Nat
      /\ \A i \in 1 .. 6 : s[i] = f[i]
      /\ \A i \in 1 .. Len(t) : s[i + 6] = t[i]
  BY JoinedBytes
<1>2. PICK n \in Nat : n = Len(t) \div 6
  BY <1>1
<1>3. Len(s) \div 6 = n + 1 /\ 6 * n <= Len(t)
  BY <1>1, <1>2
<1> DEFINE P == PacketsOf(s)
<1>4. P \in Seq(Frame) /\ Len(P) = n + 1
      /\ \A j \in 1 .. n + 1 : P[j] = Unflatten(SixOf(s, j))
  BY <1>3, PacketsOfType
<1> HIDE DEF P
<1>5. P # <<>> /\ Head(P) = P[1] /\ 1 \in 1 .. n + 1
  BY <1>4
<1>6. Unflatten(f) = P[1]
  <2> DEFINE g == SixOf(s, 1)
  <2>1. ASSUME NEW i \in 1 .. 6 PROVE f[i] = g[i]
    <3>1. 6 * (1 - 1) + i = i
      OBVIOUS
    <3>2. g[i] = s[6 * (1 - 1) + i]
      BY DEF SixOf
    <3> QED BY <1>1, <3>1, <3>2
  <2> HIDE DEF g
  <2>2. Unflatten(f) = Unflatten(g)
    BY <2>1, SixBytes
  <2> QED BY <1>4, <1>5, <2>2 DEF g
<1>7. ASSUME NEW j \in 1 .. n PROVE SixOf(t, j) = SixOf(s, j + 1)
  <2>1. ASSUME NEW i \in 1 .. 6
        PROVE  t[6 * (j - 1) + i] = s[6 * ((j + 1) - 1) + i]
    <3> DEFINE k == 6 * (j - 1) + i
    <3>1. k \in 1 .. Len(t) /\ k + 6 = 6 * ((j + 1) - 1) + i
      BY <1>1, <1>3, LaterByte
    <3> HIDE DEF k
    <3>2. s[k + 6] = t[k]
      BY <1>1, <3>1
    <3> QED BY <3>1, <3>2 DEF k
  <2> QED BY <2>1 DEF SixOf
<1>8. PacketsOf(t) = [j \in 1 .. n |-> Unflatten(SixOf(t, j))]
  BY <1>2 DEF PacketsOf
<1>9. Tail(P) = [j \in 1 .. n |-> P[j + 1]]
  <2>1. Tail(P) = [j \in 1 .. Len(P) - 1 |-> P[j + 1]]
    BY <1>4, <1>5, TailIs
  <2>2. Len(P) - 1 = n
    BY <1>4
  <2> QED BY <2>1, <2>2
<1>10. ASSUME NEW j \in 1 .. n PROVE P[j + 1] = Unflatten(SixOf(t, j))
  <2>1. j + 1 \in 1 .. n + 1
    OBVIOUS
  <2> QED BY <1>4, <1>7, <2>1
<1>11. PacketsOf(t) = Tail(P)
  BY <1>8, <1>9, <1>10
<1> QED BY <1>5, <1>6, <1>11 DEF P

LEMMA UpIs == Up = PacketsOf(UpBytes)
BY DEF Up, PacketsOf, SixOf, Total

-----------------------------------------------------------------------------
(* What is up, as the board adds to it and the host takes from it.         *)

\* The byte that completes the packet on its way.
LEMMA UpCompleted ==
    ASSUME TypeOK, Framed, UpBytes' = Append(UpBytes, tx_packet[6]), Partial = 5
    PROVE  Up' = Append(Up, Sending) /\ Total' % 6 = 0
<1> DEFINE s == UpBytes
           f == tx_packet
           n == Total \div 6
<1>1. s \in Seq(Byte) /\ Total \in Nat /\ Len(s) = Total /\ f \in [1 .. 6 -> Byte]
  BY BytesShape DEF TypeOK, BoardTypeOK, CpTypeOK
<1>2. Total % 6 = 5 /\ Begun(s, n, f, 5)
  BY DEF Framed, Begun
<1>3. n \in Nat /\ Len(s) = 6 * n + 5
  BY <1>1, <1>2
<1>4. s' = Append(s, f[6]) /\ Len(s') = Len(s) + 1
  BY <1>1, AppendProperties
<1>5. Total' = 6 * n + 6
  BY <1>3, <1>4 DEF Total
<1>6. Total' % 6 = 0
  <2> HIDE DEF n
  <2> QED BY <1>3, <1>5
<1> HIDE DEF s, f, n
<1>7. PacketsOf(Append(s, f[6])) = Append(PacketsOf(s), Unflatten(f))
  BY <1>1, <1>2, <1>3, PacketCompleted
<1>8. Up' = PacketsOf(s')
  BY UpIs DEF s, Up, PacketsOf, SixOf, Total
<1>9. Up = PacketsOf(s)
  BY UpIs DEF s
<1> QED BY <1>4, <1>6, <1>7, <1>8, <1>9 DEF Sending, f

Shifted(s, t, n) == \A i \in 1 .. n : s[i + 6] = t[i]

\* The host takes the oldest packet.
LEMMA UpTaken ==
    ASSUME TypeOK, NEW f \in Seq(Byte), Joined(UpBytes, f, UpBytes'), UpBytes' \in Seq(Byte)
    PROVE  /\ Up # <<>> /\ Up' = Tail(Up) /\ Unflatten(f) = Head(Up)
           /\ Total = Total' + 6 /\ Total' \in Nat
           /\ Shifted(UpBytes, UpBytes', Total')
<1> DEFINE s == UpBytes
           t == UpBytes'
<1>1. s \in Seq(Byte) /\ t \in Seq(Byte) /\ Total = Len(s) /\ Total' = Len(t)
  BY BytesShape DEF Total
<1>2. Up = PacketsOf(s) /\ Up' = PacketsOf(t)
  BY DEF Up, PacketsOf, SixOf, Total
<1>3. Joined(s, f, t)
  OBVIOUS
<1> HIDE DEF s, t
<1>4. PacketsOf(s) # <<>> /\ PacketsOf(t) = Tail(PacketsOf(s)) /\ Unflatten(f) = Head(PacketsOf(s))
  BY <1>1, <1>3, PacketTaken
<1>5. /\ Len(s) = 6 + Len(t) /\ Len(t) \in Nat
      /\ \A i \in 1 .. Len(t) : s[i + 6] = t[i]
  BY <1>1, <1>3, JoinedBytes
<1>6. Total = Total' + 6 /\ Total' \in Nat
  BY <1>1, <1>5
<1>7. Shifted(s, t, Len(t))
  BY <1>5 DEF Shifted
<1> QED BY <1>1, <1>2, <1>4, <1>6, <1>7 DEF s, t

\* The n bytes of s end with the first p of f, after whole packets.
Ends(s, n, f, p) == n % 6 = p /\ \A i \in 1 .. p : s[6 * (n \div 6) + i] = f[i]

Grown(s, t, n) == \A i \in 1 .. n : t[i] = s[i]

LEMMA EndsShifted ==
    ASSUME NEW s, NEW t, NEW f, NEW n \in Nat, NEW p \in Nat,
           Ends(s, n + 6, f, p), Shifted(s, t, n)
    PROVE  Ends(t, n, f, p)
<1>1. PICK q \in Nat, r \in 0 .. 5 : n = 6 * q + r
  <2>1. n = 6 * (n \div 6) + (n % 6) /\ n \div 6 \in Nat /\ n % 6 \in 0 .. 5
    OBVIOUS
  <2> QED BY <2>1
<1>2. n \div 6 = q /\ (n + 6) \div 6 = q + 1 /\ n % 6 = r /\ (n + 6) % 6 = r
  BY <1>1
<1>3. p = r /\ \A i \in 1 .. p : s[6 * (q + 1) + i] = f[i]
  BY <1>2 DEF Ends
<1>4. ASSUME NEW i \in 1 .. p PROVE t[6 * q + i] = f[i]
  <2>1. 6 * q + i \in 1 .. n /\ (6 * q + i) + 6 = 6 * (q + 1) + i
    BY <1>1, <1>3
  <2>2. s[(6 * q + i) + 6] = t[6 * q + i]
    BY <2>1 DEF Shifted
  <2> QED BY <1>3, <2>1, <2>2
<1> QED BY <1>2, <1>3, <1>4 DEF Ends

LEMMA EndsGrown ==
    ASSUME NEW s, NEW t, NEW f, NEW n \in Nat, NEW k \in 0 .. 4,
           Ends(s, n, f, k), Grown(s, t, n), t[n + 1] = f[k + 1]
    PROVE  Ends(t, n + 1, f, k + 1)
<1>1. PICK q \in Nat : n = 6 * q + k
  <2>1. n = 6 * (n \div 6) + (n % 6) /\ n \div 6 \in Nat
    OBVIOUS
  <2> QED BY <2>1 DEF Ends
<1>2. n \div 6 = q /\ (n + 1) \div 6 = q /\ (n + 1) % 6 = k + 1
  BY <1>1
<1>3. \A i \in 1 .. k : s[6 * q + i] = f[i]
  BY <1>2 DEF Ends
<1>4. ASSUME NEW i \in 1 .. k + 1 PROVE t[6 * q + i] = f[i]
  <2>1. CASE i \in 1 .. k
    <3>1. 6 * q + i \in 1 .. n
      BY <1>1, <2>1
    <3> QED BY <1>3, <2>1, <3>1 DEF Grown
  <2>2. CASE i = k + 1
    BY <1>1, <2>2
  <2> QED BY <2>1, <2>2
<1> QED BY <1>2, <1>4 DEF Ends

LEMMA FramedEnds == Framed <=> Ends(UpBytes, Total, tx_packet, Partial)
BY DEF Framed, Ends

\* Taking whole packets away leaves the part of the next one where it is.
LEMMA FramedTaken ==
    ASSUME Framed, Partial \in Nat, Total' \in Nat, Total = Total' + 6,
           Shifted(UpBytes, UpBytes', Total'), Partial' = Partial, tx_packet' = tx_packet
    PROVE  Framed'
<1> DEFINE n == Total'
           s == UpBytes
           t == UpBytes'
           p == Partial
           f == tx_packet
<1>1. Ends(s, n + 6, f, p) /\ Shifted(s, t, n) /\ n \in Nat /\ p \in Nat
  BY FramedEnds
<1>2. Framed' <=> Ends(t, n, f, p)
  BY DEF Framed, Ends
<1> HIDE DEF n, s, t, p, f
<1>3. Ends(t, n, f, p)
  BY <1>1, EndsShifted
<1> QED BY <1>2, <1>3

LEMMA FramedKept ==
    ASSUME Framed, UpBytes' = UpBytes, Partial' = Partial, Partial = 0 \/ tx_packet' = tx_packet
    PROVE  Framed' /\ Up' = Up
<1>1. Total' = Total /\ Up' = Up
  BY UpKept
<1> QED BY <1>1 DEF Framed

\* A byte that does not complete a packet.
LEMMA FramedPart ==
    ASSUME TypeOK, Framed, NEW k \in 0 .. 4, Partial = k, Partial' = k + 1,
           UpBytes' = Append(UpBytes, tx_packet[k + 1]), tx_packet' = tx_packet
    PROVE  Framed' /\ Up' = Up
<1>1. Total \in Nat /\ tx_packet \in [1 .. 6 -> Byte]
  BY BytesShape DEF TypeOK, BoardTypeOK, CpTypeOK
<1>2. tx_packet[k + 1] \in Byte
  BY <1>1
<1>3. Total % 6 # 5
  BY DEF Framed
<1>4. /\ Up' = Up /\ Total' = Total + 1 /\ UpBytes'[Total + 1] = tx_packet[k + 1]
      /\ \A i \in 1 .. Total : UpBytes'[i] = UpBytes[i]
  BY <1>2, <1>3, UpPart
<1> DEFINE n == Total
           s == UpBytes
           t == UpBytes'
           f == tx_packet
<1>5. Ends(s, n, f, k) /\ n \in Nat
  BY <1>1, FramedEnds
<1>6. Grown(s, t, n) /\ t[n + 1] = f[k + 1]
  BY <1>4 DEF Grown
<1>7. Framed' <=> Ends(t, n + 1, f, k + 1)
  BY <1>4 DEF Framed, Ends
<1> HIDE DEF n, s, t, f
<1>8. Ends(t, n + 1, f, k + 1)
  BY <1>5, <1>6, EndsGrown
<1> QED BY <1>4, <1>7, <1>8

LEMMA FramedWhole ==
    ASSUME TypeOK, Framed, Partial = 5, Partial' = 0, UpBytes' = Append(UpBytes, tx_packet[6])
    PROVE  Framed' /\ Up' = Append(Up, Sending)
BY UpCompleted DEF Framed

-----------------------------------------------------------------------------
(* The packet layer's transmitter: a step of the processor leaves the      *)
(* wires alone, announces a packet or withdraws one.                       *)

Free == tx_packet_ready = 0 /\ ptx.state = "TX_IDLE"
Sent == tx_packet_ready = 1 /\ ptx.state = "TX_END" /\ tx_packet_sent = 1
Withdrawn == tx_packet_ready = 0 /\ ptx.state = "TX_END"

WiresKept    == UNCHANGED <<tx_packet, tx_packet_ready>>
WiresLowered == tx_packet_ready' = 0 /\ UNCHANGED tx_packet /\ (Free \/ Sent)
WiresRaised  == tx_packet_ready' = 1 /\ (Free \/ Withdrawn)

WireStep == WiresKept \/ WiresLowered \/ WiresRaised

TxTypeOK ==
    /\ ptx \in [state : {"TX_IDLE", "TX_SEND", "TX_SEND_WAIT", "TX_END"}, idx : 0 .. 6]
    /\ tx_packet_ready \in {0, 1} /\ tx_packet_sent \in {0, 1} /\ data_sent \in {0, 1}
    /\ tx_data_en \in {0, 1} /\ phase \in {"idle", "shift", "stop", "done"}
    /\ tx_packet \in [1 .. 6 -> Byte]

\* What an edge of the clock makes of them.
LEMMA TxEdge ==
    ASSUME TxTypeOK, PacketTxClock
    PROVE  /\ WiresKept /\ Free => Free'
           /\ WiresKept /\ Sent => Sent'
           /\ WiresKept /\ Withdrawn => Free'
           /\ WiresKept /\ tx_packet_ready = 1 => tx_packet_ready' = 1
           /\ WiresLowered /\ Free => Free'
           /\ WiresLowered /\ Sent => Withdrawn'
           /\ WiresRaised => tx_packet_ready' = 1 /\ ptx'.state = "TX_IDLE"
BY DEF TxTypeOK, PacketTxClock, PacketTxIdle, PacketTxSend, PacketTxSendWait, PacketTxEnd,
       WiresKept, WiresLowered, WiresRaised, Free, Sent, Withdrawn

\* A byte leaves UARTTx: it is the next one of the packet.
Delivers == phase = "shift" /\ ptx.state = "TX_SEND_WAIT" /\ phase' = "stop"

LEMMA TxStep ==
    ASSUME TxTypeOK, TxHandshake, WireStep, PacketTxClock, TransmitterClock
    PROVE  /\ TxHandshake'
           /\ \/ /\ Delivers /\ WiresKept /\ ptx' = ptx /\ port_in' = Append(port_in, byte)
                 /\ byte = tx_packet[ptx.idx] /\ ptx.idx \in 1 .. 6 /\ tx_packet_ready = 1
              \/ /\ ~Delivers /\ port_in' = port_in /\ Partial' = Partial
                 /\ WiresRaised => Partial = 0
                 /\ Busy' <=> (Busy \/ WiresRaised)
<1> USE DEF TxTypeOK
<1>1. TransmitterClock =>
          \/ phase = "shift" /\ phase' = "stop" /\ port_in' = Append(port_in, byte)
             /\ UNCHANGED <<data_sent, byte>>
          \/ /\ port_in' = port_in
             /\ \/ phase = "idle" /\ tx_data_en = 0 /\ phase' = "idle" /\ data_sent' = 0 /\ byte' = byte
                \/ phase = "idle" /\ tx_data_en = 1 /\ phase' = "shift" /\ byte' = tx_data
                   /\ data_sent' = data_sent
                \/ phase \in {"shift", "stop"} /\ phase' = phase /\ UNCHANGED <<data_sent, byte>>
                \/ phase \in {"stop", "done"} /\ tx_data_en = 0 /\ phase' = "idle" /\ data_sent' = 0
                   /\ byte' = byte
                \/ phase \in {"stop", "done"} /\ tx_data_en = 1 /\ phase' = "done" /\ data_sent' = 1
                   /\ byte' = byte
  BY DEF TransmitterClock, Transmitter!Idle, Transmitter!Accept, Transmitter!Shift,
         Transmitter!StopBit, Transmitter!Acknowledge, Transmitter!Deliver, Transmitter!byteTxVars
<1>2. CASE ptx.state = "TX_IDLE"
  <2>1. PacketTxIdle
    BY <1>2 DEF PacketTxClock, PacketTxSend, PacketTxSendWait, PacketTxEnd
  <2> QED BY <1>1, <1>2, <2>1 DEF TxHandshake, PacketTxIdle, Delivers, ByteIdle, ByteLeft,
             Partial, Delivered, Busy, WireStep, WiresKept, WiresLowered, WiresRaised, Free, Sent, Withdrawn
<1>3. CASE ptx.state = "TX_SEND"
  <2>1. PacketTxSend
    BY <1>3 DEF PacketTxClock, PacketTxIdle, PacketTxSendWait, PacketTxEnd
  <2> QED BY <1>1, <1>3, <2>1 DEF TxHandshake, PacketTxSend, Delivers, ByteIdle, ByteLeft,
             Partial, Delivered, Busy, WireStep, WiresKept, WiresLowered, WiresRaised, Free, Sent, Withdrawn
<1>4. CASE ptx.state = "TX_SEND_WAIT"
  <2>1. PacketTxSendWait
    BY <1>4 DEF PacketTxClock, PacketTxIdle, PacketTxSend, PacketTxEnd
  <2> QED BY <1>1, <1>4, <2>1 DEF TxHandshake, PacketTxSendWait, Delivers, ByteIdle, ByteLeft,
             Partial, Delivered, Busy, WireStep, WiresKept, WiresLowered, WiresRaised, Free, Sent, Withdrawn
<1>5. CASE ptx.state = "TX_END"
  <2>1. PacketTxEnd
    BY <1>5 DEF PacketTxClock, PacketTxIdle, PacketTxSend, PacketTxSendWait
  <2> QED BY <1>1, <1>5, <2>1 DEF TxHandshake, PacketTxEnd, Delivers, ByteIdle, ByteLeft,
             Partial, Delivered, Busy, WireStep, WiresKept, WiresLowered, WiresRaised, Free, Sent, Withdrawn
<1> QED BY <1>2, <1>3, <1>4, <1>5

\* What the edge makes of the packets on their way up.
UpStays == Up' = Up /\ (Busy' <=> (Busy \/ WiresRaised))
UpGrows == Up' = Append(Up, Sending) /\ Busy /\ ~Busy' /\ WiresKept

LEMMA BoardUp ==
    ASSUME TypeOK, TxHandshake, Framed, WireStep, PacketTxClock, TransmitterClock,
           UNCHANGED <<ringVars, found, scratch>>
    PROVE  TxHandshake' /\ Framed' /\ (UpStays \/ UpGrows)
<1>1. TxTypeOK /\ byte \in Byte
  BY DEF TypeOK, BoardTypeOK, CpTypeOK, PacketTypeOK, TxTypeOK
<1>2. found' = found /\ scratch' = scratch /\ Ring' = Ring
  BY DEF ringVars, Ring, InRing
<1>3. /\ TxHandshake'
      /\ \/ /\ Delivers /\ WiresKept /\ ptx' = ptx /\ port_in' = Append(port_in, byte)
            /\ byte = tx_packet[ptx.idx] /\ ptx.idx \in 1 .. 6 /\ tx_packet_ready = 1
         \/ /\ ~Delivers /\ port_in' = port_in /\ Partial' = Partial
            /\ WiresRaised => Partial = 0
            /\ Busy' <=> (Busy \/ WiresRaised)
  BY <1>1, TxStep
<1>4. CASE ~Delivers
  <2>1. UpBytes' = UpBytes
    BY <1>2, <1>3, <1>4 DEF UpBytes
  <2>2. Partial = 0 \/ tx_packet' = tx_packet
    BY <1>3, <1>4 DEF WireStep, WiresKept, WiresLowered
  <2>3. Framed' /\ Up' = Up
    BY <1>3, <1>4, <2>1, <2>2, FramedKept
  <2> QED BY <1>3, <1>4, <2>3 DEF UpStays
<1>5. CASE Delivers
  <2>1. PICK k \in 0 .. 5 : ptx.idx = k + 1 /\ byte = tx_packet[k + 1]
    BY <1>3, <1>5
  <2>2. UpBytes' = Append(UpBytes, tx_packet[k + 1])
    BY <1>1, <1>2, <1>3, <1>5, <2>1, DeliverGrows
  <2>3. /\ Delivered = k /\ Delivered' = k + 1 /\ Partial = k
        /\ Partial' = IF k = 5 THEN 0 ELSE k + 1
        /\ Busy /\ (Busy' <=> k # 5)
        /\ tx_packet' = tx_packet
    BY <1>1, <1>3, <1>5, <2>1 DEF Delivered, Delivers, Partial, Busy, WiresKept
  <2>4. CASE k = 5
    <3>1. UpBytes' = Append(UpBytes, tx_packet[6])
      BY <2>2, <2>4
    <3>2. Framed' /\ Up' = Append(Up, Sending)
      BY <2>3, <2>4, <3>1, FramedWhole
    <3> QED BY <1>3, <1>5, <2>3, <2>4, <3>2 DEF UpGrows
  <2>5. CASE k # 5
    <3>1. k \in 0 .. 4 /\ Partial' = k + 1
      BY <2>3, <2>5
    <3>2. Framed' /\ Up' = Up
      BY <2>2, <2>3, <3>1, FramedPart
    <3>3. ~WiresRaised
      BY <1>1, <1>5 DEF WiresRaised, Free, Withdrawn, Delivers
    <3> QED BY <1>3, <2>3, <2>5, <3>2, <3>3 DEF UpStays
  <2> QED BY <2>4, <2>5
<1> QED BY <1>4, <1>5

-----------------------------------------------------------------------------
(* From the host to the board.                                             *)

RxTypeOK ==
    /\ prx \in [state : {"RX_IDLE", "RX_RECEIVE_WAIT", "RX_RECEIVE", "RX_END"}, idx : 0 .. 6]
    /\ rx_packet \in [1 .. 6 -> Byte] /\ rx_packet_ready \in {0, 1}
    /\ rx_data_en \in {0, 1} /\ rx_data \in Byte /\ port_out \in Seq(Byte)

\* Nothing comes down: the packet stays ready.
LEMMA RxIdle ==
    ASSUME RxTypeOK, DownIdle, PacketRxClock, ReceiverClock
    PROVE  /\ DownIdle' /\ prx' = prx /\ rx_packet' = rx_packet
           /\ rx_packet_ready' = rx_packet_ready /\ port_out' = port_out
BY DEF RxTypeOK, DownIdle, PacketRxClock, PacketRxIdle, PacketRxReceive, PacketRxReceiveWait,
       PacketRxEnd, ReceiverClock, Receiver!Rest, Receiver!Begin, Receiver!Shift, Receiver!Report,
       Receiver!byteRxVars

\* The bytes of the packet that comes down.
DownBytes == [i \in 1 .. 6 |-> DownByte(i)]

\* DownShape when k bytes have been reported.
Shape(k, state, idx, ready, en) ==
    /\ ready = 1 => state = "RX_END"
    /\ \/ k = 0 /\ state = "RX_IDLE"
       \/ k = 0 /\ state = "RX_END" /\ ready = 1
       \/ k = 0 /\ state = "RX_RECEIVE" /\ idx = 0 /\ en = 0
       \/ k > 0 /\ state = "RX_RECEIVE" /\ idx = k - 1 /\ en = 1
       \/ k > 0 /\ state = "RX_RECEIVE_WAIT" /\ idx = k /\ (k < 6 \/ en = 1)
       \/ k \in 1 .. 5 /\ state = "RX_RECEIVE" /\ idx = k /\ en = 0
       \/ k = 6 /\ state = "RX_END" /\ en = 1

LEMMA ShapeOfDown ==
    DownShape <=> LET k == 6 - Len(port_out) IN
                  k \in 0 .. 6 /\ Shape(k, prx.state, prx.idx, rx_packet_ready, rx_data_en)
BY DEF DownShape, Shape

Left(s, n, l) == l = Len(s) /\ l = 6 - n

\* The first byte of the port is the next one of the packet.
LEMMA PortTail ==
    ASSUME NEW s \in Seq(Byte), NEW n \in 0 .. 5, NEW l \in Nat, Left(s, n, l)
    PROVE  /\ Head(s) = s[(n + 1) - n] /\ Tail(s) \in Seq(Byte)
           /\ n + 1 = 6 - Len(Tail(s))
           /\ \A i \in 1 .. 6 : i > n + 1 => Tail(s)[i - (n + 1)] = s[i - n]
<1>1. s # <<>>
  <2>1. s = <<>> => Len(s) = 0
    OBVIOUS
  <2> QED BY <2>1 DEF Left
<1>2. /\ Head(s) = s[1] /\ Tail(s) \in Seq(Byte) /\ Len(Tail(s)) = Len(s) - 1
      /\ \A i \in 1 .. Len(s) - 1 : Tail(s)[i] = s[i + 1]
  BY <1>1, HeadTailProperties
<1>3. n + 1 = 6 - Len(Tail(s)) /\ (n + 1) - n = 1
  BY <1>2 DEF Left
<1>4. ASSUME NEW i \in 1 .. 6, i > n + 1
      PROVE  Tail(s)[i - (n + 1)] = s[i - n]
  <2>1. PICK j \in 1 .. l - 1 : j = i - (n + 1) /\ j + 1 = i - n
    BY <1>4 DEF Left
  <2>2. Tail(s)[j] = s[j + 1]
    BY <1>2, <2>1 DEF Left
  <2> QED BY <2>1, <2>2
<1> QED BY <1>2, <1>3, <1>4

RxRegisters ==
    /\ prx \in [state : {"RX_IDLE", "RX_RECEIVE_WAIT", "RX_RECEIVE", "RX_END"}, idx : 0 .. 6]
    /\ rx_packet \in [1 .. 6 -> Byte] /\ rx_packet_ready \in {0, 1} /\ rx_data_en \in {0, 1}

\* UARTRx has reported n bytes of the packet, then m.
Moved(n, m) ==
    \/ rx_data_en = 1 /\ m = n /\ UNCHANGED <<rx_data, rx_data_en>>
    \/ rx_data_en = 1 /\ m = n /\ n < 6 /\ rx_data_en' = 0
    \/ rx_data_en = 0 /\ m = n /\ rx_data_en' = 0
    \/ rx_data_en = 0 /\ m = n + 1 /\ rx_data_en' = 1

LEMMA ShapeStep ==
    ASSUME RxRegisters, PacketRxClock, NEW n \in 0 .. 6, NEW m \in 0 .. 6, Moved(n, m),
           Shape(n, prx.state, prx.idx, rx_packet_ready, rx_data_en)
    PROVE  /\ Shape(m, prx'.state, prx'.idx, rx_packet_ready', rx_data_en')
           /\ rx_packet_ready' = 1 /\ rx_packet_ready = 0 => m = 6
           /\ rx_packet_ready' = 1 /\ rx_packet_ready = 1 => rx_packet' = rx_packet
           /\ prx.state # "RX_IDLE" => prx'.state # "RX_IDLE"
<1>1. CASE prx.state = "RX_IDLE"
  BY <1>1 DEF RxRegisters, Moved, Shape, PacketRxClock, PacketRxIdle, PacketRxReceive,
     PacketRxReceiveWait, PacketRxEnd
<1>2. CASE prx.state = "RX_RECEIVE"
  BY <1>2 DEF RxRegisters, Moved, Shape, PacketRxClock, PacketRxIdle, PacketRxReceive,
     PacketRxReceiveWait, PacketRxEnd
<1>3. CASE prx.state = "RX_RECEIVE_WAIT"
  BY <1>3 DEF RxRegisters, Moved, Shape, PacketRxClock, PacketRxIdle, PacketRxReceive,
     PacketRxReceiveWait, PacketRxEnd
<1>4. CASE prx.state = "RX_END"
  BY <1>4 DEF RxRegisters, Moved, Shape, PacketRxClock, PacketRxIdle, PacketRxReceive,
     PacketRxReceiveWait, PacketRxEnd
<1> QED BY <1>1, <1>2, <1>3, <1>4 DEF RxRegisters

\* Byte i of a packet q of which k bytes have been reported.
ByteAt(q, k, i, state, idx, data, packet) ==
    IF i > k THEN q[i]
    ELSE IF state = "RX_RECEIVE" /\ i = idx + 1 THEN data
    ELSE packet[i]

LEMMA ByteStep ==
    ASSUME RxRegisters, PacketRxClock, NEW n \in 0 .. 6, NEW m \in 0 .. 6, Moved(n, m),
           Shape(n, prx.state, prx.idx, rx_packet_ready, rx_data_en),
           NEW q, m = n + 1 => rx_data' = q[n + 1], NEW i \in 1 .. 6
    PROVE  ByteAt(q, m, i, prx'.state, prx'.idx, rx_data', rx_packet') =
           ByteAt(q, n, i, prx.state, prx.idx, rx_data, rx_packet)
<1>1. CASE prx.state = "RX_IDLE"
  BY <1>1 DEF RxRegisters, Moved, Shape, ByteAt, PacketRxClock, PacketRxIdle, PacketRxReceive,
     PacketRxReceiveWait, PacketRxEnd
<1>2. CASE prx.state = "RX_RECEIVE"
  BY <1>2 DEF RxRegisters, Moved, Shape, ByteAt, PacketRxClock, PacketRxIdle, PacketRxReceive,
     PacketRxReceiveWait, PacketRxEnd
<1>3. CASE prx.state = "RX_RECEIVE_WAIT"
  BY <1>3 DEF RxRegisters, Moved, Shape, ByteAt, PacketRxClock, PacketRxIdle, PacketRxReceive,
     PacketRxReceiveWait, PacketRxEnd
<1>4. CASE prx.state = "RX_END"
  BY <1>4 DEF RxRegisters, Moved, Shape, ByteAt, PacketRxClock, PacketRxIdle, PacketRxReceive,
     PacketRxReceiveWait, PacketRxEnd
<1> QED BY <1>1, <1>2, <1>3, <1>4 DEF RxRegisters

LEMMA RxStep ==
    ASSUME RxTypeOK, DownShape, PacketRxClock, ReceiverClock
    PROVE  /\ DownShape' /\ Down' = Down /\ port_out' \in Seq(Byte)
           /\ rx_packet_ready' = 1 /\ rx_packet_ready = 0 => port_out' = <<>>
           /\ rx_packet_ready' = 1 /\ rx_packet_ready = 1 => rx_packet' = rx_packet
           /\ prx.state # "RX_IDLE" => prx'.state # "RX_IDLE"
<1>1. PICK n \in 0 .. 6 : n = 6 - Len(port_out)
                          /\ Shape(n, prx.state, prx.idx, rx_packet_ready, rx_data_en)
  BY ShapeOfDown
<1> DEFINE q == [i \in 1 .. 6 |-> port_out[i - n]]
<1>2. \A i \in 1 .. 6 : i > n => port_out[i - n] = q[i]
  OBVIOUS
<1>3. port_out # <<>> => n < 6
  BY <1>1 DEF RxTypeOK
<1>4. n + 1 \in 1 .. 6 => q[n + 1] = port_out[(n + 1) - n]
  OBVIOUS
<1>5. \A i \in 1 .. 6 : i > n + 1 => q[i] = port_out[i - n]
  OBVIOUS
<1> HIDE DEF q
<1>6. PICK m \in 0 .. 6 :
          /\ m = 6 - Len(port_out') /\ port_out' \in Seq(Byte)
          /\ Moved(n, m) /\ (m = n + 1 => rx_data' = q[n + 1])
          /\ \A i \in 1 .. 6 : i > m => port_out'[i - m] = q[i]
  <2>1. CASE port_out # <<>> /\ Receiver!Report(Head(port_out)) /\ port_out' = Tail(port_out)
    <3>1. n \in 0 .. 5 /\ port_out \in Seq(Byte)
      BY <1>1, <1>3, <2>1 DEF RxTypeOK
    <3>2. /\ Head(port_out) = port_out[(n + 1) - n] /\ Tail(port_out) \in Seq(Byte)
          /\ n + 1 = 6 - Len(Tail(port_out))
          /\ \A i \in 1 .. 6 : i > n + 1 => Tail(port_out)[i - (n + 1)] = port_out[i - n]
      <4>1. PICK l \in Nat : Left(port_out, n, l)
        BY <1>1, <3>1 DEF Left
      <4> QED BY <3>1, <4>1, PortTail
    <3>3. n + 1 \in 1 .. 6 /\ n + 1 \in 0 .. 6
      BY <3>1
    <3>4. rx_data_en = 0 /\ rx_data_en' = 1 /\ rx_data' = q[n + 1]
      BY <1>4, <2>1, <3>2, <3>3 DEF Receiver!Report
    <3>5. Moved(n, n + 1)
      BY <3>4 DEF Moved
    <3> QED BY <1>5, <2>1, <3>2, <3>3, <3>4, <3>5
  <2>2. CASE ~(port_out # <<>> /\ Receiver!Report(Head(port_out)) /\ port_out' = Tail(port_out))
    <3>1. Moved(n, n) /\ port_out' = port_out
      BY <1>3, <2>2 DEF ReceiverClock, Receiver!Rest, Receiver!Begin, Receiver!Shift,
         Receiver!byteRxVars, Moved
    <3>2. n # n + 1 /\ port_out \in Seq(Byte)
      BY DEF RxTypeOK
    <3> QED BY <1>1, <1>2, <3>1, <3>2
  <2> QED BY <2>1, <2>2
<1>7. RxRegisters
  BY DEF RxTypeOK, RxRegisters
<1>8. /\ Shape(m, prx'.state, prx'.idx, rx_packet_ready', rx_data_en')
      /\ rx_packet_ready' = 1 /\ rx_packet_ready = 0 => m = 6
      /\ rx_packet_ready' = 1 /\ rx_packet_ready = 1 => rx_packet' = rx_packet
      /\ prx.state # "RX_IDLE" => prx'.state # "RX_IDLE"
  BY <1>1, <1>6, <1>7, ShapeStep
<1>9. DownShape'
  BY <1>6, <1>8 DEF DownShape, Shape
<1>10. m = 6 => port_out' = <<>>
  BY <1>6
<1>11. ASSUME NEW i \in 1 .. 6 PROVE DownBytes'[i] = DownBytes[i]
  <2>1. DownBytes[i] = ByteAt(q, n, i, prx.state, prx.idx, rx_data, rx_packet)
    BY <1>1, <1>2 DEF DownBytes, DownByte, ByteAt
  <2>2. DownBytes'[i] = ByteAt(q, m, i, prx'.state, prx'.idx, rx_data', rx_packet')
    BY <1>6 DEF DownBytes, DownByte, ByteAt
  <2>3. ByteAt(q, m, i, prx'.state, prx'.idx, rx_data', rx_packet') =
        ByteAt(q, n, i, prx.state, prx.idx, rx_data, rx_packet)
    BY <1>1, <1>6, <1>7, ByteStep
  <2> QED BY <2>1, <2>2, <2>3
<1>12. Down' = Down
  <2>1. Down = Unflatten(DownBytes) /\ Down' = Unflatten(DownBytes')
    BY DEF Down, DownBytes
  <2> QED BY <1>11, <2>1, SixBytes
<1> QED BY <1>6, <1>8, <1>9, <1>10, <1>12

\* A packet that is there as a whole.
LEMMA RxArrived ==
    ASSUME RxTypeOK, DownShape, port_out = <<>>, prx.state = "RX_END"
    PROVE  Down = Received /\ rx_data_en = 1
<1>1. 6 - Len(port_out) = 6 /\ rx_data_en = 1
  BY DEF DownShape
<1>2. ASSUME NEW i \in 1 .. 6 PROVE DownBytes[i] = rx_packet[i]
  BY <1>1 DEF DownBytes, DownByte
<1>3. Down = Unflatten(DownBytes)
  BY DEF Down, DownBytes
<1> QED BY <1>1, <1>2, <1>3, SixBytes DEF Received

\* The host writes a packet.
LEMMA RxBegins ==
    ASSUME RxTypeOK, DownIdle, NEW p \in Packet, WritePacket(p),
           UNCHANGED <<prx, rx_packet, rx_packet_ready, rx_data, rx_data_en>>
    PROVE  DownShape' /\ Down' = p /\ port_out' \in Seq(Byte) /\ port_out' # <<>>
<1> DEFINE f == Flatten(p)
<1>1. f \in Seq(Byte) /\ Len(f) = 6
  BY PacketSix
<1>2. port_out' = f
  <2>1. port_out' = <<>> \o f
    BY DEF DownIdle, WritePacket
  <2> HIDE DEF f
  <2> QED BY <1>1, <2>1, ConcatEmptySeq
<1>3. Unflatten(f) = p
  BY RoundTrip
<1> HIDE DEF f
<1>4. 6 - Len(port_out') = 0
  <2>1. 6 - Len(port_out') = 6 - 6
    BY <1>1, <1>2, Zenon
  <2>2. 6 - 6 = 0
    OBVIOUS
  <2> QED BY <2>1, <2>2, Zenon
<1>5. DownShape'
  BY <1>4 DEF DownShape, DownIdle, RxTypeOK
<1>6. ASSUME NEW i \in 1 .. 6 PROVE DownBytes'[i] = f[i]
  <2> DEFINE k == 6 - Len(port_out')
  <2>3. DownBytes'[i] = IF i > k THEN port_out'[i - k]
                        ELSE IF prx'.state = "RX_RECEIVE" /\ i = prx'.idx + 1 THEN rx_data'
                        ELSE rx_packet'[i]
    BY DEF DownBytes, DownByte
  <2>4. k = 0
    BY <1>4
  <2> HIDE DEF k
  <2>5. i > k
    BY <2>4
  <2>1. DownBytes'[i] = port_out'[i - 0]
    BY <2>3, <2>4, <2>5, Zenon
  <2>2. i - 0 = i
    OBVIOUS
  <2> QED BY <1>2, <2>1, <2>2, Zenon
<1>7. Down' = Unflatten(DownBytes')
  BY DEF Down, DownBytes
<1>8. Down' = Unflatten(f)
  BY <1>6, <1>7, SixBytes
<1>9. port_out' # <<>>
  <2>1. Len(<<>>) = 0
    OBVIOUS
  <2> QED BY <1>1, <1>2, <2>1
<1> QED BY <1>1, <1>2, <1>3, <1>5, <1>8, <1>9

-----------------------------------------------------------------------------
(* The processor's step, from the state it is in.                          *)

LEMMA CpAt ==
    ASSUME CpClock
    PROVE  /\ At("CP_IDLE") => CpIdle
           /\ At("CP_PACKET_DECODE") => CpPacketDecode
           /\ At("CP_DELAY") => CpDelay
           /\ At("CP_TX_PACKET_SENT_WAIT") => CpTxPacketSentWait
           /\ At("CP_HANDSHAKE_PREP") => CpHandshakePrep
           /\ At("CP_HANDSHAKE") => CpHandshake
           /\ At("CP_CMD_END_PREP") => CpCmdEndPrep
           /\ At("CP_CMD_END") => CpCmdEnd
           /\ At("CP_STOP") => IF DEVICE_DEBUG THEN CpStop ELSE CpNextCommand
           /\ At("CP_STOP_MODIFIED") => DEVICE_DEBUG /\ CpNextCommand
           /\ At("CP_DEBUG_WRITE_WAIT_PREP") => CpDebugWriteWaitPrep
           /\ At("CP_DEBUG_WRITE_WAIT") => CpDebugWriteWait
           /\ At("CP_DEBUG_WRITE_RESTORE") => CpDebugWriteRestore
           /\ At("CP_MEM_FETCH_PREP") => CpMemFetchPrep
           /\ At("CP_MEM_FETCH") => CpMemFetch
           /\ At("CP_MEM_FETCH_END") => CpMemFetchEnd
           /\ At("CP_MEM_WRITE_ADDR_PREP") => CpMemWriteAddrPrep
           /\ At("CP_MEM_WRITE_ADDR") => CpMemWriteAddr
           /\ At("CP_MEM_WRITE_VAL_PREP") => CpMemWriteValPrep
           /\ At("CP_MEM_WRITE_VAL") => CpMemWriteVal
           /\ At("CP_MEM_WRITE_END") => CpMemWriteEnd
           /\ At("CP_FETCH_OP1") => CpFetchOp1
           /\ At("CP_FETCH_OP1_END") => CpFetchOp1End
           /\ At("CP_FETCH_OP2") => CpFetchOp2
           /\ At("CP_FETCH_OP2_END") => CpFetchOp2End
           /\ At("CP_ADD") => CpExecute("CP_ADD", ADD)
           /\ At("CP_MULP2") => CpExecute("CP_MULP2", MULP2)
           /\ At("CP_DIVP2") => CpExecute("CP_DIVP2", DIVP2)
BY SMTT(60) DEF CpClock, CpIdle, CpPacketDecode, CpDelay, CpTxPacketSentWait, CpHandshakePrep,
   CpHandshake,
   CpCmdEndPrep, CpCmdEnd, CpNextCommand, CpStop, Statistics, CpDebugWriteWaitPrep,
   CpDebugWriteWait, CpDebugWriteRestore, CpMemFetchPrep, CpMemFetch, CpMemFetchEnd,
   CpMemWriteAddrPrep, CpMemWriteAddr, CpMemWriteValPrep, CpMemWriteVal, CpMemWriteEnd,
   CpFetchOp1, CpFetchOp2, CpFetchOp, CpFetchOp1End, CpFetchOp2End, CpExecute, At



Waits == {"CP_TX_PACKET_SENT_WAIT", "CP_MEM_WRITE_VAL_PREP"}

\* States that neither wait for the packet layer nor announce a packet.
Others == CpState \ (Announce \cup Waits \cup {"CP_DEBUG_WRITE_WAIT", "CP_DELAY"})

LEMMA HandshakesOf ==
    /\ cp.state \in Waits => (CpHandshakes <=> tx_packet_ready = 1)
    /\ cp.state \in Announce => (CpHandshakes <=> Free)
    /\ cp.state = "CP_DEBUG_WRITE_WAIT" => (CpHandshakes <=> Withdrawn)
    /\ cp.state = "CP_DELAY" =>
           (CpHandshakes <=> /\ Free \/ Withdrawn
                             /\ cp.delay_counter > 0 => Free
                             /\ cp.delay_cycles = 2 /\ cp.delay_restore_state \in Announce)
    /\ cp.state \in Others => (CpHandshakes <=> Free \/ Sent)
<1>1. cp.state \in Announce => cp.state \notin Waits \cup {"CP_DEBUG_WRITE_WAIT", "CP_DELAY"}
  BY DEF Announce, Waits
<1> QED BY <1>1 DEF CpHandshakes, Settled, Free, Sent, Withdrawn, Waits, Others

LEMMA HandshakesAfter ==
    /\ cp'.state \in Waits => (CpHandshakes' <=> tx_packet_ready' = 1)
    /\ cp'.state \in Announce => (CpHandshakes' <=> Free')
    /\ cp'.state = "CP_DEBUG_WRITE_WAIT" => (CpHandshakes' <=> Withdrawn')
    /\ cp'.state = "CP_DELAY" =>
           (CpHandshakes' <=> /\ Free' \/ Withdrawn'
                              /\ cp'.delay_counter > 0 => Free'
                              /\ cp'.delay_cycles = 2 /\ cp'.delay_restore_state \in Announce)
    /\ cp'.state \in Others => (CpHandshakes' <=> Free' \/ Sent')
<1>1. cp'.state \in Announce => cp'.state \notin Waits \cup {"CP_DEBUG_WRITE_WAIT", "CP_DELAY"}
  BY DEF Announce, Waits
<1> QED BY <1>1 DEF CpHandshakes, Settled, Free, Sent, Withdrawn, Waits, Others

\* What cp is one of.
CpRecord ==
    [state : CpState, delay_counter : 0 .. 2, delay_cycles : {1, 2},
     delay_restore_state : CpState, wait_restore_state : CpState,
     mem_op_restore_state : CpState, debug_restore_state : CpState,
     pkt_id : Nibble, pkt_cmd : Nibble, pkt_sub_cmd : Nibble,
     tx_cmd_id : Nibble, mem_fetch_addr : Word, mem_write_addr : Word,
     mem_val : Word, op_1 : Word, op_2 : Word, debug_pkt_type : {REQUEST, RESPONSE}]

\* It stays among the others, with the wires as they are.
StillStep == WiresKept /\ cp.state \in Others /\ cp'.state \in Others

\* Places where it goes on without the packet layer.
LEMMA CpStill ==
    ASSUME cp \in CpRecord, CpPlaces, CpClock,
           cp.state \in {"CP_IDLE", "CP_PACKET_DECODE", "CP_STOP_MODIFIED",
               "CP_DEBUG_WRITE_RESTORE", "CP_MEM_FETCH_END", "CP_MEM_WRITE_END",
               "CP_FETCH_OP1", "CP_FETCH_OP2", "CP_FETCH_OP1_END", "CP_FETCH_OP2_END",
               "CP_ADD", "CP_MULP2", "CP_DIVP2"}
    PROVE  StillStep
<1> USE DEF At, StillStep, Registers, WiresKept, Others, Waits, Announce, CpState, CpRecord
<1>1. CASE cp.state = "CP_IDLE"
  <2>1. CpIdle
    BY <1>1, CpAt DEF At
  <2> QED BY <1>1, <2>1 DEF CpIdle
<1>2. CASE cp.state = "CP_PACKET_DECODE"
  <2>1. CpPacketDecode
    BY <1>2, CpAt DEF At
  <2> QED BY <1>2, <2>1 DEF CpPacketDecode, Decoded
<1>3. CASE cp.state = "CP_STOP_MODIFIED"
  <2>1. CpNextCommand
    BY <1>3, CpAt DEF At
  <2> QED BY <1>3, <2>1 DEF CpNextCommand
<1>4. CASE cp.state = "CP_DEBUG_WRITE_RESTORE"
  <2>1. CpDebugWriteRestore
    BY <1>4, CpAt DEF At
  <2> QED BY <1>4, <2>1 DEF CpDebugWriteRestore, CpPlaces, Place, DebugPlaces, AfterMem
<1>5. CASE cp.state = "CP_MEM_FETCH_END"
  <2>1. CpMemFetchEnd
    BY <1>5, CpAt DEF At
  <2> QED BY <1>5, <2>1 DEF CpMemFetchEnd, AfterMemOp, CpPlaces, Place, FetchPlaces
<1>6. CASE cp.state = "CP_MEM_WRITE_END"
  <2>1. CpMemWriteEnd
    BY <1>6, CpAt DEF At
  <2> QED BY <1>6, <2>1 DEF CpMemWriteEnd, AfterMemOp, CpPlaces, Place, WritePlaces
<1>7. CASE cp.state = "CP_FETCH_OP1"
  <2>1. CpFetchOp1
    BY <1>7, CpAt DEF At
  <2> QED BY <1>7, <2>1 DEF CpFetchOp1, CpFetchOp
<1>8. CASE cp.state = "CP_FETCH_OP2"
  <2>1. CpFetchOp2
    BY <1>8, CpAt DEF At
  <2> QED BY <1>8, <2>1 DEF CpFetchOp2, CpFetchOp
<1>9. CASE cp.state = "CP_FETCH_OP1_END"
  <2>1. CpFetchOp1End
    BY <1>9, CpAt DEF At
  <2> QED BY <1>9, <2>1 DEF CpFetchOp1End
<1>10. CASE cp.state = "CP_FETCH_OP2_END"
  <2>1. CpFetchOp2End
    BY <1>10, CpAt DEF At
  <2> QED BY <1>10, <2>1 DEF CpFetchOp2End
<1>11. CASE cp.state = "CP_ADD"
  <2>1. CpExecute("CP_ADD", ADD)
    BY <1>11, CpAt DEF At
  <2> QED BY <1>11, <2>1 DEF CpExecute
<1>12. CASE cp.state = "CP_MULP2"
  <2>1. CpExecute("CP_MULP2", MULP2)
    BY <1>12, CpAt DEF At
  <2> QED BY <1>12, <2>1 DEF CpExecute
<1>13. CASE cp.state = "CP_DIVP2"
  <2>1. CpExecute("CP_DIVP2", DIVP2)
    BY <1>13, CpAt DEF At
  <2> QED BY <1>13, <2>1 DEF CpExecute
<1> QED BY <1>1, <1>2, <1>3, <1>4, <1>5, <1>6, <1>7, <1>8, <1>9, <1>10, <1>11, <1>12, <1>13

\* It withdraws a packet and delays.
DelayStep ==
    /\ tx_packet_ready' = 0 /\ tx_packet' = tx_packet
    /\ cp'.state = "CP_DELAY" /\ cp'.delay_counter = 0 /\ cp'.delay_cycles = 2
    /\ cp'.delay_restore_state \in Announce

LEMMA CpDelays ==
    ASSUME cp \in CpRecord, CpClock,
           cp.state \in {"CP_HANDSHAKE_PREP", "CP_CMD_END_PREP", "CP_MEM_FETCH_PREP",
                         "CP_MEM_WRITE_ADDR_PREP"}
    PROVE  DelayStep /\ cp.state \in Others
<1> USE DEF At, Lower, NextId, DelayStep, Announce, Others, Waits, CpState, CpRecord
<1>1. CASE cp.state = "CP_HANDSHAKE_PREP"
  <2>1. CpHandshakePrep
    BY <1>1, CpAt DEF At
  <2> QED BY <1>1, <2>1 DEF CpHandshakePrep
<1>2. CASE cp.state = "CP_CMD_END_PREP"
  <2>1. CpCmdEndPrep
    BY <1>2, CpAt DEF At
  <2> QED BY <1>2, <2>1 DEF CpCmdEndPrep
<1>3. CASE cp.state = "CP_MEM_FETCH_PREP"
  <2>1. CpMemFetchPrep
    BY <1>3, CpAt DEF At
  <2> QED BY <1>3, <2>1 DEF CpMemFetchPrep
<1>4. CASE cp.state = "CP_MEM_WRITE_ADDR_PREP"
  <2>1. CpMemWriteAddrPrep
    BY <1>4, CpAt DEF At
  <2> QED BY <1>4, <2>1 DEF CpMemWriteAddrPrep
<1> QED BY <1>1, <1>2, <1>3, <1>4

\* It announces a packet and waits.
AnnounceStep == tx_packet_ready' = 1 /\ cp'.state \in Waits

LEMMA CpAnnounces ==
    ASSUME cp \in CpRecord, CpClock, cp.state \in Announce \cup {"CP_DEBUG_WRITE_WAIT"}
    PROVE  AnnounceStep
<1> USE DEF At, Transmit, Raise, AnnounceStep, Announce, Waits, CpRecord
<1>1. CASE cp.state = "CP_HANDSHAKE"
  <2>1. CpHandshake
    BY <1>1, CpAt DEF At
  <2> QED BY <1>1, <2>1 DEF CpHandshake
<1>2. CASE cp.state = "CP_CMD_END"
  <2>1. CpCmdEnd
    BY <1>2, CpAt DEF At
  <2> QED BY <1>2, <2>1 DEF CpCmdEnd
<1>3. CASE cp.state = "CP_MEM_FETCH"
  <2>1. CpMemFetch
    BY <1>3, CpAt DEF At
  <2> QED BY <1>3, <2>1 DEF CpMemFetch
<1>4. CASE cp.state = "CP_MEM_WRITE_ADDR"
  <2>1. CpMemWriteAddr
    BY <1>4, CpAt DEF At
  <2> QED BY <1>4, <2>1 DEF CpMemWriteAddr
<1>5. CASE cp.state = "CP_MEM_WRITE_VAL"
  <2>1. CpMemWriteVal
    BY <1>5, CpAt DEF At
  <2> QED BY <1>5, <2>1 DEF CpMemWriteVal
<1>6. CASE cp.state = "CP_DEBUG_WRITE_WAIT"
  <2>1. CpDebugWriteWait
    BY <1>6, CpAt DEF At
  <2> QED BY <1>6, <2>1 DEF CpDebugWriteWait
<1> QED BY <1>1, <1>2, <1>3, <1>4, <1>5, <1>6

\* It withdraws a packet for one clock, once it is sent.
StatsStep ==
    \/ WiresKept /\ cp' = cp
    \/ /\ tx_packet_sent = 1 /\ tx_packet_ready' = 0 /\ tx_packet' = tx_packet
       /\ cp'.state = "CP_DEBUG_WRITE_WAIT"

LEMMA StatisticsStep ==
    ASSUME NEW state, NEW type, NEW new, Statistics(state, type, new)
    PROVE  \/ WiresKept /\ cp' = cp
           \/ /\ DEVICE_DEBUG /\ tx_packet_sent = 1
              /\ tx_packet_ready' = 0 /\ tx_packet' = tx_packet
              /\ cp' = [new EXCEPT !.debug_pkt_type = type, !.state = "CP_DEBUG_WRITE_WAIT"]
BY DEF Statistics, commandProcessorVars, WiresKept

LEMMA CpStats ==
    ASSUME cp \in CpRecord, CpClock, cp.state \in {"CP_STOP", "CP_DEBUG_WRITE_WAIT_PREP"}
    PROVE  (StatsStep \/ StillStep) /\ cp.state \in Others
<1> DEFINE n == [cp EXCEPT !.debug_restore_state = "CP_STOP_MODIFIED"]
<1>1. cp.state \in Others /\ "CP_IDLE" \in Others
  BY DEF Others, Announce, Waits, CpState
<1>2. CASE CpStop
  <2>1. \/ WiresKept /\ cp' = cp
        \/ /\ tx_packet_sent = 1 /\ tx_packet_ready' = 0 /\ tx_packet' = tx_packet
           /\ cp' = [n EXCEPT !.debug_pkt_type = REQUEST, !.state = "CP_DEBUG_WRITE_WAIT"]
    BY <1>2, StatisticsStep DEF CpStop
  <2> QED BY <1>1, <2>1 DEF StatsStep, CpRecord
<1>3. CASE CpNextCommand
  BY <1>1, <1>3 DEF CpNextCommand, Registers, WiresKept, StillStep, CpRecord
<1>4. CASE CpDebugWriteWaitPrep
  <2>1. \/ WiresKept /\ cp' = cp
        \/ /\ tx_packet_sent = 1 /\ tx_packet_ready' = 0 /\ tx_packet' = tx_packet
           /\ cp' = [cp EXCEPT !.debug_pkt_type = RESPONSE, !.state = "CP_DEBUG_WRITE_WAIT"]
    BY <1>4, StatisticsStep DEF CpDebugWriteWaitPrep
  <2> QED BY <1>1, <2>1 DEF StatsStep, CpRecord
<1>5. CpStop \/ CpNextCommand \/ CpDebugWriteWaitPrep
  BY CpAt DEF At
<1> QED BY <1>2, <1>3, <1>4, <1>5

LEMMA CpHandshakesStep ==
    ASSUME CpTypeOK, TxTypeOK, TxHandshake, CpHandshakes, CpPlaces, CpClock, PacketTxClock
    PROVE  WireStep /\ CpHandshakes'
<1>1. cp \in CpRecord /\ cp.state \in CpState
  BY DEF CpTypeOK, CpRecord
<1>2. /\ WiresKept /\ Free => Free'
      /\ WiresKept /\ Sent => Sent'
      /\ WiresKept /\ Withdrawn => Free'
      /\ WiresKept /\ tx_packet_ready = 1 => tx_packet_ready' = 1
      /\ WiresLowered /\ Free => Free'
      /\ WiresLowered /\ Sent => Withdrawn'
      /\ WiresRaised => tx_packet_ready' = 1
  BY TxEdge
<1>3. tx_packet_sent = 1 /\ tx_packet_ready = 1 => Sent
  BY DEF TxHandshake, Sent, TxTypeOK
<1>4. Free => tx_packet_ready = 0 /\ ~Sent
  BY DEF Free, Sent
<1>5. CASE StillStep
  BY <1>2, <1>5, HandshakesOf, HandshakesAfter DEF StillStep, WireStep
<1>6. CASE DelayStep /\ (cp.state \in Others \/ Sent)
  <2>1. Free \/ Sent
    BY <1>6, HandshakesOf
  <2>2. WiresLowered
    BY <1>6, <2>1 DEF DelayStep, WiresLowered
  <2>3. Free' \/ Withdrawn'
    BY <1>2, <2>1, <2>2
  <2>4. ~(0 > 0)
    OBVIOUS
  <2> QED BY <1>6, <2>2, <2>3, <2>4, HandshakesAfter DEF DelayStep, WireStep
<1>7. CASE AnnounceStep /\ cp.state \in Announce \cup {"CP_DEBUG_WRITE_WAIT"}
  <2>1. Free \/ Withdrawn
    BY <1>7, HandshakesOf
  <2>2. WiresRaised
    BY <1>7, <2>1 DEF AnnounceStep, WiresRaised
  <2> QED BY <1>2, <1>7, <2>2, HandshakesAfter DEF AnnounceStep, WireStep
<1>8. CASE StatsStep /\ cp.state \in Others
  <2>1. Free \/ Sent
    BY <1>8, HandshakesOf
  <2>2. CASE WiresKept /\ cp' = cp
    BY <1>2, <1>8, <2>1, <2>2, HandshakesAfter DEF WireStep
  <2>3. CASE /\ tx_packet_sent = 1 /\ tx_packet_ready' = 0 /\ tx_packet' = tx_packet
             /\ cp'.state = "CP_DEBUG_WRITE_WAIT"
    <3>1. WiresLowered
      BY <2>1, <2>3 DEF WiresLowered
    <3>3. Sent
      BY <1>3, <2>1, <2>3 DEF Free, TxHandshake
    <3> QED BY <1>2, <2>3, <3>1, <3>3, HandshakesAfter DEF WireStep
  <2> QED BY <1>8, <2>2, <2>3 DEF StatsStep
<1>9. CASE cp.state = "CP_DELAY"
  <2>1. CpDelay
    BY <1>9, CpAt DEF At
  <2>2. /\ WiresKept /\ cp.delay_counter \in 0 .. 2 /\ cp.delay_cycles = 2
        /\ \/ cp.delay_counter = 2 /\ cp'.state = cp.delay_restore_state
           \/ /\ cp'.state = "CP_DELAY" /\ cp'.delay_cycles = 2
              /\ cp'.delay_restore_state = cp.delay_restore_state
    BY <1>1, <1>9, <2>1, HandshakesOf DEF CpDelay, Registers, WiresKept, CpRecord
  <2>3. (Free \/ Withdrawn) /\ (cp.delay_counter > 0 => Free) /\ cp.delay_restore_state \in Announce
    BY <1>9, HandshakesOf
  <2>4. Free'
    BY <1>2, <2>2, <2>3
  <2> QED BY <2>2, <2>3, <2>4, HandshakesAfter DEF WireStep
<1>10. CASE cp.state = "CP_TX_PACKET_SENT_WAIT"
  <2>1. CpTxPacketSentWait
    BY <1>10, CpAt DEF At
  <2>2. /\ WiresKept
        /\ cp' = cp \/ (tx_packet_sent = 1 /\ cp'.state = cp.wait_restore_state)
    BY <1>1, <2>1 DEF CpTxPacketSentWait, Registers, WiresKept, CpRecord
  <2>3. cp.wait_restore_state \in Others
    BY <1>1, <1>10 DEF CpPlaces, Others, Waits, Announce, CpState
  <2>4. tx_packet_ready = 1 /\ cp.state \in Waits
    BY <1>10, HandshakesOf DEF Waits
  <2> QED BY <1>2, <1>3, <2>2, <2>3, <2>4, HandshakesAfter DEF WireStep
<1>11. CASE cp.state = "CP_MEM_WRITE_VAL_PREP"
  <2>1. CpMemWriteValPrep
    BY <1>11, CpAt DEF At
  <2>2. \/ WiresKept /\ cp' = cp
        \/ tx_packet_sent = 1 /\ DelayStep
    BY <1>1, <2>1 DEF CpMemWriteValPrep, Lower, NextId, commandProcessorVars, WiresKept, DelayStep,
       Announce, CpRecord
  <2>3. tx_packet_ready = 1 /\ cp.state \in Waits
    BY <1>11, HandshakesOf DEF Waits
  <2> QED BY <1>2, <1>3, <1>6, <2>2, <2>3, HandshakesAfter DEF WireStep
<1>12. \/ cp.state \in {"CP_IDLE", "CP_PACKET_DECODE", "CP_STOP_MODIFIED",
               "CP_DEBUG_WRITE_RESTORE", "CP_MEM_FETCH_END", "CP_MEM_WRITE_END",
               "CP_FETCH_OP1", "CP_FETCH_OP2", "CP_FETCH_OP1_END", "CP_FETCH_OP2_END",
               "CP_ADD", "CP_MULP2", "CP_DIVP2"}
       \/ cp.state \in {"CP_HANDSHAKE_PREP", "CP_CMD_END_PREP", "CP_MEM_FETCH_PREP",
                         "CP_MEM_WRITE_ADDR_PREP"}
       \/ cp.state \in Announce \cup {"CP_DEBUG_WRITE_WAIT"}
       \/ cp.state \in {"CP_STOP", "CP_DEBUG_WRITE_WAIT_PREP"}
       \/ cp.state \in {"CP_DELAY", "CP_TX_PACKET_SENT_WAIT", "CP_MEM_WRITE_VAL_PREP"}
  BY <1>1 DEF CpState, Announce
<1> QED BY <1>1, <1>5, <1>6, <1>7, <1>8, <1>9, <1>10, <1>11, <1>12, CpStill, CpDelays,
           CpAnnounces, CpStats

-----------------------------------------------------------------------------
(* Where a step of the processor leads.                                    *)

Pauses == {"CP_DELAY", "CP_TX_PACKET_SENT_WAIT"}

LEMMA PlaceOf ==
    ASSUME CpHandshakes, CpPlaces
    PROVE  /\ cp.state \notin Pauses => Place = cp.state
           /\ cp.state = "CP_DELAY" => Place = cp.delay_restore_state /\ Place \in Announce
           /\ cp.state = "CP_TX_PACKET_SENT_WAIT" =>
                  /\ Place = cp.wait_restore_state
                  /\ Place \in {"CP_STOP", "CP_STOP_MODIFIED", "CP_DEBUG_WRITE_RESTORE",
                                "CP_MEM_FETCH_END", "CP_MEM_WRITE_END"}
<1>1. cp.state = "CP_DELAY" => cp.delay_restore_state \in Announce
  BY HandshakesOf
<1> QED BY <1>1 DEF Pauses, Place, CpPlaces

\* It stays where it is.
Keeps ==
    /\ WiresKept /\ Place' = Place
    /\ cp'.state = "CP_TX_PACKET_SENT_WAIT" =>
           cp.state = "CP_TX_PACKET_SENT_WAIT" /\ cp'.wait_restore_state = cp.wait_restore_state
    /\ cp'.mem_op_restore_state = cp.mem_op_restore_state
    /\ cp'.debug_restore_state = cp.debug_restore_state
    /\ cp'.pkt_cmd = cp.pkt_cmd /\ cp'.pkt_sub_cmd = cp.pkt_sub_cmd
    /\ cp' \in CpRecord

LEMMA CpKeeps ==
    ASSUME cp \in CpRecord, CpHandshakes, CpPlaces, CpClock, cp.state \in Pauses
    PROVE  Keeps
<1>1. CASE cp.state = "CP_DELAY"
  <2>1. CpDelay
    BY <1>1, CpAt DEF At
  <2>2. cp.delay_cycles = 2 /\ cp.delay_restore_state \in Announce /\ cp.delay_counter \in 0 .. 2
    BY <1>1, HandshakesOf DEF CpRecord
  <2>3. WiresKept
    BY <2>1 DEF CpDelay, Registers, WiresKept
  <2>4. CASE cp' = [cp EXCEPT !.state = cp.delay_restore_state] /\ cp.delay_counter = 2
    BY <1>1, <2>2, <2>3, <2>4 DEF Keeps, Place, Announce, CpRecord, CpState
  <2>5. CASE cp' = [cp EXCEPT !.delay_counter = cp.delay_counter + 1] /\ cp.delay_counter # 2
    BY <1>1, <2>2, <2>3, <2>5 DEF Keeps, Place, Announce, CpRecord, CpState
  <2> QED BY <2>1, <2>2, <2>4, <2>5 DEF CpDelay, Registers
<1>2. CASE cp.state = "CP_TX_PACKET_SENT_WAIT"
  <2>1. CpTxPacketSentWait
    BY <1>2, CpAt DEF At
  <2>2. cp.wait_restore_state \in {"CP_STOP", "CP_STOP_MODIFIED", "CP_DEBUG_WRITE_RESTORE",
                                      "CP_MEM_FETCH_END", "CP_MEM_WRITE_END"}
    BY <1>2 DEF CpPlaces
  <2> QED BY <1>2, <2>1, <2>2 DEF CpTxPacketSentWait, Registers, WiresKept, Keeps, Place,
             CpRecord, CpState
<1> QED BY <1>1, <1>2 DEF Pauses

\* It waits.
LEMMA CpStays ==
    ASSUME cp \in CpRecord, cp' = cp, WiresKept
    PROVE  Keeps
BY DEF Keeps, Place

LEMMA KeepsPlaces ==
    ASSUME Keeps, CpPlaces
    PROVE  CpPlaces'
BY DEF Keeps, CpPlaces

LEMMA NotBusy ==
    ASSUME cp.state \in CpState, CpHandshakes, cp.state \notin Waits
    PROVE  ~Busy /\ (WiresKept => ~WiresRaised) /\ (tx_packet_ready' = 0 => ~WiresRaised)
<1>1. Free \/ Sent \/ Withdrawn
  <2>1. \/ cp.state \in Announce \cup {"CP_DELAY", "CP_DEBUG_WRITE_WAIT"}
        \/ cp.state \in Others
    BY DEF Others
  <2> QED BY <2>1, HandshakesOf
<1>2. Sent => Delivered = 6
  BY DEF Sent, Delivered
<1> QED BY <1>1, <1>2 DEF Busy, Free, Sent, Withdrawn, WiresKept, WiresRaised

-----------------------------------------------------------------------------
(* Moves of the processor from place to place.                             *)

SameCommand == cp'.pkt_cmd = cp.pkt_cmd /\ cp'.pkt_sub_cmd = cp.pkt_sub_cmd
SameReturns ==
    /\ cp'.mem_op_restore_state = cp.mem_op_restore_state
    /\ cp'.debug_restore_state = cp.debug_restore_state

\* To q, with the packet layer left alone; q is not a place of a pause.
Passes(q) == WiresKept /\ cp' \in CpRecord /\ cp'.state = q

\* To q, with the last packet withdrawn.
Lowers(q) ==
    /\ tx_packet_ready' = 0 /\ tx_packet' = tx_packet /\ cp' \in CpRecord
    /\ cp'.state = "CP_DELAY" /\ cp'.delay_restore_state = q
    /\ SameCommand /\ SameReturns

\* To q, with a packet of S announced.
Sends(S, q) ==
    /\ tx_packet_ready' = 1 /\ cp' \in CpRecord /\ tx_packet' \in [1 .. 6 -> Byte]
    /\ Sending' \in S
    /\ \/ /\ cp'.state = "CP_TX_PACKET_SENT_WAIT" /\ cp'.wait_restore_state = q
          /\ q # "CP_MEM_WRITE_VAL_PREP"
       \/ cp'.state = "CP_MEM_WRITE_VAL_PREP" /\ q = "CP_MEM_WRITE_VAL_PREP"
    /\ SameCommand /\ SameReturns

LEMMA Announced ==
    ASSUME NEW p \in Packet, tx_packet' = Flatten(p)
    PROVE  Sending' = p /\ tx_packet' \in [1 .. 6 -> Byte]
<1>1. Unflatten(Flatten(p)) = p /\ Flatten(p) \in [1 .. 6 -> Byte]
  BY RoundTrip, PacketSix
<1> QED BY <1>1 DEF Sending

LEMMA CpResponseKind ==
    ASSUME cp \in CpRecord, Decodable, NEW body \in Word
    PROVE  CpResponse(body) \in Acks
BY DEF CpRecord, Decodable, CpResponse, Payload, Acks, Packet, Nibble, HANDSHAKE, ADD, MULP2, DIVP2,
       MEMORY, REQUEST, RESPONSE, OP_1, OP_2, OP_3, DEBUG

LEMMA CpRequestKind ==
    ASSUME cp \in CpRecord, NEW body \in Word
    PROVE  CpRequest(MEM_READ, body) \in Reads /\ CpRequest(MEM_WRITE, body) \in Writes
BY DEF CpRecord, CpRequest, Payload, Reads, Writes, Packet, MEMORY, REQUEST, RESPONSE,
       MEM_READ, MEM_WRITE, OP_1, OP_2, OP_3, DEBUG

LEMMA StatsKind ==
    ASSUME cp \in CpRecord, DEVICE_DEBUG
    PROVE  Payload(cp.pkt_id, cp.debug_pkt_type, MEMORY, DEBUG, 0) \in Debugs
<1>1. 0 \in Word
  BY WordAssumption DEF Word
<1> QED BY <1>1 DEF CpRecord, Payload, Debugs, Packet, MEMORY, DEBUG

\* Updates of the processor's registers.
LEMMA Delayed ==
    ASSUME NEW r \in CpRecord, NEW q \in CpState, NEW s \in CpState, NEW n \in 0 .. 2, NEW m \in {1, 2}
    PROVE  [r EXCEPT !.delay_counter = n, !.delay_cycles = m, !.delay_restore_state = q,
                     !.state = s] \in CpRecord
BY DEF CpRecord

LEMMA Executed ==
    ASSUME NEW r \in CpRecord, NEW q \in CpState, NEW s \in CpState, NEW a \in Word, NEW v \in Word
    PROVE  [r EXCEPT !.mem_write_addr = a, !.mem_val = v, !.mem_op_restore_state = q,
                     !.state = s] \in CpRecord
BY DEF CpRecord

LEMMA Fetched ==
    ASSUME NEW r \in CpRecord, NEW s \in CpState, NEW v \in Word
    PROVE  /\ [r EXCEPT !.op_1 = v, !.state = s] \in CpRecord
           /\ [r EXCEPT !.op_2 = v, !.state = s] \in CpRecord
BY DEF CpRecord

LEMMA Accounted ==
    ASSUME NEW r \in CpRecord, NEW q \in CpState, NEW s \in CpState, NEW t \in {REQUEST, RESPONSE}
    PROVE  /\ [r EXCEPT !.debug_restore_state = q] \in CpRecord
           /\ [r EXCEPT !.debug_pkt_type = t, !.state = s] \in CpRecord
BY DEF CpRecord

LEMMA Accepted ==
    ASSUME NEW r \in CpRecord, NEW s \in CpState, NEW q \in CpState, NEW n \in 0 .. 2, NEW m \in {1, 2},
           NEW t \in {REQUEST, RESPONSE}, NEW i \in Nibble, NEW c \in Nibble, NEW o \in Nibble
    PROVE  [r EXCEPT !.debug_pkt_type = t, !.delay_cycles = m, !.delay_counter = n,
                     !.mem_op_restore_state = q, !.wait_restore_state = q,
                     !.delay_restore_state = q, !.pkt_id = i, !.pkt_cmd = c, !.pkt_sub_cmd = o,
                     !.state = s] \in CpRecord
BY DEF CpRecord

LEMMA CpStates ==
    {"CP_DELAY", "CP_TX_PACKET_SENT_WAIT", "CP_MEM_WRITE_VAL_PREP", "CP_MEM_FETCH_PREP",
     "CP_MEM_WRITE_ADDR_PREP", "CP_DEBUG_WRITE_WAIT_PREP", "CP_CMD_END_PREP",
     "CP_DEBUG_WRITE_WAIT", "CP_STOP_MODIFIED", "CP_IDLE", "CP_PACKET_DECODE",
     "CP_FETCH_OP1_END", "CP_FETCH_OP2_END"} \subseteq CpState
BY DEF CpState

LEMMA Lowering ==
    ASSUME NEW new \in CpRecord, new.pkt_cmd = cp.pkt_cmd, new.pkt_sub_cmd = cp.pkt_sub_cmd,
           new.mem_op_restore_state = cp.mem_op_restore_state,
           new.debug_restore_state = cp.debug_restore_state,
           NEW q \in CpState, Lower(new, q)
    PROVE  Lowers(q)
<1>1. cp' = [new EXCEPT !.delay_counter = 0, !.delay_cycles = 2,
                        !.delay_restore_state = q, !.state = "CP_DELAY"]
  BY DEF Lower
<1>2. cp' \in CpRecord
  <2>1. 0 \in 0 .. 2 /\ 2 \in {1, 2} /\ "CP_DELAY" \in CpState
    BY CpStates
  <2> QED BY <1>1, <2>1, Delayed
<1>3. /\ cp'.state = "CP_DELAY" /\ cp'.delay_restore_state = q
      /\ cp'.pkt_cmd = cp.pkt_cmd /\ cp'.pkt_sub_cmd = cp.pkt_sub_cmd
      /\ cp'.mem_op_restore_state = cp.mem_op_restore_state
      /\ cp'.debug_restore_state = cp.debug_restore_state
  BY <1>1 DEF CpRecord
<1> QED BY <1>2, <1>3 DEF Lower, Lowers, SameCommand, SameReturns

LEMMA NextIdRecord ==
    ASSUME cp \in CpRecord
    PROVE  /\ NextId \in CpRecord /\ NextId.pkt_cmd = cp.pkt_cmd /\ NextId.pkt_sub_cmd = cp.pkt_sub_cmd
           /\ NextId.mem_op_restore_state = cp.mem_op_restore_state
           /\ NextId.debug_restore_state = cp.debug_restore_state
<1>1. (cp.tx_cmd_id + 1) % 16 \in Nibble
  BY DEF CpRecord, Nibble
<1> QED BY <1>1 DEF NextId, CpRecord

LEMMA Transmitting ==
    ASSUME cp \in CpRecord, NEW S, NEW p \in S, S \subseteq Packet, NEW q \in CpState, Transmit(p, q),
           q # "CP_MEM_WRITE_VAL_PREP"
    PROVE  Sends(S, q)
<1>1. cp' = [cp EXCEPT !.wait_restore_state = q, !.state = "CP_TX_PACKET_SENT_WAIT"]
      /\ tx_packet_ready' = 1 /\ tx_packet' = Flatten(p)
  BY DEF Transmit, Raise
<1>2. Sending' = p /\ tx_packet' \in [1 .. 6 -> Byte]
  BY <1>1, Announced
<1>3. cp' \in CpRecord
  BY <1>1, CpStates DEF CpRecord
<1>4. /\ cp'.state = "CP_TX_PACKET_SENT_WAIT" /\ cp'.wait_restore_state = q
      /\ cp'.pkt_cmd = cp.pkt_cmd /\ cp'.pkt_sub_cmd = cp.pkt_sub_cmd
      /\ cp'.mem_op_restore_state = cp.mem_op_restore_state
      /\ cp'.debug_restore_state = cp.debug_restore_state
  BY <1>1 DEF CpRecord
<1> QED BY <1>1, <1>2, <1>3, <1>4 DEF Sends, SameCommand, SameReturns

LEMMA Kinds ==
    /\ Acks \subseteq Packet /\ Reads \subseteq Packet /\ Writes \subseteq Packet
    /\ Debugs \subseteq Packet /\ Requests \subseteq Packet /\ Answers \subseteq Packet
BY DEF Acks, Reads, Writes, Debugs, Requests, Answers

\* A command before it has sent anything.
LEMMA CpDecodes ==
    ASSUME cp \in CpRecord, CpClock, Decodable, cp.state = "CP_PACKET_DECODE"
    PROVE  /\ Passes("CP_HANDSHAKE_PREP") \/ Passes("CP_FETCH_OP1") \/ Passes("CP_FETCH_OP2")
              \/ Passes("CP_ADD") \/ Passes("CP_MULP2") \/ Passes("CP_DIVP2")
           /\ cp.pkt_cmd = HANDSHAKE => Passes("CP_HANDSHAKE_PREP")
           /\ SameCommand /\ SameReturns
<1>1. CpPacketDecode
  BY CpAt DEF At
<1> DEFINE q == Decoded(cp.pkt_cmd, cp.pkt_sub_cmd)
<1>2. q \in {"CP_HANDSHAKE_PREP", "CP_FETCH_OP1", "CP_FETCH_OP2", "CP_ADD", "CP_MULP2", "CP_DIVP2"}
  BY DEF Decodable, Decoded, HANDSHAKE, ADD, MULP2, DIVP2, OP_1, OP_2, OP_3
<1>6. cp.pkt_cmd = HANDSHAKE => q = "CP_HANDSHAKE_PREP"
  BY DEF Decoded, HANDSHAKE, ADD, MULP2, DIVP2
<1>3. cp' = [cp EXCEPT !.state = q] /\ WiresKept
  BY <1>1 DEF CpPacketDecode, Registers, WiresKept
<1> HIDE DEF q
<1>4. cp' \in CpRecord /\ cp'.state = q
  BY <1>2, <1>3 DEF CpRecord, CpState
<1>5. SameCommand /\ SameReturns
  BY <1>3 DEF CpRecord, SameCommand, SameReturns
<1> QED BY <1>2, <1>3, <1>4, <1>5, <1>6 DEF Passes

LEMMA CpLowers ==
    ASSUME cp \in CpRecord, CpClock
    PROVE  /\ cp.state = "CP_HANDSHAKE_PREP" => Lowers("CP_HANDSHAKE")
           /\ cp.state = "CP_CMD_END_PREP" => Lowers("CP_CMD_END")
           /\ cp.state = "CP_MEM_FETCH_PREP" => Lowers("CP_MEM_FETCH")
           /\ cp.state = "CP_MEM_WRITE_ADDR_PREP" => Lowers("CP_MEM_WRITE_ADDR")
           /\ cp.state = "CP_MEM_WRITE_VAL_PREP" =>
                  IF tx_packet_sent = 1 THEN Lowers("CP_MEM_WRITE_VAL") ELSE WiresKept /\ cp' = cp
<1>1. {"CP_HANDSHAKE", "CP_CMD_END", "CP_MEM_FETCH", "CP_MEM_WRITE_ADDR", "CP_MEM_WRITE_VAL"} \subseteq CpState
  BY DEF CpState
<1>2. ASSUME cp.state = "CP_HANDSHAKE_PREP" PROVE Lowers("CP_HANDSHAKE")
  <2>1. CpHandshakePrep
    BY <1>2, CpAt DEF At
  <2>2. Lower(cp, "CP_HANDSHAKE")
    BY <2>1 DEF CpHandshakePrep
  <2>3. cp \in CpRecord /\ Lower(cp, "CP_HANDSHAKE") => Lowers("CP_HANDSHAKE")
    BY <1>1, Lowering
  <2> QED BY <2>2, <2>3
<1>3. ASSUME cp.state = "CP_CMD_END_PREP" PROVE Lowers("CP_CMD_END")
  <2>1. CpCmdEndPrep
    BY <1>3, CpAt DEF At
  <2>2. Lower(cp, "CP_CMD_END")
    BY <2>1 DEF CpCmdEndPrep
  <2>3. cp \in CpRecord /\ Lower(cp, "CP_CMD_END") => Lowers("CP_CMD_END")
    BY <1>1, Lowering
  <2> QED BY <2>2, <2>3
<1>4. ASSUME cp.state = "CP_MEM_FETCH_PREP" PROVE Lowers("CP_MEM_FETCH")
  <2>1. CpMemFetchPrep
    BY <1>4, CpAt DEF At
  <2>2. Lower(NextId, "CP_MEM_FETCH")
    BY <2>1 DEF CpMemFetchPrep
  <2>3. NextId \in CpRecord /\ Lower(NextId, "CP_MEM_FETCH") => Lowers("CP_MEM_FETCH")
    BY <1>1, Lowering, NextIdRecord
  <2> QED BY <2>2, <2>3, NextIdRecord
<1>5. ASSUME cp.state = "CP_MEM_WRITE_ADDR_PREP" PROVE Lowers("CP_MEM_WRITE_ADDR")
  <2>1. CpMemWriteAddrPrep
    BY <1>5, CpAt DEF At
  <2>2. Lower(NextId, "CP_MEM_WRITE_ADDR")
    BY <2>1 DEF CpMemWriteAddrPrep
  <2>3. NextId \in CpRecord /\ Lower(NextId, "CP_MEM_WRITE_ADDR") => Lowers("CP_MEM_WRITE_ADDR")
    BY <1>1, Lowering, NextIdRecord
  <2> QED BY <2>2, <2>3, NextIdRecord
<1>6. ASSUME cp.state = "CP_MEM_WRITE_VAL_PREP" PROVE IF tx_packet_sent = 1 THEN Lowers("CP_MEM_WRITE_VAL") ELSE WiresKept /\ cp' = cp
  <2>1. CpMemWriteValPrep
    BY <1>6, CpAt DEF At
  <2>2. IF tx_packet_sent = 1 THEN Lower(NextId, "CP_MEM_WRITE_VAL") ELSE WiresKept /\ cp' = cp
    BY <2>1 DEF CpMemWriteValPrep, commandProcessorVars, WiresKept
  <2>3. NextId \in CpRecord /\ Lower(NextId, "CP_MEM_WRITE_VAL") => Lowers("CP_MEM_WRITE_VAL")
    BY <1>1, Lowering, NextIdRecord
  <2> QED BY <2>2, <2>3, NextIdRecord
<1> QED BY <1>2, <1>3, <1>4, <1>5, <1>6

LEMMA CpSends ==
    ASSUME cp \in CpRecord, CpClock
    PROVE  /\ cp.state = "CP_HANDSHAKE" /\ Decodable =>
                  Sends(Acks, IF DEVICE_DEBUG THEN "CP_STOP_MODIFIED" ELSE "CP_STOP")
           /\ cp.state = "CP_CMD_END" /\ Decodable => Sends(Acks, "CP_STOP")
           /\ cp.state = "CP_MEM_FETCH" => Sends(Reads, "CP_MEM_FETCH_END")
           /\ cp.state = "CP_MEM_WRITE_ADDR" => Sends(Writes, "CP_MEM_WRITE_VAL_PREP")
           /\ cp.state = "CP_MEM_WRITE_VAL" => Sends(Writes, "CP_MEM_WRITE_END")
           /\ cp.state = "CP_DEBUG_WRITE_WAIT" /\ DEVICE_DEBUG =>
                  Sends(Debugs, "CP_DEBUG_WRITE_RESTORE")
<1>1. {"CP_STOP", "CP_STOP_MODIFIED", "CP_MEM_FETCH_END", "CP_MEM_WRITE_END", "CP_DEBUG_WRITE_RESTORE"} \subseteq CpState
  BY DEF CpState
<1>2. HandshakeBody \in Word /\ 0 \in Word
  BY WordAssumption DEF Word
<1>3. cp.mem_val \in Word /\ cp.mem_fetch_addr \in Word /\ cp.mem_write_addr \in Word
  BY DEF CpRecord
<1>4. ASSUME cp.state = "CP_HANDSHAKE", Decodable
      PROVE  Sends(Acks, IF DEVICE_DEBUG THEN "CP_STOP_MODIFIED" ELSE "CP_STOP")
  <2> DEFINE q == IF DEVICE_DEBUG THEN "CP_STOP_MODIFIED" ELSE "CP_STOP"
  <2>1. Transmit(CpResponse(HandshakeBody), q)
    <3>1. CpHandshake
      BY <1>4, CpAt DEF At
    <3> QED BY <3>1 DEF CpHandshake
  <2>2. CpResponse(HandshakeBody) \in Acks
    BY <1>2, <1>4, CpResponseKind
  <2>3. q \in CpState /\ q # "CP_MEM_WRITE_VAL_PREP"
    BY <1>1
  <2> HIDE DEF q
  <2>4. Sends(Acks, q)
    BY <2>1, <2>2, <2>3, Transmitting, Kinds
  <2> QED BY <2>4 DEF q
<1>5. ASSUME cp.state = "CP_CMD_END", Decodable PROVE Sends(Acks, "CP_STOP")
  <2>1. CpCmdEnd
    BY <1>5, CpAt DEF At
  <2>2. Transmit(CpResponse(0), "CP_STOP")
    BY <2>1 DEF CpCmdEnd
  <2>3. CpResponse(0) \in Acks
    BY <1>2, <1>5, CpResponseKind
  <2> QED BY <1>1, <2>2, <2>3, Transmitting, Kinds
<1>6. ASSUME cp.state = "CP_MEM_FETCH" PROVE Sends(Reads, "CP_MEM_FETCH_END")
  <2>1. CpMemFetch
    BY <1>6, CpAt DEF At
  <2>2. Transmit(CpRequest(MEM_READ, cp.mem_fetch_addr), "CP_MEM_FETCH_END")
    BY <2>1 DEF CpMemFetch
  <2>3. CpRequest(MEM_READ, cp.mem_fetch_addr) \in Reads
    BY <1>3, CpRequestKind
  <2> QED BY <1>1, <2>2, <2>3, Transmitting, Kinds
<1>7. ASSUME cp.state = "CP_MEM_WRITE_VAL" PROVE Sends(Writes, "CP_MEM_WRITE_END")
  <2>1. CpMemWriteVal
    BY <1>7, CpAt DEF At
  <2>2. Transmit(CpRequest(MEM_WRITE, cp.mem_val), "CP_MEM_WRITE_END")
    BY <2>1 DEF CpMemWriteVal
  <2>3. CpRequest(MEM_WRITE, cp.mem_val) \in Writes
    BY <1>3, CpRequestKind
  <2> QED BY <1>1, <2>2, <2>3, Transmitting, Kinds
<1>8. ASSUME cp.state = "CP_DEBUG_WRITE_WAIT", DEVICE_DEBUG PROVE Sends(Debugs, "CP_DEBUG_WRITE_RESTORE")
  <2>1. CpDebugWriteWait
    BY <1>8, CpAt DEF At
  <2>2. Transmit(Payload(cp.pkt_id, cp.debug_pkt_type, MEMORY, DEBUG, 0), "CP_DEBUG_WRITE_RESTORE")
    BY <2>1 DEF CpDebugWriteWait
  <2>3. Payload(cp.pkt_id, cp.debug_pkt_type, MEMORY, DEBUG, 0) \in Debugs
    BY <1>8, StatsKind
  <2> QED BY <1>1, <2>2, <2>3, Transmitting, Kinds
<1>9. ASSUME cp.state = "CP_MEM_WRITE_ADDR" PROVE Sends(Writes, "CP_MEM_WRITE_VAL_PREP")
  <2> DEFINE p == CpRequest(MEM_WRITE, cp.mem_write_addr)
  <2>1. CpMemWriteAddr
    BY <1>9, CpAt DEF At
  <2>2. p \in Writes /\ p \in Packet
    BY <1>3, CpRequestKind, Kinds
  <2>3. cp' = [cp EXCEPT !.state = "CP_MEM_WRITE_VAL_PREP"] /\ tx_packet' = Flatten(p) /\ tx_packet_ready' = 1
    BY <2>1 DEF CpMemWriteAddr, Raise
  <2> HIDE DEF p
  <2>4. Sending' \in Writes /\ tx_packet' \in [1 .. 6 -> Byte]
    BY <2>2, <2>3, Announced
  <2>5. cp' \in CpRecord /\ cp'.state = "CP_MEM_WRITE_VAL_PREP" /\ SameCommand /\ SameReturns
    BY <2>3 DEF CpRecord, CpState, SameCommand, SameReturns
  <2> QED BY <2>3, <2>4, <2>5 DEF Sends
<1> QED BY <1>4, <1>5, <1>6, <1>7, <1>8, <1>9

LEMMA CpFetches ==
    ASSUME cp \in CpRecord, CpClock, Received \in Packet
    PROVE  /\ cp.state \in {"CP_FETCH_OP1", "CP_FETCH_OP2"} =>
                  /\ Passes("CP_MEM_FETCH_PREP") /\ SameCommand
                  /\ cp'.mem_op_restore_state \in {"CP_FETCH_OP1_END", "CP_FETCH_OP2_END"}
                  /\ cp'.debug_restore_state = cp.debug_restore_state
           /\ cp.state \in {"CP_ADD", "CP_MULP2", "CP_DIVP2"} =>
                  /\ Passes("CP_MEM_WRITE_ADDR_PREP") /\ SameCommand
                  /\ cp'.mem_op_restore_state = "CP_CMD_END_PREP"
                  /\ cp'.debug_restore_state = cp.debug_restore_state
<1>1. Body(rx_packet) \in Word
  BY DEF Received, Unflatten, Payload, Packet
<1>2. cp.op_1 \in Word /\ cp.op_2 \in Word
  BY DEF CpRecord
<1>3. ASSUME cp.state \in {"CP_FETCH_OP1", "CP_FETCH_OP2"}
      PROVE  /\ Passes("CP_MEM_FETCH_PREP") /\ SameCommand
             /\ cp'.mem_op_restore_state \in {"CP_FETCH_OP1_END", "CP_FETCH_OP2_END"}
             /\ cp'.debug_restore_state = cp.debug_restore_state
  <2>1. CpFetchOp1 \/ CpFetchOp2
    BY <1>3, CpAt DEF At
  <2>2. PICK then \in {"CP_FETCH_OP1_END", "CP_FETCH_OP2_END"}, b \in Word :
            /\ cp' = [cp EXCEPT !.mem_fetch_addr = b, !.mem_op_restore_state = then,
                                !.state = "CP_MEM_FETCH_PREP"]
            /\ WiresKept
    BY <1>1, <2>1 DEF CpFetchOp1, CpFetchOp2, CpFetchOp, Registers, WiresKept
  <2> QED BY <2>2, CpStates DEF Passes, SameCommand, CpRecord
<1>4. ASSUME cp.state \in {"CP_ADD", "CP_MULP2", "CP_DIVP2"}
      PROVE  /\ Passes("CP_MEM_WRITE_ADDR_PREP") /\ SameCommand
             /\ cp'.mem_op_restore_state = "CP_CMD_END_PREP"
             /\ cp'.debug_restore_state = cp.debug_restore_state
  <2>1. \E cmd \in {ADD, MULP2, DIVP2} : CpExecute(cp.state, cmd)
    BY <1>4, CpAt DEF At
  <2>2. PICK cmd \in {ADD, MULP2, DIVP2} :
            /\ cp' = [cp EXCEPT !.mem_write_addr = Body(rx_packet),
                                !.mem_val = RtlAlu(cmd, cp.op_1, cp.op_2),
                                !.mem_op_restore_state = "CP_CMD_END_PREP",
                                !.state = "CP_MEM_WRITE_ADDR_PREP"]
            /\ WiresKept
    BY <2>1 DEF CpExecute, Registers, WiresKept
  <2>3. PICK v \in Word, b \in Word :
            cp' = [cp EXCEPT !.mem_write_addr = b, !.mem_val = v,
                             !.mem_op_restore_state = "CP_CMD_END_PREP",
                             !.state = "CP_MEM_WRITE_ADDR_PREP"]
    BY <1>1, <1>2, <2>2, RtlAluWord
  <2>4. cp' \in CpRecord
    BY <2>3, CpStates, Executed
  <2>5. /\ cp'.state = "CP_MEM_WRITE_ADDR_PREP" /\ SameCommand
        /\ cp'.mem_op_restore_state = "CP_CMD_END_PREP"
        /\ cp'.debug_restore_state = cp.debug_restore_state
    BY <2>3 DEF SameCommand, CpRecord
  <2> QED BY <2>2, <2>4, <2>5 DEF Passes
<1> QED BY <1>3, <1>4

LEMMA CpAnswers ==
    ASSUME cp \in CpRecord, CpClock, rx_packet_ready = 1 => Received \in Packet,
           cp.state \in {"CP_MEM_FETCH_END", "CP_MEM_WRITE_END"}
    PROVE  \/ WiresKept /\ cp' = cp
           \/ /\ rx_packet_ready = 1
              /\ Received.type = RESPONSE /\ Received.cmd = MEMORY
              /\ SameCommand /\ cp'.mem_op_restore_state = cp.mem_op_restore_state
              /\ IF DEVICE_DEBUG
                 THEN /\ Passes("CP_DEBUG_WRITE_WAIT_PREP")
                      /\ cp'.debug_restore_state = cp.mem_op_restore_state
                 ELSE Passes(cp.mem_op_restore_state)
<1>1. rx_packet_ready = 1 => Body(rx_packet) \in Word
  BY DEF Received, Unflatten, Payload, Packet
<1>2. CpMemFetchEnd \/ CpMemWriteEnd
  BY CpAt DEF At
<1>3. \/ WiresKept /\ cp' = cp
      \/ /\ rx_packet_ready = 1 /\ Received.type = RESPONSE /\ Received.cmd = MEMORY
         /\ WiresKept
         /\ \E new \in {cp, [cp EXCEPT !.mem_val = Body(rx_packet)]} : cp' = AfterMemOp(new)
  BY <1>2 DEF CpMemFetchEnd, CpMemWriteEnd, Registers, WiresKept, Answered, Received
<1>4. ASSUME rx_packet_ready = 1, NEW new \in {cp, [cp EXCEPT !.mem_val = Body(rx_packet)]}, cp' = AfterMemOp(new)
      PROVE  /\ SameCommand /\ cp'.mem_op_restore_state = cp.mem_op_restore_state
             /\ cp' \in CpRecord
             /\ IF DEVICE_DEBUG
                THEN /\ cp'.state = "CP_DEBUG_WRITE_WAIT_PREP"
                     /\ cp'.debug_restore_state = cp.mem_op_restore_state
                ELSE cp'.state = cp.mem_op_restore_state
  <2>1. /\ new \in CpRecord /\ new.pkt_cmd = cp.pkt_cmd /\ new.pkt_sub_cmd = cp.pkt_sub_cmd
        /\ new.mem_op_restore_state = cp.mem_op_restore_state
    BY <1>1, <1>4 DEF CpRecord
  <2>2. cp.mem_op_restore_state \in CpState
    BY DEF CpRecord
  <2> QED BY <1>4, <2>1, <2>2, CpStates DEF AfterMemOp, SameCommand, CpRecord
<1> QED BY <1>3, <1>4 DEF Passes

LEMMA CpEnds ==
    ASSUME cp \in CpRecord, CpClock,
           cp.state \in {"CP_FETCH_OP1_END", "CP_FETCH_OP2_END"}
    PROVE  Passes("CP_CMD_END_PREP") /\ SameCommand /\ SameReturns
<1>1. CpFetchOp1End \/ CpFetchOp2End
  BY CpAt DEF At
<1>2. WiresKept /\ (cp' = [cp EXCEPT !.op_1 = cp.mem_val, !.state = "CP_CMD_END_PREP"]
                    \/ cp' = [cp EXCEPT !.op_2 = cp.mem_val, !.state = "CP_CMD_END_PREP"])
  BY <1>1 DEF CpFetchOp1End, CpFetchOp2End, Registers, WiresKept
<1>3. cp' \in CpRecord
  <2>1. cp.mem_val \in Word
    BY DEF CpRecord
  <2>2. "CP_CMD_END_PREP" \in CpState
    BY DEF CpState
  <2>3. /\ [cp EXCEPT !.op_1 = cp.mem_val, !.state = "CP_CMD_END_PREP"] \in CpRecord
        /\ [cp EXCEPT !.op_2 = cp.mem_val, !.state = "CP_CMD_END_PREP"] \in CpRecord
    BY <2>1, <2>2, Fetched, Zenon
  <2> QED BY <1>2, <2>3, Zenon
<1>4. cp'.state = "CP_CMD_END_PREP" /\ SameCommand /\ SameReturns
  BY <1>2 DEF SameCommand, SameReturns, CpRecord
<1> QED BY <1>2, <1>3, <1>4 DEF Passes

\* To where a packet of statistics is announced.
Withdraws ==
    /\ DEVICE_DEBUG /\ tx_packet_ready' = 0 /\ tx_packet' = tx_packet
    /\ cp' \in CpRecord /\ cp'.state = "CP_DEBUG_WRITE_WAIT"
    /\ SameCommand /\ cp'.mem_op_restore_state = cp.mem_op_restore_state

LEMMA CpStatistics ==
    ASSUME cp \in CpRecord, CpClock
    PROVE  /\ cp.state = "CP_DEBUG_WRITE_WAIT_PREP" =>
                  \/ WiresKept /\ cp' = cp
                  \/ Withdraws /\ cp'.debug_restore_state = cp.debug_restore_state
           /\ cp.state = "CP_STOP" /\ DEVICE_DEBUG =>
                  \/ WiresKept /\ cp' = cp
                  \/ Withdraws /\ cp'.debug_restore_state = "CP_STOP_MODIFIED"
           /\ cp.state = "CP_DEBUG_WRITE_RESTORE" =>
                  Passes(cp.debug_restore_state) /\ SameCommand /\ SameReturns
<1>1. ASSUME cp.state = "CP_DEBUG_WRITE_WAIT_PREP"
      PROVE  \/ WiresKept /\ cp' = cp
             \/ Withdraws /\ cp'.debug_restore_state = cp.debug_restore_state
  <2>1. CpDebugWriteWaitPrep
    BY <1>1, CpAt DEF At
  <2> DEFINE m == [cp EXCEPT !.debug_pkt_type = RESPONSE, !.state = "CP_DEBUG_WRITE_WAIT"]
  <2>2. \/ WiresKept /\ cp' = cp
        \/ DEVICE_DEBUG /\ tx_packet_ready' = 0 /\ tx_packet' = tx_packet /\ cp' = m
    BY <2>1, StatisticsStep DEF CpDebugWriteWaitPrep
  <2>3. m \in CpRecord
    BY Accounted, CpStates
  <2>4. /\ m.state = "CP_DEBUG_WRITE_WAIT" /\ m.debug_restore_state = cp.debug_restore_state
        /\ m.pkt_cmd = cp.pkt_cmd /\ m.pkt_sub_cmd = cp.pkt_sub_cmd
        /\ m.mem_op_restore_state = cp.mem_op_restore_state
    BY DEF CpRecord
  <2> QED BY <2>2, <2>3, <2>4 DEF Withdraws, SameCommand
<1>2. ASSUME cp.state = "CP_STOP", DEVICE_DEBUG
      PROVE  \/ WiresKept /\ cp' = cp
             \/ Withdraws /\ cp'.debug_restore_state = "CP_STOP_MODIFIED"
  <2>1. CpStop
    BY <1>2, CpAt DEF At
  <2> DEFINE n == [cp EXCEPT !.debug_restore_state = "CP_STOP_MODIFIED"]
             m == [n EXCEPT !.debug_pkt_type = REQUEST, !.state = "CP_DEBUG_WRITE_WAIT"]
  <2>2. \/ WiresKept /\ cp' = cp
        \/ DEVICE_DEBUG /\ tx_packet_ready' = 0 /\ tx_packet' = tx_packet /\ cp' = m
    BY <2>1, StatisticsStep DEF CpStop
  <2>3. n \in CpRecord
    BY Accounted, CpStates
  <2>4. m \in CpRecord
    BY <2>3, Accounted, CpStates
  <2>5. /\ m.state = "CP_DEBUG_WRITE_WAIT" /\ m.debug_restore_state = "CP_STOP_MODIFIED"
        /\ m.pkt_cmd = cp.pkt_cmd /\ m.pkt_sub_cmd = cp.pkt_sub_cmd
        /\ m.mem_op_restore_state = cp.mem_op_restore_state
    BY DEF CpRecord
  <2> QED BY <2>2, <2>4, <2>5 DEF Withdraws, SameCommand
<1>3. ASSUME cp.state = "CP_DEBUG_WRITE_RESTORE"
      PROVE  Passes(cp.debug_restore_state) /\ SameCommand /\ SameReturns
  <2>1. CpDebugWriteRestore
    BY <1>3, CpAt DEF At
  <2>2. cp.debug_restore_state \in CpState
    BY DEF CpRecord
  <2> QED BY <2>1, <2>2 DEF CpDebugWriteRestore, Registers, WiresKept, Passes, SameCommand,
                            SameReturns, CpRecord
<1> QED BY <1>1, <1>2, <1>3

\* The last command answered: wait for the next.
LEMMA CpRests ==
    ASSUME cp \in CpRecord, CpClock
    PROVE  /\ cp.state \in {"CP_STOP", "CP_STOP_MODIFIED"} /\ (cp.state = "CP_STOP" => ~DEVICE_DEBUG) =>
                  IF rx_packet_ready = 0 THEN Passes("CP_IDLE") ELSE WiresKept /\ cp' = cp
           /\ cp.state = "CP_IDLE" =>
                  IF rx_packet_ready = 0 THEN WiresKept /\ cp' = cp
                  ELSE Received \in Packet =>
                           /\ Passes("CP_PACKET_DECODE")
                           /\ cp'.pkt_cmd = Received.cmd /\ cp'.pkt_sub_cmd = Received.sub_cmd
<1>1. ASSUME cp.state \in {"CP_STOP", "CP_STOP_MODIFIED"}, cp.state = "CP_STOP" => ~DEVICE_DEBUG
      PROVE  IF rx_packet_ready = 0 THEN Passes("CP_IDLE") ELSE WiresKept /\ cp' = cp
  <2>1. CpNextCommand
    BY <1>1, CpAt DEF At
  <2>2. 0 \in Nibble
    BY DEF Nibble
  <2> QED BY <2>1, <2>2, CpStates DEF CpNextCommand, Registers, WiresKept, Passes, CpRecord
<1>2. ASSUME cp.state = "CP_IDLE", rx_packet_ready = 0
      PROVE  WiresKept /\ cp' = cp
  <2>1. CpIdle
    BY <1>2, CpAt DEF At
  <2> QED BY <1>2, <2>1 DEF CpIdle, Registers, WiresKept
<1>3. ASSUME cp.state = "CP_IDLE", rx_packet_ready # 0, Received \in Packet
      PROVE  /\ Passes("CP_PACKET_DECODE")
             /\ cp'.pkt_cmd = Received.cmd /\ cp'.pkt_sub_cmd = Received.sub_cmd
  <2>1. CpIdle
    BY <1>3, CpAt DEF At
  <2>2. PICK i \in Nibble, c \in Nibble, s \in Nibble :
            i = LowNibble(rx_packet[1]) /\ c = LowNibble(rx_packet[2]) /\ s = HighNibble(rx_packet[2])
    <3>1. /\ LowNibble(rx_packet[1]) = Received.id /\ LowNibble(rx_packet[2]) = Received.cmd
          /\ HighNibble(rx_packet[2]) = Received.sub_cmd
      BY DEF Received, Unflatten, Payload
    <3>2. Received.id \in Nibble /\ Received.cmd \in Nibble /\ Received.sub_cmd \in Nibble
      BY <1>3 DEF Packet, Nibble, MEMORY, HANDSHAKE, ADD, MULP2, DIVP2, OP_1, OP_2, OP_3, DEBUG
    <3> QED BY <3>1, <3>2
  <2>3. Received.cmd = c /\ Received.sub_cmd = s
    BY <2>2 DEF Received, Unflatten, Payload
  <2>4. /\ cp' = [cp EXCEPT !.debug_pkt_type = REQUEST, !.delay_cycles = 1,
                           !.delay_counter = 0, !.mem_op_restore_state = "CP_IDLE",
                           !.wait_restore_state = "CP_IDLE",
                           !.delay_restore_state = "CP_IDLE",
                           !.pkt_id = i, !.pkt_cmd = c, !.pkt_sub_cmd = s,
                           !.state = "CP_PACKET_DECODE"]
        /\ WiresKept
    BY <1>3, <2>1, <2>2 DEF CpIdle, Registers, WiresKept
  <2>5. cp' \in CpRecord
    <3>1. /\ REQUEST \in {REQUEST, RESPONSE} /\ 0 \in 0 .. 2 /\ 1 \in {1, 2}
          /\ "CP_IDLE" \in CpState /\ "CP_PACKET_DECODE" \in CpState
      BY CpStates
    <3> QED BY <2>4, <3>1, Accepted
  <2>6. cp'.state = "CP_PACKET_DECODE" /\ cp'.pkt_cmd = c /\ cp'.pkt_sub_cmd = s
    BY <2>4 DEF CpRecord
  <2> QED BY <2>3, <2>4, <2>5, <2>6 DEF Passes
<1> QED BY <1>1, <1>2, <1>3

-----------------------------------------------------------------------------
(* A clock of the board, seen from the processor: it stays at its place,   *)
(* its packet is up as a whole, or it moves to another place.              *)

Same     == Keeps /\ Up' = Up /\ (Busy' <=> Busy)
PacketUp == Keeps /\ Up' = Append(Up, Sending) /\ Busy /\ ~Busy'

To(q) ==
    /\ Place' = q /\ cp'.state # "CP_TX_PACKET_SENT_WAIT" /\ CpTypeOK'
    /\ Up' = Up /\ ~Busy /\ ~Busy'

Announces(S, q) ==
    /\ Place' = q /\ CpTypeOK'
    /\ cp'.state = "CP_TX_PACKET_SENT_WAIT" =>
           cp'.wait_restore_state = q /\ q # "CP_MEM_WRITE_VAL_PREP"
    /\ Sending' \in S
    /\ Up' = Up /\ ~Busy /\ Busy'
    /\ SameCommand /\ SameReturns

LEMMA CpTypeIs ==
    /\ CpTypeOK <=> cp \in CpRecord /\ tx_packet \in [1 .. 6 -> Byte] /\ tx_packet_ready \in {0, 1}
    /\ CpTypeOK' <=> cp' \in CpRecord /\ tx_packet' \in [1 .. 6 -> Byte] /\ tx_packet_ready' \in {0, 1}
BY DEF CpTypeOK, CpRecord

LEMMA KeepsIs ==
    ASSUME Keeps, UpStays \/ UpGrows
    PROVE  Same \/ PacketUp
<1>1. WiresKept => ~WiresRaised
  BY DEF WiresKept, WiresRaised, Free, Withdrawn
<1> QED BY <1>1 DEF Same, PacketUp, UpStays, UpGrows, Keeps

LEMMA StaysIs ==
    ASSUME cp \in CpRecord, WiresKept /\ cp' = cp, UpStays \/ UpGrows
    PROVE  Same \/ PacketUp
BY CpStays, KeepsIs

LEMMA PassesIs ==
    ASSUME CpTypeOK, NEW q \in CpState \ Pauses, Passes(q), UpStays \/ UpGrows, ~Busy
    PROVE  To(q)
<1>1. ~WiresRaised
  BY DEF Passes, WiresKept, WiresRaised, Free, Withdrawn
<1>2. Place' = q /\ cp'.state # "CP_TX_PACKET_SENT_WAIT"
  BY DEF Passes, Place, Pauses
<1> QED BY <1>1, <1>2, CpTypeIs DEF To, Passes, WiresKept, UpStays, UpGrows

LEMMA LowersIs ==
    ASSUME CpTypeOK, NEW q \in CpState, Lowers(q), UpStays \/ UpGrows, ~Busy
    PROVE  To(q) /\ SameCommand /\ SameReturns
<1>1. ~WiresRaised
  BY DEF Lowers, WiresRaised
<1>2. Place' = q /\ cp'.state # "CP_TX_PACKET_SENT_WAIT"
  BY DEF Lowers, Place
<1> QED BY <1>1, <1>2, CpTypeIs DEF To, Lowers, UpStays, UpGrows

LEMMA SendsIs ==
    ASSUME NEW S, NEW q, Sends(S, q), UpStays \/ UpGrows, Free \/ Withdrawn
    PROVE  Announces(S, q)
<1>1. ~Busy
  BY DEF Busy, Free, Withdrawn
<1>2. WiresRaised
  BY DEF Sends, WiresRaised
<1>3. Place' = q /\ (cp'.state = "CP_TX_PACKET_SENT_WAIT" => cp'.wait_restore_state = q /\ q # "CP_MEM_WRITE_VAL_PREP")
  BY DEF Sends, Place
<1> QED BY <1>1, <1>2, <1>3, CpTypeIs DEF Announces, Sends, UpStays, UpGrows

\* What every move supposes.
Clocked ==
    /\ CpTypeOK /\ cp \in CpRecord /\ CpHandshakes /\ CpPlaces /\ TxHandshake /\ CpClock
    /\ UpStays \/ UpGrows

LEMMA AtPlace ==
    ASSUME Clocked
    PROVE  \/ Same \/ PacketUp
           \/ cp.state = Place /\ Place \notin Pauses
<1>1. CASE cp.state \in Pauses
  BY <1>1, CpKeeps, KeepsIs DEF Clocked
<1>2. CASE cp.state \notin Pauses
  BY <1>2, PlaceOf DEF Clocked
<1> QED BY <1>1, <1>2

LEMMA Idle ==
    ASSUME Clocked, cp.state \notin Waits
    PROVE  ~Busy
<1>1. cp.state \in CpState
  BY DEF Clocked, CpRecord
<1> QED BY <1>1, NotBusy DEF Clocked

\* A packet that has been announced as sent is up.
LEMMA SentIsUp ==
    ASSUME TxHandshake, tx_packet_sent = 1, ptx.state \in {"TX_IDLE", "TX_SEND", "TX_SEND_WAIT", "TX_END"}
    PROVE  ~Busy
<1>1. ptx.state = "TX_END"
  BY DEF TxHandshake
<1> QED BY <1>1 DEF Busy, Delivered

PtxTyped == ptx.state \in {"TX_IDLE", "TX_SEND", "TX_SEND_WAIT", "TX_END"}

LEMMA WithdrawsIs ==
    ASSUME CpTypeOK, Withdraws, UpStays \/ UpGrows, ~Busy
    PROVE  To("CP_DEBUG_WRITE_WAIT")
<1>1. ~WiresRaised
  BY DEF Withdraws, WiresRaised
<1>2. Place' = "CP_DEBUG_WRITE_WAIT"
  BY DEF Withdraws, Place
<1> QED BY <1>1, <1>2, CpTypeIs DEF To, Withdraws, UpStays, UpGrows

Moves(p, q) == Place = p /\ To(q) /\ SameCommand /\ SameReturns

\* The last command has been answered.
LEMMA FreeMoves ==
    ASSUME Clocked,
           Place \in {"CP_IDLE", "CP_STOP", "CP_STOP_MODIFIED", "CP_DEBUG_WRITE_WAIT",
                     "CP_DEBUG_WRITE_RESTORE"}
    PROVE  \/ Same \/ PacketUp
           \/ /\ Place = "CP_IDLE" /\ cp.state = "CP_IDLE" /\ rx_packet_ready # 0
              /\ Received \in Packet =>
                     /\ To("CP_PACKET_DECODE")
                     /\ cp'.pkt_cmd = Received.cmd /\ cp'.pkt_sub_cmd = Received.sub_cmd
           \/ /\ Place \in {"CP_STOP", "CP_STOP_MODIFIED"} /\ (Place = "CP_STOP" => ~DEVICE_DEBUG)
              /\ rx_packet_ready = 0 /\ To("CP_IDLE")
           \/ /\ DEVICE_DEBUG /\ Place = "CP_STOP" /\ To("CP_DEBUG_WRITE_WAIT") /\ SameCommand
              /\ cp'.debug_restore_state = "CP_STOP_MODIFIED"
           \/ Place = "CP_DEBUG_WRITE_WAIT" /\ Announces(Debugs, "CP_DEBUG_WRITE_RESTORE")
           \/ Moves("CP_DEBUG_WRITE_RESTORE", cp.debug_restore_state)
<1> USE DEF Clocked
<1>1. CASE Same \/ PacketUp
  BY <1>1
<1>2. CASE cp.state = Place
  <2>1. CASE cp.state = "CP_IDLE"
    <3>1. ~Busy
      BY <2>1, Idle DEF Waits
    <3>2. CASE rx_packet_ready = 0
      BY <2>1, <3>2, CpRests, StaysIs
    <3>3. CASE rx_packet_ready # 0
      <4>1. "CP_PACKET_DECODE" \in CpState \ Pauses
        BY DEF CpState, Pauses
      <4>2. Received \in Packet =>
                     /\ Passes("CP_PACKET_DECODE")
                     /\ cp'.pkt_cmd = Received.cmd /\ cp'.pkt_sub_cmd = Received.sub_cmd
        BY <2>1, <3>3, CpRests
      <4> QED BY <1>2, <2>1, <3>1, <3>3, <4>1, <4>2, PassesIs
    <3> QED BY <3>2, <3>3
  <2>2. CASE cp.state \in {"CP_STOP", "CP_STOP_MODIFIED"} /\ (cp.state = "CP_STOP" => ~DEVICE_DEBUG)
    <3>1. ~Busy
      BY <2>2, Idle DEF Waits
    <3>2. CASE rx_packet_ready = 0
      <4>1. "CP_IDLE" \in CpState \ Pauses
        BY DEF CpState, Pauses
      <4>2. Passes("CP_IDLE")
        BY <2>2, <3>2, CpRests
      <4> QED BY <1>2, <2>2, <3>1, <3>2, <4>1, <4>2, PassesIs
    <3>3. CASE rx_packet_ready # 0
      BY <2>2, <3>3, CpRests, StaysIs
    <3> QED BY <3>2, <3>3
  <2>3. CASE cp.state = "CP_STOP" /\ DEVICE_DEBUG
    <3>1. ~Busy
      BY <2>3, Idle DEF Waits
    <3>2. \/ WiresKept /\ cp' = cp
          \/ Withdraws /\ cp'.debug_restore_state = "CP_STOP_MODIFIED"
      BY <2>3, CpStatistics
    <3>3. CASE WiresKept /\ cp' = cp
      BY <3>3, StaysIs
    <3>4. CASE Withdraws /\ cp'.debug_restore_state = "CP_STOP_MODIFIED"
      <4>1. To("CP_DEBUG_WRITE_WAIT") /\ SameCommand
        BY <3>1, <3>4, WithdrawsIs DEF Withdraws
      <4> QED BY <1>2, <2>3, <3>4, <4>1
    <3> QED BY <3>2, <3>3, <3>4
  <2>4. CASE cp.state = "CP_DEBUG_WRITE_WAIT"
    <3>1. DEVICE_DEBUG
      BY <1>2, <2>4 DEF CpPlaces, DebugPlaces
    <3>2. Sends(Debugs, "CP_DEBUG_WRITE_RESTORE")
      BY <2>4, <3>1, CpSends
    <3>3. Withdrawn
      BY <2>4, HandshakesOf
    <3> QED BY <1>2, <2>4, <3>2, <3>3, SendsIs
  <2>5. CASE cp.state = "CP_DEBUG_WRITE_RESTORE"
    <3>1. ~Busy
      BY <2>5, Idle DEF Waits
    <3>2. Passes(cp.debug_restore_state) /\ SameCommand /\ SameReturns
      BY <2>5, CpStatistics
    <3>3. cp.debug_restore_state \in AfterMem \cup {"CP_STOP_MODIFIED"}
      BY <1>2, <2>5 DEF CpPlaces, DebugPlaces
    <3>4. cp.debug_restore_state \in CpState \ Pauses
      BY <3>3 DEF AfterMem, CpState, Pauses
    <3>5. To(cp.debug_restore_state)
      BY <3>1, <3>2, <3>4, PassesIs
    <3> QED BY <1>2, <2>5, <3>2, <3>5 DEF Moves
  <2> QED BY <1>2, <2>1, <2>2, <2>3, <2>4, <2>5
<1> QED BY <1>1, <1>2, AtPlace

\* A command before it has sent anything.
LEMMA EarlyMoves ==
    ASSUME Clocked, Decodable, Received \in Packet, Place \in Early
    PROVE  \/ Same \/ PacketUp
           \/ \E q \in {"CP_HANDSHAKE_PREP", "CP_FETCH_OP1", "CP_FETCH_OP2", "CP_ADD", "CP_MULP2",
                       "CP_DIVP2"} :
                  /\ Moves("CP_PACKET_DECODE", q)
                  /\ cp.pkt_cmd = HANDSHAKE => q = "CP_HANDSHAKE_PREP"
           \/ Moves("CP_HANDSHAKE_PREP", "CP_HANDSHAKE")
           \/ Moves("CP_MEM_FETCH_PREP", "CP_MEM_FETCH")
           \/ Moves("CP_MEM_WRITE_ADDR_PREP", "CP_MEM_WRITE_ADDR")
           \/ /\ Place = "CP_HANDSHAKE"
              /\ \E q \in {"CP_STOP", "CP_STOP_MODIFIED"} : Announces(Acks, q)
           \/ /\ Place \in {"CP_FETCH_OP1", "CP_FETCH_OP2"} /\ To("CP_MEM_FETCH_PREP") /\ SameCommand
              /\ cp'.mem_op_restore_state \in {"CP_FETCH_OP1_END", "CP_FETCH_OP2_END"}
           \/ /\ Place \in {"CP_ADD", "CP_MULP2", "CP_DIVP2"} /\ To("CP_MEM_WRITE_ADDR_PREP")
              /\ SameCommand /\ cp'.mem_op_restore_state = "CP_CMD_END_PREP"
           \/ Place = "CP_MEM_FETCH" /\ Announces(Reads, "CP_MEM_FETCH_END")
           \/ Place = "CP_MEM_WRITE_ADDR" /\ Announces(Writes, "CP_MEM_WRITE_VAL_PREP")
<1> USE DEF Clocked
<1>1. CASE Same \/ PacketUp
  BY <1>1
<1>2. CASE cp.state = Place
  <2>1. cp.state \notin Waits /\ ~Busy
    <3>1. cp.state \notin Waits
      BY <1>2 DEF Waits, Early
    <3> QED BY <3>1, Idle
  <2>2. {"CP_HANDSHAKE_PREP", "CP_FETCH_OP1", "CP_FETCH_OP2", "CP_ADD", "CP_MULP2", "CP_DIVP2",
         "CP_MEM_FETCH_PREP", "CP_MEM_WRITE_ADDR_PREP", "CP_HANDSHAKE", "CP_MEM_FETCH",
         "CP_MEM_WRITE_ADDR"} \subseteq CpState \ Pauses
    BY DEF CpState, Pauses
  <2>3. CASE cp.state = "CP_PACKET_DECODE"
    <3>1. /\ Passes("CP_HANDSHAKE_PREP") \/ Passes("CP_FETCH_OP1") \/ Passes("CP_FETCH_OP2")
             \/ Passes("CP_ADD") \/ Passes("CP_MULP2") \/ Passes("CP_DIVP2")
          /\ cp.pkt_cmd = HANDSHAKE => Passes("CP_HANDSHAKE_PREP")
          /\ SameCommand /\ SameReturns
      BY <2>3, CpDecodes
    <3>2. PICK q \in {"CP_HANDSHAKE_PREP", "CP_FETCH_OP1", "CP_FETCH_OP2", "CP_ADD", "CP_MULP2",
                       "CP_DIVP2"} : Passes(q) /\ (cp.pkt_cmd = HANDSHAKE => q = "CP_HANDSHAKE_PREP")
      BY <3>1
    <3>3. To(q)
      BY <2>1, <2>2, <3>2, PassesIs
    <3> QED BY <1>2, <2>3, <3>1, <3>2, <3>3 DEF Moves
  <2>4. CASE cp.state = "CP_HANDSHAKE_PREP"
    BY <1>2, <2>1, <2>2, <2>4, CpLowers, LowersIs DEF Moves
  <2>5. CASE cp.state = "CP_MEM_FETCH_PREP"
    BY <1>2, <2>1, <2>2, <2>5, CpLowers, LowersIs DEF Moves
  <2>6. CASE cp.state = "CP_MEM_WRITE_ADDR_PREP"
    BY <1>2, <2>1, <2>2, <2>6, CpLowers, LowersIs DEF Moves
  <2>7. CASE cp.state = "CP_HANDSHAKE"
    <3>1. PICK q \in {"CP_STOP", "CP_STOP_MODIFIED"} : Sends(Acks, q)
      BY <2>7, CpSends
    <3>2. Free
      BY <2>7, HandshakesOf DEF Announce
    <3> QED BY <1>2, <2>7, <3>1, <3>2, SendsIs
  <2>8. CASE cp.state = "CP_MEM_FETCH"
    <3>1. Sends(Reads, "CP_MEM_FETCH_END")
      BY <2>8, CpSends
    <3>2. Free
      BY <2>8, HandshakesOf DEF Announce
    <3> QED BY <1>2, <2>8, <3>1, <3>2, SendsIs
  <2>9. CASE cp.state = "CP_MEM_WRITE_ADDR"
    <3>1. Sends(Writes, "CP_MEM_WRITE_VAL_PREP")
      BY <2>9, CpSends
    <3>2. Free
      BY <2>9, HandshakesOf DEF Announce
    <3> QED BY <1>2, <2>9, <3>1, <3>2, SendsIs
  <2>10. CASE cp.state \in {"CP_FETCH_OP1", "CP_FETCH_OP2"}
    <3>1. /\ Passes("CP_MEM_FETCH_PREP") /\ SameCommand
          /\ cp'.mem_op_restore_state \in {"CP_FETCH_OP1_END", "CP_FETCH_OP2_END"}
      BY <2>10, CpFetches
    <3> QED BY <1>2, <2>1, <2>2, <2>10, <3>1, PassesIs
  <2>11. CASE cp.state \in {"CP_ADD", "CP_MULP2", "CP_DIVP2"}
    <3>1. /\ Passes("CP_MEM_WRITE_ADDR_PREP") /\ SameCommand
          /\ cp'.mem_op_restore_state = "CP_CMD_END_PREP"
      BY <2>11, CpFetches
    <3> QED BY <1>2, <2>1, <2>2, <2>11, <3>1, PassesIs
  <2> QED BY <1>2, <2>3, <2>4, <2>5, <2>6, <2>7, <2>8, <2>9, <2>10, <2>11 DEF Early
<1> QED BY <1>1, <1>2, AtPlace

\* A memory operation.
LEMMA MemMoves ==
    ASSUME Clocked, rx_packet_ready = 1 => Received \in Packet, PtxTyped,
           Place \in {"CP_MEM_FETCH_END", "CP_MEM_WRITE_VAL_PREP", "CP_MEM_WRITE_VAL",
                     "CP_MEM_WRITE_END"}
    PROVE  \/ Same \/ PacketUp
           \/ Moves("CP_MEM_WRITE_VAL_PREP", "CP_MEM_WRITE_VAL")
           \/ Place = "CP_MEM_WRITE_VAL" /\ Announces(Writes, "CP_MEM_WRITE_END")
           \/ /\ Place \in {"CP_MEM_FETCH_END", "CP_MEM_WRITE_END"}
              /\ rx_packet_ready = 1 /\ Received.type = RESPONSE /\ Received.cmd = MEMORY
              /\ SameCommand /\ cp.mem_op_restore_state \in AfterMem
              /\ IF DEVICE_DEBUG
                 THEN /\ To("CP_DEBUG_WRITE_WAIT_PREP")
                      /\ cp'.debug_restore_state = cp.mem_op_restore_state
                 ELSE To(cp.mem_op_restore_state)
<1> USE DEF Clocked
<1>1. CASE Same \/ PacketUp
  BY <1>1
<1>2. CASE cp.state = Place
  <2>1. CASE cp.state = "CP_MEM_WRITE_VAL_PREP"
    <3>1. CASE tx_packet_sent = 1
      <4>1. ~Busy
        BY <3>1, SentIsUp DEF PtxTyped
      <4>2. Lowers("CP_MEM_WRITE_VAL")
        BY <2>1, <3>1, CpLowers
      <4>3. "CP_MEM_WRITE_VAL" \in CpState
        BY DEF CpState
      <4> QED BY <1>2, <2>1, <4>1, <4>2, <4>3, LowersIs DEF Moves
    <3>2. CASE tx_packet_sent # 1
      BY <2>1, <3>2, CpLowers, StaysIs
    <3> QED BY <3>1, <3>2
  <2>2. CASE cp.state = "CP_MEM_WRITE_VAL"
    <3>1. Sends(Writes, "CP_MEM_WRITE_END")
      BY <2>2, CpSends
    <3>2. Free
      BY <2>2, HandshakesOf DEF Announce
    <3> QED BY <1>2, <2>2, <3>1, <3>2, SendsIs
  <2>3. CASE cp.state \in {"CP_MEM_FETCH_END", "CP_MEM_WRITE_END"}
    <3>1. ~Busy
      BY <2>3, Idle DEF Waits
    <3>2. cp.mem_op_restore_state \in AfterMem
      BY <1>2, <2>3 DEF CpPlaces, FetchPlaces, WritePlaces, AfterMem
    <3>3. cp.mem_op_restore_state \in CpState \ Pauses /\ "CP_DEBUG_WRITE_WAIT_PREP" \in CpState \ Pauses
      BY <3>2 DEF AfterMem, CpState, Pauses
    <3>4. \/ WiresKept /\ cp' = cp
          \/ /\ rx_packet_ready = 1 /\ Received.type = RESPONSE /\ Received.cmd = MEMORY
             /\ SameCommand
             /\ IF DEVICE_DEBUG
                THEN /\ Passes("CP_DEBUG_WRITE_WAIT_PREP")
                     /\ cp'.debug_restore_state = cp.mem_op_restore_state
                ELSE Passes(cp.mem_op_restore_state)
      BY <2>3, CpAnswers
    <3>5. ASSUME Passes("CP_DEBUG_WRITE_WAIT_PREP") PROVE To("CP_DEBUG_WRITE_WAIT_PREP")
      BY <3>1, <3>3, <3>5, PassesIs
    <3>6. ASSUME Passes(cp.mem_op_restore_state) PROVE To(cp.mem_op_restore_state)
      BY <3>1, <3>3, <3>6, PassesIs
    <3>7. ASSUME WiresKept /\ cp' = cp PROVE Same \/ PacketUp
      BY <3>7, StaysIs
    <3> QED BY <1>2, <2>3, <3>2, <3>4, <3>5, <3>6, <3>7
  <2> QED BY <1>2, <2>1, <2>2, <2>3
<1> QED BY <1>1, <1>2, AtPlace

\* A command whose memory operation has been answered.
LEMMA LateMoves ==
    ASSUME Clocked, Decodable, Place \in Late \cup {"CP_DEBUG_WRITE_WAIT_PREP"}
    PROVE  \/ Same \/ PacketUp
           \/ /\ Place = "CP_DEBUG_WRITE_WAIT_PREP" /\ To("CP_DEBUG_WRITE_WAIT") /\ SameCommand
              /\ cp'.debug_restore_state = cp.debug_restore_state
           \/ Moves("CP_FETCH_OP1_END", "CP_CMD_END_PREP")
           \/ Moves("CP_FETCH_OP2_END", "CP_CMD_END_PREP")
           \/ Moves("CP_CMD_END_PREP", "CP_CMD_END")
           \/ Place = "CP_CMD_END" /\ Announces(Acks, "CP_STOP")
<1> USE DEF Clocked
<1>1. CASE Same \/ PacketUp
  BY <1>1
<1>2. CASE cp.state = Place
  <2>1. cp.state \notin Waits /\ ~Busy
    <3>1. cp.state \notin Waits
      BY <1>2 DEF Waits, Late, AfterMem
    <3> QED BY <3>1, Idle
  <2>2. {"CP_CMD_END_PREP", "CP_CMD_END", "CP_DEBUG_WRITE_WAIT"} \subseteq CpState \ Pauses
    BY DEF CpState, Pauses
  <2>3. CASE cp.state = "CP_DEBUG_WRITE_WAIT_PREP"
    <3>1. \/ WiresKept /\ cp' = cp
          \/ Withdraws /\ cp'.debug_restore_state = cp.debug_restore_state
      BY <2>3, CpStatistics
    <3>2. ASSUME Withdraws PROVE To("CP_DEBUG_WRITE_WAIT") /\ SameCommand
      BY <2>1, <3>2, WithdrawsIs DEF Withdraws
    <3>3. ASSUME WiresKept /\ cp' = cp PROVE Same \/ PacketUp
      BY <3>3, StaysIs
    <3> QED BY <1>2, <2>3, <3>1, <3>2, <3>3
  <2>4. CASE cp.state \in {"CP_FETCH_OP1_END", "CP_FETCH_OP2_END"}
    <3>1. Passes("CP_CMD_END_PREP") /\ SameCommand /\ SameReturns
      BY <2>4, CpEnds
    <3> QED BY <1>2, <2>1, <2>2, <2>4, <3>1, PassesIs DEF Moves
  <2>5. CASE cp.state = "CP_CMD_END_PREP"
    BY <1>2, <2>1, <2>2, <2>5, CpLowers, LowersIs DEF Moves
  <2>6. CASE cp.state = "CP_CMD_END"
    <3>1. Sends(Acks, "CP_STOP")
      BY <2>6, CpSends
    <3>2. Free
      BY <2>6, HandshakesOf DEF Announce
    <3> QED BY <1>2, <2>6, <3>1, <3>2, SendsIs
  <2> QED BY <1>2, <2>3, <2>4, <2>5, <2>6 DEF Late, AfterMem
<1> QED BY <1>1, <1>2, AtPlace

-----------------------------------------------------------------------------
(* What a packet more makes of what is up.                                 *)

LEMMA Grow ==
    ASSUME NEW T, NEW s \in Seq(T), NEW x \in T, NEW t, t = Append(s, x)
    PROVE  /\ Len(s) \in Nat /\ Len(t) = Len(s) + 1 /\ t[Len(s) + 1] = x
           /\ \A i \in 1 .. Len(s) : t[i] = s[i]
OBVIOUS

LEMMA EmptyLength ==
    ASSUME NEW T, NEW s \in Seq(T)
    PROVE  (s = <<>> <=> Len(s) = 0) /\ Len(s) \in Nat
OBVIOUS

LEMMA AtMostOne == \A n \in Nat : n <= 1 => n = 0 \/ n = 1
OBVIOUS

LEMMA GrowStats ==
    ASSUME NEW T, NEW s \in Seq(T), NEW x \in T, NEW t, t = Append(s, x)
    PROVE  /\ s = <<>> /\ x \in Debugs => StatsOnly(t)
           /\ \A S : StatsOnly(s) /\ x \in S => StatsThen(t, S)
           /\ \A S : StatsThen(s, S) /\ x \in S => StatsThenTwo(t, S)
           /\ s = <<>> => Len(t) = 1 /\ t[1] = x
<1>1. /\ Len(s) \in Nat /\ Len(t) = Len(s) + 1 /\ t[Len(s) + 1] = x
      /\ \A i \in 1 .. Len(s) : t[i] = s[i]
  BY Grow
<1>2. s = <<>> => Len(s) = 0
  BY EmptyLength
<1> DEFINE n == Len(s)
           m == Len(t)
<1>3. s = <<>> => m = 1 /\ t[1] = x
  BY <1>1, <1>2
<1>4. s = <<>> /\ x \in Debugs => StatsOnly(t)
  BY <1>3 DEF StatsOnly
<1>5. ASSUME NEW S, StatsOnly(s), x \in S PROVE StatsThen(t, S)
  <2>1. n <= 1 /\ (n = 1 => s[1] \in Debugs)
    BY <1>1, <1>5 DEF StatsOnly
  <2>2. m \in 1 .. 2 /\ t[m] = x /\ (m = 2 => t[1] = s[1] /\ n = 1)
    <3>1. CASE n = 0
      <4>1. m = 1 /\ t[1] = x
        BY <1>1, <3>1
      <4> QED BY <3>1, <4>1
    <3>2. CASE n = 1
      <4>1. m = 2 /\ t[2] = x /\ t[1] = s[1]
        BY <1>1, <3>2
      <4> QED BY <3>2, <4>1
    <3>3. n = 0 \/ n = 1
      BY <1>1, <2>1, AtMostOne
    <3> QED BY <3>1, <3>2, <3>3
  <2> QED BY <1>5, <2>1, <2>2 DEF StatsThen
<1>6. ASSUME NEW S, StatsThen(s, S), x \in S PROVE StatsThenTwo(t, S)
  <2>1. n \in 1 .. 2 /\ s[n] \in S /\ (n = 2 => s[1] \in Debugs)
    BY <1>6 DEF StatsThen
  <2>2. m \in 2 .. 3 /\ t[m] = x /\ m - 1 = n /\ t[n] = s[n] /\ (m = 3 => t[1] = s[1] /\ n = 2)
    BY <1>1, <2>1
  <2> QED BY <1>6, <2>1, <2>2 DEF StatsThenTwo
<1> QED BY <1>3, <1>4, <1>5, <1>6

LEMMA GrowAround ==
    ASSUME NEW T, NEW s \in Seq(T), NEW x \in T, NEW t, t = Append(s, x), NEW S
    PROVE  /\ \A a : StatsOnly(s) /\ x \in S => StatsAround(t, S, a)
           /\ StatsAround(s, S, FALSE) /\ x \in Debugs => StatsAround(t, S, TRUE)
<1>1. /\ Len(s) \in Nat /\ Len(t) = Len(s) + 1 /\ t[Len(s) + 1] = x
      /\ \A i \in 1 .. Len(s) : t[i] = s[i]
  BY Grow
<1> DEFINE n == Len(s)
           m == Len(t)
<1>2. ASSUME NEW a, StatsOnly(s), x \in S PROVE StatsAround(t, S, a)
  <2>1. n <= 1 /\ (n = 1 => s[1] \in Debugs)
    BY <1>1, <1>2 DEF StatsOnly
  <2>2. m \in 1 .. 2 /\ t[m] \in S /\ (m = 2 => t[1] \in Debugs)
    <3>1. CASE n = 0
      <4>1. m = 1 /\ t[1] = x
        BY <1>1, <3>1
      <4> QED BY <1>2, <4>1
    <3>2. CASE n = 1
      <4>1. m = 2 /\ t[2] = x /\ t[1] = s[1]
        BY <1>1, <3>2
      <4> QED BY <1>2, <2>1, <3>2, <4>1
    <3>3. n = 0 \/ n = 1
      BY <1>1, <2>1, AtMostOne
    <3> QED BY <3>1, <3>2, <3>3
  <2>3. /\ m <= Len(t) /\ Len(t) <= m + 1 /\ Len(t) # m + 1
        /\ \A j \in 1 .. Len(t) : j # m => t[j] \in Debugs
    BY <2>2
  <2> QED BY <2>2, <2>3 DEF StatsAround
<1>3. ASSUME StatsAround(s, S, FALSE), x \in Debugs PROVE StatsAround(t, S, TRUE)
  <2>1. PICK k \in 1 .. 2 :
            /\ k <= n /\ n <= k + 1 /\ n # k + 1
            /\ s[k] \in S /\ \A j \in 1 .. n : j # k => s[j] \in Debugs
    BY <1>3 DEF StatsAround
  <2>2. n = k /\ m = k + 1 /\ t[k] = s[k]
    BY <1>1, <2>1
  <2>3. ASSUME NEW j \in 1 .. m, j # k PROVE t[j] \in Debugs
    <3>1. CASE j = m
      BY <1>1, <1>3, <3>1
    <3>2. CASE j # m
      <4>1. j \in 1 .. n
        BY <1>1, <3>2
      <4> QED BY <1>1, <2>1, <2>3, <4>1
    <3> QED BY <3>1, <3>2
  <2>4. k <= m /\ m <= k + 1 /\ t[k] \in S
    BY <2>1, <2>2
  <2> QED BY <2>3, <2>4 DEF StatsAround
<1> QED BY <1>2, <1>3

-----------------------------------------------------------------------------
(* What the moves do to the parts of Turns about the processor alone.      *)

LEMMA PlaceIs ==
    ASSUME CpHandshakes, CpPlaces
    PROVE  /\ Place \notin Announce \cup {"CP_STOP", "CP_STOP_MODIFIED", "CP_DEBUG_WRITE_RESTORE",
                                        "CP_MEM_FETCH_END", "CP_MEM_WRITE_END"} => cp.state = Place
           /\ cp.state = "CP_IDLE" => Place = "CP_IDLE"
BY PlaceOf DEF Pauses

LEMMA BusyPlaces ==
    ASSUME Clocked, Busy
    PROVE  Place \in {"CP_STOP", "CP_STOP_MODIFIED", "CP_DEBUG_WRITE_RESTORE",
                      "CP_MEM_FETCH_END", "CP_MEM_WRITE_END", "CP_MEM_WRITE_VAL_PREP"}
<1>1. cp.state \in Waits
  BY Idle
<1> QED BY <1>1, PlaceOf DEF Clocked, Waits, Pauses

\* Moves that leave what is needed of the return addresses.
LEMMA ToPlaces ==
    ASSUME NEW q, To(q), q \notin FetchPlaces, q \notin WritePlaces, q \notin DebugPlaces
    PROVE  CpPlaces' /\ SendingKind' /\ CpTypeOK'
<1>1. Place' = q /\ cp'.state # "CP_TX_PACKET_SENT_WAIT" /\ ~Busy'
  BY DEF To
<1>2. CpPlaces' /\ CpTypeOK'
  BY <1>1 DEF To, CpPlaces, DebugPlaces
<1>3. SendingKind'
  BY <1>1 DEF SendingKind, FetchPlaces, WritePlaces, DebugPlaces
<1> QED BY <1>2, <1>3

LEMMA ToFetch ==
    ASSUME NEW q \in {"CP_MEM_FETCH_PREP", "CP_MEM_FETCH"}, To(q),
           cp'.mem_op_restore_state \in {"CP_FETCH_OP1_END", "CP_FETCH_OP2_END"}
    PROVE  CpPlaces' /\ SendingKind' /\ CpTypeOK'
BY DEF To, CpPlaces, SendingKind, FetchPlaces, WritePlaces, DebugPlaces

LEMMA ToWrite ==
    ASSUME NEW q \in {"CP_MEM_WRITE_ADDR_PREP", "CP_MEM_WRITE_ADDR", "CP_MEM_WRITE_VAL"}, To(q),
           cp'.mem_op_restore_state = "CP_CMD_END_PREP"
    PROVE  CpPlaces' /\ SendingKind' /\ CpTypeOK'
BY DEF To, CpPlaces, SendingKind, FetchPlaces, WritePlaces, DebugPlaces

LEMMA ToStats ==
    ASSUME NEW q \in {"CP_DEBUG_WRITE_WAIT_PREP", "CP_DEBUG_WRITE_WAIT"}, To(q), DEVICE_DEBUG,
           \/ cp'.debug_restore_state \in AfterMem
           \/ q = "CP_DEBUG_WRITE_WAIT" /\ cp'.debug_restore_state = "CP_STOP_MODIFIED"
    PROVE  CpPlaces' /\ SendingKind' /\ CpTypeOK'
BY DEF To, CpPlaces, SendingKind, FetchPlaces, WritePlaces, DebugPlaces

LEMMA AnnouncesKind ==
    ASSUME CpPlaces, NEW S, NEW q, Announces(S, q),
           \/ S = Acks /\ q \in {"CP_STOP", "CP_STOP_MODIFIED"}
           \/ S = Reads /\ Place = "CP_MEM_FETCH" /\ q = "CP_MEM_FETCH_END"
           \/ S = Writes /\ Place = "CP_MEM_WRITE_ADDR" /\ q = "CP_MEM_WRITE_VAL_PREP"
           \/ S = Writes /\ Place = "CP_MEM_WRITE_VAL" /\ q = "CP_MEM_WRITE_END"
           \/ S = Debugs /\ Place = "CP_DEBUG_WRITE_WAIT" /\ q = "CP_DEBUG_WRITE_RESTORE"
    PROVE  CpPlaces' /\ SendingKind' /\ CpTypeOK'
<1>1. CpPlaces' /\ CpTypeOK'
  BY DEF Announces, SameReturns, CpPlaces, FetchPlaces, WritePlaces, DebugPlaces
<1>2. SendingKind'
  BY DEF Announces, SendingKind
<1> QED BY <1>1, <1>2

LEMMA SameKind ==
    ASSUME CpTypeOK, CpPlaces, SendingKind, Same \/ PacketUp
    PROVE  CpPlaces' /\ SendingKind' /\ CpTypeOK'
<1>1. Keeps /\ Sending' = Sending /\ (Busy' => Busy) /\ Place' = Place
  BY DEF Same, PacketUp, Keeps, WiresKept, Sending
<1>2. CpPlaces'
  BY <1>1, KeepsPlaces
<1>3. SendingKind'
  BY <1>1 DEF SendingKind
<1>4. CpTypeOK'
  BY <1>1, CpTypeIs DEF Keeps, WiresKept
<1> QED BY <1>2, <1>3, <1>4

LEMMA SameRegisters ==
    ASSUME Same \/ PacketUp
    PROVE  /\ Place' = Place /\ cp' \in CpRecord
           /\ cp'.mem_op_restore_state = cp.mem_op_restore_state
           /\ cp'.debug_restore_state = cp.debug_restore_state
           /\ cp'.pkt_cmd = cp.pkt_cmd /\ cp'.pkt_sub_cmd = cp.pkt_sub_cmd
BY DEF Same, PacketUp, Keeps

\* The processor while it has no command.
LEMMA FreeStep ==
    ASSUME Clocked, SendingKind, CpFree, cp.state = "CP_IDLE" => rx_packet_ready = 0,
           CpHandshakes'
    PROVE  /\ CpFree' /\ CpPlaces' /\ SendingKind' /\ CpTypeOK'
           /\ \/ Up' = Up /\ (StatsSent => StatsSent')
              \/ Up' = Append(Up, Sending) /\ Sending \in Debugs /\ ~StatsSent /\ StatsSent'
           /\ cp'.state = "CP_IDLE" => cp.state = "CP_IDLE" \/ rx_packet_ready = 0
<1>1. Place \in {"CP_IDLE", "CP_STOP", "CP_STOP_MODIFIED", "CP_DEBUG_WRITE_WAIT",
                 "CP_DEBUG_WRITE_RESTORE"}
  BY DEF CpFree
<1>2. CASE Same
  <2>1. Place' = Place /\ cp'.debug_restore_state = cp.debug_restore_state
        /\ (Busy' <=> Busy) /\ Up' = Up
    BY <1>2 DEF Same, Keeps
  <2>2. CpPlaces' /\ SendingKind' /\ CpTypeOK'
    BY <1>2, SameKind DEF Clocked
  <2>3. cp'.state = "CP_IDLE" => cp.state = "CP_IDLE"
    <3>1. cp'.state = "CP_IDLE" => Place' = "CP_IDLE"
      BY DEF Place
    <3>2. Place = "CP_IDLE" => cp.state = "CP_IDLE"
      BY PlaceIs DEF Clocked, Announce
    <3> QED BY <2>1, <3>1, <3>2
  <2> QED BY <2>1, <2>2, <2>3 DEF CpFree, StatsSent
<1>3. CASE PacketUp
  <2>1. Place' = Place /\ cp'.debug_restore_state = cp.debug_restore_state
        /\ Busy /\ ~Busy' /\ Up' = Append(Up, Sending)
    BY <1>3 DEF PacketUp, Keeps
  <2>2. CpPlaces' /\ SendingKind' /\ CpTypeOK'
    BY <1>3, SameKind DEF Clocked
  <2>3. Place = "CP_DEBUG_WRITE_RESTORE" /\ cp.debug_restore_state = "CP_STOP_MODIFIED"
    BY <2>1, BusyPlaces DEF CpFree
  <2>4. Sending \in Debugs /\ ~StatsSent /\ StatsSent' /\ CpFree'
    BY <2>1, <2>3 DEF SendingKind, StatsSent, CpFree
  <2>5. cp'.state # "CP_IDLE"
    BY <2>1, <2>3 DEF Place
  <2> QED BY <2>1, <2>2, <2>4, <2>5
<1>4. CASE /\ Place \in {"CP_STOP", "CP_STOP_MODIFIED"} /\ (Place = "CP_STOP" => ~DEVICE_DEBUG)
           /\ rx_packet_ready = 0 /\ To("CP_IDLE")
  <2>1. CpPlaces' /\ SendingKind' /\ CpTypeOK'
    BY <1>4, ToPlaces DEF FetchPlaces, WritePlaces, DebugPlaces
  <2> QED BY <1>4, <2>1 DEF To, CpFree, StatsSent
<1>5. CASE /\ DEVICE_DEBUG /\ Place = "CP_STOP" /\ To("CP_DEBUG_WRITE_WAIT") /\ SameCommand
           /\ cp'.debug_restore_state = "CP_STOP_MODIFIED"
  <2>1. CpPlaces' /\ SendingKind' /\ CpTypeOK'
    BY <1>5, ToStats
  <2>2. cp'.state # "CP_IDLE"
    BY <1>5 DEF To, Place
  <2>3. CpFree' /\ Up' = Up
    BY <1>5 DEF To, CpFree
  <2>4. ~StatsSent
    BY <1>5 DEF StatsSent
  <2> QED BY <2>1, <2>2, <2>3, <2>4
<1>6. CASE Place = "CP_DEBUG_WRITE_WAIT" /\ Announces(Debugs, "CP_DEBUG_WRITE_RESTORE")
  <2>1. CpPlaces' /\ SendingKind' /\ CpTypeOK'
    BY <1>6, AnnouncesKind DEF Clocked
  <2>2. cp'.state # "CP_IDLE"
    BY <1>6 DEF Announces, Place
  <2>3. cp.debug_restore_state = "CP_STOP_MODIFIED"
    BY <1>6 DEF CpFree
  <2>4. CpFree' /\ Up' = Up
    BY <1>6, <2>3 DEF Announces, SameReturns, CpFree
  <2>5. ~StatsSent
    BY <1>6 DEF StatsSent
  <2> QED BY <2>1, <2>2, <2>4, <2>5
<1>7. CASE Moves("CP_DEBUG_WRITE_RESTORE", cp.debug_restore_state)
  <2>1. Place = "CP_DEBUG_WRITE_RESTORE" /\ cp.debug_restore_state = "CP_STOP_MODIFIED"
    BY <1>7 DEF Moves, CpFree
  <2>2. To("CP_STOP_MODIFIED")
    BY <1>7, <2>1 DEF Moves
  <2>3. CpPlaces' /\ SendingKind' /\ CpTypeOK'
    BY <2>2, ToPlaces DEF FetchPlaces, WritePlaces, DebugPlaces
  <2>4. cp'.state # "CP_IDLE"
    BY <2>2 DEF To, Place
  <2>5. CpFree' /\ Up' = Up /\ StatsSent'
    BY <2>2 DEF To, CpFree, StatsSent
  <2> QED BY <2>3, <2>4, <2>5
<1>8. ~(Place = "CP_IDLE" /\ cp.state = "CP_IDLE" /\ rx_packet_ready # 0)
  OBVIOUS
<1> QED BY <1>1, <1>2, <1>3, <1>4, <1>5, <1>6, <1>7, <1>8, FreeMoves

-----------------------------------------------------------------------------
(* A clock of the board, for each party that may have something to send.   *)

Still ==
    UNCHANGED <<host, found, scratch, InRing, recorded_commands, received_payloads, unread,
                device_packet_recv_state>>

Stepped ==
    /\ Clocked /\ PtxTyped /\ RxTypeOK /\ PacketRxClock /\ ReceiverClock
    /\ CpHandshakes' /\ SendingKind /\ Still
    /\ Up \in Seq(Frame) /\ Sending \in Frame

LEMMA DownHereStays ==
    ASSUME RxTypeOK, DownHere, PacketRxClock, ReceiverClock
    PROVE  DownHere' /\ Received' = Received /\ rx_packet_ready = 1 /\ rx_packet_ready' = 1
<1>1. DownIdle' /\ prx' = prx /\ rx_packet' = rx_packet /\ rx_packet_ready' = rx_packet_ready
  BY RxIdle DEF DownHere
<1> QED BY <1>1 DEF DownHere, DownIdle, Received

LEMMA StillWaiting ==
    ASSUME Still
    PROVE  /\ (Waiting => Waiting') /\ (NoAck => NoAck') /\ (NextIsAddr => NextIsAddr')
           /\ (~NextIsAddr => ~NextIsAddr') /\ host' = host
BY DEF Still, Waiting, NoAck, NextIsAddr

LEMMA FreeUpStep ==
    ASSUME Up \in Seq(Frame), Sending \in Frame, FreeUp,
           \/ Up' = Up /\ (StatsSent => StatsSent')
           \/ Up' = Append(Up, Sending) /\ Sending \in Debugs /\ ~StatsSent /\ StatsSent'
    PROVE  FreeUp'
<1>1. CASE Up' = Up /\ (StatsSent => StatsSent')
  BY <1>1 DEF FreeUp, StatsOnly
<1>2. CASE Up' = Append(Up, Sending) /\ Sending \in Debugs /\ ~StatsSent /\ StatsSent'
  <2>1. Up = <<>>
    BY <1>2 DEF FreeUp
  <2>2. StatsOnly(Up')
    BY <1>2, <2>1, GrowStats
  <2> QED BY <1>2, <2>2 DEF FreeUp
<1> QED BY <1>1, <1>2

\* The host is next: statistics may still be sent.
LEMMA BoardHostHas ==
    ASSUME Stepped, HostHas
    PROVE  HostHas' /\ CpPlaces' /\ SendingKind' /\ CpTypeOK'
<1> USE DEF Stepped
<1>1. DownIdle' /\ rx_packet_ready' = rx_packet_ready
  BY RxIdle DEF HostHas
<1>2. /\ CpFree' /\ CpPlaces' /\ SendingKind' /\ CpTypeOK'
      /\ \/ Up' = Up /\ (StatsSent => StatsSent')
         \/ Up' = Append(Up, Sending) /\ Sending \in Debugs /\ ~StatsSent /\ StatsSent'
      /\ cp'.state = "CP_IDLE" => cp.state = "CP_IDLE" \/ rx_packet_ready = 0
  BY FreeStep DEF HostHas
<1>3. FreeUp'
  BY <1>2, FreeUpStep DEF HostHas
<1>4. cp'.state = "CP_IDLE" => rx_packet_ready' = 0
  BY <1>1, <1>2 DEF HostHas
<1>5. host' \in {"start", "app", "sync", "exited"} /\ NoAck' /\ NextIsAddr'
  BY StillWaiting DEF HostHas
<1> QED BY <1>1, <1>2, <1>3, <1>4, <1>5 DEF HostHas

\* The driver has the response.
LEMMA BoardAckHas ==
    ASSUME Stepped, AckHas
    PROVE  AckHas' /\ CpPlaces' /\ SendingKind' /\ CpTypeOK'
<1> USE DEF Stepped
<1>1. DownHere' /\ rx_packet_ready = 1
  BY DownHereStays DEF AckHas
<1>2. /\ CpFree' /\ CpPlaces' /\ SendingKind' /\ CpTypeOK'
      /\ \/ Up' = Up /\ (StatsSent => StatsSent')
         \/ Up' = Append(Up, Sending) /\ Sending \in Debugs /\ ~StatsSent /\ StatsSent'
      /\ cp'.state = "CP_IDLE" => cp.state = "CP_IDLE" \/ rx_packet_ready = 0
  BY FreeStep DEF AckHas
<1>3. FreeUp'
  BY <1>2, FreeUpStep DEF AckHas
<1>4. cp'.state # "CP_IDLE"
  BY <1>1, <1>2 DEF AckHas
<1>5. Waiting' /\ NextIsAddr' /\ received_payloads' = received_payloads /\ unread' = unread
  BY StillWaiting DEF AckHas, Still
<1> QED BY <1>1, <1>2, <1>3, <1>4, <1>5 DEF AckHas

\* The response is on its way up.
LEMMA BoardAckUpHas ==
    ASSUME Stepped, AckUpHas
    PROVE  AckUpHas' /\ CpPlaces' /\ SendingKind' /\ CpTypeOK'
<1> USE DEF Stepped
<1>1. DownHere' /\ rx_packet_ready = 1
  BY DownHereStays DEF AckUpHas
<1>2. /\ CpFree' /\ CpPlaces' /\ SendingKind' /\ CpTypeOK'
      /\ \/ Up' = Up /\ (StatsSent => StatsSent')
         \/ Up' = Append(Up, Sending) /\ Sending \in Debugs /\ ~StatsSent /\ StatsSent'
      /\ cp'.state = "CP_IDLE" => cp.state = "CP_IDLE" \/ rx_packet_ready = 0
  BY FreeStep DEF AckUpHas
<1>3. StatsAround(Up, Acks, StatsSent)'
  <2>1. CASE Up' = Up /\ (StatsSent => StatsSent')
    BY <2>1 DEF AckUpHas, StatsAround
  <2>2. CASE Up' = Append(Up, Sending) /\ Sending \in Debugs /\ ~StatsSent /\ StatsSent'
    <3>1. StatsAround(Up, Acks, FALSE)
      BY <2>2 DEF AckUpHas, StatsAround
    <3>2. StatsAround(Up', Acks, TRUE)
      BY <2>2, <3>1, GrowAround
    <3> QED BY <2>2, <3>2 DEF StatsAround, Acks
  <2> QED BY <1>2, <2>1, <2>2
<1>4. cp'.state # "CP_IDLE"
  BY <1>1, <1>2 DEF AckUpHas
<1>5. Waiting' /\ NextIsAddr' /\ NoAck'
  BY StillWaiting DEF AckUpHas
<1> QED BY <1>1, <1>2, <1>3, <1>4, <1>5 DEF AckUpHas

LEMMA RequestsDecodable ==
    ASSUME Received \in Requests
    PROVE  /\ Received \in Packet /\ Received.type = REQUEST
           /\ Received.cmd \in {HANDSHAKE, ADD, MULP2, DIVP2}
           /\ Received.sub_cmd \in {OP_1, OP_2, OP_3}
BY DEF Requests, Packet

\* A command is on its way down, or has just arrived.
LEMMA BoardDownHas ==
    ASSUME Stepped, DownHas
    PROVE  (DownHas' \/ CpHas') /\ CpPlaces' /\ SendingKind' /\ CpTypeOK'
<1> USE DEF Stepped
<1>1. /\ DownShape' /\ Down' = Down
      /\ rx_packet_ready' = 1 /\ rx_packet_ready = 0 => port_out' = <<>>
  BY RxStep DEF DownHas
<1>2. Waiting' /\ NextIsAddr' /\ NoAck'
  BY StillWaiting DEF DownHas
<1>3. CASE cp.state = "CP_IDLE" => rx_packet_ready = 0
  <2>1. /\ CpFree' /\ CpPlaces' /\ SendingKind' /\ CpTypeOK'
        /\ \/ Up' = Up /\ (StatsSent => StatsSent')
           \/ Up' = Append(Up, Sending) /\ Sending \in Debugs /\ ~StatsSent /\ StatsSent'
        /\ cp'.state = "CP_IDLE" => cp.state = "CP_IDLE" \/ rx_packet_ready = 0
    BY <1>3, FreeStep DEF DownHas
  <2>2. FreeUp'
    BY <2>1, FreeUpStep DEF DownHas
  <2>3. cp'.state = "CP_IDLE" /\ rx_packet_ready' = 1 => port_out' = <<>>
    BY <1>1, <1>3, <2>1
  <2>4. Down' \in Requests'
    BY <1>1 DEF DownHas, Requests
  <2> QED BY <1>1, <1>2, <2>1, <2>2, <2>3, <2>4 DEF DownHas
<1>4. CASE cp.state = "CP_IDLE" /\ rx_packet_ready # 0
  <2>1. rx_packet_ready = 1
    BY <1>4 DEF RxTypeOK
  <2>2. port_out = <<>> /\ prx.state = "RX_END"
    BY <1>4, <2>1 DEF DownHas, DownShape
  <2>3. Down = Received /\ rx_data_en = 1
    BY <2>2, RxArrived DEF DownHas
  <2>4. DownHere
    BY <2>1, <2>2, <2>3 DEF DownHere, DownIdle
  <2>5. DownHere' /\ Received' = Received
    BY <2>4, DownHereStays
  <2>6. Received \in Requests
    BY <2>3 DEF DownHas
  <2>7. Place = "CP_IDLE" /\ ~Busy
    BY <1>4, PlaceIs, BusyPlaces DEF Clocked
  <2>8. CASE Same
    <3>1. Place' = "CP_IDLE" /\ ~Busy' /\ Up' = Up
      BY <2>7, <2>8 DEF Same, Keeps
    <3>2. CpPlaces' /\ SendingKind' /\ CpTypeOK'
      BY <2>8, SameKind DEF Clocked
    <3>3. CpFree' /\ FreeUp'
      BY <3>1 DEF CpFree, FreeUp, StatsSent, DownHas
    <3>4. port_out' = <<>>
      BY <2>5 DEF DownHere, DownIdle
    <3>5. Down' \in Requests'
      BY <1>1 DEF DownHas, Requests
    <3> QED BY <1>1, <1>2, <3>2, <3>3, <3>4, <3>5 DEF DownHas
  <2>9. CASE To("CP_PACKET_DECODE") /\ cp'.pkt_cmd = Received.cmd /\ cp'.pkt_sub_cmd = Received.sub_cmd
    <3>1. CpPlaces' /\ SendingKind' /\ CpTypeOK'
      BY <2>9, ToPlaces DEF FetchPlaces, WritePlaces, DebugPlaces
    <3>2. Decodable'
      BY <2>6, <2>9, RequestsDecodable DEF Decodable
    <3>3. Received' \in Requests'
      BY <2>5, <2>6 DEF Requests
    <3>4. Place' \in Early /\ StatsOnly(Up)'
      BY <2>9 DEF To, Early, DownHas, FreeUp, StatsOnly
    <3> QED BY <1>2, <2>5, <3>1, <3>2, <3>3, <3>4 DEF CpHas
  <2>10. \/ Same
         \/ To("CP_PACKET_DECODE") /\ cp'.pkt_cmd = Received.cmd /\ cp'.pkt_sub_cmd = Received.sub_cmd
    <3>1. ~PacketUp
      BY <2>7 DEF PacketUp
    <3>2. ~Moves("CP_DEBUG_WRITE_RESTORE", cp.debug_restore_state)
      BY <2>7 DEF Moves
    <3>3. Received \in Packet
      BY <2>6, RequestsDecodable
    <3> QED BY <2>7, <3>1, <3>2, <3>3, FreeMoves
  <2> QED BY <2>8, <2>9, <2>10
<1> QED BY <1>3, <1>4

\* The processor is at work: the four groups of places of CpHas.
CpAtWork == Waiting /\ NoAck /\ DownHere /\ Decodable

Group1 ==
    /\ \/ Place \in Early
       \/ Place \in {"CP_MEM_FETCH_END", "CP_MEM_WRITE_VAL_PREP"} /\ Busy
    /\ Received \in Requests /\ NextIsAddr /\ StatsOnly(Up)
Group2 ==
    /\ \/ Place \in {"CP_MEM_WRITE_VAL_PREP", "CP_MEM_WRITE_VAL"} /\ ~Busy
       \/ Place = "CP_MEM_WRITE_END" /\ Busy
    /\ Received \in Requests /\ AddrUp
Group3 ==
    /\ \/ Place \in {"CP_DEBUG_WRITE_WAIT_PREP", "CP_DEBUG_WRITE_WAIT"}
       \/ Place = "CP_DEBUG_WRITE_RESTORE" /\ Busy
    /\ cp.debug_restore_state \in AfterMem /\ NextIsAddr /\ Up = <<>>
Group4 ==
    /\ \/ /\ Place = "CP_DEBUG_WRITE_RESTORE" /\ ~Busy
          /\ cp.debug_restore_state \in AfterMem
       \/ Place \in Late
       \/ Place \in {"CP_STOP", "CP_STOP_MODIFIED"} /\ Busy
    /\ NextIsAddr /\ StatsOnly(Up)

LEMMA CpHasIs == CpHas <=> CpAtWork /\ (Group1 \/ Group2 \/ Group3 \/ Group4)
BY DEF CpHas, CpAtWork, Group1, Group2, Group3, Group4

LEMMA AtWorkStays ==
    ASSUME Stepped, CpAtWork
    PROVE  /\ SameCommand => CpAtWork'
           /\ Received' = Received /\ rx_packet_ready = 1
           /\ (NextIsAddr => NextIsAddr') /\ (~NextIsAddr => ~NextIsAddr')
           /\ Waiting' /\ NoAck' /\ DownHere'
<1>1. DownHere' /\ Received' = Received /\ rx_packet_ready = 1
  BY DownHereStays DEF Stepped, CpAtWork
<1>2. Waiting' /\ NoAck' /\ (NextIsAddr => NextIsAddr') /\ (~NextIsAddr => ~NextIsAddr')
  BY StillWaiting DEF Stepped, CpAtWork
<1>3. SameCommand => Decodable'
  BY DEF SameCommand, Decodable, CpAtWork
<1> QED BY <1>1, <1>2, <1>3 DEF CpAtWork

LEMMA SameIsAtWork ==
    ASSUME Same \/ PacketUp
    PROVE  SameCommand
BY DEF Same, PacketUp, Keeps, SameCommand

\* It stays where it is.
LEMMA SameHas ==
    ASSUME Stepped, CpHas, Same
    PROVE  CpHas' /\ CpPlaces' /\ SendingKind' /\ CpTypeOK'
<1>1. CpAtWork
  BY CpHasIs
<1>2. SameCommand /\ Place' = Place /\ (Busy' <=> Busy) /\ Up' = Up
      /\ cp'.debug_restore_state = cp.debug_restore_state
  BY SameIsAtWork DEF Same, Keeps
<1>3. CpPlaces' /\ SendingKind' /\ CpTypeOK'
  BY SameKind DEF Stepped, Clocked
<1>4. /\ CpAtWork' /\ Received' = Received
      /\ (NextIsAddr => NextIsAddr') /\ (~NextIsAddr => ~NextIsAddr')
  BY <1>1, <1>2, AtWorkStays
<1>5. /\ StatsOnly(Up) => StatsOnly(Up)'
      /\ AddrUp => AddrUp'
      /\ Received \in Requests => (Received \in Requests)'
  BY <1>2, <1>4 DEF StatsOnly, AddrUp, StatsThen, Requests, Debugs, Writes
<1>6. /\ Group1 => Group1'
      /\ Group2 => Group2'
  BY <1>2, <1>4, <1>5 DEF Group1, Group2
<1>7. /\ Group3 => Group3'
      /\ Group4 => Group4'
  BY <1>2, <1>4, <1>5 DEF Group3, Group4
<1>8. CpHas' <=> CpAtWork' /\ (Group1' \/ Group2' \/ Group3' \/ Group4')
  BY DEF CpHas, CpAtWork, Group1, Group2, Group3, Group4
<1> QED BY <1>3, <1>4, <1>6, <1>7, <1>8, CpHasIs

LEMMA CpHasAfter ==
    ASSUME CpAtWork', Group1' \/ Group2' \/ Group3' \/ Group4'
    PROVE  CpHas'
BY DEF CpHas, CpAtWork, Group1, Group2, Group3, Group4

LEMMA Group1Has ==
    ASSUME Stepped, CpAtWork, Group1, ~Same
    PROVE  (CpHas' \/ MemUpHas') /\ CpPlaces' /\ SendingKind' /\ CpTypeOK'
<1> USE DEF Stepped
<1>1. Received \in Packet
  BY RequestsDecodable DEF Group1
<1>2. /\ SameCommand => CpAtWork'
      /\ Received' = Received /\ rx_packet_ready = 1 /\ NextIsAddr'
      /\ Waiting' /\ NoAck' /\ DownHere'
  BY AtWorkStays DEF Group1
<1>3. (Received \in Requests)'
  BY <1>2 DEF Group1, Requests
<1>4. Up' = Up => StatsOnly(Up)'
  BY DEF Group1, StatsOnly
<1>5. CASE Place \in Early
  <2>1. ~PacketUp
    BY <1>5, BusyPlaces DEF PacketUp, Early
  <2>2. ASSUME NEW q \in Early, To(q), SameCommand, CpPlaces' /\ SendingKind' /\ CpTypeOK'
        PROVE  CpHas' /\ CpPlaces' /\ SendingKind' /\ CpTypeOK'
    <3>1. Group1'
      BY <1>2, <1>3, <1>4, <2>2 DEF To, Group1
    <3> QED BY <1>2, <2>2, <3>1, CpHasAfter
  <2>3. ASSUME NEW q \in {"CP_HANDSHAKE_PREP", "CP_FETCH_OP1", "CP_FETCH_OP2", "CP_ADD", "CP_MULP2",
                       "CP_DIVP2"}, Moves("CP_PACKET_DECODE", q)
        PROVE  CpHas' /\ CpPlaces' /\ SendingKind' /\ CpTypeOK'
    <3>1. To(q) /\ SameCommand /\ q \in Early
      BY <2>3 DEF Moves, Early
    <3>2. CpPlaces' /\ SendingKind' /\ CpTypeOK'
      BY <2>3, <3>1, ToPlaces DEF FetchPlaces, WritePlaces, DebugPlaces
    <3> QED BY <2>2, <3>1, <3>2
  <2>4. ASSUME Moves("CP_HANDSHAKE_PREP", "CP_HANDSHAKE")
        PROVE  CpHas' /\ CpPlaces' /\ SendingKind' /\ CpTypeOK'
    <3>1. To("CP_HANDSHAKE") /\ SameCommand /\ "CP_HANDSHAKE" \in Early
      BY <2>4 DEF Moves, Early
    <3>2. CpPlaces' /\ SendingKind' /\ CpTypeOK'
      BY <3>1, ToPlaces DEF FetchPlaces, WritePlaces, DebugPlaces
    <3> QED BY <2>2, <3>1, <3>2
  <2>5. ASSUME Moves("CP_MEM_FETCH_PREP", "CP_MEM_FETCH")
        PROVE  CpHas' /\ CpPlaces' /\ SendingKind' /\ CpTypeOK'
    <3>1. To("CP_MEM_FETCH") /\ SameCommand /\ "CP_MEM_FETCH" \in Early
      BY <2>5 DEF Moves, Early
    <3>2. cp'.mem_op_restore_state \in {"CP_FETCH_OP1_END", "CP_FETCH_OP2_END"}
      BY <2>5 DEF Moves, SameReturns, Clocked, CpPlaces, FetchPlaces
    <3>3. CpPlaces' /\ SendingKind' /\ CpTypeOK'
      BY <3>1, <3>2, ToFetch
    <3> QED BY <2>2, <3>1, <3>3
  <2>6. ASSUME Moves("CP_MEM_WRITE_ADDR_PREP", "CP_MEM_WRITE_ADDR")
        PROVE  CpHas' /\ CpPlaces' /\ SendingKind' /\ CpTypeOK'
    <3>1. To("CP_MEM_WRITE_ADDR") /\ SameCommand /\ "CP_MEM_WRITE_ADDR" \in Early
      BY <2>6 DEF Moves, Early
    <3>2. cp'.mem_op_restore_state = "CP_CMD_END_PREP"
      BY <2>6 DEF Moves, SameReturns, Clocked, CpPlaces, WritePlaces
    <3>3. CpPlaces' /\ SendingKind' /\ CpTypeOK'
      BY <3>1, <3>2, ToWrite
    <3> QED BY <2>2, <3>1, <3>3
  <2>7. ASSUME NEW q \in {"CP_STOP", "CP_STOP_MODIFIED"}, Announces(Acks, q)
        PROVE  CpHas' /\ CpPlaces' /\ SendingKind' /\ CpTypeOK'
    <3>1. CpPlaces' /\ SendingKind' /\ CpTypeOK'
      BY <2>7, AnnouncesKind DEF Clocked
    <3>2. Group4' /\ SameCommand
      BY <1>2, <1>4, <2>7 DEF Announces, Group4
    <3> QED BY <1>2, <3>1, <3>2, CpHasAfter
  <2>8. ASSUME To("CP_MEM_FETCH_PREP"), SameCommand,
               cp'.mem_op_restore_state \in {"CP_FETCH_OP1_END", "CP_FETCH_OP2_END"}
        PROVE  CpHas' /\ CpPlaces' /\ SendingKind' /\ CpTypeOK'
    <3>1. CpPlaces' /\ SendingKind' /\ CpTypeOK'
      BY <2>8, ToFetch
    <3> QED BY <2>2, <2>8, <3>1 DEF Early
  <2>9. ASSUME To("CP_MEM_WRITE_ADDR_PREP"), SameCommand, cp'.mem_op_restore_state = "CP_CMD_END_PREP"
        PROVE  CpHas' /\ CpPlaces' /\ SendingKind' /\ CpTypeOK'
    <3>1. CpPlaces' /\ SendingKind' /\ CpTypeOK'
      BY <2>9, ToWrite
    <3> QED BY <2>2, <2>9, <3>1 DEF Early
  <2>10. ASSUME Place = "CP_MEM_FETCH", Announces(Reads, "CP_MEM_FETCH_END")
         PROVE  CpHas' /\ CpPlaces' /\ SendingKind' /\ CpTypeOK'
    <3>1. CpPlaces' /\ SendingKind' /\ CpTypeOK'
      BY <2>10, AnnouncesKind DEF Clocked
    <3>2. Group1' /\ SameCommand
      BY <1>2, <1>3, <1>4, <2>10 DEF Announces, Group1
    <3> QED BY <1>2, <3>1, <3>2, CpHasAfter
  <2>11. ASSUME Place = "CP_MEM_WRITE_ADDR", Announces(Writes, "CP_MEM_WRITE_VAL_PREP")
         PROVE  CpHas' /\ CpPlaces' /\ SendingKind' /\ CpTypeOK'
    <3>1. CpPlaces' /\ SendingKind' /\ CpTypeOK'
      BY <2>11, AnnouncesKind DEF Clocked
    <3>2. Group1' /\ SameCommand
      BY <1>2, <1>3, <1>4, <2>11 DEF Announces, Group1
    <3> QED BY <1>2, <3>1, <3>2, CpHasAfter
  <2>12. Decodable
    BY DEF CpAtWork
  <2> QED BY <1>1, <1>5, <2>1, <2>3, <2>4, <2>5, <2>6, <2>7, <2>8, <2>9, <2>10, <2>11, <2>12,
             EarlyMoves
<1>6. CASE Place \in {"CP_MEM_FETCH_END", "CP_MEM_WRITE_VAL_PREP"} /\ Busy
  <2>1. PacketUp
    <3>1. ~Moves("CP_MEM_WRITE_VAL_PREP", "CP_MEM_WRITE_VAL")
      BY <1>6 DEF Moves, To
    <3>2. ~To("CP_DEBUG_WRITE_WAIT_PREP") /\ ~To(cp.mem_op_restore_state)
      BY <1>6 DEF To
    <3> QED BY <1>1, <1>6, <3>1, <3>2, MemMoves
  <2>2. Place' = Place /\ ~Busy' /\ Up' = Append(Up, Sending) /\ SameCommand
    BY <2>1, SameIsAtWork DEF PacketUp, Keeps
  <2>3. CpPlaces' /\ SendingKind' /\ CpTypeOK'
    BY <2>1, SameKind DEF Clocked
  <2>4. CASE Place = "CP_MEM_FETCH_END"
    <3>1. StatsThen(Up', Reads)
      BY <2>2, <2>4, GrowStats DEF SendingKind, Group1
    <3>2. Decodable'
      BY <1>2, <2>2 DEF CpAtWork
    <3> QED BY <1>2, <1>3, <2>2, <2>3, <2>4, <3>1, <3>2 DEF MemUpHas, StatsThen, Reads
  <2>5. CASE Place = "CP_MEM_WRITE_VAL_PREP"
    <3>1. StatsThen(Up', Writes)
      BY <2>2, <2>5, GrowStats DEF SendingKind, Group1
    <3>2. AddrUp'
      BY <1>2, <3>1 DEF AddrUp, StatsThen, Writes
    <3>3. Group2'
      BY <1>3, <2>2, <2>5, <3>2 DEF Group2
    <3> QED BY <1>2, <2>2, <2>3, <3>3, CpHasAfter
  <2> QED BY <1>6, <2>4, <2>5
<1> QED BY <1>5, <1>6 DEF Group1

LEMMA Group2Has ==
    ASSUME Stepped, CpAtWork, Group2, ~Same
    PROVE  (CpHas' \/ MemUpHas') /\ CpPlaces' /\ SendingKind' /\ CpTypeOK'
<1> USE DEF Stepped
<1>1. Received \in Packet /\ Received.type = REQUEST
  BY RequestsDecodable DEF Group2
<1>2. /\ SameCommand => CpAtWork'
      /\ Received' = Received /\ rx_packet_ready = 1
      /\ (NextIsAddr => NextIsAddr') /\ (~NextIsAddr => ~NextIsAddr')
      /\ Waiting' /\ NoAck' /\ DownHere'
  BY AtWorkStays
<1>3. (Received \in Requests)'
  BY <1>2 DEF Group2, Requests
<1>4. Up' = Up => AddrUp'
  BY <1>2 DEF Group2, AddrUp, StatsThen, Writes, Debugs
<1>5. Place \in {"CP_MEM_WRITE_VAL_PREP", "CP_MEM_WRITE_VAL", "CP_MEM_WRITE_END"}
  BY DEF Group2
<1>6. CASE PacketUp
  <2>1. Place = "CP_MEM_WRITE_END"
    BY <1>6 DEF PacketUp, Group2
  <2>2. Place' = Place /\ ~Busy' /\ Up' = Append(Up, Sending) /\ SameCommand
    BY <1>6, SameIsAtWork DEF PacketUp, Keeps
  <2>3. CpPlaces' /\ SendingKind' /\ CpTypeOK'
    BY <1>6, SameKind DEF Clocked
  <2>4. Sending \in Writes
    BY <2>1 DEF SendingKind
  <2>5. Decodable'
    BY <1>2, <2>2 DEF CpAtWork
  <2>6. CASE NextIsAddr /\ StatsThen(Up, Writes)
    <3>1. StatsThenTwo(Up', Writes)
      BY <2>2, <2>4, <2>6, GrowStats
    <3> QED BY <1>2, <1>3, <2>1, <2>2, <2>3, <2>5, <2>6, <3>1 DEF MemUpHas, StatsThenTwo, Writes
  <2>7. CASE ~NextIsAddr /\ Up = <<>>
    <3>1. Len(Up') = 1 /\ Up'[1] \in Writes
      BY <2>2, <2>4, <2>7, GrowStats
    <3> QED BY <1>2, <1>3, <2>1, <2>2, <2>3, <2>5, <2>7, <3>1 DEF MemUpHas, Writes
  <2> QED BY <2>6, <2>7 DEF Group2, AddrUp
<1>7. ASSUME Moves("CP_MEM_WRITE_VAL_PREP", "CP_MEM_WRITE_VAL")
      PROVE  CpHas' /\ CpPlaces' /\ SendingKind' /\ CpTypeOK'
  <2>1. cp'.mem_op_restore_state = "CP_CMD_END_PREP"
    BY <1>7 DEF Moves, SameReturns, Clocked, CpPlaces, WritePlaces
  <2>2. CpPlaces' /\ SendingKind' /\ CpTypeOK'
    BY <1>7, <2>1, ToWrite DEF Moves
  <2>3. Group2' /\ SameCommand
    BY <1>3, <1>4, <1>7 DEF Moves, To, Group2
  <2> QED BY <1>2, <2>2, <2>3, CpHasAfter
<1>8. ASSUME Place = "CP_MEM_WRITE_VAL", Announces(Writes, "CP_MEM_WRITE_END")
      PROVE  CpHas' /\ CpPlaces' /\ SendingKind' /\ CpTypeOK'
  <2>1. CpPlaces' /\ SendingKind' /\ CpTypeOK'
    BY <1>8, AnnouncesKind DEF Clocked
  <2>2. Group2' /\ SameCommand
    BY <1>3, <1>4, <1>8 DEF Announces, Group2
  <2> QED BY <1>2, <2>1, <2>2, CpHasAfter
<1>9. ~(Received.type = RESPONSE)
  BY <1>1 DEF REQUEST, RESPONSE
<1> QED BY <1>1, <1>5, <1>6, <1>7, <1>8, <1>9, MemMoves

LEMMA Group3Has ==
    ASSUME Stepped, CpAtWork, Group3, ~Same
    PROVE  CpHas' /\ CpPlaces' /\ SendingKind' /\ CpTypeOK'
<1> USE DEF Stepped
<1>1. /\ SameCommand => CpAtWork'
      /\ rx_packet_ready = 1 /\ NextIsAddr'
  BY AtWorkStays DEF Group3
<1>2. DEVICE_DEBUG
  BY DEF Group3, Clocked, CpPlaces, DebugPlaces
<1>3. CASE Place = "CP_DEBUG_WRITE_WAIT_PREP"
  <2>1. ~PacketUp
    BY <1>3, BusyPlaces DEF PacketUp
  <2>2. Decodable
    BY DEF CpAtWork
  <2>3. /\ To("CP_DEBUG_WRITE_WAIT") /\ SameCommand
        /\ cp'.debug_restore_state = cp.debug_restore_state
    BY <1>3, <2>1, <2>2, LateMoves DEF Moves
  <2>4. CpPlaces' /\ SendingKind' /\ CpTypeOK'
    BY <1>2, <2>3, ToStats DEF Group3
  <2>5. Group3'
    BY <1>1, <2>3 DEF To, Group3, AfterMem
  <2> QED BY <1>1, <2>3, <2>4, <2>5, CpHasAfter
<1>4. CASE Place = "CP_DEBUG_WRITE_WAIT"
  <2>1. ~PacketUp
    BY <1>4, BusyPlaces DEF PacketUp
  <2>2. Announces(Debugs, "CP_DEBUG_WRITE_RESTORE")
    BY <1>4, <2>1, FreeMoves DEF Moves
  <2>3. CpPlaces' /\ SendingKind' /\ CpTypeOK'
    BY <1>4, <2>2, AnnouncesKind DEF Clocked
  <2>4. Group3' /\ SameCommand
    BY <1>1, <2>2 DEF Announces, SameReturns, Group3, AfterMem
  <2> QED BY <1>1, <2>3, <2>4, CpHasAfter
<1>5. CASE Place = "CP_DEBUG_WRITE_RESTORE" /\ Busy
  <2>1. PacketUp
    BY <1>5, FreeMoves DEF Moves, To
  <2>2. Place' = Place /\ ~Busy' /\ Up' = Append(Up, Sending) /\ SameCommand
        /\ cp'.debug_restore_state = cp.debug_restore_state
    BY <2>1, SameIsAtWork DEF PacketUp, Keeps
  <2>3. CpPlaces' /\ SendingKind' /\ CpTypeOK'
    BY <2>1, SameKind DEF Clocked
  <2>4. StatsOnly(Up')
    BY <1>5, <2>2, GrowStats DEF SendingKind, Group3
  <2>5. Group4'
    BY <1>1, <1>5, <2>2, <2>4 DEF Group3, Group4, StatsOnly, Debugs, AfterMem
  <2> QED BY <1>1, <2>2, <2>3, <2>5, CpHasAfter
<1> QED BY <1>3, <1>4, <1>5 DEF Group3

LEMMA Group4Has ==
    ASSUME Stepped, CpAtWork, Group4, ~Same
    PROVE  (CpHas' \/ AckUpHas') /\ CpPlaces' /\ SendingKind' /\ CpTypeOK'
<1> USE DEF Stepped
<1>1. /\ SameCommand => CpAtWork'
      /\ rx_packet_ready = 1 /\ NextIsAddr' /\ Waiting' /\ NoAck' /\ DownHere'
  BY AtWorkStays DEF Group4
<1>2. Up' = Up => StatsOnly(Up)'
  BY DEF Group4, StatsOnly, Debugs
<1>3. CASE Place = "CP_DEBUG_WRITE_RESTORE" /\ ~Busy /\ cp.debug_restore_state \in AfterMem
  <2>1. ~PacketUp
    BY <1>3 DEF PacketUp
  <2>2. To(cp.debug_restore_state) /\ SameCommand
    BY <1>3, <2>1, FreeMoves DEF Moves
  <2>3. CpPlaces' /\ SendingKind' /\ CpTypeOK'
    BY <1>3, <2>2, ToPlaces DEF AfterMem, FetchPlaces, WritePlaces, DebugPlaces
  <2>4. Group4'
    BY <1>1, <1>2, <1>3, <2>2 DEF To, Group4, Late
  <2> QED BY <1>1, <2>2, <2>3, <2>4, CpHasAfter
<1>4. CASE Place \in Late
  <2>1. ~PacketUp
    BY <1>4, BusyPlaces DEF PacketUp, Late, AfterMem
  <2>2. Decodable
    BY DEF CpAtWork
  <2>3. ASSUME NEW q \in {"CP_CMD_END_PREP", "CP_CMD_END"}, To(q), SameCommand
        PROVE  CpHas' /\ CpPlaces' /\ SendingKind' /\ CpTypeOK'
    <3>1. CpPlaces' /\ SendingKind' /\ CpTypeOK'
      BY <2>3, ToPlaces DEF FetchPlaces, WritePlaces, DebugPlaces
    <3>2. Group4'
      BY <1>1, <1>2, <2>3 DEF To, Group4, Late, AfterMem
    <3> QED BY <1>1, <2>3, <3>1, <3>2, CpHasAfter
  <2>4. ASSUME Announces(Acks, "CP_STOP")
        PROVE  CpHas' /\ CpPlaces' /\ SendingKind' /\ CpTypeOK'
    <3>1. CpPlaces' /\ SendingKind' /\ CpTypeOK'
      BY <2>4, AnnouncesKind DEF Clocked
    <3>2. Group4' /\ SameCommand
      BY <1>1, <1>2, <2>4 DEF Announces, Group4
    <3> QED BY <1>1, <3>1, <3>2, CpHasAfter
  <2>5. Place # "CP_DEBUG_WRITE_WAIT_PREP"
    BY <1>4 DEF Late, AfterMem
  <2> QED BY <1>4, <2>1, <2>2, <2>3, <2>4, <2>5, LateMoves DEF Moves
<1>5. CASE Place \in {"CP_STOP", "CP_STOP_MODIFIED"} /\ Busy
  <2>1. PacketUp
    BY <1>5, FreeMoves DEF Moves, To
  <2>2. Place' = Place /\ ~Busy' /\ Up' = Append(Up, Sending) /\ SameCommand
    BY <2>1, SameIsAtWork DEF PacketUp, Keeps
  <2>3. CpPlaces' /\ SendingKind' /\ CpTypeOK'
    BY <2>1, SameKind DEF Clocked
  <2>4. StatsAround(Up', Acks, StatsSent')
    BY <1>5, <2>2, GrowAround DEF SendingKind, Group4
  <2>5. StatsAround(Up, Acks, StatsSent)'
    BY <2>4 DEF StatsAround, Acks, Debugs
  <2>6. CpFree' /\ cp'.state # "CP_IDLE"
    BY <1>5, <2>2 DEF CpFree, Place
  <2> QED BY <1>1, <2>3, <2>5, <2>6 DEF AckUpHas
<1> QED BY <1>3, <1>4, <1>5 DEF Group4

LEMMA BoardCpHas ==
    ASSUME Stepped, CpHas
    PROVE  (CpHas' \/ MemUpHas' \/ AckUpHas') /\ CpPlaces' /\ SendingKind' /\ CpTypeOK'
BY CpHasIs, SameHas, Group1Has, Group2Has, Group3Has, Group4Has

LEMMA BoardMemUpHas ==
    ASSUME Stepped, MemUpHas
    PROVE  MemUpHas' /\ CpPlaces' /\ SendingKind' /\ CpTypeOK'
<1> USE DEF Stepped
<1>1. /\ DownHere' /\ Received' = Received
      /\ Waiting' /\ NoAck' /\ (NextIsAddr => NextIsAddr') /\ (~NextIsAddr => ~NextIsAddr')
  BY DownHereStays, StillWaiting DEF MemUpHas
<1>2. Received \in Packet /\ Received.type # RESPONSE
  BY RequestsDecodable DEF MemUpHas, REQUEST, RESPONSE
<1>3. ~Busy /\ Place \in {"CP_MEM_FETCH_END", "CP_MEM_WRITE_END"}
  BY DEF MemUpHas
<1>4. Same
  BY <1>2, <1>3, MemMoves DEF PacketUp, Moves
<1>5. SameCommand /\ Place' = Place /\ ~Busy' /\ Up' = Up
  BY <1>3, <1>4, SameIsAtWork DEF Same, Keeps
<1>6. CpPlaces' /\ SendingKind' /\ CpTypeOK'
  BY <1>4, SameKind DEF Clocked
<1>7. Decodable'
  BY <1>5 DEF MemUpHas, SameCommand, Decodable
<1>8. (Received \in Requests)'
  BY <1>1 DEF MemUpHas, Requests
<1>9. \/ Place' = "CP_MEM_FETCH_END" /\ NextIsAddr' /\ StatsThen(Up, Reads)'
      \/ Place' = "CP_MEM_WRITE_END" /\ NextIsAddr' /\ StatsThenTwo(Up, Writes)'
      \/ Place' = "CP_MEM_WRITE_END" /\ ~NextIsAddr' /\ Len(Up') = 1 /\ Up'[1] \in Writes'
  BY <1>1, <1>5 DEF MemUpHas, StatsThen, StatsThenTwo, Reads, Writes, Debugs
<1> QED BY <1>1, <1>5, <1>6, <1>7, <1>8, <1>9 DEF MemUpHas

LEMMA BoardMemDownHas ==
    ASSUME Stepped, MemDownHas
    PROVE  (MemDownHas' \/ CpHas') /\ CpPlaces' /\ SendingKind' /\ CpTypeOK'
<1> USE DEF Stepped
<1>1. /\ DownShape' /\ Down' = Down
      /\ rx_packet_ready' = 1 /\ rx_packet_ready = 0 => port_out' = <<>>
      /\ rx_packet_ready' = 1 /\ rx_packet_ready = 1 => rx_packet' = rx_packet
      /\ prx.state # "RX_IDLE" => prx'.state # "RX_IDLE"
  BY RxStep DEF MemDownHas
<1>2. Waiting' /\ NoAck' /\ NextIsAddr'
  BY StillWaiting DEF MemDownHas
<1>3. ~Busy /\ Place \in {"CP_MEM_FETCH_END", "CP_MEM_WRITE_END"} /\ Decodable
  BY DEF MemDownHas
<1>4. ASSUME rx_packet_ready = 1, port_out = <<>>
      PROVE  DownHere /\ Received \in Answers
  <2>1. prx.state = "RX_END"
    BY <1>4 DEF MemDownHas, DownShape
  <2>2. Down = Received /\ rx_data_en = 1
    BY <1>4, <2>1, RxArrived DEF MemDownHas
  <2> QED BY <1>4, <2>1, <2>2 DEF DownHere, DownIdle, MemDownHas
<1>5. rx_packet_ready = 1 => Received \in Packet
  BY <1>4, Kinds DEF MemDownHas
<1>6. CASE Same
  <2>1. SameCommand /\ Place' = Place /\ ~Busy' /\ Up' = Up
    BY <1>3, <1>6, SameIsAtWork DEF Same, Keeps
  <2>2. CpPlaces' /\ SendingKind' /\ CpTypeOK'
    BY <1>6, SameKind DEF Clocked
  <2>3. rx_packet_ready' = 1 /\ port_out' # <<>> => (Received \in Requests)'
    <3>1. SUFFICES ASSUME rx_packet_ready' = 1, port_out' # <<>>
                   PROVE  (Received \in Requests)'
      OBVIOUS
    <3>2. rx_packet_ready = 1 /\ Received' = Received
      BY <1>1, <3>1 DEF RxTypeOK, Received
    <3>3. CASE port_out = <<>>
      <4>1. DownHere
        BY <1>4, <3>2, <3>3
      <4>2. DownHere'
        BY <4>1, DownHereStays
      <4> QED BY <3>1, <4>2 DEF DownHere, DownIdle
    <3>4. CASE port_out # <<>>
      BY <3>2, <3>4 DEF MemDownHas, Requests
    <3> QED BY <3>3, <3>4
  <2>4. Decodable' /\ (Down \in Answers)' /\ prx'.state # "RX_IDLE"
    BY <1>1, <2>1 DEF MemDownHas, SameCommand, Decodable, Answers
  <2> QED BY <1>1, <1>2, <1>3, <2>1, <2>2, <2>3, <2>4 DEF MemDownHas
<1>7. CASE ~Same
  <2>1. /\ rx_packet_ready = 1 /\ Received.type = RESPONSE
        /\ SameCommand /\ cp.mem_op_restore_state \in AfterMem
        /\ IF DEVICE_DEBUG
           THEN /\ To("CP_DEBUG_WRITE_WAIT_PREP")
                /\ cp'.debug_restore_state = cp.mem_op_restore_state
           ELSE To(cp.mem_op_restore_state)
    BY <1>3, <1>5, <1>7, MemMoves DEF PacketUp, Moves
  <2>2. port_out = <<>>
    BY <2>1, RequestsDecodable DEF MemDownHas, REQUEST, RESPONSE
  <2>3. DownHere
    BY <1>4, <2>1, <2>2
  <2>4. DownHere'
    BY <2>3, DownHereStays
  <2>5. Decodable' /\ CpAtWork'
    BY <1>2, <1>3, <2>1, <2>4 DEF SameCommand, Decodable, CpAtWork
  <2>6. CASE DEVICE_DEBUG
    <3>1. CpPlaces' /\ SendingKind' /\ CpTypeOK'
      BY <2>1, <2>6, ToStats
    <3>2. Group3'
      BY <1>2, <2>1, <2>6 DEF To, Group3, MemDownHas, AfterMem
    <3> QED BY <2>5, <3>1, <3>2, CpHasAfter
  <2>7. CASE ~DEVICE_DEBUG
    <3>1. CpPlaces' /\ SendingKind' /\ CpTypeOK'
      BY <2>1, <2>7, ToPlaces DEF AfterMem, FetchPlaces, WritePlaces, DebugPlaces
    <3>2. Up' = <<>> /\ Place' \in Late
      BY <2>1, <2>7 DEF To, MemDownHas, Late
    <3>3. StatsOnly(Up)'
      BY <3>2 DEF StatsOnly
    <3>4. Group4'
      BY <1>2, <3>2, <3>3 DEF Group4, Late, AfterMem
    <3> QED BY <2>5, <3>1, <3>4, CpHasAfter
  <2> QED BY <2>6, <2>7
<1> QED BY <1>6, <1>7

-----------------------------------------------------------------------------
(* A clock of the board keeps the invariant.                               *)

LEMMA TypesOf ==
    ASSUME TypeOK
    PROVE  /\ CpTypeOK /\ cp \in CpRecord /\ TxTypeOK /\ RxTypeOK /\ PtxTyped
           /\ RingTypeOK /\ PortTypeOK /\ Sending \in Frame
<1>1. CpTypeOK /\ TxTypeOK /\ RxTypeOK /\ PtxTyped /\ RingTypeOK /\ PortTypeOK
  BY DEF TypeOK, BoardTypeOK, CpTypeOK, PacketTypeOK, TxTypeOK, RxTypeOK, PtxTyped, PortTypeOK
<1>2. cp \in CpRecord /\ Sending \in Frame
  BY <1>1, CpTypeIs DEF Sending, Frame
<1> QED BY <1>1, <1>2

LEMMA BoardStepped ==
    ASSUME TypeOK, Turns, BoardStep
    PROVE  Stepped /\ Framed' /\ TxHandshake'
<1>1. /\ CpClock /\ PacketRxClock /\ PacketTxClock /\ TransmitterClock /\ ReceiverClock
      /\ UNCHANGED <<ringVars, found, scratch>> /\ Still
  BY DEF BoardStep, Clock, implVars, driverVars, Still, InRing, ringVars
<1>2. TxHandshake /\ CpHandshakes /\ Framed /\ CpPlaces /\ SendingKind
  BY DEF Turns
<1>3. CpTypeOK /\ cp \in CpRecord /\ TxTypeOK /\ RxTypeOK /\ PtxTyped /\ Sending \in Frame
  BY TypesOf
<1>4. WireStep /\ CpHandshakes'
  BY <1>1, <1>2, <1>3, CpHandshakesStep
<1>5. TxHandshake' /\ Framed' /\ (UpStays \/ UpGrows)
  BY <1>1, <1>2, <1>4, BoardUp
<1>6. Up \in Seq(Frame)
  BY UpShape
<1> QED BY <1>1, <1>2, <1>3, <1>4, <1>5, <1>6 DEF Stepped, Clocked

\* Whatever comes down, RX_RECEIVE has room for its byte.
LEMMA DownIs == ASSUME Turns PROVE DownIdle \/ DownShape
BY DEF Turns, HostHas, DownHas, CpHas, MemUpHas, MemDownHas, AckUpHas, AckHas, DownHere

LEMMA ReceiveRoom ==
    ASSUME RxTypeOK, DownIdle \/ DownShape, prx.state = "RX_RECEIVE"
    PROVE  prx.idx \in 0 .. 5
BY DEF RxTypeOK, DownIdle, DownShape

\* What the registers hold after the clock.
LEMMA RxTypes ==
    ASSUME RxTypeOK, DownIdle \/ DownShape, PacketRxClock, ReceiverClock,
           high \in 0 .. MinHigh, MinHigh \in Nat
    PROVE  RxTypeOK' /\ high' \in 0 .. MinHigh
<1>1. 0 \in Byte /\ NoBytes \in [1 .. 6 -> Byte]
  BY DEF Byte, NoBytes
<1>2. /\ prx' \in [state : {"RX_IDLE", "RX_RECEIVE_WAIT", "RX_RECEIVE", "RX_END"}, idx : 0 .. 6]
      /\ rx_packet' \in [1 .. 6 -> Byte] /\ rx_packet_ready' \in {0, 1}
  <2>1. CASE PacketRxReceive
    <3>1. prx.idx \in 0 .. 5
      BY <2>1, ReceiveRoom DEF PacketRxReceive
    <3> QED BY <2>1, <3>1 DEF PacketRxReceive, RxTypeOK
  <2>2. CASE PacketRxIdle
    BY <1>1, <2>2 DEF PacketRxIdle, RxTypeOK
  <2>3. CASE PacketRxReceiveWait
    BY <2>3 DEF PacketRxReceiveWait, RxTypeOK
  <2>4. CASE PacketRxEnd
    BY <2>4 DEF PacketRxEnd, RxTypeOK
  <2> QED BY <2>1, <2>2, <2>3, <2>4 DEF PacketRxClock
<1>3. /\ rx_data_en' \in {0, 1} /\ rx_data' \in Byte /\ port_out' \in Seq(Byte)
      /\ high' \in 0 .. MinHigh
  <2>1. port_out # <<>> => Head(port_out) \in Byte /\ Tail(port_out) \in Seq(Byte)
    BY Cons DEF RxTypeOK
  <2>2. CASE port_out # <<>> /\ Receiver!Report(Head(port_out)) /\ port_out' = Tail(port_out)
    BY <2>1, <2>2 DEF RxTypeOK, Receiver!Report
  <2>3. CASE (Receiver!Rest \/ Receiver!Begin \/ Receiver!Shift) /\ UNCHANGED port_out
    <3>1. Receiver!OneMore \in 0 .. MinHigh /\ 0 \in 0 .. MinHigh
      BY DEF Receiver!OneMore
    <3>2. rx_data_en \in {0, 1} /\ rx_data \in Byte /\ port_out \in Seq(Byte)
      BY DEF RxTypeOK
    <3>3. rx_data' \in Byte
      BY <1>1, <2>3, <3>2 DEF Receiver!Rest, Receiver!Begin, Receiver!Shift
    <3>4. rx_data_en' \in {0, 1}
      BY <2>3, <3>2 DEF Receiver!Rest, Receiver!Begin, Receiver!Shift
    <3>5. high' \in 0 .. MinHigh
      BY <2>3, <3>1 DEF Receiver!Rest, Receiver!Begin, Receiver!Shift
    <3> QED BY <2>3, <3>2, <3>3, <3>4, <3>5
  <2> QED BY <2>2, <2>3 DEF ReceiverClock
<1> QED BY <1>2, <1>3 DEF RxTypeOK

LEMMA TxTypes ==
    ASSUME TxTypeOK, TxHandshake, PacketTxClock, tx_data \in Byte
    PROVE  /\ ptx' \in [state : {"TX_IDLE", "TX_SEND", "TX_SEND_WAIT", "TX_END"}, idx : 0 .. 6]
           /\ tx_data' \in Byte /\ tx_data_en' \in {0, 1} /\ tx_packet_sent' \in {0, 1}
<1>1. CASE PacketTxSend
  <2>1. ptx.idx \in 0 .. 5
    BY <1>1 DEF TxHandshake, TxTypeOK, PacketTxSend
  <2> QED BY <1>1, <2>1 DEF TxTypeOK, PacketTxSend
<1>2. CASE PacketTxIdle
  BY <1>2 DEF PacketTxIdle, TxTypeOK
<1>3. CASE PacketTxSendWait
  BY <1>3 DEF PacketTxSendWait, TxTypeOK
<1>4. CASE PacketTxEnd
  BY <1>4 DEF PacketTxEnd, TxTypeOK
<1> QED BY <1>1, <1>2, <1>3, <1>4 DEF PacketTxClock

LEMMA TransmitterTypes ==
    ASSUME data_sent \in {0, 1}, phase \in {"idle", "shift", "stop", "done"}, byte \in Byte,
           stopped \in 0 .. MaxStop, MaxStop \in Nat, tx_data \in Byte, port_in \in Seq(Byte),
           TransmitterClock
    PROVE  /\ data_sent' \in {0, 1} /\ phase' \in {"idle", "shift", "stop", "done"}
           /\ byte' \in Byte /\ stopped' \in 0 .. MaxStop /\ port_in' \in Seq(Byte)
<1>1. Append(port_in, byte) \in Seq(Byte)
  OBVIOUS
<1> QED BY <1>1 DEF TransmitterClock, Transmitter!Idle, Transmitter!Accept, Transmitter!Shift,
           Transmitter!StopBit, Transmitter!Acknowledge, Transmitter!Deliver, Transmitter!byteTxVars

LEMMA BoardTypes ==
    ASSUME TypeOK, Turns, BoardStep, CpTypeOK'
    PROVE  TypeOK'
<1>1. /\ PacketRxClock /\ PacketTxClock /\ TransmitterClock /\ ReceiverClock
      /\ UNCHANGED <<ringVars, contents, allocation_ptr, implVars, driverVars, history>>
  BY DEF BoardStep, Clock
<1>2. /\ MinHigh \in Nat /\ MaxStop \in Nat /\ tx_data \in Byte /\ high \in 0 .. MinHigh
      /\ data_sent \in {0, 1} /\ phase \in {"idle", "shift", "stop", "done"} /\ byte \in Byte
      /\ stopped \in 0 .. MaxStop /\ port_in \in Seq(Byte)
  BY UartAssumption DEF TypeOK, BoardTypeOK, PacketTypeOK, PortTypeOK
<1>3. RxTypeOK' /\ high' \in 0 .. MinHigh
  BY <1>1, <1>2, TypesOf, DownIs, RxTypes
<1>4. /\ ptx' \in [state : {"TX_IDLE", "TX_SEND", "TX_SEND_WAIT", "TX_END"}, idx : 0 .. 6]
      /\ tx_data' \in Byte /\ tx_data_en' \in {0, 1} /\ tx_packet_sent' \in {0, 1}
  BY <1>1, <1>2, TypesOf, TxTypes DEF Turns
<1>5. /\ data_sent' \in {0, 1} /\ phase' \in {"idle", "shift", "stop", "done"}
      /\ byte' \in Byte /\ stopped' \in 0 .. MaxStop /\ port_in' \in Seq(Byte)
  BY <1>1, <1>2, TransmitterTypes
<1>6. BoardTypeOK' /\ PortTypeOK'
  BY <1>3, <1>4, <1>5 DEF BoardTypeOK, PacketTypeOK, PortTypeOK, RxTypeOK
<1>7. RingTypeOK' /\ MemoryTypeOK' /\ ImplTypeOK'
  BY <1>1 DEF TypeOK, RingTypeOK, MemoryTypeOK, ImplTypeOK, ringVars, implVars
<1> QED BY <1>1, <1>6, <1>7 DEF TypeOK, driverVars, history

\* Who is where when the processor is at a place.
LEMMA IdleIsFree ==
    ASSUME Turns, CpHandshakes, cp.state = "CP_IDLE"
    PROVE  (HostHas \/ DownHas) /\ Place = "CP_IDLE"
<1>1. Place = "CP_IDLE"
  BY DEF Place
<1> QED BY <1>1 DEF Turns, CpHas, MemUpHas, MemDownHas, AckUpHas, AckHas, Early, Late, AfterMem

LEMMA EarlyIsWork ==
    ASSUME Turns, Place \in {"CP_PACKET_DECODE", "CP_HANDSHAKE_PREP", "CP_HANDSHAKE"}
    PROVE  Decodable /\ Received \in Requests
BY DEF Turns, HostHas, DownHas, CpHas, MemUpHas, MemDownHas, AckUpHas, AckHas, CpFree, Late,
       AfterMem

\* The places the handshake passes through.
HandshakePlaces == {"CP_PACKET_DECODE", "CP_HANDSHAKE_PREP", "CP_HANDSHAKE"}
AnsweringPlaces == {"CP_STOP", "CP_STOP_MODIFIED"}

LEMMA AppendFirst ==
    ASSUME NEW s \in Seq(Frame), NEW p \in Frame, s # <<>>
    PROVE  Append(s, p) # <<>> /\ Append(s, p)[1] = s[1]
OBVIOUS

LEMMA AppendToEmpty ==
    ASSUME NEW p
    PROVE  Append(<<>>, p) # <<>> /\ Append(<<>>, p)[1] = p
OBVIOUS

LEMMA StartStep ==
    ASSUME Stepped, Turns, cp.state = "CP_IDLE", rx_packet_ready = 0, Up = <<>>
    PROVE  cp' = cp /\ Up' = <<>>
<1>1. CpIdle /\ CpTypeOK /\ Clocked
  BY CpAt DEF Stepped, Clocked, At
<1>2. cp' = cp /\ WiresKept
  BY <1>1 DEF CpIdle, Registers, WiresKept
<1>3. ~Busy
  BY <1>1, Idle DEF Waits
<1>4. Same \/ PacketUp
  BY <1>1, <1>2, StaysIs DEF Clocked
<1> QED BY <1>2, <1>3, <1>4 DEF Same, PacketUp

LEMMA AcceptedState ==
    ASSUME NEW r \in CpRecord, NEW t, NEW i, NEW c, NEW o
    PROVE  [r EXCEPT !.debug_pkt_type = t, !.delay_cycles = 1, !.delay_counter = 0,
                     !.mem_op_restore_state = "CP_IDLE", !.wait_restore_state = "CP_IDLE",
                     !.delay_restore_state = "CP_IDLE", !.pkt_id = i, !.pkt_cmd = c,
                     !.pkt_sub_cmd = o, !.state = "CP_PACKET_DECODE"].state = "CP_PACKET_DECODE"
BY DEF CpRecord

LEMMA HandshakeDown ==
    ASSUME Stepped, Turns, DownHas, cp.state = "CP_IDLE", Up = <<>>, Down.cmd = HANDSHAKE
    PROVE  \/ Up' = <<>> /\ cp'.state = "CP_IDLE" /\ Down'.cmd = HANDSHAKE
           \/ Up' = <<>> /\ cp'.pkt_cmd = HANDSHAKE /\ Place' \in HandshakePlaces
<1>1. CASE rx_packet_ready = 0
  <2>1. cp' = cp /\ Up' = <<>>
    BY <1>1, StartStep
  <2>2. Down' = Down
    BY RxStep DEF Stepped, DownHas
  <2> QED BY <2>1, <2>2
<1>2. CASE rx_packet_ready # 0
  <2>1. rx_packet_ready = 1 /\ port_out = <<>> /\ prx.state = "RX_END"
    BY <1>2 DEF DownHas, DownShape, Stepped, RxTypeOK
  <2>2. Down = Received
    BY <2>1, RxArrived DEF DownHas, Stepped
  <2>3. Received \in Packet
    BY <2>2, RequestsDecodable DEF DownHas
  <2>4. CpIdle /\ Clocked
    BY CpAt DEF Stepped, Clocked, At
  <2>5. cp'.state = "CP_PACKET_DECODE"
    <3>1. cp \in CpRecord
      BY <2>4 DEF Clocked
    <3> QED BY <2>1, <2>4, <3>1, AcceptedState DEF CpIdle, Registers
  <2>6. Place' = "CP_PACKET_DECODE" /\ Place = "CP_IDLE"
    BY <2>5 DEF Place
  <2>7. ~Same /\ ~PacketUp
    BY <2>6, SameRegisters
  <2>8. To("CP_PACKET_DECODE") /\ cp'.pkt_cmd = Received.cmd
    <3>1. Clocked /\ Place \in {"CP_IDLE", "CP_STOP", "CP_STOP_MODIFIED", "CP_DEBUG_WRITE_WAIT",
                                "CP_DEBUG_WRITE_RESTORE"}
      BY <2>4, <2>6
    <3>2. ~Moves("CP_DEBUG_WRITE_RESTORE", cp.debug_restore_state)
      BY <2>6 DEF Moves
    <3> HIDE <2>4
    <3> QED BY <2>3, <2>6, <2>7, <3>1, <3>2, FreeMoves
  <2> QED BY <2>2, <2>6, <2>8 DEF To, HandshakePlaces
<1> QED BY <1>1, <1>2

LEMMA HandshakeWork ==
    ASSUME Stepped, Turns, Up = <<>>, cp.pkt_cmd = HANDSHAKE, Place \in HandshakePlaces
    PROVE  \/ Up' = <<>> /\ cp'.pkt_cmd = HANDSHAKE /\ Place' \in HandshakePlaces
           \/ Up' = <<>> /\ Place' \in AnsweringPlaces /\ Busy'
<1>1. Clocked /\ Decodable /\ Received \in Packet /\ Place \in Early
  BY EarlyIsWork, RequestsDecodable DEF Stepped, HandshakePlaces, Early
<1>2. ~PacketUp
  BY <1>1, BusyPlaces DEF PacketUp, HandshakePlaces
<1>3. CASE Same
  BY <1>3, SameRegisters DEF Same
<1>4. CASE \E q \in {"CP_HANDSHAKE_PREP", "CP_FETCH_OP1", "CP_FETCH_OP2", "CP_ADD", "CP_MULP2",
                     "CP_DIVP2"} :
               /\ Moves("CP_PACKET_DECODE", q)
               /\ cp.pkt_cmd = HANDSHAKE => q = "CP_HANDSHAKE_PREP"
  BY <1>4 DEF Moves, To, SameCommand, HandshakePlaces
<1>5. CASE Moves("CP_HANDSHAKE_PREP", "CP_HANDSHAKE")
  BY <1>5 DEF Moves, To, SameCommand, HandshakePlaces
<1>6. CASE \E q \in {"CP_STOP", "CP_STOP_MODIFIED"} : Announces(Acks, q)
  BY <1>6 DEF Announces, AnsweringPlaces
<1> QED BY <1>1, <1>2, <1>3, <1>4, <1>5, <1>6, EarlyMoves DEF HandshakePlaces, Moves

LEMMA HandshakeSending ==
    ASSUME Stepped, Up = <<>>, Place \in AnsweringPlaces, Busy
    PROVE  \/ Up' = <<>> /\ Place' \in AnsweringPlaces /\ Busy'
           \/ Up' # <<>> /\ Up'[1] \in Acks
<1>1. Same \/ PacketUp
  <2>1. \A q : ~To(q)
    BY DEF To
  <2>2. Clocked /\ Place \in {"CP_STOP", "CP_STOP_MODIFIED"}
    BY DEF Stepped, AnsweringPlaces
  <2>3. ~Moves("CP_DEBUG_WRITE_RESTORE", cp.debug_restore_state)
    BY <2>2 DEF Moves
  <2> QED BY <2>1, <2>2, <2>3, FreeMoves
<1>2. Sending \in Acks
  BY DEF Stepped, SendingKind, AnsweringPlaces
<1>3. CASE Same
  BY <1>3, SameRegisters DEF Same
<1>4. CASE PacketUp
  BY <1>2, <1>4, AppendToEmpty DEF PacketUp
<1> QED BY <1>1, <1>3, <1>4

LEMMA BoardFinding ==
    ASSUME Stepped, Turns
    PROVE  Finding'
<1>1. host' = host /\ Finding
  BY DEF Stepped, Still, Turns
<1>2. ASSUME host = "start" PROVE cp'.state = "CP_IDLE" /\ Up' = <<>>
  <2>1. cp.state = "CP_IDLE" /\ Up = <<>>
    BY <1>1, <1>2 DEF Finding
  <2>2. rx_packet_ready = 0
    BY <1>2, <2>1, IdleIsFree DEF Stepped, Clocked, HostHas, DownHas, Waiting
  <2> QED BY <2>1, <2>2, StartStep
<1>3. ASSUME host = "finding"
      PROVE  \/ Up' = <<>> /\ cp'.state = "CP_IDLE" /\ Down'.cmd = HANDSHAKE
             \/ Up' = <<>> /\ cp'.pkt_cmd = HANDSHAKE /\ Place' \in HandshakePlaces
             \/ Up' = <<>> /\ Place' \in AnsweringPlaces /\ Busy'
             \/ Up' # <<>> /\ Up'[1] \in Acks
  <2>1. CASE Up = <<>> /\ cp.state = "CP_IDLE" /\ Down.cmd = HANDSHAKE
    <3>1. DownHas
      BY <1>3, <2>1, IdleIsFree DEF Stepped, Clocked, HostHas
    <3> QED BY <2>1, <3>1, HandshakeDown
  <2>2. CASE Up = <<>> /\ cp.pkt_cmd = HANDSHAKE /\ Place \in HandshakePlaces
    BY <2>2, HandshakeWork
  <2>3. CASE Up = <<>> /\ Place \in AnsweringPlaces /\ Busy
    BY <2>3, HandshakeSending
  <2>4. CASE Up # <<>> /\ Up[1] \in Acks
    <3>1. Up' = Up \/ Up' = Append(Up, Sending)
      BY DEF Stepped, Clocked, UpStays, UpGrows
    <3> QED BY <2>4, <3>1, AppendFirst DEF Stepped
  <2> QED BY <1>1, <1>3, <2>1, <2>2, <2>3, <2>4 DEF Finding, HandshakePlaces, AnsweringPlaces
<1>4. Acks' = Acks
  BY DEF Acks
<1> QED BY <1>1, <1>2, <1>3, <1>4 DEF Finding, HandshakePlaces, AnsweringPlaces

LEMMA BoardTurns ==
    ASSUME TypeOK, Turns, BoardStep
    PROVE  TypeOK' /\ Turns'
<1>1. Stepped /\ Framed' /\ TxHandshake'
  BY BoardStepped
<1>2. Finding'
  BY <1>1, BoardFinding
<1>3. /\ CpPlaces' /\ SendingKind' /\ CpTypeOK'
      /\ \/ HostHas' \/ DownHas' \/ CpHas' \/ MemUpHas' \/ MemDownHas' \/ AckUpHas' \/ AckHas'
  <2>1. CASE HostHas
    BY <1>1, <2>1, BoardHostHas
  <2>2. CASE DownHas
    BY <1>1, <2>2, BoardDownHas
  <2>3. CASE CpHas
    BY <1>1, <2>3, BoardCpHas
  <2>4. CASE MemUpHas
    BY <1>1, <2>4, BoardMemUpHas
  <2>5. CASE MemDownHas
    BY <1>1, <2>5, BoardMemDownHas
  <2>6. CASE AckUpHas
    BY <1>1, <2>6, BoardAckUpHas
  <2>7. CASE AckHas
    BY <1>1, <2>7, BoardAckHas
  <2> QED BY <2>1, <2>2, <2>3, <2>4, <2>5, <2>6, <2>7 DEF Turns
<1>4. TypeOK'
  BY <1>3, BoardTypes
<1>5. NotListening' /\ CpHandshakes'
  BY <1>1 DEF Turns, NotListening, Stepped, Still
<1>6. /\ (\A i \in 1 .. Len(recorded_commands) : recorded_commands[i] \in Requests)'
      /\ host' \in {"stat", "cmd_sync"} => recorded_commands' # <<>>
  BY <1>1 DEF Turns, Stepped, Still, Requests
<1> QED BY <1>1, <1>2, <1>3, <1>4, <1>5, <1>6 DEF Turns

-----------------------------------------------------------------------------
(* Steps of the host, during which the board rests.                        *)

BoardRests == UNCHANGED boardVars

LEMMA RestsCp ==
    ASSUME BoardRests
    PROVE  /\ Place' = Place /\ (Busy' <=> Busy) /\ Partial' = Partial /\ tx_packet' = tx_packet
           /\ Sending' = Sending /\ Received' = Received /\ cp' = cp
           /\ rx_packet_ready' = rx_packet_ready /\ prx' = prx
<1> USE DEF BoardRests, boardVars
<1>1. Place' = Place
  BY DEF Place
<1>2. Partial' = Partial /\ (Busy' <=> Busy)
  BY DEF Partial, Busy, Delivered
<1>3. Sending' = Sending /\ Received' = Received
  BY DEF Sending, Received
<1> QED BY <1>1, <1>2, <1>3

LEMMA RestsHandshakes ==
    ASSUME BoardRests, TxHandshake, CpHandshakes, CpPlaces, SendingKind
    PROVE  TxHandshake' /\ CpHandshakes' /\ CpPlaces' /\ SendingKind'
<1>1. TxHandshake'
  BY DEF BoardRests, boardVars, TxHandshake, ByteIdle, ByteLeft
<1>2. CpHandshakes'
  BY DEF BoardRests, boardVars, CpHandshakes, Settled
<1>3. CpPlaces'
  BY RestsCp DEF CpPlaces
<1>4. SendingKind'
  BY RestsCp DEF SendingKind, Reads, Writes, Debugs, Acks
<1> QED BY <1>1, <1>2, <1>3, <1>4

LEMMA RestsPlaces ==
    ASSUME BoardRests
    PROVE  /\ CpFree => CpFree'
           /\ StatsSent => StatsSent'
           /\ Decodable => Decodable'
BY RestsCp DEF CpFree, StatsSent, Decodable

LEMMA RestsDown ==
    ASSUME BoardRests, port_out' = port_out
    PROVE  /\ DownIdle => DownIdle'
           /\ DownHere => DownHere'
           /\ DownShape => DownShape'
           /\ Down' = Down
BY DEF BoardRests, boardVars, DownIdle, DownHere, DownShape, Down, DownByte

\* Nothing moves that a party has.
Quiet ==
    /\ BoardRests /\ Up' = Up /\ port_out' = port_out
    /\ UNCHANGED <<received_payloads, unread, device_packet_recv_state>>
    /\ Waiting => Waiting'
    /\ host \in {"start", "app", "sync", "exited"} => host' \in {"start", "app", "sync", "exited"}

Somebody ==
    \/ HostHas
    \/ DownHas
    \/ CpHas
    \/ MemUpHas
    \/ MemDownHas
    \/ AckUpHas
    \/ AckHas

LEMMA QuietHas ==
    ASSUME Quiet, Somebody
    PROVE  Somebody'
<1>1. /\ Place' = Place /\ (Busy' <=> Busy) /\ Received' = Received /\ cp' = cp
      /\ rx_packet_ready' = rx_packet_ready /\ prx' = prx
  BY RestsCp DEF Quiet
<1>2. (CpFree => CpFree') /\ (StatsSent => StatsSent') /\ (Decodable => Decodable')
  BY RestsPlaces DEF Quiet
<1>3. /\ DownIdle => DownIdle'
      /\ DownHere => DownHere'
      /\ DownShape => DownShape'
      /\ Down' = Down
  BY RestsDown DEF Quiet
<1>4. /\ NoAck => NoAck'
      /\ NextIsAddr => NextIsAddr'
      /\ ~NextIsAddr => ~NextIsAddr'
  BY DEF Quiet, NoAck, NextIsAddr
<1>5. Up' = Up /\ (FreeUp => FreeUp')
  BY <1>2 DEF Quiet, FreeUp
<1>6. /\ port_out' = port_out /\ received_payloads' = received_payloads /\ unread' = unread
      /\ Waiting => Waiting'
      /\ host \in {"start", "app", "sync", "exited"} => host' \in {"start", "app", "sync", "exited"}
  BY DEF Quiet
<1>7. CASE HostHas
  BY <1>1, <1>2, <1>3, <1>4, <1>5, <1>6, <1>7 DEF HostHas, Somebody
<1>8. CASE DownHas
  BY <1>1, <1>2, <1>3, <1>4, <1>5, <1>6, <1>8 DEF DownHas, Somebody, Requests
<1>9. CASE CpHas
  <2>1. AddrUp => AddrUp'
    BY <1>4, <1>5 DEF AddrUp, StatsThen, Writes, Debugs
  <2>2. StatsOnly(Up) => StatsOnly(Up)'
    BY <1>5 DEF StatsOnly, Debugs
  <2> QED BY <1>1, <1>2, <1>3, <1>4, <1>5, <1>6, <1>9, <2>1, <2>2 DEF CpHas, Somebody, Requests
<1>10. CASE MemUpHas
  <2>1. /\ StatsThen(Up, Reads) => StatsThen(Up, Reads)'
        /\ StatsThenTwo(Up, Writes) => StatsThenTwo(Up, Writes)'
    BY <1>5 DEF StatsThen, StatsThenTwo, Reads, Writes, Debugs
  <2> QED BY <1>1, <1>2, <1>3, <1>4, <1>5, <1>6, <1>10, <2>1
             DEF MemUpHas, Somebody, Requests, Writes
<1>11. CASE MemDownHas
  BY <1>1, <1>2, <1>3, <1>4, <1>5, <1>6, <1>11 DEF MemDownHas, Somebody, Requests, Answers
<1>12. CASE AckUpHas
  <2>1. StatsAround(Up, Acks, StatsSent)'
    BY <1>2, <1>5, <1>12 DEF AckUpHas, StatsAround, Acks, Debugs
  <2> QED BY <1>1, <1>2, <1>3, <1>4, <1>6, <1>12, <2>1 DEF AckUpHas, Somebody
<1>13. CASE AckHas
  BY <1>1, <1>2, <1>3, <1>4, <1>5, <1>6, <1>13 DEF AckHas, Somebody, Acks
<1> QED BY <1>7, <1>8, <1>9, <1>10, <1>11, <1>12, <1>13 DEF Somebody

-----------------------------------------------------------------------------
(* How much is up.                                                         *)

LEMMA NoStatistics == ~DEVICE_DEBUG => Debugs = {}
BY DEF Debugs

UpMost == IF DEVICE_DEBUG THEN 3 ELSE 2

LEMMA Most ==
    ASSUME NEW n \in Nat
    PROVE  /\ n <= 1 => n < UpMost
           /\ n \in 1 .. 2 /\ (n = 2 => DEVICE_DEBUG) => n < UpMost
           /\ n \in 2 .. 3 /\ (n = 3 => DEVICE_DEBUG) => n <= UpMost
           /\ n < UpMost => n <= UpMost /\ n # UpMost
BY FlagAssumption DEF UpMost

LEMMA MostAround ==
    ASSUME NEW n \in Nat, NEW k \in 1 .. 2, n <= k + 1, ~DEVICE_DEBUG => n <= 1, NEW P, n = k + 1 => P
    PROVE  n <= UpMost /\ (n = UpMost => P)
BY FlagAssumption DEF UpMost

LEMMA UpBound ==
    ASSUME TypeOK, Turns
    PROVE  Len(Up) <= UpMost /\ (Len(Up) = UpMost => ~Busy)
<1>1. Len(Up) \in Nat /\ Up \in Seq(Frame)
  BY UpShape
<1>2. StatsOnly(Up) => Len(Up) <= 1
  BY DEF StatsOnly
<1>3. ASSUME NEW S, StatsThen(Up, S)
      PROVE  Len(Up) < UpMost
  <2>1. Len(Up) \in 1 .. 2 /\ (Len(Up) = 2 => DEVICE_DEBUG)
    BY <1>3, NoStatistics DEF StatsThen
  <2> QED BY <1>1, <2>1, Most
<1>4. ASSUME NEW S, StatsThenTwo(Up, S)
      PROVE  Len(Up) <= UpMost
  <2>1. Len(Up) \in 2 .. 3 /\ (Len(Up) = 3 => DEVICE_DEBUG)
    BY <1>4, NoStatistics DEF StatsThenTwo
  <2> QED BY <1>1, <2>1, Most
<1>5. ASSUME StatsAround(Up, Acks, StatsSent), CpFree
      PROVE  Len(Up) <= UpMost /\ (Len(Up) = UpMost => ~Busy)
  <2>1. PICK k \in 1 .. 2 :
            /\ k <= Len(Up) /\ Len(Up) <= k + 1
            /\ \A j \in 1 .. Len(Up) : j # k => Up[j] \in Debugs
            /\ Len(Up) = k + 1 => StatsSent
    BY <1>5 DEF StatsAround
  <2>2. ~DEVICE_DEBUG => Len(Up) <= 1
    <3> SUFFICES ASSUME ~DEVICE_DEBUG, Len(Up) > 1 PROVE FALSE
      BY <1>1
    <3>1. \E j \in 1 .. Len(Up) : j # k
      <4>1. 1 \in 1 .. Len(Up) /\ 2 \in 1 .. Len(Up)
        BY <1>1
      <4> QED BY <4>1
    <3> QED BY <2>1, <3>1, NoStatistics
  <2>3. StatsSent => ~Busy
    BY <1>5 DEF StatsSent, CpFree
  <2> QED BY <1>1, <2>1, <2>2, <2>3, MostAround
<1>7. Up = <<>> => Len(Up) = 0
  BY EmptyLength
<1>8. CASE HostHas \/ DownHas \/ AckHas \/ MemDownHas \/ CpHas
  <2>1. StatsOnly(Up) \/ StatsThen(Up, Writes) \/ Up = <<>>
    BY <1>8 DEF HostHas, DownHas, AckHas, MemDownHas, CpHas, FreeUp, AddrUp
  <2>2. Len(Up) <= 1 \/ Len(Up) < UpMost
    BY <1>1, <1>2, <1>3, <1>7, <2>1
  <2> QED BY <1>1, <2>2, Most
<1>9. CASE MemUpHas
  <2>1. ~Busy /\ (StatsThen(Up, Reads) \/ StatsThenTwo(Up, Writes) \/ Len(Up) = 1)
    BY <1>9 DEF MemUpHas
  <2>2. Len(Up) <= UpMost
    <3>1. CASE StatsThen(Up, Reads)
      BY <1>1, <1>3, <3>1, Most
    <3>2. CASE StatsThenTwo(Up, Writes)
      BY <1>4, <3>2
    <3>3. ASSUME NEW n \in Nat, n = 1 PROVE n <= UpMost
      BY <3>3, Most
    <3> QED BY <1>1, <2>1, <3>1, <3>2, <3>3
  <2> QED BY <2>1, <2>2
<1>10. CASE AckUpHas
  BY <1>5, <1>10 DEF AckUpHas
<1> QED BY <1>8, <1>9, <1>10 DEF Turns

LEMMA PartialIs ==
    ASSUME TypeOK, TxHandshake
    PROVE  Partial \in 0 .. 5 /\ (~Busy => Partial = 0)
<1>1. TxTypeOK
  BY TypesOf
<1> QED BY <1>1 DEF TxTypeOK, TxHandshake, Partial, Busy, Delivered

LEMMA SixTimes ==
    ASSUME NEW n \in Nat
    PROVE  n = 6 * (n \div 6) + (n % 6) /\ n \div 6 \in Nat /\ n % 6 \in 0 .. 5
OBVIOUS

\* What is up fits in the ring.
LEMMA RingFits ==
    ASSUME TypeOK, Turns
    PROVE  Total <= RingSize /\ InRing <= RingSize /\ (port_in # <<>> => InRing < RingSize)
<1>1. /\ Len(Up) <= UpMost /\ (Len(Up) = UpMost => ~Busy)
      /\ Partial \in 0 .. 5 /\ (~Busy => Partial = 0)
  BY UpBound, PartialIs DEF Turns
<1>2. Len(Up) = Total \div 6 /\ Total \in Nat /\ Total % 6 = Partial /\ Len(Up) \in Nat
  BY UpShape, BytesShape DEF Turns, Framed
<1>3. Total = 6 * Len(Up) + Partial
  BY <1>2, SixTimes
<1>4. UpMost \in Nat /\ RingSize \in Nat /\ 6 * UpMost <= RingSize
  BY FlagAssumption, RingAssumption, BufferAssumption DEF UpMost
<1>5. Total <= RingSize
  BY <1>1, <1>2, <1>3, <1>4
<1>6. /\ Total = Len(found) + Len(scratch) + InRing + Len(port_in) /\ InRing \in Nat
      /\ Len(found) \in Nat /\ Len(scratch) \in Nat /\ Len(port_in) \in Nat
      /\ port_in # <<>> => Len(port_in) > 0
  <2>1. port_in \in Seq(Byte) /\ found \in Seq(Byte) /\ scratch \in Seq(Byte)
    BY BytesShape
  <2>2. port_in # <<>> => Len(port_in) > 0
    BY <2>1
  <2> QED BY <2>1, <2>2, BytesShape
<1> QED BY <1>2, <1>4, <1>5, <1>6

CommandsRecorded ==
    /\ \A i \in 1 .. Len(recorded_commands) : recorded_commands[i] \in Requests
    /\ host \in {"stat", "cmd_sync"} => recorded_commands # <<>>

LEMMA TurnsIs ==
    Turns <=> /\ TxHandshake /\ CpHandshakes /\ Framed /\ CpPlaces /\ SendingKind
              /\ NotListening /\ Finding /\ CommandsRecorded /\ Somebody
BY DEF Turns, CommandsRecorded, Somebody

LEMMA HostTurns ==
    ASSUME Turns, BoardRests, Framed', NotListening', Finding', CommandsRecorded', Somebody'
    PROVE  Turns'
<1>1. TxHandshake' /\ CpHandshakes' /\ CpPlaces' /\ SendingKind'
  BY RestsHandshakes DEF Turns
<1> QED BY <1>1 DEF Turns, CommandsRecorded, Somebody

LEMMA FindingStays ==
    ASSUME Finding, BoardRests, Up' = Up, port_out' = port_out,
           host' = host \/ host' \notin {"start", "finding"}
    PROVE  Finding'
<1>1. Place' = Place /\ (Busy' <=> Busy) /\ cp' = cp /\ Down' = Down
  BY RestsCp, RestsDown
<1> QED BY <1>1 DEF Finding, Acks

\* Steps that move no packet.
LEMMA QuietTurns ==
    ASSUME TypeOK, Turns, Quiet, UpBytes' = UpBytes, NotListening', CommandsRecorded',
           host' = host \/ host' \notin {"start", "finding"}
    PROVE  Turns'
<1>1. BoardRests /\ Partial' = Partial /\ tx_packet' = tx_packet
  BY RestsCp DEF Quiet
<1>2. Framed' /\ Up' = Up
  BY <1>1, FramedKept DEF Turns
<1>3. Finding'
  BY <1>1, <1>2, FindingStays DEF Turns, Quiet
<1>4. Somebody'
  BY QuietHas DEF Turns, Somebody
<1> QED BY <1>1, <1>2, <1>3, <1>4, HostTurns

\* What a step of the host leaves alone keeps its type.
LEMMA RestsTypes ==
    ASSUME TypeOK
    PROVE  /\ BoardRests => BoardTypeOK'
           /\ UNCHANGED portVars => PortTypeOK'
           /\ UNCHANGED ringVars => RingTypeOK'
           /\ UNCHANGED <<contents, allocation_ptr>> => MemoryTypeOK'
           /\ UNCHANGED implVars => ImplTypeOK'
           /\ UNCHANGED driverVars =>
                  (/\ host \in {"start", "finding", "app", "sync", "stat", "cmd_sync", "exited"}
                   /\ found \in Seq(Byte) /\ Len(found) < 6 /\ recorded_commands \in Seq(Packet)
                   /\ global_command_id \in Nat /\ unread \subseteq Packet)'
           /\ UNCHANGED history => (calls \in Seq(Calls) /\ executed \in Nat)'
<1>1. BoardRests => BoardTypeOK'
  BY DEF TypeOK, BoardRests, boardVars, BoardTypeOK, CpTypeOK, PacketTypeOK
<1>2. /\ UNCHANGED portVars => PortTypeOK'
      /\ UNCHANGED ringVars => RingTypeOK'
      /\ UNCHANGED <<contents, allocation_ptr>> => MemoryTypeOK'
      /\ UNCHANGED implVars => ImplTypeOK'
  BY DEF TypeOK, portVars, PortTypeOK, ringVars, RingTypeOK, MemoryTypeOK, implVars, ImplTypeOK
<1>3. UNCHANGED driverVars =>
         (/\ host \in {"start", "finding", "app", "sync", "stat", "cmd_sync", "exited"}
          /\ found \in Seq(Byte) /\ Len(found) < 6 /\ recorded_commands \in Seq(Packet)
          /\ global_command_id \in Nat /\ unread \subseteq Packet)'
  BY DEF TypeOK, driverVars
<1>4. UNCHANGED history => (calls \in Seq(Calls) /\ executed \in Nat)'
  BY DEF TypeOK, history
<1> QED BY <1>1, <1>2, <1>3, <1>4

LEMMA RestsBytes ==
    ASSUME UNCHANGED <<ringVars, found, scratch, port_in>>
    PROVE  UpBytes' = UpBytes /\ Up' = Up /\ InRing' = InRing /\ Ring' = Ring
<1>1. InRing' = InRing
  BY DEF ringVars, InRing
<1>2. Ring' = Ring
  BY <1>1 DEF ringVars, Ring
<1>3. UpBytes' = UpBytes
  BY <1>2 DEF UpBytes
<1> QED BY <1>1, <1>2, <1>3, UpKept

-----------------------------------------------------------------------------
(* The application and mSync, but for what they send and receive.          *)

LEMMA ValueTurns ==
    ASSUME TypeOK, Turns, UNCHANGED <<boardVars, ringVars, history>>,
           (\E v \in Vals : NewMInt(v)) \/ (\E a \in Addr, v \in Vals : SetValue(a, v))
    PROVE  TypeOK' /\ Turns'
<1>1. BoardRests /\ UNCHANGED <<portVars, implVars, driverVars>>
  BY DEF BoardRests, NewMInt, SetValue
<1>2. MemoryTypeOK'
  <2>1. contents \in [Addr -> Word] /\ allocation_ptr \in Nat /\ Vals \subseteq Word
    BY ApplicationAssumption DEF TypeOK, MemoryTypeOK
  <2> QED BY <2>1 DEF NewMInt, SetValue, AllocateAndWrite, MemoryWrite, MemoryTypeOK
<1>3. TypeOK'
  BY <1>1, <1>2, RestsTypes DEF TypeOK
<1>4. UpBytes' = UpBytes /\ Up' = Up /\ InRing' = InRing
  BY <1>1, RestsBytes DEF implVars, driverVars, portVars
<1>5. Quiet
  BY <1>1, <1>4 DEF Quiet, portVars, implVars, driverVars, Waiting
<1>6. NotListening' /\ CommandsRecorded'
  BY <1>1, <1>4, TurnsIs DEF NotListening, CommandsRecorded, implVars, driverVars, Requests
<1>7. host' = host
  BY <1>1 DEF driverVars
<1> QED BY <1>3, <1>4, <1>5, <1>6, <1>7, QuietTurns

\* The application's thread goes from one call to another and sends nothing.
LEMMA CallTurns ==
    ASSUME TypeOK, Turns,
           UNCHANGED <<boardVars, ringVars, history, portVars, contents, allocation_ptr, scratch,
                       device_packet_recv_state, mem_write_addr_scratch, received_payloads,
                       last_response_pkt, found, recorded_commands, global_command_id, unread>>,
           last_request_pkt' \in Seq(Packet),
           \/ Goto("app", "sync")
           \/ Goto("sync", "app")
           \/ Goto("stat", "cmd_sync")
           \/ Goto("finding", "exited")
    PROVE  TypeOK' /\ Turns'
<1>1. BoardRests
  BY DEF BoardRests
<1>2. ImplTypeOK'
  BY DEF TypeOK, ImplTypeOK
<1>3. /\ host \in {"app", "sync", "stat", "finding"} /\ host' \in {"app", "sync", "cmd_sync", "exited"}
      /\ host' = "cmd_sync" => host = "stat"
      /\ host \in {"app", "sync"} => host' \in {"app", "sync"}
      /\ Waiting => Waiting'
      /\ host = "finding" => host' = "exited"
  BY DEF Goto, Waiting
<1>4. TypeOK'
  BY <1>1, <1>2, <1>3, RestsTypes DEF TypeOK
<1>5. UpBytes' = UpBytes /\ Up' = Up /\ InRing' = InRing
  BY RestsBytes DEF portVars
<1>6. Quiet
  BY <1>1, <1>3, <1>5 DEF Quiet, portVars
<1>7. NotListening' /\ CommandsRecorded'
  BY <1>3, <1>5, TurnsIs DEF NotListening, CommandsRecorded, Requests
<1> QED BY <1>3, <1>4, <1>5, <1>6, <1>7, QuietTurns

LEMMA RecordedThree ==
    ASSUME NEW c \in Calls, NEW g \in 0 .. 9
    PROVE  /\ Payload(g, REQUEST, c.cmd, OP_1, c.first) \in Requests
           /\ Payload(g + 1, REQUEST, c.cmd, OP_2, c.second) \in Requests
           /\ Payload(g + 2, REQUEST, c.cmd, OP_3, c.result) \in Requests
<1>1. /\ c.cmd \in {ADD, MULP2, DIVP2} /\ c.first \in Word /\ c.second \in Word /\ c.result \in Word
  BY ApplicationAssumption, MemoryAssumption
<1>2. g \in Nibble /\ g + 1 \in Nibble /\ g + 2 \in Nibble
  BY DEF Nibble
<1> QED BY <1>1, <1>2 DEF Payload, Requests, Packet, REQUEST, RESPONSE, MEMORY, HANDSHAKE, ADD,
           MULP2, DIVP2, OP_1, OP_2, OP_3, DEBUG

LEMMA JoinedKind ==
    ASSUME NEW S, NEW s \in Seq(Packet), \A i \in 1 .. Len(s) : s[i] \in S,
           NEW a \in S, NEW b \in S, NEW c \in S, S \subseteq Packet
    PROVE  /\ s \o <<a, b, c>> \in Seq(Packet) /\ s \o <<a, b, c>> # <<>>
           /\ \A i \in 1 .. Len(s \o <<a, b, c>>) : (s \o <<a, b, c>>)[i] \in S
<1>1. <<a, b, c>> \in Seq(Packet) /\ Len(<<a, b, c>>) = 3
  OBVIOUS
<1>2. s \o <<a, b, c>> \in Seq(Packet) /\ Len(s \o <<a, b, c>>) = Len(s) + 3
  BY <1>1
<1>3. ASSUME NEW i \in 1 .. Len(s) + 3 PROVE (s \o <<a, b, c>>)[i] \in S
  <2>1. CASE i <= Len(s)
    BY <2>1
  <2>2. CASE i > Len(s)
    <3>1. i - Len(s) \in 1 .. 3 /\ (s \o <<a, b, c>>)[i] = <<a, b, c>>[i - Len(s)]
      BY <2>2
    <3> QED BY <3>1
  <2> QED BY <2>1, <2>2
<1> QED BY <1>2, <1>3

LEMMA RecordTurns ==
    ASSUME TypeOK, Turns, UNCHANGED <<boardVars, ringVars>>, NEW c \in Calls, RecordCall(c)
    PROVE  TypeOK' /\ Turns'
<1> DEFINE g == global_command_id % 10
<1>1. /\ BoardRests /\ UNCHANGED <<portVars, contents, allocation_ptr, implVars, host, found, unread>>
      /\ calls' = Append(calls, c) /\ executed' = executed /\ global_command_id' = g + 3
      /\ recorded_commands' = recorded_commands \o
             <<Payload(g, REQUEST, c.cmd, OP_1, c.first),
               Payload(g + 1, REQUEST, c.cmd, OP_2, c.second),
               Payload(g + 2, REQUEST, c.cmd, OP_3, c.result)>>
  BY DEF BoardRests, RecordCall, Record
<1>2. g \in 0 .. 9
  BY DEF TypeOK
<1>3. recorded_commands \in Seq(Packet) /\ calls \in Seq(Calls) /\ CommandsRecorded
  BY TurnsIs DEF TypeOK
<1> HIDE DEF g
<1>4. /\ Payload(g, REQUEST, c.cmd, OP_1, c.first) \in Requests
      /\ Payload(g + 1, REQUEST, c.cmd, OP_2, c.second) \in Requests
      /\ Payload(g + 2, REQUEST, c.cmd, OP_3, c.result) \in Requests
  BY <1>2, RecordedThree
<1>5. /\ recorded_commands' \in Seq(Packet) /\ recorded_commands' # <<>>
      /\ \A i \in 1 .. Len(recorded_commands') : recorded_commands'[i] \in Requests
  <2>1. Requests \subseteq Packet
    BY DEF Requests
  <2> QED BY <1>1, <1>3, <1>4, <2>1, JoinedKind DEF CommandsRecorded
<1>6. calls' \in Seq(Calls) /\ global_command_id' \in Nat
  BY <1>1, <1>2, <1>3
<1>7. TypeOK'
  BY <1>1, <1>5, <1>6, RestsTypes DEF TypeOK
<1>8. UpBytes' = UpBytes /\ Up' = Up /\ InRing' = InRing
  BY <1>1, RestsBytes DEF implVars, portVars
<1>9. Quiet
  BY <1>1, <1>8 DEF Quiet, portVars, implVars, Waiting
<1>10. NotListening' /\ CommandsRecorded'
  BY <1>1, <1>3, <1>5, <1>8, TurnsIs DEF NotListening, CommandsRecorded, implVars, Requests
<1> QED BY <1>1, <1>7, <1>8, <1>9, <1>10, QuietTurns

-----------------------------------------------------------------------------
(* Bytes move from the port to found, or through the ring to scratch.      *)

LEMMA EmptyRing ==
    ASSUME TypeOK, InRing = 0
    PROVE  Ring = <<>>
<1>1. Ring \in Seq(Byte) /\ Len(Ring) = 0
  BY BytesShape
<1> QED BY <1>1, EmptySeq

LEMMA OneMoreByte ==
    ASSUME NEW s \in Seq(Byte), Len(s) < 5, NEW b \in Byte
    PROVE  Append(s, b) \in Seq(Byte) /\ Len(Append(s, b)) < 6
OBVIOUS

\* mInit reads a byte of the answer.
LEMMA ByteFound ==
    ASSUME TypeOK, Turns, UNCHANGED <<boardVars, ringVars, history>>, FindByte
    PROVE  /\ UpBytes' = UpBytes /\ Up' = Up /\ Ring' = Ring /\ InRing' = 0 /\ scratch' = <<>>
           /\ found' \in Seq(Byte) /\ Len(found') < 6 /\ PortTypeOK'
<1>1. /\ host = "finding" /\ host' = host /\ port_in # <<>> /\ port_in' = Tail(port_in)
      /\ found' = Append(found, Head(port_in)) /\ Len(found) < 5
      /\ UNCHANGED <<port_out, implVars>>
  BY DEF FindByte, FindReads
<1>2. scratch = <<>> /\ InRing = 0
  BY <1>1, TurnsIs DEF NotListening
<1>3. Ring = <<>> /\ InRing' = InRing /\ Ring' = Ring /\ scratch' = scratch
  BY <1>1, <1>2, EmptyRing DEF Ring, InRing, ringVars, implVars
<1>4. UpBytes' = UpBytes
  BY <1>1, <1>2, <1>3, FindByteKeeps
<1>5. Up' = Up
  BY <1>4, UpKept
<1>6. found \in Seq(Byte) /\ port_in \in Seq(Byte) /\ port_out \in Seq(Byte)
  BY DEF TypeOK, PortTypeOK
<1>7. Head(port_in) \in Byte /\ Tail(port_in) \in Seq(Byte)
  BY <1>1, <1>6, Cons
<1>8. found' \in Seq(Byte) /\ Len(found') < 6 /\ PortTypeOK'
  BY <1>1, <1>6, <1>7, OneMoreByte DEF PortTypeOK
<1> QED BY <1>2, <1>3, <1>4, <1>5, <1>8

LEMMA FindByteTurns ==
    ASSUME TypeOK, Turns, UNCHANGED <<boardVars, ringVars, history>>, FindByte
    PROVE  TypeOK' /\ Turns'
<1>1. /\ host = "finding" /\ host' = host /\ BoardRests
      /\ UNCHANGED <<port_out, contents, allocation_ptr, implVars, recorded_commands,
                     global_command_id, unread>>
  BY DEF FindByte, FindReads, BoardRests
<1>2. /\ UpBytes' = UpBytes /\ Up' = Up /\ InRing' = 0 /\ scratch' = <<>>
      /\ found' \in Seq(Byte) /\ Len(found') < 6 /\ PortTypeOK'
  BY ByteFound
<1>3. TypeOK'
  BY <1>1, <1>2, RestsTypes DEF TypeOK
<1>4. Quiet
  BY <1>1, <1>2 DEF Quiet, implVars, Waiting
<1>5. NotListening' /\ CommandsRecorded'
  BY <1>1, <1>2, TurnsIs DEF NotListening, CommandsRecorded, Requests
<1> QED BY <1>1, <1>2, <1>3, <1>4, <1>5, QuietTurns

\* The listening thread moves a byte from the line to the ring.
LEMMA ListenKeeps ==
    ASSUME TypeOK, Turns, ListenStep
    PROVE  RingTypeOK' /\ PortTypeOK' /\ UpBytes' = UpBytes
<1>1. /\ BoardRests /\ Listening /\ (ListenStore \/ ListenAdvance)
      /\ UNCHANGED <<port_out, contents, allocation_ptr, implVars, driverVars, history>>
      /\ found' = found /\ scratch' = scratch
  BY DEF ListenStep, BoardRests, driverVars, implVars
<1>2. RingTypeOK /\ PortTypeOK /\ port_in \in Seq(Byte) /\ port_out \in Seq(Byte)
  BY TypesOf DEF PortTypeOK
<1>3. InRing <= RingSize /\ (port_in # <<>> => InRing < RingSize)
  BY RingFits
<1>4. CASE ListenStore
  <2>1. port_in # <<>> /\ port_in' = Tail(port_in) /\ Tail(port_in) \in Seq(Byte)
    BY <1>2, <1>4, Cons DEF ListenStore
  <2>2. RingTypeOK' /\ Ring' = Append(Ring, Head(port_in))
    BY <1>2, <1>3, <1>4, <2>1, Store
  <2>3. UpBytes' = UpBytes
    BY <1>1, <2>1, <2>2, StoreKeeps
  <2> QED BY <1>1, <1>2, <2>1, <2>2, <2>3 DEF PortTypeOK
<1>5. CASE ListenAdvance
  <2>1. RingTypeOK' /\ Ring' = Ring /\ port_in' = port_in
    BY <1>2, <1>3, <1>5, Advance DEF ListenAdvance
  <2>2. UpBytes' = UpBytes
    BY <1>1, <2>1 DEF UpBytes
  <2> QED BY <1>1, <1>2, <2>1, <2>2 DEF PortTypeOK
<1> QED BY <1>1, <1>4, <1>5

LEMMA ListenTurns ==
    ASSUME TypeOK, Turns, ListenStep
    PROVE  TypeOK' /\ Turns'
<1>1. /\ BoardRests /\ Listening
      /\ UNCHANGED <<port_out, contents, allocation_ptr, implVars, driverVars, history>>
  BY DEF ListenStep, BoardRests
<1>2. RingTypeOK' /\ PortTypeOK' /\ UpBytes' = UpBytes
  BY ListenKeeps
<1>3. TypeOK'
  BY <1>1, <1>2, RestsTypes DEF TypeOK
<1>4. Quiet
  BY <1>1, <1>2, UpKept DEF Quiet, implVars, driverVars, Waiting
<1>5. NotListening' /\ CommandsRecorded' /\ host' = host
  BY <1>1, TurnsIs DEF NotListening, CommandsRecorded, Requests, Listening, driverVars
<1> QED BY <1>2, <1>3, <1>4, <1>5, QuietTurns

\* The processing thread gathers a byte of a packet.
LEMMA ByteKeeps ==
    ASSUME TypeOK, ProcessStep, ProcessByte
    PROVE  /\ RingTypeOK' /\ UpBytes' = UpBytes
           /\ scratch' \in Seq(Byte) /\ Len(scratch') < 6
<1>1. /\ TakeByte /\ Len(scratch) < 5 /\ scratch' = Append(scratch, NextByte)
      /\ UNCHANGED <<portVars, driverVars>>
  BY DEF ProcessStep, ProcessByte
<1>2. RingTypeOK' /\ Ring # <<>> /\ NextByte = Head(Ring) /\ Ring' = Tail(Ring)
  BY <1>1, Take DEF TypeOK
<1>3. Ring \in Seq(Byte) /\ scratch \in Seq(Byte)
  BY BytesShape
<1>4. NextByte \in Byte
  BY <1>2, <1>3, Cons
<1>5. scratch' \in Seq(Byte) /\ Len(scratch') < 6
  BY <1>1, <1>3, <1>4, OneMoreByte
<1>6. UpBytes' = UpBytes
  BY <1>1, <1>2, ProcessByteKeeps DEF portVars, driverVars
<1> QED BY <1>2, <1>5, <1>6

LEMMA ProcessByteTurns ==
    ASSUME TypeOK, Turns, ProcessStep, ProcessByte
    PROVE  TypeOK' /\ Turns'
<1>1. /\ BoardRests /\ Listening
      /\ UNCHANGED <<portVars, contents, allocation_ptr, device_packet_recv_state,
                     mem_write_addr_scratch, received_payloads, last_request_pkt,
                     last_response_pkt, driverVars, calls>>
      /\ executed' = executed + (IF StoresResult THEN 1 ELSE 0)
  BY DEF ProcessStep, ProcessByte, BoardRests
<1>2. /\ RingTypeOK' /\ UpBytes' = UpBytes
      /\ scratch' \in Seq(Byte) /\ Len(scratch') < 6
  BY ByteKeeps
<1>3. ImplTypeOK'
  BY <1>1, <1>2 DEF TypeOK, ImplTypeOK
<1>4. TypeOK'
  <2>1. calls' \in Seq(Calls) /\ executed' \in Nat
    BY <1>1 DEF TypeOK
  <2> QED BY <1>1, <1>2, <1>3, <2>1, RestsTypes DEF TypeOK
<1>5. Quiet
  BY <1>1, <1>2, UpKept DEF Quiet, portVars, driverVars, Waiting
<1>6. NotListening' /\ CommandsRecorded' /\ host' = host
  BY <1>1, TurnsIs DEF NotListening, CommandsRecorded, Requests, Listening, driverVars
<1> QED BY <1>2, <1>4, <1>5, <1>6, QuietTurns

-----------------------------------------------------------------------------
(* Commands and responses.                                                 *)

\* The host sends a command.
LEMMA SendHas ==
    ASSUME TypeOK, HostHas, BoardRests, Up' = Up, NEW p \in Requests, WritePacket(p),
           UNCHANGED <<received_payloads, unread, device_packet_recv_state>>, Waiting'
    PROVE  DownHas' /\ Down' = p /\ port_out' \in Seq(Byte)
<1>1. RxTypeOK /\ p \in Packet
  BY TypesOf DEF Requests
<1>2. DownShape' /\ Down' = p /\ port_out' \in Seq(Byte)
  BY <1>1, RxBegins DEF HostHas, BoardRests, boardVars
<1>3. CpFree' /\ FreeUp' /\ NoAck' /\ NextIsAddr'
  BY RestsPlaces DEF HostHas, FreeUp, StatsOnly, Debugs, NoAck, NextIsAddr
<1>4. cp'.state = "CP_IDLE" /\ rx_packet_ready' = 1 => port_out' = <<>>
  BY RestsCp DEF HostHas
<1>5. Down' \in Requests'
  BY <1>2 DEF Requests
<1> QED BY <1>2, <1>3, <1>4, <1>5 DEF DownHas

LEMMA HandshakeIsRequest == HandshakeRequest \in Requests /\ HandshakeRequest.cmd = HANDSHAKE
<1>1. 0 \in Word
  BY WordAssumption, MemoryAssumption
<1> QED BY <1>1 DEF HandshakeRequest, Requests, Packet, Payload, Nibble, REQUEST, RESPONSE, MEMORY,
           HANDSHAKE, ADD, MULP2, DIVP2, OP_1, OP_2, OP_3, DEBUG

LEMMA FindTurns ==
    ASSUME TypeOK, Turns, UNCHANGED <<boardVars, ringVars, history>>, Find
    PROVE  TypeOK' /\ Turns'
<1>1. /\ BoardRests /\ host = "start" /\ host' = "finding" /\ WritePacket(HandshakeRequest)
      /\ UNCHANGED <<port_in, contents, allocation_ptr, implVars, found, recorded_commands,
                     global_command_id, unread>>
  BY DEF BoardRests, Find, Goto, SendRequest
<1>2. HostHas /\ cp.state = "CP_IDLE" /\ Up = <<>>
  BY <1>1 DEF Turns, Finding, DownHas, CpHas, MemUpHas, MemDownHas, AckUpHas, AckHas, Waiting
<1>3. UpBytes' = UpBytes /\ Up' = Up /\ InRing' = InRing
  BY <1>1, RestsBytes DEF implVars
<1>4. DownHas' /\ Down' = HandshakeRequest /\ port_out' \in Seq(Byte)
  BY <1>1, <1>2, <1>3, SendHas, HandshakeIsRequest DEF implVars, Waiting
<1>5. PortTypeOK'
  BY <1>1, <1>4 DEF TypeOK, PortTypeOK
<1>6. TypeOK'
  BY <1>1, <1>5, RestsTypes DEF TypeOK
<1>7. Framed'
  BY <1>1, <1>3, FramedKept, RestsCp DEF Turns
<1>8. NotListening' /\ CommandsRecorded'
  BY <1>1, <1>3, TurnsIs DEF NotListening, CommandsRecorded, Requests, implVars
<1>9. Finding'
  BY <1>1, <1>2, <1>3, <1>4, RestsCp, HandshakeIsRequest DEF Finding
<1> QED BY <1>1, <1>4, <1>6, <1>7, <1>8, <1>9, HostTurns DEF Somebody

LEMMA NextCommand ==
    ASSUME TypeOK, Turns, recorded_commands # <<>>
    PROVE  /\ Head(recorded_commands) \in Requests
           /\ Tail(recorded_commands) \in Seq(Packet)
           /\ \A i \in 1 .. Len(Tail(recorded_commands)) : Tail(recorded_commands)[i] \in Requests
<1>1. recorded_commands \in Seq(Packet) /\ CommandsRecorded
  BY TurnsIs DEF TypeOK
<1>2. /\ Tail(recorded_commands) \in Seq(Packet) /\ Len(recorded_commands) \in Nat \ {0}
      /\ Len(Tail(recorded_commands)) = Len(recorded_commands) - 1
      /\ Head(recorded_commands) = recorded_commands[1]
      /\ \A i \in 1 .. Len(recorded_commands) - 1 : Tail(recorded_commands)[i] = recorded_commands[i + 1]
  BY <1>1, HeadTailProperties, LenProperties, EmptySeq
<1> QED BY <1>1, <1>2 DEF CommandsRecorded

LEMMA SyncSendTurns ==
    ASSUME TypeOK, Turns, UNCHANGED <<boardVars, ringVars, history>>, SyncSend
    PROVE  TypeOK' /\ Turns'
<1>1. /\ BoardRests /\ host = "sync" /\ host' \in {"stat", "cmd_sync"}
      /\ WritePacket(Head(recorded_commands)) /\ recorded_commands # <<>>
      /\ UNCHANGED <<port_in, contents, allocation_ptr, implVars, found, recorded_commands,
                     global_command_id, unread>>
  BY DEF BoardRests, SyncSend, Goto, SendRequest
<1>2. HostHas
  BY <1>1 DEF Turns, DownHas, CpHas, MemUpHas, MemDownHas, AckUpHas, AckHas, Waiting
<1>3. UpBytes' = UpBytes /\ Up' = Up /\ InRing' = InRing
  BY <1>1, RestsBytes DEF implVars
<1>4. DownHas' /\ port_out' \in Seq(Byte)
  BY <1>1, <1>2, <1>3, SendHas, NextCommand DEF implVars, Waiting
<1>5. PortTypeOK'
  BY <1>1, <1>4 DEF TypeOK, PortTypeOK
<1>6. TypeOK'
  BY <1>1, <1>5, RestsTypes DEF TypeOK
<1>7. Framed'
  BY <1>1, <1>3, FramedKept, RestsCp DEF Turns
<1>8. NotListening' /\ CommandsRecorded' /\ Finding'
  BY <1>1, <1>3, TurnsIs DEF NotListening, CommandsRecorded, Requests, implVars, Finding
<1> QED BY <1>1, <1>4, <1>6, <1>7, <1>8, HostTurns DEF Somebody

\* The driver takes the response from one list to the other.
LEMMA ReceiveTurns ==
    ASSUME TypeOK, Turns, UNCHANGED <<boardVars, ringVars, history>>, Receive
    PROVE  TypeOK' /\ Turns'
<1>1. /\ BoardRests /\ received_payloads # <<>>
      /\ unread' = unread \cup {Head(received_payloads)}
      /\ received_payloads' = Tail(received_payloads)
      /\ UNCHANGED <<portVars, contents, allocation_ptr, scratch, device_packet_recv_state,
                     mem_write_addr_scratch, last_request_pkt, last_response_pkt, host, found,
                     recorded_commands, global_command_id>>
  BY DEF BoardRests, Receive
<1>2. AckHas
  BY <1>1 DEF Turns, HostHas, DownHas, CpHas, MemUpHas, MemDownHas, AckUpHas, NoAck
<1>3. Len(received_payloads) = 1 /\ received_payloads[1] \in Acks /\ unread = {}
  BY <1>1, <1>2 DEF AckHas
<1>4. received_payloads' = <<>> /\ unread' = {received_payloads[1]}
  <2>1. received_payloads \in Seq(Packet)
    BY DEF TypeOK, ImplTypeOK
  <2>2. Tail(received_payloads) \in Seq(Packet) /\ Len(Tail(received_payloads)) = 0
        /\ Head(received_payloads) = received_payloads[1]
    BY <1>1, <1>3, <2>1, HeadTailProperties
  <2> QED BY <1>1, <1>3, <2>2, EmptySeq
<1>5. ImplTypeOK' /\ unread' \subseteq Packet
  BY <1>1, <1>3, <1>4 DEF TypeOK, ImplTypeOK, Acks
<1>6. TypeOK'
  BY <1>1, <1>5, RestsTypes DEF TypeOK
<1>7. UpBytes' = UpBytes /\ Up' = Up /\ InRing' = InRing
  BY <1>1, RestsBytes DEF portVars
<1>8. Framed' /\ port_out' = port_out
  BY <1>1, <1>7, FramedKept, RestsCp DEF Turns, portVars
<1>9. NotListening' /\ CommandsRecorded' /\ Finding'
  BY <1>1, <1>7, <1>8, TurnsIs, FindingStays DEF NotListening, CommandsRecorded, Requests
<1>10. AckHas'
  <2>1. CpFree' /\ FreeUp' /\ DownHere' /\ cp' = cp
    BY <1>1, <1>2, <1>7, <1>8, RestsPlaces, RestsDown, RestsCp DEF AckHas, FreeUp, StatsOnly, Debugs
  <2> QED BY <1>1, <1>2, <1>3, <1>4, <2>1 DEF AckHas, Waiting, NextIsAddr, Acks
<1> QED BY <1>1, <1>6, <1>8, <1>9, <1>10, HostTurns DEF Somebody

\* The command is finished.
LEMMA CmdSyncTurns ==
    ASSUME TypeOK, Turns, UNCHANGED <<boardVars, ringVars, history>>, CmdSync
    PROVE  TypeOK' /\ Turns'
<1>1. /\ BoardRests /\ host = "cmd_sync" /\ host' = "sync"
      /\ \E p \in unread : Finishes(p)
      /\ unread' = {p \in unread : ~Finishes(p)}
      /\ recorded_commands' = Tail(recorded_commands)
      /\ UNCHANGED <<portVars, contents, allocation_ptr, implVars, found, global_command_id>>
  BY DEF BoardRests, CmdSync, Goto
<1>2. AckHas /\ recorded_commands # <<>>
  BY <1>1 DEF Turns, HostHas, DownHas, CpHas, MemUpHas, MemDownHas, AckUpHas, NoAck
<1>3. unread' = {} /\ received_payloads = <<>>
  BY <1>1, <1>2 DEF AckHas
<1>4. /\ recorded_commands' \in Seq(Packet)
      /\ \A i \in 1 .. Len(recorded_commands') : recorded_commands'[i] \in Requests
  BY <1>1, <1>2, NextCommand
<1>5. TypeOK'
  BY <1>1, <1>3, <1>4, RestsTypes DEF TypeOK
<1>6. UpBytes' = UpBytes /\ Up' = Up /\ InRing' = InRing
  BY <1>1, RestsBytes DEF portVars, implVars
<1>7. Framed' /\ port_out' = port_out
  BY <1>1, <1>6, FramedKept, RestsCp DEF Turns, portVars
<1>8. NotListening' /\ CommandsRecorded' /\ Finding'
  BY <1>1, <1>4, <1>6, TurnsIs DEF NotListening, CommandsRecorded, Requests, Finding, implVars
<1>9. HostHas'
  <2>1. CpFree' /\ FreeUp' /\ DownIdle' /\ cp' = cp
    BY <1>1, <1>2, <1>6, <1>7, RestsPlaces, RestsDown, RestsCp
       DEF AckHas, FreeUp, StatsOnly, Debugs, DownHere
  <2>2. received_payloads' = received_payloads /\ device_packet_recv_state' = device_packet_recv_state
    BY <1>1 DEF implVars
  <2> QED BY <1>1, <1>2, <1>3, <2>1, <2>2 DEF AckHas, HostHas, NextIsAddr, NoAck
<1> QED BY <1>1, <1>5, <1>7, <1>8, <1>9, HostTurns DEF Somebody

-----------------------------------------------------------------------------
(* The host takes the oldest packet.                                       *)

\* t is s without its first element.
Follows(s, t) ==
    /\ Len(t) \in Nat /\ Len(s) = Len(t) + 1
    /\ \A i \in 1 .. Len(t) : t[i] = s[i + 1]

LEMMA TailFollows ==
    ASSUME NEW S, NEW s \in Seq(S), s # <<>>
    PROVE  Follows(s, Tail(s)) /\ Tail(s) \in Seq(S) /\ Head(s) = s[1]
BY HeadTailProperties, LenProperties, EmptySeq DEF Follows

LEMMA StatsOnlyTail ==
    ASSUME NEW s, NEW t \in Seq(Frame), Follows(s, t), StatsOnly(s)
    PROVE  s[1] \in Debugs /\ t = <<>>
<1>1. s[1] \in Debugs /\ Len(t) = 0
  BY DEF Follows, StatsOnly
<1> QED BY <1>1, EmptySeq

LEMMA StatsThenTail ==
    ASSUME NEW s, NEW t \in Seq(Frame), Follows(s, t), NEW S, StatsThen(s, S)
    PROVE  \/ s[1] \in S /\ t = <<>>
           \/ s[1] \in Debugs /\ StatsThen(t, S)
<1> DEFINE n == Len(t)
<1>1. n \in Nat /\ Len(s) = n + 1 /\ (\A i \in 1 .. n : t[i] = s[i + 1]) /\ Len(s) \in 1 .. 2
      /\ s[Len(s)] \in S /\ (Len(s) = 2 => s[1] \in Debugs)
  BY DEF Follows, StatsThen
<1>2. n = 0 => t = <<>>
  BY EmptySeq
<1> HIDE DEF n
<1>3. n = 0 \/ n = 1
  BY <1>1
<1>4. CASE n = 0
  BY <1>1, <1>2, <1>4
<1>5. CASE n = 1
  <2>1. s[1] \in Debugs /\ t[1] \in S
    BY <1>1, <1>5
  <2>2. StatsThen(t, S)
    BY <1>5, <2>1 DEF n, StatsThen
  <2> QED BY <2>1, <2>2
<1> QED BY <1>3, <1>4, <1>5

LEMMA StatsThenTwoTail ==
    ASSUME NEW s, NEW t \in Seq(Frame), Follows(s, t), NEW S, StatsThenTwo(s, S)
    PROVE  \/ s[1] \in S /\ Len(t) = 1 /\ t[1] \in S
           \/ s[1] \in Debugs /\ StatsThenTwo(t, S)
<1> DEFINE n == Len(t)
<1>1. n \in Nat /\ Len(s) = n + 1 /\ (\A i \in 1 .. n : t[i] = s[i + 1]) /\ Len(s) \in 2 .. 3
      /\ s[Len(s) - 1] \in S /\ s[Len(s)] \in S /\ (Len(s) = 3 => s[1] \in Debugs)
  BY DEF Follows, StatsThenTwo
<1> HIDE DEF n
<1>3. n = 1 \/ n = 2
  BY <1>1
<1>4. CASE n = 1
  <2>1. s[1] \in S /\ t[1] \in S
    BY <1>1, <1>4
  <2> QED BY <1>4, <2>1 DEF n
<1>5. CASE n = 2
  <2>1. s[1] \in Debugs /\ t[1] \in S /\ t[2] \in S
    BY <1>1, <1>5
  <2>2. StatsThenTwo(t, S)
    BY <1>5, <2>1 DEF n, StatsThenTwo
  <2> QED BY <2>1, <2>2
<1> QED BY <1>3, <1>4, <1>5

LEMMA StatsAroundTail ==
    ASSUME NEW s, NEW t \in Seq(Frame), Follows(s, t), NEW S, NEW P, StatsAround(s, S, P)
    PROVE  \/ s[1] \in S /\ StatsOnly(t) /\ (t # <<>> => P)
           \/ s[1] \in Debugs /\ StatsAround(t, S, P)
<1> DEFINE n == Len(t)
<1>1. n \in Nat /\ Len(s) = n + 1 /\ (\A i \in 1 .. n : t[i] = s[i + 1])
  BY DEF Follows
<1>2. PICK k \in 1 .. 2 :
          /\ k <= n + 1 /\ n + 1 <= k + 1 /\ s[k] \in S
          /\ \A j \in 1 .. n + 1 : j # k => s[j] \in Debugs
          /\ n + 1 = k + 1 => P
  BY <1>1 DEF StatsAround
<1>3. n = 0 => t = <<>>
  BY EmptySeq
<1> HIDE DEF n
<1>4. CASE k = 1
  <2>1. s[1] \in S /\ n <= 1 /\ (\A j \in 1 .. n : t[j] \in Debugs) /\ (n = 1 => P)
    BY <1>1, <1>2, <1>4
  <2>2. StatsOnly(t)
    BY <2>1 DEF n, StatsOnly
  <2>3. t # <<>> => P
    BY <1>1, <1>3, <2>1
  <2> QED BY <2>1, <2>2, <2>3
<1>5. CASE k = 2
  <2>1. s[1] \in Debugs /\ t[1] \in S /\ 1 <= n /\ n <= 2
        /\ (\A j \in 1 .. n : j # 1 => t[j] \in Debugs) /\ (n = 2 => P)
    BY <1>1, <1>2, <1>5
  <2>2. StatsAround(t, S, P)
    <3>1. /\ 1 \in 1 .. 2 /\ 1 <= Len(t) /\ Len(t) <= 1 + 1 /\ t[1] \in S
          /\ \A j \in 1 .. Len(t) : j # 1 => t[j] \in Debugs
          /\ Len(t) = 1 + 1 => P
      BY <2>1 DEF n
    <3> QED BY <3>1 DEF StatsAround
  <2> QED BY <2>1, <2>2
<1> QED BY <1>4, <1>5

\* What it may be, and when.
LEMMA FirstUp ==
    ASSUME Somebody, Up \in Seq(Frame), Up # <<>>, NEW t, t = Tail(Up)
    PROVE  \/ Up[1] \in Debugs
           \/ AckUpHas /\ Up[1] \in Acks /\ StatsOnly(t) /\ (t # <<>> => StatsSent)
           \/ MemUpHas /\ Place = "CP_MEM_FETCH_END" /\ NextIsAddr /\ Up[1] \in Reads /\ t = <<>>
           \/ CpAtWork /\ Group2 /\ NextIsAddr /\ Up[1] \in Writes /\ t = <<>>
           \/ /\ MemUpHas /\ Place = "CP_MEM_WRITE_END" /\ NextIsAddr /\ Up[1] \in Writes
              /\ Len(t) = 1 /\ t[1] \in Writes
           \/ MemUpHas /\ Place = "CP_MEM_WRITE_END" /\ ~NextIsAddr /\ Up[1] \in Writes /\ t = <<>>
<1>1. Follows(Up, t) /\ t \in Seq(Frame)
  BY TailFollows
<1>2. StatsOnly(Up) => Up[1] \in Debugs
  BY <1>1, StatsOnlyTail
<1>3. CASE HostHas \/ DownHas \/ AckHas
  BY <1>2, <1>3 DEF HostHas, DownHas, AckHas, FreeUp
<1>4. CASE CpHas
  <2>1. CpAtWork /\ (Group1 \/ Group2 \/ Group3 \/ Group4)
    BY <1>4, CpHasIs
  <2>2. CASE Group1 \/ Group3 \/ Group4
    BY <1>2, <2>2 DEF Group1, Group3, Group4
  <2>3. CASE Group2
    <3>1. NextIsAddr /\ StatsThen(Up, Writes)
      BY <2>3 DEF Group2, AddrUp
    <3> QED BY <1>1, <2>1, <2>3, <3>1, StatsThenTail
  <2> QED BY <2>1, <2>2, <2>3
<1>5. CASE MemUpHas
  <2>1. CASE Place = "CP_MEM_FETCH_END" /\ NextIsAddr /\ StatsThen(Up, Reads)
    BY <1>1, <1>5, <2>1, StatsThenTail
  <2>2. CASE Place = "CP_MEM_WRITE_END" /\ NextIsAddr /\ StatsThenTwo(Up, Writes)
    BY <1>1, <1>5, <2>2, StatsThenTwoTail
  <2>3. CASE Place = "CP_MEM_WRITE_END" /\ ~NextIsAddr /\ Len(Up) = 1 /\ Up[1] \in Writes
    <3>1. Len(t) = 0
      BY <1>1, <2>3 DEF Follows
    <3>2. t = <<>>
      BY <1>1, <3>1, EmptySeq
    <3> QED BY <1>5, <2>3, <3>2
  <2> QED BY <1>5, <2>1, <2>2, <2>3 DEF MemUpHas
<1>6. CASE MemDownHas
  BY <1>6 DEF MemDownHas
<1>7. CASE AckUpHas
  BY <1>1, <1>7, StatsAroundTail DEF AckUpHas
<1> QED BY <1>3, <1>4, <1>5, <1>6, <1>7 DEF Somebody

\* It is taken; the board rests.
Takes == BoardRests /\ Up \in Seq(Frame) /\ Up # <<>> /\ Up' = Tail(Up)

\* One of statistics: whoever had something to send still has.
LEMMA StatsTaken ==
    ASSUME Takes, Somebody, Up[1] \in Debugs, port_out' = port_out,
           UNCHANGED <<received_payloads, unread, device_packet_recv_state, host>>
    PROVE  Somebody'
<1>1. /\ Place' = Place /\ (Busy' <=> Busy) /\ Received' = Received /\ cp' = cp
      /\ rx_packet_ready' = rx_packet_ready /\ prx' = prx
  BY RestsCp DEF Takes
<1>2. (CpFree => CpFree') /\ (StatsSent => StatsSent') /\ (Decodable => Decodable')
  BY RestsPlaces DEF Takes
<1>3. /\ DownIdle => DownIdle'
      /\ DownHere => DownHere'
      /\ DownShape => DownShape'
      /\ Down' = Down
  BY RestsDown DEF Takes
<1>4. /\ (NoAck => NoAck') /\ (NextIsAddr => NextIsAddr') /\ (~NextIsAddr => ~NextIsAddr')
      /\ host' = host /\ (Waiting => Waiting')
  BY DEF NoAck, NextIsAddr, Waiting
<1>5. Follows(Up, Tail(Up)) /\ Tail(Up) \in Seq(Frame)
  BY TailFollows DEF Takes
<1>6. StatsOnly(Up) => Up' = <<>> /\ StatsOnly(Up)'
  <2>1. StatsOnly(Up) => Up' = <<>>
    BY <1>5, StatsOnlyTail DEF Takes
  <2>2. Up' = <<>> => StatsOnly(Up)'
    <3>1. ASSUME NEW s, s = <<>> PROVE StatsOnly(s)
      BY <3>1 DEF StatsOnly
    <3> QED BY <3>1 DEF StatsOnly, Debugs
  <2> QED BY <2>1, <2>2
<1>7. FreeUp => FreeUp'
  BY <1>6 DEF FreeUp
<1>8. Up[1] \notin Writes /\ Up[1] \notin Reads /\ Up[1] \notin Acks
  BY DEF Debugs, Writes, Reads, Acks, DEBUG, MEM_WRITE, MEM_READ
<1>9. CASE HostHas
  BY <1>1, <1>2, <1>3, <1>4, <1>7, <1>9 DEF HostHas, Somebody
<1>10. CASE DownHas
  BY <1>1, <1>2, <1>3, <1>4, <1>7, <1>10 DEF DownHas, Somebody, Requests
<1>11. CASE AckHas
  BY <1>1, <1>2, <1>3, <1>4, <1>7, <1>11 DEF AckHas, Somebody, Acks
<1>12. CASE CpHas
  <2>1. AddrUp => AddrUp'
    <3>1. StatsThen(Up, Writes) => StatsThen(Up', Writes)
      BY <1>5, <1>8, StatsThenTail DEF Takes
    <3>2. AddrUp => NextIsAddr /\ StatsThen(Up, Writes)
      BY DEF AddrUp, Takes
    <3> QED BY <1>4, <3>1, <3>2 DEF AddrUp, StatsThen, Writes, Debugs
  <2>2. Up # <<>>
    BY DEF Takes
  <2> QED BY <1>1, <1>2, <1>3, <1>4, <1>6, <1>12, <2>1, <2>2 DEF CpHas, Somebody, Requests
<1>13. CASE MemUpHas
  <2>1. StatsThen(Up, Reads) => StatsThen(Up', Reads)
    BY <1>5, <1>8, StatsThenTail DEF Takes
  <2>2. StatsThenTwo(Up, Writes) => StatsThenTwo(Up', Writes)
    BY <1>5, <1>8, StatsThenTwoTail DEF Takes
  <2>3. /\ StatsThen(Up, Reads) => StatsThen(Up, Reads)'
        /\ StatsThenTwo(Up, Writes) => StatsThenTwo(Up, Writes)'
    BY <2>1, <2>2 DEF StatsThen, StatsThenTwo, Reads, Writes, Debugs
  <2> QED BY <1>1, <1>2, <1>3, <1>4, <1>8, <1>13, <2>3 DEF MemUpHas, Somebody, Requests
<1>14. CASE MemDownHas
  BY <1>14 DEF MemDownHas, Takes
<1>15. CASE AckUpHas
  <2>1. StatsAround(Up', Acks, StatsSent)
    BY <1>5, <1>8, <1>15, StatsAroundTail DEF Takes, AckUpHas
  <2>2. StatsAround(Up, Acks, StatsSent)'
    BY <1>2, <2>1 DEF StatsAround, Acks, Debugs
  <2> QED BY <1>1, <1>2, <1>3, <1>4, <1>15, <2>2 DEF AckUpHas, Somebody
<1> QED BY <1>9, <1>10, <1>11, <1>12, <1>13, <1>14, <1>15 DEF Somebody

LEMMA TakenFree ==
    ASSUME Takes, CpFree, StatsOnly(Tail(Up)), Tail(Up) # <<>> => StatsSent
    PROVE  CpFree' /\ FreeUp'
<1>1. CpFree' /\ (StatsSent => StatsSent')
  BY RestsPlaces DEF Takes
<1>2. StatsOnly(Up)'
  BY DEF Takes, StatsOnly, Debugs
<1> QED BY <1>1, <1>2 DEF Takes, FreeUp

\* The response: the processing thread queues it for the driver.
LEMMA AckTaken ==
    ASSUME Takes, AckUpHas, Up[1] \in Acks, StatsOnly(Tail(Up)), Tail(Up) # <<>> => StatsSent,
           port_out' = port_out, received_payloads' = Append(received_payloads, Up[1]),
           UNCHANGED <<unread, device_packet_recv_state, host>>
    PROVE  AckHas'
<1>1. CpFree' /\ FreeUp'
  BY TakenFree DEF AckUpHas
<1>2. DownHere' /\ cp' = cp
  BY RestsDown, RestsCp DEF Takes, AckUpHas
<1>3. received_payloads' = <<Up[1]>> /\ unread' = {}
  BY DEF AckUpHas, NoAck
<1>4. Len(received_payloads') = 1 /\ received_payloads'[1] \in Acks
  BY <1>3
<1> QED BY <1>1, <1>2, <1>3, <1>4 DEF AckUpHas, AckHas, Waiting, NextIsAddr, Acks

\* mInit takes it.
LEMMA FoundTaken ==
    ASSUME Takes, AckUpHas, Up[1] \in Acks, StatsOnly(Tail(Up)), Tail(Up) # <<>> => StatsSent,
           port_out' = port_out, host' \in {"app", "exited"},
           UNCHANGED <<received_payloads, unread, device_packet_recv_state>>
    PROVE  HostHas'
<1>1. CpFree' /\ FreeUp'
  BY TakenFree DEF AckUpHas
<1>2. DownIdle' /\ cp' = cp
  BY RestsDown, RestsCp DEF Takes, AckUpHas, DownHere
<1> QED BY <1>1, <1>2 DEF AckUpHas, HostHas, NoAck, NextIsAddr

\* A memory request: the answer goes down.
LEMMA MemTaken ==
    ASSUME TypeOK, Takes, MemUpHas, Place \in {"CP_MEM_FETCH_END", "CP_MEM_WRITE_END"},
           Tail(Up) = <<>>, NEW r \in Answers, WritePacket(r),
           UNCHANGED <<received_payloads, unread, host>>, device_packet_recv_state' = "ADDR_RECV"
    PROVE  MemDownHas' /\ port_out' \in Seq(Byte)
<1>1. RxTypeOK /\ r \in Packet /\ DownIdle /\ prx.state = "RX_END"
  BY TypesOf DEF Answers, MemUpHas, DownHere
<1>2. DownShape' /\ Down' = r /\ port_out' \in Seq(Byte)
  BY <1>1, RxBegins DEF Takes, BoardRests, boardVars
<1>3. Down' \in Answers'
  BY <1>2 DEF Answers
<1>4. /\ Place' = Place /\ (Busy' <=> Busy) /\ Received' = Received /\ prx' = prx
      /\ Decodable'
  BY RestsCp, RestsPlaces DEF Takes, MemUpHas
<1>5. Received' \in Requests'
  BY <1>4 DEF MemUpHas, Requests
<1> QED BY <1>1, <1>2, <1>3, <1>4, <1>5 DEF Takes, MemUpHas, MemDownHas, NoAck, NextIsAddr, Waiting

\* The first half of a write, before the second is up.
LEMMA AddrTakenEarly ==
    ASSUME Takes, CpAtWork, Group2, Tail(Up) = <<>>, port_out' = port_out,
           UNCHANGED <<received_payloads, unread, host>>, device_packet_recv_state' = "VAL_RECV"
    PROVE  CpHas'
<1>1. Place' = Place /\ (Busy' <=> Busy) /\ Received' = Received
  BY RestsCp DEF Takes
<1>2. CpAtWork'
  BY RestsPlaces, RestsDown DEF Takes, CpAtWork, NoAck, Waiting
<1>3. AddrUp'
  BY DEF Takes, AddrUp, NextIsAddr
<1>4. Group2'
  BY <1>1, <1>3 DEF Group2, Requests
<1> QED BY <1>2, <1>4 DEF CpHas, CpAtWork, Group2

LEMMA AddrTakenLate ==
    ASSUME Takes, MemUpHas, Place = "CP_MEM_WRITE_END", Len(Tail(Up)) = 1, Tail(Up)[1] \in Writes,
           port_out' = port_out,
           UNCHANGED <<received_payloads, unread, host>>, device_packet_recv_state' = "VAL_RECV"
    PROVE  MemUpHas'
<1>1. Place' = Place /\ (Busy' <=> Busy) /\ Received' = Received
  BY RestsCp DEF Takes
<1>2. DownHere' /\ Decodable' /\ NoAck' /\ Waiting'
  BY RestsPlaces, RestsDown DEF Takes, MemUpHas, NoAck, Waiting
<1>3. Len(Up') = 1 /\ Up'[1] \in Writes'
  BY DEF Takes, Writes
<1>4. ~NextIsAddr'
  BY DEF NextIsAddr
<1> QED BY <1>1, <1>2, <1>3, <1>4 DEF MemUpHas, Requests

LEMMA PacketTakes ==
    ASSUME TypeOK, Turns, BoardRests, NEW f \in Seq(Byte), Joined(UpBytes, f, UpBytes'),
           UpBytes' \in Seq(Byte)
    PROVE  Takes /\ Framed' /\ Unflatten(f) = Up[1]
<1>1. /\ Up # <<>> /\ Up' = Tail(Up) /\ Unflatten(f) = Head(Up)
      /\ Total = Total' + 6 /\ Total' \in Nat
      /\ Shifted(UpBytes, UpBytes', Total')
  BY UpTaken
<1>2. Up \in Seq(Frame)
  BY UpShape
<1>3. Head(Up) = Up[1]
  BY <1>1, <1>2, HeadTailProperties
<1>4. Partial \in Nat /\ Partial' = Partial /\ tx_packet' = tx_packet
  BY PartialIs, RestsCp DEF Turns
<1>5. Framed'
  BY <1>1, <1>4, FramedTaken DEF Turns
<1> QED BY <1>1, <1>2, <1>3, <1>5 DEF Takes

LEMMA OneMore ==
    ASSUME NEW s \in Seq(Byte), NEW n \in Nat, Len(s) = n, NEW b \in Byte
    PROVE  Append(s, b) \in Seq(Byte) /\ Len(Append(s, b)) = n + 1
OBVIOUS

LEMMA SixthByte ==
    ASSUME NEW s \in Seq(Byte), Len(s) = 5, NEW b \in Byte
    PROVE  Append(s, b) \in Seq(Byte) /\ Len(Append(s, b)) = 6
<1>1. 5 \in Nat
  OBVIOUS
<1>2. Append(s, b) \in Seq(Byte) /\ Len(Append(s, b)) = 5 + 1
  BY <1>1, OneMore, Zenon
<1>3. 5 + 1 = 6
  OBVIOUS
<1> QED BY <1>2, <1>3, Zenon

\* mInit has the whole answer, which is the oldest packet that is up.
LEMMA AnswerFound ==
    ASSUME TypeOK, Turns, UNCHANGED <<boardVars, ringVars, history>>, FindAnswer
    PROVE  /\ Takes /\ Framed' /\ Up[1] \in Acks /\ PortTypeOK' /\ scratch' = scratch
           /\ AckUpHas /\ StatsOnly(Tail(Up)) /\ (Tail(Up) # <<>> => StatsSent)
<1>1. /\ host = "finding" /\ port_in # <<>> /\ port_in' = Tail(port_in)
      /\ found' = <<>> /\ Len(found) = 5 /\ BoardRests /\ UNCHANGED <<port_out, implVars>>
  BY DEF FindAnswer, FindReads, BoardRests
<1>2. scratch = <<>> /\ InRing = 0
  BY <1>1, TurnsIs DEF NotListening
<1>3. Ring = <<>> /\ Ring' = Ring /\ scratch' = scratch
  BY <1>1, <1>2, EmptyRing DEF Ring, InRing, ringVars, implVars
<1>4. found \in Seq(Byte) /\ port_in \in Seq(Byte) /\ port_out \in Seq(Byte)
  BY DEF TypeOK, PortTypeOK
<1>5. Head(port_in) \in Byte /\ Tail(port_in) \in Seq(Byte)
  BY <1>1, <1>4, Cons
<1>6. UpBytes = Append(found, Head(port_in)) \o UpBytes' /\ UpBytes' \in Seq(Byte)
  BY <1>1, <1>2, <1>3, FindAnswerTakes
<1>7. Append(found, Head(port_in)) \in Seq(Byte) /\ Len(Append(found, Head(port_in))) = 6
  BY <1>1, <1>4, <1>5, SixthByte
<1>8. Joined(UpBytes, Append(found, Head(port_in)), UpBytes')
  BY <1>6, <1>7 DEF Joined
<1>9. Takes /\ Framed'
  BY <1>1, <1>6, <1>7, <1>8, PacketTakes
<1>10. PortTypeOK'
  BY <1>1, <1>4, <1>5 DEF PortTypeOK
<1>11. Up[1] \in Acks
  BY <1>1, <1>9 DEF Turns, Finding, Takes
<1>12. AckUpHas /\ StatsOnly(Tail(Up)) /\ (Tail(Up) # <<>> => StatsSent)
  <2>1. Up[1] \notin Debugs /\ Up[1] \notin Reads /\ Up[1] \notin Writes
    BY <1>11 DEF Debugs, Writes, Reads, Acks
  <2>2. Somebody
    BY TurnsIs
  <2> QED BY <1>9, <2>1, <2>2, FirstUp DEF Takes
<1> QED BY <1>3, <1>9, <1>10, <1>11, <1>12

LEMMA FindAnswerTurns ==
    ASSUME TypeOK, Turns, UNCHANGED <<boardVars, ringVars, history>>, FindAnswer
    PROVE  TypeOK' /\ Turns'
<1>1. /\ host = "finding" /\ host' \in {"app", "exited"} /\ found' = <<>> /\ BoardRests
      /\ UNCHANGED <<port_out, contents, allocation_ptr, implVars, recorded_commands,
                     global_command_id, unread>>
  BY DEF FindAnswer, FindReads, BoardRests
<1>2. /\ Takes /\ Framed' /\ Up[1] \in Acks /\ PortTypeOK'
      /\ AckUpHas /\ StatsOnly(Tail(Up)) /\ (Tail(Up) # <<>> => StatsSent)
  BY AnswerFound
<1>3. found' \in Seq(Byte) /\ Len(found') < 6
  <2>1. <<>> \in Seq(Byte) /\ Len(<<>>) < 6
    OBVIOUS
  <2> QED BY <1>1, <2>1
<1>4. TypeOK'
  BY <1>1, <1>2, <1>3, RestsTypes DEF TypeOK
<1>5. NotListening' /\ CommandsRecorded' /\ Finding'
  BY <1>1, TurnsIs DEF NotListening, CommandsRecorded, Requests, Finding
<1>6. HostHas'
  BY <1>1, <1>2, FoundTaken DEF implVars
<1> QED BY <1>1, <1>2, <1>4, <1>5, <1>6, HostTurns DEF Somebody

\* What every packet that the processing thread has gathered does.
Gathered ==
    /\ Takes /\ Listening
    /\ received_payloads \in Seq(Packet) /\ last_request_pkt \in Seq(Packet)
    /\ last_response_pkt \in Seq(Packet) /\ mem_write_addr_scratch \in Word
    /\ device_packet_recv_state \in {"ADDR_RECV", "VAL_RECV"} /\ port_out \in Seq(Byte)
    /\ contents \in [Addr -> Word] /\ allocation_ptr \in Nat
    /\ UNCHANGED driverVars

\* What it leaves behind.
Processed ==
    /\ Somebody'
    /\ received_payloads' \in Seq(Packet) /\ last_request_pkt' \in Seq(Packet)
    /\ last_response_pkt' \in Seq(Packet) /\ mem_write_addr_scratch' \in Word
    /\ device_packet_recv_state' \in {"ADDR_RECV", "VAL_RECV"} /\ port_out' \in Seq(Byte)
    /\ contents' \in [Addr -> Word] /\ allocation_ptr' \in Nat

LEMMA PopFrontType ==
    ASSUME NEW s \in Seq(Packet)
    PROVE  PopFront(s) \in Seq(Packet)
BY HeadTailProperties DEF PopFront

LEMMA StatsProcessed ==
    ASSUME Turns, Gathered, ProcessDebugRequest(Up[1]) \/ ProcessDebugResponse(Up[1])
    PROVE  Processed
<1>1. Somebody /\ Takes
  BY TurnsIs DEF Gathered
<1>2. Up[1].cmd = MEMORY /\ Up[1].sub_cmd = DEBUG /\ DEVICE_DEBUG
  BY DEF ProcessDebugRequest, ProcessDebugResponse
<1>3. Up[1] \notin Acks /\ Up[1] \notin Reads /\ Up[1] \notin Writes
  BY <1>2 DEF Acks, Reads, Writes, DEBUG, MEM_READ, MEM_WRITE
<1>4. Up[1] \in Debugs
  BY <1>1, <1>3, FirstUp DEF Takes
<1>5. /\ port_out' = port_out
      /\ UNCHANGED <<received_payloads, unread, device_packet_recv_state, host, contents,
                     allocation_ptr, mem_write_addr_scratch>>
      /\ last_request_pkt' \in Seq(Packet) /\ last_response_pkt' \in Seq(Packet)
  BY PopFrontType DEF Gathered, ProcessDebugRequest, ProcessDebugResponse, driverVars
<1>6. Somebody'
  BY <1>1, <1>4, <1>5, StatsTaken
<1> QED BY <1>5, <1>6 DEF Gathered, Processed

LEMMA ResponseProcessed ==
    ASSUME Turns, Gathered, ProcessCommandResponse(Up[1])
    PROVE  Processed
<1>1. Somebody /\ Takes
  BY TurnsIs DEF Gathered
<1>2. /\ Up[1].cmd # MEMORY /\ received_payloads' = Append(received_payloads, Up[1])
      /\ UNCHANGED <<port_out, contents, allocation_ptr, device_packet_recv_state,
                     mem_write_addr_scratch, last_request_pkt, last_response_pkt, unread, host>>
  BY DEF ProcessCommandResponse, Gathered, driverVars
<1>3. Up[1] \notin Debugs /\ Up[1] \notin Reads /\ Up[1] \notin Writes
  BY <1>2 DEF Debugs, Reads, Writes
<1>4. AckUpHas /\ Up[1] \in Acks /\ StatsOnly(Tail(Up)) /\ (Tail(Up) # <<>> => StatsSent)
  BY <1>1, <1>3, FirstUp DEF Takes
<1>5. AckHas'
  BY <1>1, <1>2, <1>4, AckTaken
<1>6. received_payloads' \in Seq(Packet)
  <2>1. Up[1] \in Packet /\ received_payloads \in Seq(Packet)
    BY <1>4 DEF Acks, Gathered
  <2> QED BY <1>2, <2>1
<1> QED BY <1>2, <1>5, <1>6 DEF Gathered, Processed, Somebody

LEMMA ResponseIsAnswer ==
    ASSUME NEW p \in Packet, p.cmd = MEMORY, p.sub_cmd \in {MEM_READ, MEM_WRITE}, NEW v \in Word
    PROVE  Payload(p.id, RESPONSE, p.cmd, p.sub_cmd, v) \in Answers
BY DEF Answers, Packet, Payload, MEM_READ, MEM_WRITE, DEBUG, OP_1, OP_2, OP_3, REQUEST, RESPONSE

LEMMA RespondType ==
    ASSUME NEW p \in Packet, p.cmd = MEMORY, p.sub_cmd \in {MEM_READ, MEM_WRITE}, NEW v \in Word,
           last_response_pkt \in Seq(Packet), Respond(p, v)
    PROVE  /\ last_response_pkt' \in Seq(Packet)
           /\ \E r \in Answers : WritePacket(r)
<1> DEFINE r == Payload(p.id, RESPONSE, p.cmd, p.sub_cmd, v)
<1>1. r \in Answers /\ r \in Packet
  BY ResponseIsAnswer DEF Answers
<1>2. /\ WritePacket(r)
      /\ last_response_pkt' = IF DEVICE_DEBUG THEN Append(last_response_pkt, r) ELSE last_response_pkt
  BY DEF Respond
<1> HIDE DEF r
<1> QED BY <1>1, <1>2

LEMMA ReadProcessed ==
    ASSUME TypeOK, Turns, Gathered, ProcessRead(Up[1])
    PROVE  Processed
<1>1. Somebody /\ Takes
  BY TurnsIs DEF Gathered
<1>2. /\ Up[1].cmd = MEMORY /\ Up[1].sub_cmd = MEM_READ
      /\ UNCHANGED <<contents, allocation_ptr, device_packet_recv_state, mem_write_addr_scratch,
                     received_payloads, last_request_pkt, unread, host>>
  BY DEF ProcessRead, Gathered, driverVars
<1>3. Up[1] \notin Debugs /\ Up[1] \notin Acks /\ Up[1] \notin Writes
  BY <1>2 DEF Debugs, Acks, Writes, DEBUG, MEM_READ, MEM_WRITE
<1>4. MemUpHas /\ Place = "CP_MEM_FETCH_END" /\ NextIsAddr /\ Up[1] \in Reads /\ Tail(Up) = <<>>
  BY <1>1, <1>3, FirstUp DEF Takes
<1>5. PICK v \in MemoryRead(Up[1].body) : Respond(Up[1], v)
  BY DEF ProcessRead
<1>6. v \in Word
  BY <1>5, MemoryAssumption DEF MemoryRead, Gathered
<1>7. last_response_pkt' \in Seq(Packet) /\ \E r \in Answers : WritePacket(r)
  BY <1>2, <1>4, <1>5, <1>6, RespondType DEF Reads, Gathered
<1>8. MemDownHas' /\ port_out' \in Seq(Byte)
  BY <1>1, <1>2, <1>4, <1>7, MemTaken DEF NextIsAddr
<1> QED BY <1>2, <1>7, <1>8 DEF Gathered, Processed, Somebody

LEMMA WriteAddrProcessed ==
    ASSUME Turns, Gathered, ProcessWriteAddr(Up[1])
    PROVE  Processed
<1>1. Somebody /\ Takes
  BY TurnsIs DEF Gathered
<1>2. /\ Up[1].cmd = MEMORY /\ Up[1].sub_cmd = MEM_WRITE /\ NextIsAddr
      /\ mem_write_addr_scratch' = Up[1].body /\ device_packet_recv_state' = "VAL_RECV"
      /\ UNCHANGED <<port_out, contents, allocation_ptr, received_payloads, last_request_pkt,
                     last_response_pkt, unread, host>>
  BY DEF ProcessWriteAddr, Gathered, driverVars, NextIsAddr
<1>3. Up[1] \notin Debugs /\ Up[1] \notin Acks /\ Up[1] \notin Reads
  BY <1>2 DEF Debugs, Acks, Reads, DEBUG, MEM_READ, MEM_WRITE
<1>4. /\ Up[1] \in Writes
      /\ \/ CpAtWork /\ Group2 /\ Tail(Up) = <<>>
         \/ /\ MemUpHas /\ Place = "CP_MEM_WRITE_END" /\ Len(Tail(Up)) = 1 /\ Tail(Up)[1] \in Writes
  BY <1>1, <1>2, <1>3, FirstUp DEF Takes
<1>5. CpHas' \/ MemUpHas'
  BY <1>1, <1>2, <1>4, AddrTakenEarly, AddrTakenLate
<1>6. mem_write_addr_scratch' \in Word
  BY <1>2, <1>4 DEF Writes, Packet
<1> QED BY <1>2, <1>5, <1>6 DEF Gathered, Processed, Somebody

LEMMA WriteValProcessed ==
    ASSUME TypeOK, Turns, Gathered, ProcessWriteVal(Up[1])
    PROVE  Processed
<1>1. Somebody /\ Takes
  BY TurnsIs DEF Gathered
<1>2. /\ Up[1].cmd = MEMORY /\ Up[1].sub_cmd = MEM_WRITE /\ ~NextIsAddr
      /\ MemoryWrite(mem_write_addr_scratch, Up[1].body) /\ Respond(Up[1], 0)
      /\ device_packet_recv_state' = "ADDR_RECV"
      /\ UNCHANGED <<mem_write_addr_scratch, received_payloads, last_request_pkt, unread, host>>
  BY DEF ProcessWriteVal, Gathered, driverVars, NextIsAddr
<1>3. Up[1] \notin Debugs /\ Up[1] \notin Acks /\ Up[1] \notin Reads
  BY <1>2 DEF Debugs, Acks, Reads, DEBUG, MEM_READ, MEM_WRITE
<1>4. MemUpHas /\ Place = "CP_MEM_WRITE_END" /\ Up[1] \in Writes /\ Tail(Up) = <<>>
  BY <1>1, <1>2, <1>3, FirstUp DEF Takes
<1>5. Up[1] \in Packet /\ Up[1].body \in Word /\ 0 \in Word
  BY <1>4, MemoryAssumption DEF Writes, Packet
<1>6. last_response_pkt' \in Seq(Packet) /\ \E r \in Answers : WritePacket(r)
  BY <1>2, <1>5, RespondType DEF Gathered
<1>7. MemDownHas' /\ port_out' \in Seq(Byte)
  BY <1>1, <1>2, <1>4, <1>6, MemTaken
<1>8. contents' \in [Addr -> Word] /\ allocation_ptr' = allocation_ptr
  BY <1>2, <1>5 DEF MemoryWrite, Gathered
<1> QED BY <1>2, <1>6, <1>7, <1>8 DEF Gathered, Processed, Somebody

\* The packet the processing thread has gathered is the oldest one up.
LEMMA PacketGathered ==
    ASSUME TypeOK, Turns, Running, ProcessStep, ProcessPacket
    PROVE  /\ RingTypeOK' /\ Takes /\ Framed' /\ Arriving = Up[1] /\ Gathered
           /\ calls' = calls /\ Len(scratch) = 5 /\ scratch' = <<>> /\ port_in' = port_in
           /\ executed' = executed + (IF StoresResult THEN 1 ELSE 0)
           /\ \/ ProcessCommandResponse(Up[1])
              \/ ProcessRead(Up[1])
              \/ ProcessWriteAddr(Up[1])
              \/ ProcessWriteVal(Up[1])
              \/ ProcessDebugRequest(Up[1])
              \/ ProcessDebugResponse(Up[1])
<1>1. /\ BoardRests /\ Listening /\ TakeByte /\ Len(scratch) = 5 /\ scratch' = <<>>
      /\ port_in' = port_in
      /\ UNCHANGED driverVars /\ calls' = calls
      /\ executed' = executed + (IF StoresResult THEN 1 ELSE 0)
      /\ \/ ProcessCommandResponse(Arriving)
         \/ ProcessRead(Arriving)
         \/ ProcessWriteAddr(Arriving)
         \/ ProcessWriteVal(Arriving)
         \/ ProcessDebugRequest(Arriving)
         \/ ProcessDebugResponse(Arriving)
  BY DEF ProcessStep, ProcessPacket, BoardRests
<1>2. RingTypeOK' /\ Ring # <<>> /\ NextByte = Head(Ring) /\ Ring' = Tail(Ring)
  BY <1>1, Take DEF TypeOK
<1>3. Ring \in Seq(Byte) /\ scratch \in Seq(Byte)
  BY BytesShape
<1>4. NextByte \in Byte
  BY <1>2, <1>3, Cons
<1>5. found = <<>> /\ found' = found
  BY <1>1, TurnsIs DEF NotListening, Listening, Running, driverVars
<1>6. UpBytes = Append(scratch, NextByte) \o UpBytes' /\ UpBytes' \in Seq(Byte)
  BY <1>1, <1>2, <1>5, ProcessPacketTakes
<1>7. Append(scratch, NextByte) \in Seq(Byte) /\ Len(Append(scratch, NextByte)) = 6
  BY <1>1, <1>3, <1>4, SixthByte
<1>8. Joined(UpBytes, Append(scratch, NextByte), UpBytes')
  BY <1>6, <1>7 DEF Joined
<1>9. Takes /\ Framed' /\ Arriving = Up[1]
  BY <1>1, <1>6, <1>7, <1>8, PacketTakes DEF Arriving
<1>10. Gathered
  BY <1>1, <1>9 DEF Gathered, TypeOK, ImplTypeOK, PortTypeOK, MemoryTypeOK
<1> QED BY <1>1, <1>2, <1>9, <1>10

LEMMA ProcessPacketTurns ==
    ASSUME TypeOK, Turns, Running, ProcessStep, ProcessPacket
    PROVE  TypeOK' /\ Turns'
<1>1. BoardRests /\ Listening /\ UNCHANGED driverVars
  BY DEF ProcessStep, BoardRests
<1>2. /\ RingTypeOK' /\ Takes /\ Framed' /\ Gathered /\ calls' = calls
      /\ scratch' = <<>> /\ port_in' = port_in
      /\ executed' = executed + (IF StoresResult THEN 1 ELSE 0)
  BY PacketGathered
<1>3. Processed
  BY <1>1, <1>2, PacketGathered, ResponseProcessed, ReadProcessed, WriteAddrProcessed,
     WriteValProcessed, StatsProcessed
<1>4. ImplTypeOK' /\ PortTypeOK' /\ MemoryTypeOK'
  <2>1. <<>> \in Seq(Byte) /\ Len(<<>>) < 6
    OBVIOUS
  <2>2. port_in \in Seq(Byte)
    BY DEF TypeOK, PortTypeOK
  <2> QED BY <1>2, <1>3, <2>1, <2>2 DEF Processed, ImplTypeOK, PortTypeOK, MemoryTypeOK
<1>5. calls' \in Seq(Calls) /\ executed' \in Nat
  BY <1>2 DEF TypeOK
<1>6. TypeOK'
  BY <1>1, <1>2, <1>4, <1>5, RestsTypes DEF TypeOK
<1>7. NotListening' /\ CommandsRecorded' /\ Finding'
  BY <1>1, TurnsIs DEF NotListening, CommandsRecorded, Requests, Listening, driverVars, Finding
<1> QED BY <1>1, <1>2, <1>3, <1>6, <1>7, HostTurns DEF Processed

-----------------------------------------------------------------------------
(* The invariant.                                                          *)

LEMMA InitBoardType == Init => BoardTypeOK
<1> SUFFICES ASSUME Init PROVE BoardTypeOK
  OBVIOUS
<1>1. 0 \in Word /\ 0 \in Byte /\ 0 \in Nibble
  BY MemoryAssumption DEF Byte, Nibble
<1>2. CpTypeOK
  BY <1>1 DEF Init, BoardInit, CpInit, CpTypeOK, CpState, REQUEST, RESPONSE
<1>3. PacketTypeOK
  BY <1>1 DEF Init, BoardInit, PacketInit, PacketTypeOK, NoBytes
<1>4. 0 \in 0 .. MaxStop /\ MinHigh \in 0 .. MinHigh
  BY UartAssumption
<1> QED BY <1>1, <1>2, <1>3, <1>4 DEF Init, BoardInit, BoardTypeOK

LEMMA InitTypeOK == Init => TypeOK
<1> SUFFICES ASSUME Init PROVE TypeOK
  OBVIOUS
<1>1. BoardTypeOK
  BY InitBoardType
<1>2. PortTypeOK
  BY DEF Init, PortInit, PortTypeOK
<1>3. RingTypeOK
  <2>1. 0 \in Byte /\ 0 \in 0 .. CounterSize - 1
    BY RingAssumption DEF Byte
  <2> QED BY <2>1 DEF Init, RingInit, RingTypeOK
<1>4. MemoryTypeOK
  BY MemoryAssumption DEF Init, MemoryInit, MemoryTypeOK
<1>5. ImplTypeOK
  BY MemoryAssumption DEF Init, ImplInit, ImplTypeOK
<1> QED BY <1>1, <1>2, <1>3, <1>4, <1>5 DEF Init, TypeOK

LEMMA InitUp == Init => InRing = 0 /\ Total = 0 /\ Up = <<>>
<1> SUFFICES ASSUME Init PROVE InRing = 0 /\ Total = 0 /\ Up = <<>>
  OBVIOUS
<1>1. TypeOK
  BY InitTypeOK
<1>2. InRing = 0
  <2>1. CounterSize \in Nat \ {0} /\ 0 \in 0 .. CounterSize - 1
    BY RingAssumption
  <2>2. 0 % CounterSize = 0
    BY <2>1, ModSmall, Zenon
  <2> QED BY <2>2 DEF Init, RingInit, InRing
<1>3. Len(found) = 0 /\ Len(scratch) = 0 /\ Len(port_in) = 0
  BY DEF Init, ImplInit, PortInit
<1>4. Total = 0
  BY <1>1, <1>2, <1>3, BytesShape
<1>5. Up \in Seq(Frame) /\ Len(Up) = 0
  BY <1>1, <1>4, UpShape
<1> QED BY <1>2, <1>4, <1>5, EmptySeq

LEMMA InitTurns == Init => Turns
<1> SUFFICES ASSUME Init PROVE Turns
  OBVIOUS
<1>1. /\ cp.state = "CP_IDLE" /\ tx_packet_ready = 0 /\ tx_packet_sent = 0
      /\ ptx.state = "TX_IDLE" /\ prx.state = "RX_IDLE" /\ rx_packet_ready = 0
      /\ rx_data_en = 1 /\ tx_data_en = 0 /\ data_sent = 0 /\ phase = "idle"
  BY DEF Init, BoardInit, CpInit, PacketInit
<1>2. /\ host = "start" /\ found = <<>> /\ scratch = <<>> /\ recorded_commands = <<>>
      /\ unread = {} /\ received_payloads = <<>> /\ NextIsAddr /\ port_out = <<>>
  BY DEF Init, ImplInit, PortInit, NextIsAddr
<1>3. InRing = 0 /\ Total = 0 /\ Up = <<>>
  BY InitUp
<1>4. Place = "CP_IDLE" /\ ~Busy
  BY <1>1 DEF Place, Busy
<1>5. TxHandshake
  BY <1>1 DEF TxHandshake, ByteIdle
<1>6. CpHandshakes
  BY <1>1 DEF CpHandshakes, Settled, Announce
<1>7. Framed
  <2>1. Partial = 0
    BY <1>1 DEF Partial, Delivered
  <2> QED BY <1>3, <2>1 DEF Framed
<1>8. CpPlaces /\ SendingKind
  BY <1>1, <1>4 DEF CpPlaces, SendingKind, FetchPlaces, WritePlaces, DebugPlaces
<1>9. NotListening /\ Finding /\ CommandsRecorded
  BY <1>1, <1>2, <1>3 DEF NotListening, Finding, CommandsRecorded
<1>10. HostHas
  <2>1. FreeUp
    <3>1. ASSUME NEW s, s = <<>> PROVE StatsOnly(s)
      BY <3>1 DEF StatsOnly
    <3> QED BY <1>3, <3>1 DEF FreeUp
  <2>2. CpFree /\ DownIdle /\ NoAck
    BY <1>1, <1>2, <1>4 DEF CpFree, DownIdle, NoAck
  <2> QED BY <1>1, <1>2, <2>1, <2>2 DEF HostHas
<1> QED BY <1>5, <1>6, <1>7, <1>8, <1>9, <1>10, TurnsIs DEF Somebody

LEMMA AppTurns ==
    ASSUME TypeOK, Turns, HostStep(AppStep)
    PROVE  TypeOK' /\ Turns'
<1>1. UNCHANGED <<boardVars, ringVars>> /\ AppStep
  BY DEF HostStep
<1>2. CASE \E c \in Calls : RecordCall(c)
  BY <1>1, <1>2, RecordTurns
<1>3. CASE /\ (\E v \in Vals : NewMInt(v)) \/ (\E a \in Addr, v \in Vals : SetValue(a, v))
           /\ UNCHANGED history
  BY <1>1, <1>3, ValueTurns
<1>4. CASE MSync /\ UNCHANGED history
  <2>1. last_request_pkt' \in Seq(Packet)
    BY <1>4 DEF MSync, implVars, TypeOK, ImplTypeOK
  <2> QED BY <1>1, <1>4, <2>1, CallTurns DEF MSync, implVars
<1> QED BY <1>1, <1>2, <1>3, <1>4 DEF AppStep

LEMMA LibraryTurns ==
    ASSUME TypeOK, Turns, HostStep(LibraryStep)
    PROVE  TypeOK' /\ Turns'
<1>1. UNCHANGED <<boardVars, ringVars, history>> /\ LibraryStep
  BY DEF HostStep, LibraryStep
<1>2. last_request_pkt \in Seq(Packet)
  BY DEF TypeOK, ImplTypeOK
<1>3. CASE SyncReturn
  BY <1>1, <1>2, <1>3, CallTurns DEF SyncReturn, implVars
<1>4. CASE SyncStat
  <2>1. recorded_commands # <<>>
    BY <1>4, TurnsIs DEF CommandsRecorded, SyncStat, Goto
  <2>2. Head(recorded_commands) \in Packet
    BY <2>1, NextCommand DEF Requests
  <2>3. last_request_pkt' \in Seq(Packet)
    BY <1>2, <1>4, <2>2 DEF SyncStat, RememberRequest
  <2> QED BY <1>1, <1>4, <2>3, CallTurns DEF SyncStat, RememberRequest
<1> QED BY <1>1, <1>3, <1>4, FindTurns, FindByteTurns, FindAnswerTurns, SyncSendTurns,
       CmdSyncTurns DEF LibraryStep

LEMMA NextTurns ==
    ASSUME TypeOK, Turns, [Next]_vars
    PROVE  TypeOK' /\ Turns'
<1>1. CASE Running /\ HostStep(AppStep)
  BY <1>1, AppTurns
<1>2. CASE Running /\ HostStep(LibraryStep)
  BY <1>2, LibraryTurns
<1>3. CASE Running /\ HostStep(FindTimeout /\ UNCHANGED history)
  <2>1. last_request_pkt' \in Seq(Packet)
    BY <1>3 DEF HostStep, FindTimeout, implVars, TypeOK, ImplTypeOK
  <2> QED BY <1>3, <2>1, CallTurns DEF HostStep, FindTimeout, implVars
<1>4. CASE Running /\ HostStep(Receive /\ UNCHANGED history)
  BY <1>4, ReceiveTurns DEF HostStep
<1>5. CASE Running /\ ListenStep
  BY <1>5, ListenTurns
<1>6. CASE Running /\ ProcessStep
  BY <1>6, ProcessByteTurns, ProcessPacketTurns DEF ProcessStep
<1>7. CASE Running /\ BoardStep
  BY <1>7, BoardTurns
<1>8. CASE UNCHANGED vars
  <2>1. /\ UNCHANGED <<boardVars, portVars, ringVars, contents, allocation_ptr, implVars>>
        /\ UNCHANGED <<driverVars, history>>
    BY <1>8 DEF vars
  <2>2. BoardRests
    BY <2>1 DEF BoardRests
  <2>3. TypeOK'
    BY <2>1, <2>2, RestsTypes DEF TypeOK
  <2>4. UpBytes' = UpBytes /\ Up' = Up /\ InRing' = InRing
    BY <2>1, RestsBytes DEF portVars, implVars, driverVars
  <2>5. Quiet
    BY <2>1, <2>2, <2>4 DEF Quiet, portVars, implVars, driverVars, Waiting
  <2>6. NotListening' /\ CommandsRecorded' /\ host' = host
    BY <2>1, <2>4, TurnsIs DEF NotListening, CommandsRecorded, implVars, driverVars, Requests
  <2> QED BY <2>3, <2>4, <2>5, <2>6, QuietTurns
<1> QED BY <1>1, <1>2, <1>3, <1>4, <1>5, <1>6, <1>7, <1>8 DEF Next, Terminated

\* At any time one party has something to send, the bytes the board has sent are
\* whole packets and the first bytes of the one it is sending, and the blocks of
\* the board are where their handshakes allow: the strengthening behind the other
\* theorems of this module, inductive with TypeOK.
THEOREM TurnsInvariant == Spec => [](TypeOK /\ Turns)
<1>1. Init => TypeOK /\ Turns
  BY InitTypeOK, InitTurns
<1>2. TypeOK /\ Turns /\ [Next]_vars => (TypeOK /\ Turns)'
  BY NextTurns
<1> QED BY <1>1, <1>2, PTL DEF Spec

\* Every variable of the host, the line and the board keeps its type; that no
\* index of a byte counts past its packet and no list holds half a packet rests on
\* Turns.
THEOREM SerialTypeCorrect == Spec => []TypeOK
BY TurnsInvariant, PTL

\* The host's ring has room for whatever the board sends before the host answers,
\* however late the processing thread runs, although the listening thread stores
\* without looking (serial_device.cpp:39-41).
THEOREM NoOverrun == Spec => []RingNotOverrun
<1>1. TypeOK /\ Turns => RingNotOverrun
  BY RingFits DEF RingNotOverrun
<1> QED BY <1>1, TurnsInvariant, PTL

\* Between two packets of the board the host has whole packets only: counting six
\* bytes (serial_impl.cpp:165) never splits them elsewhere.
THEOREM PacketsStayFramed == Spec => []FramesAligned
<1>1. ASSUME TypeOK, Turns PROVE FramesAligned
  <2>1. SUFFICES ASSUME ptx.state \in {"TX_END", "TX_IDLE"}
                 PROVE  (Len(found) + Len(port_in) + InRing + Len(scratch)) % 6 = 0
    BY DEF FramesAligned
  <2>2. Partial = 0
    BY <2>1 DEF Partial, Delivered
  <2>3. Total % 6 = 0
    BY <1>1, <2>2 DEF Turns, Framed
  <2>4. Total = Len(found) + Len(port_in) + InRing + Len(scratch)
    <3>1. /\ Len(found) \in Nat /\ Len(scratch) \in Nat /\ InRing \in Nat /\ Len(port_in) \in Nat
          /\ Total = Len(found) + Len(scratch) + InRing + Len(port_in)
      BY <1>1, BytesShape
    <3> QED BY <3>1
  <2> QED BY <2>3, <2>4
<1> QED BY <1>1, TurnsInvariant, PTL

\* The processor leaves a packet alone for as long as the packet layer reads it
\* (uart_packet.v:213-318).
THEOREM PacketHeld == Spec => TxPacketStable
<1>1. ASSUME TypeOK, Turns, [Next]_vars, ptx.state \in {"TX_SEND", "TX_SEND_WAIT"}
      PROVE  tx_packet' = tx_packet
  <2>1. CASE BoardStep
    <3>1. CpTypeOK /\ TxTypeOK
      BY <1>1, TypesOf
    <3>2. WireStep
      BY <1>1, <2>1, <3>1, CpHandshakesStep DEF Turns, BoardStep, Clock
    <3> QED BY <1>1, <3>2 DEF WireStep, WiresKept, WiresLowered, WiresRaised, Free, Withdrawn
  <2>2. CASE UNCHANGED boardVars
    BY <2>2 DEF boardVars
  <2>3. BoardStep \/ UNCHANGED boardVars
    BY <1>1 DEF Next, HostStep, ListenStep, ProcessStep, Terminated, vars
  <2> QED BY <2>1, <2>2, <2>3
<1>2. TypeOK /\ Turns /\ [Next]_vars =>
          [ptx.state \in {"TX_SEND", "TX_SEND_WAIT"} => tx_packet' = tx_packet]_vars
  BY <1>1
<1> QED BY <1>2, TurnsInvariant, PTL DEF Spec, TxPacketStable
=============================================================================
