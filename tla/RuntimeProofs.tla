--------------------------- MODULE RuntimeProofs ----------------------------
(***************************************************************************)
(* Memory and the quantized pairs, for any width of words, any size of     *)
(* memory and any units.  First the arithmetic: a word is its digits, an   *)
(* address lies in memory at its rest, a write is read back.  Then         *)
(* quantization: what is stored is the multiple of the scale's grain that  *)
(* the type's rounding asks for, or a nearest single, and loads as that.   *)
(* KeptInv says what memory holds of the pair that was stored last.  Then  *)
(* the bytes: where those of an access lie, that a read is the number they *)
(* make, and that a write, or a run of them, puts each digit in its place. *)
(*                                                                         *)
(* After memory, the carry chain: sums and differences of any number of    *)
(* words are exact.  Last, the runtime: what is proved of the parts holds  *)
(* of it, because whatever the others do in between, a part takes its own  *)
(* steps or none; memory and the pairs share the array, and their          *)
(* invariant is kept by the steps of both.                                 *)
(***************************************************************************)
EXTENDS GuestRuntime, DispatcherProofs, WellFoundedInduction


-----------------------------------------------------------------------------
(* Memory: bytes, the words put together from them, and the array.         *)
Byte == 0..(Radix - 1)

Ram == [0..(RamSize - 1) -> Byte]

Sizes == {1, 2, 4}

(* The widths are positive.                                                *)
LEMMA WidthFacts ==
    /\ Radix \in Nat \ {0, 1} /\ Half \in Nat \ {0} /\ Modulus \in Nat \ {0}
    /\ Radix <= Half /\ Half <= Modulus
<1>1. Radix \in Nat \ {0, 1}
  BY RadixAssumption
<1>2. \A x \in Nat \ {0} : x * x \in Nat \ {0} /\ x <= x * x
  OBVIOUS
<1>3. Half \in Nat \ {0} /\ Radix <= Half
  BY <1>1, <1>2 DEF Half
<1>4. Modulus \in Nat \ {0} /\ Half <= Modulus
  BY <1>2, <1>3 DEF Modulus
<1> QED BY <1>1, <1>3, <1>4

(* What one, two and four bytes tell apart.                                *)
LEMMA ValuesAre ==
    /\ Values(0) = 1 /\ Values(1) = Radix /\ Values(2) = Half
    /\ Values(3) = Half * Radix /\ Values(4) = Modulus
    /\ \A n \in 0..4 : Values(n) \in Nat \ {0}
    /\ \A n \in Sizes : Values(n) <= Modulus
<1>1. /\ Values(0) = 1 /\ Values(1) = Radix /\ Values(2) = Half
      /\ Values(3) = Half * Radix /\ Values(4) = Modulus
  BY DEF Values
<1>2. Half * Radix \in Nat \ {0}
  <2>1. \A x, y \in Nat \ {0} : x * y \in Nat \ {0}
    OBVIOUS
  <2> QED BY <2>1, WidthFacts
<1>3. \A n \in 0..4 : n \in {0, 1, 2, 3, 4}
  OBVIOUS
<1>4. \A n \in 0..4 : Values(n) \in Nat \ {0}
  BY <1>1, <1>2, <1>3, WidthFacts
<1> QED BY <1>1, <1>4, WidthFacts DEF Sizes

(* A quotient stays below a bound when the number stays below its multiple.*)
LEMMA QuotientBelow ==
    ASSUME NEW x \in Nat, NEW c \in Nat \ {0}, NEW b \in Nat, x < c * b
    PROVE  x \div c \in 0..(b - 1)
<1> DEFINE q == x \div c
           r == x % c
<1>1. x = c * q + r /\ q \in Int /\ r \in Nat
  BY Division
<1>2. q >= 0
  OBVIOUS
<1> HIDE DEF q, r
<1>3. CASE q >= b
  <2>1. c * q >= c * b
    BY <1>1, <1>3
  <2> QED BY <1>1, <2>1
<1>4. CASE q < b
  BY <1>1, <1>2, <1>4
<1> QED BY <1>1, <1>3, <1>4 DEF q

(* A number written with a remainder has the quotient it is written with.  *)
LEMMA Quotient ==
    ASSUME NEW c \in Nat \ {0}, NEW q \in Int, NEW r \in 0..(c - 1)
    PROVE  (c * q + r) \div c = q
<1> DEFINE x == c * q + r
           p == x \div c
<1>1. x \in Int
  OBVIOUS
<1>2. x = c * p + (x % c) /\ p \in Int
  BY <1>1, Division
<1>3. x % c = r
  BY Remainder
<1> HIDE DEF p
<1>4. c * p = c * q /\ c * p \in Int /\ c * q \in Int
  <2>1. x = c * q + r /\ x = c * p + r
    BY <1>2, <1>3
  <2>2. c * p \in Int /\ c * q \in Int /\ r \in Int
    BY <1>2
  <2> HIDE DEF x
  <2> QED BY <2>1, <2>2
<1>5. c * (p - q) = 0 /\ p - q \in Int
  BY <1>2, <1>4, Difference
<1>6. p - q = 0
  <2>1. 0 - c < c * (p - q) /\ c * (p - q) < c
    BY <1>5
  <2> QED BY <1>5, <2>1, Multiple
<1>7. p = q
  BY <1>2, <1>6
<1> QED BY <1>7 DEF p

(* Dividing twice is dividing by the product.                              *)
LEMMA QuotientOfQuotient ==
    ASSUME NEW x \in Nat, NEW a \in Nat \ {0}, NEW b \in Nat \ {0}
    PROVE  x \div (a * b) = (x \div a) \div b
<1> DEFINE q == x \div a
           r == (x % a)
           s == q \div b
           u == (q % b)
<1>1. x = a * q + r /\ q \in Int /\ r \in 0..(a - 1)
  BY Division
<1>2. q = b * s + u /\ s \in Int /\ u \in 0..(b - 1)
  <2> HIDE DEF q
  <2> QED BY <1>1, Division
<1> HIDE DEF q, r, s, u
<1>3. a * b \in Nat \ {0}
  OBVIOUS
<1>4. x = (a * b) * s + (a * u + r)
  <2>1. a * q = a * (b * s) + a * u
    BY <1>2
  <2>2. a * (b * s) = (a * b) * s
    BY <1>2
  <2>3. a * u \in Int /\ (a * b) * s \in Int
    BY <1>2, <1>3
  <2> QED BY <1>1, <2>1, <2>2, <2>3
<1>5. a * u + r \in 0..(a * b - 1)
  <2>1. a * u <= a * (b - 1)
    BY <1>2
  <2>2. a * (b - 1) = a * b - a /\ a * u \in Nat
    BY <1>2
  <2> QED BY <1>1, <1>3, <2>1, <2>2
<1>6. ((a * b) * s + (a * u + r)) \div (a * b) = s
  BY <1>2, <1>3, <1>5, Quotient
<1> QED BY <1>4, <1>6 DEF s, q

(* A half word is its two digits, a word its two half words.               *)
LEMMA HalfOfDigits ==
    ASSUME NEW v \in 0..(Half - 1)
    PROVE  /\ v = (v \div Radix) * Radix + (v % Radix)
           /\ v \div Radix \in Byte /\ (v % Radix) \in Byte
           /\ (v \div Radix) % Radix = v \div Radix
<1>1. Radix \in Nat \ {0} /\ Half = Radix * Radix /\ v \in Nat /\ v < Half
  BY WidthFacts DEF Half
<1>2. v = Radix * (v \div Radix) + (v % Radix) /\ (v % Radix) \in Byte
  BY <1>1, Division DEF Byte
<1>3. v \div Radix \in 0..(Radix - 1)
  BY <1>1, QuotientBelow
<1>4. Radix * (v \div Radix) = (v \div Radix) * Radix
  BY <1>1, <1>3
<1>5. \A x \in 0..(Radix - 1) : x % Radix = x
  BY <1>1
<1> QED BY <1>2, <1>3, <1>4, <1>5 DEF Byte

(* The same of the half words of a word.                                   *)
LEMMA WordOfHalves ==
    ASSUME NEW v \in Word
    PROVE  /\ v = (v \div Half) * Half + (v % Half)
           /\ v \div Half \in 0..(Half - 1) /\ (v % Half) \in 0..(Half - 1)
<1>1. Half \in Nat \ {0} /\ Modulus = Half * Half /\ v \in Nat /\ v < Modulus
  BY WidthFacts DEF Modulus, Word
<1>2. v = Half * (v \div Half) + (v % Half) /\ (v % Half) \in 0..(Half - 1)
  BY <1>1, Division
<1>3. v \div Half \in 0..(Half - 1)
  BY <1>1, QuotientBelow
<1>4. Half * (v \div Half) = (v \div Half) * Half
  BY <1>1, <1>3
<1> QED BY <1>2, <1>3, <1>4

(* The digits that a store writes, put together, are the word.             *)
LEMMA DigitsOfWord ==
    ASSUME NEW v \in Word
    PROVE  v = (((v \div Values(3)) % Radix) * Radix + ((v \div Values(2)) % Radix)) * Half
               + ((v \div Values(1)) % Radix) * Radix + ((v \div Values(0)) % Radix)
<1> DEFINE h == v \div Half
           l == (v % Half)
<1>1. v = h * Half + l /\ h \in 0..(Half - 1) /\ l \in 0..(Half - 1)
  BY WordOfHalves
<1>2. v \in Nat /\ Radix \in Nat \ {0} /\ Half \in Nat \ {0} /\ Half = Radix * Radix
  BY WidthFacts DEF Word, Half
<1>3. v \div Values(3) = h \div Radix
  BY <1>2, ValuesAre, QuotientOfQuotient
<1>4. v \div Values(2) = h
  BY ValuesAre
<1>5. v = Radix * (Radix * h + l \div Radix) + (l % Radix)
  <2> HIDE DEF h, l
  <2>1. l = (l \div Radix) * Radix + (l % Radix) /\ l \div Radix \in Byte /\ (l % Radix) \in Byte
    BY <1>1, HalfOfDigits
  <2> DEFINE x == l \div Radix
             y == (l % Radix)
  <2>2. x \in Nat /\ y \in Nat /\ h \in Nat
    BY <1>1, <2>1, <1>2 DEF Byte
  <2>3. l = x * Radix + y
    BY <2>1
  <2> HIDE DEF x, y
  <2>4. Radix * (Radix * h + x) = Radix * (Radix * h) + Radix * x
    BY <1>2, <2>2
  <2>5. Radix * (Radix * h) = h * Half /\ Radix * x = x * Radix
    BY <1>2, <2>2
  <2>6. h * Half \in Nat /\ x * Radix \in Nat
    BY <1>2, <2>2
  <2>7. v = Radix * (Radix * h + x) + y
    BY <1>1, <2>2, <2>3, <2>4, <2>5, <2>6
  <2> QED BY <2>7 DEF x, y
<1> HIDE DEF h, l
<1>6. l \div Radix \in 0..(Radix - 1) /\ (l % Radix) \in 0..(Radix - 1)
      /\ l = (l \div Radix) * Radix + (l % Radix)
  BY <1>1, HalfOfDigits DEF Byte
<1>7. v \div Radix = Radix * h + l \div Radix
  <2>1. Radix * h + l \div Radix \in Int
    BY <1>1, <1>2, <1>6
  <2>2. (Radix * (Radix * h + l \div Radix) + (l % Radix)) \div Radix = Radix * h + l \div Radix
    BY <1>2, <1>6, <2>1, Quotient
  <2> QED BY <1>5, <2>2
<1>8. (v \div Values(1)) % Radix = l \div Radix
  <2>1. h \in Int
    BY <1>1
  <2>2. (Radix * h + l \div Radix) % Radix = l \div Radix
    BY <1>2, <1>6, <2>1, Remainder
  <2> QED BY <1>7, <2>2, ValuesAre
<1>9. (v \div Values(0)) % Radix = (l % Radix)
  <2>1. v \div Values(0) = v
    BY <1>2, ValuesAre
  <2>2. (Radix * (Radix * h + l \div Radix) + (l % Radix)) % Radix = (l % Radix)
    <3>1. Radix * h + l \div Radix \in Int
      BY <1>1, <1>2, <1>6
    <3> QED BY <1>2, <1>6, <3>1, Remainder
  <2> QED BY <1>5, <2>1, <2>2
<1>10. (h \div Radix) % Radix = h \div Radix /\ h = (h \div Radix) * Radix + (h % Radix)
  BY <1>1, HalfOfDigits
<1> DEFINE a == (v \div Values(3)) % Radix
           b == (v \div Values(2)) % Radix
           c == (v \div Values(1)) % Radix
           d == (v \div Values(0)) % Radix
<1>11. a * Radix + b = h
  BY <1>3, <1>4, <1>10
<1>12. c * Radix + d = l
  BY <1>6, <1>8, <1>9
<1>13. c * Radix \in Int /\ d \in Int /\ h * Half \in Int
  BY <1>1, <1>2, <1>6, <1>8, <1>9
<1> HIDE DEF a, b, c, d
<1>14. v = (a * Radix + b) * Half + c * Radix + d
  BY <1>1, <1>11, <1>12, <1>13
<1> QED BY <1>14 DEF a, b, c, d
-----------------------------------------------------------------------------
(* Memory is a number of lines, the address space of memories.             *)
LEMMA Dividing ==
    ASSUME NEW x \in Nat, NEW a \in Nat \ {0}, NEW b \in Nat \ {0}, x % a = 0, a % b = 0
    PROVE  x % b = 0
<1> DEFINE p == x \div a
           q == a \div b
<1>1. x = a * p /\ p \in Int /\ a = b * q /\ q \in Int
  BY Division
<1> HIDE DEF p, q
<1> DEFINE j == q * p
<1>2. x = b * j + 0 /\ j \in Int
  BY <1>1
<1> HIDE DEF j
<1>3. 0 \in 0..(b - 1)
  OBVIOUS
<1>4. (b * j + 0) % b = 0
  BY <1>2, <1>3, Remainder
<1> QED BY <1>2, <1>4

(* The same for 8, whose multiples the solver knows.                       *)
LEMMA Eights ==
    ASSUME NEW x \in Nat, NEW a \in Nat \ {0}, x % a = 0, a % 8 = 0
    PROVE  x % 8 = 0
<1> DEFINE p == x \div a
           q == a \div 8
           j == q * p
<1>1. x = a * p /\ p \in Int /\ a = 8 * q /\ q \in Int
  BY Division
<1> HIDE DEF p, q
<1>2. x = 8 * j /\ j \in Int
  BY <1>1
<1> HIDE DEF j
<1> QED BY <1>2

(* Memory is eight bytes at least, and the address space is a number of    *)
(* them.                                                                   *)
LEMMA RamFacts ==
    /\ RamSize \in Nat \ {0} /\ RamSize % 8 = 0 /\ Modulus % 8 = 0 /\ RamSize >= 8
    /\ Modulus % RamSize = 0
<1>1. RamSize \in Nat \ {0} /\ Line \in Nat \ {0} /\ Modulus % RamSize = 0
      /\ RamSize % Line = 0 /\ Line % 8 = 0
  BY MemoryAssumption
<1>2. RamSize % 8 = 0
  BY <1>1, Eights
<1>3. Modulus % 8 = 0
  BY <1>1, <1>2, WidthFacts, Eights
<1>4. RamSize >= 8
  BY <1>1, <1>2
<1> QED BY <1>1, <1>2, <1>3, <1>4

(* In every window a byte lies at the rest of its address.                 *)
LEMMA TranslateIsRest ==
    ASSUME NEW a \in Word, Translate(a) # Nowhere
    PROVE  Translate(a) = (a % RamSize) /\ Translate(a) \in 0..(RamSize - 1)
<1> DEFINE In(b) == a >= b /\ a < b + RamSize
<1>1. \E b \in Bases : In(b)
  BY DEF Translate
<1> DEFINE b == CHOOSE c \in Bases : In(c)
<1>2. b \in Bases /\ In(b)
  BY <1>1
<1>3. Translate(a) = a - b
  BY <1>1 DEF Translate
<1> HIDE DEF b
<1>4. b \in Nat /\ (b % RamSize) = 0 /\ RamSize \in Nat \ {0} /\ a \in Nat
  BY <1>2, MemoryAssumption, RamFacts DEF Word
<1> DEFINE k == b \div RamSize
<1>5. b = RamSize * k /\ k \in Int
  BY <1>4, Division
<1> HIDE DEF k
<1>6. a - b \in 0..(RamSize - 1)
  BY <1>2, <1>4
<1>7. (RamSize * k + (a - b)) % RamSize = a - b
  BY <1>4, <1>5, <1>6, Remainder
<1>8. RamSize * k + (a - b) = a
  BY <1>4, <1>5
<1> QED BY <1>3, <1>6, <1>7, <1>8

(* An aligned access ends before memory does.                              *)
LEMMA AlignedFits ==
    ASSUME NEW a \in Word, NEW n \in Sizes, Aligned(a, n)
    PROVE  /\ (a % RamSize) \in Nat /\ (a % RamSize) + n <= RamSize
           /\ (a % RamSize) % n = 0
<1> DEFINE k == RamSize \div 8
           q == a \div RamSize
           t == (a % RamSize)
<1>1. RamSize = 8 * k /\ k \in Int
  BY RamFacts
<1>2. a = RamSize * q + t /\ q \in Int /\ t \in 0..(RamSize - 1) /\ a \in Nat
  BY RamFacts, Division DEF Word
<1> HIDE DEF k, q, t
<1>3. a = 8 * (k * q) + t /\ k * q \in Int
  BY <1>1, <1>2
<1> DEFINE j == k * q
<1>4. a = 8 * j + t /\ j \in Int
  BY <1>3
<1> HIDE DEF j
<1>5. a % n = 0
  BY DEF Aligned
<1>6. CASE n = 1
  <2>1. t % 1 = 0 /\ t + 1 <= RamSize
    BY <1>2, RamFacts
  <2> QED BY <1>2, <1>6, <2>1 DEF t
<1>7. CASE n = 2
  <2>1. t % 2 = 0
    BY <1>2, <1>4, <1>5, <1>7
  <2>2. t + 2 <= RamSize
    BY <1>1, <1>2, <2>1
  <2> QED BY <1>2, <1>7, <2>1, <2>2 DEF t
<1>8. CASE n = 4
  <2>1. t % 4 = 0
    BY <1>2, <1>4, <1>5, <1>8
  <2>2. t + 4 <= RamSize
    BY <1>1, <1>2, <2>1
  <2> QED BY <1>2, <1>8, <2>1, <2>2 DEF t
<1> QED BY <1>6, <1>7, <1>8 DEF Sizes

(* Bytes put together are a number of their width.                         *)
LEMMA BigIsValue ==
    ASSUME NEW n \in Sizes, NEW f \in [1..n -> Byte]
    PROVE  /\ n = 1 => Big(f) = f[1]
           /\ n = 2 => Big(f) = f[1] * Radix + f[2]
           /\ n = 4 => Big(f) = (f[1] * Radix + f[2]) * Half + f[3] * Radix + f[4]
<1>1. n \in Nat
  BY DEF Sizes
<1>2. f \in Seq(Byte) /\ Len(f) = n
  BY <1>1
<1> QED BY <1>2 DEF Big, Value

(* Two digits are less than the square of the radix.                       *)
LEMMA TwoDigits ==
    ASSUME NEW r \in Nat \ {0}, NEW x \in 0..(r - 1), NEW y \in 0..(r - 1)
    PROVE  x * r + y \in 0..(r * r - 1)
<1>1. x * r <= (r - 1) * r /\ (r - 1) * r = r * r - r /\ x * r \in Nat /\ r * r \in Nat
  OBVIOUS
<1> QED BY <1>1

(* Put together, n bytes are one of the numbers that n bytes tell apart.   *)
LEMMA BigIsTyped ==
    ASSUME NEW n \in Sizes, NEW f \in [1..n -> Byte]
    PROVE  Big(f) \in 0..(Values(n) - 1)
<1>1. \A i \in 1..n : f[i] \in 0..(Radix - 1)
  BY DEF Byte
<1>2. \A x, y \in 0..(Radix - 1) : x * Radix + y \in 0..(Half - 1)
  BY TwoDigits, WidthFacts DEF Half
<1>3. CASE n = 1
  <2>1. f[1] \in 0..(Radix - 1)
    BY <1>1, <1>3
  <2> QED BY <1>3, <2>1, BigIsValue, ValuesAre
<1>4. CASE n = 2
  <2>1. f[1] \in 0..(Radix - 1) /\ f[2] \in 0..(Radix - 1)
    BY <1>1, <1>4
  <2>2. f[1] * Radix + f[2] \in 0..(Half - 1)
    BY <1>2, <2>1
  <2> QED BY <1>4, <2>2, BigIsValue, ValuesAre
<1>5. CASE n = 4
  <2> DEFINE h == f[1] * Radix + f[2]
             x == f[3] * Radix
  <2>1. f[1] \in 0..(Radix - 1) /\ f[2] \in 0..(Radix - 1)
        /\ f[3] \in 0..(Radix - 1) /\ f[4] \in 0..(Radix - 1)
    BY <1>1, <1>5
  <2>2. h \in 0..(Half - 1) /\ x + f[4] \in 0..(Half - 1)
    BY <1>2, <2>1
  <2>3. x \in Int /\ f[4] \in Int
    BY <2>1, WidthFacts
  <2>4. Big(f) = h * Half + x + f[4]
    BY <1>5, BigIsValue
  <2> HIDE DEF h, x
  <2>5. h * Half + (x + f[4]) \in 0..(Half * Half - 1)
    BY <2>2, WidthFacts, TwoDigits
  <2>6. h * Half \in Int
    BY <2>2, WidthFacts
  <2>7. Big(f) = h * Half + (x + f[4])
    BY <2>3, <2>4, <2>6
  <2> QED BY <1>5, <2>5, <2>7, ValuesAre DEF Modulus
<1> QED BY <1>3, <1>4, <1>5 DEF Sizes

(* What an access that reaches the array reads of it.                      *)
InRow(m, t, n) == [i \in 1..n |-> m[t + i - 1]]

(* They are bytes when the access ends before memory does.                 *)
LEMMA InRowTyped ==
    ASSUME NEW m \in Ram, NEW n \in Sizes, NEW t \in Nat, t + n <= RamSize
    PROVE  InRow(m, t, n) \in [1..n -> Byte]
<1>1. n \in Nat
  BY DEF Sizes
<1>2. \A i \in 1..n : t + i - 1 \in 0..(RamSize - 1)
  BY <1>1, RamFacts
<1>3. \A i \in 1..n : m[t + i - 1] \in Byte
  BY <1>2 DEF Ram
<1> QED BY <1>3 DEF InRow

(* A read in the terms of the rest of the address.                         *)
LEMMA ReadIs ==
    ASSUME NEW m, NEW a \in Word, NEW n
    PROVE  /\ a \in Owned => Read(m, a, n) = Device % Values(n)
           /\ a \notin Owned /\ Translate(a) = Nowhere => Read(m, a, n) = 0
           /\ a \notin Owned /\ Translate(a) # Nowhere
                => Read(m, a, n) = Big(InRow(m, (a % RamSize), n))
<1>1. a \in Owned => Read(m, a, n) = Device % Values(n)
  BY DEF Read
<1>2. ASSUME a \notin Owned, Translate(a) = Nowhere PROVE Read(m, a, n) = 0
  BY <1>2 DEF Read
<1>3. ASSUME a \notin Owned, Translate(a) # Nowhere
      PROVE  Read(m, a, n) = Big(InRow(m, a % RamSize, n))
  <2>1. Read(m, a, n) = Big([i \in 1..n |-> m[Translate(a) + i - 1]])
    BY <1>3 DEF Read
  <2>2. Translate(a) = a % RamSize
    BY <1>3, TranslateIsRest
  <2> QED BY <2>1, <2>2 DEF InRow
<1> QED BY <1>1, <1>2, <1>3

(* An aligned read is a number of its width.                               *)
LEMMA ReadTyped ==
    ASSUME NEW m \in Ram, NEW a \in Word, NEW n \in Sizes, Aligned(a, n)
    PROVE  Read(m, a, n) \in 0..(Values(n) - 1) /\ Read(m, a, n) \in Word
<1>1. Values(n) \in Nat \ {0} /\ Values(n) <= Modulus
  BY ValuesAre DEF Sizes
<1>2. Device \in Int
  BY MemoryAssumption DEF Word
<1>3. Device % Values(n) \in 0..(Values(n) - 1) /\ 0 \in 0..(Values(n) - 1)
  BY <1>1, <1>2
<1>4. Big(InRow(m, (a % RamSize), n)) \in 0..(Values(n) - 1)
  BY AlignedFits, InRowTyped, BigIsTyped
<1>5. Read(m, a, n) \in 0..(Values(n) - 1)
  BY <1>3, <1>4, ReadIs
<1>6. 0..(Values(n) - 1) \subseteq Word
  BY <1>1, WidthFacts DEF Word
<1> QED BY <1>5, <1>6

(* What a write leaves of the array, and what it puts in.                  *)
LEMMA WrittenIs ==
    ASSUME NEW m \in Ram, NEW a \in Word, NEW n \in Sizes, NEW v \in Int
    PROVE  /\ Written(m, a, n, v) \in Ram
           /\ a \in Owned \/ Translate(a) = Nowhere => Written(m, a, n, v) = m
           /\ a \notin Owned /\ Translate(a) # Nowhere =>
                \A p \in 0..(RamSize - 1) :
                    Written(m, a, n, v)[p] =
                        IF p \in (a % RamSize)..((a % RamSize) + n - 1)
                          THEN (v \div Values((a % RamSize) + n - 1 - p)) % Radix
                          ELSE m[p]
<1>1. CASE a \in Owned \/ Translate(a) = Nowhere
  BY <1>1 DEF Written
<1>2. CASE a \notin Owned /\ Translate(a) # Nowhere
  <2> DEFINE t == (a % RamSize)
             e(p) == IF p \in t..(t + n - 1) THEN (v \div Values(t + n - 1 - p)) % Radix ELSE m[p]
  <2>1. t \in Nat /\ n \in 1..4
    BY <1>2, TranslateIsRest DEF Sizes
  <2>2. DOMAIN m = 0..(RamSize - 1) /\ \A p \in 0..(RamSize - 1) : m[p] \in Byte
    BY DEF Ram
  <2>3. Written(m, a, n, v) = [p \in 0..(RamSize - 1) |-> e(p)]
    BY <1>2, <2>2, TranslateIsRest DEF Written
  <2> HIDE DEF t
  <2>4. \A p \in 0..(RamSize - 1) : p \in t..(t + n - 1) => t + n - 1 - p \in 0..4
    BY <2>1
  <2>5. \A c \in Nat \ {0} : (v \div c) % Radix \in Byte
    BY WidthFacts DEF Byte
  <2>6. \A p \in 0..(RamSize - 1) : e(p) \in Byte
    BY <2>2, <2>4, <2>5, ValuesAre
  <2>7. Written(m, a, n, v) \in Ram
    <3> HIDE DEF e
    <3> QED BY <2>3, <2>6 DEF Ram
  <2>8. \A p \in 0..(RamSize - 1) : Written(m, a, n, v)[p] = e(p)
    BY <2>3
  <2> QED BY <1>2, <2>7, <2>8 DEF t
<1> QED BY <1>1, <1>2

(* A number that is stored is read back.                                   *)
LEMMA ReadBack ==
    ASSUME NEW m \in Ram, NEW a \in Word, NEW n \in Sizes, Aligned(a, n),
           a \notin Owned, Translate(a) # Nowhere, NEW v \in 0..(Values(n) - 1)
    PROVE  Read(Written(m, a, n, v), a, n) = v
<1> DEFINE w == Written(m, a, n, v)
           t == (a % RamSize)
<1>1. t \in Nat /\ t + n <= RamSize /\ n \in 1..4
  BY AlignedFits DEF Sizes
<1>2. Values(n) \in Nat
  BY ValuesAre DEF Sizes
<1>3. v \in Nat /\ v \in Int
  BY <1>2
<1>4. w \in Ram
  BY <1>3, WrittenIs
<1>5. \A i \in 1..n : w[t + i - 1] = (v \div Values(n - i)) % Radix
  <2> TAKE i \in 1..n
  <2> HIDE DEF t
  <2>1. t + i - 1 \in 0..(RamSize - 1) /\ t + i - 1 \in t..(t + n - 1)
        /\ t + n - 1 - (t + i - 1) = n - i
    BY <1>1, RamFacts
  <2>2. \A p \in 0..(RamSize - 1) : p \in t..(t + n - 1)
                                     => w[p] = (v \div Values(t + n - 1 - p)) % Radix
    BY <1>3, WrittenIs DEF t
  <2> HIDE DEF w
  <2> QED BY <2>1, <2>2
<1> DEFINE f == InRow(w, t, n)
<1>6. f \in [1..n -> Byte] /\ Read(w, a, n) = Big(f)
  BY <1>1, <1>4, ReadIs, InRowTyped
<1>7. \A i \in 1..n : f[i] = (v \div Values(n - i)) % Radix
  BY <1>5 DEF InRow
<1> HIDE DEF w, t, f
<1>8. CASE n = 1
  <2>1. f[1] = (v \div Values(0)) % Radix
    BY <1>7, <1>8
  <2>2. v \in 0..(Radix - 1)
    BY <1>8, ValuesAre
  <2>3. v \div 1 = v /\ v % Radix = v
    BY <2>2, WidthFacts
  <2> QED BY <1>6, <1>8, <2>1, <2>3, BigIsValue, ValuesAre DEF w
<1>9. CASE n = 2
  <2>1. f[1] = (v \div Values(1)) % Radix /\ f[2] = (v \div Values(0)) % Radix
    BY <1>7, <1>9
  <2>2. v \in 0..(Half - 1)
    BY <1>9, ValuesAre
  <2>3. v \div 1 = v
    BY <1>3
  <2>4. f[1] = v \div Radix /\ f[2] = (v % Radix)
    BY <2>1, <2>2, <2>3, HalfOfDigits, ValuesAre
  <2>5. Big(f) = f[1] * Radix + f[2]
    BY <1>6, <1>9, BigIsValue
  <2> QED BY <1>6, <2>2, <2>4, <2>5, HalfOfDigits DEF w
<1>10. CASE n = 4
  <2>1. f[1] = (v \div Values(3)) % Radix /\ f[2] = (v \div Values(2)) % Radix
        /\ f[3] = (v \div Values(1)) % Radix /\ f[4] = (v \div Values(0)) % Radix
    BY <1>7, <1>10
  <2>2. v \in Word
    BY <1>10, ValuesAre DEF Word
  <2>3. Big(f) = (f[1] * Radix + f[2]) * Half + f[3] * Radix + f[4]
    BY <1>6, <1>10, BigIsValue
  <2> QED BY <1>6, <2>1, <2>2, <2>3, DigitsOfWord DEF w
<1> QED BY <1>8, <1>9, <1>10 DEF Sizes

(* A write elsewhere is not seen.                                          *)
LEMMA ReadApart ==
    ASSUME NEW m \in Ram, NEW a \in Word, NEW n \in Sizes, Aligned(a, n),
           NEW b \in Word, NEW k \in Sizes, NEW v \in Int,
           \A i \in 0..(n - 1) :
               (a % RamSize) + i \notin (b % RamSize)..((b % RamSize) + k - 1)
    PROVE  Read(Written(m, b, k, v), a, n) = Read(m, a, n)
<1> DEFINE w == Written(m, b, k, v)
           t == (a % RamSize)
           u == (b % RamSize)
<1>1. t \in Nat /\ t + n <= RamSize /\ n \in 1..4
  BY AlignedFits DEF Sizes
<1>2. \A p \in 0..(RamSize - 1) : p \notin u..(u + k - 1) => w[p] = m[p]
  BY WrittenIs
<1>3. \A i \in 1..n : w[t + i - 1] = m[t + i - 1]
  <2> TAKE i \in 1..n
  <2>1. i - 1 \in 0..(n - 1)
    BY <1>1
  <2>2. t + (i - 1) \notin u..(u + k - 1)
    BY <2>1
  <2> HIDE DEF t, u
  <2>3. t + (i - 1) = t + i - 1 /\ t + i - 1 \in 0..(RamSize - 1)
    BY <1>1, RamFacts
  <2> HIDE DEF w
  <2> QED BY <1>2, <2>2, <2>3
<1>4. InRow(w, t, n) = InRow(m, t, n)
  BY <1>3 DEF InRow
<1> QED BY <1>4, ReadIs
-----------------------------------------------------------------------------
(* Numbers that a type can hold are whole multiples of Unit \div scale.    *)
Grain(scale) == Unit \div scale

(* Every scale divides the unit, and the grain is what is left.            *)
LEMMA GrainFacts ==
    ASSUME NEW scale \in Scales
    PROVE  /\ scale \in Nat \ {0} /\ Grain(scale) \in Nat \ {0}
           /\ Unit = scale * Grain(scale) /\ Unit \in Nat \ {0}
           /\ \A q \in Int : (q * Unit) \div scale = q * Grain(scale)
<1> DEFINE e == Unit \div scale
<1>1. scale \in Nat \ {0} /\ Unit \in Nat \ {0} /\ Unit % scale = 0
  BY PairsAssumption
<1>2. Unit = scale * e /\ e \in Int
  BY <1>1, Division
<1> HIDE DEF e
<1>3. e > 0
  <2>1. CASE e <= 0
    <3>1. scale * e <= 0
      BY <1>1, <1>2, <2>1
    <3> QED BY <1>1, <1>2, <3>1
  <2> QED BY <1>2, <2>1
<1>4. ASSUME NEW q \in Int PROVE (q * Unit) \div scale = q * e
  <2> DEFINE j == q * e
  <2>1. q * Unit = scale * j /\ j \in Int
    BY <1>1, <1>2
  <2> HIDE DEF j
  <2>2. 0 \in 0..(scale - 1)
    BY <1>1
  <2>3. (scale * j + 0) \div scale = j
    BY <1>1, <2>1, <2>2, Quotient
  <2>4. scale * j + 0 = scale * j
    BY <1>1, <2>1
  <2> QED BY <2>1, <2>3, <2>4 DEF j
<1> QED BY <1>1, <1>2, <1>3, <1>4 DEF Grain, e

(* A common factor does not change a quotient.                             *)
LEMMA CommonFactor ==
    ASSUME NEW d \in Nat \ {0}, NEW n \in Nat, NEW e \in Nat \ {0}
    PROVE  (d * n) \div (d * e) = n \div e
<1> DEFINE q == n \div e
           r == n % e
<1>1. n = e * q + r /\ q \in Int /\ r \in 0..(e - 1)
  BY Division
<1> HIDE DEF q, r
<1>2. d * n = (d * e) * q + d * r /\ d * e \in Nat \ {0}
  <2>1. d * n = d * (e * q) + d * r
    BY <1>1
  <2>2. d * (e * q) = (d * e) * q
    BY <1>1
  <2> QED BY <2>1, <2>2
<1>3. d * r \in 0..(d * e - 1)
  <2>1. d * r <= d * (e - 1) /\ d * (e - 1) = d * e - d /\ d * r \in Nat
    BY <1>1
  <2> QED BY <2>1, <1>2
<1>4. ((d * e) * q + d * r) \div (d * e) = q
  BY <1>1, <1>2, <1>3, Quotient
<1> QED BY <1>2, <1>4 DEF q

(* C's conversion, once the factor d that both numbers have is gone.       *)
LEMMA TruncatedIs ==
    ASSUME NEW d \in Nat \ {0}, NEW n \in Int, NEW e \in Nat \ {0}
    PROVE  /\ n >= 0 => Truncated(d * n, d * e) = n \div e
           /\ n < 0 => Truncated(d * n, d * e) = -((-n) \div e)
<1>1. CASE n >= 0
  <2>1. d * n >= 0
    BY <1>1
  <2>2. (d * n) \div (d * e) = n \div e
    BY <1>1, CommonFactor
  <2> QED BY <1>1, <2>1, <2>2 DEF Truncated
<1>2. CASE n < 0
  <2>1. d * n < 0 /\ -n \in Nat /\ -(d * n) = d * (-n)
    BY <1>2
  <2>2. (d * (-n)) \div (d * e) = (-n) \div e
    BY <2>1, CommonFactor
  <2>3. ~(d * n >= 0)
    BY <2>1
  <2>4. Truncated(d * n, d * e) = -((-(d * n)) \div (d * e))
    BY <2>3 DEF Truncated
  <2> QED BY <1>2, <2>1, <2>2, <2>4
<1> QED BY <1>1, <1>2

(* A larger multiple is larger by a grain at least.                        *)
LEMMA Multiples ==
    ASSUME NEW e \in Nat \ {0}, NEW p \in Int, NEW q \in Int
    PROVE  /\ p * e \in Int /\ q * e \in Int
           /\ p < q => p * e + e <= q * e
           /\ p <= q => p * e <= q * e
           /\ p >= 0 => p * e >= 0
<1>1. p < q => p * e + e <= q * e
  <2>1. ASSUME p < q PROVE p * e + e <= q * e
    <3>1. (p + 1) * e <= q * e
      BY <2>1
    <3>2. (p + 1) * e = p * e + e
      OBVIOUS
    <3> QED BY <3>1, <3>2
  <2> QED BY <2>1
<1> QED BY <1>1

-----------------------------------------------------------------------------
(* Rounding: of the multiples 0 to l - 1 of e the one that is half a grain *)
(* away, or at the end that the number lies beyond, is as close as any.    *)
Nearest(q, v, e, l) ==
    /\ q \in 0..(l - 1)
    /\ q > 0 => 2 * v >= 2 * (q * e) - e
    /\ q < l - 1 => 2 * v <= 2 * (q * e) + e

(* No other multiple is closer.                                            *)
LEMMA NearestIsClosest ==
    ASSUME NEW e \in Nat \ {0}, NEW v \in Int, NEW l \in Nat \ {0}, NEW q,
           Nearest(q, v, e, l), NEW p \in 0..(l - 1)
    PROVE  Magnitude(q * e - v) <= Magnitude(p * e - v)
<1>1. q \in Int /\ p \in Int
  BY DEF Nearest
<1> DEFINE x == q * e
           y == p * e
<1>2. /\ x \in Int /\ y \in Int
      /\ p < q => y + e <= x
      /\ q < p => x + e <= y
      /\ p = q => x = y
  BY <1>1, Multiples
<1>3. q > 0 => 2 * v >= 2 * x - e
  BY DEF Nearest
<1>4. q < l - 1 => 2 * v <= 2 * x + e
  BY DEF Nearest
<1> HIDE DEF x, y
<1>5. q \in 0..(l - 1)
  BY DEF Nearest
<1>6. Magnitude(x - v) <= Magnitude(y - v)
  <2>1. CASE p < q
    <3>1. 2 * v >= 2 * x - e /\ y + e <= x
      BY <1>2, <1>3, <2>1, <1>5
    <3> QED BY <1>2, <3>1 DEF Magnitude
  <2>2. CASE q < p
    <3>1. 2 * v <= 2 * x + e /\ x + e <= y
      BY <1>2, <1>4, <1>5, <2>2
    <3> QED BY <1>2, <3>1 DEF Magnitude
  <2>3. CASE p = q
    BY <1>2, <2>3 DEF Magnitude
  <2> QED BY <1>1, <2>1, <2>2, <2>3
<1> QED BY <1>6 DEF x, y

(* What the code rounds to.                                                *)
Rounded(v, e) == IF 2 * v + e >= 0 THEN (2 * v + e) \div (2 * e) ELSE -((-(2 * v + e)) \div (2 * e))

(* The clamped rounding of the code is such a nearest multiple.            *)
LEMMA RoundedIsNearest ==
    ASSUME NEW e \in Nat \ {0}, NEW v \in Int, NEW l \in Nat \ {0}
    PROVE  Nearest(Clamped(Rounded(v, e), 0, l - 1), v, e, l)
<1> DEFINE n == 2 * v + e
<1>1. n \in Int /\ 2 * e \in Nat \ {0}
  OBVIOUS
<1>2. CASE n >= 0
  <2> DEFINE d == 2 * e
             r == n \div d
             u == n % d
             x == r * e
  <2>1. n = (2 * e) * r + u /\ r \in Int /\ u \in 0..(2 * e - 1)
    <3>1. d \in Nat \ {0}
      OBVIOUS
    <3> HIDE DEF n, d
    <3>2. n = d * r + u /\ r \in Int /\ u \in 0..(d - 1)
      BY <1>1, <3>1, Division
    <3> HIDE DEF r, u
    <3> QED BY <3>2 DEF d
  <2>2. r >= 0
    <3> HIDE DEF n
    <3> QED BY <1>1, <1>2
  <2> HIDE DEF r, u
  <2>3. (2 * e) * r = 2 * x /\ x \in Int
    BY <2>1
  <2> HIDE DEF x
  <2>4. 2 * v + e = 2 * x + u
    BY <2>1, <2>3
  <2>5. Rounded(v, e) = r
    BY <1>2 DEF Rounded, r
  <2>6. CASE r <= l - 1
    <3>1. Clamped(r, 0, l - 1) = r
      BY <2>1, <2>2, <2>6 DEF Clamped
    <3>2. 2 * v >= 2 * x - e /\ 2 * v <= 2 * x + e
      BY <2>1, <2>3, <2>4
    <3> QED BY <2>1, <2>2, <2>5, <2>6, <3>1, <3>2 DEF Nearest, x
  <2>7. CASE r > l - 1
    <3> DEFINE y == (l - 1) * e
    <3>1. Clamped(r, 0, l - 1) = l - 1
      BY <2>1, <2>7 DEF Clamped
    <3>2. y + e <= x /\ y \in Int
      BY <2>1, <2>7, Multiples DEF x
    <3> HIDE DEF y
    <3>3. 2 * v >= 2 * y - e
      BY <2>1, <2>3, <2>4, <3>2
    <3> QED BY <2>5, <3>1, <3>3 DEF Nearest, y
  <2> QED BY <2>1, <2>6, <2>7
<1>3. CASE n < 0
  <2> DEFINE r == (-n) \div (2 * e)
  <2>1. -n \in Int /\ -n >= 0 /\ ~(n >= 0)
    BY <1>1, <1>3
  <2>2. r \in Int /\ r >= 0
    <3> HIDE DEF n
    <3> QED BY <1>1, <2>1
  <2>3. Rounded(v, e) = -r
    BY <2>1 DEF Rounded
  <2> HIDE DEF r
  <2>4. Clamped(-r, 0, l - 1) = 0
    BY <2>2 DEF Clamped
  <2>5. 0 * e = 0 /\ 2 * v <= e
    BY <1>3
  <2> QED BY <2>3, <2>4, <2>5 DEF Nearest
<1> QED BY <1>1, <1>2, <1>3

(* Truncation: no multiple of e lies between it and the number, unless it  *)
(* is the last that the type holds.                                        *)
Cut(v, e) == IF v >= 0 THEN v \div e ELSE -((-v) \div e)

Between(q, v, e, h) ==
    /\ q \in (-h)..(h - 1)
    /\ v >= 0 => q >= 0 /\ q * e <= v /\ (q < h - 1 => v < q * e + e)
    /\ v < 0 => q <= 0 /\ v <= q * e /\ (q > -h => q * e - e < v)

(* The clamped truncation of the code is such a multiple.                  *)
LEMMA CutIsBetween ==
    ASSUME NEW e \in Nat \ {0}, NEW v \in Int, NEW h \in Nat \ {0}
    PROVE  Between(Clamped(Cut(v, e), -h, h - 1), v, e, h)
<1>1. CASE v >= 0
  <2> DEFINE r == v \div e
             u == v % e
             x == r * e
  <2>1. v = e * r + u /\ r \in Int /\ u \in 0..(e - 1)
    BY Division
  <2>2. r >= 0 /\ Cut(v, e) = r
    BY <1>1 DEF Cut
  <2> HIDE DEF r, u
  <2>3. e * r = x /\ x \in Int
    BY <2>1
  <2> HIDE DEF x
  <2>4. CASE r <= h - 1
    <3>1. Clamped(r, -h, h - 1) = r
      BY <2>1, <2>2, <2>4 DEF Clamped
    <3>2. x <= v /\ v < x + e
      BY <2>1, <2>3
    <3> QED BY <1>1, <2>1, <2>2, <2>4, <3>1, <3>2 DEF Between, x
  <2>5. CASE r > h - 1
    <3> DEFINE y == (h - 1) * e
    <3>1. Clamped(r, -h, h - 1) = h - 1
      BY <2>1, <2>2, <2>5 DEF Clamped
    <3>2. y + e <= x /\ y \in Int
      BY <2>1, <2>5, Multiples DEF x
    <3> HIDE DEF y
    <3>3. y <= v
      BY <2>1, <2>3, <3>2
    <3> QED BY <1>1, <2>2, <3>1, <3>3 DEF Between, y
  <2> QED BY <2>1, <2>4, <2>5
<1>2. CASE v < 0
  <2> DEFINE r == (-v) \div e
             u == (-v) % e
             x == (-r) * e
  <2>1. -v = e * r + u /\ r \in Int /\ u \in 0..(e - 1)
    BY Division, -v \in Int
  <2>2. r >= 0 /\ Cut(v, e) = -r
    BY <1>2 DEF Cut
  <2> HIDE DEF r, u
  <2>3. e * r = -x /\ x \in Int
    BY <2>1
  <2> HIDE DEF x
  <2>4. v <= x /\ x - e < v
    BY <2>1, <2>3
  <2>5. CASE r <= h
    <3>1. Clamped(-r, -h, h - 1) = -r
      BY <2>1, <2>2, <2>5 DEF Clamped
    <3> QED BY <1>2, <2>1, <2>2, <2>4, <2>5, <3>1 DEF Between, x
  <2>6. CASE r > h
    <3> DEFINE y == (-h) * e
    <3>1. Clamped(-r, -h, h - 1) = -h
      BY <2>1, <2>6 DEF Clamped
    <3>2. x + e <= y /\ y \in Int
      BY <2>1, <2>6, Multiples DEF x
    <3> HIDE DEF y
    <3>3. v <= y
      BY <2>3, <2>4, <3>2
    <3> QED BY <1>2, <2>2, <3>1, <3>3 DEF Between, y
  <2> QED BY <2>1, <2>5, <2>6
<1> QED BY <1>1, <1>2

(* Signs of products.                                                      *)
LEMMA Signs ==
    ASSUME NEW x \in Int, NEW v \in Int
    PROVE  /\ x >= 0 /\ v >= 0 => x * v >= 0
           /\ x <= 0 /\ v <= 0 => x * v >= 0
           /\ x * v >= 0 /\ v > 0 => x >= 0
           /\ x * v >= 0 /\ v < 0 => x <= 0
OBVIOUS

(* It is the largest that does not exceed the number.                      *)
LEMMA BetweenIsRest ==
    ASSUME NEW e \in Nat \ {0}, NEW v \in Int, NEW h \in Nat \ {0}, NEW q,
           Between(q, v, e, h)
    PROVE  /\ Magnitude(q * e) <= Magnitude(v) /\ (q * e) * v >= 0
           /\ \A p \in (-h)..(h - 1) :
                 (p * e) * v >= 0 /\ Magnitude(p * e) <= Magnitude(v)
                    => Magnitude(p * e) <= Magnitude(q * e)
<1> DEFINE x == q * e
<1>1. q \in Int /\ x \in Int
  BY DEF Between
<1>2. CASE v >= 0
  <2>1. q >= 0 /\ x <= v /\ (q < h - 1 => v < x + e) /\ x >= 0
    BY <1>1, <1>2, Multiples DEF Between
  <2>2. ASSUME NEW p \in (-h)..(h - 1), (p * e) * v >= 0, Magnitude(p * e) <= Magnitude(v)
        PROVE  Magnitude(p * e) <= Magnitude(x)
    <3> DEFINE y == p * e
    <3>1. y \in Int /\ y * v >= 0 /\ Magnitude(y) <= Magnitude(v) /\ (q < p => x + e <= y)
          /\ (p <= q => y <= x)
      BY <1>1, <2>2, Multiples
    <3> HIDE DEF y, x
    <3>2. v > 0 => y >= 0
      BY <3>1, Signs
    <3>3. v > 0 => p <= q
      <4>1. v > 0 => y <= v
        BY <3>1, <3>2 DEF Magnitude
      <4> QED BY <1>1, <2>1, <3>1, <4>1
    <3>4. Magnitude(y) <= Magnitude(x)
      BY <1>1, <1>2, <2>1, <3>1, <3>2, <3>3 DEF Magnitude
    <3> QED BY <3>4 DEF y
  <2> HIDE DEF x
  <2>3. Magnitude(x) <= Magnitude(v) /\ x * v >= 0
    BY <1>1, <1>2, <2>1, Signs DEF Magnitude
  <2> QED BY <2>2, <2>3 DEF x
<1>3. CASE v < 0
  <2>1. q <= 0 /\ v <= x /\ (q > -h => x - e < v)
    BY <1>3 DEF Between
  <2>2. x <= 0
    <3>1. x <= 0 * e
      BY <1>1, <2>1, Multiples
    <3> QED BY <3>1
  <2>3. ASSUME NEW p \in (-h)..(h - 1), (p * e) * v >= 0, Magnitude(p * e) <= Magnitude(v)
        PROVE  Magnitude(p * e) <= Magnitude(x)
    <3> DEFINE y == p * e
    <3>1. y \in Int /\ y * v >= 0 /\ Magnitude(y) <= Magnitude(v) /\ (p < q => y + e <= x)
          /\ (q <= p => x <= y)
      BY <1>1, <2>3, Multiples
    <3> HIDE DEF y, x
    <3>2. y <= 0
      BY <3>1, <1>3, Signs
    <3>3. v <= y
      BY <3>1, <1>3, <3>2 DEF Magnitude
    <3>4. q <= p
      <4>1. CASE p < q
        BY <1>1, <2>1, <3>1, <3>3, <4>1
      <4> QED BY <1>1, <4>1
    <3>5. Magnitude(y) <= Magnitude(x)
      BY <1>1, <2>2, <3>1, <3>2, <3>4 DEF Magnitude
    <3> QED BY <3>5 DEF y
  <2> HIDE DEF x
  <2>4. Magnitude(x) <= Magnitude(v) /\ x * v >= 0
    BY <1>1, <1>3, <2>1, <2>2, Signs DEF Magnitude
  <2> QED BY <2>3, <2>4 DEF x
<1> QED BY <1>2, <1>3
-----------------------------------------------------------------------------
(* Quantization in these terms.                                            *)
LEMMA LimitFacts ==
    ASSUME NEW type
    PROVE  /\ TypeSize(type) \in Sizes /\ TypeSize(type) \in 1..4
           /\ Limit(type) = Values(TypeSize(type))
           /\ Limit(type) \in Nat /\ Limit(type) >= 2
           /\ Limit(type) \div 2 \in Nat \ {0}
           /\ 2 * (Limit(type) \div 2) <= Limit(type)
           /\ Unsigned(type) => ~IsSigned(type)
           /\ Unsigned(type) \/ IsSigned(type) => Limit(type) <= Half
           /\ IsFloat(type) <=> ~Unsigned(type) /\ ~IsSigned(type)
           /\ IsFloat(type) => TypeSize(type) = 4 /\ Limit(type) = Modulus
<1>1. /\ TypeSize(type) \in {1, 2, 4}
      /\ Unsigned(type) \/ IsSigned(type) => TypeSize(type) \in {1, 2}
      /\ ~Unsigned(type) /\ ~IsSigned(type) => TypeSize(type) = 4
  <2>1. type \in {4, 6} => TypeSize(type) = 1
    BY DEF TypeSize
  <2>2. type \in {5, 7} => TypeSize(type) = 2
    BY DEF TypeSize
  <2>3. type \notin {4, 5, 6, 7} => TypeSize(type) = 4
    BY DEF TypeSize
  <2> QED BY <2>1, <2>2, <2>3 DEF Unsigned, IsSigned
<1>2. Limit(type) = Values(TypeSize(type))
  BY DEF Limit
<1>3. Limit(type) \in {Radix, Half, Modulus}
  BY <1>1, <1>2, ValuesAre
<1>4. Radix >= 2 /\ Half >= 2 /\ Modulus >= 2
  BY WidthFacts
<1>5. Limit(type) \in Nat /\ Limit(type) >= 2
  BY <1>3, <1>4, WidthFacts
<1>6. \A l \in Nat : l >= 2 => l \div 2 \in Nat \ {0} /\ 2 * (l \div 2) <= l
  OBVIOUS
<1>7. Unsigned(type) => ~IsSigned(type)
  BY DEF Unsigned, IsSigned
<1>8. Unsigned(type) \/ IsSigned(type) => Limit(type) <= Half
  BY <1>1, <1>2, ValuesAre, WidthFacts
<1>9. ~Unsigned(type) /\ ~IsSigned(type) => Limit(type) = Modulus
  BY <1>1, <1>2, ValuesAre
<1> QED BY <1>1, <1>2, <1>5, <1>6, <1>7, <1>8, <1>9 DEF Sizes, IsFloat

(* What is converted to s32, in these terms.                               *)
LEMMA ScaledIs ==
    ASSUME NEW type, NEW scale \in Scales, NEW v \in Int
    PROVE  /\ Unsigned(type) => Scaled(v, type, scale) = Rounded(v, Grain(scale))
           /\ ~Unsigned(type) => Scaled(v, type, scale) = Cut(v, Grain(scale))
<1> DEFINE e == Grain(scale)
           d == scale
<1>1. d \in Nat \ {0} /\ e \in Nat \ {0} /\ Unit = d * e
  BY GrainFacts
<1> HIDE DEF e, d
<1>2. Truncated(2 * v * d + Unit, 2 * Unit) = Rounded(v, e)
  <2> DEFINE n == 2 * v + e
             f == 2 * e
  <2>1. n \in Int /\ f \in Nat \ {0}
    BY <1>1
  <2>2. 2 * v * d + Unit = d * n /\ 2 * Unit = d * f
    BY <1>1
  <2>3. Rounded(v, e) = IF n >= 0 THEN n \div f ELSE -((-n) \div f)
    BY DEF Rounded
  <2> HIDE DEF n, f
  <2>4. /\ n >= 0 => Truncated(d * n, d * f) = n \div f
        /\ n < 0 => Truncated(d * n, d * f) = -((-n) \div f)
    BY <1>1, <2>1, TruncatedIs
  <2>5. n >= 0 \/ (n < 0 /\ ~(n >= 0))
    BY <2>1
  <2> QED BY <2>2, <2>3, <2>4, <2>5
<1>3. Truncated(v * d, Unit) = Cut(v, e)
  <2>1. v * d = d * v
    BY <1>1
  <2>2. /\ v >= 0 => Truncated(d * v, d * e) = v \div e
        /\ v < 0 => Truncated(d * v, d * e) = -((-v) \div e)
    BY <1>1, TruncatedIs
  <2>3. v >= 0 \/ (v < 0 /\ ~(v >= 0))
    OBVIOUS
  <2>4. Truncated(d * v, d * e) = Cut(v, e)
    BY <2>2, <2>3 DEF Cut
  <2> QED BY <1>1, <2>1, <2>4
<1> QED BY <1>2, <1>3 DEF Scaled, e, d

(* A set of natural numbers has a least one.                               *)
LEMMA LeastOf ==
    ASSUME NEW S, S \subseteq Nat, S # {}
    PROVE  \E d \in S : \A x \in S : d <= x
<1> DEFINE R == OpToRel(<, Nat)
<1>1. IsWellFoundedOn(R, Nat)
  BY NatLessThanWellFounded, Zenon
<1>2. \A m, n \in Nat : m < n => <<m, n>> \in R
  BY Zenon DEF OpToRel
<1> HIDE DEF R
<1>3. PICK d \in S : \A x \in S : ~(<<x, d>> \in R)
  BY <1>1, WFMin, Zenon
<1>4. \A x \in S : ~(x < d)
  BY <1>2, <1>3
<1> QED BY <1>3, <1>4

(* What a number is narrowed to is a nearest single.                       *)
LEMMA NarrowedIsNearest ==
    ASSUME NEW v \in Int, NEW w \in Narrowed(v)
    PROVE  /\ w \in Word
           /\ \A bits \in Word : Magnitude(Float[w] - v) <= Magnitude(Float[bits] - v)
<1> DEFINE gap(bits) == Magnitude(Float[bits] - v)
           S == {gap(bits) : bits \in Word}
           least == CHOOSE d \in S : \A bits \in Word : d <= gap(bits)
<1>1. \A bits \in Word : gap(bits) \in Nat
  <2>1. \A bits \in Word : Float[bits] \in Int
    BY PairsAssumption
  <2> QED BY <2>1 DEF Magnitude
<1>2. w \in Word /\ gap(w) = least
  BY DEF Narrowed
<1>3. \E d \in S : \A x \in S : d <= x
  <2>1. S \subseteq Nat /\ S # {}
    <3> HIDE DEF gap
    <3> QED BY <1>1, <1>2
  <2> HIDE DEF S
  <2> QED BY <2>1, LeastOf
<1> HIDE DEF gap
<1>4. \E d \in S : \A bits \in Word : d <= gap(bits)
  BY <1>3
<1>5. \A bits \in Word : least <= gap(bits)
  BY <1>4
<1> QED BY <1>2, <1>5 DEF gap

(* What an integer type can hold.                                          *)
InType(type) ==
    CASE Unsigned(type) -> 0..(Limit(type) - 1)
      [] OTHER          -> (-(Limit(type) \div 2))..((Limit(type) \div 2) - 1)

(* Bits of a type's width, extended by its sign.                           *)
Extended(bits, type) ==
    IF Unsigned(type) \/ 2 * bits < Limit(type) THEN bits ELSE bits - Limit(type)

(* Cut to its width and extended again, a number that the type can hold is *)
(* itself.                                                                 *)
LEMMA ExtendedIsSame ==
    ASSUME NEW type, NEW q \in InType(type)
    PROVE  /\ q % Limit(type) \in 0..(Limit(type) - 1)
           /\ Extended(q % Limit(type), type) = q
           /\ q \in Int
<1> DEFINE l == Limit(type)
           h == l \div 2
<1>1. l \in Nat \ {0} /\ h \in Nat /\ 2 * h <= l
  BY LimitFacts
<1>2. Unsigned(type) => q \in 0..(l - 1)
  BY DEF InType
<1>3. ~Unsigned(type) => q \in (-h)..(h - 1)
  BY DEF InType
<1> HIDE DEF l, h
<1>4. q \in Int
  BY <1>1, <1>2, <1>3
<1>5. CASE q >= 0
  <2>1. q \in 0..(l - 1)
    BY <1>1, <1>2, <1>3, <1>5
  <2>2. q % l = q
    BY <1>1, <2>1
  <2>3. Unsigned(type) \/ 2 * q < l
    BY <1>1, <1>3, <1>4, <1>5
  <2>4. Extended(q, type) = q
    BY <2>3 DEF Extended, l
  <2> QED BY <1>4, <2>1, <2>2, <2>4 DEF l
<1>6. CASE q < 0
  <2>1. ~Unsigned(type) /\ q >= -h
    BY <1>1, <1>2, <1>3, <1>6
  <2>2. q + l \in 0..(l - 1) /\ 2 * (q + l) >= l
    BY <1>1, <1>4, <1>6, <2>1
  <2>3. q % l = q + l
    <3>1. (l * (-1) + (q + l)) % l = q + l
      BY <1>1, <2>2, Remainder
    <3>2. l * (-1) + (q + l) = q
      BY <1>1, <1>4
    <3> QED BY <3>1, <3>2
  <2>4. ~(2 * (q + l) < l)
    BY <1>1, <1>4, <2>2
  <2>5. Extended(q + l, type) = (q + l) - l
    BY <2>1, <2>4 DEF Extended, l
  <2>6. (q + l) - l = q
    BY <1>1, <1>4
  <2> QED BY <1>4, <2>2, <2>3, <2>5, <2>6 DEF l
<1> QED BY <1>4, <1>5, <1>6

(* What is stored: for the integers a number of the type, and unless s32   *)
(* overflows the clamped rounding.                                         *)
LEMMA QuantizedIs ==
    ASSUME NEW type, NEW scale \in Scales, NEW v \in Int, NEW q \in Quantized(v, type, scale)
    PROVE  /\ ~IsFloat(type) => q \in InType(type)
           /\ Unsigned(type) /\ FitsS32(Scaled(v, type, scale))
                => q = Clamped(Rounded(v, Grain(scale)), 0, Limit(type) - 1)
           /\ IsSigned(type) /\ FitsS32(Scaled(v, type, scale))
                => q = Clamped(Cut(v, Grain(scale)), -(Limit(type) \div 2), Limit(type) \div 2 - 1)
           /\ IsFloat(type) =>
                /\ q \in Word
                /\ \A bits \in Word : Magnitude(Float[q] - v) <= Magnitude(Float[bits] - v)
<1>1. CASE IsFloat(type)
  <2>1. q \in Narrowed(v) /\ ~Unsigned(type) /\ ~IsSigned(type)
    BY <1>1 DEF Quantized, IsFloat
  <2> QED BY <1>1, <2>1, NarrowedIsNearest
<1>2. CASE ~IsFloat(type)
  <2>1. q \in Converted(v, type, scale)
    BY <1>2 DEF Quantized
  <2>2. Multipliers(scale) = {scale}
    BY PairsAssumption DEF Multipliers, Undefined
  <2>3. /\ q \in Least(type)..Greatest(type)
        /\ FitsS32(Scaled(v, type, scale))
             => q = Clamped(Scaled(v, type, scale), Least(type), Greatest(type))
    BY <2>1, <2>2 DEF Converted
  <2>4. CASE Unsigned(type)
    <3>1. ~IsSigned(type) /\ Least(type) = 0 /\ Greatest(type) = Limit(type) - 1
      BY <2>4, LimitFacts DEF Least, Greatest
    <3>2. Scaled(v, type, scale) = Rounded(v, Grain(scale))
      BY <2>4, ScaledIs
    <3> QED BY <1>2, <2>3, <2>4, <3>1, <3>2 DEF InType
  <2>5. CASE ~Unsigned(type)
    <3>1. Least(type) = -(Limit(type) \div 2) /\ Greatest(type) = Limit(type) \div 2 - 1
      BY <2>5 DEF Least, Greatest
    <3>2. Scaled(v, type, scale) = Cut(v, Grain(scale))
      BY <2>5, ScaledIs
    <3> QED BY <1>2, <2>3, <2>5, <3>1, <3>2 DEF InType
  <2> QED BY <2>4, <2>5
<1> QED BY <1>1, <1>2

(* Whatever it is, it is an integer.                                       *)
LEMMA QuantizedInt ==
    ASSUME NEW type, NEW scale, NEW v, NEW q \in Quantized(v, type, scale)
    PROVE  q \in Int
<1>1. CASE IsFloat(type)
  BY <1>1, WidthFacts DEF Quantized, Narrowed, Word
<1>2. CASE ~IsFloat(type)
  <2>1. q \in Least(type)..Greatest(type)
    BY <1>2 DEF Quantized, Converted
  <2>2. Limit(type) \in Nat /\ Limit(type) \div 2 \in Nat
    BY LimitFacts
  <2>3. Least(type) \in Int /\ Greatest(type) \in Int
    BY <2>2 DEF Least, Greatest
  <2> QED BY <2>1, <2>3
<1> QED BY <1>1, <1>2

(* What a lane may load as.                                                *)
Loadable(bits, type, scale) ==
    IF IsFloat(type) THEN {Float[bits]}
    ELSE {(Extended(bits, type) * Unit) \div multiplier : multiplier \in Multipliers(scale)}

(* A dequantized lane is its bits, extended and scaled, or a float.        *)
LEMMA DequantizedIs ==
    ASSUME NEW m, NEW a, NEW type, NEW scale
    PROVE  Dequantized(m, a, type, scale) = Loadable(Read(m, a, TypeSize(type)), type, scale)
BY DEF Dequantized, Loadable, Extended

(* At a scale that is defined there is one number.                         *)
LEMMA LoadableIs ==
    ASSUME NEW bits, NEW type, NEW scale \in Scales
    PROVE  Loadable(bits, type, scale)
             = {IF IsFloat(type) THEN Float[bits] ELSE (Extended(bits, type) * Unit) \div scale}
<1>1. Multipliers(scale) = {scale}
  BY PairsAssumption DEF Multipliers, Undefined
<1> QED BY <1>1 DEF Loadable

(* Loaded, what was quantized is the rest of the number that was stored.   *)
LEMMA RestIsLoaded ==
    ASSUME NEW type, NEW scale \in Scales, NEW v \in Int, NEW q \in Quantized(v, type, scale),
           NEW r \in Loadable(q % Limit(type), type, scale)
    PROVE  IsRest(r, v, type, scale)
<1> DEFINE e == Grain(scale)
           l == Limit(type)
           h == l \div 2
           fits == FitsS32(Scaled(v, type, scale))
<1>1. CASE IsFloat(type)
  <2>1. /\ q \in Word /\ l = Modulus /\ ~Unsigned(type) /\ ~IsSigned(type)
        /\ \A bits \in Word : Magnitude(Float[q] - v) <= Magnitude(Float[bits] - v)
    BY <1>1, QuantizedIs, LimitFacts
  <2>2. q % l = q
    BY <2>1, WidthFacts DEF Word
  <2>3. r = Float[q]
    BY <1>1, <2>2, LoadableIs
  <2> QED BY <1>1, <2>1, <2>3 DEF IsRest
<1>2. CASE ~IsFloat(type)
  <2>1. /\ q \in InType(type)
        /\ q \in Int /\ Extended(q % l, type) = q
    BY <1>2, QuantizedIs, ExtendedIsSame
  <2>2. e \in Nat \ {0} /\ \A p \in Int : (p * Unit) \div scale = p * e
    BY GrainFacts
  <2>3. r = q * e
    BY <1>2, <2>1, <2>2, LoadableIs
  <2>4. CASE Unsigned(type)
    <3>1. ~IsSigned(type) /\ l \in Nat \ {0} /\ q \in 0..(l - 1)
      BY <2>1, <2>4, LimitFacts DEF InType
    <3>2. Numbers(type, scale) = {(p * Unit) \div scale : p \in 0..(l - 1)}
      BY <3>1 DEF Numbers
    <3>3. fits => q = Clamped(Rounded(v, e), 0, l - 1)
      BY <2>4, QuantizedIs
    <3> HIDE DEF e, l, fits
    <3>4. r \in Numbers(type, scale)
      <4>1. (q * Unit) \div scale = q * e
        BY <2>1, <2>2
      <4> QED BY <2>3, <3>1, <3>2, <4>1
    <3>5. ASSUME fits, NEW x \in Numbers(type, scale)
          PROVE  Magnitude(r - v) <= Magnitude(x - v)
      <4>1. PICK p \in 0..(l - 1) : x = (p * Unit) \div scale
        BY <3>2, <3>5
      <4>2. x = p * e
        BY <2>2, <4>1
      <4>3. Nearest(q, v, e, l)
        BY <2>2, <3>1, <3>3, <3>5, RoundedIsNearest
      <4>4. Magnitude(q * e - v) <= Magnitude(p * e - v)
        BY <2>2, <3>1, <4>3, NearestIsClosest
      <4> QED BY <2>3, <4>2, <4>4
    <3> QED BY <1>2, <3>1, <3>4, <3>5 DEF IsRest, fits
  <2>5. CASE ~Unsigned(type)
    <3>1. IsSigned(type) /\ h \in Nat \ {0} /\ q \in (-h)..(h - 1)
      BY <1>2, <2>1, <2>5, LimitFacts DEF InType
    <3>2. Numbers(type, scale) = {(p * Unit) \div scale : p \in (-h)..(h - 1)}
      BY <3>1 DEF Numbers
    <3>3. fits => q = Clamped(Cut(v, e), -h, h - 1)
      BY <3>1, QuantizedIs
    <3> HIDE DEF e, l, h, fits
    <3>4. r \in Numbers(type, scale)
      <4>1. (q * Unit) \div scale = q * e
        BY <2>1, <2>2
      <4> QED BY <2>3, <3>1, <3>2, <4>1
    <3>5. fits => Between(q, v, e, h)
      BY <2>2, <3>1, <3>3, CutIsBetween
    <3>6. ASSUME fits, NEW x \in Numbers(type, scale), x * v >= 0, Magnitude(x) <= Magnitude(v)
          PROVE  Magnitude(x) <= Magnitude(r)
      <4>1. PICK p \in (-h)..(h - 1) : x = (p * Unit) \div scale
        BY <3>2, <3>6
      <4>2. x = p * e
        BY <2>2, <3>1, <4>1
      <4> QED BY <2>2, <2>3, <3>1, <3>5, <3>6, <4>2, BetweenIsRest
    <3>7. fits => Magnitude(r) <= Magnitude(v) /\ r * v >= 0
      BY <2>2, <2>3, <3>1, <3>5, BetweenIsRest
    <3> QED BY <1>2, <2>5, <3>1, <3>4, <3>6, <3>7 DEF IsRest, fits
  <2> QED BY <2>4, <2>5
<1> QED BY <1>1, <1>2

(* A loaded lane is a number.                                              *)
LEMMA LoadableIsInt ==
    ASSUME NEW type, NEW scale \in Scales \cup {Undefined}, NEW bits \in 0..(Limit(type) - 1)
    PROVE  Loadable(bits, type, scale) \subseteq Int
<1>1. CASE IsFloat(type)
  <2>1. bits \in Word
    BY <1>1, LimitFacts DEF Word
  <2>2. Float[bits] \in Int
    BY <2>1, PairsAssumption
  <2> QED BY <1>1, <2>2 DEF Loadable
<1>2. CASE ~IsFloat(type)
  <2>1. Multipliers(scale) \subseteq Scales
    BY DEF Multipliers
  <2>2. \A m \in Multipliers(scale) : m \in Nat \ {0}
    BY <2>1, PairsAssumption
  <2>3. Extended(bits, type) \in Int
    BY LimitFacts DEF Extended
  <2>4. Extended(bits, type) * Unit \in Int
    BY <2>3, PairsAssumption
  <2>5. \A x \in Int, m \in Nat \ {0} : x \div m \in Int
    OBVIOUS
  <2> QED BY <1>2, <2>2, <2>4, <2>5 DEF Loadable
<1> QED BY <1>1, <1>2
-----------------------------------------------------------------------------
(* Sums of aligned addresses are aligned, also where they wrap.            *)
LEMMA SumAligned ==
    ASSUME NEW a \in Word, NEW n \in Sizes, NEW j \in Nat, Aligned(a, n), j % n = 0
    PROVE  Add(a, j) \in Word /\ Aligned(Add(a, j), n)
<1> DEFINE x == (a + j) % Modulus
           q == (a + j) \div Modulus
           k == Modulus \div 8
           i == k * q
<1>1. Modulus = 8 * k /\ k \in Int /\ a \in Nat /\ Modulus \in Nat \ {0}
  BY RamFacts, WidthFacts DEF Word
<1>2. a + j = Modulus * q + x /\ q \in Int /\ x \in 0..(Modulus - 1)
  <2>1. a + j \in Int
    BY <1>1
  <2> QED BY <1>1, <2>1, Division
<1> HIDE DEF x, q, k
<1>3. a + j = 8 * i + x /\ i \in Int
  BY <1>1, <1>2
<1> HIDE DEF i
<1>4. Add(a, j) = x
  BY DEF Add, x
<1>5. a % n = 0 /\ n \in {1, 2, 4}
  BY DEF Aligned, Sizes
<1>6. x % n = 0
  <2>1. CASE n = 1
    BY <1>1, <1>2, <2>1
  <2>2. CASE n = 2
    BY <1>1, <1>2, <1>3, <1>5, <2>2
  <2>3. CASE n = 4
    BY <1>1, <1>2, <1>3, <1>5, <2>3
  <2> QED BY <1>5, <2>1, <2>2, <2>3
<1> QED BY <1>2, <1>4, <1>6 DEF Word, Aligned

(* A property of 0 that is handed on holds up to n.                        *)
LEMMA UpTo ==
    ASSUME NEW n \in Nat, NEW S, 0 \in S,
           \A k \in 1..n : k - 1 \in S => k \in S
    PROVE  \A k \in 0..n : k \in S
<1> DEFINE T == {k \in 0..n : k \notin S}
<1>1. SUFFICES ASSUME T # {} PROVE FALSE
  OBVIOUS
<1>2. T \in SUBSET Nat
  OBVIOUS
<1>3. PICK k \in T : \A j \in T : k <= j
  <2> HIDE DEF T
  <2> QED BY <1>1, <1>2, LeastIndex
<1>4. k # 0 /\ k \in 1..n
  OBVIOUS
<1>5. k - 1 \in 0..n /\ k - 1 \notin T
  BY <1>3, <1>4
<1> QED BY <1>4, <1>5

(* stmw: the array after each number of words.                             *)
NextWord(m, a, r, k) == Written(m, Add(a, 4 * (k - 1)), 4, gpr[r + k - 1])

Stores(f, m, a, r, n) ==
    f = [k \in 0..n |-> IF k = 0 THEN m ELSE NextWord(f[k - 1], a, r, k)]

(* There is such a function: the next word is put on the end of it.        *)
LEMMA StoresExist ==
    ASSUME NEW m, NEW a, NEW r, NEW n \in Nat
    PROVE  \E f : Stores(f, m, a, r, n)
<1> DEFINE S == {j \in Nat : \E f : Stores(f, m, a, r, j)}
<1>1. 0 \in S
  <2> DEFINE f == [k \in 0..0 |-> m]
  <2>1. f = [k \in 0..0 |-> IF k = 0 THEN m ELSE NextWord(f[k - 1], a, r, k)]
    <3> DEFINE g == f
    <3>1. \A k \in 0..0 : m = IF k = 0 THEN m ELSE NextWord(g[k - 1], a, r, k)
      OBVIOUS
    <3> HIDE DEF g
    <3>2. f = [k \in 0..0 |-> IF k = 0 THEN m ELSE NextWord(g[k - 1], a, r, k)]
      BY <3>1
    <3> QED BY <3>2 DEF g
  <2> HIDE DEF f
  <2> QED BY <2>1 DEF Stores
<1>2. ASSUME NEW j \in 1..n, j - 1 \in S
      PROVE  j \in S
  <2>1. PICK g : Stores(g, m, a, r, j - 1)
    BY <1>2
  <2> DEFINE f == [k \in 0..j |-> IF k = j THEN NextWord(g[j - 1], a, r, j) ELSE g[k]]
  <2>2. \A k \in 0..(j - 1) : g[k] = IF k = 0 THEN m ELSE NextWord(g[k - 1], a, r, k)
    BY <2>1 DEF Stores
  <2>3. \A k \in 0..j : f[k] = IF k = 0 THEN m ELSE NextWord(f[k - 1], a, r, k)
    <3> TAKE k \in 0..j
    <3>1. CASE k = j
      <4>1. f[k] = NextWord(g[j - 1], a, r, j)
        BY <3>1
      <4>2. f[j - 1] = g[j - 1]
        OBVIOUS
      <4> HIDE DEF f
      <4> QED BY <3>1, <4>1, <4>2
    <3>2. CASE k # j
      <4>1. k \in 0..(j - 1) /\ f[k] = g[k]
        BY <3>2
      <4>2. k # 0 => f[k - 1] = g[k - 1]
        BY <3>2
      <4> HIDE DEF f
      <4> QED BY <2>2, <4>1, <4>2
    <3> QED BY <3>1, <3>2
  <2>4. f = [k \in 0..j |-> IF k = 0 THEN m ELSE NextWord(f[k - 1], a, r, k)]
    <3> DEFINE h == f
    <3>1. f = [k \in 0..j |-> f[k]]
      OBVIOUS
    <3>2. \A k \in 0..j : f[k] = IF k = 0 THEN m ELSE NextWord(h[k - 1], a, r, k)
      BY <2>3
    <3> HIDE DEF h, f
    <3>3. f = [k \in 0..j |-> IF k = 0 THEN m ELSE NextWord(h[k - 1], a, r, k)]
      BY <3>1, <3>2
    <3> QED BY <3>3 DEF h
  <2> HIDE DEF f
  <2> QED BY <2>4 DEF Stores
<1>3. n \in S
  <2> HIDE DEF S
  <2> QED BY <1>1, <1>2, UpTo
<1> QED BY <1>3

(* So stmw is its last value.                                              *)
LEMMA StoredWords ==
    ASSUME NEW m, NEW a, NEW r \in Regs
    PROVE  \E f : /\ f[0] = m /\ WrittenFrom(m, a, r) = f[LastReg + 1 - r]
                  /\ \A k \in 1..(LastReg + 1 - r) : f[k] = NextWord(f[k - 1], a, r, k)
<1> DEFINE n == LastReg + 1 - r
           f == CHOOSE g : Stores(g, m, a, r, n)
<1>1. n \in Nat
  BY MemoryAssumption DEF Regs
<1>2. WrittenFrom(m, a, r) = f[n]
  BY DEF WrittenFrom, Stores, NextWord
<1> HIDE DEF n
<1>3. Stores(f, m, a, r, n)
  BY <1>1, StoresExist
<1> HIDE DEF f
<1>4. \A k \in 0..n : f[k] = IF k = 0 THEN m ELSE NextWord(f[k - 1], a, r, k)
  BY <1>3 DEF Stores
<1>5. f[0] = m /\ \A k \in 1..n : f[k] = NextWord(f[k - 1], a, r, k)
  BY <1>1, <1>4
<1> QED BY <1>2, <1>5 DEF n

(* What stmw writes is memory.                                             *)
LEMMA WrittenFromTyped ==
    ASSUME NEW m \in Ram, NEW a \in Word, NEW r \in Regs, gpr \in [Regs -> Word]
    PROVE  WrittenFrom(m, a, r) \in Ram
<1> DEFINE n == LastReg + 1 - r
<1>1. n \in Nat /\ r \in Nat /\ LastReg \in Nat
  BY MemoryAssumption DEF Regs
<1>2. PICK f : /\ f[0] = m /\ WrittenFrom(m, a, r) = f[n]
               /\ \A k \in 1..n : f[k] = NextWord(f[k - 1], a, r, k)
  BY StoredWords
<1> DEFINE S == {k \in 0..n : f[k] \in Ram}
<1>3. 0 \in S
  BY <1>1, <1>2
<1>4. ASSUME NEW k \in 1..n, k - 1 \in S PROVE k \in S
  <2>1. r + k - 1 \in Regs
    BY <1>1 DEF Regs
  <2>2. gpr[r + k - 1] \in Int
    BY <2>1, WidthFacts DEF Word
  <2>3. Add(a, 4 * (k - 1)) \in Word
    <3>1. a + 4 * (k - 1) \in Int
      BY WidthFacts DEF Word
    <3> QED BY <3>1, WidthFacts DEF Add, Word
  <2>4. f[k - 1] \in Ram /\ 4 \in Sizes
    BY <1>4 DEF Sizes
  <2>5. NextWord(f[k - 1], a, r, k) \in Ram
    BY <2>2, <2>3, <2>4, WrittenIs DEF NextWord
  <2> QED BY <1>2, <2>5
<1>5. \A k \in 0..n : k \in S
  <2> HIDE DEF S, n
  <2> QED BY <1>1, <1>3, <1>4, UpTo
<1> QED BY <1>1, <1>2, <1>5

-----------------------------------------------------------------------------
(* Memory and registers keep their types.                                  *)
RamTyped == ram \in Ram /\ gpr \in [Regs -> Word] /\ fpr \in Word \X Word

AskedTyped == asked = <<>> \/ asked[2] \in Addresses

LEMMA MemoryTyped == MemoryTypeOK <=> RamTyped /\ AskedTyped
BY DEF MemoryTypeOK, Ram, Byte, RamTyped, AskedTyped

(* They have them at first.                                                *)
LEMMA MemoryTypeInit == MemoryInit => MemoryTypeOK
<1> SUFFICES ASSUME MemoryInit PROVE MemoryTypeOK
  OBVIOUS
<1>1. gpr \in [Regs -> Word] /\ 0 \in Regs /\ LastReg \in Regs /\ fpr = <<gpr[0], gpr[LastReg]>>
  BY MemoryAssumption DEF MemoryInit, Regs
<1>2. 0 \in Byte
  BY WidthFacts DEF Byte
<1>3. ram \in Ram
  BY <1>2 DEF MemoryInit, Ram
<1>4. AskedTyped
  BY DEF MemoryInit, AskedTyped
<1> QED BY <1>1, <1>3, <1>4, MemoryTyped DEF RamTyped

(* Every access keeps them.                                                *)
LEMMA MemoryTypeStep ==
    ASSUME MemoryTypeOK, MemoryNext
    PROVE  MemoryTypeOK'
<1>1. /\ ram \in Ram /\ gpr \in [Regs -> Word] /\ fpr \in Word \X Word
      /\ \A r \in Regs : gpr[r] \in Word /\ gpr[r] \in Int
      /\ fpr[1] \in Word /\ fpr[2] \in Word /\ fpr[1] \in Int /\ fpr[2] \in Int
  BY MemoryTyped, WidthFacts DEF Word, RamTyped
<1>2. \A a \in Addresses : a \in Word
  BY MemoryAssumption
<1>3. SUFFICES RamTyped'
  <2>1. AskedTyped'
    BY DEF MemoryNext, Load, Store, LoadHalfAlgebraic, LMW, STMW, LoadDouble, StoreDouble,
           STFIWX, DCBZ, AskedTyped
  <2> QED BY <2>1 DEF MemoryTypeOK, Ram, Byte, RamTyped, AskedTyped
<1>4. PICK a \in Addresses :
        \/ \E r \in Regs :
              \/ \E n \in {1, 2, 4} : Load(a, n, r) \/ Store(a, n, r)
              \/ LoadHalfAlgebraic(a, r) \/ LMW(a, r) \/ STMW(a, r)
        \/ LoadDouble(a) \/ StoreDouble(a) \/ STFIWX(a) \/ DCBZ(a)
  BY DEF MemoryNext
<1>5. a \in Word
  BY <1>2
<1>6. \A b \in Word : \A n \in Sizes : Aligned(b, n) => Read(ram, b, n) \in Word
  BY <1>1, ReadTyped
<1>7. Aligned(a, 4) => Add(a, 4) \in Word /\ Aligned(Add(a, 4), 4)
  BY <1>5, SumAligned DEF Sizes
<1>8. ASSUME NEW r \in Regs, NEW n \in Sizes, Load(a, n, r) PROVE RamTyped'
  <2>1. Read(ram, a, n) \in Word
    BY <1>5, <1>6, <1>8 DEF Load
  <2> QED BY <1>1, <1>8, <2>1 DEF Load, RamTyped
<1>9. ASSUME NEW r \in Regs, NEW n \in Sizes, Store(a, n, r) PROVE RamTyped'
  BY <1>1, <1>5, <1>9, WrittenIs DEF Store, RamTyped
<1>10. ASSUME NEW r \in Regs, LoadHalfAlgebraic(a, r) PROVE RamTyped'
  <2> DEFINE v == Read(ram, a, 2)
  <2>1. v \in Word
    BY <1>5, <1>6, <1>10 DEF LoadHalfAlgebraic, Sizes
  <2>2. Add(v, -Half) \in Word
    <3>1. v + (-Half) \in Int
      BY <2>1, WidthFacts DEF Word
    <3> QED BY <3>1, WidthFacts DEF Add, Word
  <2>3. gpr' = [gpr EXCEPT ![r] = IF 2 * v >= Half THEN Add(v, -Half) ELSE v]
        /\ UNCHANGED <<ram, fpr>>
    BY <1>10 DEF LoadHalfAlgebraic
  <2> QED BY <1>1, <2>1, <2>2, <2>3 DEF RamTyped
<1>11. ASSUME NEW r \in Regs, LMW(a, r) PROVE RamTyped'
  <2>1. ASSUME NEW q \in Regs, q >= r PROVE Read(ram, Add(a, 4 * (q - r)), 4) \in Word
    <3>1. 4 * (q - r) \in Nat /\ (4 * (q - r)) % 4 = 0
      BY <2>1 DEF Regs
    <3>2. Aligned(a, 4)
      BY <1>11 DEF LMW
    <3> QED BY <1>5, <1>6, <3>1, <3>2, SumAligned DEF Sizes
  <2>2. gpr' = [q \in Regs |-> IF q >= r THEN Read(ram, Add(a, 4 * (q - r)), 4) ELSE gpr[q]]
        /\ UNCHANGED <<ram, fpr>>
    BY <1>11 DEF LMW
  <2> QED BY <1>1, <2>1, <2>2 DEF RamTyped
<1>12. ASSUME NEW r \in Regs, STMW(a, r) PROVE RamTyped'
  BY <1>1, <1>5, <1>12, WrittenFromTyped DEF STMW, RamTyped
<1>13. ASSUME LoadDouble(a) PROVE RamTyped'
  <2>1. Read(ram, a, 4) \in Word /\ Read(ram, Add(a, 4), 4) \in Word
    BY <1>5, <1>6, <1>7, <1>13 DEF LoadDouble, Sizes
  <2> QED BY <1>1, <1>13, <2>1 DEF LoadDouble, RamTyped
<1>14. ASSUME StoreDouble(a) PROVE RamTyped'
  <2>1. Add(a, 4) \in Word /\ 4 \in Sizes
    BY <1>7, <1>14 DEF StoreDouble, Sizes
  <2>2. Written(ram, a, 4, fpr[1]) \in Ram
    BY <1>1, <1>5, <2>1, WrittenIs
  <2>3. Written(Written(ram, a, 4, fpr[1]), Add(a, 4), 4, fpr[2]) \in Ram
    BY <1>1, <2>1, <2>2, WrittenIs
  <2> QED BY <1>1, <1>14, <2>3 DEF StoreDouble, RamTyped
<1>15. ASSUME STFIWX(a) PROVE RamTyped'
  <2>1. Written(ram, a, 4, fpr[2]) \in Ram
    BY <1>1, <1>5, WrittenIs DEF Sizes
  <2> QED BY <1>1, <1>15, <2>1 DEF STFIWX, RamTyped
<1>16. ASSUME DCBZ(a) PROVE RamTyped'
  <2> DEFINE t == Translate(a - (a % Line))
  <2>1. ram' = (IF t = Nowhere THEN ram
                ELSE [p \in DOMAIN ram |-> IF p \in t..(t + Line - 1) THEN 0 ELSE ram[p]])
        /\ UNCHANGED <<gpr, fpr>>
    BY <1>16 DEF DCBZ
  <2>2. 0 \in Byte /\ DOMAIN ram = 0..(RamSize - 1) /\ \A p \in DOMAIN ram : ram[p] \in Byte
    BY <1>1, WidthFacts DEF Byte, Ram
  <2> HIDE DEF t
  <2>3. ram' \in Ram
    BY <1>1, <2>1, <2>2 DEF Ram
  <2> QED BY <1>1, <2>1, <2>3 DEF RamTyped
<1> QED BY <1>4, <1>8, <1>9, <1>10, <1>11, <1>12, <1>13, <1>14, <1>15, <1>16 DEF Sizes
-----------------------------------------------------------------------------
(* The second element of a pair lies behind the first, or at the start of  *)
(* memory when the first is its end.                                       *)
LEMMA SecondPlace ==
    ASSUME NEW a \in Word, NEW n \in Sizes, Aligned(a, n)
    PROVE  \/ (Add(a, n) % RamSize) = (a % RamSize) + n
           \/ (Add(a, n) % RamSize) = 0 /\ (a % RamSize) + n = RamSize
<1> DEFINE t == (a % RamSize)
           q == a \div RamSize
           c == Modulus \div RamSize
           b == (a + n) % Modulus
           p == (a + n) \div Modulus
<1>1. RamSize \in Nat \ {0} /\ a \in Nat /\ Modulus \in Nat \ {0} /\ n \in 1..4
  BY RamFacts, WidthFacts DEF Word, Sizes
<1>2. a = RamSize * q + t /\ q \in Int
  BY <1>1, Division
<1>3. Modulus = RamSize * c /\ c \in Int
  <2>1. Modulus = RamSize * c + (Modulus % RamSize) /\ c \in Int
    BY <1>1, Division
  <2>2. Modulus % RamSize = 0
    BY RamFacts
  <2> HIDE DEF c
  <2>3. RamSize * c \in Int
    BY <1>1, <2>1
  <2> QED BY <2>1, <2>2, <2>3
<1>4. a + n = Modulus * p + b /\ p \in Int /\ b \in Int
  <2>1. a + n \in Int
    BY <1>1
  <2> QED BY <1>1, <2>1, Division
<1>5. t \in Nat /\ t + n <= RamSize
  BY AlignedFits
<1> HIDE DEF t, q, c, b, p
<1> DEFINE j == q - c * p
<1>6. b = RamSize * j + (t + n) /\ j \in Int
  <2>1. RamSize * j = RamSize * q - (RamSize * c) * p
    BY <1>1, <1>2, <1>3, <1>4
  <2>2. RamSize * q \in Int /\ Modulus * p \in Int /\ j \in Int
    BY <1>1, <1>2, <1>3, <1>4
  <2> HIDE DEF j
  <2> QED BY <1>1, <1>2, <1>3, <1>4, <1>5, <2>1, <2>2
<1> HIDE DEF j
<1>7. CASE t + n < RamSize
  <2>1. t + n \in 0..(RamSize - 1)
    BY <1>1, <1>5, <1>7
  <2>2. (RamSize * j + (t + n)) % RamSize = t + n
    BY <1>1, <1>6, <2>1, Remainder
  <2>3. b % RamSize = t + n
    BY <1>6, <2>2
  <2> QED BY <2>3 DEF Add, b, t
<1>8. CASE t + n = RamSize
  <2> DEFINE i == j + 1
  <2>1. b = RamSize * i + 0 /\ i \in Int
    BY <1>1, <1>6, <1>8
  <2> HIDE DEF i
  <2>2. 0 \in 0..(RamSize - 1)
    BY <1>1
  <2>3. (RamSize * i + 0) % RamSize = 0
    BY <1>1, <2>1, <2>2, Remainder
  <2>4. b % RamSize = 0
    BY <2>1, <2>3
  <2> QED BY <1>8, <2>4 DEF Add, b, t
<1> QED BY <1>1, <1>5, <1>7, <1>8

(* So the second element never overlaps the first.                         *)
LEMMA ElementsApart ==
    ASSUME NEW a \in Word, NEW n \in Sizes, Aligned(a, n)
    PROVE  \A i \in 0..(n - 1) :
               (a % RamSize) + i
                   \notin (Add(a, n) % RamSize)..((Add(a, n) % RamSize) + n - 1)
<1> DEFINE t == (a % RamSize)
           u == (Add(a, n) % RamSize)
<1>1. u = t + n \/ (u = 0 /\ t + n = RamSize)
  BY SecondPlace
<1>2. t \in Nat /\ t + n <= RamSize /\ n \in 1..4 /\ RamSize \in Nat /\ RamSize >= 8
  BY AlignedFits, RamFacts DEF Sizes
<1> HIDE DEF t, u
<1>3. \A i \in 0..(n - 1) : t + i \notin u..(u + n - 1)
  BY <1>1, <1>2
<1> QED BY <1>3 DEF t, u

-----------------------------------------------------------------------------
(* What memory holds of the pair that was stored last: both its elements,  *)
(* as they were quantized.                                                 *)
Holds(m, a, v, type, scale) ==
    \E q \in Quantized(v, type, scale) : Read(m, a, TypeSize(type)) = q % Limit(type)

KeptInv ==
    kept # None =>
        /\ kept.scale \in Scales \cup {Undefined} /\ kept.ps0 \in Int /\ kept.ps1 \in Int
        /\ Holds(ram, kept.at, kept.ps0, kept.type, kept.scale)
        /\ ~kept.w => Holds(ram, SecondAt(kept.at, kept.type), kept.ps1, kept.type, kept.scale)

(* An element that is stored leaves memory a memory.                       *)
LEMMA LaneWritten ==
    ASSUME NEW m \in Ram, NEW a \in Word, NEW q \in Int, NEW type
    PROVE  /\ q % Limit(type) \in 0..(Values(TypeSize(type)) - 1)
           /\ q % Limit(type) \in Int
           /\ WrittenLane(m, a, q, type) \in Ram
<1> DEFINE n == TypeSize(type)
           l == Limit(type)
           c == q % l
<1>1. n \in Sizes /\ l = Values(n) /\ l \in Nat /\ l >= 2
  BY LimitFacts
<1>2. c \in 0..(l - 1)
  <2> HIDE DEF l
  <2> QED BY <1>1
<1> HIDE DEF c, n, l
<1>3. c \in Int /\ c \in 0..(Values(n) - 1)
  BY <1>1, <1>2
<1>4. Written(m, a, n, c) \in Ram
  BY <1>1, <1>3, WrittenIs
<1> QED BY <1>3, <1>4 DEF WrittenLane, c, n, l

(* At a place in memory it is read back.                                   *)
LEMMA LaneHeld ==
    ASSUME NEW m \in Ram, NEW a \in Word, NEW q \in Int, NEW type,
           Aligned(a, TypeSize(type)), a \notin Owned, Translate(a) # Nowhere
    PROVE  Read(WrittenLane(m, a, q, type), a, TypeSize(type)) = q % Limit(type)
<1> DEFINE n == TypeSize(type)
           c == q % Limit(type)
<1>1. n \in Sizes /\ c \in 0..(Values(n) - 1)
  BY LimitFacts, LaneWritten
<1> HIDE DEF n, c
<1>2. Aligned(a, n)
  BY DEF n
<1>3. Read(Written(m, a, n, c), a, n) = c
  BY <1>1, <1>2, ReadBack
<1> QED BY <1>3 DEF WrittenLane, n, c

(* The second element leaves it as it is.                                  *)
LEMMA LaneStays ==
    ASSUME NEW m \in Ram, NEW a \in Word, NEW q \in Int, NEW type, Aligned(a, TypeSize(type))
    PROVE  Read(WrittenLane(m, SecondAt(a, type), q, type), a, TypeSize(type))
             = Read(m, a, TypeSize(type))
<1> DEFINE n == TypeSize(type)
           c == q % Limit(type)
           b == Add(a, n)
<1>1. n \in Sizes /\ c \in Int
  BY LimitFacts, LaneWritten
<1>2. b \in Word
  <2>1. a + n \in Int
    BY <1>1, WidthFacts DEF Word, Sizes
  <2> QED BY <2>1, WidthFacts DEF Add, Word
<1>3. \A i \in 0..(n - 1) : (a % RamSize) + i \notin (b % RamSize)..((b % RamSize) + n - 1)
  BY <1>1, ElementsApart
<1>4. Read(Written(m, b, n, c), a, n) = Read(m, a, n)
  <2>1. Aligned(a, n)
    OBVIOUS
  <2> HIDE DEF n, c, b
  <2> QED BY <1>1, <1>2, <1>3, <2>1, ReadApart
<1> QED BY <1>4 DEF WrittenLane, SecondAt

(* A store of a pair writes one element or two.                            *)
LEMMA StoredElements ==
    ASSUME NEW a \in Word, NEW w \in BOOLEAN, PSQ_STORE(a, w)
    PROVE  LET type == gqr.stType
               scale == gqr.stScale
           IN  \E q0 \in Quantized(pair.ps0, type, scale) :
                  \/ w /\ ram' = WrittenLane(ram, a, q0, type)
                  \/ /\ ~w
                     /\ \E q1 \in Quantized(pair.ps1, type, scale) :
                           ram' = WrittenLane(WrittenLane(ram, a, q0, type),
                                              SecondAt(a, type), q1, type)
BY DEF PSQ_STORE

(* The store of a pair.                                                    *)
LEMMA StoreKeeps ==
    ASSUME NEW a \in Addresses, NEW w \in BOOLEAN, MemoryTypeOK, PairTypeOK, PSQ_STORE(a, w)
    PROVE  ram' \in Ram /\ KeptInv'
<1> DEFINE type == gqr.stType
           scale == gqr.stScale
           n == TypeSize(type)
           b == SecondAt(a, type)
           R(m, c) == Read(m, c, n)
           Q(v) == Quantized(v, type, scale)
<1>1. /\ Aligned(a, n)
      /\ kept' = IF InRam(a, 2 * n)
                   THEN [at |-> a, w |-> w, type |-> type, scale |-> scale,
                         ps0 |-> pair.ps0, ps1 |-> pair.ps1]
                   ELSE None
  BY DEF PSQ_STORE
<1>2. pair.ps0 \in Int /\ pair.ps1 \in Int /\ scale \in Scales \cup {Undefined}
  BY DEF PairTypeOK, GqrType
<1>3. a \in Word /\ ram \in Ram /\ n \in Sizes /\ n \in 1..4
  BY MemoryAssumption, MemoryTyped, LimitFacts DEF RamTyped
<1>4. b \in Word /\ Aligned(b, n)
  <2>1. n \in Nat /\ n % n = 0
    BY <1>3 DEF Sizes
  <2> HIDE DEF n
  <2>2. Add(a, n) \in Word /\ Aligned(Add(a, n), n)
    BY <1>1, <1>3, <2>1, SumAligned
  <2> QED BY <2>2 DEF SecondAt, n
<1>5. PICK q0 \in Q(pair.ps0) :
         \/ w /\ ram' = WrittenLane(ram, a, q0, type)
         \/ /\ ~w
            /\ \E q1 \in Q(pair.ps1) :
                  ram' = WrittenLane(WrittenLane(ram, a, q0, type), b, q1, type)
  BY <1>3, StoredElements
<1> DEFINE first == WrittenLane(ram, a, q0, type)
<1>6. first \in Ram
  BY <1>3, QuantizedInt, LaneWritten
<1>7. ASSUME InRam(a, 2 * n)
      PROVE  /\ R(first, a) = q0 % Limit(type)
             /\ b \notin Owned /\ Translate(b) # Nowhere
  <2>1. Add(a, 0) = a
    BY <1>3, WidthFacts DEF Add, Word
  <2>2. 0 \in 0..(2 * n - 1) /\ n \in 0..(2 * n - 1)
    BY <1>3
  <2>3. a \notin Owned /\ Translate(a) # Nowhere
    BY <1>7, <2>1, <2>2 DEF InRam
  <2>4. b \notin Owned /\ Translate(b) # Nowhere
    BY <1>7, <2>2 DEF InRam, SecondAt
  <2> QED BY <1>1, <1>3, <2>3, <2>4, QuantizedInt, LaneHeld
<1>8. /\ ram' \in Ram
      /\ InRam(a, 2 * n) =>
            /\ R(ram', a) = q0 % Limit(type)
            /\ ~w => \E q1 \in Q(pair.ps1) : R(ram', b) = q1 % Limit(type)
  <2>1. CASE w
    BY <1>5, <1>6, <1>7, <2>1
  <2>2. CASE ~w
    <3>1. PICK q1 \in Q(pair.ps1) : ram' = WrittenLane(first, b, q1, type)
      BY <1>5, <2>2
    <3>2. q1 \in Int
      BY QuantizedInt
    <3> HIDE DEF first, b
    <3>3. ram' \in Ram
      BY <1>4, <1>6, <3>1, <3>2, LaneWritten
    <3>4. R(ram', a) = R(first, a)
      BY <1>1, <1>3, <1>6, <3>1, <3>2, LaneStays DEF b
    <3>5. InRam(a, 2 * n) => R(ram', b) = q1 % Limit(type)
      BY <1>4, <1>6, <1>7, <3>1, <3>2, LaneHeld
    <3> HIDE DEF R, Q, n
    <3> QED BY <1>7, <3>3, <3>4, <3>5
  <2> QED BY <2>1, <2>2
<1>9. InRam(a, 2 * n) =>
          /\ Holds(ram', a, pair.ps0, type, scale)
          /\ ~w => Holds(ram', b, pair.ps1, type, scale)
  BY <1>5, <1>8 DEF Holds
<1>10. CASE InRam(a, 2 * n)
  <2>1. kept' = [at |-> a, w |-> w, type |-> type, scale |-> scale,
                 ps0 |-> pair.ps0, ps1 |-> pair.ps1]
    BY <1>1, <1>10
  <2>2. /\ kept'.scale = scale /\ kept'.ps0 = pair.ps0 /\ kept'.ps1 = pair.ps1
        /\ kept'.at = a /\ kept'.w = w /\ kept'.type = type
    BY <2>1
  <2>3. Holds(ram', kept'.at, kept'.ps0, kept'.type, kept'.scale)
    BY <1>9, <1>10, <2>2
  <2>4. ~kept'.w => Holds(ram', SecondAt(kept'.at, kept'.type), kept'.ps1, kept'.type, kept'.scale)
    BY <1>9, <1>10, <2>2
  <2>5. kept'.scale \in Scales \cup {Undefined} /\ kept'.ps0 \in Int /\ kept'.ps1 \in Int
    BY <1>2, <2>2
  <2> HIDE DEF type, scale, n, b, R, Q
  <2> QED BY <1>8, <2>3, <2>4, <2>5 DEF KeptInv, Holds
<1>11. CASE ~InRam(a, 2 * n)
  BY <1>1, <1>8, <1>11 DEF KeptInv
<1> QED BY <1>10, <1>11
-----------------------------------------------------------------------------
(* A lane loads as a number.                                               *)
LEMMA LaneLoaded ==
    ASSUME NEW m \in Ram, NEW a \in Word, NEW type, NEW scale \in Scales \cup {Undefined},
           Aligned(a, TypeSize(type))
    PROVE  Dequantized(m, a, type, scale) \subseteq Int
<1>1. Read(m, a, TypeSize(type)) \in 0..(Limit(type) - 1)
  BY LimitFacts, ReadTyped
<1> QED BY <1>1, DequantizedIs, LoadableIsInt

(* A pair that is loaded has the type of a pair.                           *)
LEMMA LoadTyped ==
    ASSUME NEW a \in Addresses, NEW w \in BOOLEAN, MemoryTypeOK, PairTypeOK, PSQ_LOAD(a, w)
    PROVE  PairTypeOK'
<1> DEFINE type == gqr.ldType
           scale == gqr.ldScale
           n == TypeSize(type)
<1>1. a \in Word /\ ram \in Ram /\ n \in Sizes /\ scale \in Scales \cup {Undefined}
      /\ Aligned(a, n)
  BY MemoryAssumption, MemoryTyped, LimitFacts DEF PairTypeOK, GqrType, PSQ_LOAD, RamTyped
<1>2. SecondAt(a, type) \in Word /\ Aligned(SecondAt(a, type), n)
  <2>1. n \in Nat /\ n % n = 0
    BY <1>1 DEF Sizes
  <2> HIDE DEF n
  <2>2. Add(a, n) \in Word /\ Aligned(Add(a, n), n)
    BY <1>1, <2>1, SumAligned
  <2> QED BY <2>2 DEF SecondAt, n
<1>3. Dequantized(ram, a, type, scale) \subseteq Int
      /\ Dequantized(ram, SecondAt(a, type), type, scale) \subseteq Int
  BY <1>1, <1>2, LaneLoaded
<1>4. Unit \in Int
  BY PairsAssumption
<1>5. /\ \E x \in Dequantized(ram, a, type, scale) :
            \/ w /\ pair' = [ps0 |-> x, ps1 |-> Unit, fpr |-> x]
            \/ /\ ~w
               /\ \E y \in Dequantized(ram, SecondAt(a, type), type, scale) :
                     pair' = [ps0 |-> x, ps1 |-> y, fpr |-> x]
      /\ gqr' = gqr
  BY DEF PSQ_LOAD
<1> HIDE DEF type, scale, n
<1>6. pair' \in [ps0 : Int, ps1 : Int, fpr : Int]
  BY <1>3, <1>4, <1>5
<1> QED BY <1>5, <1>6 DEF PairTypeOK

(* The types and the invariant hold at first.                              *)
LEMMA PairInitTyped == PairInit => PairTypeOK /\ KeptInv
<1> SUFFICES ASSUME PairInit PROVE PairTypeOK /\ KeptInv
  OBVIOUS
<1>1. 0 \in Types /\ 1 \in Scales
  BY PairsAssumption
<1> QED BY <1>1 DEF PairInit, PairTypeOK, GqrType, KeptInv

(* Memory, the pairs and what is known of the pair stored last.            *)
PairsInv == MemoryTypeOK /\ PairTypeOK /\ KeptInv

(* What leaves memory alone leaves the last pair in it.                    *)
LEMMA KeptStays ==
    ASSUME KeptInv, ram' = ram, kept' = kept
    PROVE  KeptInv'
BY DEF KeptInv, Holds

(* Each operation on pairs keeps the invariant.                            *)
LEMMA PairStep ==
    ASSUME PairsInv, PairNext
    PROVE  PairsInv'
<1>1. MemoryTypeOK /\ PairTypeOK /\ KeptInv
  BY DEF PairsInv
<1>2. CASE SetGqr
  <2>1. gqr' \in GqrType /\ pair' = pair /\ ram' = ram /\ kept' = kept
        /\ gpr' = gpr /\ fpr' = fpr /\ asked' = asked
    BY <1>2, GqrsAssumption DEF SetGqr, memoryVars
  <2>2. KeptInv'
    BY <1>1, <2>1, KeptStays
  <2> QED BY <1>1, <2>1, <2>2 DEF PairsInv, PairTypeOK, MemoryTypeOK
<1>3. CASE SetLanes
  <2>1. PICK x \in Lanes, y \in Lanes : pair' = [ps0 |-> x, ps1 |-> y, fpr |-> x]
    BY <1>3 DEF SetLanes
  <2>2. gqr' = gqr /\ ram' = ram /\ kept' = kept /\ gpr' = gpr /\ fpr' = fpr /\ asked' = asked
    BY <1>3 DEF SetLanes, memoryVars
  <2>3. x \in Int /\ y \in Int
    BY PairsAssumption
  <2>4. KeptInv'
    BY <1>1, <2>2, KeptStays
  <2> QED BY <1>1, <2>1, <2>2, <2>3, <2>4 DEF PairsInv, PairTypeOK, MemoryTypeOK
<1>4. ASSUME NEW a \in Addresses, NEW w \in BOOLEAN, PSQ_STORE(a, w) PROVE PairsInv'
  <2>1. ram' \in Ram /\ KeptInv'
    BY <1>1, <1>4, StoreKeeps
  <2>2. gpr' = gpr /\ fpr' = fpr /\ pair' = pair /\ gqr' = gqr
    BY <1>4 DEF PSQ_STORE
  <2>3. AskedTyped'
    BY <1>4 DEF PSQ_STORE, AskedTyped
  <2>4. MemoryTypeOK'
    BY <1>1, <2>1, <2>2, <2>3 DEF MemoryTypeOK, Ram, Byte, AskedTyped
  <2> QED BY <1>1, <2>1, <2>2, <2>4 DEF PairsInv, PairTypeOK
<1>5. ASSUME NEW a \in Addresses, NEW w \in BOOLEAN, PSQ_LOAD(a, w) PROVE PairsInv'
  <2>1. PairTypeOK'
    BY <1>1, <1>5, LoadTyped
  <2>2. ram' = ram /\ kept' = kept /\ gpr' = gpr /\ fpr' = fpr /\ asked' = asked
    BY <1>5 DEF PSQ_LOAD, memoryVars
  <2>3. KeptInv'
    BY <1>1, <2>2, KeptStays
  <2> QED BY <1>1, <2>1, <2>2, <2>3 DEF PairsInv, MemoryTypeOK
<1> QED BY <1>2, <1>3, <1>4, <1>5 DEF PairNext

(* The pair that memory holds loads as the rest of what was stored.        *)
LEMMA PairsReadBack == PairsInv => StoredPairsReadBack
<1> SUFFICES ASSUME PairsInv, kept # None, kept.scale # Undefined
             PROVE  StoredPairsReadBack
  BY DEF StoredPairsReadBack
<1> DEFINE b == SecondAt(kept.at, kept.type)
<1>1. /\ kept.scale \in Scales /\ kept.ps0 \in Int /\ kept.ps1 \in Int
      /\ Holds(ram, kept.at, kept.ps0, kept.type, kept.scale)
      /\ ~kept.w => Holds(ram, b, kept.ps1, kept.type, kept.scale)
  BY DEF PairsInv, KeptInv
<1> HIDE DEF b
<1>2. ASSUME NEW a, NEW v \in Int, Holds(ram, a, v, kept.type, kept.scale),
             NEW r \in Dequantized(ram, a, kept.type, kept.scale)
      PROVE  IsRest(r, v, kept.type, kept.scale)
  <2>1. PICK q \in Quantized(v, kept.type, kept.scale) :
            Read(ram, a, TypeSize(kept.type)) = q % Limit(kept.type)
    BY <1>2 DEF Holds
  <2>2. r \in Loadable(q % Limit(kept.type), kept.type, kept.scale)
    BY <1>2, <2>1, DequantizedIs
  <2> QED BY <1>1, <2>2, RestIsLoaded
<1>3. \A r \in Dequantized(ram, kept.at, kept.type, kept.scale) :
           IsRest(r, kept.ps0, kept.type, kept.scale)
  BY <1>1, <1>2
<1>4. ~kept.w => \A r \in Dequantized(ram, b, kept.type, kept.scale) :
                    IsRest(r, kept.ps1, kept.type, kept.scale)
  BY <1>1, <1>2
<1> QED BY <1>3, <1>4 DEF StoredPairsReadBack, b
-----------------------------------------------------------------------------
(* The names of the byte memory's module stand for the same numbers.       *)
LEMMA FlatWidths ==
    /\ Flat!Half = Half /\ Flat!Modulus = Modulus
    /\ \A n : Flat!Values(n) = Values(n)
    /\ \A a, b : Flat!Add(a, b) = Add(a, b) /\ Flat!Sub(a, b) = Sub(a, b)
    /\ Flat!Nothing = Nowhere
<1>1. Flat!Half = Half
  BY DEF Flat!Half, Half
<1>2. Flat!Modulus = Modulus
  BY <1>1 DEF Flat!Modulus, Modulus
<1>3. \A n : Flat!Values(n) = Values(n)
  BY <1>1, <1>2 DEF Flat!Values, Values
<1>4. \A a, b : Flat!Add(a, b) = Add(a, b) /\ Flat!Sub(a, b) = Sub(a, b)
  BY <1>2 DEF Flat!Add, Flat!Sub, Add, Sub
<1>5. Flat!Nothing = Nowhere
  BY DEF Flat!Nothing, Nowhere
<1> QED BY <1>1, <1>2, <1>3, <1>4, <1>5

(* An address is in a window when what is above its rest is a base.        *)
LEMMA WindowOf ==
    ASSUME NEW a \in Word
    PROVE  Translate(a) # Nowhere <=> (a - (a % RamSize)) \in Bases
<1> DEFINE In(b) == a >= b /\ a < b + RamSize
           t == (a % RamSize)
<1>1. a \in Nat /\ RamSize \in Nat \ {0} /\ t \in 0..(RamSize - 1)
  BY RamFacts, Division DEF Word
<1>0. \A b \in Bases : b \in Int
  <2>1. Bases \subseteq Word
    BY MemoryAssumption
  <2> QED BY <2>1, WidthFacts DEF Word
<1>2. ASSUME Translate(a) # Nowhere PROVE (a - t) \in Bases
  <2>1. \E b \in Bases : In(b)
    BY <1>2 DEF Translate
  <2> DEFINE b == CHOOSE c \in Bases : In(c)
  <2>2. b \in Bases
    BY <2>1
  <2>3. Translate(a) = a - b
    BY <2>1 DEF Translate
  <2>4. Translate(a) = t
    BY <1>2, TranslateIsRest
  <2>5. b \in Int
    BY <1>0, <2>2
  <2> HIDE DEF b, t
  <2>6. a - t = b
    BY <1>1, <2>3, <2>4, <2>5
  <2> QED BY <2>2, <2>6
<1>3. ASSUME (a - t) \in Bases PROVE Translate(a) # Nowhere
  <2> HIDE DEF t
  <2>1. In(a - t)
    BY <1>1
  <2>2. \E b \in Bases : In(b)
    BY <1>3, <2>1
  <2> DEFINE b == CHOOSE c \in Bases : In(c)
  <2>3. b \in Bases /\ In(b)
    BY <2>2
  <2>4. Translate(a) = a - b
    BY <2>2 DEF Translate
  <2>5. b \in Int
    BY <1>0, <2>3
  <2> HIDE DEF b
  <2>6. a - b >= 0
    BY <1>1, <2>3, <2>5
  <2> QED BY <1>1, <2>4, <2>5, <2>6 DEF Nowhere
<1> QED BY <1>2, <1>3

InArray(a) == a \notin Owned /\ Translate(a) # Nowhere

(* The byte memory's place of an address is the rest that it translates    *)
(* to.                                                                     *)
LEMMA PlaceIs ==
    ASSUME NEW a \in Word
    PROVE  Flat!Place(a) = IF InArray(a) THEN (a % RamSize) ELSE Nowhere
BY WindowOf, FlatWidths DEF Flat!Place, InArray

(* The bytes of an aligned access lie together: at addresses that do not   *)
(* wrap, in one window, and with one owner.                                *)
LEMMA BytesTogether ==
    ASSUME NEW a \in Word, NEW n \in Sizes, Aligned(a, n), NEW i \in 0..(n - 1)
    PROVE  /\ Add(a, i) = a + i /\ Add(a, i) \in Word
           /\ (a + i) % RamSize = (a % RamSize) + i
           /\ a + i \in Owned <=> a \in Owned
<1>1. a \in Nat /\ n \in Sizes /\ i \in Nat /\ i < n /\ a < Modulus /\ a % n = 0
      /\ Modulus \in Nat \ {0}
  BY WidthFacts DEF Word, Sizes, Aligned
<1>2. /\ a + n <= Modulus
      /\ (a % 8) + i <= 7 /\ (a % 8) \in 0..7
      /\ ((a + i) % 8) = (a % 8) + i
  <2> DEFINE k == Modulus \div 8
  <2>1. Modulus = 8 * k /\ k \in Int
    BY RamFacts, WidthFacts
  <2> HIDE DEF k
  <2>2. CASE n = 1
    BY <1>1, <2>1, <2>2
  <2>3. CASE n = 2
    BY <1>1, <2>1, <2>3
  <2>4. CASE n = 4
    BY <1>1, <2>1, <2>4
  <2> QED BY <1>1, <2>2, <2>3, <2>4 DEF Sizes
<1>3. a + i \in 0..(Modulus - 1) /\ (a + i) % Modulus = a + i
  <2>1. n \in Nat
    BY DEF Sizes
  <2>2. a + i \in 0..(Modulus - 1)
    BY <1>1, <1>2, <2>1
  <2> DEFINE x == a + i
  <2> HIDE DEF x
  <2>3. x \in 0..(Modulus - 1) => x % Modulus = x
    BY <1>1
  <2> QED BY <2>2, <2>3 DEF x
<1>4. (a + i) % RamSize = (a % RamSize) + i
  <2> DEFINE q == a \div RamSize
             t == (a % RamSize)
  <2>1. a = RamSize * q + t /\ q \in Int /\ t \in Nat
    BY <1>1, RamFacts, Division
  <2>2. t + n <= RamSize
    BY AlignedFits
  <2> HIDE DEF q, t
  <2>3. n \in Nat /\ RamSize \in Nat \ {0}
    BY RamFacts DEF Sizes
  <2>4. t + i \in 0..(RamSize - 1)
    BY <1>1, <2>1, <2>2, <2>3
  <2>5. (RamSize * q + (t + i)) % RamSize = t + i
    BY <2>1, <2>3, <2>4, Remainder
  <2>6. a + i = RamSize * q + (t + i)
    <3>1. RamSize * q \in Int
      BY <2>1, <2>3
    <3> QED BY <1>1, <2>1, <3>1
  <2> QED BY <2>5, <2>6 DEF t
<1>5. ASSUME a \in Owned PROVE a + i \in Owned
  <2>1. (a - (a % 8)) + ((a % 8) + i) \in Owned
    <3>1. (a % 8) + i \in 0..7
      BY <1>1, <1>2
    <3> QED BY <1>5, <3>1, MemoryAssumption
  <2>2. (a - (a % 8)) + ((a % 8) + i) = a + i
    BY <1>1, <1>2
  <2> QED BY <2>1, <2>2
<1>6. ASSUME a + i \in Owned PROVE a \in Owned
  <2>1. ((a + i) - ((a + i) % 8)) + (a % 8) \in Owned
    BY <1>2, <1>6, MemoryAssumption
  <2>2. ((a + i) - ((a + i) % 8)) + (a % 8) = a
    BY <1>1, <1>2
  <2> QED BY <2>1, <2>2
<1> QED BY <1>3, <1>4, <1>5, <1>6 DEF Add, Word

(* So the byte memory places them one behind the other.                    *)
LEMMA PlacesTogether ==
    ASSUME NEW a \in Word, NEW n \in Sizes, Aligned(a, n), NEW i \in 0..(n - 1)
    PROVE  Flat!Place(Add(a, i)) = IF InArray(a) THEN (a % RamSize) + i ELSE Nowhere
<1>1. /\ Add(a, i) = a + i /\ a + i \in Word
      /\ (a + i) % RamSize = (a % RamSize) + i
      /\ a + i \in Owned <=> a \in Owned
  BY BytesTogether
<1>2. (a + i) - ((a + i) % RamSize) = a - (a % RamSize)
  <2> DEFINE t == (a % RamSize)
  <2>1. a \in Int /\ i \in Int /\ t \in Int
    BY RamFacts, Division, WidthFacts DEF Word, Sizes
  <2>2. (a + i) % RamSize = t + i
    BY <1>1
  <2> HIDE DEF t
  <2>3. (a + i) - (t + i) = a - t
    BY <2>1
  <2> QED BY <2>2, <2>3 DEF t
<1>3. Translate(a + i) # Nowhere <=> Translate(a) # Nowhere
  BY <1>1, <1>2, WindowOf
<1> QED BY <1>1, <1>3, PlaceIs DEF InArray
-----------------------------------------------------------------------------
(* The item at an address, byte by byte.                                   *)
Sums(f, a, n) ==
    f = [k \in 0..n |->
            IF k = 0 THEN 0 ELSE f[k - 1] * Radix + Flat!ByteAt(Flat!Add(a, k - 1))]

(* Such a function exists, so the one that is chosen is one.               *)
LEMMA SumsExist ==
    ASSUME NEW a, NEW n \in Nat
    PROVE  \E f : Sums(f, a, n)
<1> DEFINE S == {j \in Nat : \E f : Sums(f, a, j)}
           B(k) == Flat!ByteAt(Flat!Add(a, k - 1))
<1>1. 0 \in S
  <2> DEFINE f == [k \in 0..0 |-> 0]
  <2>1. f = [k \in 0..0 |-> IF k = 0 THEN 0 ELSE f[k - 1] * Radix + B(k)]
    <3> DEFINE g == f
    <3>1. \A k \in 0..0 : 0 = IF k = 0 THEN 0 ELSE g[k - 1] * Radix + B(k)
      OBVIOUS
    <3> HIDE DEF g, B
    <3>2. f = [k \in 0..0 |-> IF k = 0 THEN 0 ELSE g[k - 1] * Radix + B(k)]
      BY <3>1
    <3> QED BY <3>2 DEF g
  <2> HIDE DEF f
  <2> QED BY <2>1 DEF Sums
<1>2. ASSUME NEW j \in 1..n, j - 1 \in S
      PROVE  j \in S
  <2>1. PICK g : Sums(g, a, j - 1)
    BY <1>2
  <2> DEFINE f == [k \in 0..j |-> IF k = j THEN g[j - 1] * Radix + B(j) ELSE g[k]]
  <2>2. \A k \in 0..(j - 1) : g[k] = IF k = 0 THEN 0 ELSE g[k - 1] * Radix + B(k)
    BY <2>1 DEF Sums
  <2> HIDE DEF B
  <2>3. \A k \in 0..j : f[k] = IF k = 0 THEN 0 ELSE f[k - 1] * Radix + B(k)
    <3> TAKE k \in 0..j
    <3>1. CASE k = j
      <4>1. f[k] = g[j - 1] * Radix + B(j)
        BY <3>1
      <4>2. f[j - 1] = g[j - 1]
        OBVIOUS
      <4> HIDE DEF f
      <4> QED BY <3>1, <4>1, <4>2
    <3>2. CASE k # j
      <4>1. k \in 0..(j - 1) /\ f[k] = g[k]
        BY <3>2
      <4>2. k # 0 => f[k - 1] = g[k - 1]
        BY <3>2
      <4> HIDE DEF f
      <4> QED BY <2>2, <4>1, <4>2
    <3> QED BY <3>1, <3>2
  <2>4. f = [k \in 0..j |-> IF k = 0 THEN 0 ELSE f[k - 1] * Radix + B(k)]
    <3> DEFINE h == f
    <3>1. f = [k \in 0..j |-> f[k]]
      OBVIOUS
    <3>2. \A k \in 0..j : f[k] = IF k = 0 THEN 0 ELSE h[k - 1] * Radix + B(k)
      BY <2>3
    <3> HIDE DEF h, f
    <3>3. f = [k \in 0..j |-> IF k = 0 THEN 0 ELSE h[k - 1] * Radix + B(k)]
      BY <3>1, <3>2
    <3> QED BY <3>3 DEF h
  <2> HIDE DEF f
  <2> QED BY <2>4 DEF Sums, B
<1>3. n \in S
  <2> HIDE DEF S
  <2> QED BY <1>1, <1>2, UpTo
<1> QED BY <1>3

ByteOf(a, i) == Flat!ByteAt(Add(a, i))

(* What it makes of one, two and four bytes.                               *)
LEMMA ItemOfBytes ==
    ASSUME NEW a, NEW n \in Sizes, a \notin Owned,
           \A i \in 0..(n - 1) : ByteOf(a, i) \in Nat
    PROVE  /\ n = 1 => Flat!Item(a, n) = ByteOf(a, 0)
           /\ n = 2 => Flat!Item(a, n) = ByteOf(a, 0) * Radix + ByteOf(a, 1)
           /\ n = 4 => Flat!Item(a, n) = (ByteOf(a, 0) * Radix + ByteOf(a, 1)) * Half
                                         + ByteOf(a, 2) * Radix + ByteOf(a, 3)
<1> DEFINE f == CHOOSE g : Sums(g, a, n)
<1>1. n \in Nat
  BY DEF Sizes
<1>2. Flat!Item(a, n) = f[n]
  BY DEF Flat!Item, Sums
<1>3. Sums(f, a, n)
  BY <1>1, SumsExist
<1> HIDE DEF f
<1>4. \A k \in 0..n : f[k] = IF k = 0 THEN 0 ELSE f[k - 1] * Radix + ByteOf(a, k - 1)
  BY <1>3, FlatWidths DEF Sums, ByteOf
<1>5. f[0] = 0 /\ \A k \in 1..n : f[k] = f[k - 1] * Radix + ByteOf(a, k - 1)
  BY <1>1, <1>4
<1>6. f[1] = f[0] * Radix + ByteOf(a, 0) /\ ByteOf(a, 0) \in Nat
  BY <1>5 DEF Sizes
<1>7. f[1] = ByteOf(a, 0)
  BY <1>5, <1>6, WidthFacts
<1>8. CASE n = 1
  BY <1>2, <1>7, <1>8
<1>9. CASE n = 2
  <2>1. f[2] = f[1] * Radix + ByteOf(a, 1)
    BY <1>5, <1>9
  <2> QED BY <1>2, <1>7, <1>9, <2>1
<1>10. CASE n = 4
  <2> DEFINE b0 == ByteOf(a, 0)
             b1 == ByteOf(a, 1)
             b2 == ByteOf(a, 2)
             b3 == ByteOf(a, 3)
  <2>1. b0 \in Nat /\ b1 \in Nat /\ b2 \in Nat /\ b3 \in Nat
    BY <1>10
  <2>2. f[2] = f[1] * Radix + b1 /\ f[3] = f[2] * Radix + b2 /\ f[4] = f[3] * Radix + b3
    BY <1>5, <1>10
  <2> HIDE DEF b0, b1, b2, b3
  <2> DEFINE h == b0 * Radix + b1
  <2>3. h \in Int /\ f[2] = h
    BY <1>7, <2>1, <2>2, WidthFacts DEF b0
  <2> HIDE DEF h
  <2>4. f[4] = (h * Radix + b2) * Radix + b3
    BY <2>2, <2>3
  <2>5. (h * Radix + b2) * Radix = h * (Radix * Radix) + b2 * Radix
    BY <2>1, <2>3, WidthFacts
  <2>6. f[4] = h * Half + b2 * Radix + b3
    BY <2>4, <2>5 DEF Half
  <2> QED BY <1>2, <1>10, <2>6 DEF b0, b1, b2, b3, h
<1> QED BY <1>8, <1>9, <1>10 DEF Sizes

(* An aligned read sees the item at its address.                           *)
LEMMA ItemIsRead ==
    ASSUME ram \in Ram, NEW a \in Word, NEW n \in Sizes, Aligned(a, n)
    PROVE  Flat!Item(a, n) = Read(ram, a, n)
<1> DEFINE t == (a % RamSize)
<1>1. CASE a \in Owned
  <2>1. Read(ram, a, n) = Device % Values(n)
    BY <1>1, ReadIs
  <2>2. Flat!Item(a, n) = Device % Values(n)
    BY <1>1, FlatWidths DEF Flat!Item
  <2> QED BY <2>1, <2>2
<1>2. CASE a \notin Owned /\ Translate(a) = Nowhere
  <2>1. \A i \in 0..(n - 1) : ByteOf(a, i) = 0
    <3> TAKE i \in 0..(n - 1)
    <3>1. Flat!Place(Add(a, i)) = Nowhere
      BY <1>2, PlacesTogether DEF InArray
    <3> QED BY <3>1, FlatWidths DEF ByteOf, Flat!ByteAt
  <2>2. Read(ram, a, n) = 0
    BY <1>2, ReadIs
  <2>3. n = 1 => Flat!Item(a, n) = 0
    BY <1>2, <2>1, ItemOfBytes
  <2>4. n = 2 => Flat!Item(a, n) = 0
    <3> SUFFICES ASSUME n = 2 PROVE Flat!Item(a, n) = 0
      OBVIOUS
    <3>1. ByteOf(a, 0) = 0 /\ ByteOf(a, 1) = 0
      BY <2>1
    <3>2. Flat!Item(a, n) = 0 * Radix + 0
      BY <1>2, <2>1, <3>1, ItemOfBytes
    <3> QED BY <3>2, WidthFacts
  <2>5. n = 4 => Flat!Item(a, n) = 0
    <3> SUFFICES ASSUME n = 4 PROVE Flat!Item(a, n) = 0
      OBVIOUS
    <3>1. ByteOf(a, 0) = 0 /\ ByteOf(a, 1) = 0 /\ ByteOf(a, 2) = 0 /\ ByteOf(a, 3) = 0
      BY <2>1
    <3>2. Flat!Item(a, n) = (0 * Radix + 0) * Half + 0 * Radix + 0
      BY <1>2, <2>1, <3>1, ItemOfBytes
    <3> QED BY <3>2, WidthFacts
  <2> QED BY <2>2, <2>3, <2>4, <2>5 DEF Sizes
<1>3. CASE InArray(a)
  <2>1. \A i \in 0..(n - 1) : Flat!Place(Add(a, i)) = t + i
    BY <1>3, PlacesTogether
  <2>2. t \in Nat /\ t + n <= RamSize
    BY AlignedFits
  <2> HIDE DEF t
  <2> DEFINE g == InRow(ram, t, n)
  <2>3. g \in [1..n -> Byte] /\ Read(ram, a, n) = Big(g)
    BY <1>3, <2>2, InRowTyped, ReadIs DEF InArray, t
  <2>4. \A i \in 0..(n - 1) : ByteOf(a, i) = g[i + 1]
    <3> TAKE i \in 0..(n - 1)
    <3>1. n \in Nat /\ i \in Nat /\ i + 1 \in 1..n
      BY DEF Sizes
    <3>2. g[i + 1] = ram[t + (i + 1) - 1]
      BY <3>1 DEF InRow
    <3>3. t + (i + 1) - 1 = t + i /\ t + i # Nowhere
      BY <2>2, <3>1 DEF Nowhere
    <3> HIDE DEF g
    <3>4. ByteOf(a, i) = ram[t + i]
      BY <2>1, <3>3, FlatWidths DEF ByteOf, Flat!ByteAt
    <3> QED BY <3>2, <3>3, <3>4
  <2> HIDE DEF g
  <2>5. \A i \in 1..n : g[i] \in Nat
    <3>1. \A i \in 1..n : g[i] \in Byte
      BY <2>3
    <3> QED BY <3>1, WidthFacts DEF Byte
  <2>6. \A i \in 0..(n - 1) : ByteOf(a, i) \in Nat /\ i + 1 \in 1..n
    BY <2>4, <2>5 DEF Sizes
  <2>7. a \notin Owned
    BY <1>3 DEF InArray
  <2>8. CASE n = 1
    <3>1. ByteOf(a, 0) = g[1]
      BY <2>4, <2>8
    <3> QED BY <2>3, <2>6, <2>7, <2>8, <3>1, BigIsValue, ItemOfBytes
  <2>9. CASE n = 2
    <3>1. ByteOf(a, 0) = g[1] /\ ByteOf(a, 1) = g[2]
      BY <2>4, <2>9
    <3>2. Flat!Item(a, n) = ByteOf(a, 0) * Radix + ByteOf(a, 1)
      BY <2>6, <2>7, <2>9, ItemOfBytes
    <3>3. Big(g) = g[1] * Radix + g[2]
      BY <2>3, <2>9, BigIsValue
    <3> QED BY <2>3, <3>1, <3>2, <3>3
  <2>10. CASE n = 4
    <3>1. ByteOf(a, 0) = g[1] /\ ByteOf(a, 1) = g[2] /\ ByteOf(a, 2) = g[3] /\ ByteOf(a, 3) = g[4]
      BY <2>4, <2>10
    <3>2. Flat!Item(a, n) = (ByteOf(a, 0) * Radix + ByteOf(a, 1)) * Half
                            + ByteOf(a, 2) * Radix + ByteOf(a, 3)
      BY <2>6, <2>7, <2>10, ItemOfBytes
    <3>3. Big(g) = (g[1] * Radix + g[2]) * Half + g[3] * Radix + g[4]
      BY <2>3, <2>10, BigIsValue
    <3> QED BY <2>3, <3>1, <3>2, <3>3
  <2> QED BY <2>8, <2>9, <2>10 DEF Sizes
<1> QED BY <1>1, <1>2, <1>3 DEF InArray
-----------------------------------------------------------------------------
(* Sums of addresses.                                                      *)
LEMMA SumOfSums ==
    ASSUME NEW a \in Int, NEW x \in Int, NEW y \in Int
    PROVE  Add(Add(a, x), y) = Add(a, x + y) /\ Add(a, x) \in Word
<1>1. (((a + x) % Modulus) + y) % Modulus = ((a + x) + y) % Modulus
  <2>1. a + x \in Int
    OBVIOUS
  <2> QED BY <2>1, WidthFacts, SumModulo
<1>2. (a + x) + y = a + (x + y)
  OBVIOUS
<1>3. (a + x) % Modulus \in 0..(Modulus - 1)
  BY WidthFacts
<1> QED BY <1>1, <1>2, <1>3 DEF Add, Word

(* Wrapping keeps the rest: memory's size divides the address space.       *)
LEMMA RestOfSum ==
    ASSUME NEW x \in Int
    PROVE  (x % Modulus) % RamSize = (x % RamSize)
<1> DEFINE c == Modulus \div RamSize
           q == x \div Modulus
           y == (x % Modulus)
           s == y \div RamSize
           u == (y % RamSize)
<1>1. RamSize \in Nat \ {0} /\ Modulus \in Nat \ {0}
  BY RamFacts, WidthFacts
<1>2. Modulus = RamSize * c /\ c \in Int
  <2>1. Modulus = RamSize * c + (Modulus % RamSize) /\ c \in Int
    BY <1>1, Division
  <2>2. Modulus % RamSize = 0
    BY RamFacts
  <2> HIDE DEF c
  <2>3. RamSize * c \in Int
    BY <1>1, <2>1
  <2> QED BY <2>1, <2>2, <2>3
<1>3. x = Modulus * q + y /\ q \in Int /\ y \in Int
  BY <1>1, Division
<1>4. y = RamSize * s + u /\ s \in Int /\ u \in 0..(RamSize - 1)
  <2> HIDE DEF y
  <2> QED BY <1>1, <1>3, Division
<1> HIDE DEF c, q, y, s, u
<1> DEFINE j == c * q + s
<1>5. x = RamSize * j + u /\ j \in Int
  <2>1. RamSize * j = (RamSize * c) * q + RamSize * s
    BY <1>1, <1>2, <1>3, <1>4
  <2>2. Modulus * q \in Int /\ RamSize * s \in Int /\ j \in Int
    BY <1>1, <1>2, <1>3, <1>4
  <2> HIDE DEF j
  <2> QED BY <1>2, <1>3, <1>4, <2>1, <2>2
<1> HIDE DEF j
<1>6. (RamSize * j + u) % RamSize = u
  BY <1>1, <1>4, <1>5, Remainder
<1> QED BY <1>5, <1>6 DEF u, y

(* No two bytes of a run that memory can hold are in one place.            *)
LEMMA PlacesDiffer ==
    ASSUME NEW a \in Word, NEW N \in Nat, N <= RamSize, NEW i \in 0..(N - 1), NEW j \in 0..(N - 1),
           Flat!Place(Add(a, i)) = Flat!Place(Add(a, j)), Flat!Place(Add(a, i)) # Nowhere
    PROVE  i = j
<1>1. a \in Int /\ i \in Int /\ j \in Int /\ RamSize \in Nat \ {0}
  BY RamFacts, WidthFacts DEF Word
<1>2. Add(a, i) \in Word /\ Add(a, j) \in Word
  BY <1>1, SumOfSums
<1>3. Flat!Place(Add(a, i)) = (Add(a, i) % RamSize) /\ Flat!Place(Add(a, j)) = (Add(a, j) % RamSize)
  BY <1>2, PlaceIs
<1>4. (a + i) % RamSize = (a + j) % RamSize
  <2>1. (Add(a, i) % RamSize) = (a + i) % RamSize
    BY <1>1, RestOfSum DEF Add
  <2>2. (Add(a, j) % RamSize) = (a + j) % RamSize
    BY <1>1, RestOfSum DEF Add
  <2> QED BY <1>3, <2>1, <2>2
<1> DEFINE x == a + i
           y == a + j
<1>5. x \in Int /\ y \in Int /\ x < y + RamSize /\ y < x + RamSize
  BY <1>1
<1>6. x % RamSize = y % RamSize
  BY <1>4
<1>7. ~(x < y) /\ ~(y < x)
  <2> HIDE DEF x, y
  <2> QED BY <1>1, <1>5, <1>6, Apart
<1> QED BY <1>1, <1>5, <1>7

(* The offset of an address of a run is found again.                       *)
LEMMA OffsetOf ==
    ASSUME NEW a \in Word, NEW j \in 0..(RamSize - 1)
    PROVE  Sub(Add(a, j), a) = j
<1>1. a \in Int /\ j \in Nat /\ Modulus \in Nat \ {0} /\ RamSize \in Nat \ {0}
  BY RamFacts, WidthFacts DEF Word
<1>2. j < Modulus
  <2>1. Modulus >= RamSize
    <3> DEFINE c == Modulus \div RamSize
    <3>1. Modulus = RamSize * c + (Modulus % RamSize) /\ c \in Int
      BY <1>1, Division
    <3>2. Modulus % RamSize = 0
      BY RamFacts
    <3> HIDE DEF c
    <3>3. RamSize * c \in Int
      BY <1>1, <3>1
    <3>4. Modulus = RamSize * c
      BY <3>1, <3>2, <3>3
    <3>5. c >= 1
      <4>1. CASE c <= 0
        <5>1. RamSize * c <= 0
          BY <1>1, <3>1, <4>1
        <5> QED BY <1>1, <3>4, <5>1
      <4> QED BY <3>1, <4>1
    <3>6. RamSize * c >= RamSize
      BY <1>1, <3>1, <3>5
    <3> QED BY <3>4, <3>6
  <2> QED BY <1>1, <2>1
<1> DEFINE x == a + j
           y == -a
<1>3. x \in Int /\ y \in Int /\ x + y = j
  BY <1>1
<1>4. ((x % Modulus) + y) % Modulus = (x + y) % Modulus
  <2> HIDE DEF x, y
  <2> QED BY <1>1, <1>3, SumModulo
<1>5. (x % Modulus) + y = (x % Modulus) - a
  <2>1. x % Modulus \in Int
    BY <1>1, <1>3
  <2> QED BY <1>1, <2>1
<1>6. j % Modulus = j
  BY <1>1, <1>2
<1>7. Sub(Add(a, j), a) = ((x % Modulus) - a) % Modulus
  BY DEF Sub, Add
<1> HIDE DEF x, y
<1> QED BY <1>3, <1>4, <1>5, <1>6, <1>7

-----------------------------------------------------------------------------
(* Memory m becomes n when the N bytes g are put at the addresses from a.  *)
Puts(n, m, a, N, g) ==
    \A p \in 0..(RamSize - 1) :
        /\ \A j \in 0..(N - 1) : Flat!Place(Add(a, j)) = p => n[p] = g[j]
        /\ (\A j \in 0..(N - 1) : Flat!Place(Add(a, j)) # p) => n[p] = m[p]

(* Where Put finds the address of a place, as an offset.                   *)
Hit(a, N, p) == \E b \in Flat!Span(a, N) : Flat!Place(b) = p

Here(a, N, p) == Flat!Sub((CHOOSE b \in Flat!Span(a, N) : Flat!Place(b) = p), a)

(* What Put finds at a place is the byte whose offset was put there.       *)
LEMMA PutIs ==
    ASSUME NEW a \in Word, NEW N \in Nat, N <= RamSize, NEW m, NEW n, NEW g, Puts(n, m, a, N, g),
           NEW p \in 0..(RamSize - 1)
    PROVE  /\ Hit(a, N, p) => Here(a, N, p) \in 0..(N - 1) /\ n[p] = g[Here(a, N, p)]
           /\ ~Hit(a, N, p) => n[p] = m[p]
<1> DEFINE S == Flat!Span(a, N)
           c == CHOOSE b \in S : Flat!Place(b) = p
<1>1. /\ \A j \in 0..(N - 1) : Add(a, j) \in S
      /\ \A b \in S : \E j \in 0..(N - 1) : b = Add(a, j)
  BY FlatWidths DEF Flat!Span
<1>2. ASSUME Hit(a, N, p) PROVE Here(a, N, p) \in 0..(N - 1) /\ n[p] = g[Here(a, N, p)]
  <2>1. c \in S /\ Flat!Place(c) = p
    BY <1>2 DEF Hit
  <2>2. Here(a, N, p) = Flat!Sub(c, a)
    BY DEF Here
  <2> HIDE DEF c, S
  <2>3. PICK j \in 0..(N - 1) : c = Add(a, j)
    BY <1>1, <2>1
  <2>4. n[p] = g[j]
    BY <2>1, <2>3 DEF Puts
  <2>5. j \in 0..(RamSize - 1)
    BY RamFacts
  <2>6. Flat!Sub(c, a) = j
    BY <2>3, <2>5, OffsetOf, FlatWidths
  <2> QED BY <2>2, <2>3, <2>4, <2>6
<1>3. ASSUME ~Hit(a, N, p) PROVE n[p] = m[p]
  <2>1. \A j \in 0..(N - 1) : Flat!Place(Add(a, j)) # p
    BY <1>1, <1>3 DEF Hit
  <2> QED BY <2>1 DEF Puts
<1> QED BY <1>2, <1>3

(* An aligned write puts its bytes in their places.                        *)
LEMMA WrittenPuts ==
    ASSUME NEW m \in Ram, NEW a \in Word, NEW n \in Sizes, Aligned(a, n), NEW v \in Int
    PROVE  \A p \in 0..(RamSize - 1) :
              /\ \A i \in 0..(n - 1) : Flat!Place(Add(a, i)) = p =>
                    Written(m, a, n, v)[p] = (v \div Values(n - 1 - i)) % Radix
              /\ (\A i \in 0..(n - 1) : Flat!Place(Add(a, i)) # p) =>
                    Written(m, a, n, v)[p] = m[p]
<1> DEFINE w == Written(m, a, n, v)
           t == (a % RamSize)
<1>1. CASE InArray(a)
  <2>1. \A p \in 0..(RamSize - 1) :
            w[p] = IF p \in t..(t + n - 1) THEN (v \div Values(t + n - 1 - p)) % Radix ELSE m[p]
    BY <1>1, WrittenIs DEF InArray
  <2>2. \A i \in 0..(n - 1) : Flat!Place(Add(a, i)) = t + i
    BY <1>1, PlacesTogether
  <2>3. t \in Nat /\ n \in Nat
    BY AlignedFits DEF Sizes
  <2> HIDE DEF w, t
  <2> SUFFICES ASSUME NEW p \in 0..(RamSize - 1)
               PROVE  /\ \A i \in 0..(n - 1) : Flat!Place(Add(a, i)) = p =>
                            w[p] = (v \div Values(n - 1 - i)) % Radix
                      /\ (\A i \in 0..(n - 1) : Flat!Place(Add(a, i)) # p) => w[p] = m[p]
    BY DEF w
  <2>4. ASSUME NEW i \in 0..(n - 1), Flat!Place(Add(a, i)) = p
        PROVE  w[p] = (v \div Values(n - 1 - i)) % Radix
    <3>1. p = t + i
      BY <2>2, <2>4
    <3>2. p \in t..(t + n - 1) /\ t + n - 1 - p = n - 1 - i
      BY <2>3, <3>1
    <3> QED BY <2>1, <3>2
  <2>5. ASSUME \A i \in 0..(n - 1) : Flat!Place(Add(a, i)) # p
        PROVE  w[p] = m[p]
    <3>1. p \notin t..(t + n - 1)
      <4>1. CASE p \in t..(t + n - 1)
        <5>1. p - t \in 0..(n - 1) /\ t + (p - t) = p
          BY <2>3, <4>1, RamFacts
        <5> QED BY <2>2, <2>5, <5>1
      <4> QED BY <4>1
    <3> QED BY <2>1, <3>1
  <2> QED BY <2>4, <2>5
<1>2. CASE ~InArray(a)
  <2>1. w = m
    BY <1>2, WrittenIs DEF InArray
  <2>2. \A i \in 0..(n - 1) : Flat!Place(Add(a, i)) = Nowhere
    BY <1>2, PlacesTogether
  <2>3. \A p \in 0..(RamSize - 1) : p # Nowhere
    BY DEF Nowhere
  <2> HIDE DEF w
  <2>4. \A p \in 0..(RamSize - 1) :
              /\ \A i \in 0..(n - 1) : Flat!Place(Add(a, i)) = p =>
                    w[p] = (v \div Values(n - 1 - i)) % Radix
              /\ (\A i \in 0..(n - 1) : Flat!Place(Add(a, i)) # p) => w[p] = m[p]
    BY <2>1, <2>2, <2>3
  <2> QED BY <2>4 DEF w
<1> QED BY <1>1, <1>2
-----------------------------------------------------------------------------
(* A run of words, written one after the other, puts their digits.         *)
RunDigits(v, N) == [j \in 0..(4 * N - 1) |-> Flat!Digit(v[j \div 4], 4, j % 4)]

(* After each of the words, what was put so far are the digits before it.  *)
LEMMA RunPuts ==
    ASSUME NEW m \in Ram, NEW a \in Word, Aligned(a, 4), NEW N \in Nat, 4 * N <= RamSize,
           NEW v, \A k \in 0..(N - 1) : v[k] \in Word,
           NEW f, f[0] = m,
           \A k \in 1..N : f[k] = Written(f[k - 1], Add(a, 4 * (k - 1)), 4, v[k - 1])
    PROVE  f[N] \in Ram /\ Puts(f[N], m, a, 4 * N, RunDigits(v, N))
<1> DEFINE g == RunDigits(v, N)
           S == {k \in 0..N : f[k] \in Ram /\ Puts(f[k], m, a, 4 * k, g)}
<1>1. 0 \in S
  <2>1. 0..(4 * 0 - 1) = {}
    OBVIOUS
  <2> HIDE DEF g
  <2>2. Puts(f[0], m, a, 4 * 0, g)
    BY <2>1 DEF Puts
  <2> QED BY <2>2
<1>2. ASSUME NEW k \in 1..N, k - 1 \in S
      PROVE  k \in S
  <2> DEFINE e == 4 * (k - 1)
             c == Add(a, e)
             h == f[k - 1]
             x == v[k - 1]
             w == Written(h, c, 4, x)
  <2>1. h \in Ram /\ Puts(h, m, a, e, g)
    BY <1>2
  <2>2. e \in Nat /\ e % 4 = 0 /\ 4 * k = e + 4 /\ k \in Nat /\ e + 4 <= RamSize
        /\ e + 4 <= 4 * N
    BY RamFacts
  <2>3. c \in Word /\ Aligned(c, 4) /\ 4 \in Sizes
    <3> HIDE DEF e
    <3> QED BY <2>2, SumAligned DEF Sizes
  <2>4. f[k] = w
    OBVIOUS
  <2>5. x \in Word /\ x \in Int
    <3>1. k - 1 \in 0..(N - 1)
      OBVIOUS
    <3> QED BY <3>1, WidthFacts DEF Word
  <2>6. \A j \in e..(e + 3) : g[j] = (x \div Values(3 - (j - e))) % Radix
    <3> TAKE j \in e..(e + 3)
    <3>1. j \in 0..(4 * N - 1) /\ j \div 4 = k - 1 /\ j % 4 = j - e
      BY <2>2
    <3>2. g[j] = Flat!Digit(v[j \div 4], 4, j % 4)
      BY <3>1 DEF RunDigits
    <3>3. g[j] = Flat!Digit(x, 4, j - e)
      BY <3>1, <3>2
    <3> HIDE DEF g, e, x
    <3>4. 4 - 1 - (j - e) = 3 - (j - e)
      BY <2>2
    <3> QED BY <3>3, <3>4, FlatWidths DEF Flat!Digit
  <2>7. \A i \in 0..3 : Add(c, i) = Add(a, e + i)
    <3>1. a \in Int /\ e \in Int
      BY <2>2, WidthFacts DEF Word
    <3> HIDE DEF e
    <3> QED BY <3>1, SumOfSums
  <2> HIDE DEF e, c, h, x, g
  <2>8. \A p \in 0..(RamSize - 1) :
              /\ \A i \in 0..3 : Flat!Place(Add(c, i)) = p =>
                    w[p] = (x \div Values(3 - i)) % Radix
              /\ (\A i \in 0..3 : Flat!Place(Add(c, i)) # p) => w[p] = h[p]
    <3>1. 4 - 1 = 3 /\ \A i \in 0..3 : 4 - 1 - i = 3 - i
      OBVIOUS
    <3> QED BY <2>1, <2>3, <2>5, <3>1, WrittenPuts
  <2>9. w \in Ram
    BY <2>1, <2>3, <2>5, WrittenIs
  <2> HIDE DEF w
  <2>10. ASSUME NEW p \in 0..(RamSize - 1), NEW j \in 0..(e + 3), Flat!Place(Add(a, j)) = p
         PROVE  w[p] = g[j]
    <3>1. CASE j >= e
      <4>1. j - e \in 0..3 /\ e + (j - e) = j /\ j \in e..(e + 3)
        BY <2>2, <3>1
      <4>2. Flat!Place(Add(c, j - e)) = p
        BY <2>7, <2>10, <4>1
      <4> QED BY <2>6, <2>8, <4>1, <4>2
    <3>2. CASE j < e
      <4>1. \A i \in 0..3 : Flat!Place(Add(c, i)) # p
        <5> SUFFICES ASSUME NEW i \in 0..3, Flat!Place(Add(c, i)) = p PROVE FALSE
          OBVIOUS
        <5>1. Flat!Place(Add(a, e + i)) = p
          BY <2>7
        <5>2. e + i \in 0..((e + 4) - 1) /\ j \in 0..((e + 4) - 1) /\ e + 4 \in Nat /\ p # Nowhere
          BY <2>2 DEF Nowhere
        <5>3. j = e + i
          BY <2>2, <2>10, <5>1, <5>2, PlacesDiffer
        <5> QED BY <2>2, <3>2, <5>3
      <4>2. w[p] = h[p]
        BY <2>8, <4>1
      <4>3. h[p] = g[j]
        <5>1. j \in 0..(e - 1)
          BY <2>2, <3>2
        <5> QED BY <2>1, <2>10, <5>1 DEF Puts
      <4> QED BY <4>2, <4>3
    <3> QED BY <2>2, <3>1, <3>2
  <2>11. ASSUME NEW p \in 0..(RamSize - 1), \A j \in 0..(e + 3) : Flat!Place(Add(a, j)) # p
         PROVE  w[p] = m[p]
    <3>1. \A i \in 0..3 : e + i \in 0..(e + 3)
      BY <2>2
    <3>2. \A i \in 0..3 : Flat!Place(Add(c, i)) # p
      BY <2>7, <2>11, <3>1
    <3>3. \A j \in 0..(e - 1) : j \in 0..(e + 3)
      BY <2>2
    <3>4. h[p] = m[p]
      BY <2>1, <2>11, <3>3 DEF Puts
    <3> QED BY <2>8, <3>2, <3>4
  <2>12. Puts(w, m, a, 4 * k, g)
    <3>1. 4 * k - 1 = e + 3
      BY <2>2
    <3> QED BY <2>10, <2>11, <3>1 DEF Puts
  <2> QED BY <2>4, <2>9, <2>12
<1>3. N \in S
  <2>1. N \in 0..N
    OBVIOUS
  <2> HIDE DEF S
  <2> QED BY <1>1, <1>2, <2>1, UpTo
<1> QED BY <1>3

-----------------------------------------------------------------------------
(* A digit of a number that is cut to a width is the number's digit.       *)
LEMMA CutDigit ==
    ASSUME NEW v \in Nat, NEW x \in Nat \ {0}, NEW c \in Nat \ {0}, NEW r \in Nat \ {0}
    PROVE  ((v % (x * (r * c))) \div x) % r = (v \div x) % r
<1> DEFINE M == x * (r * c)
           q == v \div M
           w == (v % M)
           s == w \div x
           u == (w % x)
<1>1. M \in Nat \ {0}
  <2>1. r * c \in Nat \ {0}
    OBVIOUS
  <2> DEFINE y == r * c
  <2> HIDE DEF y
  <2>2. y \in Nat \ {0} => x * y \in Nat \ {0}
    OBVIOUS
  <2> QED BY <2>1, <2>2 DEF y
<1>2. v = M * q + w /\ q \in Int /\ w \in Int
  <2> HIDE DEF M
  <2> QED BY <1>1, Division
<1>3. w = x * s + u /\ s \in Int /\ u \in 0..(x - 1)
  <2> HIDE DEF w
  <2> QED BY <1>2, Division
<1> HIDE DEF q, w, s, u
<1> DEFINE b == c * q
           j == r * b + s
<1>4. v = x * j + u /\ j \in Int /\ b \in Int
  <2>1. b \in Int /\ j \in Int
    BY <1>2, <1>3
  <2>2. M * q = x * (r * b)
    BY <1>2
  <2>3. x * j = x * (r * b) + x * s
    BY <1>3, <2>1
  <2>4. x * (r * b) \in Int /\ x * s \in Int
    BY <1>3, <2>1
  <2> HIDE DEF M, j, b
  <2> QED BY <1>2, <1>3, <2>1, <2>2, <2>3, <2>4
<1>5. v \div x = j
  <2> HIDE DEF j, M
  <2> QED BY <1>3, <1>4, Quotient
<1>6. j % r = s % r
  <2> DEFINE d == s \div r
             t == (s % r)
  <2>1. s = r * d + t /\ d \in Int /\ t \in 0..(r - 1)
    BY <1>3, Division
  <2> HIDE DEF d, t, b
  <2> DEFINE i == b + d
  <2>2. j = r * i + t /\ i \in Int
    <3>1. r * i = r * b + r * d /\ i \in Int
      BY <1>4, <2>1
    <3>2. r * b \in Int /\ r * d \in Int
      BY <1>4, <2>1
    <3> HIDE DEF i
    <3> QED BY <2>1, <3>1, <3>2
  <2> HIDE DEF i, j
  <2>3. (r * i + t) % r = t
    BY <2>1, <2>2, Remainder
  <2> QED BY <2>2, <2>3 DEF t
<1> HIDE DEF j, b
<1>7. (v \div x) % r = s % r
  BY <1>5, <1>6
<1> QED BY <1>7 DEF s, w

(* This holds for each byte of each width.                                 *)
LEMMA CutDigits ==
    ASSUME NEW v \in Nat, NEW n \in Sizes, NEW i \in 0..(n - 1)
    PROVE  ((v % Values(n)) \div Values(n - 1 - i)) % Radix = (v \div Values(n - 1 - i)) % Radix
<1>1. Radix \in Nat \ {0} /\ Half = Radix * Radix /\ Half \in Nat \ {0} /\ Modulus = Half * Half
  BY WidthFacts DEF Half, Modulus
<1>2. \E c \in Nat \ {0} : Values(n) = Values(n - 1 - i) * (Radix * c)
  <2>1. CASE n = 1
    <3>1. n - 1 - i = 0
      <4>1. i \in 0..0
        BY <2>1
      <4>2. i = 0
        BY <4>1
      <4> QED BY <2>1, <4>2
    <3>2. Radix = 1 * (Radix * 1)
      BY <1>1
    <3> QED BY <2>1, <3>1, <3>2, ValuesAre
  <2>2. CASE n = 2
    <3>1. CASE i = 0
      <4>1. n - 1 - i = 1 /\ Half = Radix * (Radix * 1)
        BY <1>1, <2>2, <3>1
      <4> QED BY <2>2, <4>1, ValuesAre
    <3>2. CASE i = 1
      <4>1. n - 1 - i = 0 /\ Half = 1 * (Radix * Radix)
        BY <1>1, <2>2, <3>2
      <4> QED BY <1>1, <2>2, <4>1, ValuesAre
    <3> QED BY <2>2, <3>1, <3>2
  <2>3. CASE n = 4
    <3>1. CASE i = 0
      <4>1. n - 1 - i = 3 /\ (Half * Radix) * (Radix * 1) = Half * (Radix * Radix)
        BY <1>1, <2>3, <3>1
      <4>2. Modulus = (Half * Radix) * (Radix * 1)
        BY <1>1, <4>1
      <4> QED BY <2>3, <4>1, <4>2, ValuesAre
    <3>2. CASE i = 1
      <4>1. n - 1 - i = 2 /\ Modulus = Half * (Radix * Radix)
        BY <1>1, <2>3, <3>2
      <4> QED BY <1>1, <2>3, <4>1, ValuesAre
    <3>3. CASE i = 2
      <4>1. n - 1 - i = 1 /\ Radix * (Radix * Half) = (Radix * Radix) * Half
        BY <1>1, <2>3, <3>3
      <4>2. Modulus = Radix * (Radix * Half)
        BY <1>1, <4>1
      <4> QED BY <1>1, <2>3, <4>1, <4>2, ValuesAre
    <3>4. CASE i = 3
      <4> DEFINE d == Radix * Half
      <4>1. n - 1 - i = 0 /\ Radix * (Radix * Half) = (Radix * Radix) * Half
        BY <1>1, <2>3, <3>4
      <4>2. d \in Nat \ {0} /\ Modulus = Radix * d
        BY <1>1, <4>1
      <4> HIDE DEF d
      <4>3. Modulus = 1 * (Radix * d)
        BY <1>1, <4>2
      <4> QED BY <2>3, <4>1, <4>2, <4>3, ValuesAre
    <3> QED BY <2>3, <3>1, <3>2, <3>3, <3>4
  <2> QED BY <2>1, <2>2, <2>3 DEF Sizes
<1>3. PICK c \in Nat \ {0} : Values(n) = Values(n - 1 - i) * (Radix * c)
  BY <1>2
<1>4. Values(n - 1 - i) \in Nat \ {0}
  <2>1. n - 1 - i \in 0..4
    BY DEF Sizes
  <2> QED BY <2>1, ValuesAre
<1> QED BY <1>1, <1>3, <1>4, CutDigit
-----------------------------------------------------------------------------
(* Every access is one of the byte memory.  First, what its types say.     *)
LEMMA MemoryFacts ==
    ASSUME MemoryTypeOK
    PROVE  /\ ram \in Ram /\ gpr \in [Regs -> Word]
           /\ \A r \in Regs : gpr[r] \in Word
           /\ fpr[1] \in Word /\ fpr[2] \in Word
BY MemoryTyped DEF RamTyped

(* A load sees the item at its address (MEM_READ8_FN to MEM_READ32_FN).    *)
LEMMA LoadIsAccess ==
    ASSUME MemoryTypeOK, NEW a \in Word, NEW r \in Regs, NEW n \in Sizes, Load(a, n, r)
    PROVE  Flat!Load(a, n, r)
<1>1. Flat!Item(a, n) = Read(ram, a, n)
  BY MemoryFacts, ItemIsRead DEF Load
<1> QED BY <1>1 DEF Load, Flat!Load

(* Half is even: its square is a multiple of eight.                        *)
LEMMA HalfIsEven == Half % 2 = 0 /\ Half \in Nat
<1>1. Half \in Nat /\ Modulus = Half * Half /\ Modulus % 8 = 0
  BY WidthFacts, RamFacts DEF Modulus
<1> DEFINE k == Half \div 2
           j == Modulus \div 8
<1>2. (Half = 2 * k \/ Half = 2 * k + 1) /\ k \in Int
  BY <1>1
<1>3. Modulus = 8 * j /\ j \in Int
  <2>1. Modulus \in Nat
    BY WidthFacts
  <2> QED BY <1>1, <2>1
<1> HIDE DEF k, j
<1>4. CASE Half = 2 * k + 1
  <2> DEFINE i == 2 * (k * k) + 2 * k
  <2>1. Half * Half = 2 * i + 1 /\ i \in Int
    BY <1>2, <1>4
  <2> HIDE DEF i
  <2>2. 8 * j = 2 * i + 1
    BY <1>1, <1>3, <2>1
  <2> QED BY <1>3, <2>1, <2>2
<1> QED BY <1>1, <1>2, <1>4

(* lha extends by the sign: in two's complement or by a sum that wraps.    *)
LEMMA HalfLoadIsAccess ==
    ASSUME MemoryTypeOK, NEW a \in Word, NEW r \in Regs, LoadHalfAlgebraic(a, r)
    PROVE  Flat!LoadSigned(a, r)
<1> DEFINE v == Read(ram, a, 2)
<1>1. Aligned(a, 2) /\ 2 \in Sizes /\ ram \in Ram
  BY MemoryFacts DEF LoadHalfAlgebraic, Sizes
<1>2. Flat!Item(a, 2) = v
  BY <1>1, ItemIsRead
<1>3. v \in 0..(Half - 1)
  BY <1>1, ReadTyped, ValuesAre
<1>4. gpr' = [gpr EXCEPT ![r] = IF 2 * v >= Half THEN Add(v, -Half) ELSE v]
      /\ UNCHANGED <<ram, fpr>>
  BY DEF LoadHalfAlgebraic
<1> HIDE DEF v
<1>5. 2 * v >= Half <=> ~(v < Half \div 2)
  BY <1>3, HalfIsEven
<1>6. Add(v, -Half) = v + Modulus - Half
  <2> DEFINE y == v + Modulus - Half
  <2>1. Half \in Nat /\ Modulus \in Nat \ {0} /\ Half <= Modulus
    BY WidthFacts
  <2>2. y \in 0..(Modulus - 1)
    BY <1>3, <2>1
  <2>3. v + (-Half) = Modulus * (-1) + y
    BY <1>3, <2>1
  <2> HIDE DEF y
  <2>4. (Modulus * (-1) + y) % Modulus = y
    BY <2>1, <2>2, Remainder
  <2> QED BY <2>3, <2>4 DEF Add, y
<1>7. (IF 2 * v >= Half THEN Add(v, -Half) ELSE v)
        = (IF v < Half \div 2 THEN v ELSE v + Modulus - Half)
  BY <1>5, <1>6
<1>8. Flat!Half = Half /\ Flat!Modulus = Modulus
  BY FlatWidths
<1> QED BY <1>2, <1>4, <1>7, <1>8 DEF Flat!LoadSigned

(* lmw sees one item for each register.                                    *)
LEMMA MultipleLoadIsAccess ==
    ASSUME MemoryTypeOK, NEW a \in Word, NEW r \in Regs, LMW(a, r)
    PROVE  Flat!LoadMultiple(a, r)
<1>1. Aligned(a, 4) /\ 4 \in Sizes /\ ram \in Ram
  BY MemoryFacts DEF LMW, Sizes
<1>2. ASSUME NEW q \in Regs, q >= r
      PROVE  Flat!Item(Flat!Add(a, 4 * (q - r)), 4) = Read(ram, Add(a, 4 * (q - r)), 4)
  <2>1. 4 * (q - r) \in Nat /\ (4 * (q - r)) % 4 = 0
    BY <1>2 DEF Regs
  <2>2. Add(a, 4 * (q - r)) \in Word /\ Aligned(Add(a, 4 * (q - r)), 4)
    BY <1>1, <2>1, SumAligned
  <2> QED BY <1>1, <2>2, ItemIsRead, FlatWidths
<1>3. gpr' = [q \in Regs |-> IF q >= r THEN Read(ram, Add(a, 4 * (q - r)), 4) ELSE gpr[q]]
      /\ UNCHANGED <<ram, fpr>>
  BY DEF LMW
<1>4. \A q \in Regs : (IF q >= r THEN Read(ram, Add(a, 4 * (q - r)), 4) ELSE gpr[q])
        = (IF q \in Flat!From(r) THEN Flat!Item(Flat!Add(a, 4 * (q - r)), 4) ELSE gpr[q])
  BY <1>2 DEF Flat!From
<1> QED BY <1>3, <1>4 DEF Flat!LoadMultiple

(* A double is seen as two items.                                          *)
LEMMA DoubleLoadIsAccess ==
    ASSUME MemoryTypeOK, NEW a \in Word, LoadDouble(a)
    PROVE  Flat!LoadDouble(a)
<1>1. Aligned(a, 4) /\ 4 \in Sizes /\ ram \in Ram /\ 4 \in Nat /\ 4 % 4 = 0
  BY MemoryFacts DEF LoadDouble, Sizes
<1>2. Add(a, 4) \in Word /\ Aligned(Add(a, 4), 4)
  BY <1>1, SumAligned
<1>3. Flat!Item(a, 4) = Read(ram, a, 4)
      /\ Flat!Item(Flat!Add(a, 4), 4) = Read(ram, Add(a, 4), 4)
  BY <1>1, <1>2, ItemIsRead, FlatWidths
<1> QED BY <1>3 DEF LoadDouble, Flat!LoadDouble

-----------------------------------------------------------------------------
(* A store puts the digits of its number (MEM_WRITE8_FN to                 *)
(* MEM_WRITE32_FN).                                                        *)
LEMMA StoreIsAccess ==
    ASSUME MemoryTypeOK, MemoryTypeOK', NEW a \in Word, NEW n \in Sizes, Aligned(a, n),
           NEW v \in Word, NEW u \in Nat, u = v \/ u = v % Values(n),
           ram' = Written(ram, a, n, v), UNCHANGED <<gpr, fpr>>
    PROVE  Flat!Store(a, n, u)
<1> DEFINE g == [j \in 0..(n - 1) |-> Flat!Digit(u, n, j)]
<1>1. v \in Nat /\ n \in Nat /\ n <= RamSize /\ ram \in Ram /\ ram' \in Ram
  <2>1. v \in Nat
    BY WidthFacts DEF Word
  <2>2. n \in Nat /\ n <= RamSize
    BY RamFacts DEF Sizes
  <2>3. ram \in Ram /\ ram' \in Ram
    BY DEF MemoryTypeOK, Ram, Byte
  <2> QED BY <2>1, <2>2, <2>3
<1>2. \A i \in 0..(n - 1) : g[i] = (v \div Values(n - 1 - i)) % Radix
  <2> TAKE i \in 0..(n - 1)
  <2>1. g[i] = (u \div Values(n - 1 - i)) % Radix
    BY FlatWidths DEF Flat!Digit
  <2>2. ((v % Values(n)) \div Values(n - 1 - i)) % Radix = (v \div Values(n - 1 - i)) % Radix
    BY <1>1, CutDigits
  <2> HIDE DEF g
  <2> QED BY <2>1, <2>2
<1> HIDE DEF g
<1>3. Puts(ram', ram, a, n, g)
  BY <1>1, <1>2, WrittenPuts DEF Puts
<1>4. ASSUME NEW p \in 0..(RamSize - 1)
      PROVE  ram'[p] = IF Hit(a, n, p) THEN Flat!Digit(u, n, Here(a, n, p)) ELSE ram[p]
  <2>1. /\ Hit(a, n, p) => Here(a, n, p) \in 0..(n - 1) /\ ram'[p] = g[Here(a, n, p)]
        /\ ~Hit(a, n, p) => ram'[p] = ram[p]
    BY <1>1, <1>3, PutIs
  <2>2. \A j \in 0..(n - 1) : g[j] = Flat!Digit(u, n, j)
    BY DEF g
  <2> QED BY <2>1, <2>2
<1>5. ram' = [p \in DOMAIN ram |-> IF Hit(a, n, p) THEN Flat!Digit(u, n, Here(a, n, p)) ELSE ram[p]]
  BY <1>1, <1>4 DEF Ram
<1> QED BY <1>5 DEF Flat!Store, Flat!Put, Hit, Here

(* A store of words one after the other.                                   *)
LEMMA RunIsPut ==
    ASSUME ram \in Ram, NEW a \in Word, NEW N \in Nat, 4 * N <= RamSize, NEW v,
           ram' \in Ram, Puts(ram', ram, a, 4 * N, RunDigits(v, N))
    PROVE  ram' = [p \in DOMAIN ram |->
                      IF Hit(a, 4 * N, p)
                        THEN Flat!Digit(v[Here(a, 4 * N, p) \div 4], 4, Here(a, 4 * N, p) % 4)
                        ELSE ram[p]]
<1> DEFINE g == RunDigits(v, N)
           d(j) == Flat!Digit(v[j \div 4], 4, j % 4)
           n == 4 * N
<1>1. \A j \in 0..(n - 1) : g[j] = d(j)
  BY DEF RunDigits
<1>2. n \in Nat
  OBVIOUS
<1> HIDE DEF g, d
<1>3. ASSUME NEW p \in 0..(RamSize - 1)
      PROVE  ram'[p] = IF Hit(a, n, p) THEN d(Here(a, n, p)) ELSE ram[p]
  <2>1. Puts(ram', ram, a, n, g)
    BY DEF g
  <2> HIDE DEF n
  <2>2. /\ Hit(a, n, p) => Here(a, n, p) \in 0..(n - 1) /\ ram'[p] = g[Here(a, n, p)]
        /\ ~Hit(a, n, p) => ram'[p] = ram[p]
    <3>1. n <= RamSize
      BY DEF n
    <3> QED BY <1>2, <2>1, <3>1, PutIs
  <2> QED BY <1>1, <2>2
<1> HIDE DEF n
<1>4. ram' = [p \in DOMAIN ram |-> IF Hit(a, n, p) THEN d(Here(a, n, p)) ELSE ram[p]]
  BY <1>3 DEF Ram
<1> QED BY <1>4 DEF d, n

(* A double is stored as a run of two words.                               *)
LEMMA DoubleStoreIsAccess ==
    ASSUME MemoryTypeOK, NEW a \in Word, StoreDouble(a)
    PROVE  Flat!StoreDouble(a)
<1> DEFINE v == [k \in 0..1 |-> fpr[1 + k]]
           m == Written(ram, a, 4, fpr[1])
           f == [k \in 0..2 |-> CASE k = 0 -> ram [] k = 1 -> m [] OTHER -> ram']
<1>1. Aligned(a, 4) /\ ram \in Ram /\ fpr[1] \in Word /\ fpr[2] \in Word
      /\ ram' = Written(m, Add(a, 4), 4, fpr[2]) /\ UNCHANGED <<gpr, fpr>>
  BY MemoryFacts DEF StoreDouble
<1>2. f[0] = ram /\ f[1] = m /\ f[2] = ram'
  OBVIOUS
<1>3. v[0] = fpr[1] /\ v[1] = fpr[2] /\ \A k \in 0..1 : v[k] \in Word
  BY <1>1
<1>4. Add(a, 0) = a /\ a \in Int
  BY WidthFacts DEF Add, Word
<1> HIDE DEF f, v, m
<1>5. \A k \in 1..2 : f[k] = Written(f[k - 1], Add(a, 4 * (k - 1)), 4, v[k - 1])
  <2>1. f[1] = Written(f[1 - 1], Add(a, 4 * (1 - 1)), 4, v[1 - 1])
    BY <1>2, <1>3, <1>4 DEF m
  <2>2. f[2] = Written(f[2 - 1], Add(a, 4 * (2 - 1)), 4, v[2 - 1])
    BY <1>1, <1>2, <1>3
  <2>3. \A k \in 1..2 : k = 1 \/ k = 2
    OBVIOUS
  <2> QED BY <2>1, <2>2, <2>3
<1>6. 4 * 2 <= RamSize /\ 2 \in Nat /\ 0..(2 - 1) = 0..1
  BY RamFacts
<1>7. f[2] \in Ram /\ Puts(f[2], ram, a, 4 * 2, RunDigits(v, 2))
  BY <1>1, <1>2, <1>3, <1>5, <1>6, RunPuts
<1> DEFINE h(p) == Here(a, 4 * 2, p)
<1>8. ram' = [p \in DOMAIN ram |->
                 IF Hit(a, 4 * 2, p) THEN Flat!Digit(v[h(p) \div 4], 4, h(p) % 4) ELSE ram[p]]
  BY <1>1, <1>2, <1>6, <1>7, RunIsPut
<1>9. \A p \in DOMAIN ram : Hit(a, 4 * 2, p) =>
           h(p) \in 0..7 /\ v[h(p) \div 4] = fpr[1 + (h(p) \div 4)]
  <2> SUFFICES ASSUME NEW p \in 0..(RamSize - 1), Hit(a, 4 * 2, p)
               PROVE  h(p) \in 0..7 /\ v[h(p) \div 4] = fpr[1 + (h(p) \div 4)]
    BY <1>1 DEF Ram
  <2>1. Here(a, 4 * 2, p) \in 0..(4 * 2 - 1)
    BY <1>2, <1>6, <1>7, PutIs
  <2> DEFINE j == h(p) \div 4
  <2>2. h(p) \in 0..7 /\ (j = 0 \/ j = 1)
    BY <2>1
  <2> HIDE DEF j, h
  <2>3. v[j] = fpr[1 + j]
    BY <1>3, <2>2
  <2> QED BY <2>2, <2>3 DEF j
<1>10. ram' = [p \in DOMAIN ram |->
                 IF Hit(a, 8, p) THEN Flat!Digit(fpr[1 + (Here(a, 8, p) \div 4)], 4, Here(a, 8, p) % 4)
                 ELSE ram[p]]
  <2>1. 4 * 2 = 8
    OBVIOUS
  <2> QED BY <1>8, <1>9, <2>1
<1> QED BY <1>1, <1>10 DEF Flat!StoreDouble, Flat!Put, Hit, Here
-----------------------------------------------------------------------------
(* A line of the array is what one quotient of its places tells.           *)
LEMMA LinePlaces ==
    ASSUME NEW s \in Int, NEW p \in Int
    PROVE  p \in (Line * s)..(Line * s + Line - 1) <=> p \div Line = s
<1>1. Line \in Nat \ {0}
  BY MemoryAssumption
<1> DEFINE b == Line * s
           x == p - b
<1>2. b \in Int /\ x \in Int /\ p = b + x
  BY <1>1
<1>3. ASSUME p \in b..(b + Line - 1) PROVE p \div Line = s
  <2>1. x \in 0..(Line - 1)
    <3> HIDE DEF b
    <3> QED BY <1>1, <1>2, <1>3
  <2> HIDE DEF x
  <2>2. (Line * s + x) \div Line = s
    BY <1>1, <2>1, Quotient
  <2> QED BY <1>2, <2>2
<1>4. ASSUME p \div Line = s PROVE p \in b..(b + Line - 1)
  <2>1. p = Line * s + (p % Line) /\ (p % Line) \in 0..(Line - 1)
    <3> DEFINE q == p \div Line
               y == (p % Line)
    <3>1. p = Line * q + y /\ y \in Int /\ 0 <= y /\ y < Line
      BY <1>1, Division
    <3>2. q = s
      BY <1>4
    <3> HIDE DEF q, y
    <3>3. p = Line * s + y /\ y \in 0..(Line - 1)
      BY <1>1, <3>1, <3>2
    <3> QED BY <3>3 DEF y
  <2> DEFINE y == p % Line
  <2> HIDE DEF y
  <2>2. p = b + y /\ y \in 0..(Line - 1)
    BY <2>1 DEF y
  <2> HIDE DEF b
  <2> QED BY <1>1, <1>2, <2>2
<1> QED BY <1>3, <1>4

(* An address rounded down to a line lies in the same window.              *)
LEMMA LineOf ==
    ASSUME NEW a \in Word
    PROVE  LET c == a - (a % Line)
               s == (a % RamSize) \div Line
           IN  /\ c \in Word /\ s \in Int
               /\ c - (c % RamSize) = a - (a % RamSize)
               /\ c % RamSize = Line * s
<1> DEFINE k == RamSize \div Line
           q == a \div RamSize
           u == a % RamSize
           s == u \div Line
           w == u % Line
           c == a - (a % Line)
<1>1. Line \in Nat \ {0} /\ RamSize \in Nat \ {0} /\ RamSize % Line = 0
      /\ a \in Nat /\ a < Modulus /\ Modulus \in Nat
  BY MemoryAssumption, WidthFacts DEF Word
<1>2. RamSize = Line * k /\ k \in Int
  <2>1. RamSize = Line * k + (RamSize % Line) /\ k \in Int
    BY <1>1, Division
  <2> HIDE DEF k
  <2>2. Line * k \in Int
    BY <1>1, <2>1
  <2> QED BY <1>1, <2>1, <2>2
<1>3. a = RamSize * q + u /\ q \in Int /\ u \in 0..(RamSize - 1)
  BY <1>1, Division
<1>4. u = Line * s + w /\ s \in Int /\ w \in 0..(Line - 1)
  <2> HIDE DEF u
  <2> QED BY <1>1, <1>3, Division
<1>5. s >= 0
  <2> HIDE DEF s, w, u
  <2>1. CASE s <= -1
    <3>1. Line * s <= -Line
      BY <1>1, <1>4, <2>1
    <3>2. Line * s \in Int
      BY <1>1, <1>4
    <3> QED BY <1>1, <1>3, <1>4, <3>1, <3>2
  <2> QED BY <1>4, <2>1
<1> HIDE DEF k, q, s, w, u
<1> DEFINE d == Line * s
           e == RamSize * q
           i == k * q + s
<1>6. d \in Int /\ e \in Int /\ i \in Int /\ d >= 0 /\ Line * i = e + d
  <2>1. i \in Int /\ d \in Int /\ e \in Int
    BY <1>1, <1>2, <1>3, <1>4
  <2>2. d >= 0
    BY <1>1, <1>4, <1>5
  <2>3. Line * i = (Line * k) * q + Line * s
    BY <1>1, <1>2, <1>3, <1>4
  <2> QED BY <1>2, <2>1, <2>2, <2>3
<1>7. a = e + d + w /\ u = d + w
  BY <1>1, <1>3, <1>4, <1>6
<1>8. a % Line = w
  <2>1. (Line * i + w) % Line = w
    BY <1>1, <1>4, <1>6, Remainder
  <2> HIDE DEF i, d, e
  <2> QED BY <1>4, <1>6, <1>7, <2>1
<1>9. c = e + d
  <2>1. d \in Int /\ e \in Int /\ w \in Int
    BY <1>4, <1>6
  <2> HIDE DEF d, e, i
  <2>2. (e + d + w) - w = e + d
    BY <2>1
  <2> QED BY <1>7, <1>8, <2>2
<1> HIDE DEF c
<1>10. d \in 0..(RamSize - 1)
  <2> HIDE DEF d, e
  <2> QED BY <1>1, <1>3, <1>4, <1>6, <1>7
<1>11. c % RamSize = d
  <2>1. (RamSize * q + d) % RamSize = d
    <3> HIDE DEF d
    <3> QED BY <1>1, <1>3, <1>10, Remainder
  <2> QED BY <1>9, <2>1
<1>12. c \in Word
  <2>1. e >= 0
    <3>1. CASE q <= -1
      <4>1. e <= -RamSize
        BY <1>1, <1>3, <3>1
      <4>2. a = e + u /\ e \in Int /\ u \in 0..(RamSize - 1)
        BY <1>3, <1>6
      <4> HIDE DEF e, d, i
      <4> QED BY <1>1, <4>1, <4>2
    <3>2. CASE q >= 0
      BY <1>1, <1>3, <3>2
    <3> QED BY <1>3, <3>1, <3>2
  <2> HIDE DEF d, e
  <2> QED BY <1>1, <1>4, <1>6, <1>7, <1>9, <2>1 DEF Word
<1>13. c - (c % RamSize) = a - u
  <2> HIDE DEF d, e
  <2> QED BY <1>4, <1>6, <1>7, <1>9, <1>11
<1> QED BY <1>4, <1>11, <1>12, <1>13 DEF c, d, s, u

(* dcbz clears the line that the byte at its address lies in.              *)
LEMMA ClearIsAccess ==
    ASSUME MemoryTypeOK, NEW a \in Word, DCBZ(a)
    PROVE  Flat!Clear(a)
<1> DEFINE c == a - (a % Line)
           t == Translate(c)
           s == (a % RamSize) \div Line
           in == (a - (a % RamSize)) \in Bases
<1>1. /\ ram' = (IF t = Nowhere THEN ram
                 ELSE [p \in DOMAIN ram |-> IF p \in t..(t + Line - 1) THEN 0 ELSE ram[p]])
      /\ UNCHANGED <<gpr, fpr>>
  BY DEF DCBZ
<1>2. ram \in Ram
  BY MemoryFacts
<1>3. c \in Word /\ s \in Int /\ c - (c % RamSize) = a - (a % RamSize) /\ c % RamSize = Line * s
  BY LineOf
<1>4. t # Nowhere <=> in
  <2> HIDE DEF c
  <2> QED BY <1>3, WindowOf
<1>5. t # Nowhere => t = Line * s
  <2> HIDE DEF c, s
  <2> QED BY <1>3, TranslateIsRest
<1> HIDE DEF c, t, s, in
<1>6. \A p \in DOMAIN ram : p \in (Line * s)..(Line * s + Line - 1) <=> p \div Line = s
  <2>1. \A p \in DOMAIN ram : p \in Int
    BY <1>2, RamFacts DEF Ram
  <2> QED BY <1>3, <2>1, LinePlaces
<1>7. ram' = [p \in DOMAIN ram |-> IF in /\ p \div Line = s THEN 0 ELSE ram[p]]
  <2>1. CASE t = Nowhere
    <3>1. ram = [p \in DOMAIN ram |-> ram[p]]
      BY <1>2 DEF Ram
    <3> QED BY <1>1, <1>4, <2>1, <3>1
  <2>2. CASE t # Nowhere
    <3>1. ram' = [p \in DOMAIN ram |->
                    IF p \in (Line * s)..(Line * s + Line - 1) THEN 0 ELSE ram[p]]
      BY <1>1, <1>5, <2>2
    <3> QED BY <1>4, <1>6, <2>2, <3>1
  <2> QED BY <2>1, <2>2
<1> QED BY <1>1, <1>7 DEF Flat!Clear, in, s

-----------------------------------------------------------------------------
(* stmw is one store of as many words.                                     *)
LEMMA MultipleStoreIsAccess ==
    ASSUME MemoryTypeOK, NEW a \in Word, NEW r \in Regs, STMW(a, r)
    PROVE  Flat!StoreMultiple(a, r)
<1> DEFINE N == LastReg + 1 - r
           v == [k \in 0..(N - 1) |-> gpr[r + k]]
           last == CHOOSE q \in Regs : \A p \in Regs : p <= q
<1>1. Aligned(a, 4) /\ ram' = WrittenFrom(ram, a, r) /\ UNCHANGED <<gpr, fpr>>
  BY DEF STMW
<1>2. ram \in Ram /\ gpr \in [Regs -> Word]
  BY MemoryFacts
<1>3. r \in Nat /\ LastReg \in Nat /\ r <= LastReg /\ N \in Nat /\ 4 * N <= RamSize
  BY MemoryAssumption, RamFacts DEF Regs
<1>4. last = LastReg
  <2>1. LastReg \in Regs /\ \A p \in Regs : p <= LastReg
    BY <1>3 DEF Regs
  <2>2. last \in Regs /\ \A p \in Regs : p <= last
    BY <2>1
  <2> HIDE DEF last
  <2>3. last <= LastReg /\ LastReg <= last /\ last \in Int
    BY <2>1, <2>2 DEF Regs
  <2> QED BY <1>3, <2>3
<1>5. PICK f : /\ f[0] = ram /\ WrittenFrom(ram, a, r) = f[N]
               /\ \A k \in 1..N : f[k] = NextWord(f[k - 1], a, r, k)
  BY StoredWords
<1>6. \A k \in 0..(N - 1) : v[k] = gpr[r + k] /\ v[k] \in Word
  <2>1. \A k \in 0..(N - 1) : r + k \in Regs
    BY <1>3 DEF Regs
  <2> QED BY <1>2, <2>1
<1> HIDE DEF v
<1>7. \A k \in 1..N : f[k] = Written(f[k - 1], Add(a, 4 * (k - 1)), 4, v[k - 1])
  <2> TAKE k \in 1..N
  <2>1. k - 1 \in 0..(N - 1) /\ r + (k - 1) = r + k - 1
    BY <1>3
  <2>2. v[k - 1] = gpr[r + k - 1]
    BY <1>6, <2>1
  <2> QED BY <1>5, <2>2 DEF NextWord
<1> HIDE DEF N, last
<1>8. f[N] \in Ram /\ Puts(f[N], ram, a, 4 * N, RunDigits(v, N))
  BY <1>1, <1>2, <1>3, <1>5, <1>6, <1>7, RunPuts
<1>9. ram' \in Ram /\ Puts(ram', ram, a, 4 * N, RunDigits(v, N))
  BY <1>1, <1>5, <1>8
<1> DEFINE h(p) == Here(a, 4 * N, p)
<1>10. ram' = [p \in DOMAIN ram |->
                 IF Hit(a, 4 * N, p) THEN Flat!Digit(v[h(p) \div 4], 4, h(p) % 4) ELSE ram[p]]
  BY <1>2, <1>3, <1>9, RunIsPut
<1>11. \A p \in DOMAIN ram : Hit(a, 4 * N, p) => v[h(p) \div 4] = gpr[r + (h(p) \div 4)]
  <2> SUFFICES ASSUME NEW p \in 0..(RamSize - 1), Hit(a, 4 * N, p)
               PROVE  v[h(p) \div 4] = gpr[r + (h(p) \div 4)]
    BY <1>2 DEF Ram
  <2>1. 4 * N \in Nat
    BY <1>3
  <2>2. h(p) \in 0..(4 * N - 1)
    BY <1>3, <1>9, <2>1, PutIs
  <2> HIDE DEF h
  <2>3. h(p) \div 4 \in 0..(N - 1)
    BY <1>3, <2>2
  <2> QED BY <1>6, <2>3
<1>12. ram' = [p \in DOMAIN ram |->
                 IF Hit(a, 4 * N, p) THEN Flat!Digit(gpr[r + (h(p) \div 4)], 4, h(p) % 4)
                 ELSE ram[p]]
  BY <1>10, <1>11
<1>13. 4 * (last + 1 - r) = 4 * N
  BY <1>4 DEF N
<1> QED BY <1>1, <1>12, <1>13 DEF Flat!StoreMultiple, Flat!Put, Hit, Here, last
-----------------------------------------------------------------------------
(* Every step of the memory is an access of the byte memory.               *)
LEMMA MemoryIsAccess ==
    ASSUME MemoryTypeOK, MemoryNext
    PROVE  Flat!Access
<1>1. PICK a \in Addresses :
        \/ \E r \in Regs :
              \/ \E n \in {1, 2, 4} : Load(a, n, r) \/ Store(a, n, r)
              \/ LoadHalfAlgebraic(a, r) \/ LMW(a, r) \/ STMW(a, r)
        \/ LoadDouble(a) \/ StoreDouble(a) \/ STFIWX(a) \/ DCBZ(a)
  BY DEF MemoryNext
<1>2. a \in Word /\ MemoryTypeOK'
  BY MemoryAssumption, MemoryTypeStep
<1>3. ASSUME NEW r \in Regs, NEW n \in Sizes, Store(a, n, r)
      PROVE  Flat!Store(a, n, gpr[r] % Flat!Values(n))
  <2>1. Aligned(a, n) /\ ram' = Written(ram, a, n, gpr[r]) /\ UNCHANGED <<gpr, fpr>>
    BY <1>3 DEF Store
  <2> DEFINE v == gpr[r]
             u == v % Values(n)
  <2>2. v \in Word
    BY MemoryFacts
  <2> HIDE DEF v
  <2>3. u \in Nat
    <3>1. v \in Nat
      BY <2>2, WidthFacts DEF Word
    <3>2. Values(n) \in Nat \ {0}
      BY ValuesAre DEF Sizes
    <3> QED BY <3>1, <3>2, Division
  <2>4. u = v \/ u = v % Values(n)
    OBVIOUS
  <2>5. ram' = Written(ram, a, n, v)
    BY <2>1 DEF v
  <2> HIDE DEF u
  <2>6. Flat!Store(a, n, u)
    BY <1>2, <2>1, <2>2, <2>3, <2>4, <2>5, StoreIsAccess DEF u
  <2>7. u = gpr[r] % Flat!Values(n)
    BY FlatWidths DEF u, v
  <2> QED BY <2>6, <2>7
<1>4. ASSUME STFIWX(a) PROVE Flat!Store(a, 4, fpr[2])
  <2>1. Aligned(a, 4) /\ ram' = Written(ram, a, 4, fpr[2]) /\ UNCHANGED <<gpr, fpr>>
    BY <1>4 DEF STFIWX
  <2>2. fpr[2] \in Word /\ fpr[2] \in Nat /\ 4 \in Sizes
    BY MemoryFacts, WidthFacts DEF Word, Sizes
  <2> QED BY <1>2, <2>1, <2>2, StoreIsAccess
<1>5. CASE \E r \in Regs, n \in {1, 2, 4} : Load(a, n, r) \/ Store(a, n, r)
  <2>1. PICK r \in Regs, n \in Sizes : Load(a, n, r) \/ Store(a, n, r)
    BY <1>5 DEF Sizes
  <2>2. \/ asked' = <<"load", a, n, r>>  /\ Flat!Load(a, n, r)
        \/ asked' = <<"store", a, n, r>> /\ Flat!Store(a, n, gpr[r] % Flat!Values(n))
    <3>1. CASE Load(a, n, r)
      BY <1>2, <3>1, LoadIsAccess DEF Load
    <3>2. CASE Store(a, n, r)
      <4>1. asked' = <<"store", a, n, r>>
        BY <3>2 DEF Store
      <4> QED BY <1>3, <3>2, <4>1
    <3> QED BY <2>1, <3>1, <3>2
  <2> QED BY <2>2 DEF Flat!Access, Sizes
<1>6. CASE \E r \in Regs : LoadHalfAlgebraic(a, r) \/ LMW(a, r) \/ STMW(a, r)
  <2>1. PICK r \in Regs : LoadHalfAlgebraic(a, r) \/ LMW(a, r) \/ STMW(a, r)
    BY <1>6
  <2>2. /\ LoadHalfAlgebraic(a, r) => asked' = <<"lha", a, r>>
        /\ LMW(a, r) => asked' = <<"lmw", a, r>>
        /\ STMW(a, r) => asked' = <<"stmw", a, r>>
    BY DEF LoadHalfAlgebraic, LMW, STMW
  <2>3. \/ asked' = <<"lha", a, r>>  /\ Flat!LoadSigned(a, r)
        \/ asked' = <<"lmw", a, r>>  /\ Flat!LoadMultiple(a, r)
        \/ asked' = <<"stmw", a, r>> /\ Flat!StoreMultiple(a, r)
    BY <1>2, <2>1, <2>2, HalfLoadIsAccess, MultipleLoadIsAccess, MultipleStoreIsAccess
  <2> QED BY <2>3 DEF Flat!Access
<1>7. CASE LoadDouble(a) \/ StoreDouble(a) \/ STFIWX(a) \/ DCBZ(a)
  <2>1. /\ LoadDouble(a) => asked' = <<"lfd", a>>
        /\ StoreDouble(a) => asked' = <<"stfd", a>>
        /\ STFIWX(a) => asked' = <<"stfiwx", a>>
        /\ DCBZ(a) => asked' = <<"dcbz", a>>
    BY DEF LoadDouble, StoreDouble, STFIWX, DCBZ
  <2>2. \/ asked' = <<"lfd", a>> /\ Flat!LoadDouble(a)
        \/ asked' = <<"stfd", a>> /\ Flat!StoreDouble(a)
        \/ asked' = <<"stfiwx", a>> /\ Flat!Store(a, 4, fpr[2])
        \/ asked' = <<"dcbz", a>> /\ Flat!Clear(a)
    BY <1>2, <1>4, <1>7, <2>1, DoubleLoadIsAccess, DoubleStoreIsAccess, ClearIsAccess
  <2> QED BY <2>2 DEF Flat!Access
<1> QED BY <1>1, <1>5, <1>6, <1>7

(* A quantized store reaches no byte but those of its elements.            *)
LEMMA ElementsAreAccess ==
    ASSUME MemoryTypeOK, PairTypeOK, NEW a \in Addresses, NEW w \in BOOLEAN, PSQ_STORE(a, w)
    PROVE  Flat!PairAccess
<1> DEFINE type == gqr.stType
           scale == gqr.stScale
           n == TypeSize(type)
           b == SecondAt(a, type)
           all == IF w THEN n ELSE 2 * n
           S == Flat!Span(a, all)
<1>1. /\ Aligned(a, n) /\ UNCHANGED <<gpr, fpr>>
      /\ asked' = <<"psq_st", a, all>>
  BY DEF PSQ_STORE
<1>2. a \in Word /\ ram \in Ram /\ n \in Sizes /\ n \in 1..4
  BY MemoryAssumption, MemoryFacts, LimitFacts
<1>3. b \in Word /\ Aligned(b, n)
  <2>1. n \in Nat /\ n % n = 0
    BY <1>2 DEF Sizes
  <2> HIDE DEF n
  <2>2. Add(a, n) \in Word /\ Aligned(Add(a, n), n)
    BY <1>1, <1>2, <2>1, SumAligned
  <2> QED BY <2>2 DEF SecondAt, n
<1>4. all \in 1..8 /\ all \in Nat
  BY <1>2
<1>5. PICK q0 \in Int :
         \/ w /\ ram' = WrittenLane(ram, a, q0, type)
         \/ /\ ~w
            /\ \E q1 \in Int : ram' = WrittenLane(WrittenLane(ram, a, q0, type), b, q1, type)
  <2> HIDE DEF n, all, S, b
  <2> QED BY <1>2, StoredElements, QuantizedInt DEF b
<1> DEFINE first == WrittenLane(ram, a, q0, type)
           x == q0 % Limit(type)
<1>6. x \in Int /\ first \in Ram /\ first = Written(ram, a, n, x)
  BY <1>2, LaneWritten DEF WrittenLane
<1>7. \A p \in 0..(RamSize - 1) :
          (\A i \in 0..(n - 1) : Flat!Place(Add(a, i)) # p) => first[p] = ram[p]
  <2> HIDE DEF first, x, n
  <2> QED BY <1>1, <1>2, <1>6, WrittenPuts
<1>8. \A i \in 0..(all - 1) : Add(a, i) \in S
  BY FlatWidths DEF Flat!Span
<1> HIDE DEF S
<1>9. \A i \in 0..(n - 1) : i \in 0..(all - 1)
  BY <1>2
<1>10. ASSUME NEW p \in 0..(RamSize - 1), \A c \in S : Flat!Place(c) # p
       PROVE  first[p] = ram[p]
  <2> HIDE DEF first, n, all
  <2> QED BY <1>7, <1>8, <1>9, <1>10
<1>11. ram' \in Ram /\ \A p \in 0..(RamSize - 1) :
          (\A c \in S : Flat!Place(c) # p) => ram'[p] = ram[p]
  <2>1. CASE w
    BY <1>5, <1>6, <1>10, <2>1
  <2>2. CASE ~w
    <3>1. PICK q1 \in Int : ram' = WrittenLane(first, b, q1, type)
      BY <1>5, <2>2
    <3> DEFINE y == q1 % Limit(type)
    <3> HIDE DEF first
    <3>2. y \in Int /\ ram' \in Ram /\ ram' = Written(first, b, n, y)
      <4> HIDE DEF b
      <4> QED BY <1>3, <1>6, <3>1, LaneWritten DEF WrittenLane
    <3> HIDE DEF y
    <3>3. \A p \in 0..(RamSize - 1) :
            (\A i \in 0..(n - 1) : Flat!Place(Add(b, i)) # p) => ram'[p] = first[p]
      <4> HIDE DEF n, b
      <4> QED BY <1>2, <1>3, <1>6, <3>2, WrittenPuts
    <3>4. \A i \in 0..(n - 1) : Add(b, i) = Add(a, n + i) /\ n + i \in 0..(all - 1)
      <4>1. a \in Int /\ n \in Nat /\ b = Add(a, n) /\ all = 2 * n
        BY <1>2, <2>2, WidthFacts DEF Word, SecondAt
      <4> HIDE DEF n, b, all
      <4>2. ASSUME NEW i \in 0..(n - 1)
            PROVE  i \in Int /\ n + i \in 0..(all - 1)
        BY <4>1, <4>2
      <4> QED BY <4>1, <4>2, SumOfSums
    <3>5. ASSUME NEW p \in 0..(RamSize - 1), \A c \in S : Flat!Place(c) # p
          PROVE  ram'[p] = ram[p]
      <4>1. ram'[p] = first[p]
        <5> HIDE DEF n, b, all
        <5> QED BY <1>8, <3>3, <3>4, <3>5
      <4> QED BY <1>10, <3>5, <4>1
    <3> QED BY <3>2, <3>5
  <2> QED BY <2>1, <2>2
<1>12. Flat!StoreElements(a, all)
  <2> HIDE DEF all
  <2> QED BY <1>1, <1>2, <1>11 DEF Flat!StoreElements, S, Ram
<1> HIDE DEF all
<1> QED BY <1>1, <1>4, <1>12 DEF Flat!PairAccess

-----------------------------------------------------------------------------
(* Carry chains.                                                           *)

(* The range of a word is not empty.                                       *)
LEMMA ModulusPositive == Modulus \in Nat \ {0}
  <1>1. Half \in Nat \ {0}
    BY RadixAssumption DEF Half
  <1>. QED BY <1>1 DEF Modulus

CarryInv ==
  /\ CarryTypeOK /\ ChainIsExact
  /\ mode = "none" => weight = 1 /\ result = 0 /\ exact = 0

(* What a word appended below a carry does: whatever the weight, the word  *)
(* and the new carry stand for the wide sum they were cut from.            *)
LEMMA WordAndCarry ==
  ASSUME NEW w \in Nat, w < 2 * Modulus
  PROVE  /\ Low(w) \in 0..(Modulus - 1)
         /\ Low(w) + (IF Carries(w) THEN 1 ELSE 0) * Modulus = w
  BY ModulusPositive DEF Low, Carries

(* The same, with the weight of the words below.                           *)
LEMMA Distribute ==
  ASSUME NEW r \in Int, NEW c \in {0, 1}, NEW m \in Nat, NEW w \in Nat
  PROVE  (r + c * m) * w = r * w + c * (w * m)
  <1>1. CASE c = 0
    BY <1>1
  <1>2. CASE c = 1
    BY <1>2
  <1>. QED BY <1>1, <1>2

(* A number stays below its weight when a word is put before it.           *)
LEMMA Below ==
  ASSUME NEW r \in Nat, NEW w \in Nat \ {0}, r < w,
         NEW d \in 0..(Modulus - 1)
  PROVE  /\ r + d * w \in Nat
         /\ w * Modulus \in Nat \ {0}
         /\ r + d * w < w * Modulus
  <1>. DEFINE k == Modulus - 1 - d
  <1>1. k \in Nat /\ Modulus = d + 1 + k
    BY ModulusPositive
  <1>2. d * w \in Nat /\ k * w \in Nat
    BY <1>1
  <1>3. w * Modulus = d * w + w + k * w
    BY <1>1
  <1>. HIDE DEF k
  <1>4. w * Modulus \in Nat \ {0}
    BY <1>2, <1>3
  <1>. QED BY <1>2, <1>3, <1>4

(* Every instruction that extends a chain, whatever its words mean, keeps  *)
(* result and carry in step with the exact number.                         *)
LEMMA ExtendStep ==
  ASSUME CarryInv,
         NEW w \in Nat, w < 2 * Modulus, NEW signed \in Int,
         NEW c \in Int,
         ca' = IF Carries(w) THEN 1 ELSE 0,
         AppendWord(Low(w), signed),
         signed = w + c
  PROVE  /\ ca' \in {0, 1} /\ result' \in Nat /\ exact' \in Int
         /\ weight' \in Nat \ {0} /\ result' < weight'
         /\ exact' = exact + w * weight + c * weight
         /\ result' + ca' * weight' = result + w * weight
  <1>. DEFINE d == Low(w)
              k == IF Carries(w) THEN 1 ELSE 0
  <1>1. d \in 0..(Modulus - 1) /\ d + k * Modulus = w /\ k \in {0, 1}
    BY WordAndCarry
  <1>2. /\ result \in Nat /\ exact \in Int /\ weight \in Nat \ {0} /\ result < weight
        /\ result' = result + d * weight /\ exact' = exact + signed * weight
        /\ weight' = weight * Modulus /\ ca' = k
    BY DEF CarryInv, CarryTypeOK, ChainIsExact, AppendWord
  <1>. HIDE DEF d, k
  <1>3. /\ result + d * weight \in Nat
        /\ weight * Modulus \in Nat \ {0}
        /\ result + d * weight < weight * Modulus
    BY <1>1, <1>2, Below
  <1>4. (d + k * Modulus) * weight = d * weight + k * (weight * Modulus)
    BY <1>1, <1>2, Distribute, ModulusPositive
  <1>5. (w + c) * weight = w * weight + c * weight
    BY <1>2
  <1>6. /\ d * weight \in Int /\ w * weight \in Int /\ c * weight \in Int
        /\ signed * weight \in Int
    BY <1>1, <1>2
  <1>7. k * (weight * Modulus) \in Int
    BY <1>1, <1>3
  <1>8. d * weight + k * (weight * Modulus) = w * weight
    BY <1>1, <1>4
  <1>9. result' + ca' * weight' = result + w * weight
    <2>1. result' + ca' * weight' = (result + d * weight) + k * (weight * Modulus)
      BY <1>2
    <2>2. result \in Int
      BY <1>2
    <2>3. (result + d * weight) + k * (weight * Modulus) = result + w * weight
      BY <2>2, <1>6, <1>7, <1>8
    <2>. QED BY <2>1, <2>3
  <1>10. exact' = exact + w * weight + c * weight
    BY <1>2, <1>5, <1>6
  <1>. QED BY <1>1, <1>2, <1>3, <1>6, <1>9, <1>10

(* The initial state satisfies the invariant, and every instruction keeps  *)
(* it.                                                                     *)
LEMMA CarryInvInit == CarryInit => CarryInv
  BY DEF CarryInit, CarryInv, CarryTypeOK, ChainIsExact

(* A further word of a sum.                                                *)
LEMMA AddKeeps ==
  ASSUME CarryInv, mode = "add", mode' = mode,
         NEW a \in 0..(Modulus - 1), NEW b \in 0..(Modulus - 1),
         Extend(a, b, a + b)
  PROVE  CarryInv'
  <1>. USE ModulusPositive
  <1>1. /\ ca \in {0, 1} /\ weight \in Nat \ {0} /\ result \in Nat
        /\ exact = result + ca * weight
    BY DEF CarryInv, CarryTypeOK, ChainIsExact
  <1>2. /\ a + b + ca \in Nat /\ a + b + ca < 2 * Modulus
        /\ a + b \in Int /\ -ca \in Int /\ a + b = (a + b + ca) + (-ca)
    BY <1>1
  <1>3. /\ ca' = IF Carries(a + b + ca) THEN 1 ELSE 0
        /\ AppendWord(Low(a + b + ca), a + b)
    BY DEF Extend
  <1>. DEFINE w == a + b + ca
  <1>4. /\ ca' \in {0, 1} /\ result' \in Nat /\ exact' \in Int
        /\ weight' \in Nat \ {0} /\ result' < weight'
        /\ exact' = exact + w * weight + (-ca) * weight
        /\ result' + ca' * weight' = result + w * weight
    BY <1>2, <1>3, ExtendStep
  <1>5. w \in Nat
    BY <1>2
  <1>. HIDE DEF w
  <1>6. ca * weight + (-ca) * weight = 0 /\ ca * weight \in Int /\ w * weight \in Int
    BY <1>1, <1>5
  <1>7. exact' = result' + ca' * weight'
    BY <1>1, <1>4, <1>6
  <1>. QED BY <1>4, <1>7 DEF CarryInv, CarryTypeOK, ChainIsExact

(* A further word of a difference.                                         *)
LEMMA SubtractKeeps ==
  ASSUME CarryInv, mode = "subtract", mode' = mode,
         NEW a \in 0..(Modulus - 1), NEW b \in 0..(Modulus - 1),
         Extend(Not(a), b, b - a)
  PROVE  CarryInv'
  <1>. USE ModulusPositive
  <1>1. /\ ca \in {0, 1} /\ weight \in Nat \ {0} /\ result \in Nat
        /\ exact = result + (ca - 1) * weight
    BY DEF CarryInv, CarryTypeOK, ChainIsExact
  <1>. DEFINE w == Not(a) + b + ca
              c == 1 - ca - Modulus
  <1>2. /\ w \in Nat /\ w < 2 * Modulus /\ b - a \in Int
        /\ c \in Int /\ b - a = w + c
    BY <1>1 DEF Not
  <1>3. /\ ca' = IF Carries(w) THEN 1 ELSE 0
        /\ AppendWord(Low(w), b - a)
    BY DEF Extend
  <1>4. /\ ca' \in {0, 1} /\ result' \in Nat /\ exact' \in Int
        /\ weight' \in Nat \ {0} /\ result' < weight'
        /\ exact' = exact + w * weight + c * weight
        /\ result' + ca' * weight' = result + w * weight
    BY <1>2, <1>3, ExtendStep
  <1>5. weight' = weight * Modulus
    BY <1>3 DEF AppendWord
  <1>6. (1 - ca - Modulus) * weight = - ((ca - 1) * weight) - weight * Modulus
    BY <1>1
  <1>. HIDE DEF w
  <1>7. /\ (ca - 1) * weight \in Int /\ w * weight \in Int
        /\ weight * Modulus \in Int /\ c * weight \in Int
    BY <1>1, <1>2
  <1>8. exact' = result + w * weight - weight'
    BY <1>1, <1>4, <1>5, <1>6, <1>7
  <1>9. exact' = result' + ca' * weight' - weight'
    BY <1>4, <1>8, <1>1, <1>7
  <1>10. (ca' - 1) * weight' = ca' * weight' - weight'
    BY <1>4
  <1>11. ca' * weight' \in Int
    BY <1>4
  <1>12. exact' = result' + (ca' - 1) * weight'
    BY <1>4, <1>9, <1>10, <1>11
  <1>. QED BY <1>4, <1>12 DEF CarryInv, CarryTypeOK, ChainIsExact

(* The first word of a sum: the comparison finds the carry.                *)
LEMMA AddFirstKeeps ==
  ASSUME CarryInv, NEW a \in 0..(Modulus - 1), NEW b \in 0..(Modulus - 1),
         AddFirst(a, b)
  PROVE  CarryInv'
  <1>. USE ModulusPositive
  <1>1. weight = 1 /\ result = 0 /\ exact = 0 /\ mode' = "add"
    BY DEF CarryInv, AddFirst
  <1>2. (Low(a + b) < a) <=> Carries(a + b)
    BY DEF Low, Carries
  <1>3. /\ a + b \in Nat /\ a + b < 2 * Modulus /\ a + b \in Int
        /\ a + b = (a + b) + 0
    OBVIOUS
  <1>4. /\ ca' = IF Carries(a + b) THEN 1 ELSE 0
        /\ AppendWord(Low(a + b), a + b)
    BY <1>2 DEF AddFirst
  <1>5. /\ ca' \in {0, 1} /\ result' \in Nat /\ exact' \in Int
        /\ weight' \in Nat \ {0} /\ result' < weight'
        /\ exact' = exact + (a + b) * weight + 0 * weight
        /\ result' + ca' * weight' = result + (a + b) * weight
    BY <1>3, <1>4, ExtendStep
  <1>6. exact' = result' + ca' * weight'
    <2>1. (a + b) * weight = a + b /\ 0 * weight = 0
      BY <1>1
    <2>2. exact' = a + b
      BY <1>1, <1>5, <2>1
    <2>3. result' + ca' * weight' = result + (a + b) * weight
      BY <1>5
    <2>4. result + (a + b) * weight = a + b
      BY <1>1, <2>1
    <2>. QED BY <2>2, <2>3, <2>4
  <1>. QED BY <1>1, <1>5, <1>6 DEF CarryInv, CarryTypeOK, ChainIsExact

(* The first word of a difference.                                         *)
LEMMA SubtractFirstKeeps ==
  ASSUME CarryInv, NEW a \in 0..(Modulus - 1), NEW b \in 0..(Modulus - 1),
         SubtractFirst(a, b)
  PROVE  CarryInv'
  <1>. USE ModulusPositive
  <1>1. weight = 1 /\ result = 0 /\ exact = 0 /\ mode' = "subtract"
    BY DEF CarryInv, SubtractFirst
  <1>. DEFINE w == Not(a) + b + 1
  <1>2. /\ w \in Nat /\ w < 2 * Modulus /\ b - a \in Int
        /\ -Modulus \in Int /\ b - a = w + (-Modulus)
    BY DEF Not
  <1>3. /\ ca' = IF Carries(w) THEN 1 ELSE 0
        /\ AppendWord(Low(w), b - a)
    BY DEF SubtractFirst
  <1>4. /\ ca' \in {0, 1} /\ result' \in Nat /\ exact' \in Int
        /\ weight' \in Nat \ {0} /\ result' < weight'
        /\ exact' = exact + w * weight + (-Modulus) * weight
        /\ result' + ca' * weight' = result + w * weight
    BY <1>2, <1>3, ExtendStep
  <1>5. weight' = Modulus
    BY <1>1, <1>3 DEF AppendWord
  <1>. HIDE DEF w
  <1>6. exact' = result' + ca' * weight' - weight'
    <2>1. w * weight = w /\ (-Modulus) * weight = -Modulus
      BY <1>1, <1>2
    <2>2. exact' = w - Modulus
      BY <1>1, <1>2, <1>4, <2>1
    <2>3. result' + ca' * weight' = result + w * weight
      BY <1>4
    <2>4. result + w * weight = w
      BY <1>1, <1>2, <2>1
    <2>5. result' + ca' * weight' = w
      BY <2>3, <2>4
    <2>6. ca' * weight' \in Int
      BY <1>4
    <2>. QED BY <2>2, <2>5, <2>6, <1>4, <1>5
  <1>7. (ca' - 1) * weight' = ca' * weight' - weight' /\ ca' * weight' \in Int
    BY <1>4
  <1>8. exact' = result' + (ca' - 1) * weight'
    BY <1>4, <1>6, <1>7
  <1>. QED BY <1>1, <1>4, <1>8 DEF CarryInv, CarryTypeOK, ChainIsExact

(* Every instruction of a chain keeps the invariant: the first sets it up, *)
(* the others extend it by a word.                                         *)
LEMMA CarryInvStep == CarryInv /\ [CarryNext]_carryVars => CarryInv'
  <1>. SUFFICES ASSUME CarryInv, [CarryNext]_carryVars
                PROVE  CarryInv'
    OBVIOUS
  <1>. USE ModulusPositive
  <1>o. Operands \subseteq 0..(Modulus - 1)
    BY OperandsAssumption DEF Word
  <1>z. 0 \in 0..(Modulus - 1) /\ Modulus - 1 \in 0..(Modulus - 1)
    OBVIOUS
  <1>1. ASSUME NEW a \in Operands, NEW b \in Operands, AddFirst(a, b)
        PROVE  CarryInv'
    BY <1>1, <1>o, AddFirstKeeps
  <1>2. ASSUME NEW a \in Operands, NEW b \in Operands, SubtractFirst(a, b)
        PROVE  CarryInv'
    BY <1>2, <1>o, SubtractFirstKeeps
  <1>3. ASSUME NEW a \in Operands, NEW b \in Operands, Adde(a, b)
        PROVE  CarryInv'
    BY <1>3, <1>o, AddKeeps DEF Adde
  <1>4. ASSUME NEW a \in Operands, NEW b \in Operands, Subfe(a, b)
        PROVE  CarryInv'
    BY <1>4, <1>o, SubtractKeeps DEF Subfe
  <1>5. ASSUME NEW a \in Operands, Addze(a)
        PROVE  CarryInv'
    <2>1. a \in 0..(Modulus - 1) /\ Extend(a, 0, a + 0) /\ mode = "add" /\ mode' = mode
      BY <1>5, <1>o DEF Addze
    <2>. QED BY <2>1, <1>z, AddKeeps
  <1>6. ASSUME NEW a \in Operands, Addme(a)
        PROVE  CarryInv'
    <2>1. a + (Modulus - 1) = a + Modulus - 1
      BY <1>o
    <2>2. /\ a \in 0..(Modulus - 1) /\ Extend(a, Modulus - 1, a + (Modulus - 1))
          /\ mode = "add" /\ mode' = mode
      BY <1>6, <1>o, <2>1 DEF Addme
    <2>. QED BY <2>2, <1>z, AddKeeps
  <1>7. ASSUME NEW a \in Operands, Subfze(a)
        PROVE  CarryInv'
    <2>1. /\ a \in 0..(Modulus - 1) /\ Extend(Not(a), 0, 0 - a)
          /\ mode = "subtract" /\ mode' = mode
      BY <1>7, <1>o DEF Subfze
    <2>. QED BY <2>1, <1>z, SubtractKeeps
  <1>8. ASSUME NEW a \in Operands, Subfme(a)
        PROVE  CarryInv'
    <2>1. /\ a \in 0..(Modulus - 1) /\ Extend(Not(a), Modulus - 1, Modulus - 1 - a)
          /\ mode = "subtract" /\ mode' = mode
      BY <1>8, <1>o DEF Subfme
    <2>. QED BY <2>1, <1>z, SubtractKeeps
  <1>9. CASE UNCHANGED carryVars
    BY <1>9 DEF CarryInv, CarryTypeOK, ChainIsExact, carryVars
  <1>. QED
    BY <1>1, <1>2, <1>3, <1>4, <1>5, <1>6, <1>7, <1>8, <1>9 DEF CarryNext

(* Of every chain of the instructions that add or subtract with carry, of  *)
(* any length, on words of any width, the result and the last carry are    *)
(* the exact sum or difference (ADDIC, PPC_ADDC to PPC_ADDME).             *)
THEOREM ChainsAreExact == CarrySpec => []ChainIsExact
  <1>1. CarryInv => ChainIsExact
    BY DEF CarryInv
  <1>. QED BY CarryInvInit, CarryInvStep, <1>1, PTL DEF CarrySpec

(* Each step of the runtime is a step of the carry chain or leaves it, and *)
(* is a step of the dispatcher or leaves it.                               *)
LEMMA StepsOfParts ==
    ASSUME [Next]_vars
    PROVE  [CarryNext]_carryVars /\ [CallNext]_callVars
  <1>1. CASE Arithmetic
    BY <1>1 DEF Arithmetic, carryVars, callVars
  <1>2. CASE Memory
    BY <1>2 DEF Memory, carryVars, callVars
  <1>3. CASE Pairs
    BY <1>3 DEF Pairs, carryVars, callVars
  <1>4. CASE Calls
    BY <1>4 DEF Calls, carryVars, callVars
  <1>5. CASE UNCHANGED vars
    BY <1>5 DEF vars, carryVars, callVars
  <1>. QED BY <1>1, <1>2, <1>3, <1>4, <1>5 DEF Next

(* In the runtime, with any memory, table, capacity and budget, every      *)
(* chain of additions and subtractions with carry is exact, the dump shows *)
(* the latest calls, and the dispatcher enters what the table names        *)
(* (recomp_runtime.h, jump_table.c).                                       *)
THEOREM RuntimeIsTrue ==
  Spec => [](ChainIsExact /\ DumpShowsLatestCalls /\ DispatchAnswersByTable)
  <1>1. Init => CarryInit /\ CallInit
    BY DEF Init
  <1>2. [Next]_vars => [CarryNext]_carryVars /\ [CallNext]_callVars
    BY StepsOfParts
  <1>3. Spec => CarrySpec /\ CallSpec
    BY <1>1, <1>2, PTL DEF Spec, CarrySpec, CallSpec
  <1>. QED BY <1>3, ChainsAreExact, TraceIsTrue, DispatchIsByTable, PTL

-----------------------------------------------------------------------------
(* The runtime starts with memory, pairs and registers of their types.     *)
LEMMA PairsInvInit == Init => PairsInv
BY MemoryTypeInit, PairInitTyped DEF Init, PairsInv

(* It keeps them: a write to memory forgets the pair stored last.          *)
LEMMA PairsInvStep == PairsInv /\ [Next]_vars => PairsInv'
<1> SUFFICES ASSUME PairsInv, [Next]_vars PROVE PairsInv'
  OBVIOUS
<1>1. CASE Memory
  <2>1. MemoryTypeOK'
    BY <1>1, MemoryTypeStep DEF PairsInv, Memory
  <2>2. PairTypeOK'
    BY <1>1 DEF PairsInv, Memory, PairTypeOK
  <2>3. KeptInv'
    <3>1. kept' = IF ram' = ram THEN kept ELSE None
      BY <1>1 DEF Memory
    <3>2. CASE ram' = ram
      BY <3>1, <3>2, KeptStays DEF PairsInv
    <3>3. CASE ram' # ram
      <4>1. kept' = None
        BY <3>1, <3>3
      <4> QED BY <4>1 DEF KeptInv, None
    <3> QED BY <3>2, <3>3
  <2> QED BY <2>1, <2>2, <2>3 DEF PairsInv
<1>2. CASE Pairs
  BY <1>2, PairStep DEF Pairs
<1>3. CASE UNCHANGED <<memoryVars, pairVars>>
  <2>1. KeptInv'
    BY <1>3, KeptStays DEF memoryVars, pairVars, PairsInv
  <2> QED BY <1>3, <2>1 DEF memoryVars, pairVars, PairsInv, MemoryTypeOK, PairTypeOK
<1>4. CASE Arithmetic
  BY <1>3, <1>4 DEF Arithmetic
<1>5. CASE Calls
  BY <1>3, <1>5 DEF Calls
<1>6. CASE UNCHANGED vars
  BY <1>3, <1>6 DEF vars
<1> QED BY <1>1, <1>2, <1>4, <1>5, <1>6 DEF Next

Parts == {"carry", "memory", "pairs", "calls"}

LeftTyped == left \in [Parts -> Nat]

(* The budget is a count for each part.                                    *)
LEMMA LeftInit == Init => LeftTyped
BY BudgetsAssumption DEF Init, LeftTyped, Parts

(* It stays one.                                                           *)
LEMMA LeftStep == LeftTyped /\ [Next]_vars => LeftTyped'
<1> SUFFICES ASSUME LeftTyped, [Next]_vars PROVE LeftTyped'
  OBVIOUS
<1>1. ASSUME NEW part \in Parts, Spend(part) PROVE LeftTyped'
  <2>1. left \in [Parts -> Nat] /\ left[part] \in Nat /\ left[part] > 0
    BY <1>1 DEF LeftTyped, Spend
  <2>2. left' = [left EXCEPT ![part] = left[part] - 1] /\ left[part] - 1 \in Nat
    BY <1>1, <2>1 DEF Spend
  <2> QED BY <2>1, <2>2 DEF LeftTyped
<1>2. CASE UNCHANGED vars
  BY <1>2 DEF vars, LeftTyped
<1>3. CASE Next
  <2>1. Spend("carry") \/ Spend("memory") \/ Spend("pairs") \/ Spend("calls")
    BY <1>3 DEF Next, Arithmetic, Memory, Pairs, Calls
  <2> QED BY <1>1, <2>1 DEF Parts
<1> QED BY <1>2, <1>3

(* The ring's invariant bounds the cursor and the count.                   *)
LEMMA CallsTyped == RingInv => CallTypeOK
<1> SUFFICES ASSUME RingInv PROVE CallTypeOK
  OBVIOUS
<1>1. Len(log) \in Nat /\ Len(stack) \in Nat /\ Capacity \in Nat \ {0}
  BY DispatcherAssumption DEF RingInv
<1>2. cursor \in 0..(Capacity - 1)
  BY <1>1, SlotInRing DEF RingInv
<1> QED BY <1>1, <1>2 DEF RingInv, CallTypeOK

(* The chain's invariant has its types.                                    *)
LEMMA CarryTyped == CarryInv => CarryTypeOK
BY DEF CarryInv

(* Whatever its parts do in which order, every variable of the runtime     *)
(* keeps its type: memory stays a memory of bytes, registers hold words,   *)
(* lanes hold numbers, and the trace's counters stay in the ring           *)
(* (recomp_runtime.h, jump_table.c).                                       *)
THEOREM RuntimeTypeCorrect == Spec => []TypeOK
<1>1. Init => CarryInv /\ RingInv /\ PairsInv /\ LeftTyped
  BY CarryInvInit, RingInvInit, PairsInvInit, LeftInit DEF Init
<1>2. CarryInv /\ RingInv /\ PairsInv /\ LeftTyped /\ [Next]_vars
        => CarryInv' /\ RingInv' /\ PairsInv' /\ LeftTyped'
  BY CarryInvStep, RingInvStep, PairsInvStep, LeftStep, StepsOfParts
<1>3. CarryInv /\ RingInv /\ PairsInv /\ LeftTyped => TypeOK
  BY CallsTyped, CarryTyped DEF TypeOK, PairsInv, LeftTyped, Parts
<1> QED BY <1>1, <1>2, <1>3, PTL DEF Spec

(* A pair of multiples of the unit, stored at an aligned address through a *)
(* GQR with a scale below 32, loads as what its type can hold of it: a     *)
(* float as a nearest single, an integer as the number its rounding asks   *)
(* for, if the number fits an s32 once it is scaled, and else as some      *)
(* number of the type; until memory changes again, whatever the runtime    *)
(* does in between (PSQ_STORE, PSQ_LOAD, gqr_quantize_one,                 *)
(* gqr_dequantize_one).                                                    *)
THEOREM StoredPairsSurvive == Spec => []StoredPairsReadBack
BY PairsInvInit, PairsInvStep, PairsReadBack, PTL DEF Spec
-----------------------------------------------------------------------------
(* What a step of the runtime may do to memory, by whose budget it spends. *)
OfBytes ==
    CASE left'["memory"] < left["memory"] -> Flat!Access
      [] left'["pairs"] < left["pairs"]   ->
            Flat!PairAccess \/ UNCHANGED memoryVars
      [] OTHER -> UNCHANGED memoryVars

(* A part that spends takes from no other part's budget.                   *)
LEMMA OwnBudget ==
    ASSUME LeftTyped, NEW part \in Parts, Spend(part)
    PROVE  left'[part] < left[part] /\ \A q \in Parts : q # part => left'[q] = left[q]
BY DEF LeftTyped, Spend

(* Each part's step does to memory what its budget allows.                 *)
LEMMA StepOfBytes ==
    ASSUME PairsInv, LeftTyped, [Next]_vars
    PROVE  OfBytes
<1> DEFINE M == left'["memory"] < left["memory"]
           P == left'["pairs"] < left["pairs"]
<1>1. "carry" \in Parts /\ "memory" \in Parts /\ "pairs" \in Parts /\ "calls" \in Parts
      /\ MemoryTypeOK /\ PairTypeOK /\ \A q \in Parts : left[q] \in Nat
  BY DEF Parts, PairsInv, LeftTyped
<1>2. (M => left'["memory"] # left["memory"]) /\ (P => left'["pairs"] # left["pairs"])
  BY <1>1
<1>3. M /\ ~P /\ Flat!Access => OfBytes
  BY DEF OfBytes
<1>4. P /\ ~M /\ (Flat!PairAccess \/ UNCHANGED memoryVars) => OfBytes
  BY DEF OfBytes
<1>5. ~P /\ ~M /\ UNCHANGED memoryVars => OfBytes
  BY DEF OfBytes
<1> HIDE DEF M, P
<1>6. CASE Memory
  <2>1. M /\ ~P
    BY <1>1, <1>2, <1>6, OwnBudget DEF Memory, M
  <2>2. Flat!Access
    BY <1>1, <1>6, MemoryIsAccess DEF Memory
  <2> QED BY <1>3, <2>1, <2>2
<1>7. CASE Pairs
  <2>1. P /\ ~M
    BY <1>1, <1>2, <1>7, OwnBudget DEF Pairs, P
  <2>2. PairNext
    BY <1>7 DEF Pairs
  <2>3. CASE SetGqr \/ SetLanes \/ \E a \in Addresses, w \in BOOLEAN : PSQ_LOAD(a, w)
    <3>1. UNCHANGED memoryVars
      BY <2>3 DEF SetGqr, SetLanes, PSQ_LOAD, memoryVars
    <3> QED BY <1>4, <2>1, <3>1
  <2>4. CASE \E a \in Addresses, w \in BOOLEAN : PSQ_STORE(a, w)
    <3>1. PICK a \in Addresses, w \in BOOLEAN : PSQ_STORE(a, w)
      BY <2>4
    <3>2. Flat!PairAccess
      BY <1>1, <3>1, ElementsAreAccess
    <3> QED BY <1>4, <2>1, <3>2
  <2> QED BY <2>2, <2>3, <2>4 DEF PairNext
<1>8. CASE Arithmetic
  <2>1. ~P /\ ~M
    BY <1>1, <1>2, <1>8, OwnBudget DEF Arithmetic
  <2> QED BY <1>5, <1>8, <2>1 DEF Arithmetic
<1>9. CASE Calls
  <2>1. ~P /\ ~M
    BY <1>1, <1>2, <1>9, OwnBudget DEF Calls
  <2> QED BY <1>5, <1>9, <2>1 DEF Calls
<1>10. CASE UNCHANGED vars
  <2>1. left' = left /\ UNCHANGED memoryVars
    BY <1>10 DEF vars
  <2>2. ~P /\ ~M
    BY <1>2, <2>1
  <2> QED BY <1>5, <2>1, <2>2
<1> QED BY <1>6, <1>7, <1>8, <1>9, <1>10 DEF Next

(* Through every window and by every width, an aligned access to an        *)
(* address is that access to that address of one memory of bytes: it       *)
(* reaches each byte at the byte's own address and nothing else.  A        *)
(* quantized store changes no byte but those of its elements, and nothing  *)
(* else changes memory or the registers (MEM_READ8_FN to                   *)
(* MEM_WRITE_DOUBLE_FN, LMW, STMW, DCBZ, PSQ_STORE).                       *)
THEOREM MemoryIsByteMemory == Spec => MemoryIsBytes
<1>1. Init => PairsInv /\ LeftTyped
  BY PairsInvInit, LeftInit
<1>2. PairsInv /\ LeftTyped /\ [Next]_vars => PairsInv' /\ LeftTyped'
  BY PairsInvStep, LeftStep
<1>3. PairsInv /\ LeftTyped /\ [Next]_vars => [OfBytes]_vars
  BY StepOfBytes
<1> QED BY <1>1, <1>2, <1>3, PTL DEF Spec, MemoryIsBytes, OfBytes
=============================================================================
