--------------------------- MODULE MultiWord_proofs ---------------------------
(***************************************************************************)
(* Proofs that the multi-word integers of softfloat.c compute with the     *)
(* numbers they stand for, for words of any even width.  Powers of two,    *)
(* division and digits come first; then four words, two words, products    *)
(* and division.                                                           *)
(***************************************************************************)
EXTENDS SoftFloatLaws, FiniteSetTheorems, WellFoundedInduction, TLAPS

-----------------------------------------------------------------------------
\* Induction on the naturals, for a set.
LEMMA Induction ==
  ASSUME NEW S \in SUBSET Nat, 0 \in S, \A n \in S : n + 1 \in S
  PROVE  S = Nat
<1> SUFFICES ASSUME Nat \ S # {} PROVE FALSE
  OBVIOUS
<1> DEFINE R == OpToRel(<, Nat)
<1>1. IsWellFoundedOn(R, Nat)
  BY NatLessThanWellFounded
<1>2. R = {p \in Nat \X Nat : p[1] < p[2]}
  BY DEF OpToRel
<1> HIDE DEF R
<1>3. PICK x \in Nat \ S : \A y \in Nat \ S : <<y, x>> \notin R
  BY <1>1, WFMin
<1>4. x # 0 /\ x - 1 \in Nat /\ x - 1 + 1 = x
  BY <1>3
<1>5. x - 1 \in S
  <2>1. <<x - 1, x>> \in Nat \X Nat /\ x - 1 < x
    BY <1>4
  <2>2. <<x - 1, x>> \in R
    BY <1>2, <2>1
  <2> QED BY <1>3, <1>4, <2>2
<1> QED BY <1>3, <1>4, <1>5

\* Two to the n counts the subsets of n elements: the library has its facts about
\* cardinalities, and none about powers.
LEMMA PowIs ==
  ASSUME NEW n \in Nat
  PROVE  /\ IsFiniteSet(SUBSET (1..n)) /\ Cardinality(SUBSET (1..n)) = 2^n
         /\ 2^n \in Nat \ {0}
<1>1. IsFiniteSet(1..n) /\ Cardinality(1..n) = n
  BY FS_Interval
<1>2. IsFiniteSet(SUBSET (1..n)) /\ Cardinality(SUBSET (1..n)) = 2^n
  BY <1>1, FS_SUBSET
<1>3. {} \in SUBSET (1..n)
  OBVIOUS
<1>4. Cardinality(SUBSET (1..n)) \in Nat /\ Cardinality(SUBSET (1..n)) # 0
  BY <1>2, <1>3, FS_CardinalityType, FS_EmptySet
<1> QED BY <1>2, <1>4

\* The subsets of n + 1 elements are those without the last and those with it.
LEMMA PowStep ==
  ASSUME NEW n \in Nat
  PROVE  2^(n + 1) = 2 * 2^n
<1> DEFINE A == SUBSET (1..n)
           C == {s \cup {n + 1} : s \in A}
           f == [s \in A |-> s \cup {n + 1}]
<1>1. IsFiniteSet(A) /\ Cardinality(A) = 2^n /\ 2^n \in Nat
  BY PowIs
<1>2. f \in Bijection(A, C)
  <2>1. f \in [A -> C]
    OBVIOUS
  <2>2. \A s, t \in A : f[s] = f[t] => s = t
    <3> SUFFICES ASSUME NEW s \in A, NEW t \in A, f[s] = f[t] PROVE s = t
      OBVIOUS
    <3>1. s \cup {n + 1} = t \cup {n + 1}
      OBVIOUS
    <3>2. n + 1 \notin s /\ n + 1 \notin t
      OBVIOUS
    <3> QED BY <3>1, <3>2
  <2>3. \A c \in C : \E s \in A : f[s] = c
    OBVIOUS
  <2> HIDE DEF A, C, f
  <2> QED BY <2>1, <2>2, <2>3 DEF Bijection, Injection, Surjection, IsInjective
<1>3. IsFiniteSet(C) /\ Cardinality(C) = 2^n
  <2> HIDE DEF A, C, f
  <2>1. ExistsBijection(A, C)
    BY <1>2 DEF ExistsBijection
  <2> QED BY <1>1, <2>1, FS_Bijection
<1>4. SUBSET (1..n + 1) = A \cup C
  <2>1. ASSUME NEW s \in SUBSET (1..n + 1) PROVE s \in A \cup C
    <3>1. CASE n + 1 \in s
      <4>1. s \ {n + 1} \in A
        OBVIOUS
      <4>2. s = (s \ {n + 1}) \cup {n + 1}
        BY <3>1
      <4> QED BY <4>1, <4>2
    <3>2. CASE n + 1 \notin s
      BY <3>2
    <3> QED BY <3>1, <3>2
  <2>2. A \cup C \subseteq SUBSET (1..n + 1)
    <3>1. (1..n) \subseteq (1..n + 1) /\ n + 1 \in 1..n + 1
      OBVIOUS
    <3>2. \A s \in A : s \subseteq 1..n + 1 /\ s \cup {n + 1} \subseteq 1..n + 1
      BY <3>1
    <3> QED BY <3>2, ZenonT(60)
  <2> QED BY <2>1, <2>2
<1>5. A \cap C = {}
  <2>1. \A s \in A : n + 1 \notin s
    OBVIOUS
  <2>2. \A c \in C : n + 1 \in c
    OBVIOUS
  <2> HIDE DEF A, C
  <2> QED BY <2>1, <2>2
<1>6. Cardinality(A \cup C) = 2^n + 2^n - Cardinality({})
  <2> HIDE DEF A, C
  <2> QED BY <1>1, <1>3, <1>5, FS_Union
<1>7. Cardinality(SUBSET (1..n + 1)) = 2^(n + 1)
  <2>1. n + 1 \in Nat
    OBVIOUS
  <2> QED BY <2>1, PowIs
<1>8. 2^(n + 1) = 2^n + 2^n - 0
  <2>1. Cardinality(A \cup C) = 2^(n + 1)
    <3> HIDE DEF A, C
    <3> QED BY <1>4, <1>7
  <2>2. Cardinality({}) = 0
    BY FS_EmptySet
  <2> HIDE DEF A, C
  <2> QED BY <1>6, <2>1, <2>2
<1> QED BY <1>1, <1>8

\* Powers of two multiply by adding their exponents.
LEMMA PowSum ==
  ASSUME NEW a \in Nat, NEW b \in Nat
  PROVE  2^(a + b) = 2^a * 2^b
<1> DEFINE S == {n \in Nat : 2^(a + n) = 2^a * 2^n}
<1>1. 0 \in S
  <2>1. 2^0 = 1 /\ a + 0 = a
    OBVIOUS
  <2>2. 2^a \in Nat
    BY PowIs
  <2> QED BY <2>1, <2>2
<1>2. \A n \in S : n + 1 \in S
  <2> SUFFICES ASSUME NEW n \in S PROVE 2^(a + (n + 1)) = 2^a * 2^(n + 1)
    OBVIOUS
  <2>1. 2^(a + n) = 2^a * 2^n /\ a + n \in Nat
    OBVIOUS
  <2>5. 2^a \in Nat /\ 2^n \in Nat
    <3>1. 2^a \in Nat
      BY PowIs
    <3>2. 2^n \in Nat
      BY PowIs
    <3> QED BY <3>1, <3>2
  <2>2. a + (n + 1) = (a + n) + 1
    OBVIOUS
  <2>3. 2^(a + (n + 1)) = 2 * 2^(a + n)
    BY <2>1, <2>2, PowStep
  <2>4. 2^(n + 1) = 2 * 2^n
    BY PowStep
  <2>6. 2 * (2^a * 2^n) = 2^a * (2 * 2^n)
    BY <2>5
  <2> QED BY <2>1, <2>3, <2>4, <2>6
<1>3. S = Nat
  <2> HIDE DEF S
  <2>1. S \in SUBSET Nat
    BY DEF S
  <2> QED BY <1>1, <1>2, <2>1, Induction
<1> QED BY <1>3

\* A power of two is even, but for the first.
LEMMA PowEven ==
  ASSUME NEW n \in Nat \ {0}
  PROVE  2^n = 2 * 2^(n - 1) /\ 2^(n - 1) \in Nat \ {0}
<1>1. n - 1 \in Nat /\ n = (n - 1) + 1
  OBVIOUS
<1> QED BY <1>1, PowStep, PowIs

\* The words.
LEMMA BaseIs ==
  /\ Base \in Nat /\ Half \in Nat /\ Half >= 2 /\ Base = Half * Half /\ Base >= 4
  /\ \E e \in Nat : Base = 2 * e
  /\ W \in Nat /\ W >= 2
<1>1. PICK h \in Nat : h = W \div 2 /\ W = h + h /\ h # 0
  BY WordsAssumption
<1>2. Half = 2^h /\ Base = 2^(h + h)
  BY <1>1 DEF Half, Base
<1>3. 2^(h + h) = 2^h * 2^h
  BY PowSum
<1>4. 2^h = 2 * 2^(h - 1) /\ 2^(h - 1) \in Nat \ {0}
  BY <1>1, PowEven
<1>5. PICK x \in Nat \ {0} : x = 2^(h - 1)
  BY <1>4
<1>6. Half = 2 * x /\ Base = (2 * x) * (2 * x)
  BY <1>2, <1>3, <1>4, <1>5
<1>7. (2 * x) * (2 * x) >= 4
  <2>1. x * x >= 1
    OBVIOUS
  <2> QED BY <2>1
<1>8. Base = 2 * (x * (2 * x))
  BY <1>6
<1>9. x * (2 * x) \in Nat
  OBVIOUS
<1> QED BY <1>1, <1>6, <1>7, <1>8, <1>9

-----------------------------------------------------------------------------
\* Quotient and remainder.
LEMMA DivMod ==
  ASSUME NEW n \in Int, NEW b \in Nat \ {0}
  PROVE  /\ n \div b \in Int /\ n % b \in 0..b - 1
         /\ n = b * (n \div b) + (n % b)
         /\ n \in Nat => n \div b \in Nat
  OBVIOUS

\* The quotient and the remainder are the only numbers of their kind.
LEMMA DivModIs ==
  ASSUME NEW n \in Int, NEW b \in Nat \ {0}, NEW q \in Int, NEW r \in 0..b - 1,
         n = b * q + r
  PROVE  n \div b = q /\ n % b = r
<1>1. PICK p \in Int, s \in 0..b - 1 : p = n \div b /\ s = n % b /\ n = b * p + s
  BY DivMod
<1>2. b * (p - q) = r - s
  BY <1>1
<1>3. p = q
  <2>1. CASE p > q
    <3>1. b * (p - q) >= b
      <4>1. PICK d \in Nat : p - q = d + 1
        BY <2>1
      <4>2. b * d \in Nat /\ b * (d + 1) = b * d + b
        OBVIOUS
      <4> QED BY <4>1, <4>2
    <3> QED BY <1>2, <3>1
  <2>2. CASE p < q
    <3>1. b * (q - p) >= b
      <4>1. PICK d \in Nat : q - p = d + 1
        BY <2>2
      <4>2. b * d \in Nat /\ b * (d + 1) = b * d + b
        OBVIOUS
      <4> QED BY <4>1, <4>2
    <3>2. b * (q - p) = s - r
      BY <1>2
    <3> QED BY <3>1, <3>2
  <2> QED BY <2>1, <2>2
<1>4. b * (p - q) = 0
  BY <1>3
<1> QED BY <1>1, <1>2, <1>3, <1>4

\* Dividing twice is dividing by the product.
LEMMA DivDiv ==
  ASSUME NEW n \in Int, NEW a \in Nat \ {0}, NEW b \in Nat \ {0}
  PROVE  (n \div a) \div b = n \div (a * b)
<1>1. PICK q \in Int, r \in 0..a - 1 : q = n \div a /\ n = a * q + r
  BY DivMod
<1>2. PICK p \in Int, s \in 0..b - 1 : p = q \div b /\ q = b * p + s
  BY DivMod
<1>3. n = (a * b) * p + (a * s + r)
  <2>1. n = a * (b * p + s) + r
    BY <1>1, <1>2
  <2>2. a * (b * p + s) = (a * b) * p + a * s
    OBVIOUS
  <2> QED BY <2>1, <2>2
<1>4. a * s + r \in 0..a * b - 1 /\ a * b \in Nat \ {0}
  <2>1. a * s <= a * (b - 1)
    <3>1. PICK d \in Nat : b - 1 = s + d
      OBVIOUS
    <3>2. a * (s + d) = a * s + a * d /\ a * d \in Nat
      OBVIOUS
    <3> QED BY <3>1, <3>2
  <2>2. a * (b - 1) = a * b - a /\ a * b \in Nat /\ a * s \in Nat
    OBVIOUS
  <2>3. a * b # 0
    OBVIOUS
  <2> QED BY <2>1, <2>2, <2>3
<1>5. n \div (a * b) = p
  BY <1>3, <1>4, DivModIs
<1> QED BY <1>1, <1>2, <1>5

-----------------------------------------------------------------------------
\* The powers of the base that the laws mention.
LEMMA AllIs ==
  /\ 2^(1 * W) = Base
  /\ 2^(2 * W) = Base * Base
  /\ 2^(3 * W) = Base * (Base * Base)
  /\ 2^(4 * W) = Base * (Base * (Base * Base))
<1>1. W \in Nat /\ Base = 2^W
  BY BaseIs DEF Base
<1>2. 1 * W = W /\ 2 * W = W + W /\ 3 * W = W + 2 * W /\ 4 * W = W + 3 * W
      /\ 2 * W \in Nat /\ 3 * W \in Nat
  BY <1>1
<1>3. 2^(W + W) = 2^W * 2^W
  BY <1>1, PowSum
<1>4. 2^(W + 2 * W) = 2^W * 2^(2 * W)
  BY <1>1, <1>2, PowSum
<1>5. 2^(W + 3 * W) = 2^W * 2^(3 * W)
  BY <1>1, <1>2, PowSum
<1> QED BY <1>1, <1>2, <1>3, <1>4, <1>5

\* Carries that go from digit to digit cancel out.
Carries(x, y, c) ==
  /\ x \in [0..3 -> Int] /\ y \in [0..3 -> Int] /\ c \in [0..4 -> Int]
  /\ \A i \in 0..3 : x[i] + Base * c[i + 1] = y[i] + c[i]

\* Digits that differ by what each takes from the place below and gives to the
\* next make numbers that differ by what leaves the highest place.
LEMMA Chain ==
  ASSUME NEW x, NEW y, NEW c, Carries(x, y, c)
  PROVE  /\ Value(x) \in Int /\ Value(y) \in Int /\ c[0] \in Int /\ c[4] \in Int
         /\ Value(x) + 2^(4 * W) * c[4] = Value(y) + c[0]
<1>1. PICK B \in Int : B = Base
  BY BaseIs
<1>2. PICK x0 \in Int, x1 \in Int, x2 \in Int, x3 \in Int :
        x0 = x[0] /\ x1 = x[1] /\ x2 = x[2] /\ x3 = x[3]
  BY DEF Carries
<1>3. PICK y0 \in Int, y1 \in Int, y2 \in Int, y3 \in Int :
        y0 = y[0] /\ y1 = y[1] /\ y2 = y[2] /\ y3 = y[3]
  BY DEF Carries
<1>4. PICK c0 \in Int, c1 \in Int, c2 \in Int, c3 \in Int, c4 \in Int :
        c0 = c[0] /\ c1 = c[1] /\ c2 = c[2] /\ c3 = c[3] /\ c4 = c[4]
  <2>1. c[0] \in Int /\ c[1] \in Int /\ c[2] \in Int /\ c[3] \in Int /\ c[4] \in Int
    BY DEF Carries
  <2> QED BY <2>1
<1>5. /\ x0 + B * c1 = y0 + c0 /\ x1 + B * c2 = y1 + c1
      /\ x2 + B * c3 = y2 + c2 /\ x3 + B * c4 = y3 + c3
  BY <1>1, <1>2, <1>3, <1>4 DEF Carries
<1>6. x0 + B * (x1 + B * (x2 + B * x3)) + (B * (B * (B * B))) * c4
        = y0 + B * (y1 + B * (y2 + B * y3)) + c0
  <2>1. PICK d1 \in Int : d1 = x3 + B * c4 /\ d1 = y3 + c3
    BY <1>5
  <2>2. B * d1 = B * y3 + B * c3
    BY <2>1
  <2>3. PICK d2 \in Int : d2 = x2 + B * d1 /\ d2 = y2 + B * y3 + c2
    BY <1>5, <2>2
  <2>4. B * d2 = B * (y2 + B * y3) + B * c2
    BY <2>3
  <2>5. PICK d3 \in Int : d3 = x1 + B * d2 /\ d3 = y1 + B * (y2 + B * y3) + c1
    BY <1>5, <2>4
  <2>6. B * d3 = B * (y1 + B * (y2 + B * y3)) + B * c1
    BY <2>5
  <2>7. x0 + B * d3 = y0 + B * (y1 + B * (y2 + B * y3)) + c0
    BY <1>5, <2>6
  <2>8. B * d1 = B * x3 + B * (B * c4)
    BY <2>1
  <2>9. B * d2 = B * (x2 + B * x3) + B * (B * (B * c4))
    <3>1. d2 = (x2 + B * x3) + B * (B * c4)
      BY <2>3, <2>8
    <3> QED BY <3>1
  <2>10. B * d3 = B * (x1 + B * (x2 + B * x3)) + (B * (B * (B * B))) * c4
    <3>1. d3 = (x1 + B * (x2 + B * x3)) + B * (B * (B * c4))
      BY <2>5, <2>9
    <3>2. B * d3 = B * (x1 + B * (x2 + B * x3)) + B * (B * (B * (B * c4)))
      BY <3>1
    <3>3. B * (B * (B * (B * c4))) = (B * (B * (B * B))) * c4
      OBVIOUS
    <3> QED BY <3>2, <3>3
  <2> QED BY <2>7, <2>10
<1>7. Value(x) = x0 + B * (x1 + B * (x2 + B * x3))
  BY <1>1, <1>2 DEF Value
<1>8. Value(y) = y0 + B * (y1 + B * (y2 + B * y3))
  BY <1>1, <1>3 DEF Value
<1> QED BY <1>1, <1>4, <1>6, <1>7, <1>8, AllIs

\* Numbers are added, and subtracted, digit by digit.
LEMMA ValueLinear ==
  ASSUME NEW x \in [0..3 -> Int], NEW y \in [0..3 -> Int]
  PROVE  /\ Value([i \in 0..3 |-> x[i] + y[i]]) = Value(x) + Value(y)
         /\ Value([i \in 0..3 |-> x[i] - y[i]]) = Value(x) - Value(y)
<1>1. PICK B \in Int : B = Base
  BY BaseIs
<1>2. PICK x0 \in Int, x1 \in Int, x2 \in Int, x3 \in Int :
        x0 = x[0] /\ x1 = x[1] /\ x2 = x[2] /\ x3 = x[3]
  OBVIOUS
<1>3. PICK y0 \in Int, y1 \in Int, y2 \in Int, y3 \in Int :
        y0 = y[0] /\ y1 = y[1] /\ y2 = y[2] /\ y3 = y[3]
  OBVIOUS
<1>4. Value([i \in 0..3 |-> x[i] + y[i]])
        = (x0 + y0) + B * ((x1 + y1) + B * ((x2 + y2) + B * (x3 + y3)))
  BY <1>1, <1>2, <1>3 DEF Value
<1>5. Value([i \in 0..3 |-> x[i] - y[i]])
        = (x0 - y0) + B * ((x1 - y1) + B * ((x2 - y2) + B * (x3 - y3)))
  BY <1>1, <1>2, <1>3 DEF Value
<1>6. /\ Value(x) = x0 + B * (x1 + B * (x2 + B * x3))
      /\ Value(y) = y0 + B * (y1 + B * (y2 + B * y3))
  BY <1>1, <1>2, <1>3 DEF Value
<1>7. (x0 + y0) + B * ((x1 + y1) + B * ((x2 + y2) + B * (x3 + y3)))
        = (x0 + B * (x1 + B * (x2 + B * x3))) + (y0 + B * (y1 + B * (y2 + B * y3)))
  OBVIOUS
<1>8. (x0 - y0) + B * ((x1 - y1) + B * ((x2 - y2) + B * (x3 - y3)))
        = (x0 + B * (x1 + B * (x2 + B * x3))) - (y0 + B * (y1 + B * (y2 + B * y3)))
  OBVIOUS
<1> QED BY <1>4, <1>5, <1>6, <1>7, <1>8

\* A digit and a smaller number below it.
LEMMA Digit ==
  ASSUME NEW B \in Nat, NEW M \in Nat \ {0}, NEW d \in 0..B - 1, NEW r \in 0..M - 1
  PROVE  r + M * d \in 0..M * B - 1
<1>1. PICK e \in Nat : B = d + 1 + e
  OBVIOUS
<1>2. M * B = M * d + M + M * e /\ M * e \in Nat /\ M * d \in Nat
  BY <1>1
<1> QED BY <1>2

\* The number of a pair and of four words.
LEMMA PairIs ==
  ASSUME NEW a \in Pair
  PROVE  /\ a.lo \in Word /\ a.hi \in Word
         /\ PairValue(a) = a.lo + Base * a.hi
         /\ PairValue(a) \in 0..2^(2 * W) - 1
<1>1. a.lo \in 0..Base - 1 /\ a.hi \in 0..Base - 1 /\ Base \in Nat \ {0}
  BY BaseIs DEF Pair, Word
<1> QED BY <1>1, AllIs, Digit DEF PairValue, Word

LEMMA WordsAre ==
  ASSUME NEW a \in Words
  PROVE  /\ \A i \in 0..3 : a[i] \in Word /\ a[i] \in Int
         /\ Value(a) \in 0..2^(4 * W) - 1
<1>1. \A i \in 0..3 : a[i] \in 0..Base - 1
  BY DEF Words, Word
<1>2. PICK b \in Nat \ {0} : b = Base
  BY BaseIs
<1>3. b * b \in Nat \ {0} /\ b * (b * b) \in Nat \ {0}
  OBVIOUS
<1>4. a[2] + b * a[3] \in 0..b * b - 1
  BY <1>1, <1>2, Digit
<1>5. a[1] + b * (a[2] + b * a[3]) \in 0..b * (b * b) - 1
  <2>1. a[1] \in 0..b - 1 /\ b * b \in Nat
    BY <1>1, <1>2
  <2> QED BY <1>3, <1>4, <2>1, Digit
<1>6. a[0] + b * (a[1] + b * (a[2] + b * a[3])) \in 0..b * (b * (b * b)) - 1
  <2>1. a[0] \in 0..b - 1 /\ b * (b * b) \in Nat
    BY <1>1, <1>2
  <2> QED BY <1>3, <1>5, <2>1, Digit
<1> QED BY <1>1, <1>2, <1>6, AllIs DEF Value, Word

\* What is left of a sum that leaves the words.
LEMMA Wraps ==
  ASSUME NEW M \in Nat \ {0}, NEW v \in 0..M - 1, NEW c \in Int, NEW n \in Int,
         v + M * c = n
  PROVE  v = n % M
<1>1. n = M * c + v
  OBVIOUS
<1> QED BY <1>1, DivModIs

\* A number that fits two words, or four, is that of its words.
LEMMA ToPairIs ==
  ASSUME NEW n \in 0..2^(2 * W) - 1
  PROVE  ToPair(n) \in Pair /\ PairValue(ToPair(n)) = n
<1>1. PICK b \in Nat \ {0} : b = Base
  BY BaseIs
<1>2. n \in 0..b * b - 1
  BY <1>1, AllIs
<1>3. PICK q \in Nat, r \in 0..b - 1 : q = n \div b /\ r = n % b /\ n = b * q + r
  <2>1. n \in Nat /\ n \in Int
    BY <1>2
  <2>2. /\ n \div b \in Nat /\ n % b \in 0..b - 1
        /\ n = b * (n \div b) + (n % b)
    BY <2>1, DivMod
  <2> QED BY <2>2
<1>4. q \in 0..b - 1
  <2>1. CASE q >= b
    <3>1. PICK d \in Nat : q = b + d
      BY <2>1
    <3>2. b * q = b * b + b * d /\ b * d \in Nat
      BY <3>1
    <3> QED BY <1>2, <1>3, <3>2
  <2> QED BY <2>1
<1>5. q % b = q
  BY <1>4
<1> QED BY <1>1, <1>3, <1>4, <1>5 DEF ToPair, Pair, Word, PairValue

\* The same for natural numbers, with names for the results.
LEMMA NatDiv ==
  ASSUME NEW n \in Nat, NEW b \in Nat \ {0}
  PROVE  \E q \in Nat, r \in 0..b - 1 : q = n \div b /\ r = n % b /\ n = b * q + r
<1>1. n \in Int
  OBVIOUS
<1>2. /\ n \div b \in Nat /\ n % b \in 0..b - 1
      /\ n = b * (n \div b) + (n % b)
  BY <1>1, DivMod
<1> QED BY <1>2

\* A quotient of a number below a multiple of the divisor.
LEMMA DivBelow ==
  ASSUME NEW M \in Nat \ {0}, NEW B \in Nat, NEW n \in 0..M * B - 1
  PROVE  n \div M \in 0..B - 1
<1>1. PICK q \in Nat, r \in 0..M - 1 : q = n \div M /\ n = M * q + r
  <2>1. n \in Nat /\ n \in Int
    OBVIOUS
  <2>2. /\ n \div M \in Nat /\ n % M \in 0..M - 1
        /\ n = M * (n \div M) + (n % M)
    BY <2>1, DivMod
  <2> QED BY <2>2
<1>2. CASE q >= B
  <2>1. PICK d \in Nat : q = B + d
    BY <1>2
  <2>2. M * q = M * B + M * d /\ M * d \in Nat
    BY <2>1
  <2> QED BY <1>1, <2>2
<1> QED BY <1>1, <1>2

\* The same for four words.
LEMMA ToWordsIs ==
  ASSUME NEW n \in 0..2^(4 * W) - 1
  PROVE  ToWords(n) \in Words /\ Value(ToWords(n)) = n
<1>1. PICK b \in Nat \ {0} : b = Base
  BY BaseIs
<1>2. n \in 0..(b * (b * b)) * b - 1 /\ n \in Nat
  BY <1>1, AllIs
<1>3. b * b \in Nat \ {0} /\ b * (b * b) \in Nat \ {0}
  OBVIOUS
<1>4. PICK n1 \in Nat, n2 \in Nat, n3 \in Nat :
        /\ n1 = n \div b /\ n2 = n1 \div b /\ n3 = n2 \div b
        /\ n = b * n1 + (n % b) /\ n1 = b * n2 + (n1 % b) /\ n2 = b * n3 + (n2 % b)
        /\ n % b \in 0..b - 1 /\ n1 % b \in 0..b - 1 /\ n2 % b \in 0..b - 1
  <2>1. PICK n1 \in Nat : n1 = n \div b /\ n = b * n1 + (n % b) /\ n % b \in 0..b - 1
    BY <1>2, NatDiv, ZenonT(60)
  <2>2. PICK n2 \in Nat : n2 = n1 \div b /\ n1 = b * n2 + (n1 % b) /\ n1 % b \in 0..b - 1
    BY NatDiv
  <2>3. PICK n3 \in Nat : n3 = n2 \div b /\ n2 = b * n3 + (n2 % b) /\ n2 % b \in 0..b - 1
    BY NatDiv
  <2> QED BY <2>1, <2>2, <2>3
<1>5. n2 = n \div (b * b)
  <2>1. n1 = n \div b
    BY <1>4
  <2>2. (n \div b) \div b = n \div (b * b)
    <3>1. n \in Int
      BY <1>2
    <3> QED BY <3>1, DivDiv
  <2> QED BY <1>4, <2>1, <2>2
<1>6. n3 = n \div (b * (b * b))
  <2>1. n3 = n \div ((b * b) * b)
    <3>1. PICK a \in Nat \ {0} : a = b * b
      BY <1>3
    <3>2. n \in Int
      BY <1>2
    <3>3. (n \div a) \div b = n \div (a * b)
      BY <3>2, DivDiv
    <3> QED BY <1>4, <1>5, <3>1, <3>3
  <2>2. (b * b) * b = b * (b * b)
    OBVIOUS
  <2> QED BY <2>1, <2>2
<1>7. n3 \in 0..b - 1 /\ n3 % b = n3
  <2>1. PICK M \in Nat \ {0} : M = b * (b * b)
    BY <1>3
  <2>2. n \in 0..M * b - 1
    BY <1>2, <2>1
  <2>3. n \div M \in 0..b - 1
    BY <2>2, DivBelow
  <2> QED BY <1>6, <2>1, <2>3
<1>8. /\ ToWords(n)[0] = n % b /\ ToWords(n)[1] = n1 % b
      /\ ToWords(n)[2] = n2 % b /\ ToWords(n)[3] = n3
  <2>1. 2^(0 * W) = 1 /\ n \div 1 = n
    <3>1. 0 * W = 0
      BY BaseIs
    <3>2. 2^0 = 1
      OBVIOUS
    <3>3. n \div 1 = n
      BY <1>2
    <3> QED BY <3>1, <3>2, <3>3
  <2>2. 2^(1 * W) = b /\ 2^(2 * W) = b * b /\ 2^(3 * W) = b * (b * b)
    BY <1>1, AllIs
  <2> QED BY <1>1, <1>4, <1>5, <1>6, <1>7, <2>1, <2>2 DEF ToWords
<1>9. ToWords(n) \in Words
  <2>1. \A i \in 0..3 : i = 0 \/ i = 1 \/ i = 2 \/ i = 3
    OBVIOUS
  <2>2. \A i \in 0..3 : ToWords(n)[i] \in 0..Base - 1
    BY <1>1, <1>4, <1>7, <1>8, <2>1
  <2>3. ToWords(n) = [i \in 0..3 |-> ToWords(n)[i]]
    BY DEF ToWords
  <2> QED BY <2>2, <2>3 DEF Words, Word
<1>10. Value(ToWords(n)) = (n % b) + b * ((n1 % b) + b * ((n2 % b) + b * n3))
  BY <1>1, <1>8 DEF Value
<1>11. (n2 % b) + b * n3 = n2 /\ (n1 % b) + b * n2 = n1 /\ (n % b) + b * n1 = n
  BY <1>4
<1> QED BY <1>9, <1>10, <1>11

-----------------------------------------------------------------------------
(***************************************************************************)
(* Sums, differences and comparisons.                                      *)
(***************************************************************************)
\* The test of u128_add finds the carry.
LEMMA CarryIs ==
  ASSUME NEW x \in Word, NEW y \in Word, NEW c \in {0, 1}
  PROVE  /\ CarryOut(x, y, c) \in {0, 1}
         /\ (x + y + c) % Base \in Word
         /\ ((x + y + c) % Base) + Base * CarryOut(x, y, c) = x + y + c
<1>1. PICK b \in Nat \ {0} : b = Base /\ b >= 4
  BY BaseIs
<1>2. x \in 0..b - 1 /\ y \in 0..b - 1
  BY <1>1 DEF Word
<1>3. CASE x + y + c < b
  <2>1. (x + y + c) % b = x + y + c
    BY <1>1, <1>2, <1>3
  <2>2. CarryOut(x, y, c) = 0
    BY <1>1, <1>2, <2>1 DEF CarryOut, Bit
  <2> QED BY <1>1, <1>2, <1>3, <2>1, <2>2 DEF Word
<1>4. CASE x + y + c >= b
  <2>1. (x + y + c) % b = x + y + c - b
    <3>1. PICK n \in Int, r \in 0..b - 1 : n = x + y + c /\ r = n - b /\ n = b * 1 + r
      BY <1>1, <1>2, <1>4
    <3>2. 1 \in Int
      OBVIOUS
    <3>3. n % b = r
      BY <3>1, <3>2, DivModIs, Zenon
    <3> QED BY <1>2, <3>1, <3>3
  <2>2. CarryOut(x, y, c) = 1
    BY <1>1, <1>2, <2>1 DEF CarryOut, Bit
  <2> QED BY <1>1, <1>2, <1>4, <2>1, <2>2 DEF Word
<1> QED BY <1>1, <1>2, <1>3, <1>4

\* So does that of u128_sub the borrow.
LEMMA BorrowIs ==
  ASSUME NEW x \in Word, NEW y \in Word, NEW c \in {0, 1}
  PROVE  /\ BorrowOut(x, y, c) \in {0, 1}
         /\ (x - y - c) % Base \in Word
         /\ ((x - y - c) % Base) - Base * BorrowOut(x, y, c) = x - y - c
<1>1. PICK b \in Nat \ {0} : b = Base /\ b >= 4
  BY BaseIs
<1>2. x \in 0..b - 1 /\ y \in 0..b - 1
  BY <1>1 DEF Word
<1>3. CASE x - y - c >= 0
  <2>1. (x - y - c) % b = x - y - c
    BY <1>1, <1>2, <1>3
  <2>2. BorrowOut(x, y, c) = 0
    BY <1>1, <1>2, <1>3 DEF BorrowOut, Bit
  <2> QED BY <1>1, <1>2, <1>3, <2>1, <2>2 DEF Word
<1>4. CASE x - y - c < 0
  <2>1. (x - y - c) % b = x - y - c + b
    <3>1. PICK n \in Int, r \in 0..b - 1, q \in Int :
            n = x - y - c /\ r = n + b /\ q = -1 /\ n = b * q + r
      BY <1>1, <1>2, <1>4
    <3>2. n = b * q + r
      BY <3>1
    <3>3. n % b = r
      BY <3>2, DivModIs, Zenon
    <3> QED BY <3>1, <3>3
  <2>2. BorrowOut(x, y, c) = 1
    BY <1>1, <1>2, <1>4 DEF BorrowOut, Bit
  <2> QED BY <1>1, <1>2, <1>4, <2>1, <2>2 DEF Word
<1> QED BY <1>1, <1>2, <1>3, <1>4

\* Four words that differ from y by carries stand for what is left of y.
LEMMA ChainMod ==
  ASSUME NEW r \in Words, NEW y, NEW c, Carries(r, y, c), c[0] = 0
  PROVE  Value(r) = Value(y) % 2^(4 * W)
<1>1. PICK n \in Int, d \in Int : n = Value(y) /\ d = c[4] /\ Value(r) + 2^(4 * W) * d = n
  BY Chain
<1>2. Value(r) \in 0..2^(4 * W) - 1 /\ 2^(4 * W) \in Nat \ {0}
  <2>1. 4 * W \in Nat
    BY BaseIs
  <2> QED BY <2>1, WordsAre, PowIs
<1> QED BY <1>1, <1>2, Wraps

\* u128_add: the sum, without the carry out of the highest word.
LEMMA AddIs ==
  ASSUME NEW a \in Words, NEW b \in Words
  PROVE  /\ U128Add(a, b) \in Words
         /\ Value(U128Add(a, b)) = (Value(a) + Value(b)) % 2^(4 * W)
<1> DEFINE r == U128Add(a, b)
           y == [i \in 0..3 |-> a[i] + b[i]]
           Carry(c1, c2, c3, c4) ==
             [i \in 0..4 |-> CASE i = 0 -> 0 [] i = 1 -> c1 [] i = 2 -> c2
                               [] i = 3 -> c3 [] i = 4 -> c4]
<1>1. \A i \in 0..3 : a[i] \in Word /\ b[i] \in Word /\ a[i] \in Int /\ b[i] \in Int
  BY WordsAre
<1>2. PICK c1 \in {0, 1} :
        /\ c1 = CarryOut(a[0], b[0], 0)
        /\ r[0] \in Word /\ r[0] + Base * c1 = a[0] + b[0] + 0
  BY <1>1, CarryIs DEF U128Add
<1>3. PICK c2 \in {0, 1} :
        /\ c2 = CarryOut(a[1], b[1], c1)
        /\ r[1] \in Word /\ r[1] + Base * c2 = a[1] + b[1] + c1
  BY <1>1, <1>2, CarryIs DEF U128Add
<1>4. PICK c3 \in {0, 1} :
        /\ c3 = CarryOut(a[2], b[2], c2)
        /\ r[2] \in Word /\ r[2] + Base * c3 = a[2] + b[2] + c2
  BY <1>1, <1>2, <1>3, CarryIs DEF U128Add
<1>5. PICK c4 \in {0, 1} :
        r[3] \in Word /\ r[3] + Base * c4 = a[3] + b[3] + c3
  BY <1>1, <1>2, <1>3, <1>4, CarryIs, SMTT(30) DEF U128Add
<1>6. r \in Words
  <2>1. r = [i \in 0..3 |-> r[i]]
    BY DEF U128Add
  <2>2. \A i \in 0..3 : i = 0 \/ i = 1 \/ i = 2 \/ i = 3
    OBVIOUS
  <2>3. \A i \in 0..3 : r[i] \in Word
    BY <1>2, <1>3, <1>4, <1>5, <2>2
  <2> HIDE DEF r
  <2> QED BY <2>1, <2>3 DEF Words
<1> HIDE DEF r
<1>7. Carries(r, y, Carry(c1, c2, c3, c4)) /\ Carry(c1, c2, c3, c4)[0] = 0
  <2>1. /\ r \in [0..3 -> Int] /\ y \in [0..3 -> Int]
        /\ Carry(c1, c2, c3, c4) \in [0..4 -> Int]
    BY <1>1, <1>6, BaseIs DEF Words, Word
  <2>2. \A i \in 0..3 : i = 0 \/ i = 1 \/ i = 2 \/ i = 3
    OBVIOUS
  <2>3. \A i \in 0..3 : r[i] + Base * Carry(c1, c2, c3, c4)[i + 1]
                          = y[i] + Carry(c1, c2, c3, c4)[i]
    BY <1>2, <1>3, <1>4, <1>5, <2>2
  <2>4. Carry(c1, c2, c3, c4)[0] = 0
    OBVIOUS
  <2> HIDE DEF y, Carry
  <2> QED BY <2>1, <2>3, <2>4 DEF Carries
<1>8. Value(y) = Value(a) + Value(b)
  BY <1>1, ValueLinear, BaseIs DEF Words, Word
<1> HIDE DEF y, Carry
<1>9. Value(r) = Value(y) % 2^(4 * W)
  BY <1>6, <1>7, ChainMod
<1> QED BY <1>6, <1>8, <1>9 DEF r

\* u128_sub: the difference, with the borrow of the highest word left out.
LEMMA SubIs ==
  ASSUME NEW a \in Words, NEW b \in Words
  PROVE  /\ U128Sub(a, b) \in Words
         /\ Value(U128Sub(a, b)) = (Value(a) - Value(b)) % 2^(4 * W)
<1> DEFINE r == U128Sub(a, b)
           y == [i \in 0..3 |-> a[i] - b[i]]
           Carry(c1, c2, c3, c4) ==
             [i \in 0..4 |-> CASE i = 0 -> 0 [] i = 1 -> -c1 [] i = 2 -> -c2
                               [] i = 3 -> -c3 [] i = 4 -> -c4]
<1>1. \A i \in 0..3 : a[i] \in Word /\ b[i] \in Word /\ a[i] \in Int /\ b[i] \in Int
  BY WordsAre
<1>2. PICK c1 \in {0, 1} :
        /\ c1 = BorrowOut(a[0], b[0], 0)
        /\ r[0] \in Word /\ r[0] - Base * c1 = a[0] - b[0] - 0
  BY <1>1, BorrowIs DEF U128Sub
<1>3. PICK c2 \in {0, 1} :
        /\ c2 = BorrowOut(a[1], b[1], c1)
        /\ r[1] \in Word /\ r[1] - Base * c2 = a[1] - b[1] - c1
  BY <1>1, <1>2, BorrowIs DEF U128Sub
<1>4. PICK c3 \in {0, 1} :
        /\ c3 = BorrowOut(a[2], b[2], c2)
        /\ r[2] \in Word /\ r[2] - Base * c3 = a[2] - b[2] - c2
  BY <1>1, <1>2, <1>3, BorrowIs DEF U128Sub
<1>5. PICK c4 \in {0, 1} :
        r[3] \in Word /\ r[3] - Base * c4 = a[3] - b[3] - c3
  BY <1>1, <1>2, <1>3, <1>4, BorrowIs, SMTT(30) DEF U128Sub
<1>6. r \in Words
  <2>1. r = [i \in 0..3 |-> r[i]]
    BY DEF U128Sub
  <2>2. \A i \in 0..3 : i = 0 \/ i = 1 \/ i = 2 \/ i = 3
    OBVIOUS
  <2>3. \A i \in 0..3 : r[i] \in Word
    BY <1>2, <1>3, <1>4, <1>5, <2>2
  <2> HIDE DEF r
  <2> QED BY <2>1, <2>3 DEF Words
<1> HIDE DEF r
<1>7. Carries(r, y, Carry(c1, c2, c3, c4)) /\ Carry(c1, c2, c3, c4)[0] = 0
  <2>1. /\ r \in [0..3 -> Int] /\ y \in [0..3 -> Int]
        /\ Carry(c1, c2, c3, c4) \in [0..4 -> Int]
    BY <1>1, <1>6, BaseIs DEF Words, Word
  <2>2. \A i \in 0..3 : i = 0 \/ i = 1 \/ i = 2 \/ i = 3
    OBVIOUS
  <2>3. \A i \in 0..3 : r[i] \in Int /\ a[i] \in Int /\ b[i] \in Int
    BY <1>1, <1>6, WordsAre
  <2>4. Base \in Int
    BY BaseIs
  <2>5. /\ Base * (-c1) = -(Base * c1) /\ Base * (-c2) = -(Base * c2)
        /\ Base * (-c3) = -(Base * c3) /\ Base * (-c4) = -(Base * c4)
    BY <2>4
  <2>6. \A i \in 0..3 : r[i] + Base * Carry(c1, c2, c3, c4)[i + 1]
                          = y[i] + Carry(c1, c2, c3, c4)[i]
    BY <1>2, <1>3, <1>4, <1>5, <2>2, <2>3, <2>4, <2>5
  <2>7. Carry(c1, c2, c3, c4)[0] = 0
    OBVIOUS
  <2> HIDE DEF y, Carry
  <2> QED BY <2>1, <2>6, <2>7 DEF Carries
<1>8. Value(y) = Value(a) - Value(b)
  BY <1>1, ValueLinear, BaseIs DEF Words, Word
<1> HIDE DEF y, Carry
<1>9. Value(r) = Value(y) % 2^(4 * W)
  BY <1>6, <1>7, ChainMod
<1> QED BY <1>6, <1>8, <1>9 DEF r

\* The first digit that differs decides.
LEMMA LessAbove ==
  ASSUME NEW B \in Nat, NEW x \in 0..B - 1, NEW y \in 0..B - 1,
         NEW m \in Int, NEW n \in Int, m < n
  PROVE  x + B * m < y + B * n
<1>1. PICK d \in Nat : n = m + 1 + d
  OBVIOUS
<1>2. B * n = B * m + B + B * d /\ B * d \in Nat
  BY <1>1
<1> QED BY <1>2

\* The highest word that differs decides between two numbers.
LEMMA LessAt ==
  ASSUME NEW a \in Words, NEW b \in Words, NEW j \in 0..3,
         a[j] < b[j], \A k \in j + 1..3 : a[k] = b[k]
  PROVE  Value(a) < Value(b)
<1>1. PICK B \in Nat : B = Base
  BY BaseIs
<1>2. PICK a0 \in 0..B - 1, a1 \in 0..B - 1, a2 \in 0..B - 1, a3 \in 0..B - 1 :
        a0 = a[0] /\ a1 = a[1] /\ a2 = a[2] /\ a3 = a[3]
  BY <1>1 DEF Words, Word
<1>3. PICK b0 \in 0..B - 1, b1 \in 0..B - 1, b2 \in 0..B - 1, b3 \in 0..B - 1 :
        b0 = b[0] /\ b1 = b[1] /\ b2 = b[2] /\ b3 = b[3]
  BY <1>1 DEF Words, Word
<1>4. /\ Value(a) = a0 + B * (a1 + B * (a2 + B * a3))
      /\ Value(b) = b0 + B * (b1 + B * (b2 + B * b3))
  BY <1>1, <1>2, <1>3 DEF Value
<1>5. a3 < b3 => a2 + B * a3 < b2 + B * b3
  BY LessAbove
<1>6. a2 + B * a3 < b2 + B * b3 => a1 + B * (a2 + B * a3) < b1 + B * (b2 + B * b3)
  <2>1. a2 + B * a3 \in Int /\ b2 + B * b3 \in Int
    OBVIOUS
  <2> QED BY <2>1, LessAbove
<1>7. a1 + B * (a2 + B * a3) < b1 + B * (b2 + B * b3) => Value(a) < Value(b)
  <2>1. a1 + B * (a2 + B * a3) \in Int /\ b1 + B * (b2 + B * b3) \in Int
    OBVIOUS
  <2> QED BY <1>4, <2>1, LessAbove
<1>8. CASE j = 3
  BY <1>2, <1>3, <1>5, <1>6, <1>7, <1>8
<1>9. CASE j = 2
  <2>1. a3 = b3 /\ a2 < b2
    BY <1>2, <1>3, <1>9
  <2> QED BY <1>6, <1>7, <2>1
<1>10. CASE j = 1
  <2>1. a3 = b3 /\ a2 = b2 /\ a1 < b1
    BY <1>2, <1>3, <1>10
  <2> QED BY <1>7, <2>1
<1>11. CASE j = 0
  <2>1. a3 = b3 /\ a2 = b2 /\ a1 = b1 /\ a0 < b0
    BY <1>2, <1>3, <1>11
  <2> QED BY <1>4, <2>1
<1> QED BY <1>8, <1>9, <1>10, <1>11

\* u128_cmp orders the numbers.
LEMMA CmpIs ==
  ASSUME NEW a \in Words, NEW b \in Words
  PROVE  U128Cmp(a, b) = Order(Value(a), Value(b))
<1> DEFINE Differ(j) == a[j] # b[j] /\ \A k \in j + 1..3 : a[k] = b[k]
<1>1. Value(a) \in Int /\ Value(b) \in Int
  BY WordsAre
<1>2. CASE a = b
  BY <1>1, <1>2 DEF U128Cmp, Order
<1>3. CASE a # b
  <2>1. \E j \in 0..3 : Differ(j)
    <3>1. \E j \in 0..3 : a[j] # b[j]
      BY <1>3 DEF Words
    <3>2. CASE a[3] # b[3]
      BY <3>2
    <3>3. CASE a[3] = b[3] /\ a[2] # b[2]
      BY <3>3
    <3>4. CASE a[3] = b[3] /\ a[2] = b[2] /\ a[1] # b[1]
      BY <3>4
    <3>5. CASE a[3] = b[3] /\ a[2] = b[2] /\ a[1] = b[1] /\ a[0] # b[0]
      BY <3>5
    <3> QED BY <3>1, <3>2, <3>3, <3>4, <3>5
  <2>2. PICK j \in 0..3 : j = CHOOSE k \in 0..3 : Differ(k)
    BY <2>1
  <2>3. Differ(j)
    BY <2>1, <2>2
  <2>4. U128Cmp(a, b) = IF a[j] < b[j] THEN -1 ELSE 1
    BY <1>3, <2>2 DEF U128Cmp
  <2>5. a[j] \in Int /\ b[j] \in Int
    BY WordsAre
  <2>6. CASE a[j] < b[j]
    <3>1. Value(a) < Value(b)
      BY <2>3, <2>6, LessAt
    <3> QED BY <1>1, <2>4, <2>6, <3>1 DEF Order
  <2>7. CASE b[j] < a[j]
    <3>1. Value(b) < Value(a)
      BY <2>3, <2>7, LessAt
    <3> QED BY <1>1, <2>4, <2>5, <2>7, <3>1 DEF Order
  <2> QED BY <2>3, <2>5, <2>6, <2>7
<1> QED BY <1>2, <1>3

-----------------------------------------------------------------------------
(***************************************************************************)
(* Shifts.                                                                 *)
(***************************************************************************)
\* The two powers of a shift make up a word.
LEMMA PowSplit ==
  ASSUME NEW s \in 0..W
  PROVE  \E P \in Nat \ {0}, Q \in Nat \ {0} : P = 2^s /\ Q = 2^(W - s) /\ P * Q = Base
<1>1. PICK t \in Nat, u \in Nat : t = s /\ u = W - s /\ t + u = W
  BY BaseIs
<1>2. 2^t \in Nat \ {0} /\ 2^u \in Nat \ {0}
  <2>1. 2^t \in Nat \ {0}
    BY PowIs
  <2>2. 2^u \in Nat \ {0}
    BY PowIs
  <2> QED BY <2>1, <2>2
<1>3. 2^(t + u) = 2^t * 2^u
  BY PowSum
<1> QED BY <1>1, <1>2, <1>3 DEF Base

\* A word shifted left keeps its low bits, shifted right its high ones.
LEMMA ShiftWord ==
  ASSUME NEW w \in Word, NEW s \in 0..W
  PROVE  \E P \in Nat \ {0}, Q \in Nat \ {0}, x \in Nat, z \in Nat :
           /\ P = 2^s /\ Q = 2^(W - s) /\ P * Q = Base
           /\ x = w % Q /\ x \in 0..Q - 1 /\ z = Shr(w, W - s) /\ z \in 0..P - 1
           /\ Shl(w, s) = P * x /\ w = Q * z + x
<1>2. PICK P \in Nat \ {0}, Q \in Nat \ {0} : P = 2^s /\ Q = 2^(W - s) /\ P * Q = Base
  BY PowSplit
<1>3. PICK z \in Nat, x \in 0..Q - 1 : z = w \div Q /\ x = w % Q /\ w = Q * z + x
  <2>1. w \in Nat
    BY BaseIs DEF Word
  <2> QED BY <2>1, NatDiv
<1>4. z \in 0..P - 1
  <2>1. w \in 0..Q * P - 1
    BY <1>2 DEF Word
  <2> QED BY <1>3, <2>1, DivBelow
<1>5. Shl(w, s) = P * x
  <2>1. PICK n \in Int, b \in Nat \ {0}, r \in Nat : n = w * P /\ b = P * Q /\ r = P * x
    <3>1. w \in Int /\ P * Q \in Nat \ {0} /\ P * x \in Nat
      BY <1>2, BaseIs DEF Word
    <3>2. w * P \in Int
      BY <3>1
    <3> QED BY <3>1, <3>2
  <2>2. r \in 0..b - 1
    <3>1. PICK d \in Nat : Q = x + 1 + d
      OBVIOUS
    <3>2. P * Q = P * x + P + P * d /\ P * d \in Nat
      BY <3>1
    <3> QED BY <2>1, <3>2
  <2>3. n = b * z + r
    <3>1. n = (Q * z + x) * P
      BY <1>3, <2>1
    <3>2. (Q * z + x) * P = (P * Q) * z + P * x
      BY <1>3
    <3> QED BY <2>1, <3>1, <3>2
  <2>4. n % b = r
    <3>1. z \in Int
      OBVIOUS
    <3> QED BY <2>2, <2>3, <3>1, DivModIs, Zenon
  <2> QED BY <1>2, <2>1, <2>4 DEF Shl
<1>6. x \in Nat /\ z = Shr(w, W - s)
  BY <1>2, <1>3 DEF Shr
<1> QED BY <1>2, <1>3, <1>4, <1>5, <1>6

\* The same for all words at once, with the numbers that the laws multiply by.
LEMMA ShiftWords ==
  ASSUME NEW s \in 0..W
  PROVE  \E P \in Nat \ {0}, Q \in Nat \ {0} :
           /\ P = 2^s /\ Q = 2^(W - s) /\ P * Q = Base
           /\ \A w \in Word : /\ Shl(w, s) = P * (w % Q) /\ w % Q \in 0..Q - 1
                             /\ Shr(w, W - s) \in 0..P - 1 /\ Shl(w, s) \in Nat
                             /\ w = Q * Shr(w, W - s) + (w % Q)
                             /\ Shl(w, s) + Base * Shr(w, W - s) = P * w
                             /\ \A u \in 0..P - 1 : Shl(w, s) + u \in Word
<1>2. PICK P \in Nat \ {0}, Q \in Nat \ {0} : P = 2^s /\ Q = 2^(W - s) /\ P * Q = Base
  BY PowSplit
<1>3. ASSUME NEW w \in Word
      PROVE  /\ Shl(w, s) = P * (w % Q) /\ w % Q \in 0..Q - 1
             /\ Shr(w, W - s) \in 0..P - 1 /\ Shl(w, s) \in Nat
             /\ w = Q * Shr(w, W - s) + (w % Q)
             /\ Shl(w, s) + Base * Shr(w, W - s) = P * w
             /\ \A u \in 0..P - 1 : Shl(w, s) + u \in Word
  <2>1. PICK x \in 0..Q - 1, z \in 0..P - 1 :
          x = w % Q /\ z = Shr(w, W - s) /\ Shl(w, s) = P * x /\ w = Q * z + x
    <3>1. PICK R \in Nat \ {0}, S \in Nat \ {0}, x \in Nat, z \in Nat :
            /\ R = 2^s /\ S = 2^(W - s) /\ R * S = Base
            /\ x = w % S /\ x \in 0..S - 1 /\ z = Shr(w, W - s) /\ z \in 0..R - 1
            /\ Shl(w, s) = R * x /\ w = S * z + x
      BY ShiftWord
    <3> QED BY <1>2, <3>1
  <2>2. P * x + (P * Q) * z = P * (Q * z + x) /\ P * x \in Nat
    OBVIOUS
  <2>3. \A u \in 0..P - 1 : P * x + u \in 0..P * Q - 1
    <3>1. Q \in Nat
      OBVIOUS
    <3>2. TAKE u \in 0..P - 1
    <3>3. u + P * x \in 0..P * Q - 1
      BY <3>1, Digit
    <3>4. P * x + u = u + P * x
      BY <2>2
    <3> QED BY <3>3, <3>4
  <2>4. \A u \in 0..P - 1 : Shl(w, s) + u \in Word
    BY <1>2, <2>1, <2>3 DEF Word
  <2>5. Shl(w, s) + Base * Shr(w, W - s) = P * w
    BY <1>2, <2>1, <2>2
  <2> QED BY <2>1, <2>2, <2>4, <2>5
<1> QED BY <1>2, <1>3

\* The words of a number, and its words moved up or down.
At(a, i) == IF i \in 0..3 THEN a[i] ELSE 0
Moved(a, n) == [i \in 0..3 |-> At(a, i + n)]

\* The words of a number, zero beyond its ends, and the number moved by words.
LEMMA AtIs ==
  ASSUME NEW a \in Words, NEW i \in Int
  PROVE  At(a, i) \in Word /\ At(a, i) \in Int
<1>1. 0 \in Word
  BY BaseIs DEF Word
<1> QED BY <1>1, WordsAre DEF At

\* A number moved by words has four words again.
LEMMA MovedIs ==
  ASSUME NEW a \in Words, NEW n \in -3..3
  PROVE  Moved(a, n) \in Words
<1>1. \A i \in 0..3 : At(a, i + n) \in Word
  BY AtIs
<1> QED BY <1>1 DEF Moved, Words

\* Moved up by n words, a number is multiplied; what leaves the words is lost.
LEMMA MovedUp ==
  ASSUME NEW a \in Words, NEW n \in 0..3
  PROVE  \E h \in Int : Value(Moved(a, -n)) + 2^(4 * W) * h = Value(a) * 2^(n * W)
<1>1. PICK B \in Int : B = Base
  BY BaseIs
<1>2. PICK a0 \in Int, a1 \in Int, a2 \in Int, a3 \in Int :
        a0 = a[0] /\ a1 = a[1] /\ a2 = a[2] /\ a3 = a[3]
  BY WordsAre
<1>3. Value(a) = a0 + B * (a1 + B * (a2 + B * a3))
  BY <1>1, <1>2 DEF Value
<1>4. CASE n = 0
  <2>1. Moved(a, -n)[0] = a0 /\ Moved(a, -n)[1] = a1 /\ Moved(a, -n)[2] = a2
          /\ Moved(a, -n)[3] = a3
    BY <1>2, <1>4 DEF Moved, At
  <2>2. Value(Moved(a, -n)) = Value(a)
    BY <1>2, <2>1 DEF Value
  <2>3. 2^(n * W) = 1 /\ 2^(4 * W) \in Int /\ Value(a) \in Int
    <3>1. n * W = 0 /\ 4 * W \in Nat
      BY <1>4, BaseIs
    <3>2. 2^0 = 1
      OBVIOUS
    <3>3. 2^(4 * W) \in Nat
      BY <3>1, PowIs
    <3>4. Value(a) \in Int
      BY WordsAre
    <3>5. 2^(n * W) = 2^0
      BY <3>1
    <3> QED BY <3>2, <3>3, <3>4, <3>5
  <2>4. Value(a) + 2^(4 * W) * 0 = Value(a) * 1
    BY <2>3
  <2> QED BY <2>2, <2>3, <2>4
<1>5. CASE n = 1
  <2>1. Moved(a, -n)[0] = 0 /\ Moved(a, -n)[1] = a0 /\ Moved(a, -n)[2] = a1
          /\ Moved(a, -n)[3] = a2
    BY <1>2, <1>5 DEF Moved, At
  <2>2. Value(Moved(a, -n)) = 0 + B * (a0 + B * (a1 + B * a2))
    BY <1>1, <2>1 DEF Value
  <2>3. 0 + B * (a0 + B * (a1 + B * a2)) + (B * (B * (B * B))) * a3
          = (a0 + B * (a1 + B * (a2 + B * a3))) * B
    OBVIOUS
  <2> QED BY <1>1, <1>3, <1>5, <2>2, <2>3, AllIs, ZenonT(60)
<1>6. CASE n = 2
  <2>1. Moved(a, -n)[0] = 0 /\ Moved(a, -n)[1] = 0 /\ Moved(a, -n)[2] = a0
          /\ Moved(a, -n)[3] = a1
    BY <1>2, <1>6 DEF Moved, At
  <2>2. Value(Moved(a, -n)) = 0 + B * (0 + B * (a0 + B * a1))
    BY <1>1, <2>1 DEF Value
  <2>3. 0 + B * (0 + B * (a0 + B * a1)) + (B * (B * (B * B))) * (a2 + B * a3)
          = (a0 + B * (a1 + B * (a2 + B * a3))) * (B * B)
    OBVIOUS
  <2>4. a2 + B * a3 \in Int
    OBVIOUS
  <2> QED BY <1>1, <1>3, <1>6, <2>2, <2>3, <2>4, AllIs, ZenonT(60)
<1>7. CASE n = 3
  <2>1. Moved(a, -n)[0] = 0 /\ Moved(a, -n)[1] = 0 /\ Moved(a, -n)[2] = 0
          /\ Moved(a, -n)[3] = a0
    BY <1>2, <1>7 DEF Moved, At
  <2>2. Value(Moved(a, -n)) = 0 + B * (0 + B * (0 + B * a0))
    BY <1>1, <2>1 DEF Value
  <2>3. 0 + B * (0 + B * (0 + B * a0)) + (B * (B * (B * B))) * (a1 + B * (a2 + B * a3))
          = (a0 + B * (a1 + B * (a2 + B * a3))) * (B * (B * B))
    OBVIOUS
  <2>4. a1 + B * (a2 + B * a3) \in Int
    OBVIOUS
  <2> QED BY <1>1, <1>3, <1>7, <2>2, <2>3, <2>4, AllIs, ZenonT(60)
<1> QED BY <1>4, <1>5, <1>6, <1>7

\* How far a shift goes, in words and bits.
LEMMA ShiftIs ==
  ASSUME NEW k \in 0..4 * W - 1
  PROVE  \E n \in 0..3, s \in 0..W - 1 : n = k \div W /\ s = k % W /\ 2^k = 2^(n * W) * 2^s
<1>1. W \in Nat \ {0} /\ k \in Nat /\ k \in 0..W * 4 - 1
  BY BaseIs
<1>2. PICK n \in Nat, s \in 0..W - 1 : n = k \div W /\ s = k % W /\ k = W * n + s
  BY <1>1, NatDiv
<1>3. n \in 0..3
  <2>1. W \in Nat \ {0} /\ 4 \in Nat /\ k \in 0..W * 4 - 1
    BY <1>1
  <2>2. k \div W \in 0..4 - 1
    BY <2>1, DivBelow
  <2> QED BY <1>2, <2>2
<1>4. PICK m \in Nat, t \in Nat : m = n * W /\ t = s /\ k = m + t
  <2>1. n * W \in Nat /\ s \in Nat /\ k = n * W + s
    BY <1>1, <1>2
  <2> QED BY <2>1
<1>5. 2^(m + t) = 2^m * 2^t
  BY PowSum
<1> QED BY <1>2, <1>3, <1>4, <1>5

\* A number of four words shifted left.
LEMMA ShlIs ==
  ASSUME NEW a \in Words, NEW k \in Nat
  PROVE  U128Shl(a, k) \in Words /\ Value(U128Shl(a, k)) = (Value(a) * 2^k) % 2^(4 * W)
<1> DEFINE r == U128Shl(a, k)
<1>1. PICK M \in Nat \ {0} : M = 2^(4 * W)
  <2>1. 4 * W \in Nat
    BY BaseIs
  <2> QED BY <2>1, PowIs
<1>2. Value(a) \in 0..M - 1 /\ 4 * W \in Nat
  BY <1>1, WordsAre, BaseIs
<1>3. CASE k <= 0
  <2>1. k = 0 /\ 2^0 = 1
    BY <1>3
  <2>2. r = a
    BY <2>1, BaseIs DEF U128Shl
  <2>3. PICK v \in 0..M - 1, n \in Int, z \in Int : v = Value(a) /\ n = Value(a) * 1 /\ z = 0
    BY <1>2
  <2>4. v + M * z = n
    BY <2>3
  <2>5. v = n % M
    BY <2>4, Wraps
  <2> QED BY <1>1, <2>1, <2>2, <2>3, <2>5
<1>4. CASE k > 0 /\ k >= 4 * W
  <2>1. r = U128Zero /\ U128Zero \in Words
    BY <1>4, BaseIs DEF U128Shl, U128Zero, Words, Word
  <2>2. Value(r) = 0
    BY <2>1, BaseIs DEF U128Zero, Value
  <2>3. PICK d \in Nat : k = 4 * W + d
    <3>1. k - 4 * W \in Nat /\ k = 4 * W + (k - 4 * W)
      BY <1>2, <1>4
    <3> QED BY <3>1
  <2>4. 2^k = 2^(4 * W) * 2^d /\ 2^d \in Nat
    BY <1>2, <2>3, PowSum, PowIs
  <2>5. PICK v \in 0..M - 1, n \in Int, z \in Int :
          v = 0 /\ n = Value(a) * 2^k /\ z = Value(a) * 2^d /\ v + M * z = n
    <3>1. PICK u \in Nat, e \in Nat : u = Value(a) /\ e = 2^d /\ 2^k = M * e
      BY <1>1, <1>2, <2>4
    <3>2. 0 + M * (u * e) = u * (M * e) /\ u * e \in Int /\ u * (M * e) \in Int
      OBVIOUS
    <3>3. 0 \in 0..M - 1
      OBVIOUS
    <3> QED BY <3>1, <3>2, <3>3
  <2>6. v = n % M
    BY <2>5, Wraps
  <2> QED BY <1>1, <2>1, <2>2, <2>5, <2>6
<1>5. CASE k \in 1..4 * W - 1
  <2>1. PICK n \in 0..3, s \in 0..W - 1 : n = k \div W /\ s = k % W /\ 2^k = 2^(n * W) * 2^s
    BY <1>5, ShiftIs
  <2>2. PICK P \in Nat \ {0}, Q \in Nat \ {0} :
          /\ P = 2^s /\ Q = 2^(W - s) /\ P * Q = Base
          /\ \A w \in Word : /\ Shr(w, W - s) \in 0..P - 1 /\ Shl(w, s) \in Nat
                            /\ Shl(w, s) + Base * Shr(w, W - s) = P * w
                            /\ \A u \in 0..P - 1 : Shl(w, s) + u \in Word
    <3>1. s \in 0..W
      BY BaseIs
    <3> QED BY <3>1, ShiftWords
  <2> DEFINE t == Moved(a, -n)
             y == [i \in 0..3 |-> P * t[i]]
             c == [i \in 0..4 |-> Shr(At(a, i - n - 1), W - s)]
  <2>3. r = [i \in 0..3 |-> Shl(At(a, i - n), s) + Shr(At(a, i - n - 1), W - s)]
    <3>1. ~(k <= 0) /\ ~(k >= 4 * W)
      BY <1>2, <1>5
    <3>2. r = [i \in 0..3 |-> Shl(IF i - (k \div W) \in 0..3 THEN a[i - (k \div W)] ELSE 0, k % W)
                + Shr(IF i - (k \div W) - 1 \in 0..3 THEN a[i - (k \div W) - 1] ELSE 0,
                      W - (k % W))]
      BY <3>1 DEF U128Shl
    <3> HIDE DEF r
    <3> QED BY <2>1, <3>2 DEF At
  <2>5. \A i \in 0..4 : At(a, i - n - 1) \in Word /\ At(a, i - n) \in Word
    <3>1. \A i \in 0..4 : i - n - 1 \in Int /\ i - n \in Int
      OBVIOUS
    <3> QED BY <3>1, AtIs
  <2>6. r \in Words
    <3>1. \A i \in 0..3 : Shl(At(a, i - n), s) + Shr(At(a, i - n - 1), W - s) \in Word
      <4>1. TAKE i \in 0..3
      <4>2. PICK w \in Word, u \in Word : w = At(a, i - n) /\ u = At(a, i - n - 1)
        BY <2>5
      <4> QED BY <2>2, <4>2
    <3> QED BY <2>3, <3>1 DEF Words
  <2>7. Carries(r, y, c)
    <3>1. t \in Words /\ \A i \in 0..3 : t[i] = At(a, i - n)
      <4>1. -n \in -3..3
        OBVIOUS
      <4> QED BY <4>1, MovedIs DEF Moved
    <3>2. y \in [0..3 -> Int] /\ c \in [0..4 -> Int] /\ r \in [0..3 -> Int]
      <4>1. \A i \in 0..3 : P * t[i] \in Int
        <5> HIDE DEF t
        <5> QED BY <3>1, WordsAre
      <4>2. \A i \in 0..4 : Shr(At(a, i - n - 1), W - s) \in Int
        <5>1. TAKE i \in 0..4
        <5>2. PICK w \in Word : w = At(a, i - n - 1)
          BY <2>5
        <5> QED BY <2>2, <5>2
      <4>3. r \in [0..3 -> Int]
        BY <2>6, BaseIs DEF Words, Word
      <4> QED BY <4>1, <4>2, <4>3
    <3>3. \A i \in 0..3 : r[i] + Base * c[i + 1] = y[i] + c[i]
      <4>1. TAKE i \in 0..3
      <4>2. PICK w \in Word, u \in Int, v \in Int, q \in Int :
              /\ w = At(a, i - n) /\ u = Shl(w, s) /\ v = Shr(w, W - s)
              /\ q = Shr(At(a, i - n - 1), W - s)
              /\ u + Base * v = P * w
        <5>1. PICK w \in Word, e \in Word : w = At(a, i - n) /\ e = At(a, i - n - 1)
          BY <2>5
        <5>2. /\ Shl(w, s) \in Int /\ Shr(w, W - s) \in Int /\ Shr(e, W - s) \in Int
              /\ Shl(w, s) + Base * Shr(w, W - s) = P * w
          BY <2>2
        <5> QED BY <5>1, <5>2
      <4>3. r[i] = u + q
        BY <2>3, <4>2
      <4>4. y[i] = P * w
        <5> HIDE DEF t
        <5> QED BY <3>1, <4>2
      <4>5. c[i + 1] = v /\ c[i] = q
        <5>1. i + 1 \in 0..4 /\ i \in 0..4 /\ (i + 1) - n - 1 = i - n
          OBVIOUS
        <5> QED BY <4>2, <5>1
      <4>6. Base \in Int /\ P * w \in Int
        BY BaseIs DEF Word
      <4> QED BY <4>2, <4>3, <4>4, <4>5, <4>6
    <3> HIDE DEF r, y, c
    <3> QED BY <3>2, <3>3 DEF Carries
  <2>8. c[0] = 0
    <3>1. c[0] = Shr(0, W - s)
      BY DEF At
    <3> QED BY <2>2, <3>1 DEF Shr
  <2>9. PICK m \in Int, h \in Int :
          m = Value(t) /\ m + M * h = Value(a) * 2^(n * W)
    <3>1. t \in Words
      <4>1. -n \in -3..3
        OBVIOUS
      <4> QED BY <4>1, MovedIs
    <3>2. Value(t) \in Int
      BY <3>1, WordsAre
    <3> QED BY <1>1, <3>2, MovedUp
  <2>10. Value(y) = P * m
    <3>1. \A i \in 0..3 : t[i] \in Int
      <4>1. -n \in -3..3
        OBVIOUS
      <4> QED BY <4>1, MovedIs, WordsAre
    <3>2. PICK t0 \in Int, t1 \in Int, t2 \in Int, t3 \in Int, B \in Int :
            t0 = t[0] /\ t1 = t[1] /\ t2 = t[2] /\ t3 = t[3] /\ B = Base
      <4> HIDE DEF t
      <4> QED BY <3>1, BaseIs
    <3>3. m = t0 + B * (t1 + B * (t2 + B * t3))
      <4> HIDE DEF t
      <4> QED BY <2>9, <3>2 DEF Value
    <3>4. y[0] = P * t0 /\ y[1] = P * t1 /\ y[2] = P * t2 /\ y[3] = P * t3
      <4> HIDE DEF t
      <4> QED BY <3>2
    <3>5. Value(y) = P * t0 + B * (P * t1 + B * (P * t2 + B * (P * t3)))
      <4> HIDE DEF y, t
      <4> QED BY <3>2, <3>4 DEF Value
    <3>6. P * t0 + B * (P * t1 + B * (P * t2 + B * (P * t3)))
            = P * (t0 + B * (t1 + B * (t2 + B * t3)))
      OBVIOUS
    <3> QED BY <3>3, <3>5, <3>6
  <2>11. PICK c4 \in Int : c4 = c[4] /\ Value(r) + M * c4 = P * m
    <3> HIDE DEF r, y, c, t
    <3>1. c[4] \in Int /\ Value(y) \in Int /\ Value(r) + 2^(4 * W) * c[4] = Value(y) + c[0]
      BY <2>7, Chain
    <3> QED BY <1>1, <2>8, <2>10, <3>1
  <2>12. PICK v \in 0..M - 1, d \in Int, z \in Int :
           v = Value(r) /\ d = Value(a) * 2^k /\ v + M * z = d
    <3>1. PICK u \in Int, e \in Int :
            u = Value(a) /\ e = 2^(n * W) /\ m + M * h = u * e /\ 2^k = e * P
      <4>1. n * W \in Nat
        BY BaseIs
      <4> QED BY <1>2, <2>1, <2>2, <2>9, <4>1, PowIs
    <3>2. P * m + M * (P * h) = u * (e * P)
      <4>1. P * m + M * (P * h) = P * (m + M * h)
        OBVIOUS
      <4>2. P * (u * e) = u * (e * P)
        OBVIOUS
      <4> QED BY <3>1, <4>1, <4>2
    <3>3. PICK v \in 0..M - 1 : v = Value(r)
      BY <1>1, <2>6, WordsAre
    <3>4. v + M * (c4 + P * h) = P * m + M * (P * h)
      <4>1. M * (c4 + P * h) = M * c4 + M * (P * h)
        OBVIOUS
      <4>2. v + M * c4 = P * m
        BY <2>11, <3>3
      <4> QED BY <4>1, <4>2
    <3>5. c4 + P * h \in Int /\ u * (e * P) \in Int
      OBVIOUS
    <3> QED BY <3>1, <3>2, <3>3, <3>4, <3>5
  <2>13. v = d % M
    BY <2>12, Wraps
  <2> QED BY <1>1, <2>6, <2>12, <2>13
<1> QED BY <1>2, <1>3, <1>4, <1>5

\* Moved down by n words, it is divided.
LEMMA MovedDown ==
  ASSUME NEW a \in Words, NEW n \in 0..3
  PROVE  Value(Moved(a, n)) = Value(a) \div 2^(n * W)
<1>1. PICK B \in Nat \ {0} : B = Base
  BY BaseIs
<1>2. PICK a0 \in 0..B - 1, a1 \in 0..B - 1, a2 \in 0..B - 1, a3 \in 0..B - 1 :
        a0 = a[0] /\ a1 = a[1] /\ a2 = a[2] /\ a3 = a[3]
  BY <1>1 DEF Words, Word
<1>3. Value(a) = a0 + B * (a1 + B * (a2 + B * a3)) /\ Value(a) \in Int
  BY <1>1, <1>2, WordsAre DEF Value
<1>4. CASE n = 0
  <2>1. Moved(a, n)[0] = a0 /\ Moved(a, n)[1] = a1 /\ Moved(a, n)[2] = a2
          /\ Moved(a, n)[3] = a3
    BY <1>2, <1>4 DEF Moved, At
  <2>2. Value(Moved(a, n)) = Value(a)
    BY <1>2, <2>1 DEF Value
  <2>3. 2^(n * W) = 1
    <3>1. n * W = 0
      BY <1>4, BaseIs
    <3>2. 2^0 = 1
      OBVIOUS
    <3> QED BY <3>1, <3>2
  <2>4. Value(a) \div 1 = Value(a)
    BY <1>3
  <2> QED BY <2>2, <2>3, <2>4
<1>5. CASE n = 1
  <2>1. Moved(a, n)[0] = a1 /\ Moved(a, n)[1] = a2 /\ Moved(a, n)[2] = a3
          /\ Moved(a, n)[3] = 0
    BY <1>2, <1>5 DEF Moved, At
  <2>2. PICK m \in Int, q \in Int : m = Value(a) /\ q = a1 + B * (a2 + B * a3) /\ m = B * q + a0
    BY <1>3
  <2>3. Value(Moved(a, n)) = a1 + B * (a2 + B * (a3 + B * 0))
    BY <1>1, <2>1 DEF Value
  <2>4. m \div B = q
    <3>1. m = B * q + a0
      BY <2>2
    <3> QED BY <3>1, DivModIs, Zenon
  <2>5. 2^(n * W) = B
    BY <1>1, <1>5, AllIs
  <2> QED BY <2>2, <2>3, <2>4, <2>5
<1>6. CASE n = 2
  <2>1. Moved(a, n)[0] = a2 /\ Moved(a, n)[1] = a3 /\ Moved(a, n)[2] = 0
          /\ Moved(a, n)[3] = 0
    BY <1>2, <1>6 DEF Moved, At
  <2>2. PICK M \in Nat \ {0} : M = B * B
    <3>1. B * B \in Nat \ {0}
      OBVIOUS
    <3> QED BY <3>1
  <2>3. PICK r \in 0..M - 1 : r = a0 + B * a1
    BY <2>2, Digit
  <2>4. PICK m \in Int, q \in Int : m = Value(a) /\ q = a2 + B * a3 /\ m = M * q + r
    <3>1. a0 + B * (a1 + B * (a2 + B * a3)) = (B * B) * (a2 + B * a3) + (a0 + B * a1)
      OBVIOUS
    <3>2. a2 + B * a3 \in Int
      OBVIOUS
    <3> QED BY <1>3, <2>2, <2>3, <3>1, <3>2
  <2>5. Value(Moved(a, n)) = a2 + B * (a3 + B * (0 + B * 0))
    BY <1>1, <2>1 DEF Value
  <2>6. m \div M = q
    <3>1. m = M * q + r
      BY <2>4
    <3> QED BY <3>1, DivModIs, Zenon
  <2>7. 2^(n * W) = M
    BY <1>1, <1>6, <2>2, AllIs
  <2> QED BY <2>4, <2>5, <2>6, <2>7
<1>7. CASE n = 3
  <2>1. Moved(a, n)[0] = a3 /\ Moved(a, n)[1] = 0 /\ Moved(a, n)[2] = 0
          /\ Moved(a, n)[3] = 0
    BY <1>2, <1>7 DEF Moved, At
  <2>2. PICK M \in Nat \ {0} : M = B * (B * B)
    <3>1. B * (B * B) \in Nat \ {0}
      OBVIOUS
    <3> QED BY <3>1
  <2>3. PICK r \in 0..M - 1 : r = a0 + B * (a1 + B * a2)
    <3>1. PICK N \in Nat \ {0} : N = B * B
      <4>1. B * B \in Nat \ {0}
        OBVIOUS
      <4> QED BY <4>1
    <3>2. a1 + B * a2 \in 0..N - 1
      BY <3>1, Digit
    <3>3. N \in Nat
      OBVIOUS
    <3>4. a0 + B * (a1 + B * a2) \in 0..B * N - 1
      BY <3>2, <3>3, Digit
    <3> QED BY <2>2, <3>1, <3>4
  <2>4. PICK m \in Int, q \in Int : m = Value(a) /\ q = a3 /\ m = M * q + r
    <3>1. a0 + B * (a1 + B * (a2 + B * a3)) = (B * (B * B)) * a3 + (a0 + B * (a1 + B * a2))
      OBVIOUS
    <3> QED BY <1>3, <2>2, <2>3, <3>1
  <2>5. Value(Moved(a, n)) = a3 + B * (0 + B * (0 + B * 0))
    BY <1>1, <2>1 DEF Value
  <2>6. m \div M = q
    <3>1. m = M * q + r
      BY <2>4
    <3> QED BY <3>1, DivModIs, Zenon
  <2>7. 2^(n * W) = M
    BY <1>1, <1>7, <2>2, AllIs
  <2> QED BY <2>4, <2>5, <2>6, <2>7
<1> QED BY <1>4, <1>5, <1>6, <1>7

\* The number of multiplied digits.
LEMMA Scaled ==
  ASSUME NEW P \in Int, NEW a \in [0..3 -> Int]
  PROVE  Value([i \in 0..3 |-> P * a[i]]) = P * Value(a) /\ Value(a) \in Int
<1>1. PICK t0 \in Int, t1 \in Int, t2 \in Int, t3 \in Int, B \in Int :
        t0 = a[0] /\ t1 = a[1] /\ t2 = a[2] /\ t3 = a[3] /\ B = Base
  BY BaseIs
<1>2. Value(a) = t0 + B * (t1 + B * (t2 + B * t3))
  BY <1>1 DEF Value
<1>3. Value([i \in 0..3 |-> P * a[i]]) = P * t0 + B * (P * t1 + B * (P * t2 + B * (P * t3)))
  BY <1>1 DEF Value
<1>4. P * t0 + B * (P * t1 + B * (P * t2 + B * (P * t3)))
        = P * (t0 + B * (t1 + B * (t2 + B * t3)))
  OBVIOUS
<1>5. t0 + B * (t1 + B * (t2 + B * t3)) \in Int
  OBVIOUS
<1> QED BY <1>2, <1>3, <1>4, <1>5

\* A number of four words shifted right.
LEMMA ShrIs ==
  ASSUME NEW a \in Words, NEW k \in Nat
  PROVE  U128Shr(a, k) \in Words /\ Value(U128Shr(a, k)) = Value(a) \div 2^k
<1> DEFINE r == U128Shr(a, k)
<1>1. PICK M \in Nat \ {0} : M = 2^(4 * W)
  <2>1. 4 * W \in Nat
    BY BaseIs
  <2> QED BY <2>1, PowIs
<1>2. Value(a) \in 0..M - 1 /\ 4 * W \in Nat
  BY <1>1, WordsAre, BaseIs
<1>3. CASE k <= 0
  <2>1. k = 0 /\ 2^0 = 1
    BY <1>3
  <2>2. r = a
    BY <2>1, BaseIs DEF U128Shr
  <2>3. Value(a) \div 1 = Value(a)
    BY <1>2
  <2> QED BY <2>1, <2>2, <2>3
<1>4. CASE k > 0 /\ k >= 4 * W
  <2>1. r = U128Zero /\ U128Zero \in Words
    BY <1>4, BaseIs DEF U128Shr, U128Zero, Words, Word
  <2>2. Value(r) = 0
    BY <2>1, BaseIs DEF U128Zero, Value
  <2>3. PICK d \in Nat : k = 4 * W + d
    <3>1. k - 4 * W \in Nat /\ k = 4 * W + (k - 4 * W)
      BY <1>2, <1>4
    <3> QED BY <3>1
  <2>4. 2^k = 2^(4 * W) * 2^d /\ 2^d \in Nat \ {0}
    BY <1>2, <2>3, PowSum, PowIs
  <2>5. PICK e \in Nat : 2^d = e + 1
    BY <2>4
  <2>6. M * (e + 1) = M * e + M /\ M * e \in Nat
    OBVIOUS
  <2>7. PICK n \in Int, b \in Nat \ {0}, v \in Nat, z \in Int :
          n = Value(a) /\ b = 2^k /\ v = Value(a) /\ z = 0 /\ n = b * z + v /\ v \in 0..b - 1
    <3>1. 2^k = M * e + M
      BY <1>1, <2>4, <2>5, <2>6
    <3>2. 2^k \in Nat \ {0} /\ Value(a) \in 0..2^k - 1 /\ Value(a) \in Int
      BY <1>2, <2>6, <3>1
    <3>3. Value(a) = 2^k * 0 + Value(a)
      BY <3>2
    <3> QED BY <3>2, <3>3
  <2>8. n \div b = z
    <3>1. n = b * z + v /\ v \in 0..b - 1
      BY <2>7
    <3> QED BY <3>1, DivModIs, Zenon
  <2> QED BY <2>1, <2>2, <2>7, <2>8
<1>5. CASE k \in 1..4 * W - 1
  <2>1. PICK n \in 0..3, s \in 0..W - 1 : n = k \div W /\ s = k % W /\ 2^k = 2^(n * W) * 2^s
    BY <1>5, ShiftIs
  <2>2. PICK Q \in Nat \ {0}, P \in Nat \ {0} :
          /\ Q = 2^(W - s) /\ P = 2^s /\ Q * P = Base
          /\ \A w \in Word : /\ Shl(w, W - s) = Q * (w % P) /\ w % P \in 0..P - 1
                            /\ Shr(w, s) \in 0..Q - 1
                            /\ w = P * Shr(w, s) + (w % P)
    <3>1. PICK u \in 0..W : u = W - s /\ W - u = s
      BY BaseIs
    <3>2. PICK Q \in Nat \ {0}, P \in Nat \ {0} :
            /\ Q = 2^u /\ P = 2^(W - u) /\ Q * P = Base
            /\ \A w \in Word : /\ Shl(w, u) = Q * (w % P) /\ w % P \in 0..P - 1
                              /\ Shr(w, W - u) \in 0..Q - 1 /\ Shl(w, u) \in Nat
                              /\ w = P * Shr(w, W - u) + (w % P)
                              /\ Shl(w, u) + Base * Shr(w, W - u) = Q * w
                              /\ \A z \in 0..Q - 1 : Shl(w, u) + z \in Word
      BY ShiftWords
    <3> QED BY <3>1, <3>2
  <2> DEFINE t == Moved(a, n)
             y == [i \in 0..3 |-> P * r[i]]
             c == [i \in 0..4 |-> -(At(a, i + n) % P)]
  <2>3. r = [i \in 0..3 |-> Shr(At(a, i + n), s) + Shl(At(a, i + n + 1), W - s)]
    <3>1. ~(k <= 0) /\ ~(k >= 4 * W)
      BY <1>2, <1>5
    <3>2. r = [i \in 0..3 |-> Shr(IF i + (k \div W) \in 0..3 THEN a[i + (k \div W)] ELSE 0, k % W)
                + Shl(IF i + (k \div W) + 1 \in 0..3 THEN a[i + (k \div W) + 1] ELSE 0,
                      W - (k % W))]
      BY <3>1 DEF U128Shr
    <3> HIDE DEF r
    <3> QED BY <2>1, <3>2 DEF At
  <2>4. \A i \in 0..4 : At(a, i + n) \in Word /\ At(a, i + n + 1) \in Word
    <3>1. \A i \in 0..4 : i + n \in Int /\ i + n + 1 \in Int
      OBVIOUS
    <3> QED BY <3>1, AtIs
  <2>5. \A i \in 0..3 : \E w \in Word, e \in Word :
          w = At(a, i + n) /\ e = At(a, i + n + 1) /\ r[i] = Shr(w, s) + Q * (e % P)
    <3>1. TAKE i \in 0..3
    <3>2. PICK w \in Word, e \in Word : w = At(a, i + n) /\ e = At(a, i + n + 1)
      BY <2>4
    <3>3. r[i] = Shr(w, s) + Shl(e, W - s)
      BY <2>3, <3>2
    <3>4. Shl(e, W - s) = Q * (e % P)
      BY <2>2
    <3> QED BY <3>2, <3>3, <3>4
  <2>6. \A i \in 0..3 : r[i] \in Word
    <3>1. TAKE i \in 0..3
    <3>2. PICK w \in Word, e \in Word : r[i] = Shr(w, s) + Q * (e % P)
      BY <2>5
    <3>3. PICK z \in 0..Q - 1, x \in 0..P - 1 : z = Shr(w, s) /\ x = e % P
      BY <2>2
    <3>4. z + Q * x \in 0..Q * P - 1
      <4>1. P \in Nat
        OBVIOUS
      <4> QED BY <4>1, Digit
    <3> QED BY <2>2, <3>2, <3>3, <3>4 DEF Word
  <2>7. r \in Words
    <3>1. r = [i \in 0..3 |-> r[i]]
      BY <2>3
    <3> HIDE DEF r
    <3> QED BY <2>6, <3>1 DEF Words
  <2>8. t \in Words /\ \A i \in 0..3 : t[i] = At(a, i + n)
    <3>1. n \in -3..3
      OBVIOUS
    <3> QED BY <3>1, MovedIs DEF Moved
  <2>9. Carries(y, t, c)
    <3> HIDE DEF r, t
    <3>1. y \in [0..3 -> Int] /\ c \in [0..4 -> Int] /\ t \in [0..3 -> Int]
      <4>1. \A i \in 0..3 : P * r[i] \in Int
        BY <2>7, WordsAre
      <4>2. \A i \in 0..4 : -(At(a, i + n) % P) \in Int
        <5>1. TAKE i \in 0..4
        <5>2. PICK w \in Word : w = At(a, i + n)
          BY <2>4
        <5> QED BY <2>2, <5>2
      <4>3. t \in [0..3 -> Int]
        BY <2>8, BaseIs DEF Words, Word
      <4> QED BY <4>1, <4>2, <4>3
    <3>2. \A i \in 0..3 : y[i] + Base * c[i + 1] = t[i] + c[i]
      <4>1. TAKE i \in 0..3
      <4>2. PICK w \in Word, e \in Word :
              w = At(a, i + n) /\ e = At(a, i + n + 1) /\ r[i] = Shr(w, s) + Q * (e % P)
        BY <2>5
      <4>3. PICK z \in Int, x \in Int, u \in Int :
              z = Shr(w, s) /\ x = w % P /\ u = e % P /\ w = P * z + x
        BY <2>2
      <4>4. y[i] = P * (z + Q * u)
        BY <4>2, <4>3
      <4>5. c[i + 1] = -u /\ c[i] = -x /\ t[i] = w
        <5>1. i + 1 \in 0..4 /\ i \in 0..4 /\ (i + 1) + n = i + n + 1
          OBVIOUS
        <5> QED BY <2>8, <4>2, <4>3, <5>1
      <4>6. P * (z + Q * u) + (Q * P) * (-u) = (P * z + x) + (-x)
        <5>1. P * (z + Q * u) = P * z + (Q * P) * u
          OBVIOUS
        <5>2. (Q * P) * (-u) = -((Q * P) * u)
          OBVIOUS
        <5>3. P * z \in Int /\ (Q * P) * u \in Int
          OBVIOUS
        <5> QED BY <5>1, <5>2, <5>3
      <4> QED BY <2>2, <4>3, <4>4, <4>5, <4>6
    <3> HIDE DEF y, c
    <3> QED BY <3>1, <3>2 DEF Carries
  <2>10. c[4] = 0
    <3>1. At(a, 4 + n) = 0
      BY DEF At
    <3>2. 0 % P = 0
      OBVIOUS
    <3> QED BY <3>1, <3>2
  <2>11. PICK v \in Int, m \in Int, x \in 0..P - 1, c0 \in Int :
           /\ v = Value(r) /\ m = Value(t) /\ c0 = c[0] /\ c0 = -x
           /\ Value(y) = P * v
    <3>1. At(a, 0 + n) \in Word /\ c[0] = -(At(a, 0 + n) % P)
      BY <2>4
    <3>2. PICK x \in 0..P - 1 : x = At(a, 0 + n) % P
      BY <2>2, <3>1
    <3> HIDE DEF r, t, c
    <3>3. r \in [0..3 -> Int]
      BY <2>7, BaseIs DEF Words, Word
    <3>4. Value(y) = P * Value(r)
      BY <3>3, Scaled
    <3> HIDE DEF y
    <3> QED BY <2>7, <2>8, <3>1, <3>2, <3>4, WordsAre
  <2>12. m = P * v + x
    <3> HIDE DEF r, t, y, c
    <3>1. Value(y) + 2^(4 * W) * c[4] = Value(t) + c[0]
      BY <2>9, Chain
    <3>2. P * v + M * 0 = m - x
      BY <1>1, <2>10, <2>11, <3>1
    <3> QED BY <3>2
  <2>13. m \div P = v
    BY <2>12, DivModIs, Zenon
  <2>14. PICK A \in Int, N \in Nat \ {0} : A = Value(a) /\ N = 2^(n * W) /\ m = A \div N
    <3>1. n * W \in Nat
      BY BaseIs
    <3>2. 2^(n * W) \in Nat \ {0}
      BY <3>1, PowIs
    <3> QED BY <1>2, <2>11, <3>2, MovedDown
  <2>15. (A \div N) \div P = A \div (N * P)
    BY DivDiv
  <2> QED BY <2>1, <2>2, <2>7, <2>11, <2>13, <2>14, <2>15
<1> QED BY <1>2, <1>3, <1>4, <1>5

-----------------------------------------------------------------------------
(***************************************************************************)
(* Two words.                                                              *)
(***************************************************************************)
LEMMA PairMod ==
  ASSUME NEW p \in Pair, NEW c \in Int, NEW n \in Int,
         PairValue(p) + 2^(2 * W) * c = n
  PROVE  PairValue(p) = n % 2^(2 * W)
<1>1. PICK M \in Nat \ {0} : M = 2^(2 * W)
  <2>1. 2 * W \in Nat
    BY BaseIs
  <2> QED BY <2>1, PowIs
<1>2. PICK v \in 0..M - 1 : v = PairValue(p)
  BY <1>1, PairIs
<1>3. v + M * c = n
  BY <1>1, <1>2
<1> QED BY <1>1, <1>2, <1>3, Wraps

\* A pair whose digits differ from p and q by carries.
LEMMA PairDigits ==
  ASSUME NEW r \in Pair, NEW p \in Int, NEW q \in Int, NEW c \in Int, NEW d \in Int,
         r.lo + Base * c = p, r.hi + Base * d = q + c
  PROVE  PairValue(r) = (p + Base * q) % 2^(2 * W)
<1>1. PICK B \in Int : B = Base
  BY BaseIs
<1>2. r.lo \in Int /\ r.hi \in Int /\ PairValue(r) = r.lo + Base * r.hi
  BY PairIs, BaseIs DEF Word
<1>3. PICK x \in Int, y \in Int : x = r.lo /\ y = r.hi
  BY <1>2
<1>4. x + B * c = p /\ y + B * d = q + c
  BY <1>1, <1>3
<1>5. (x + B * y) + (B * B) * d = p + B * q
  <2>1. B * (y + B * d) = B * (q + c)
    BY <1>4
  <2>2. B * (y + B * d) = B * y + (B * B) * d
    OBVIOUS
  <2>3. B * (q + c) = B * q + B * c
    OBVIOUS
  <2>4. B * y + (B * B) * d = B * q + B * c
    BY <2>1, <2>2, <2>3
  <2>5. PICK u \in Int, v \in Int, w \in Int, t \in Int :
          u = B * y /\ v = (B * B) * d /\ w = B * q /\ t = B * c
    <3>1. (B * B) * d \in Int /\ B * y \in Int /\ B * q \in Int /\ B * c \in Int
      OBVIOUS
    <3> QED BY <3>1
  <2>6. u + v = w + t /\ x + t = p
    BY <1>4, <2>4, <2>5
  <2>7. (x + u) + v = p + w
    BY <2>6
  <2> QED BY <2>5, <2>7
<1>6. PICK n \in Int : n = p + B * q
  <2>1. p + B * q \in Int
    OBVIOUS
  <2> QED BY <2>1
<1>7. PairValue(r) + 2^(2 * W) * d = n
  BY <1>1, <1>2, <1>3, <1>5, <1>6, AllIs
<1>8. PairValue(r) = n % 2^(2 * W)
  BY <1>7, PairMod
<1> QED BY <1>1, <1>6, <1>8

\* f64_add_mant.
LEMMA PairAdd ==
  ASSUME NEW a \in Pair, NEW b \in Pair
  PROVE  /\ F64AddMant(a, b) \in Pair
         /\ PairValue(F64AddMant(a, b)) = (PairValue(a) + PairValue(b)) % 2^(2 * W)
<1> DEFINE r == F64AddMant(a, b)
<1>1. /\ a.lo \in Word /\ a.hi \in Word /\ PairValue(a) = a.lo + Base * a.hi
      /\ b.lo \in Word /\ b.hi \in Word /\ PairValue(b) = b.lo + Base * b.hi
  BY PairIs
<1>2. Base \in Int /\ a.lo \in Int /\ a.hi \in Int /\ b.lo \in Int /\ b.hi \in Int
  BY <1>1, BaseIs DEF Word
<1>3. PICK c1 \in {0, 1} :
        /\ c1 = CarryOut(a.lo, b.lo, 0)
        /\ (a.lo + b.lo + 0) % Base \in Word
        /\ ((a.lo + b.lo + 0) % Base) + Base * c1 = a.lo + b.lo + 0
  BY <1>1, CarryIs
<1>4. PICK c2 \in {0, 1} :
        /\ (a.hi + b.hi + c1) % Base \in Word
        /\ ((a.hi + b.hi + c1) % Base) + Base * c2 = a.hi + b.hi + c1
  BY <1>1, CarryIs
<1>5. r.lo = (a.lo + b.lo + 0) % Base /\ r.hi = (a.hi + b.hi + c1) % Base /\ r \in Pair
  <2>1. a.lo + b.lo + 0 = a.lo + b.lo
    BY <1>2
  <2>2. c1 = Bit((a.lo + b.lo) % Base < a.lo)
    BY <1>3, <2>1 DEF CarryOut
  <2>3. r = [lo |-> (a.lo + b.lo) % Base, hi |-> (a.hi + b.hi + c1) % Base]
    BY <2>2 DEF F64AddMant
  <2> HIDE DEF r
  <2> QED BY <1>3, <1>4, <2>1, <2>3 DEF Pair
<1> HIDE DEF r
<1>6. PICK p \in Int, q \in Int, c \in Int, d \in Int :
        /\ p = a.lo + b.lo /\ q = a.hi + b.hi /\ c = c1 /\ d = c2
        /\ r.lo + Base * c = p /\ r.hi + Base * d = q + c
  <2>1. r.lo \in Int /\ r.hi \in Int
    BY <1>5, PairIs, BaseIs DEF Word
  <2>2. PICK x \in Int, y \in Int, B \in Int, d1 \in Int, d2 \in Int :
          x = r.lo /\ y = r.hi /\ B = Base /\ d1 = c1 /\ d2 = c2
    BY <1>2, <2>1
  <2>3. PICK e1 \in Int, e2 \in Int : e1 = B * d1 /\ e2 = B * d2
    <3>1. B * d1 \in Int /\ B * d2 \in Int
      OBVIOUS
    <3> QED BY <3>1
  <2>4. x + e1 = a.lo + b.lo /\ y + e2 = (a.hi + b.hi) + d1
    BY <1>2, <1>3, <1>4, <1>5, <2>2, <2>3
  <2>5. B * (d1) = e1 /\ B * (d2) = e2
    BY <2>3
  <2>6. x + B * (d1) = a.lo + b.lo /\ y + B * (d2) = (a.hi + b.hi) + (d1)
    BY <1>2, <2>4, <2>5
  <2>7. a.lo + b.lo \in Int /\ a.hi + b.hi \in Int /\ d1 \in Int /\ d2 \in Int
    BY <1>2
  <2> QED BY <2>2, <2>6, <2>7
<1>7. PairValue(r) = (p + Base * q) % 2^(2 * W)
  BY <1>5, <1>6, PairDigits
<1>8. p + Base * q = PairValue(a) + PairValue(b)
  <2>1. PICK B \in Int, a0 \in Int, a1 \in Int, b0 \in Int, b1 \in Int :
          B = Base /\ a0 = a.lo /\ a1 = a.hi /\ b0 = b.lo /\ b1 = b.hi
    BY <1>2
  <2>2. (a0 + b0) + B * (a1 + b1) = (a0 + B * a1) + (b0 + B * b1)
    OBVIOUS
  <2> QED BY <1>1, <1>6, <2>1, <2>2
<1> QED BY <1>5, <1>7, <1>8 DEF r

\* f64_sub_mant.
LEMMA PairSub ==
  ASSUME NEW a \in Pair, NEW b \in Pair
  PROVE  /\ F64SubMant(a, b) \in Pair
         /\ PairValue(F64SubMant(a, b)) = (PairValue(a) - PairValue(b)) % 2^(2 * W)
<1> DEFINE r == F64SubMant(a, b)
<1>1. /\ a.lo \in Word /\ a.hi \in Word /\ PairValue(a) = a.lo + Base * a.hi
      /\ b.lo \in Word /\ b.hi \in Word /\ PairValue(b) = b.lo + Base * b.hi
  BY PairIs
<1>2. Base \in Int /\ a.lo \in Int /\ a.hi \in Int /\ b.lo \in Int /\ b.hi \in Int
  BY <1>1, BaseIs DEF Word
<1>3. PICK c1 \in {0, 1} :
        /\ c1 = BorrowOut(a.lo, b.lo, 0)
        /\ (a.lo - b.lo - 0) % Base \in Word
        /\ ((a.lo - b.lo - 0) % Base) - Base * c1 = a.lo - b.lo - 0
  BY <1>1, BorrowIs
<1>4. PICK c2 \in {0, 1} :
        /\ (a.hi - b.hi - c1) % Base \in Word
        /\ ((a.hi - b.hi - c1) % Base) - Base * c2 = a.hi - b.hi - c1
  BY <1>1, BorrowIs
<1>5. r.lo = (a.lo - b.lo - 0) % Base /\ r.hi = (a.hi - b.hi - c1) % Base /\ r \in Pair
  <2>1. a.lo - b.lo - 0 = a.lo - b.lo
    BY <1>2
  <2>2. c1 = Bit(a.lo < b.lo)
    BY <1>3 DEF BorrowOut
  <2>3. r = [lo |-> (a.lo - b.lo) % Base, hi |-> (a.hi - b.hi - c1) % Base]
    BY <2>2 DEF F64SubMant
  <2> HIDE DEF r
  <2> QED BY <1>3, <1>4, <2>1, <2>3 DEF Pair
<1> HIDE DEF r
<1>6. PICK p \in Int, q \in Int, c \in Int, d \in Int :
        /\ p = a.lo - b.lo /\ q = a.hi - b.hi /\ c = -c1 /\ d = -c2
        /\ r.lo + Base * c = p /\ r.hi + Base * d = q + c
  <2>1. r.lo \in Int /\ r.hi \in Int
    BY <1>5, PairIs, BaseIs DEF Word
  <2>2. PICK x \in Int, y \in Int, B \in Int, d1 \in Int, d2 \in Int :
          x = r.lo /\ y = r.hi /\ B = Base /\ d1 = c1 /\ d2 = c2
    BY <1>2, <2>1
  <2>3. PICK e1 \in Int, e2 \in Int : e1 = B * d1 /\ e2 = B * d2
    <3>1. B * d1 \in Int /\ B * d2 \in Int
      OBVIOUS
    <3> QED BY <3>1
  <2>4. x - e1 = a.lo - b.lo /\ y - e2 = (a.hi - b.hi) - d1
    BY <1>2, <1>3, <1>4, <1>5, <2>2, <2>3
  <2>5. B * (-d1) = -e1 /\ B * (-d2) = -e2
    BY <2>3
  <2>6. x + B * (-d1) = a.lo - b.lo /\ y + B * (-d2) = (a.hi - b.hi) + (-d1)
    BY <1>2, <2>4, <2>5
  <2>7. a.lo - b.lo \in Int /\ a.hi - b.hi \in Int /\ -d1 \in Int /\ -d2 \in Int
    BY <1>2
  <2> QED BY <2>2, <2>6, <2>7
<1>7. PairValue(r) = (p + Base * q) % 2^(2 * W)
  BY <1>5, <1>6, PairDigits
<1>8. p + Base * q = PairValue(a) - PairValue(b)
  <2>1. PICK B \in Int, a0 \in Int, a1 \in Int, b0 \in Int, b1 \in Int :
          B = Base /\ a0 = a.lo /\ a1 = a.hi /\ b0 = b.lo /\ b1 = b.hi
    BY <1>2
  <2>2. (a0 - b0) + B * (a1 - b1) = (a0 + B * a1) - (b0 + B * b1)
    OBVIOUS
  <2> QED BY <1>1, <1>6, <2>1, <2>2
<1> QED BY <1>5, <1>7, <1>8 DEF r

\* f64_cmp_mant.
LEMMA PairCmp ==
  ASSUME NEW a \in Pair, NEW b \in Pair
  PROVE  F64CmpMant(a, b) = Order(PairValue(a), PairValue(b))
<1>1. /\ a.lo \in Word /\ a.hi \in Word /\ PairValue(a) = a.lo + Base * a.hi
      /\ b.lo \in Word /\ b.hi \in Word /\ PairValue(b) = b.lo + Base * b.hi
  BY PairIs
<1>2. PICK B \in Nat : B = Base
  BY BaseIs
<1>3. PICK a0 \in 0..B - 1, a1 \in 0..B - 1, b0 \in 0..B - 1, b1 \in 0..B - 1 :
        a0 = a.lo /\ a1 = a.hi /\ b0 = b.lo /\ b1 = b.hi
  BY <1>1, <1>2 DEF Word
<1>4. PICK m \in Int, n \in Int :
        /\ m = PairValue(a) /\ m = a0 + B * a1
        /\ n = PairValue(b) /\ n = b0 + B * b1
  <2>1. a0 + B * a1 \in Int /\ b0 + B * b1 \in Int
    OBVIOUS
  <2> QED BY <1>1, <1>2, <1>3, <2>1
<1>5. a1 < b1 => m < n
  <2>1. a1 < b1 => a0 + B * a1 < b0 + B * b1
    BY LessAbove
  <2> QED BY <1>4, <2>1
<1>6. b1 < a1 => n < m
  <2>1. b1 < a1 => b0 + B * b1 < a0 + B * a1
    BY LessAbove
  <2> QED BY <1>4, <2>1
<1> DEFINE o == F64CmpMant(a, b)
<1>7. /\ (a1 < b1 => o = -1) /\ (b1 < a1 => o = 1)
      /\ (a1 = b1 /\ a0 < b0 => o = -1) /\ (a1 = b1 /\ b0 < a0 => o = 1)
      /\ a1 = b1 /\ a0 = b0 => o = 0
  BY <1>3 DEF F64CmpMant
<1> HIDE DEF o
<1>8. o = Order(m, n)
  <2>1. CASE a1 < b1
    BY <1>5, <1>7, <2>1 DEF Order
  <2>2. CASE b1 < a1
    BY <1>6, <1>7, <2>2 DEF Order
  <2>3. CASE a1 = b1
    <3>1. PICK z \in Int : m = a0 + z /\ n = b0 + z
      <4>1. B * a1 \in Int /\ n = b0 + B * a1
        BY <1>4, <2>3
      <4> QED BY <1>4, <4>1
    <3> QED BY <1>7, <2>3, <3>1 DEF Order
  <2> QED BY <2>1, <2>2, <2>3
<1> QED BY <1>4, <1>8 DEF o

\* f64_shl, for every distance.
LEMMA PairShl ==
  ASSUME NEW a \in Pair, NEW k \in Nat
  PROVE  F64Shl(a, k) \in Pair /\ PairValue(F64Shl(a, k)) = (PairValue(a) * 2^k) % 2^(2 * W)
<1> DEFINE r == F64Shl(a, k)
<1>1. PICK M \in Nat \ {0} : M = 2^(2 * W)
  <2>1. 2 * W \in Nat
    BY BaseIs
  <2> QED BY <2>1, PowIs
<1>2. /\ a.lo \in Word /\ a.hi \in Word /\ PairValue(a) = a.lo + Base * a.hi
      /\ PairValue(a) \in 0..M - 1 /\ W \in Nat /\ 0 \in Word /\ W # 0
  BY <1>1, PairIs, BaseIs DEF Word
<1>3. PICK B \in Nat, l \in Nat, h \in Nat : B = Base /\ l = a.lo /\ h = a.hi
  <2>1. Base \in Nat /\ a.lo \in 0..Base - 1 /\ a.hi \in 0..Base - 1
    BY <1>2, BaseIs DEF Word
  <2>2. a.lo \in Nat /\ a.hi \in Nat
    BY <2>1
  <2> QED BY <2>1, <2>2
<1>4. CASE k = 0
  <2>1. r = a /\ 2^0 = 1
    BY <1>2, <1>4 DEF F64Shl
  <2>2. PairValue(a) * 1 = PairValue(a)
    BY <1>2
  <2>3. PICK n \in Int, z \in Int : n = PairValue(a) /\ z = 0 /\ PairValue(a) + M * z = n
    BY <1>2
  <2>4. PairValue(a) = n % M
    BY <1>1, <2>3, PairMod
  <2> QED BY <1>1, <1>4, <2>1, <2>2, <2>3, <2>4
<1>5. CASE k >= 2 * W
  <2>1. r = [lo |-> 0, hi |-> 0]
    BY <1>2, <1>5 DEF F64Shl
  <2>2. r \in Pair /\ PairValue(r) = 0
    BY <1>2, <2>1, BaseIs DEF Pair, PairValue
  <2>3. PICK d \in Nat : k = 2 * W + d
    <3>1. k - 2 * W \in Nat /\ k = 2 * W + (k - 2 * W)
      BY <1>2, <1>5
    <3> QED BY <3>1
  <2>4. 2^k = 2^(2 * W) * 2^d /\ 2^d \in Nat
    <3>1. PICK m \in Nat : m = 2 * W /\ k = m + d
      BY <1>2, <2>3
    <3>2. 2^(m + d) = 2^m * 2^d
      BY PowSum
    <3>3. 2^d \in Nat \ {0}
      BY PowIs
    <3> QED BY <3>1, <3>2, <3>3
  <2>5. PICK u \in Nat, e \in Nat : u = PairValue(a) /\ e = 2^d /\ 2^k = M * e
    BY <1>1, <1>2, <2>4
  <2>6. 0 + M * (u * e) = u * (M * e)
    OBVIOUS
  <2>7. PICK n \in Int, z \in Int : n = PairValue(a) * 2^k /\ z = u * e /\ PairValue(r) + M * z = n
    <3>1. u * e \in Int /\ u * (M * e) \in Int
      OBVIOUS
    <3> HIDE DEF r
    <3> QED BY <2>2, <2>5, <2>6, <3>1
  <2>8. PairValue(r) = n % M
    BY <1>1, <2>2, <2>7, PairMod
  <2> QED BY <1>1, <2>2, <2>7, <2>8
<1>6. CASE k \in W..2 * W - 1
  <2>1. PICK s \in 0..W - 1 : s = k - W /\ k = W + s
    BY <1>2, <1>6
  <2>2. PICK P \in Nat \ {0}, z \in Int, x \in Int :
          P = 2^s /\ x = Shl(l, s) /\ x + Base * z = P * l /\ x \in Word
    <3>1. s \in 0..W
      BY <1>2
    <3>2. PICK P \in Nat \ {0}, Q \in Nat \ {0} :
            /\ P = 2^s /\ Q = 2^(W - s) /\ P * Q = Base
            /\ \A w \in Word : /\ Shl(w, s) = P * (w % Q) /\ w % Q \in 0..Q - 1
                              /\ Shr(w, W - s) \in 0..P - 1 /\ Shl(w, s) \in Nat
                              /\ w = Q * Shr(w, W - s) + (w % Q)
                              /\ Shl(w, s) + Base * Shr(w, W - s) = P * w
                              /\ \A u \in 0..P - 1 : Shl(w, s) + u \in Word
      BY <3>1, ShiftWords
    <3>3. PICK w \in Word : w = l
      BY <1>2, <1>3
    <3>4. 0 \in 0..P - 1 /\ Shl(w, s) \in Nat /\ Shr(w, W - s) \in Int
      BY <3>2
    <3>5. Shl(w, s) + 0 \in Word /\ Shl(w, s) + 0 = Shl(w, s)
      BY <3>2, <3>4
    <3>6. Shl(w, s) + Base * Shr(w, W - s) = P * w
      BY <3>2
    <3> QED BY <3>2, <3>3, <3>4, <3>5, <3>6
  <2>3. r = [lo |-> 0, hi |-> x]
    <3>1. ~(k <= 0) /\ ~(k >= 2 * W)
      BY <1>2, <1>6
    <3> QED BY <1>3, <1>6, <2>1, <2>2, <3>1 DEF F64Shl
  <2>4. r \in Pair
    BY <1>2, <2>2, <2>3 DEF Pair
  <2>5. PairValue(r) = B * x
    BY <1>3, <2>2, <2>3 DEF PairValue
  <2>6. 2^k = B * P
    <3>1. s \in Nat
      OBVIOUS
    <3> QED BY <1>2, <1>3, <2>1, <2>2, <3>1, PowSum DEF Base
  <2>7. (l + B * h) * (B * P) = B * x + (B * B) * (z + P * h)
    <3>1. x + B * z = P * l
      BY <1>3, <2>2
    <3>2. (l + B * h) * (B * P) = B * (P * l) + (B * B) * (P * h)
      OBVIOUS
    <3>3. B * (x + B * z) = B * x + (B * B) * z
      OBVIOUS
    <3>4. (B * B) * (z + P * h) = (B * B) * z + (B * B) * (P * h)
      OBVIOUS
    <3>5. PICK u \in Int, v \in Int, w \in Int :
            u = B * x /\ v = (B * B) * z /\ w = (B * B) * (P * h)
      <4>1. B * x \in Int /\ (B * B) * z \in Int /\ (B * B) * (P * h) \in Int
        OBVIOUS
      <4> QED BY <4>1
    <3>6. B * (P * l) = u + v
      BY <3>1, <3>3, <3>5
    <3>7. (u + v) + w = u + (v + w)
      OBVIOUS
    <3> QED BY <3>2, <3>4, <3>5, <3>6, <3>7
  <2>8. PICK n \in Int, c \in Int :
          n = PairValue(a) * 2^k /\ c = z + P * h /\ PairValue(r) + 2^(2 * W) * c = n
    <3>1. z + P * h \in Int /\ (l + B * h) * (B * P) \in Int
      OBVIOUS
    <3>2. PairValue(a) * 2^k = (l + B * h) * (B * P)
      BY <1>2, <1>3, <2>6
    <3> HIDE DEF r
    <3> QED BY <1>3, <2>5, <2>7, <3>1, <3>2, AllIs
  <2>9. PairValue(r) = n % 2^(2 * W)
    BY <2>4, <2>8, PairMod
  <2> QED BY <2>4, <2>8, <2>9
<1>7. CASE k \in 1..W - 1
  <2>1. PICK P \in Nat \ {0}, Q \in Nat \ {0} :
          /\ P = 2^k /\ Q = 2^(W - k) /\ P * Q = Base
          /\ \A w \in Word : /\ Shl(w, k) = P * (w % Q) /\ w % Q \in 0..Q - 1
                            /\ Shr(w, W - k) \in 0..P - 1 /\ Shl(w, k) \in Nat
                            /\ w = Q * Shr(w, W - k) + (w % Q)
                            /\ Shl(w, k) + Base * Shr(w, W - k) = P * w
                            /\ \A u \in 0..P - 1 : Shl(w, k) + u \in Word
    <3>1. k \in 0..W
      BY <1>2, <1>7
    <3> QED BY <3>1, ShiftWords
  <2>2. PICK x \in Int, y \in Int, z \in Int, t \in Int :
          /\ x = Shl(l, k) /\ y = Shl(h, k) /\ z = Shr(l, W - k) /\ t = Shr(h, W - k)
          /\ x + Base * z = P * l /\ y + Base * t = P * h
          /\ x \in Word /\ y + z \in Word
    <3>1. /\ Shl(l, k) \in Nat /\ Shl(h, k) \in Nat /\ Shr(l, W - k) \in 0..P - 1
          /\ Shr(h, W - k) \in 0..P - 1
          /\ Shl(l, k) + Base * Shr(l, W - k) = P * l
          /\ Shl(h, k) + Base * Shr(h, W - k) = P * h
      BY <1>2, <1>3, <2>1
    <3>2. Shl(l, k) + 0 \in Word /\ Shl(h, k) + Shr(l, W - k) \in Word
      <4>1. 0 \in 0..P - 1
        OBVIOUS
      <4> QED BY <1>2, <1>3, <2>1, <3>1, <4>1
    <3>3. Shl(l, k) \in Word
      BY <3>1, <3>2
    <3> QED BY <3>1, <3>2, <3>3
  <2>3. r = [lo |-> x, hi |-> y + z]
    <3>1. ~(k <= 0) /\ ~(k >= 2 * W) /\ ~(k \in W..2 * W - 1)
      BY <1>2, <1>7
    <3> QED BY <1>3, <2>2, <3>1 DEF F64Shl
  <2>4. r \in Pair
    BY <2>2, <2>3 DEF Pair
  <2>5. PICK p \in Int, q \in Int, c \in Int, d \in Int :
          /\ p = P * l /\ q = P * h /\ c = z /\ d = t
          /\ r.lo + Base * c = p /\ r.hi + Base * d = q + c
    <3>1. P * l \in Int /\ P * h \in Int
      OBVIOUS
    <3>2. r.lo = x /\ r.hi = y + z
      BY <2>3
    <3>3. PICK e \in Int : e = Base * t
      <4>1. B * t \in Int
        OBVIOUS
      <4> QED BY <1>3, <4>1
    <3>4. (y + z) + e = P * h + z
      BY <2>2, <3>1, <3>3
    <3> HIDE DEF r
    <3> QED BY <2>2, <3>1, <3>2, <3>3, <3>4
  <2>6. PairValue(r) = (p + Base * q) % 2^(2 * W)
    BY <2>4, <2>5, PairDigits
  <2>7. p + Base * q = PairValue(a) * 2^k
    <3>1. P * l + B * (P * h) = (l + B * h) * P
      OBVIOUS
    <3> QED BY <1>2, <1>3, <2>1, <2>5, <3>1
  <2> QED BY <2>4, <2>6, <2>7
<1>8. k = 0 \/ k >= 2 * W \/ k \in W..2 * W - 1 \/ k \in 1..W - 1
  BY <1>2
<1> QED BY <1>4, <1>5, <1>6, <1>7, <1>8

\* f64_shr, for every distance.
LEMMA PairShr ==
  ASSUME NEW a \in Pair, NEW k \in Nat
  PROVE  F64Shr(a, k) \in Pair /\ PairValue(F64Shr(a, k)) = PairValue(a) \div 2^k
<1> DEFINE r == F64Shr(a, k)
<1>1. PICK M \in Nat \ {0} : M = 2^(2 * W)
  <2>1. 2 * W \in Nat
    BY BaseIs
  <2> QED BY <2>1, PowIs
<1>2. /\ a.lo \in Word /\ a.hi \in Word /\ PairValue(a) = a.lo + Base * a.hi
      /\ PairValue(a) \in 0..M - 1 /\ W \in Nat /\ 0 \in Word /\ W # 0
  BY <1>1, PairIs, BaseIs DEF Word
<1>3. PICK B \in Nat \ {0}, l \in Nat, h \in Nat :
        B = Base /\ l = a.lo /\ h = a.hi /\ l \in 0..B - 1 /\ h \in 0..B - 1
  BY <1>2, BaseIs DEF Word
<1>4. CASE k = 0
  <2>1. r = a /\ 2^0 = 1
    BY <1>2, <1>4 DEF F64Shr
  <2>2. PairValue(a) \div 1 = PairValue(a)
    BY <1>2
  <2> QED BY <1>4, <2>1, <2>2
<1>5. CASE k >= 2 * W
  <2>1. r = [lo |-> 0, hi |-> 0]
    BY <1>2, <1>5 DEF F64Shr
  <2>2. r \in Pair /\ PairValue(r) = 0
    BY <1>2, <2>1, BaseIs DEF Pair, PairValue
  <2>3. PICK d \in Nat : k = 2 * W + d
    <3>1. k - 2 * W \in Nat /\ k = 2 * W + (k - 2 * W)
      BY <1>2, <1>5
    <3> QED BY <3>1
  <2>4. 2^k = 2^(2 * W) * 2^d /\ 2^d \in Nat \ {0}
    <3>1. PICK m \in Nat : m = 2 * W /\ k = m + d
      BY <1>2, <2>3
    <3>2. 2^(m + d) = 2^m * 2^d
      BY PowSum
    <3>3. 2^d \in Nat \ {0}
      BY PowIs
    <3> QED BY <3>1, <3>2, <3>3
  <2>5. PICK e \in Nat : 2^d = e + 1
    BY <2>4
  <2>6. M * (e + 1) = M * e + M /\ M * e \in Nat
    OBVIOUS
  <2>7. PICK n \in Int, b \in Nat \ {0}, v \in Nat, z \in Int :
          n = PairValue(a) /\ b = 2^k /\ v = PairValue(a) /\ z = 0 /\ n = b * z + v /\ v \in 0..b - 1
    <3>1. 2^k = M * e + M
      BY <1>1, <2>4, <2>5, <2>6
    <3>2. 2^k \in Nat \ {0} /\ PairValue(a) \in 0..2^k - 1 /\ PairValue(a) \in Int
      BY <1>2, <2>6, <3>1
    <3>3. PairValue(a) = 2^k * 0 + PairValue(a)
      BY <3>2
    <3> QED BY <3>2, <3>3
  <2>8. n \div b = z
    <3>1. n = b * z + v /\ v \in 0..b - 1
      BY <2>7
    <3> QED BY <3>1, DivModIs, Zenon
  <2> QED BY <2>2, <2>7, <2>8
<1>6. CASE k \in W..2 * W - 1
  <2>1. PICK s \in 0..W - 1 : s = k - W /\ k = W + s
    BY <1>2, <1>6
  <2>2. PICK P \in Nat \ {0} : P = 2^s
    <3>1. s \in Nat
      OBVIOUS
    <3> QED BY <3>1, PowIs
  <2>3. PICK q \in Nat, t \in 0..P - 1 : q = h \div P /\ t = h % P /\ h = P * q + t
    BY NatDiv
  <2>4. q \in Word /\ q = Shr(a.hi, k - W)
    <3>1. P * q >= q
      <4>1. PICK e \in Nat : P = e + 1
        OBVIOUS
      <4>2. P * q = e * q + q /\ e * q \in Nat
        BY <4>1
      <4> QED BY <4>2
    <3>2. q <= h
      <4>1. PICK g \in Nat : g = P * q
        <5>1. P * q \in Nat
          OBVIOUS
        <5> QED BY <5>1
      <4> QED BY <2>3, <3>1, <4>1
    <3> QED BY <1>2, <1>3, <2>1, <2>2, <2>3, <3>2 DEF Word, Shr
  <2>5. r = [lo |-> q, hi |-> 0]
    <3>1. ~(k <= 0) /\ ~(k >= 2 * W)
      BY <1>2, <1>6
    <3> QED BY <1>6, <2>4, <3>1 DEF F64Shr
  <2>6. r \in Pair /\ PairValue(r) = q
    BY <1>2, <1>3, <2>4, <2>5 DEF Pair, PairValue
  <2>7. PICK n \in Int : n = PairValue(a) /\ n = B * h + l
    <3>1. l + B * h = B * h + l
      OBVIOUS
    <3> QED BY <1>2, <1>3, <3>1
  <2>8. n \div B = h
    <3>1. n = B * h + l /\ l \in 0..B - 1 /\ h \in Int
      BY <1>3, <2>7
    <3> QED BY <3>1, DivModIs, Zenon
  <2>9. (n \div B) \div P = n \div (B * P)
    BY DivDiv
  <2>10. 2^k = B * P
    <3>1. s \in Nat
      OBVIOUS
    <3> QED BY <1>2, <1>3, <2>1, <2>2, <3>1, PowSum DEF Base
  <2> QED BY <2>3, <2>6, <2>7, <2>8, <2>9, <2>10
<1>7. CASE k \in 1..W - 1
  <2>1. PICK Q \in Nat \ {0}, P \in Nat \ {0} :
          /\ Q = 2^(W - k) /\ P = 2^k /\ Q * P = Base
          /\ \A w \in Word : /\ Shl(w, W - k) = Q * (w % P) /\ w % P \in 0..P - 1
                            /\ Shr(w, k) \in 0..Q - 1
                            /\ w = P * Shr(w, k) + (w % P)
    <3>1. PICK u \in 0..W : u = W - k /\ W - u = k
      BY <1>2, <1>7
    <3>2. PICK Q \in Nat \ {0}, P \in Nat \ {0} :
            /\ Q = 2^u /\ P = 2^(W - u) /\ Q * P = Base
            /\ \A w \in Word : /\ Shl(w, u) = Q * (w % P) /\ w % P \in 0..P - 1
                              /\ Shr(w, W - u) \in 0..Q - 1 /\ Shl(w, u) \in Nat
                              /\ w = P * Shr(w, W - u) + (w % P)
                              /\ Shl(w, u) + Base * Shr(w, W - u) = Q * w
                              /\ \A z \in 0..Q - 1 : Shl(w, u) + z \in Word
      BY ShiftWords
    <3> QED BY <3>1, <3>2
  <2>2. PICK x \in 0..Q - 1, y \in 0..Q - 1, z \in 0..P - 1, t \in 0..P - 1 :
          /\ x = Shr(l, k) /\ y = Shr(h, k) /\ z = l % P /\ t = h % P
          /\ Shl(h, W - k) = Q * t /\ l = P * x + z /\ h = P * y + t
    <3>1. PICK v \in Word, w \in Word : v = l /\ w = h
      BY <1>2, <1>3
    <3>2. /\ Shr(v, k) \in 0..Q - 1 /\ Shr(w, k) \in 0..Q - 1
          /\ v % P \in 0..P - 1 /\ w % P \in 0..P - 1
          /\ Shl(w, W - k) = Q * (w % P)
          /\ v = P * Shr(v, k) + (v % P) /\ w = P * Shr(w, k) + (w % P)
      BY <2>1
    <3> QED BY <3>1, <3>2
  <2>3. r = [lo |-> x + Q * t, hi |-> y]
    <3>1. ~(k <= 0) /\ ~(k >= 2 * W) /\ ~(k \in W..2 * W - 1)
      BY <1>2, <1>7
    <3> QED BY <1>3, <2>2, <3>1 DEF F64Shr
  <2>4. x + Q * t \in Word
    <3>1. P \in Nat
      OBVIOUS
    <3>2. x + Q * t \in 0..Q * P - 1
      BY <3>1, Digit
    <3> QED BY <2>1, <3>2 DEF Word
  <2>5. y \in Word
    <3>1. y + Q * 0 \in 0..Q * P - 1
      <4>1. P \in Nat /\ 0 \in 0..P - 1
        OBVIOUS
      <4> QED BY <4>1, Digit
    <3>2. y + Q * 0 = y
      OBVIOUS
    <3> QED BY <2>1, <3>1, <3>2 DEF Word
  <2>6. r \in Pair /\ PairValue(r) = (x + Q * t) + B * y
    BY <1>3, <2>3, <2>4, <2>5 DEF Pair, PairValue
  <2>7. PICK n \in Int, v \in Int :
          n = PairValue(a) /\ v = (x + Q * t) + B * y /\ n = P * v + z
    <3>1. (P * x + z) + (Q * P) * (P * y + t) = P * ((x + Q * t) + (Q * P) * y) + z
      OBVIOUS
    <3>2. (x + Q * t) + (Q * P) * y \in Int /\ (P * x + z) + (Q * P) * (P * y + t) \in Int
      OBVIOUS
    <3>3. l = P * x + z /\ h = P * y + t /\ B = Q * P
      BY <1>3, <2>1, <2>2
    <3>4. PairValue(a) = (P * x + z) + (Q * P) * (P * y + t)
      BY <1>2, <1>3, <3>3
    <3>5. (x + Q * t) + B * y = (x + Q * t) + (Q * P) * y
      BY <3>3
    <3> QED BY <3>1, <3>2, <3>4, <3>5
  <2>8. n \div P = v
    <3>1. n = P * v + z
      BY <2>7
    <3> QED BY <3>1, DivModIs, Zenon
  <2> QED BY <2>1, <2>6, <2>7, <2>8
<1>8. k = 0 \/ k >= 2 * W \/ k \in W..2 * W - 1 \/ k \in 1..W - 1
  BY <1>2
<1> QED BY <1>4, <1>5, <1>6, <1>7, <1>8

-----------------------------------------------------------------------------
(***************************************************************************)
(* Products.                                                               *)
(***************************************************************************)
\* A product of two numbers below bounds.
LEMMA TimesBelow ==
  ASSUME NEW m \in Nat, NEW n \in Nat, NEW x \in 0..m, NEW y \in 0..n
  PROVE  x * y \in 0..m * n
<1>1. PICK d \in Nat, e \in Nat : m = x + d /\ n = y + e
  <2>1. m - x \in Nat /\ n - y \in Nat /\ m = x + (m - x) /\ n = y + (n - y)
    OBVIOUS
  <2> QED BY <2>1
<1>2. m * n = x * y + (x * e + d * (y + e))
  BY <1>1
<1>3. x * y \in Nat /\ x * e + d * (y + e) \in Nat
  <2>1. x \in Nat /\ y \in Nat
    OBVIOUS
  <2>2. x * y \in Nat /\ x * e \in Nat /\ d * (y + e) \in Nat
    BY <2>1
  <2> QED BY <2>2
<1>4. PICK p \in Nat, q \in Nat : p = x * y /\ q = x * e + d * (y + e)
  BY <1>3
<1>5. m * n = p + q
  BY <1>2, <1>4
<1> QED BY <1>4, <1>5

\* A long with more bits than a word holds twice as many numbers at least.
LEMMA LongIs ==
  ASSUME LongBits > W, NEW n \in 0..2 * Base - 1
  PROVE  Long(n) = n
<1>1. PICK d \in Nat : LongBits = (W + 1) + d
  <2>1. LongBits - (W + 1) \in Nat /\ LongBits = (W + 1) + (LongBits - (W + 1))
    BY WordsAssumption, BaseIs
  <2> QED BY <2>1
<1>2. PICK v \in Nat, w \in Nat : w = W /\ v = W + 1 /\ v = w + 1
  BY BaseIs
<1>3. PICK P \in Nat \ {0} : P = 2^d
  BY PowIs
<1>4. 2^LongBits = (2 * Base) * P
  <2>1. 2^(v + d) = 2^v * 2^d
    BY PowSum
  <2>2. 2^(w + 1) = 2 * 2^w
    BY PowStep
  <2> QED BY <1>1, <1>2, <1>3, <2>1, <2>2 DEF Base
<1>5. PICK N \in Nat \ {0} : N = 2 * Base
  BY BaseIs
<1>6. PICK M \in Nat \ {0}, e \in Nat : M = 2^LongBits /\ M = N + e
  <2>1. PICK f \in Nat : P = f + 1
    OBVIOUS
  <2>2. N * (f + 1) = N + N * f /\ N * f \in Nat
    OBVIOUS
  <2>3. N + N * f \in Nat \ {0}
    BY <2>2
  <2> QED BY <1>4, <1>5, <2>1, <2>2, <2>3
<1>7. n \in 0..M - 1
  BY <1>5, <1>6
<1>8. n % M = n
  BY <1>7
<1> QED BY <1>6, <1>8 DEF Long

\* mul32x32_to_64 is exact where the sum of its middle products fits a long.
LEMMA MulIs ==
  ASSUME LongBits > W, NEW u \in Word, NEW v \in Word
  PROVE  Mul32x32(u, v) \in Pair /\ PairValue(Mul32x32(u, v)) = u * v
<1>1. PICK H \in Nat \ {0}, B \in Nat \ {0} : H = Half /\ B = Base /\ B = H * H
  BY BaseIs
<1>2. u \in 0..H * H - 1 /\ v \in 0..H * H - 1 /\ u \in Nat /\ v \in Nat
  BY <1>1 DEF Word
<1>3. PICK u1 \in 0..H - 1, u0 \in 0..H - 1 :
        u1 = u \div H /\ u0 = u % H /\ u = H * u1 + u0
  <2>1. u \div H \in 0..H - 1
    BY <1>2, DivBelow
  <2>2. u % H \in 0..H - 1 /\ u = H * (u \div H) + (u % H)
    <3>1. PICK q \in Nat, r \in 0..H - 1 : q = u \div H /\ r = u % H /\ u = H * q + r
      BY <1>2, NatDiv
    <3> QED BY <3>1
  <2> QED BY <2>1, <2>2
<1>4. PICK v1 \in 0..H - 1, v0 \in 0..H - 1 :
        v1 = v \div H /\ v0 = v % H /\ v = H * v1 + v0
  <2>1. v \div H \in 0..H - 1
    BY <1>2, DivBelow
  <2>2. v % H \in 0..H - 1 /\ v = H * (v \div H) + (v % H)
    <3>1. PICK q \in Nat, r \in 0..H - 1 : q = v \div H /\ r = v % H /\ v = H * q + r
      BY <1>2, NatDiv
    <3> QED BY <3>1
  <2> QED BY <2>1, <2>2
<1>5. PICK G \in Nat : H = G + 1
  OBVIOUS
<1>6. PICK p0 \in 0..G * G, p1 \in 0..G * G, p2 \in 0..G * G, p3 \in 0..G * G :
        p0 = u0 * v0 /\ p1 = u0 * v1 /\ p2 = u1 * v0 /\ p3 = u1 * v1
  <2>1. u0 \in 0..G /\ u1 \in 0..G /\ v0 \in 0..G /\ v1 \in 0..G
    BY <1>5
  <2>2. /\ u0 * v0 \in 0..G * G /\ u0 * v1 \in 0..G * G
        /\ u1 * v0 \in 0..G * G /\ u1 * v1 \in 0..G * G
    BY <2>1, TimesBelow
  <2> QED BY <2>2
<1>7. PICK K \in Nat : K = G * G /\ B = K + 2 * G + 1
  <2>1. (G + 1) * (G + 1) = G * G + 2 * G + 1 /\ G * G \in Nat
    OBVIOUS
  <2> QED BY <1>1, <1>5, <2>1
<1>8. p0 \in 0..K /\ p1 \in 0..K /\ p2 \in 0..K /\ p3 \in 0..K
  BY <1>7
<1>9. PICK q \in Nat, r \in 0..H - 1 : q = p0 \div H /\ r = p0 % H /\ p0 = H * q + r
  <2>1. p0 \in Nat
    BY <1>8
  <2> QED BY <2>1, NatDiv
<1>10. q <= G
  <2>1. H \in Nat /\ p0 \in 0..H * H - 1
    BY <1>1, <1>7, <1>8
  <2>2. p0 \div H \in 0..H - 1
    BY <2>1, DivBelow
  <2> QED BY <1>5, <1>9, <2>2
<1>11. /\ Long(p0) = p0 /\ Long(p1) = p1 /\ Long(p2) = p2 /\ Long(p3) = p3
       /\ Long(p1 + p2 + q) = p1 + p2 + q /\ p1 + p2 + q \in Nat
  <2>1. /\ p0 \in 0..2 * Base - 1 /\ p1 \in 0..2 * Base - 1 /\ p2 \in 0..2 * Base - 1
        /\ p3 \in 0..2 * Base - 1 /\ p1 + p2 + q \in 0..2 * Base - 1
    BY <1>1, <1>7, <1>8, <1>10
  <2>2. p1 + p2 + q \in Nat
    BY <1>8
  <2> QED BY <2>1, <2>2, LongIs
<1>12. PICK mid \in Nat : mid = Mid(p0, p1, p2) /\ mid = p1 + p2 + q
  BY <1>1, <1>9, <1>11 DEF Mid
<1>13. PICK s \in Nat, t \in 0..H - 1 : s = mid \div H /\ t = mid % H /\ mid = H * s + t
  BY NatDiv
<1>14. PICK lo \in 0..B - 1 : lo = r + H * t
  <2>1. H \in Nat
    OBVIOUS
  <2>2. r + H * t \in 0..H * H - 1
    BY <2>1, Digit
  <2> QED BY <1>1, <2>2
<1>15. u * v = lo + B * (p3 + s)
  <2>1. (H * u1 + u0) * (H * v1 + v0)
          = u0 * v0 + H * (u0 * v1 + u1 * v0) + (H * H) * (u1 * v1)
    OBVIOUS
  <2>2. u * v = (H * q + r) + H * (p1 + p2) + B * p3
    BY <1>1, <1>3, <1>4, <1>6, <1>9, <2>1
  <2>3. H * mid = H * (p1 + p2) + H * q
    <3>1. p1 \in Int /\ p2 \in Int /\ q \in Int
      BY <1>8
    <3>2. H * (p1 + p2 + q) = H * (p1 + p2) + H * q
      BY <3>1
    <3> QED BY <1>12, <3>2
  <2>4. H * mid = B * s + H * t
    <3>1. H * (H * s + t) = (H * H) * s + H * t
      OBVIOUS
    <3> QED BY <1>1, <1>13, <3>1
  <2>5. B * (p3 + s) = B * p3 + B * s
    <3>1. p3 \in Int
      BY <1>8
    <3> QED BY <3>1
  <2>6. PICK a \in Int, b \in Int, c \in Int, d \in Int, e \in Int :
          a = H * q /\ b = H * (p1 + p2) /\ c = B * p3 /\ d = B * s /\ e = H * t
    <3>1. p1 \in Int /\ p2 \in Int /\ p3 \in Int
      BY <1>8
    <3>2. H * q \in Int /\ H * (p1 + p2) \in Int /\ B * p3 \in Int /\ B * s \in Int /\ H * t \in Int
      BY <3>1
    <3> QED BY <3>2
  <2>7. b + a = d + e
    BY <2>3, <2>4, <2>6
  <2>8. (a + r) + b + c = (r + e) + (c + d)
    BY <2>7
  <2> QED BY <1>14, <2>2, <2>5, <2>6, <2>8
<1>16. PICK hi \in 0..B - 1 : hi = p3 + s
  <2>1. PICK h \in Nat : h = p3 + s
    BY <1>8
  <2>2. CASE h >= B
    <3>1. PICK d \in Nat : h = B + d
      BY <2>2
    <3>2. B * h = B * B + B * d /\ B * d \in Nat
      BY <3>1
    <3>3. u * v \in 0..(B - 1) * (B - 1)
      <4>1. u \in 0..B - 1 /\ v \in 0..B - 1 /\ B - 1 \in Nat
        BY <1>1, <1>2
      <4> QED BY <4>1, TimesBelow
    <3>4. (B - 1) * (B - 1) = B * B - 2 * B + 1
      OBVIOUS
    <3>5. u * v = lo + (B * B + B * d)
      BY <1>15, <2>1, <3>2
    <3>6. PICK b \in Nat : b = B * B
      OBVIOUS
    <3> QED BY <3>2, <3>3, <3>4, <3>5, <3>6
  <2> QED BY <2>1, <2>2
<1>17. Long(p3 + (mid \div Half)) % Base = hi
  <2>1. hi \in 0..2 * Base - 1
    BY <1>1
  <2>2. Long(hi) = hi
    BY <2>1, LongIs
  <2>3. hi % B = hi
    OBVIOUS
  <2> QED BY <1>1, <1>13, <1>16, <2>2, <2>3
<1>18. Mul32x32(u, v) = [lo |-> lo, hi |-> hi]
  <2>1. Long((u % Half) * (v % Half)) = p0 /\ Long((u % Half) * (v \div Half)) = p1
        /\ Long((u \div Half) * (v % Half)) = p2 /\ Long((u \div Half) * (v \div Half)) = p3
    BY <1>1, <1>3, <1>4, <1>6, <1>11
  <2>2. (p0 % Half) + Half * (mid % Half) = lo
    BY <1>1, <1>9, <1>13, <1>14
  <2> QED BY <1>12, <1>17, <2>1, <2>2 DEF Mul32x32
<1> QED BY <1>1, <1>15, <1>16, <1>18 DEF Pair, Word, PairValue

\* A sum that fits four words.
LEMMA AddFits ==
  ASSUME NEW a \in Words, NEW b \in Words, Value(a) + Value(b) \in 0..2^(4 * W) - 1
  PROVE  U128Add(a, b) \in Words /\ Value(U128Add(a, b)) = Value(a) + Value(b)
<1>1. PICK M \in Nat \ {0} : M = 2^(4 * W)
  <2>1. 4 * W \in Nat
    BY BaseIs
  <2> QED BY <2>1, PowIs
<1>2. PICK n \in 0..M - 1 : n = Value(a) + Value(b)
  BY <1>1
<1>3. n % M = n
  OBVIOUS
<1> QED BY <1>1, <1>2, <1>3, AddIs

\* The product of two mantissas of two words.
Placed(k, p) == [i \in 0..3 |-> IF i = k THEN p.lo ELSE IF i = k + 1 THEN p.hi ELSE 0]

\* A product of two words, at its place among four.
LEMMA PlacedIs ==
  ASSUME NEW k \in 0..2, NEW p \in Pair
  PROVE  Placed(k, p) \in Words /\ Value(Placed(k, p)) = 2^(k * W) * PairValue(p)
<1>1. PICK B \in Nat, l \in Nat, h \in Nat :
        B = Base /\ l = p.lo /\ h = p.hi /\ PairValue(p) = l + B * h
  <2>1. Base \in Nat /\ p.lo \in 0..Base - 1 /\ p.hi \in 0..Base - 1
    BY PairIs, BaseIs DEF Word
  <2>2. p.lo \in Nat /\ p.hi \in Nat
    BY <2>1
  <2> QED BY <2>1, <2>2, PairIs
<1>2. Placed(k, p) \in Words
  <2>1. 0 \in Word /\ p.lo \in Word /\ p.hi \in Word
    BY PairIs, BaseIs DEF Word
  <2> QED BY <2>1 DEF Placed, Words
<1>3. CASE k = 0
  <2>1. /\ Placed(k, p)[0] = l /\ Placed(k, p)[1] = h
        /\ Placed(k, p)[2] = 0 /\ Placed(k, p)[3] = 0
    BY <1>1, <1>3 DEF Placed
  <2>2. Value(Placed(k, p)) = l + B * (h + B * (0 + B * 0))
    BY <1>1, <2>1 DEF Value
  <2>3. 2^(k * W) = 1
    <3>1. k * W = 0
      BY <1>3, BaseIs
    <3>2. 2^0 = 1
      OBVIOUS
    <3> QED BY <3>1, <3>2
  <2>4. l + B * (h + B * (0 + B * 0)) = 1 * (l + B * h)
    OBVIOUS
  <2> QED BY <1>1, <1>2, <2>2, <2>3, <2>4
<1>4. CASE k = 1
  <2>1. /\ Placed(k, p)[0] = 0 /\ Placed(k, p)[1] = l
        /\ Placed(k, p)[2] = h /\ Placed(k, p)[3] = 0
    BY <1>1, <1>4 DEF Placed
  <2>2. Value(Placed(k, p)) = 0 + B * (l + B * (h + B * 0))
    BY <1>1, <2>1 DEF Value
  <2>3. 0 + B * (l + B * (h + B * 0)) = B * (l + B * h)
    OBVIOUS
  <2> QED BY <1>1, <1>2, <1>4, <2>2, <2>3, AllIs
<1>5. CASE k = 2
  <2>1. /\ Placed(k, p)[0] = 0 /\ Placed(k, p)[1] = 0
        /\ Placed(k, p)[2] = l /\ Placed(k, p)[3] = h
    BY <1>1, <1>5 DEF Placed
  <2>2. Value(Placed(k, p)) = 0 + B * (0 + B * (l + B * h))
    BY <1>1, <2>1 DEF Value
  <2>3. 0 + B * (0 + B * (l + B * h)) = (B * B) * (l + B * h)
    OBVIOUS
  <2> QED BY <1>1, <1>2, <1>5, <2>2, <2>3, AllIs
<1> QED BY <1>3, <1>4, <1>5

\* f64_mul_impl: the four products, added at their places, are the product.
LEMMA PairMul ==
  ASSUME LongBits > W, NEW a \in Pair, NEW b \in Pair
  PROVE  F64Mul(a, b) \in Words /\ Value(F64Mul(a, b)) = PairValue(a) * PairValue(b)
<1>1. /\ a.lo \in Word /\ a.hi \in Word /\ PairValue(a) = a.lo + Base * a.hi
      /\ b.lo \in Word /\ b.hi \in Word /\ PairValue(b) = b.lo + Base * b.hi
  BY PairIs
<1>2. PICK B \in Nat \ {0} : B = Base
  BY BaseIs
<1>3. PICK a0 \in 0..B - 1, a1 \in 0..B - 1, b0 \in 0..B - 1, b1 \in 0..B - 1 :
        a0 = a.lo /\ a1 = a.hi /\ b0 = b.lo /\ b1 = b.hi
  BY <1>1, <1>2 DEF Word
<1> DEFINE P(k, p) == Placed(k, p)
           x0 == P(0, Mul32x32(a.lo, b.lo))
           x1 == P(1, Mul32x32(a.lo, b.hi))
           x2 == P(1, Mul32x32(a.hi, b.lo))
           x3 == P(2, Mul32x32(a.hi, b.hi))
<1>4. F64Mul(a, b) = U128Add(U128Add(U128Add(x0, x1), x2), x3)
  BY DEF F64Mul, Placed
<1>5. /\ x0 \in Words /\ Value(x0) = 2^(0 * W) * (a.lo * b.lo)
      /\ x1 \in Words /\ Value(x1) = 2^(1 * W) * (a.lo * b.hi)
      /\ x2 \in Words /\ Value(x2) = 2^(1 * W) * (a.hi * b.lo)
      /\ x3 \in Words /\ Value(x3) = 2^(2 * W) * (a.hi * b.hi)
  <2>1. /\ Mul32x32(a.lo, b.lo) \in Pair /\ PairValue(Mul32x32(a.lo, b.lo)) = a.lo * b.lo
        /\ Mul32x32(a.lo, b.hi) \in Pair /\ PairValue(Mul32x32(a.lo, b.hi)) = a.lo * b.hi
        /\ Mul32x32(a.hi, b.lo) \in Pair /\ PairValue(Mul32x32(a.hi, b.lo)) = a.hi * b.lo
        /\ Mul32x32(a.hi, b.hi) \in Pair /\ PairValue(Mul32x32(a.hi, b.hi)) = a.hi * b.hi
    BY <1>1, MulIs
  <2>2. 0 \in 0..2 /\ 1 \in 0..2 /\ 2 \in 0..2
    OBVIOUS
  <2> QED BY <2>1, <2>2, PlacedIs
<1> HIDE DEF x0, x1, x2, x3, P
<1>6. PICK n0 \in Nat, n1 \in Nat, n2 \in Nat, n3 \in Nat :
        /\ n0 = Value(x0) /\ n1 = Value(x1) /\ n2 = Value(x2) /\ n3 = Value(x3)
        /\ n0 = a0 * b0 /\ n1 = B * (a0 * b1) /\ n2 = B * (a1 * b0) /\ n3 = (B * B) * (a1 * b1)
  <2>1. 2^(0 * W) = 1 /\ 1 * (a0 * b0) = a0 * b0
    <3>1. 0 * W = 0
      BY BaseIs
    <3>2. 2^0 = 1
      OBVIOUS
    <3>3. 1 * (a0 * b0) = a0 * b0
      OBVIOUS
    <3> QED BY <3>1, <3>2, <3>3
  <2>2. /\ a0 * b0 \in Nat /\ B * (a0 * b1) \in Nat /\ B * (a1 * b0) \in Nat
        /\ (B * B) * (a1 * b1) \in Nat
    <3>1. a0 \in Nat /\ a1 \in Nat /\ b0 \in Nat /\ b1 \in Nat
      OBVIOUS
    <3>2. a0 * b0 \in Nat /\ a0 * b1 \in Nat /\ a1 * b0 \in Nat /\ a1 * b1 \in Nat /\ B * B \in Nat
      BY <3>1
    <3> QED BY <3>2
  <2> QED BY <1>2, <1>3, <1>5, <2>1, <2>2, AllIs
<1>7. n0 + n1 + n2 + n3 = PairValue(a) * PairValue(b)
  <2>1. a0 * b0 + B * (a0 * b1) + B * (a1 * b0) + (B * B) * (a1 * b1)
          = (a0 + B * a1) * (b0 + B * b1)
    OBVIOUS
  <2> QED BY <1>1, <1>2, <1>3, <1>6, <2>1
<1>8. PICK M \in Nat \ {0} : M = 2^(4 * W) /\ n0 + n1 + n2 + n3 \in 0..M - 1
  <2>1. PICK N \in Nat : N + 1 = B * B /\ PairValue(a) \in 0..N /\ PairValue(b) \in 0..N
    <3>1. PICK C \in Nat \ {0} : C = B * B
      <4>1. B * B \in Nat \ {0}
        OBVIOUS
      <4> QED BY <4>1
    <3>2. PairValue(a) \in 0..C - 1 /\ PairValue(b) \in 0..C - 1
      BY <1>2, <3>1, PairIs, AllIs
    <3> QED BY <3>1, <3>2
  <2>2. PairValue(a) * PairValue(b) \in 0..N * N
    BY <2>1, TimesBelow
  <2>3. (N + 1) * (N + 1) = N * N + 2 * N + 1 /\ N * N \in Nat
    OBVIOUS
  <2>4. PICK M \in Nat \ {0} : M = (B * B) * (B * B) /\ M = N * N + 2 * N + 1
    BY <2>1, <2>3
  <2>5. M = 2^(4 * W)
    <3>1. (B * B) * (B * B) = B * (B * (B * B))
      OBVIOUS
    <3> QED BY <1>2, <2>4, <3>1, AllIs
  <2> QED BY <1>7, <2>2, <2>3, <2>4, <2>5
<1>9. U128Add(x0, x1) \in Words /\ Value(U128Add(x0, x1)) = n0 + n1
  <2>1. Value(x0) + Value(x1) \in 0..2^(4 * W) - 1
    BY <1>6, <1>8
  <2> QED BY <1>5, <1>6, <2>1, AddFits
<1>10. /\ U128Add(U128Add(x0, x1), x2) \in Words
       /\ Value(U128Add(U128Add(x0, x1), x2)) = n0 + n1 + n2
  <2>1. Value(U128Add(x0, x1)) + Value(x2) \in 0..2^(4 * W) - 1
    BY <1>6, <1>8, <1>9
  <2> QED BY <1>5, <1>6, <1>9, <2>1, AddFits
<1>11. /\ U128Add(U128Add(U128Add(x0, x1), x2), x3) \in Words
       /\ Value(U128Add(U128Add(U128Add(x0, x1), x2), x3)) = n0 + n1 + n2 + n3
  <2>1. Value(U128Add(U128Add(x0, x1), x2)) + Value(x3) \in 0..2^(4 * W) - 1
    BY <1>6, <1>8, <1>10
  <2> QED BY <1>5, <1>6, <1>10, <2>1, AddFits
<1> QED BY <1>4, <1>7, <1>11

\* A function that is defined from its value before, up to n, exists.
Follows(f, n, T, x0, step) ==
  /\ f \in [0..n -> T] /\ f[0] = x0
  /\ \A k \in 1..n : f[k] = step[k][f[k - 1]]

\* Such a function exists: without this, nothing follows from a recursive definition.
LEMMA Recursion ==
  ASSUME NEW n \in Nat, NEW T, NEW x0 \in T, NEW step \in [0..n -> [T -> T]]
  PROVE  \E f : Follows(f, n, T, x0, step)
<1> DEFINE Upto(m, f) == f[0] = x0 /\ \A k \in 1..m : f[k] = step[k][f[k - 1]]
           S == {m \in Nat : m <= n => \E f \in [0..m -> T] : Upto(m, f)}
<1>1. 0 \in S
  <2> DEFINE g == [k \in 0..0 |-> x0]
  <2>1. g \in [0..0 -> T] /\ Upto(0, g)
    OBVIOUS
  <2> QED BY <2>1
<1>2. ASSUME NEW m \in S PROVE m + 1 \in S
  <2> SUFFICES ASSUME m + 1 <= n PROVE \E f \in [0..m + 1 -> T] : Upto(m + 1, f)
    OBVIOUS
  <2>1. PICK f \in [0..m -> T] : Upto(m, f)
    OBVIOUS
  <2> DEFINE g == [k \in 0..m + 1 |-> IF k = m + 1 THEN step[m + 1][f[m]] ELSE f[k]]
  <2>2. step[m + 1] \in [T -> T] /\ f[m] \in T
    OBVIOUS
  <2>3. step[m + 1][f[m]] \in T
    BY <2>2
  <2>4. g \in [0..m + 1 -> T]
    BY <2>3
  <2>5. g[0] = x0
    BY <2>1
  <2>6. ASSUME NEW k \in 1..m + 1 PROVE g[k] = step[k][g[k - 1]]
    <3>1. CASE k = m + 1
      BY <3>1
    <3>2. CASE k # m + 1
      <4>1. k \in 1..m /\ k \in 0..m + 1 /\ k - 1 \in 0..m + 1 /\ k - 1 # m + 1
        BY <3>2
      <4>2. g[k] = f[k] /\ g[k - 1] = f[k - 1]
        BY <3>2, <4>1
      <4> HIDE DEF g
      <4> QED BY <2>1, <4>1, <4>2
    <3> QED BY <3>1, <3>2
  <2> HIDE DEF g
  <2> QED BY <2>4, <2>5, <2>6
<1>3. S \in SUBSET Nat
  OBVIOUS
<1> HIDE DEF S
<1>4. n \in S
  BY <1>1, <1>2, <1>3, Induction
<1> QED BY <1>4 DEF S, Follows

\* One column of __multf3: the carry out is a word.
LEMMA ColumnIs ==
  ASSUME LongBits > W, NEW x \in Word, NEW u \in Word, NEW v \in Word, NEW c \in Word
  PROVE  LET r == Column(x, Mul32x32(u, v), c)
         IN  r.word \in Word /\ r.carry \in Word /\ r.word + Base * r.carry = x + u * v + c
<1>1. PICK p : p = Mul32x32(u, v) /\ p \in Pair /\ p.lo + Base * p.hi = u * v
  BY MulIs DEF PairValue
<1>2. PICK B \in Nat \ {0} : B = Base
  BY BaseIs
<1>3. PICK l \in 0..B - 1, h \in 0..B - 1, y \in 0..B - 1, d \in 0..B - 1 :
        l = p.lo /\ h = p.hi /\ y = x /\ d = c
  BY <1>1, <1>2 DEF Pair, Word
<1>4. PICK s \in Word, a \in {0, 1} :
        /\ s = (x + p.lo) % Base /\ a = Bit(s < x)
        /\ s + Base * a = x + p.lo
  <2>1. x \in Word /\ p.lo \in Word /\ x + p.lo + 0 = x + p.lo
    BY <1>2, <1>3 DEF Word
  <2>2. /\ CarryOut(x, p.lo, 0) \in {0, 1} /\ (x + p.lo + 0) % Base \in Word
        /\ ((x + p.lo + 0) % Base) + Base * CarryOut(x, p.lo, 0) = x + p.lo + 0
    BY <2>1, CarryIs
  <2>3. CarryOut(x, p.lo, 0) = Bit((x + p.lo) % Base < x)
    BY <2>1 DEF CarryOut
  <2> QED BY <2>1, <2>2, <2>3
<1>5. PICK t \in Word, e \in {0, 1} :
        /\ t = (s + c) % Base /\ e = Bit(t < s)
        /\ t + Base * e = s + c
  <2>1. s + c + 0 = s + c
    BY <1>2 DEF Word
  <2>2. /\ CarryOut(s, c, 0) \in {0, 1} /\ (s + c + 0) % Base \in Word
        /\ ((s + c + 0) % Base) + Base * CarryOut(s, c, 0) = s + c + 0
    BY CarryIs
  <2>3. CarryOut(s, c, 0) = Bit((s + c) % Base < s)
    BY <2>1 DEF CarryOut
  <2> QED BY <2>1, <2>2, <2>3
<1>6. PICK w \in 0..B - 1, q \in 0..B - 1 : w = t /\ q = s
  BY <1>2 DEF Word
<1>7. w + B * (h + a + e) = y + u * v + d
  <2>1. q + B * a = y + l /\ w + B * e = q + d
    BY <1>2, <1>3, <1>4, <1>5, <1>6
  <2>2. l + B * h = u * v
    BY <1>1, <1>2, <1>3
  <2>3. B * (h + a + e) = B * h + B * a + B * e
    BY <1>4, <1>5
  <2>4. PICK i \in Int, j \in Int, k \in Int, z \in Int :
          i = B * h /\ j = B * a /\ k = B * e /\ z = u * v
    <3>1. B * h \in Int /\ B * a \in Int /\ B * e \in Int
      BY <1>4, <1>5
    <3>2. u * v \in Int
      BY <2>2, <3>1
    <3> QED BY <3>1, <3>2
  <2>5. q + j = y + l /\ w + k = q + d /\ l + i = z
    BY <2>1, <2>2, <2>4
  <2>6. w + (i + j + k) = y + z + d
    BY <2>5
  <2> QED BY <2>3, <2>4, <2>6
<1>8. PICK g \in 0..B - 1 : g = h + a + e
  <2>1. PICK g \in Nat : g = h + a + e
    BY <1>4, <1>5
  <2>2. CASE g >= B
    <3>1. PICK f \in Nat : g = B + f
      BY <2>2
    <3>2. B * g = B * B + B * f /\ B * f \in Nat
      BY <3>1
    <3>3. u * v \in 0..(B - 1) * (B - 1)
      <4>1. u \in 0..B - 1 /\ v \in 0..B - 1 /\ B - 1 \in Nat
        BY <1>2 DEF Word
      <4> QED BY <4>1, TimesBelow
    <3>4. (B - 1) * (B - 1) = B * B - 2 * B + 1
      OBVIOUS
    <3>5. PICK b \in Nat, j \in Nat, z \in Nat : b = B * B /\ j = B * f /\ z = u * v
      <4>1. B * B \in Nat /\ (B - 1) * (B - 1) \in Nat
        OBVIOUS
      <4>2. u * v \in Nat
        BY <3>3, <4>1
      <4> QED BY <3>2, <4>1, <4>2
    <3>6. w + (b + j) = y + z + d
      BY <1>7, <2>1, <3>2, <3>5
    <3>7. z <= b - 2 * B + 1
      BY <3>3, <3>4, <3>5
    <3> QED BY <3>6, <3>7
  <2> QED BY <2>1, <2>2
<1>9. g % B = g
  OBVIOUS
<1>10. Column(x, p, c) = [word |-> w, carry |-> g]
  <2>1. (p.hi + Bit(s < x) + Bit(t < s)) % Base = g
    BY <1>2, <1>3, <1>4, <1>5, <1>8, <1>9
  <2> QED BY <1>4, <1>5, <1>6, <2>1 DEF Column
<1> QED BY <1>1, <1>2, <1>3, <1>6, <1>7, <1>8, <1>10 DEF Word

\* The columns of a row.
IsColumns(col, prod, ai, b, i) ==
  col = [j \in 0..3 |-> Column(prod[i + j], Mul32x32(ai, b[j]),
                               IF j = 0 THEN 0 ELSE col[j - 1].carry)]

\* The columns of a row.
LEMMA ColumnsExist ==
  ASSUME LongBits > W, NEW prod \in [0..7 -> Word], NEW ai \in Word, NEW b \in Words,
         NEW i \in 0..3
  PROVE  \E col : IsColumns(col, prod, ai, b, i)
<1> DEFINE T == [word : Word, carry : Word]
           At3(j, c) == Column(prod[i + j], Mul32x32(ai, b[j]), c)
           step == [j \in 0..3 |-> [x \in T |-> At3(j, x.carry)]]
<1>1. ASSUME NEW j \in 0..3, NEW c \in Word PROVE At3(j, c) \in T
  <2>1. i + j \in 0..7
    OBVIOUS
  <2>2. prod[i + j] \in Word /\ b[j] \in Word
    BY <2>1, WordsAre
  <2>3. At3(j, c).word \in Word /\ At3(j, c).carry \in Word
    BY <2>2, ColumnIs
  <2>4. At3(j, c) = [word |-> At3(j, c).word, carry |-> At3(j, c).carry]
    BY DEF Column
  <2> HIDE DEF At3
  <2> QED BY <2>3, <2>4
<1>2. PICK x0 \in T : x0 = At3(0, 0)
  <2>1. 0 \in Word /\ 0 \in 0..3
    BY BaseIs DEF Word
  <2> HIDE DEF At3, T
  <2> QED BY <1>1, <2>1
<1>3. step \in [0..3 -> [T -> T]]
  <2>1. ASSUME NEW j \in 0..3, NEW x \in T PROVE At3(j, x.carry) \in T
    <3>1. x.carry \in Word
      OBVIOUS
    <3> HIDE DEF At3, T
    <3> QED BY <1>1, <3>1
  <2> HIDE DEF At3, T
  <2> QED BY <2>1
<1>4. PICK f \in [0..3 -> T] : f[0] = x0 /\ \A k \in 1..3 : f[k] = step[k][f[k - 1]]
  <2>1. 3 \in Nat
    OBVIOUS
  <2> HIDE DEF step, T
  <2>2. \E f : Follows(f, 3, T, x0, step)
    BY <1>3, <2>1, Recursion, Zenon
  <2> QED BY <2>2 DEF Follows
<1>5. ASSUME NEW j \in 0..3
      PROVE  f[j] = At3(j, IF j = 0 THEN 0 ELSE f[j - 1].carry)
  <2>1. CASE j = 0
    <3> HIDE DEF At3, T
    <3> QED BY <1>2, <1>4, <2>1
  <2>2. CASE j # 0
    <3>1. j \in 1..3 /\ j - 1 \in 0..3
      BY <2>2
    <3>2. f[j] = step[j][f[j - 1]] /\ f[j - 1] \in T
      BY <1>4, <3>1
    <3> HIDE DEF At3, T
    <3> QED BY <2>2, <3>1, <3>2
  <2> QED BY <2>1, <2>2
<1>6. f = [j \in 0..3 |-> f[j]]
  OBVIOUS
<1>7. f = [j \in 0..3 |-> At3(j, IF j = 0 THEN 0 ELSE f[j - 1].carry)]
  <2> HIDE DEF At3, T
  <2> QED BY <1>5, <1>6, Zenon
<1> QED BY <1>7, Zenon DEF IsColumns

\* The words above the columns.
Above(x, c) == LET sum == (x + c) % Base IN [word |-> sum, carry |-> Bit(sum < x)]
IsTail(tail, prod, c, i) ==
  tail = [k \in i + 3..7 |-> IF k = i + 3 THEN [word |-> 0, carry |-> c]
                             ELSE Above(prod[k], tail[k - 1].carry)]

\* The words above the columns take in the last carry.
LEMMA AboveIs ==
  ASSUME NEW x \in Word, NEW c \in Word
  PROVE  /\ Above(x, c) \in [word : Word, carry : Word]
         /\ Above(x, c).word + Base * Above(x, c).carry = x + c
<1>1. x + c + 0 = x + c /\ 0 \in Word /\ 1 \in Word
  BY BaseIs DEF Word
<1>2. /\ CarryOut(x, c, 0) \in {0, 1} /\ (x + c + 0) % Base \in Word
      /\ ((x + c + 0) % Base) + Base * CarryOut(x, c, 0) = x + c + 0
  BY CarryIs
<1>3. Above(x, c) = [word |-> (x + c) % Base, carry |-> CarryOut(x, c, 0)]
  BY <1>1 DEF Above, CarryOut
<1> QED BY <1>1, <1>2, <1>3

\* These words.
LEMMA TailExists ==
  ASSUME NEW prod \in [0..7 -> Word], NEW c \in Word, NEW i \in 0..3
  PROVE  \E tail : IsTail(tail, prod, c, i)
<1> DEFINE T == [word : Word, carry : Word]
           step == [m \in 0..4 - i |-> [x \in T |->
                      IF m = 0 THEN x ELSE Above(prod[m + i + 3], x.carry)]]
<1>1. PICK x0 \in T : x0 = [word |-> 0, carry |-> c]
  <2>1. 0 \in Word
    BY BaseIs DEF Word
  <2> QED BY <2>1
<1>2. step \in [0..4 - i -> [T -> T]]
  <2>1. ASSUME NEW m \in 0..4 - i, NEW x \in T, m # 0
        PROVE  Above(prod[m + i + 3], x.carry) \in T
    <3>1. m + i + 3 \in 0..7 /\ x.carry \in Word
      OBVIOUS
    <3>2. prod[m + i + 3] \in Word
      BY <3>1
    <3> QED BY <3>1, <3>2, AboveIs
  <2> HIDE DEF T
  <2> QED BY <2>1
<1>3. PICK n \in Nat : n = 4 - i
  OBVIOUS
<1>4. PICK f \in [0..n -> T] : f[0] = x0 /\ \A m \in 1..n : f[m] = step[m][f[m - 1]]
  <2>1. step \in [0..n -> [T -> T]]
    BY <1>2, <1>3
  <2> HIDE DEF step, T
  <2>2. \E f : Follows(f, n, T, x0, step)
    BY <2>1, Recursion, Zenon
  <2> QED BY <2>2 DEF Follows
<1> DEFINE g == [k \in i + 3..7 |-> f[k - i - 3]]
<1>5. ASSUME NEW k \in i + 3..7
      PROVE  g[k] = IF k = i + 3 THEN [word |-> 0, carry |-> c]
                    ELSE Above(prod[k], g[k - 1].carry)
  <2>1. PICK m \in 0..n : m = k - i - 3 /\ k = m + i + 3
    BY <1>3
  <2>2. g[k] = f[m]
    BY <2>1
  <2>3. CASE k = i + 3
    <3>1. m = 0
      BY <2>1, <2>3
    <3> HIDE DEF g, step, T
    <3> QED BY <1>1, <1>4, <2>2, <2>3, <3>1
  <2>4. CASE k # i + 3
    <3>1. m \in 1..n /\ m # 0 /\ m - 1 \in 0..n /\ k - 1 \in i + 3..7 /\ (k - 1) - i - 3 = m - 1
      BY <2>1, <2>4
    <3>2. f[m] = step[m][f[m - 1]] /\ f[m - 1] \in T
      BY <1>4, <3>1
    <3>3. g[k - 1] = f[m - 1]
      BY <3>1
    <3>4. step[m][f[m - 1]] = Above(prod[m + i + 3], f[m - 1].carry)
      <4>1. m \in 0..4 - i
        BY <1>3
      <4> HIDE DEF T
      <4> QED BY <3>1, <3>2, <4>1
    <3> HIDE DEF g, step, T
    <3> QED BY <2>1, <2>2, <2>4, <3>2, <3>3, <3>4
  <2> QED BY <2>3, <2>4
<1>6. g = [k \in i + 3..7 |-> g[k]]
  OBVIOUS
<1>7. IsTail(g, prod, c, i)
  <2> HIDE DEF g
  <2> QED BY <1>5, <1>6, Zenon DEF IsTail
<1> QED BY <1>7

\* Eight words: the lower four and the upper ones.
Eight == [0..7 -> Word]
Lower(p) == [i \in 0..3 |-> p[i]]
Upper(p) == [i \in 0..3 |-> p[i + 4]]

\* The number of eight words.
LEMMA EightIs ==
  ASSUME NEW p
  PROVE  EightWords(p) = Value(Lower(p)) + 2^(4 * W) * Value(Upper(p))
<1>1. Value(p) = Value(Lower(p))
  BY DEF Value, Lower
<1>2. EightWords(p) = Value(p) + 2^(4 * W) * Value(Upper(p))
  BY Zenon DEF EightWords, Upper
<1> QED BY <1>1, <1>2, Zenon

\* Eight words hold numbers below the square of what four hold.
LEMMA EightBelow ==
  ASSUME NEW p \in Eight
  PROVE  EightWords(p) \in 0..2^(4 * W) * 2^(4 * W) - 1
<1>1. Lower(p) \in Words /\ Upper(p) \in Words
  <2>1. \A i \in 0..3 : p[i] \in Word /\ p[i + 4] \in Word
    <3>1. TAKE i \in 0..3
    <3>2. i \in 0..7 /\ i + 4 \in 0..7
      OBVIOUS
    <3> QED BY <3>2 DEF Eight
  <2> QED BY <2>1 DEF Lower, Upper, Words
<1>2. PICK M \in Nat \ {0} : M = 2^(4 * W)
  <2>1. 4 * W \in Nat
    BY BaseIs
  <2> QED BY <2>1, PowIs
<1>3. PICK l \in 0..M - 1, h \in 0..M - 1 : l = Value(Lower(p)) /\ h = Value(Upper(p))
  BY <1>1, <1>2, WordsAre
<1>4. M \in Nat
  OBVIOUS
<1>5. l + M * h \in 0..M * M - 1
  BY <1>4, Digit
<1> QED BY <1>2, <1>3, <1>5, EightIs

Carries8(x, y, c) ==
  /\ x \in [0..7 -> Int] /\ y \in [0..7 -> Int] /\ c \in [0..8 -> Int]
  /\ \A i \in 0..7 : x[i] + Base * c[i + 1] = y[i] + c[i]

\* Digits that differ by carries, for eight words.
LEMMA Chain8 ==
  ASSUME NEW x, NEW y, NEW c, Carries8(x, y, c), c[0] = 0
  PROVE  /\ EightWords(x) \in Int /\ EightWords(y) \in Int /\ c[8] \in Int
         /\ EightWords(x) + (2^(4 * W) * 2^(4 * W)) * c[8] = EightWords(y)
<1> DEFINE low  == [i \in 0..4 |-> c[i]]
           high == [i \in 0..4 |-> c[i + 4]]
<1>1. Carries(Lower(x), Lower(y), low)
  <2>1. \A i \in 0..3 : i \in 0..7 /\ i + 1 \in 0..4 /\ i \in 0..4
    OBVIOUS
  <2>2. \A i \in 0..4 : c[i] \in Int
    BY DEF Carries8
  <2>3. Lower(x) \in [0..3 -> Int] /\ Lower(y) \in [0..3 -> Int] /\ low \in [0..4 -> Int]
    BY <2>1, <2>2 DEF Carries8, Lower
  <2>4. \A i \in 0..3 : Lower(x)[i] + Base * low[i + 1] = Lower(y)[i] + low[i]
    BY <2>1 DEF Carries8, Lower
  <2> HIDE DEF low
  <2> QED BY <2>3, <2>4 DEF Carries
<1>2. Carries(Upper(x), Upper(y), high)
  <2>1. \A i \in 0..3 : i + 4 \in 0..7 /\ i + 1 \in 0..4 /\ i \in 0..4 /\ (i + 4) + 1 = (i + 1) + 4
    OBVIOUS
  <2>2. \A i \in 0..4 : c[i + 4] \in Int
    <3>1. \A i \in 0..4 : i + 4 \in 0..8
      OBVIOUS
    <3> QED BY <3>1 DEF Carries8
  <2>3. Upper(x) \in [0..3 -> Int] /\ Upper(y) \in [0..3 -> Int] /\ high \in [0..4 -> Int]
    BY <2>1, <2>2 DEF Carries8, Upper
  <2>4. \A i \in 0..3 : Upper(x)[i] + Base * high[i + 1] = Upper(y)[i] + high[i]
    <3>1. TAKE i \in 0..3
    <3>2. x[i + 4] + Base * c[(i + 4) + 1] = y[i + 4] + c[i + 4]
      BY <2>1 DEF Carries8
    <3>3. Upper(x)[i] = x[i + 4] /\ Upper(y)[i] = y[i + 4]
      BY DEF Upper
    <3>4. high[i + 1] = c[(i + 1) + 4] /\ high[i] = c[i + 4]
      BY <2>1
    <3> HIDE DEF high
    <3> QED BY <2>1, <3>2, <3>3, <3>4
  <2> HIDE DEF high
  <2> QED BY <2>3, <2>4 DEF Carries
<1>3. low[0] = 0 /\ low[4] = c[4] /\ high[0] = c[4] /\ high[4] = c[8]
  OBVIOUS
<1> HIDE DEF low, high
<1>4. PICK M \in Int : M = 2^(4 * W)
  <2>1. 4 * W \in Nat
    BY BaseIs
  <2> QED BY <2>1, PowIs
<1>5. PICK xl \in Int, yl \in Int, d \in Int :
        /\ xl = Value(Lower(x)) /\ yl = Value(Lower(y)) /\ d = c[4]
        /\ xl + M * d = yl
  <2>1. /\ Value(Lower(x)) \in Int /\ Value(Lower(y)) \in Int /\ low[0] \in Int /\ low[4] \in Int
        /\ Value(Lower(x)) + 2^(4 * W) * low[4] = Value(Lower(y)) + low[0]
    BY <1>1, Chain
  <2>2. Value(Lower(x)) + M * low[4] = Value(Lower(y))
    BY <1>3, <1>4, <2>1
  <2> QED BY <1>3, <2>1, <2>2
<1>6. PICK xh \in Int, yh \in Int, e \in Int :
        /\ xh = Value(Upper(x)) /\ yh = Value(Upper(y)) /\ e = c[8]
        /\ xh + M * e = yh + d
  <2>1. /\ Value(Upper(x)) \in Int /\ Value(Upper(y)) \in Int /\ high[0] \in Int /\ high[4] \in Int
        /\ Value(Upper(x)) + 2^(4 * W) * high[4] = Value(Upper(y)) + high[0]
    BY <1>2, Chain
  <2> QED BY <1>3, <1>4, <1>5, <2>1
<1>7. EightWords(x) = xl + M * xh /\ EightWords(y) = yl + M * yh
  BY <1>4, <1>5, <1>6, EightIs
<1>8. (xl + M * xh) + (M * M) * e = yl + M * yh
  <2>1. M * (xh + M * e) = M * xh + (M * M) * e
    OBVIOUS
  <2>2. M * (yh + d) = M * yh + M * d
    OBVIOUS
  <2>3. PICK p \in Int, q \in Int, r \in Int, s \in Int :
          p = M * xh /\ q = (M * M) * e /\ r = M * yh /\ s = M * d
    <3>1. M * xh \in Int /\ (M * M) * e \in Int /\ M * yh \in Int /\ M * d \in Int
      OBVIOUS
    <3> QED BY <3>1
  <2>4. p + q = r + s /\ xl + s = yl
    BY <1>5, <1>6, <2>1, <2>2, <2>3
  <2>5. (xl + p) + q = yl + r
    BY <2>4
  <2> QED BY <2>3, <2>5
<1>9. xl + M * xh \in Int /\ yl + M * yh \in Int
  OBVIOUS
<1> QED BY <1>4, <1>6, <1>7, <1>8, <1>9

\* A number of four digits, placed from digit i on.
LEMMA Shifted ==
  ASSUME NEW t \in [0..3 -> Int], NEW i \in 0..3,
         NEW z, z = [k \in 0..7 |-> IF k \in i..i + 3 THEN t[k - i] ELSE 0]
  PROVE  EightWords(z) = 2^(i * W) * Value(t) /\ Value(t) \in Int
<1>1. PICK B \in Int : B = Base
  BY BaseIs
<1>2. PICK t0 \in Int, t1 \in Int, t2 \in Int, t3 \in Int :
        t0 = t[0] /\ t1 = t[1] /\ t2 = t[2] /\ t3 = t[3]
  OBVIOUS
<1>3. Value(t) = t0 + B * (t1 + B * (t2 + B * t3))
  BY <1>1, <1>2 DEF Value
<1>4. t0 + B * (t1 + B * (t2 + B * t3)) \in Int
  OBVIOUS
<1>5. EightWords(z) = (z[0] + B * (z[1] + B * (z[2] + B * z[3])))
                        + (B * (B * (B * B))) * (z[4] + B * (z[5] + B * (z[6] + B * z[7])))
  <2>1. Value(Lower(z)) = z[0] + B * (z[1] + B * (z[2] + B * z[3]))
    BY <1>1 DEF Value, Lower
  <2>2. Value(Upper(z)) = z[4] + B * (z[5] + B * (z[6] + B * z[7]))
    BY <1>1 DEF Value, Upper
  <2> QED BY <1>1, <2>1, <2>2, AllIs, EightIs
<1>6. CASE i = 0
  <2>1. /\ z[0] = t0 /\ z[1] = t1 /\ z[2] = t2 /\ z[3] = t3
        /\ z[4] = 0 /\ z[5] = 0 /\ z[6] = 0 /\ z[7] = 0
    BY <1>2, <1>6
  <2>2. (t0 + B * (t1 + B * (t2 + B * t3)))
          + (B * (B * (B * B))) * (0 + B * (0 + B * (0 + B * 0)))
          = 1 * (t0 + B * (t1 + B * (t2 + B * t3)))
    OBVIOUS
  <2>3. 2^(i * W) = 1
    <3>1. i * W = 0
      BY <1>6, BaseIs
    <3>2. 2^0 = 1
      OBVIOUS
    <3> QED BY <3>1, <3>2
  <2> QED BY <1>3, <1>4, <1>5, <2>1, <2>2, <2>3
<1>7. CASE i = 1
  <2>1. /\ z[0] = 0 /\ z[1] = t0 /\ z[2] = t1 /\ z[3] = t2
        /\ z[4] = t3 /\ z[5] = 0 /\ z[6] = 0 /\ z[7] = 0
    BY <1>2, <1>7
  <2>2. (0 + B * (t0 + B * (t1 + B * t2)))
          + (B * (B * (B * B))) * (t3 + B * (0 + B * (0 + B * 0)))
          = B * (t0 + B * (t1 + B * (t2 + B * t3)))
    OBVIOUS
  <2> QED BY <1>1, <1>3, <1>4, <1>5, <1>7, <2>1, <2>2, AllIs
<1>8. CASE i = 2
  <2>1. /\ z[0] = 0 /\ z[1] = 0 /\ z[2] = t0 /\ z[3] = t1
        /\ z[4] = t2 /\ z[5] = t3 /\ z[6] = 0 /\ z[7] = 0
    BY <1>2, <1>8
  <2>2. (0 + B * (0 + B * (t0 + B * t1)))
          + (B * (B * (B * B))) * (t2 + B * (t3 + B * (0 + B * 0)))
          = (B * B) * (t0 + B * (t1 + B * (t2 + B * t3)))
    OBVIOUS
  <2> QED BY <1>1, <1>3, <1>4, <1>5, <1>8, <2>1, <2>2, AllIs
<1>9. CASE i = 3
  <2>1. /\ z[0] = 0 /\ z[1] = 0 /\ z[2] = 0 /\ z[3] = t0
        /\ z[4] = t1 /\ z[5] = t2 /\ z[6] = t3 /\ z[7] = 0
    BY <1>2, <1>9
  <2>2. (0 + B * (0 + B * (0 + B * t0)))
          + (B * (B * (B * B))) * (t1 + B * (t2 + B * (t3 + B * 0)))
          = (B * (B * B)) * (t0 + B * (t1 + B * (t2 + B * t3)))
    OBVIOUS
  <2> QED BY <1>1, <1>3, <1>4, <1>5, <1>9, <2>1, <2>2, AllIs
<1> QED BY <1>6, <1>7, <1>8, <1>9

\* Numbers of eight words are added digit by digit.
LEMMA EightLinear ==
  ASSUME NEW x \in [0..7 -> Int], NEW y \in [0..7 -> Int]
  PROVE  EightWords([k \in 0..7 |-> x[k] + y[k]]) = EightWords(x) + EightWords(y)
<1> DEFINE s == [k \in 0..7 |-> x[k] + y[k]]
<1>1. /\ Lower(x) \in [0..3 -> Int] /\ Lower(y) \in [0..3 -> Int]
      /\ Upper(x) \in [0..3 -> Int] /\ Upper(y) \in [0..3 -> Int]
  <2>1. \A i \in 0..3 : i \in 0..7 /\ i + 4 \in 0..7
    OBVIOUS
  <2> QED BY <2>1 DEF Lower, Upper
<1>2. /\ Lower(s) = [i \in 0..3 |-> Lower(x)[i] + Lower(y)[i]]
      /\ Upper(s) = [i \in 0..3 |-> Upper(x)[i] + Upper(y)[i]]
  <2>1. \A i \in 0..3 : i \in 0..7 /\ i + 4 \in 0..7
    OBVIOUS
  <2>2. \A i \in 0..3 : s[i] = x[i] + y[i] /\ s[i + 4] = x[i + 4] + y[i + 4]
    BY <2>1
  <2> HIDE DEF s
  <2> QED BY <2>2 DEF Lower, Upper
<1> HIDE DEF s
<1>3. Value(Lower(s)) = Value(Lower(x)) + Value(Lower(y))
  BY <1>1, <1>2, ValueLinear
<1>4. Value(Upper(s)) = Value(Upper(x)) + Value(Upper(y))
  BY <1>1, <1>2, ValueLinear, ZenonT(60)
<1>5. PICK a \in Int, b \in Int, c \in Int, d \in Int, M \in Int :
        /\ a = Value(Lower(x)) /\ b = Value(Lower(y))
        /\ c = Value(Upper(x)) /\ d = Value(Upper(y)) /\ M = 2^(4 * W)
  <2>1. 4 * W \in Nat
    BY BaseIs
  <2>2. 2^(4 * W) \in Int
    BY <2>1, PowIs
  <2>3. /\ Value(Lower(x)) \in Int /\ Value(Lower(y)) \in Int
        /\ Value(Upper(x)) \in Int /\ Value(Upper(y)) \in Int
    <3>1. 1 \in Int
      OBVIOUS
    <3> QED BY <1>1, <3>1, Scaled
  <2> QED BY <2>2, <2>3
<1>6. (a + b) + M * (c + d) = (a + M * c) + (b + M * d)
  OBVIOUS
<1>7. EightWords(s) = EightWords(x) + EightWords(y)
  BY <1>3, <1>4, <1>5, <1>6, EightIs
<1> QED BY <1>7 DEF s

\* The model's definition of a row, with its columns and its upper words.
IsRow(col, tail, prod, ai, b, i) ==
  /\ IsColumns(col, prod, ai, b, i) /\ IsTail(tail, prod, col[3].carry, i)
  /\ \A j \in 0..3 :
       /\ col[j].word \in Word /\ col[j].carry \in Word
       /\ col[j].word + Base * col[j].carry
            = prod[i + j] + ai * b[j] + (IF j = 0 THEN 0 ELSE col[j - 1].carry)
  /\ AddRow(prod, ai, b, i)
       = [k \in 0..7 |-> CASE k \in i..i + 3 -> col[k - i].word
                           [] k > i + 3      -> tail[k].word
                           [] OTHER          -> prod[k]]

\* A row of __multf3 has its columns and the words above them.
LEMMA RowParts ==
  ASSUME LongBits > W, NEW prod \in Eight, NEW ai \in Word, NEW b \in Words, NEW i \in 0..3
  PROVE  \E col, tail : IsRow(col, tail, prod, ai, b, i)
<1> DEFINE col[j \in 0..3] == Column(prod[i + j], Mul32x32(ai, b[j]),
                                     IF j = 0 THEN 0 ELSE col[j - 1].carry)
           tail[k \in i + 3..7] ==
             IF k = i + 3 THEN [word |-> 0, carry |-> col[3].carry]
             ELSE LET sum == (prod[k] + tail[k - 1].carry) % Base
                  IN  [word |-> sum, carry |-> Bit(sum < prod[k])]
<1>1. AddRow(prod, ai, b, i)
        = [k \in 0..7 |-> CASE k \in i..i + 3 -> col[k - i].word
                            [] k > i + 3      -> tail[k].word
                            [] OTHER          -> prod[k]]
  BY Zenon DEF AddRow
<1>2. col = CHOOSE c : IsColumns(c, prod, ai, b, i)
  BY Zenon DEF IsColumns
<1>3. tail = CHOOSE t : IsTail(t, prod, col[3].carry, i)
  BY Zenon DEF IsTail, Above
<1> HIDE DEF col, tail
<1>4. IsColumns(col, prod, ai, b, i)
  <2>1. \E c : IsColumns(c, prod, ai, b, i)
    BY ColumnsExist DEF Eight
  <2> QED BY <1>2, <2>1, Zenon
<1>5. \A j \in 0..3 :
        col[j] = Column(prod[i + j], Mul32x32(ai, b[j]), IF j = 0 THEN 0 ELSE col[j - 1].carry)
  BY <1>4, Zenon DEF IsColumns
<1>6. \A j \in 0..3 : prod[i + j] \in Word /\ b[j] \in Word
  <2>1. \A j \in 0..3 : i + j \in 0..7
    OBVIOUS
  <2> QED BY <2>1, WordsAre DEF Eight
<1> DEFINE Good(j) ==
             /\ col[j].word \in Word /\ col[j].carry \in Word
             /\ col[j].word + Base * col[j].carry
                  = prod[i + j] + ai * b[j] + (IF j = 0 THEN 0 ELSE col[j - 1].carry)
<1>7. ASSUME NEW j \in 0..3, NEW c \in Word, c = (IF j = 0 THEN 0 ELSE col[j - 1].carry)
      PROVE  Good(j)
  <2>1. col[j] = Column(prod[i + j], Mul32x32(ai, b[j]), c)
    BY <1>5, <1>7
  <2>2. PICK r : r = Column(prod[i + j], Mul32x32(ai, b[j]), c)
    OBVIOUS
  <2>3. r.word \in Word /\ r.carry \in Word /\ r.word + Base * r.carry = prod[i + j] + ai * b[j] + c
    BY <1>6, <2>2, ColumnIs
  <2> QED BY <1>7, <2>1, <2>2, <2>3
<1>8. Good(0)
  <2>1. 0 \in Word /\ 0 \in 0..3
    BY BaseIs DEF Word
  <2> HIDE DEF Good
  <2> QED BY <1>7, <2>1
<1>9. Good(1)
  <2>1. col[1 - 1].carry \in Word /\ 1 \in 0..3 /\ 1 # 0
    BY <1>8
  <2> HIDE DEF Good
  <2> QED BY <1>7, <2>1
<1>10. Good(2)
  <2>1. col[2 - 1].carry \in Word /\ 2 \in 0..3 /\ 2 # 0
    BY <1>9
  <2> HIDE DEF Good
  <2> QED BY <1>7, <2>1
<1>11. Good(3)
  <2>1. col[3 - 1].carry \in Word /\ 3 \in 0..3 /\ 3 # 0
    BY <1>10
  <2> HIDE DEF Good
  <2> QED BY <1>7, <2>1
<1>12. \A j \in 0..3 : Good(j)
  <2>1. \A j \in 0..3 : j = 0 \/ j = 1 \/ j = 2 \/ j = 3
    OBVIOUS
  <2> HIDE DEF Good
  <2> QED BY <1>8, <1>9, <1>10, <1>11, <2>1
<1>13. IsTail(tail, prod, col[3].carry, i)
  <2>1. PICK c \in Word : c = col[3].carry
    BY <1>11
  <2>2. \E t : IsTail(t, prod, c, i)
    BY TailExists DEF Eight
  <2> QED BY <1>3, <2>1, <2>2, Zenon
<1>14. IsRow(col, tail, prod, ai, b, i)
  BY <1>1, <1>4, <1>12, <1>13, Zenon DEF IsRow
<1> QED BY <1>14

\* A row adds its word times b at its place.
LEMMA AddRowIs ==
  ASSUME LongBits > W, NEW prod \in Eight, NEW ai \in Word, NEW b \in Words, NEW i \in 0..3
  PROVE  /\ AddRow(prod, ai, b, i) \in Eight
         /\ \E d \in Int : EightWords(AddRow(prod, ai, b, i)) + (2^(4 * W) * 2^(4 * W)) * d
                             = EightWords(prod) + 2^(i * W) * (ai * Value(b))
<1> DEFINE r == AddRow(prod, ai, b, i)
<1>0. PICK col, tail : IsRow(col, tail, prod, ai, b, i)
  BY RowParts, Zenon
<1>1. /\ IsColumns(col, prod, ai, b, i) /\ IsTail(tail, prod, col[3].carry, i)
      /\ \A j \in 0..3 :
           /\ col[j].word \in Word /\ col[j].carry \in Word
           /\ col[j].word + Base * col[j].carry
                = prod[i + j] + ai * b[j] + (IF j = 0 THEN 0 ELSE col[j - 1].carry)
      /\ r = [k \in 0..7 |-> CASE k \in i..i + 3 -> col[k - i].word
                               [] k > i + 3      -> tail[k].word
                               [] OTHER          -> prod[k]]
  BY <1>0, Zenon DEF IsRow
<1>2. /\ \A k \in i..i + 3 : k \in 0..7 => r[k] = col[k - i].word
      /\ \A k \in 0..7 : k > i + 3 => r[k] = tail[k].word
      /\ \A k \in 0..7 : k < i => r[k] = prod[k]
  BY <1>1
<1>3. r = [k \in 0..7 |-> r[k]]
  BY <1>1
<1> HIDE DEF r
<1>4. /\ tail[i + 3].carry = col[3].carry
      /\ \A k \in i + 4..7 : tail[k] = Above(prod[k], tail[k - 1].carry)
  <2>1. \A k \in i + 3..7 : tail[k] = IF k = i + 3 THEN [word |-> 0, carry |-> col[3].carry]
                                      ELSE Above(prod[k], tail[k - 1].carry)
    BY <1>1, Zenon DEF IsTail
  <2>2. i + 3 \in i + 3..7 /\ \A k \in i + 4..7 : k \in i + 3..7 /\ k # i + 3
    OBVIOUS
  <2>3. tail[i + 3] = [word |-> 0, carry |-> col[3].carry]
    BY <2>1, <2>2
  <2> QED BY <2>1, <2>2, <2>3
<1>5. \A k \in 0..7 : prod[k] \in Word /\ prod[k] \in Int
  BY BaseIs DEF Eight, Word
<1> DEFINE Right(k) == /\ tail[k].word \in Word /\ tail[k].carry \in Word
                       /\ tail[k].word + Base * tail[k].carry = prod[k] + tail[k - 1].carry
<1>6. ASSUME NEW k \in i + 4..7, tail[k - 1].carry \in Word
      PROVE  Right(k)
  <2>1. tail[k] = Above(prod[k], tail[k - 1].carry) /\ prod[k] \in Word
    BY <1>4, <1>5
  <2> QED BY <1>6, <2>1, AboveIs
<1>7. \A k \in i + 4..7 : Right(k)
  <2>1. tail[i + 3].carry \in Word
    BY <1>1, <1>4
  <2>2. i + 4 \in i + 4..7 => Right(i + 4)
    <3>1. (i + 4) - 1 = i + 3
      OBVIOUS
    <3> HIDE DEF Right
    <3> QED BY <1>6, <2>1, <3>1
  <2>3. i + 5 \in i + 4..7 => Right(i + 5)
    <3>1. (i + 5) - 1 = i + 4 /\ (i + 5 \in i + 4..7 => i + 4 \in i + 4..7)
      OBVIOUS
    <3>2. i + 5 \in i + 4..7 => tail[i + 4].carry \in Word
      BY <2>2, <3>1
    <3> HIDE DEF Right
    <3> QED BY <1>6, <3>1, <3>2
  <2>4. i + 6 \in i + 4..7 => Right(i + 6)
    <3>1. (i + 6) - 1 = i + 5 /\ (i + 6 \in i + 4..7 => i + 5 \in i + 4..7)
      OBVIOUS
    <3>2. i + 6 \in i + 4..7 => tail[i + 5].carry \in Word
      BY <2>3, <3>1
    <3> HIDE DEF Right
    <3> QED BY <1>6, <3>1, <3>2
  <2>5. i + 7 \in i + 4..7 => Right(i + 7)
    <3>1. (i + 7) - 1 = i + 6 /\ (i + 7 \in i + 4..7 => i + 6 \in i + 4..7)
      OBVIOUS
    <3>2. i + 7 \in i + 4..7 => tail[i + 6].carry \in Word
      BY <2>4, <3>1
    <3> HIDE DEF Right
    <3> QED BY <1>6, <3>1, <3>2
  <2>6. \A k \in i + 4..7 : k = i + 4 \/ k = i + 5 \/ k = i + 6 \/ k = i + 7
    OBVIOUS
  <2> HIDE DEF Right
  <2> QED BY <2>2, <2>3, <2>4, <2>5, <2>6
<1>8. r \in Eight
  <2>1. ASSUME NEW k \in 0..7 PROVE r[k] \in Word
    <3>1. CASE k \in i..i + 3
      <4>1. k - i \in 0..3
        BY <3>1
      <4> QED BY <1>1, <1>2, <3>1, <4>1
    <3>2. CASE k > i + 3
      <4>1. k \in i + 4..7
        BY <3>2
      <4> QED BY <1>2, <1>7, <3>2, <4>1
    <3>3. CASE k < i
      BY <1>2, <1>5, <3>3
    <3> QED BY <3>1, <3>2, <3>3
  <2> QED BY <1>3, <2>1 DEF Eight
<1> DEFINE t == [j \in 0..3 |-> ai * b[j]]
           z == [k \in 0..7 |-> IF k \in i..i + 3 THEN t[k - i] ELSE 0]
           y == [k \in 0..7 |-> prod[k] + z[k]]
           c == [m \in 0..8 |-> IF m <= i THEN 0 ELSE IF m <= i + 4 THEN col[m - i - 1].carry
                                ELSE tail[m - 1].carry]
<1>9. t \in [0..3 -> Int] /\ ai \in Int /\ Value(t) = ai * Value(b)
  <2>1. ai \in Int /\ \A j \in 0..3 : b[j] \in Int
    BY WordsAre, BaseIs DEF Word
  <2>2. \A j \in 0..3 : ai * b[j] \in Int
    BY <2>1
  <2>3. b \in [0..3 -> Int]
    BY BaseIs DEF Words, Word
  <2>4. Value(t) = ai * Value(b)
    BY <2>1, <2>3, Scaled
  <2> QED BY <2>1, <2>2, <2>4
<1>10. z \in [0..7 -> Int] /\ EightWords(z) = 2^(i * W) * Value(t)
  <2>1. \A k \in 0..7 : k \in i..i + 3 => k - i \in 0..3
    OBVIOUS
  <2> HIDE DEF t
  <2>2. z \in [0..7 -> Int]
    BY <1>9, <2>1
  <2>3. EightWords(z) = 2^(i * W) * Value(t)
    BY <1>9, Shifted
  <2> QED BY <2>2, <2>3
<1>11. ASSUME NEW k \in 0..7
       PROVE  r[k] + Base * c[k + 1] = y[k] + c[k]
  <2>1. c[k] = (IF k <= i THEN 0 ELSE IF k <= i + 4 THEN col[k - i - 1].carry ELSE tail[k - 1].carry)
    OBVIOUS
  <2>2. c[k + 1] = (IF k + 1 <= i THEN 0 ELSE IF k + 1 <= i + 4 THEN col[k - i].carry ELSE tail[k].carry)
    <3>1. k + 1 \in 0..8 /\ (k + 1) - i - 1 = k - i /\ (k + 1) - 1 = k
      OBVIOUS
    <3> QED BY <3>1
  <2>3. y[k] = prod[k] + z[k]
    OBVIOUS
  <2>4. z[k] = (IF k \in i..i + 3 THEN ai * b[k - i] ELSE 0)
    <3>1. k \in i..i + 3 => k - i \in 0..3
      OBVIOUS
    <3> QED BY <3>1
  <2> HIDE DEF c, y, z, t
  <2>5. PICK B \in Int, p \in Int : B = Base /\ p = prod[k]
    BY <1>5, BaseIs
  <2>6. CASE k \in i..i + 3
    <3>1. PICK j \in 0..3 : j = k - i /\ k = i + j
      BY <2>6
    <3>2. r[k] = col[j].word /\ c[k + 1] = col[j].carry /\ z[k] = ai * b[j]
      BY <1>2, <2>2, <2>4, <2>6, <3>1
    <3>3. c[k] = (IF j = 0 THEN 0 ELSE col[j - 1].carry)
      BY <2>1, <3>1
    <3>4. col[j].word + Base * col[j].carry = prod[k] + ai * b[j] + c[k]
      BY <1>1, <3>1, <3>3
    <3> QED BY <2>3, <3>2, <3>4
  <2>7. CASE k > i + 3
    <3>1. k \in i + 4..7
      BY <2>7
    <3>2. r[k] = tail[k].word /\ c[k + 1] = tail[k].carry /\ z[k] = 0
      BY <1>2, <2>2, <2>4, <2>7
    <3>3. c[k] = tail[k - 1].carry
      <4>1. CASE k = i + 4
        <5>1. k - i - 1 = 3 /\ k - 1 = i + 3
          BY <4>1
        <5> QED BY <1>4, <2>1, <4>1, <5>1
      <4>2. CASE k # i + 4
        BY <2>1, <2>7, <4>2
      <4> QED BY <4>1, <4>2
    <3>4. tail[k].word + Base * tail[k].carry = prod[k] + tail[k - 1].carry
      BY <1>7, <3>1
    <3>5. y[k] = prod[k]
      BY <2>3, <2>5, <3>2
    <3> QED BY <3>2, <3>3, <3>4, <3>5
  <2>8. CASE k < i
    <3>1. r[k] = prod[k] /\ c[k + 1] = 0 /\ c[k] = 0 /\ z[k] = 0
      BY <1>2, <2>1, <2>2, <2>4, <2>8
    <3> QED BY <2>3, <2>5, <3>1
  <2> QED BY <2>6, <2>7, <2>8
<1>12. Carries8(r, y, c) /\ c[0] = 0
  <2>1. r \in [0..7 -> Int]
    BY <1>8, BaseIs DEF Eight, Word
  <2>2. y \in [0..7 -> Int]
    <3> HIDE DEF z
    <3> QED BY <1>5, <1>10
  <2>3. c \in [0..8 -> Int]
    <3>1. ASSUME NEW m \in 0..8, ~(m <= i), m <= i + 4 PROVE col[m - i - 1].carry \in Int
      <4>1. m - i - 1 \in 0..3
        BY <3>1
      <4> QED BY <1>1, <4>1, BaseIs DEF Word
    <3>2. ASSUME NEW m \in 0..8, ~(m <= i + 4) PROVE tail[m - 1].carry \in Int
      <4>1. m - 1 \in i + 4..7
        BY <3>2
      <4>2. tail[m - 1].carry \in Word
        BY <1>7, <4>1
      <4> QED BY <4>2, BaseIs DEF Word
    <3> QED BY <3>1, <3>2
  <2>4. c[0] = 0
    OBVIOUS
  <2> HIDE DEF y, c
  <2> QED BY <1>11, <2>1, <2>2, <2>3, <2>4 DEF Carries8
<1>13. EightWords(y) = EightWords(prod) + EightWords(z)
  <2>1. prod \in [0..7 -> Int]
    BY BaseIs DEF Eight, Word
  <2> HIDE DEF z
  <2> QED BY <1>10, <2>1, EightLinear
<1> HIDE DEF t, z, y, c
<1>14. c[8] \in Int /\ EightWords(r) + (2^(4 * W) * 2^(4 * W)) * c[8] = EightWords(y)
  BY <1>12, Chain8
<1>15. EightWords(y) = EightWords(prod) + 2^(i * W) * (ai * Value(b))
  BY <1>9, <1>10, <1>13
<1> QED BY <1>8, <1>14, <1>15 DEF r

IsRows(row, a, b) ==
  row = [i \in 0..4 |-> IF i = 0 THEN [k \in 0..7 |-> 0] ELSE AddRow(row[i - 1], a[i - 1], b, i - 1)]

\* The rows of __multf3.
LEMMA RowsExist ==
  ASSUME LongBits > W, NEW a \in Words, NEW b \in Words
  PROVE  \E row : IsRows(row, a, b)
<1> DEFINE zero == [k \in 0..7 |-> 0]
           step == [i \in 0..4 |-> [x \in Eight |-> IF i = 0 THEN x
                                                    ELSE AddRow(x, a[i - 1], b, i - 1)]]
<1>1. zero \in Eight
  BY BaseIs DEF Eight, Word
<1>2. step \in [0..4 -> [Eight -> Eight]]
  <2>1. ASSUME NEW i \in 0..4, NEW x \in Eight, i # 0 PROVE AddRow(x, a[i - 1], b, i - 1) \in Eight
    <3>1. PICK j \in 0..3 : j = i - 1
      BY <2>1
    <3>2. a[j] \in Word
      BY WordsAre
    <3>3. AddRow(x, a[j], b, j) \in Eight
      BY <3>2, AddRowIs
    <3> QED BY <3>1, <3>3
  <2> QED BY <2>1
<1> HIDE DEF zero, step
<1>3. PICK f : Follows(f, 4, Eight, zero, step)
  <2>1. 4 \in Nat
    OBVIOUS
  <2> QED BY <1>1, <1>2, <2>1, Recursion, Zenon
<1>4. f \in [0..4 -> Eight] /\ f[0] = zero /\ \A k \in 1..4 : f[k] = step[k][f[k - 1]]
  BY <1>3 DEF Follows
<1>5. ASSUME NEW i \in 0..4
      PROVE  f[i] = IF i = 0 THEN [k \in 0..7 |-> 0] ELSE AddRow(f[i - 1], a[i - 1], b, i - 1)
  <2>1. CASE i = 0
    BY <1>4, <2>1 DEF zero
  <2>2. CASE i # 0
    <3>1. i \in 1..4 /\ i - 1 \in 0..4
      BY <2>2
    <3>2. f[i] = step[i][f[i - 1]] /\ f[i - 1] \in Eight
      BY <1>4, <3>1
    <3>3. step[i][f[i - 1]] = AddRow(f[i - 1], a[i - 1], b, i - 1)
      BY <2>2, <3>2 DEF step
    <3> QED BY <2>2, <3>2, <3>3
  <2> QED BY <2>1, <2>2
<1>6. f = [i \in 0..4 |-> f[i]]
  BY <1>4
<1>7. IsRows(f, a, b)
  BY <1>5, <1>6, Zenon DEF IsRows
<1> QED BY <1>7

RowAt(row, i, e) == row[i] \in Eight /\ e = EightWords(row[i])

\* From row to row the product grows by one word of a times b.
LEMMA RowStep ==
  ASSUME LongBits > W, NEW a \in Words, NEW b \in Words, NEW row, IsRows(row, a, b),
         NEW i \in 0..3, NEW e \in Int, RowAt(row, i, e)
  PROVE  \E f \in Int, d \in Int :
           /\ RowAt(row, i + 1, f)
           /\ f + (2^(4 * W) * 2^(4 * W)) * d = e + 2^(i * W) * (a[i] * Value(b))
<1>1. row = [j \in 0..4 |-> IF j = 0 THEN [m \in 0..7 |-> 0]
                            ELSE AddRow(row[j - 1], a[j - 1], b, j - 1)]
  BY Zenon DEF IsRows
<1>2. PICK k \in 0..4 : k = i + 1 /\ k # 0 /\ k - 1 = i
  OBVIOUS
<1>3. row[k] = AddRow(row[i], a[i], b, i)
  BY <1>1, <1>2
<1>4. PICK p \in Eight, u \in Word : p = row[i] /\ u = a[i]
  <2>1. a[i] \in Word
    BY WordsAre
  <2> QED BY <2>1 DEF RowAt
<1>5. /\ AddRow(p, u, b, i) \in Eight
      /\ \E d \in Int : EightWords(AddRow(p, u, b, i)) + (2^(4 * W) * 2^(4 * W)) * d
                            = EightWords(p) + 2^(i * W) * (u * Value(b))
  BY AddRowIs
<1>6. EightWords(AddRow(p, u, b, i)) \in Int
  <2>1. EightWords(AddRow(p, u, b, i)) \in 0..2^(4 * W) * 2^(4 * W) - 1
    BY <1>5, EightBelow
  <2> QED BY <2>1
<1>7. PICK f \in Int : f = EightWords(row[k])
  BY <1>3, <1>4, <1>6
<1>8. RowAt(row, k, f)
  BY <1>3, <1>4, <1>5, <1>7 DEF RowAt
<1>9. PICK d \in Int : f + (2^(4 * W) * 2^(4 * W)) * d = e + 2^(i * W) * (a[i] * Value(b))
  BY <1>3, <1>4, <1>5, <1>7 DEF RowAt
<1> QED BY <1>2, <1>8, <1>9

\* __multf3 computes the last row.
LEMMA MulRows ==
  ASSUME LongBits > W, NEW a \in Words, NEW b \in Words
  PROVE  \E r : IsRows(r, a, b) /\ F128Mul(a, b) = r[4]
<1> DEFINE row[i \in 0..4] == IF i = 0 THEN [k \in 0..7 |-> 0]
                              ELSE AddRow(row[i - 1], a[i - 1], b, i - 1)
<1>1. F128Mul(a, b) = row[4]
  BY Zenon DEF F128Mul
<1>2. row = CHOOSE f : IsRows(f, a, b)
  BY Zenon DEF IsRows
<1> HIDE DEF row
<1>3. IsRows(row, a, b)
  <2>1. \E f : IsRows(f, a, b)
    BY RowsExist
  <2> QED BY <1>2, <2>1, Zenon
<1> QED BY <1>1, <1>3

\* The product of two mantissas of four words.
LEMMA WordsMul ==
  ASSUME LongBits > W, NEW a \in Words, NEW b \in Words
  PROVE  EightWords(F128Mul(a, b)) = Value(a) * Value(b)
<1>3. PICK row : IsRows(row, a, b) /\ F128Mul(a, b) = row[4]
  BY MulRows
<1>4. \A i \in 0..4 : row[i] = IF i = 0 THEN [k \in 0..7 |-> 0]
                               ELSE AddRow(row[i - 1], a[i - 1], b, i - 1)
  BY <1>3, Zenon DEF IsRows
<1>5. PICK B \in Nat \ {0}, V \in Nat, M \in Nat \ {0} :
        B = Base /\ V = Value(b) /\ M = 2^(4 * W) /\ M = B * (B * (B * B))
  <2>1. 4 * W \in Nat
    BY BaseIs
  <2>2. 2^(4 * W) \in Nat \ {0}
    BY <2>1, PowIs
  <2>3. Value(b) \in 0..2^(4 * W) - 1
    BY WordsAre
  <2>4. Value(b) \in Nat
    BY <2>2, <2>3
  <2>5. Base \in Nat \ {0}
    BY BaseIs
  <2> QED BY <2>2, <2>4, <2>5, AllIs
<1>6. PICK a0 \in Nat, a1 \in Nat, a2 \in Nat, a3 \in Nat :
        /\ a0 = a[0] /\ a1 = a[1] /\ a2 = a[2] /\ a3 = a[3]
        /\ a0 \in Word /\ a1 \in Word /\ a2 \in Word /\ a3 \in Word
  <2>1. \A i \in 0..3 : a[i] \in Word /\ a[i] \in Nat
    <3>1. TAKE i \in 0..3
    <3>2. a[i] \in 0..Base - 1 /\ a[i] \in Word
      BY WordsAre DEF Word
    <3> QED BY <3>2, BaseIs
  <2> QED BY <2>1
<1>7. row[0] \in Eight /\ EightWords(row[0]) = 0
  <2>1. row[0] = [k \in 0..7 |-> 0]
    BY <1>4
  <2>2. 0 \in Word
    BY BaseIs DEF Word
  <2>3. EightWords(row[0]) = (0 + B * (0 + B * (0 + B * 0))) + M * (0 + B * (0 + B * (0 + B * 0)))
    <3>1. Value(Lower(row[0])) = 0 + B * (0 + B * (0 + B * 0))
      BY <1>5, <2>1 DEF Value, Lower
    <3>2. Value(Upper(row[0])) = 0 + B * (0 + B * (0 + B * 0))
      BY <1>5, <2>1 DEF Value, Upper
    <3> QED BY <1>5, <3>1, <3>2, EightIs
  <2>4. (0 + B * (0 + B * (0 + B * 0))) + M * (0 + B * (0 + B * (0 + B * 0))) = 0
    OBVIOUS
  <2> QED BY <2>1, <2>2, <2>3, <2>4 DEF Eight
<1>8. PICK N \in Nat \ {0} : N = M * M
  <2>1. M * M \in Nat \ {0}
    OBVIOUS
  <2> QED BY <2>1
<1>10. PICK e0 \in Int : RowAt(row, 0, e0) /\ e0 = 0
  BY <1>7 DEF RowAt
<1>11. PICK e1 \in Int, d1 \in Int :
         RowAt(row, 1, e1) /\ e1 + N * d1 = e0 + 1 * (a0 * V)
  <2>1. PICK i \in 0..3, k \in 0..4, P \in Nat :
          i = 0 /\ k = i + 1 /\ k = 1 /\ P = 2^(i * W) /\ P = 1
    <3>1. 0 * W = 0
      BY BaseIs
    <3>2. 2^0 = 1 /\ 0 \in 0..3 /\ 1 \in 0..4 /\ 1 = 0 + 1 /\ 1 \in Nat
      OBVIOUS
    <3>3. 2^(0 * W) = 1
      BY <3>1, <3>2
    <3> QED BY <3>2, <3>3
  <2>2a. RowAt(row, i, e0)
    BY <1>10, <2>1
  <2>2. RowAt(row, i, e0) /\ a0 = a[i]
    BY <1>6, <1>10, <2>1
  <2>3. \E f \in Int, d \in Int :
          /\ RowAt(row, i + 1, f)
          /\ f + (2^(4 * W) * 2^(4 * W)) * d = e0 + 2^(i * W) * (a[i] * Value(b))
    BY <1>3, <2>2a, RowStep
  <2> QED BY <1>5, <1>8, <2>1, <2>2, <2>3
<1>12. PICK e2 \in Int, d2 \in Int :
         RowAt(row, 2, e2) /\ e2 + N * d2 = e1 + B * (a1 * V)
  <2>1. PICK i \in 0..3, k \in 0..4, P \in Nat :
          i = 1 /\ k = i + 1 /\ k = 2 /\ P = 2^(i * W) /\ P = B
    <3>1. 2^(1 * W) = B
      BY <1>5, AllIs
    <3>2. B \in Nat /\ 1 \in 0..3 /\ 2 \in 0..4 /\ 2 = 1 + 1
      OBVIOUS
    <3> QED BY <3>1, <3>2
  <2>2a. RowAt(row, i, e1)
    BY <1>11, <2>1
  <2>2. RowAt(row, i, e1) /\ a1 = a[i]
    BY <1>6, <1>11, <2>1
  <2>3. \E f \in Int, d \in Int :
          /\ RowAt(row, i + 1, f)
          /\ f + (2^(4 * W) * 2^(4 * W)) * d = e1 + 2^(i * W) * (a[i] * Value(b))
    BY <1>3, <2>2a, RowStep
  <2> QED BY <1>5, <1>8, <2>1, <2>2, <2>3
<1>13. PICK e3 \in Int, d3 \in Int :
         RowAt(row, 3, e3) /\ e3 + N * d3 = e2 + (B * B) * (a2 * V)
  <2>1. PICK i \in 0..3, k \in 0..4, P \in Nat :
          i = 2 /\ k = i + 1 /\ k = 3 /\ P = 2^(i * W) /\ P = B * B
    <3>1. 2^(2 * W) = B * B
      BY <1>5, AllIs
    <3>2. B * B \in Nat /\ 2 \in 0..3 /\ 3 \in 0..4 /\ 3 = 2 + 1
      OBVIOUS
    <3> QED BY <3>1, <3>2
  <2>2a. RowAt(row, i, e2)
    BY <1>12, <2>1
  <2>2. RowAt(row, i, e2) /\ a2 = a[i]
    BY <1>6, <1>12, <2>1
  <2>3. \E f \in Int, d \in Int :
          /\ RowAt(row, i + 1, f)
          /\ f + (2^(4 * W) * 2^(4 * W)) * d = e2 + 2^(i * W) * (a[i] * Value(b))
    BY <1>3, <2>2a, RowStep
  <2> QED BY <1>5, <1>8, <2>1, <2>2, <2>3
<1>14. PICK e4 \in Int, d4 \in Int :
         RowAt(row, 4, e4) /\ e4 + N * d4 = e3 + (B * (B * B)) * (a3 * V)
  <2>1. PICK i \in 0..3, k \in 0..4, P \in Nat :
          i = 3 /\ k = i + 1 /\ k = 4 /\ P = 2^(i * W) /\ P = B * (B * B)
    <3>1. 2^(3 * W) = B * (B * B)
      BY <1>5, AllIs
    <3>2. B * (B * B) \in Nat /\ 3 \in 0..3 /\ 4 \in 0..4 /\ 4 = 3 + 1
      OBVIOUS
    <3> QED BY <3>1, <3>2
  <2>2a. RowAt(row, i, e3)
    BY <1>13, <2>1
  <2>2. RowAt(row, i, e3) /\ a3 = a[i]
    BY <1>6, <1>13, <2>1
  <2>3. \E f \in Int, d \in Int :
          /\ RowAt(row, i + 1, f)
          /\ f + (2^(4 * W) * 2^(4 * W)) * d = e3 + 2^(i * W) * (a[i] * Value(b))
    BY <1>3, <2>2a, RowStep
  <2> QED BY <1>5, <1>8, <2>1, <2>2, <2>3, ZenonT(60)
<1>15. PICK A \in Nat : A = Value(a) /\ A = a0 + B * (a1 + B * (a2 + B * a3)) /\ A \in 0..M - 1
  <2>1. Value(a) = a0 + B * (a1 + B * (a2 + B * a3))
    BY <1>5, <1>6 DEF Value
  <2>2. Value(a) \in 0..M - 1
    BY <1>5, WordsAre
  <2> QED BY <2>1, <2>2
<1>16. e4 + N * (d1 + d2 + d3 + d4) = A * V
  <2>1. N * (d1 + d2 + d3 + d4) = N * d1 + N * d2 + N * d3 + N * d4
    OBVIOUS
  <2>2. (a0 + B * (a1 + B * (a2 + B * a3))) * V
          = a0 * V + B * (a1 * V) + (B * B) * (a2 * V) + (B * (B * B)) * (a3 * V)
    OBVIOUS
  <2>3. PICK p \in Int, q \in Int, r \in Int, s \in Int :
          p = N * d1 /\ q = N * d2 /\ r = N * d3 /\ s = N * d4
    <3>1. N * d1 \in Int /\ N * d2 \in Int /\ N * d3 \in Int /\ N * d4 \in Int
      OBVIOUS
    <3> QED BY <3>1
  <2>4. PICK t \in Int, u \in Int, v \in Int, w \in Int :
          t = a0 * V /\ u = B * (a1 * V) /\ v = (B * B) * (a2 * V) /\ w = (B * (B * B)) * (a3 * V)
    <3>1. /\ a0 * V \in Int /\ B * (a1 * V) \in Int /\ (B * B) * (a2 * V) \in Int
          /\ (B * (B * B)) * (a3 * V) \in Int
      OBVIOUS
    <3> QED BY <3>1
  <2>5. e1 + p = 0 + 1 * t /\ e2 + q = e1 + u /\ e3 + r = e2 + v /\ e4 + s = e3 + w
    BY <1>10, <1>11, <1>12, <1>13, <1>14, <2>3, <2>4
  <2>6. e4 + (p + q + r + s) = t + u + v + w
    BY <2>5
  <2> QED BY <1>15, <2>1, <2>2, <2>3, <2>4, <2>6
<1>17. PICK n \in 0..N - 1 : n = A * V
  <2>1. V \in 0..M - 1 /\ A \in 0..M - 1 /\ M - 1 \in Nat
    BY <1>5, <1>15, WordsAre
  <2>2. A * V \in 0..(M - 1) * (M - 1)
    BY <2>1, TimesBelow
  <2>3. (M - 1) * (M - 1) = M * M - 2 * M + 1 /\ M * M \in Nat
    OBVIOUS
  <2> QED BY <1>8, <2>2, <2>3
<1>18. PICK v \in 0..N - 1 : v = e4
  <2>1. e4 \in 0..2^(4 * W) * 2^(4 * W) - 1
    BY <1>14, EightBelow DEF RowAt
  <2> QED BY <1>5, <1>8, <2>1
<1>19. e4 = n
  <2>1. PICK d \in Int : d = d1 + d2 + d3 + d4
    OBVIOUS
  <2>2. PICK z \in Int : z = n
    OBVIOUS
  <2>3. z = N * d + v
    BY <1>16, <1>17, <1>18, <2>1, <2>2
  <2>4. v = z % N
    BY <2>3, DivModIs, Zenon
  <2>5. n % N = n
    OBVIOUS
  <2> QED BY <1>18, <2>2, <2>4, <2>5
<1> QED BY <1>3, <1>5, <1>14, <1>15, <1>17, <1>19 DEF RowAt

\* Bit i of four words is that of their number.
LEMMA BitIs ==
  ASSUME NEW a \in Words, NEW i \in 0..4 * W - 1
  PROVE  BitOf(a, i) = (Value(a) \div 2^i) % 2 /\ BitOf(a, i) \in {0, 1}
<1> DEFINE r == U128Shr(a, i)
<1>1. PICK n \in 0..3, s \in 0..W - 1 : n = i \div W /\ s = i % W
  BY ShiftIs
<1>2. i \in Nat
  BY BaseIs
<1>3. r \in Words /\ Value(r) = Value(a) \div 2^i
  BY <1>2, ShrIs
<1>4. a[n] \in Word /\ a[n] \in Int
  BY WordsAre
<1>5. PICK y \in Int, e \in Int : y = a[n] \div 2^s /\ r[0] = y + 2 * e
  <2>1. CASE i = 0
    <3>1. n = 0 /\ s = 0 /\ 2^0 = 1
      BY <1>1, <2>1, BaseIs
    <3>2. r = a
      BY <2>1, BaseIs DEF U128Shr
    <3>3. a[n] \div 2^s = a[0] /\ a[0] \in Int /\ a[0] = a[0] + 2 * 0
      BY <1>4, <3>1
    <3>4. PICK y \in Int, e \in Int : y = a[0] /\ e = 0
      BY <3>3
    <3>5. y = a[n] \div 2^s /\ r[0] = y + 2 * e
      BY <3>2, <3>3, <3>4
    <3> HIDE DEF r
    <3> QED BY <3>5
  <2>2. CASE i # 0
    <3>1. PICK u \in 0..W, v \in Nat \ {0} : u = W - s /\ W - u = s /\ v = u
      BY BaseIs
    <3>2. PICK P \in Nat \ {0}, Q \in Nat \ {0} :
            /\ P = 2^u /\ Q = 2^(W - u) /\ P * Q = Base
            /\ \A w \in Word : /\ Shl(w, u) = P * (w % Q) /\ w % Q \in 0..Q - 1
                              /\ Shr(w, W - u) \in 0..P - 1 /\ Shl(w, u) \in Nat
                              /\ w = Q * Shr(w, W - u) + (w % Q)
                              /\ Shl(w, u) + Base * Shr(w, W - u) = P * w
                              /\ \A z \in 0..P - 1 : Shl(w, u) + z \in Word
      BY ShiftWords
    <3>3. PICK h \in Nat : P = 2 * h
      <4>1. 2^v = 2 * 2^(v - 1) /\ 2^(v - 1) \in Nat \ {0}
        BY PowEven
      <4> QED BY <3>1, <3>2, <4>1
    <3>4. r[0] = Shr(At(a, n), s) + Shl(At(a, n + 1), W - s)
      <4>1. ~(i <= 0) /\ ~(i >= 4 * W) /\ 0 \in 0..3 /\ 0 + n = n /\ 0 + n + 1 = n + 1
        BY <1>2, <2>2, BaseIs
      <4> QED BY <1>1, <4>1, Zenon DEF U128Shr, At
    <3>5. At(a, n) = a[n]
      BY DEF At
    <3>6. PICK w \in Word : w = At(a, n + 1)
      <4>1. n + 1 \in Int
        OBVIOUS
      <4> QED BY <4>1, AtIs
    <3>7. PICK x \in Int, y \in Int : x = w % Q /\ Shl(w, u) = P * x /\ y = Shr(a[n], s)
      <4>1. Shl(w, u) = P * (w % Q) /\ w % Q \in 0..Q - 1 /\ Shr(a[n], W - u) \in 0..P - 1
        BY <1>4, <3>2
      <4> QED BY <3>1, <4>1
    <3>8. PICK e \in Int : e = h * x /\ P * x = 2 * e
      BY <3>3
    <3>9. r[0] = y + 2 * e
      BY <3>1, <3>4, <3>5, <3>6, <3>7, <3>8
    <3> QED BY <3>7, <3>9 DEF Shr
  <2> QED BY <2>1, <2>2
<1>6. PICK v \in Int, f \in Int : v = Value(r) /\ v = r[0] + 2 * f
  <2>1. PICK k \in Nat : Base = 2 * k
    BY BaseIs
  <2>2. PICK r0 \in Int, z \in Int : r0 = r[0] /\ z = r[1] + Base * (r[2] + Base * r[3])
    <3>1. \A j \in 0..3 : r[j] \in Int
      BY <1>3, WordsAre
    <3>2. r[0] \in Int /\ r[1] \in Int /\ r[2] \in Int /\ r[3] \in Int /\ Base \in Int
      BY <3>1, BaseIs
    <3> HIDE DEF r
    <3> QED BY <3>2
  <2>3. Value(r) = r0 + (2 * k) * z
    BY <2>1, <2>2 DEF Value
  <2>4. PICK f \in Int : f = k * z
    OBVIOUS
  <2>5. (2 * k) * z = 2 * (k * z)
    OBVIOUS
  <2>6. Value(r) = r0 + 2 * f
    BY <2>3, <2>4, <2>5
  <2> HIDE DEF r
  <2> QED BY <2>2, <2>6
<1>7. v % 2 = y % 2 /\ y % 2 \in {0, 1}
  <2>1. v = y + 2 * (e + f)
    BY <1>5, <1>6
  <2> QED BY <2>1
<1> QED BY <1>1, <1>3, <1>5, <1>6, <1>7 DEF BitOf

\* One place to the left, with a bit put in.
Put(a, bit) == [U128Shl(a, 1) EXCEPT ![0] = @ + bit]

\* Shifting left by one and adding a bit never carries into the next word.
LEMMA PutIs ==
  ASSUME NEW a \in Words, NEW bit \in {0, 1}
  PROVE  /\ Put(a, bit) \in Words
         /\ \E c \in Int : Value(Put(a, bit)) + 2^(4 * W) * c = 2 * Value(a) + bit
<1> DEFINE s == U128Shl(a, 1)
<1>1. s \in Words /\ Value(s) = (Value(a) * 2^1) % 2^(4 * W)
  <2>1. 1 \in Nat
    OBVIOUS
  <2> QED BY <2>1, ShlIs
<1>2. s[0] + 1 \in Word /\ s[0] \in Int
  <2>1. PICK e \in Nat : Base = 2 * e
    BY BaseIs
  <2>2. s[0] = Shl(At(a, 0), 1) + Shr(At(a, -1), W - 1)
    <3>1. 1 \div W = 0 /\ 1 % W = 1 /\ ~(1 <= 0) /\ ~(1 >= 4 * W) /\ 0 \in 0..3
          /\ 0 - 0 = 0 /\ 0 - 0 - 1 = -1
      BY BaseIs
    <3> QED BY <3>1, Zenon DEF U128Shl, At
  <2>3. Shr(At(a, -1), W - 1) = 0
    <3>1. At(a, -1) = 0
      BY DEF At
    <3>2. PICK n \in Nat : n = W - 1
      BY BaseIs
    <3>3. 2^n \in Nat \ {0}
      BY PowIs
    <3>4. PICK p \in Nat \ {0} : p = 2^n
      BY <3>3
    <3>5. 0 \div p = 0
      OBVIOUS
    <3> QED BY <3>1, <3>2, <3>4, <3>5 DEF Shr
  <2>4. PICK w \in Nat : w = At(a, 0) /\ w \in Word
    <3>1. a[0] \in Word
      BY WordsAre
    <3> QED BY <3>1, BaseIs DEF At, Word
  <2>5. PICK b \in Nat \ {0} : b = Base
    BY BaseIs
  <2>6. PICK x \in 0..b - 1, q \in Int : x = (w * 2) % b /\ w * 2 = b * q + x
    <3>1. w * 2 \in Nat
      OBVIOUS
    <3>2. PICK m \in Nat : m = w * 2
      BY <3>1
    <3>3. PICK q \in Nat, x \in 0..b - 1 : q = m \div b /\ x = m % b /\ m = b * q + x
      BY NatDiv
    <3>4. q \in Int /\ x = (w * 2) % b /\ w * 2 = b * q + x
      BY <3>2, <3>3
    <3> HIDE DEF s
    <3> QED BY <3>4
  <2>7. x # b - 1
    <3>1. PICK z \in Int : z = e * q
      OBVIOUS
    <3>2. (2 * e) * q = 2 * (e * q)
      OBVIOUS
    <3>3. w * 2 = 2 * z + x /\ b = 2 * e
      BY <2>1, <2>5, <2>6, <3>1, <3>2
    <3> QED BY <3>3
  <2>8. 2^1 = 2
    BY PowStep
  <2>9. s[0] = x + 0
    BY <2>2, <2>3, <2>4, <2>5, <2>6, <2>8 DEF Shl
  <2> HIDE DEF s
  <2> QED BY <2>5, <2>7, <2>9 DEF Word
<1>3. Put(a, bit) = [i \in 0..3 |-> IF i = 0 THEN s[0] + bit ELSE s[i]]
  <2>1. s \in [0..3 -> Word]
    BY <1>1 DEF Words
  <2> QED BY <2>1 DEF Put
<1> HIDE DEF s
<1>4. Put(a, bit) \in Words
  <2>1. s[0] + bit \in Word
    <3>1. s[0] \in Word
      BY <1>1, WordsAre
    <3> QED BY <1>2, <3>1
  <2> QED BY <1>1, <1>3, <2>1 DEF Words
<1>5. PICK v \in Int, p \in Int : v = Value(s) /\ p = Value(Put(a, bit)) /\ p = v + bit
  <2>1. PICK s0 \in Int, z \in Int : s0 = s[0] /\ z = Base * (s[1] + Base * (s[2] + Base * s[3]))
    <3>1. \A j \in 0..3 : s[j] \in Int
      BY <1>1, WordsAre
    <3>2. s[0] \in Int /\ s[1] \in Int /\ s[2] \in Int /\ s[3] \in Int /\ Base \in Int
      BY <3>1, BaseIs
    <3> QED BY <3>2
  <2>2. Value(s) = s0 + z
    BY <2>1 DEF Value
  <2>3. Value(Put(a, bit)) = (s0 + bit) + z
    BY <1>3, <2>1 DEF Value
  <2> QED BY <2>1, <2>2, <2>3
<1>6. PICK M \in Nat \ {0}, d \in Nat : M = 2^(4 * W) /\ d = Value(a)
  <2>1. 4 * W \in Nat
    BY BaseIs
  <2>2. 2^(4 * W) \in Nat \ {0}
    BY <2>1, PowIs
  <2>3. Value(a) \in 0..2^(4 * W) - 1
    BY WordsAre
  <2> QED BY <2>2, <2>3
<1>7. PICK c \in Int : 2 * d = M * c + v
  <2>1. PICK m \in Nat : m = d * 2
    OBVIOUS
  <2>2. \E q \in Nat, x \in 0..M - 1 : q = m \div M /\ x = m % M /\ m = M * q + x
    BY NatDiv
  <2>3. 2^1 = 2
    BY PowStep
  <2> QED BY <1>1, <1>5, <1>6, <2>1, <2>2, <2>3
<1>8. p + M * c = 2 * d + bit
  <2>1. PICK z \in Int : z = M * c
    OBVIOUS
  <2> QED BY <1>5, <1>7, <2>1
<1> QED BY <1>4, <1>5, <1>6, <1>8

\* What a turn of the division keeps: the bits taken so far are the divisor
\* times a quotient, of which the lowest four words are kept, and a remainder.
Dividing(den) == {acc \in [rem : Words, quot : Words] : Value(acc.rem) < Value(den)}

Divided(acc, n, den) ==
  /\ acc \in Dividing(den)
  /\ \E q \in Int, c \in Int : /\ n = q * Value(den) + Value(acc.rem)
                              /\ Value(acc.quot) + 2^(4 * W) * c = q

\* A turn takes in a bit: the remainder stays below the divisor.
LEMMA TakeIs ==
  ASSUME NEW rem \in Words, NEW bit \in {0, 1}, NEW den \in Words,
         Value(rem) < Value(den), 2 * Value(den) <= 2^(4 * W)
  PROVE  LET t == Take(rem, bit, den)
         IN  /\ t.rem \in Words /\ t.q \in {0, 1}
             /\ Value(t.rem) < Value(den)
             /\ Value(t.rem) + t.q * Value(den) = 2 * Value(rem) + bit
<1> DEFINE r == Put(rem, bit)
           t == Take(rem, bit, den)
<1>1. PICK M \in Nat \ {0}, v \in Nat, d \in Nat :
        M = 2^(4 * W) /\ v = Value(rem) /\ d = Value(den) /\ v < d /\ 2 * d <= M
  <2>1. 4 * W \in Nat
    BY BaseIs
  <2>2. 2^(4 * W) \in Nat \ {0}
    BY <2>1, PowIs
  <2>3. Value(rem) \in 0..2^(4 * W) - 1 /\ Value(den) \in 0..2^(4 * W) - 1
    BY WordsAre
  <2> QED BY <2>2, <2>3
<1>2. r \in Words
  BY PutIs
<1>3. PICK p \in 0..M - 1 : p = Value(r)
  BY <1>1, <1>2, WordsAre
<1>4. p = 2 * v + bit
  <2>1. PICK n \in Int, c \in Int : n = 2 * v + bit /\ p + M * c = n
    <3>1. \E c \in Int : Value(r) + 2^(4 * W) * c = 2 * Value(rem) + bit
      BY PutIs
    <3> HIDE DEF r
    <3> QED BY <1>1, <1>3, <3>1
  <2>2. p = n % M
    BY <2>1, Wraps
  <2>3. n \in 0..M - 1
    BY <1>1, <2>1
  <2>4. n % M = n
    BY <2>3
  <2> QED BY <2>1, <2>2, <2>4
<1>5. t = IF U128Cmp(r, den) >= 0 THEN [rem |-> U128Sub(r, den), q |-> 1]
                                  ELSE [rem |-> r, q |-> 0]
  BY DEF Take, Put
<1>6. U128Cmp(r, den) = Order(p, d)
  BY <1>1, <1>2, <1>3, CmpIs
<1> HIDE DEF r, t
<1>7. CASE p >= d
  <2>1. t = [rem |-> U128Sub(r, den), q |-> 1]
    BY <1>5, <1>6, <1>7 DEF Order
  <2>2. U128Sub(r, den) \in Words /\ Value(U128Sub(r, den)) = (p - d) % M
    BY <1>1, <1>2, <1>3, SubIs
  <2>3. p - d \in 0..M - 1 /\ p - d < d
    BY <1>1, <1>4, <1>7
  <2>4. (p - d) % M = p - d
    BY <2>3
  <2> HIDE DEF t
  <2>5. t.rem \in Words /\ t.q = 1 /\ Value(t.rem) = p - d
    BY <2>1, <2>2, <2>4
  <2>6. 1 * Value(den) = d
    BY <1>1
  <2> QED BY <1>1, <1>4, <2>3, <2>5, <2>6 DEF t
<1>8. CASE ~(p >= d)
  <2>1. t = [rem |-> r, q |-> 0]
    BY <1>5, <1>6, <1>8 DEF Order
  <2>2. t.rem \in Words /\ t.q = 0 /\ Value(t.rem) = p
    BY <1>2, <1>3, <2>1
  <2>3. 0 * Value(den) = 0
    BY <1>1
  <2> QED BY <1>1, <1>4, <1>8, <2>2, <2>3 DEF t
<1> QED BY <1>7, <1>8

\* A turn keeps what was divided so far.
LEMMA TurnIs ==
  ASSUME NEW den \in Words, 2 * Value(den) <= 2^(4 * W), NEW bit \in {0, 1},
         NEW n \in Int, NEW acc, Divided(acc, n, den)
  PROVE  Divided(Turn(acc, bit, den), 2 * n + bit, den)
<1> DEFINE t == Take(acc.rem, bit, den)
           u == Turn(acc, bit, den)
<1>1. acc \in [rem : Words, quot : Words] /\ acc.rem \in Words /\ acc.quot \in Words
      /\ Value(acc.rem) < Value(den)
  BY DEF Divided, Dividing
<1>2. /\ t.rem \in Words /\ t.q \in {0, 1}
      /\ Value(t.rem) < Value(den)
      /\ Value(t.rem) + t.q * Value(den) = 2 * Value(acc.rem) + bit
  <2>1. PICK rem \in Words : rem = acc.rem /\ Value(rem) < Value(den)
    BY <1>1
  <2>2. LET z == Take(rem, bit, den)
        IN  /\ z.rem \in Words /\ z.q \in {0, 1}
            /\ Value(z.rem) < Value(den)
            /\ Value(z.rem) + z.q * Value(den) = 2 * Value(rem) + bit
    BY <2>1, TakeIs
  <2> QED BY <2>1, <2>2
<1>3. u = [rem |-> t.rem, quot |-> Put(acc.quot, t.q)]
  BY DEF Turn, Put
<1> HIDE DEF t, u
<1>4. PICK e \in {0, 1} : e = t.q
  BY <1>2
<1>5. Put(acc.quot, e) \in Words
  BY <1>1, PutIs
<1>6. PICK c1 \in Int : Value(Put(acc.quot, e)) + 2^(4 * W) * c1 = 2 * Value(acc.quot) + e
  BY <1>1, PutIs
<1>7. u \in Dividing(den) /\ u.rem = t.rem /\ u.quot = Put(acc.quot, e)
  BY <1>2, <1>3, <1>4, <1>5 DEF Dividing
<1>8. PICK q \in Int, c \in Int : /\ n = q * Value(den) + Value(acc.rem)
                                 /\ Value(acc.quot) + 2^(4 * W) * c = q
  BY DEF Divided
<1>9. PICK M \in Int, d \in Int, r0 \in Int, r1 \in Int, q0 \in Int, q1 \in Int :
        /\ M = 2^(4 * W) /\ d = Value(den) /\ r0 = Value(acc.rem) /\ r1 = Value(u.rem)
        /\ q0 = Value(acc.quot) /\ q1 = Value(u.quot)
  <2>1. 4 * W \in Nat
    BY BaseIs
  <2>2. 2^(4 * W) \in Int
    BY <2>1, PowIs
  <2>3. Value(den) \in Int /\ Value(acc.rem) \in Int /\ Value(acc.quot) \in Int
    BY <1>1, <2>2, WordsAre
  <2>4. u.rem \in Words /\ u.quot \in Words
    BY <1>2, <1>5, <1>7
  <2>5. Value(u.rem) \in Int /\ Value(u.quot) \in Int
    BY <2>2, <2>4, WordsAre
  <2> QED BY <2>2, <2>3, <2>5
<1>10. /\ n = q * d + r0 /\ q0 + M * c = q
       /\ r1 + e * d = 2 * r0 + bit /\ q1 + M * c1 = 2 * q0 + e
  BY <1>2, <1>4, <1>6, <1>7, <1>8, <1>9
<1>11. 2 * n + bit = (2 * q + e) * d + r1
  <2>1. PICK x \in Int, y \in Int : x = q * d /\ y = e * d
    OBVIOUS
  <2>2. (2 * q + e) * d = 2 * (q * d) + e * d
    OBVIOUS
  <2> QED BY <1>10, <2>1, <2>2
<1>12. q1 + M * (c1 + 2 * c) = 2 * q + e
  <2>1. PICK x \in Int, y \in Int : x = M * c /\ y = M * c1
    OBVIOUS
  <2>2. M * (c1 + 2 * c) = M * c1 + 2 * (M * c)
    OBVIOUS
  <2> QED BY <1>10, <2>1, <2>2
<1>13. PICK Q \in Int, C \in Int : Q = 2 * q + e /\ C = c1 + 2 * c
  OBVIOUS
<1>14. 2 * n + bit = Q * Value(den) + Value(u.rem) /\ Value(u.quot) + 2^(4 * W) * C = Q
  BY <1>9, <1>11, <1>12, <1>13
<1> QED BY <1>7, <1>14 DEF Divided, u

\* The loop of the division as a function that is defined from its value before.
Turns(f, numerator, top, den) ==
  f = [n \in 0..top + 1 |->
         IF n = 0 THEN [rem |-> U128Zero, quot |-> U128Zero]
         ELSE Turn(f[n - 1], numerator[top + 1 - n], den)]

\* Four words of zero.
LEMMA ZeroIs == U128Zero \in Words /\ Value(U128Zero) = 0
<1>1. U128Zero \in Words
  BY BaseIs DEF U128Zero, Words, Word
<1>2. Value(U128Zero) = 0
  BY BaseIs DEF U128Zero, Value
<1> QED BY <1>1, <1>2

\* The same without the number.
LEMMA TurnKeeps ==
  ASSUME NEW den \in Words, 2 * Value(den) <= 2^(4 * W), NEW bit \in {0, 1},
         NEW acc \in Dividing(den)
  PROVE  Turn(acc, bit, den) \in Dividing(den)
<1>1. acc.rem \in Words /\ acc.quot \in Words
  BY DEF Dividing
<1>2. PICK M \in Int, d \in Int, r \in Int, v \in Int :
        M = 2^(4 * W) /\ d = Value(den) /\ r = Value(acc.rem) /\ v = Value(acc.quot)
  <2>1. 4 * W \in Nat
    BY BaseIs
  <2>2. 2^(4 * W) \in Int
    BY <2>1, PowIs
  <2>3. Value(den) \in Int /\ Value(acc.rem) \in Int /\ Value(acc.quot) \in Int
    BY <1>1, <2>2, WordsAre
  <2> QED BY <2>2, <2>3
<1>3. PICK n \in Int, q \in Int, c \in Int : q = v /\ c = 0 /\ n = q * d + r
  <2>1. v * d + r \in Int
    OBVIOUS
  <2> QED BY <2>1
<1>4. v + M * c = q
  <2>1. M * 0 = 0
    OBVIOUS
  <2> QED BY <1>3, <2>1
<1>5. Divided(acc, n, den)
  BY <1>2, <1>3, <1>4 DEF Divided
<1>6. Divided(Turn(acc, bit, den), 2 * n + bit, den)
  BY <1>5, TurnIs
<1> QED BY <1>6 DEF Divided

\* The turns of a division.
LEMMA TurnsExist ==
  ASSUME NEW den \in Words, Value(den) # 0, 2 * Value(den) <= 2^(4 * W),
         NEW top \in Nat, NEW numerator, \A i \in 0..top : numerator[i] \in {0, 1}
  PROVE  \E f : Turns(f, numerator, top, den)
<1> DEFINE zero == [rem |-> U128Zero, quot |-> U128Zero]
           T == Dividing(den)
           step == [n \in 0..top + 1 |-> [x \in T |-> IF n = 0 THEN x
                                          ELSE Turn(x, numerator[top + 1 - n], den)]]
<1>1. zero \in T
  <2>1. PICK M \in Nat : M = 2^(4 * W)
    <3>1. 4 * W \in Nat
      BY BaseIs
    <3> QED BY <3>1, PowIs
  <2>2. Value(den) \in 0..M - 1
    BY <2>1, WordsAre
  <2> QED BY <2>2, ZeroIs DEF Dividing
<1>2. step \in [0..top + 1 -> [T -> T]]
  <2>1. ASSUME NEW n \in 0..top + 1, NEW x \in T, n # 0
        PROVE  Turn(x, numerator[top + 1 - n], den) \in T
    <3>1. top + 1 - n \in 0..top
      BY <2>1
    <3>2. PICK bit \in {0, 1} : bit = numerator[top + 1 - n]
      BY <3>1
    <3>3. Turn(x, bit, den) \in T
      BY TurnKeeps
    <3> QED BY <3>2, <3>3
  <2> HIDE DEF T
  <2> QED BY <2>1
<1> HIDE DEF zero, step, T
<1>3. PICK m \in Nat : m = top + 1
  OBVIOUS
<1>4. step \in [0..m -> [T -> T]]
  BY <1>2, <1>3
<1>5. PICK f : Follows(f, m, T, zero, step)
  BY <1>1, <1>4, Recursion, Zenon
<1>6. f \in [0..m -> T] /\ f[0] = zero /\ \A k \in 1..m : f[k] = step[k][f[k - 1]]
  BY <1>5 DEF Follows
<1>7. ASSUME NEW n \in 0..m
      PROVE  f[n] = IF n = 0 THEN [rem |-> U128Zero, quot |-> U128Zero]
                    ELSE Turn(f[n - 1], numerator[top + 1 - n], den)
  <2>1. CASE n = 0
    BY <1>6, <2>1 DEF zero
  <2>2. CASE n # 0
    <3>1. n \in 1..m /\ n - 1 \in 0..m /\ n \in 0..top + 1
      BY <1>3, <2>2
    <3>2. f[n] = step[n][f[n - 1]] /\ f[n - 1] \in T
      BY <1>6, <3>1
    <3>3. step[n][f[n - 1]] = Turn(f[n - 1], numerator[top + 1 - n], den)
      BY <2>2, <3>1, <3>2 DEF step
    <3> QED BY <2>2, <3>2, <3>3
  <2> QED BY <2>1, <2>2
<1>8. f = [n \in 0..m |-> f[n]]
  BY <1>6
<1>9. Turns(f, numerator, top, den)
  BY <1>3, <1>7, <1>8, Zenon DEF Turns
<1> QED BY <1>9

\* The bits numerator[top] .. numerator[0] are those of m.
BitsOf(numerator, top, m) ==
  /\ \A i \in 0..top : numerator[i] = (m \div 2^i) % 2
  /\ m \div 2^(top + 1) = 0

\* Schoolbook division computes quotient and remainder, the quotient in its
\* lowest four words, for every divisor of at most half the range.
LEMMA DivideIs ==
  ASSUME NEW den \in Words, Value(den) # 0, 2 * Value(den) <= 2^(4 * W),
         NEW top \in Nat, NEW numerator, NEW m \in Nat, BitsOf(numerator, top, m)
  PROVE  LET r == Divide(numerator, top, den)
         IN  /\ Value(r.quot) = (m \div Value(den)) % 2^(4 * W)
             /\ Value(r.rem) = m % Value(den)
             /\ r.quot \in Words
<1> DEFINE after[n \in 0..top + 1] ==
             IF n = 0 THEN [rem |-> U128Zero, quot |-> U128Zero]
             ELSE Turn(after[n - 1], numerator[top + 1 - n], den)
<1>1. Divide(numerator, top, den) = after[top + 1]
  BY Zenon DEF Divide
<1>2. after = CHOOSE f : Turns(f, numerator, top, den)
  BY Zenon DEF Turns
<1> HIDE DEF after
<1>3. ASSUME NEW i \in 0..top
      PROVE  /\ numerator[i] \in {0, 1}
             /\ m \div 2^i = 2 * (m \div 2^(i + 1)) + numerator[i]
  <2>1. PICK p \in Nat \ {0} : p = 2^i /\ 2^(i + 1) = p * 2
    <3>1. i \in Nat
      OBVIOUS
    <3>2. 2^i \in Nat \ {0} /\ 2^(i + 1) = 2 * 2^i
      BY <3>1, PowIs, PowStep
    <3> QED BY <3>2
  <2>2. PICK y \in Nat : y = m \div p
    BY NatDiv
  <2>3. (m \div p) \div 2 = m \div (p * 2)
    <3>1. m \in Int /\ 2 \in Nat \ {0}
      OBVIOUS
    <3> QED BY <3>1, DivDiv
  <2>4. y = 2 * (y \div 2) + (y % 2) /\ y % 2 \in {0, 1}
    OBVIOUS
  <2> QED BY <2>1, <2>2, <2>3, <2>4 DEF BitsOf
<1>4. Turns(after, numerator, top, den)
  <2>1. \A i \in 0..top : numerator[i] \in {0, 1}
    BY <1>3
  <2>2. \E f : Turns(f, numerator, top, den)
    BY <2>1, TurnsExist
  <2> QED BY <1>2, <2>2, Zenon
<1>5. ASSUME NEW n \in 0..top + 1
      PROVE  after[n] = IF n = 0 THEN [rem |-> U128Zero, quot |-> U128Zero]
                        ELSE Turn(after[n - 1], numerator[top + 1 - n], den)
  BY <1>4, Zenon DEF Turns
<1>6. PICK M \in Nat \ {0}, d \in Nat \ {0} : M = 2^(4 * W) /\ d = Value(den)
  <2>1. 4 * W \in Nat
    BY BaseIs
  <2>2. 2^(4 * W) \in Nat \ {0}
    BY <2>1, PowIs
  <2>3. Value(den) \in 0..2^(4 * W) - 1
    BY WordsAre
  <2> QED BY <2>2, <2>3
<1> DEFINE S == {n \in Nat : n <= top + 1 => Divided(after[n], m \div 2^(top + 1 - n), den)}
<1>7. 0 \in S
  <2>1. after[0] = [rem |-> U128Zero, quot |-> U128Zero]
    BY <1>5
  <2>2. after[0] \in Dividing(den)
    BY <1>6, <2>1, ZeroIs DEF Dividing
  <2>3. 0 = 0 * d + 0 /\ 0 + M * 0 = 0 /\ 0 \in Int
    OBVIOUS
  <2>4. Divided(after[0], 0, den)
    BY <1>6, <2>1, <2>2, <2>3, ZeroIs DEF Divided
  <2>5. m \div 2^(top + 1 - 0) = 0
    BY DEF BitsOf
  <2> QED BY <2>4, <2>5
<1>8. ASSUME NEW n \in S PROVE n + 1 \in S
  <2> SUFFICES ASSUME n + 1 <= top + 1
               PROVE  Divided(after[n + 1], m \div 2^(top + 1 - (n + 1)), den)
    OBVIOUS
  <2>1. PICK i \in 0..top : i = top - n
    OBVIOUS
  <2>2. top + 1 - n = i + 1 /\ top + 1 - (n + 1) = i /\ n \in Nat
    BY <2>1
  <2>3. PICK x \in Int : x = m \div 2^(i + 1)
    <3>1. i + 1 \in Nat
      OBVIOUS
    <3>2. 2^(i + 1) \in Nat \ {0}
      BY <3>1, PowIs
    <3> QED BY <3>2, NatDiv
  <2>4. Divided(after[n], x, den)
    BY <2>2, <2>3
  <2>5. PICK bit \in {0, 1} : bit = numerator[i] /\ m \div 2^i = 2 * x + bit
    BY <1>3, <2>3
  <2>6. after[n + 1] = Turn(after[n], numerator[i], den)
    <3>1. PICK k \in 0..top + 1 : k = n + 1 /\ k # 0 /\ k - 1 = n /\ top + 1 - k = i
      BY <2>1
    <3>2. after[k] = IF k = 0 THEN [rem |-> U128Zero, quot |-> U128Zero]
                     ELSE Turn(after[k - 1], numerator[top + 1 - k], den)
      BY <1>5
    <3> QED BY <3>1, <3>2
  <2>7. Divided(Turn(after[n], bit, den), 2 * x + bit, den)
    BY <2>4, TurnIs
  <2> QED BY <2>2, <2>5, <2>6, <2>7
<1> HIDE DEF S
<1>9. top + 1 \in S
  <2>1. S \in SUBSET Nat
    BY DEF S
  <2>2. S = Nat
    BY <1>7, <1>8, <2>1, Induction
  <2> QED BY <2>2
<1>10. Divided(after[top + 1], m, den)
  <2>1. top + 1 - (top + 1) = 0 /\ 2^0 = 1 /\ m \div 1 = m
    OBVIOUS
  <2> QED BY <1>9, <2>1 DEF S
<1> DEFINE r == after[top + 1]
<1>11. /\ r.rem \in Words /\ r.quot \in Words /\ Value(r.rem) < d
       /\ \E q \in Int, c \in Int : m = q * d + Value(r.rem) /\ Value(r.quot) + M * c = q
  BY <1>6, <1>10 DEF Divided, Dividing
<1> HIDE DEF r
<1>12. PICK u \in 0..d - 1, v \in 0..M - 1 : u = Value(r.rem) /\ v = Value(r.quot)
  BY <1>6, <1>11, WordsAre
<1>13. PICK q \in Int, c \in Int : m = d * q + u /\ v + M * c = q
  BY <1>11, <1>12, SMTT(30)
<1>14. m \div d = q /\ m % d = u
  <2>1. PICK z \in Int : z = m
    OBVIOUS
  <2>2. z = d * q + u
    BY <1>13, <2>1
  <2>3. z \div d = q /\ z % d = u
    BY <2>2, DivModIs
  <2> QED BY <2>1, <2>3
<1>15. v = q % M
  BY <1>13, Wraps
<1> QED BY <1>1, <1>6, <1>11, <1>12, <1>14, <1>15 DEF r

\* u128_div: quotient and remainder.
LEMMA WordsDiv ==
  ASSUME NEW a \in Words, NEW den \in Words, Value(den) # 0, 2 * Value(den) <= 2^(4 * W)
  PROVE  /\ Value(U128Div(a, den).quot) = Value(a) \div Value(den)
         /\ Value(U128Div(a, den).rem) = Value(a) % Value(den)
<1>1. PICK top \in Nat : top = 4 * W - 1 /\ top + 1 = 4 * W
  BY BaseIs
<1>2. PICK M \in Nat \ {0}, m \in Nat, d \in Nat \ {0} :
        M = 2^(4 * W) /\ m = Value(a) /\ d = Value(den) /\ m \in 0..M - 1
  <2>1. 4 * W \in Nat
    BY BaseIs
  <2>2. 2^(4 * W) \in Nat \ {0}
    BY <2>1, PowIs
  <2>3. Value(a) \in 0..2^(4 * W) - 1 /\ Value(den) \in 0..2^(4 * W) - 1
    BY WordsAre
  <2> QED BY <2>2, <2>3
<1> DEFINE bits == [i \in 0..4 * W - 1 |-> BitOf(a, i)]
<1>3. BitsOf(bits, top, m)
  <2>1. \A i \in 0..top : bits[i] = (m \div 2^i) % 2
    BY <1>1, <1>2, BitIs
  <2>2. m \div 2^(top + 1) = 0
    <3>1. PICK z \in Int, n \in Int : z = 0 /\ n = m /\ n = M * z + m
      BY <1>2
    <3>2. m \in 0..M - 1
      BY <1>2
    <3>3. n = M * z + m
      BY <3>1
    <3>4. n \div M = z
      BY <3>2, <3>3, DivModIs, Zenon
    <3> QED BY <1>1, <1>2, <3>1, <3>4
  <2> HIDE DEF bits
  <2> QED BY <2>1, <2>2 DEF BitsOf
<1>4. U128Div(a, den) = Divide(bits, top, den)
  BY <1>1, Zenon DEF U128Div
<1> HIDE DEF bits
<1>5. LET r == Divide(bits, top, den)
      IN  /\ Value(r.quot) = (m \div Value(den)) % 2^(4 * W)
          /\ Value(r.rem) = m % Value(den)
          /\ r.quot \in Words
  BY <1>3, DivideIs
<1>6. PICK q \in Nat : q = m \div d /\ q \in 0..M - 1
  <2>1. PICK q \in Nat, r \in 0..d - 1 : q = m \div d /\ m = d * q + r
    BY NatDiv
  <2>2. q <= d * q
    <3>1. PICK e \in Nat : d = e + 1
      OBVIOUS
    <3>2. (e + 1) * q = e * q + q /\ e * q \in Nat
      OBVIOUS
    <3> QED BY <3>1, <3>2
  <2>3. PICK z \in Nat : z = d * q
    OBVIOUS
  <2>4. m \in 0..M - 1
    BY <1>2
  <2> QED BY <2>1, <2>2, <2>3, <2>4
<1>7. q % M = q
  BY <1>6
<1> QED BY <1>2, <1>4, <1>5, <1>6, <1>7

\* The loop of __divtf3: the quotient of a mantissa followed by k zeros.
LEMMA WordsFraction ==
  ASSUME NEW a \in Words, NEW den \in Words, Value(den) # 0, 2 * Value(den) <= 2^(4 * W),
         NEW k \in Nat, k < 4 * W, Value(a) < 2^(k + 1)
  PROVE  Value(F128Div(a, den, k)) = ((Value(a) * 2^k) \div Value(den)) % 2^(4 * W)
<1>1. PICK top \in Nat : top = 2 * k
  OBVIOUS
<1>2. PICK v \in Nat, p \in Nat \ {0} : v = Value(a) /\ p = 2^k /\ v \in 0..2 * p - 1
  <2>1. 4 * W \in Nat
    BY BaseIs
  <2>2. 2^(4 * W) \in Nat \ {0} /\ 2^k \in Nat \ {0} /\ 2^(k + 1) = 2 * 2^k
    BY <2>1, PowIs, PowStep
  <2>3. Value(a) \in 0..2^(4 * W) - 1
    BY WordsAre
  <2> QED BY <2>2, <2>3
<1>3. PICK m \in Nat : m = v * p
  <2>1. v * p \in Nat
    OBVIOUS
  <2> QED BY <2>1
<1> DEFINE bits == [i \in 0..2 * k |-> IF i >= k THEN BitOf(a, i - k) ELSE 0]
<1>4. ASSUME NEW i \in 0..top PROVE bits[i] = (m \div 2^i) % 2
  <2>1. CASE i >= k
    <3>1. PICK j \in 0..4 * W - 1 : j = i - k /\ i = j + k
      BY <1>1, <2>1, BaseIs
    <3>2. j \in Nat
      BY BaseIs
    <3>3. PICK q \in Nat \ {0} : q = 2^j /\ 2^i = q * p
      <4>1. 2^(j + k) = 2^j * 2^k /\ 2^j \in Nat \ {0}
        BY <3>2, PowSum, PowIs
      <4> QED BY <1>2, <3>1, <4>1
    <3>4. m \div 2^i = v \div q
      <4>1. m \div p = v
        <5>1. PICK n \in Int, z \in 0..p - 1, w \in Int : n = m /\ z = 0 /\ w = v
          OBVIOUS
        <5>2. n = p * w + z
          BY <1>3, <5>1
        <5>3. n \div p = w
          BY <5>2, DivModIs, Zenon
        <5> QED BY <5>1, <5>3
      <4>2. (m \div p) \div q = m \div (p * q)
        <5>1. m \in Int
          OBVIOUS
        <5> QED BY <5>1, DivDiv
      <4>3. p * q = q * p
        OBVIOUS
      <4> QED BY <3>3, <4>1, <4>2, <4>3
    <3>5. bits[i] = BitOf(a, j)
      BY <1>1, <2>1, <3>1
    <3>6. BitOf(a, j) = (Value(a) \div 2^j) % 2
      BY BitIs
    <3> QED BY <1>2, <3>3, <3>4, <3>5, <3>6
  <2>2. CASE ~(i >= k)
    <3>1. PICK j \in Nat \ {0} : k = i + j
      <4>1. k - i \in Nat \ {0} /\ k = i + (k - i)
        BY <1>1, <2>2
      <4> QED BY <4>1
    <3>2. PICK q \in Nat \ {0}, h \in Nat \ {0} : q = 2^i /\ p = q * (2 * h)
      <4>1. 2^(i + j) = 2^i * 2^j /\ 2^i \in Nat \ {0}
        <5>1. PICK x \in Nat, y \in Nat : x = i /\ y = j
          OBVIOUS
        <5>2. 2^(x + y) = 2^x * 2^y
          BY PowSum
        <5>3. 2^x \in Nat \ {0}
          BY PowIs
        <5> QED BY <5>1, <5>2, <5>3
      <4>2. 2^j = 2 * 2^(j - 1) /\ 2^(j - 1) \in Nat \ {0}
        BY PowEven
      <4> QED BY <1>2, <3>1, <4>1, <4>2
    <3>3. PICK e \in Int, w \in Int : e = v * h /\ w = 2 * e
      OBVIOUS
    <3>4. m \div q = w
      <4>1. PICK n \in Int, z \in 0..q - 1 : n = m /\ z = 0
        OBVIOUS
      <4>2. n = q * w + z
        <5>1. v * (q * (2 * h)) = q * (2 * (v * h))
          OBVIOUS
        <5> QED BY <1>3, <3>2, <3>3, <4>1, <5>1
      <4>3. n \div q = w
        BY <4>2, DivModIs, Zenon
      <4> QED BY <4>1, <4>3
    <3>5. w % 2 = 0
      BY <3>3
    <3>6. bits[i] = 0
      BY <1>1, <2>2
    <3> QED BY <3>2, <3>4, <3>5, <3>6
  <2> QED BY <2>1, <2>2
<1>5. m \div 2^(top + 1) = 0
  <2>1. PICK M \in Nat \ {0} : M = 2^(top + 1) /\ M = 2 * (p * p)
    <3>1. PICK n \in Nat : n = k + k /\ n = top
      BY <1>1
    <3>2. 2^(k + k) = 2^k * 2^k
      BY PowSum
    <3>3. 2^(n + 1) = 2 * 2^n
      BY PowStep
    <3>4. 2 * (p * p) \in Nat \ {0}
      OBVIOUS
    <3> QED BY <1>2, <3>1, <3>2, <3>3, <3>4
  <2>2. m \in 0..M - 1
    <3>1. PICK d \in Nat : v + d + 1 = 2 * p
      <4>1. 2 * p - 1 - v \in Nat
        BY <1>2
      <4> QED BY <4>1
    <3>2. (v + d + 1) * p = v * p + d * p + p /\ d * p \in Nat /\ (2 * p) * p = 2 * (p * p)
      OBVIOUS
    <3> QED BY <1>3, <2>1, <3>1, <3>2
  <2>3. PICK z \in Int, n \in Int : z = 0 /\ n = m
    OBVIOUS
  <2>4. n = M * z + m
    BY <2>3
  <2>5. n \div M = z
    BY <2>2, <2>4, DivModIs, Zenon
  <2> QED BY <2>1, <2>3, <2>5
<1>6. BitsOf(bits, top, m)
  <2> HIDE DEF bits
  <2> QED BY <1>4, <1>5 DEF BitsOf
<1>7. F128Div(a, den, k) = Divide(bits, top, den).quot
  BY <1>1, Zenon DEF F128Div
<1> HIDE DEF bits
<1>8. LET r == Divide(bits, top, den)
      IN  /\ Value(r.quot) = (m \div Value(den)) % 2^(4 * W)
          /\ Value(r.rem) = m % Value(den)
          /\ r.quot \in Words
  BY <1>6, DivideIs
<1> QED BY <1>2, <1>3, <1>7, <1>8

-----------------------------------------------------------------------------
(* The operands of a call fit the words they are given in.                 *)
OperandsFit ==
  /\ Of("pairs") => /\ call.a \in 0..2^(2 * W) - 1 /\ call.b \in 0..2^(2 * W) - 1
                    /\ call.exp \in Nat
  /\ Of("words") => /\ call.a \in 0..2^(4 * W) - 1 /\ call.b \in 0..2^(4 * W) - 1
                    /\ call.exp \in Nat

\* All laws of two words.
LEMMA PairsAre ==
  ASSUME NEW m \in 0..2^(2 * W) - 1, NEW n \in 0..2^(2 * W) - 1, NEW k \in Nat
  PROVE  PairsCompute(m, n, k)
<1>1. PICK a \in Pair, b \in Pair :
        a = ToPair(m) /\ b = ToPair(n) /\ PairValue(a) = m /\ PairValue(b) = n
  BY ToPairIs
<1>2. PairValue(F64AddMant(a, b)) = (m + n) % 2^(2 * W)
  BY <1>1, PairAdd
<1>3. PairValue(F64SubMant(a, b)) = (m - n) % 2^(2 * W)
  BY <1>1, PairSub
<1>4. PairValue(F64Shl(a, k)) = (m * 2^k) % 2^(2 * W)
  BY <1>1, PairShl
<1>5. PairValue(F64Shr(a, k)) = m \div 2^k
  BY <1>1, PairShr
<1>6. F64CmpMant(a, b) = Order(m, n)
  BY <1>1, PairCmp
<1> QED BY <1>1, <1>2, <1>3, <1>4, <1>5, <1>6, Zenon DEF PairsCompute

\* All laws of four words.
LEMMA WordsAreExact ==
  ASSUME NEW m \in 0..2^(4 * W) - 1, NEW n \in 0..2^(4 * W) - 1, NEW k \in Nat
  PROVE  WordsCompute(m, n, k)
<1>1. PICK a \in Words, b \in Words :
        a = ToWords(m) /\ b = ToWords(n) /\ Value(a) = m /\ Value(b) = n
  BY ToWordsIs
<1>2. Value(U128Add(a, b)) = (m + n) % 2^(4 * W)
  BY <1>1, AddIs
<1>3. Value(U128Sub(a, b)) = (m - n) % 2^(4 * W)
  BY <1>1, SubIs
<1>4. Value(U128Shl(a, k)) = (m * 2^k) % 2^(4 * W)
  BY <1>1, ShlIs
<1>5. Value(U128Shr(a, k)) = m \div 2^k
  BY <1>1, ShrIs
<1>6. U128Cmp(a, b) = Order(m, n)
  BY <1>1, CmpIs
<1>7. ASSUME n # 0, 2 * n <= 2^(4 * W)
      PROVE  /\ Value(U128Div(a, b).quot) = m \div n
             /\ Value(U128Div(a, b).rem) = m % n
  BY <1>1, <1>7, WordsDiv
<1>8. ASSUME n # 0, 2 * n <= 2^(4 * W), k < 4 * W, m < 2^(k + 1)
      PROVE  Value(F128Div(a, b, k)) = ((m * 2^k) \div n) % 2^(4 * W)
  BY <1>1, <1>8, WordsFraction
<1> QED BY <1>1, <1>2, <1>3, <1>4, <1>5, <1>6, <1>7, <1>8, Zenon DEF WordsCompute

(* The two-word and four-word integers of softfloat.c (f64_add_mant,         *)
(* f64_sub_mant, f64_shl, f64_shr, f64_cmp_mant, u128_add, u128_sub,         *)
(* u128_shl, u128_shr, u128_cmp, u128_div and the loop of __divtf3) compute  *)
(* sums, differences, shifts, comparisons, quotients and remainders of all   *)
(* numbers they can hold, for words of any even width.  The products of      *)
(* __muldf3 and __multf3 are exact wherever an unsigned long is wider than   *)
(* an unsigned int; where it is not, mul32x32_to_64 loses a carry.           *)
THEOREM WordsAsNumbers ==
  ASSUME OperandsFit
  PROVE  WordsExact /\ (LongBits > W => MultiWordExact)
<1>1. WordsExact
  <2>1. ASSUME Of("pairs") PROVE PairsCompute(call.a, call.b, call.exp)
    BY <2>1, PairsAre DEF OperandsFit
  <2>2. ASSUME Of("words") PROVE WordsCompute(call.a, call.b, call.exp)
    BY <2>2, WordsAreExact DEF OperandsFit
  <2> QED BY <2>1, <2>2 DEF WordsExact
<1>2. ASSUME LongBits > W PROVE ProductsExact
  <2>1. ASSUME Of("pairs")
        PROVE  Value(F64Mul(ToPair(call.a), ToPair(call.b))) = call.a * call.b
    <3>1. PICK m \in 0..2^(2 * W) - 1, n \in 0..2^(2 * W) - 1 : m = call.a /\ n = call.b
      BY <2>1 DEF OperandsFit
    <3>2. PICK a \in Pair, b \in Pair :
            a = ToPair(m) /\ b = ToPair(n) /\ PairValue(a) = m /\ PairValue(b) = n
      BY ToPairIs
    <3>3. Value(F64Mul(a, b)) = PairValue(a) * PairValue(b)
      BY <1>2, PairMul
    <3> QED BY <3>1, <3>2, <3>3
  <2>2. ASSUME Of("words")
        PROVE  EightWords(F128Mul(ToWords(call.a), ToWords(call.b))) = call.a * call.b
    <3>1. PICK m \in 0..2^(4 * W) - 1, n \in 0..2^(4 * W) - 1 : m = call.a /\ n = call.b
      BY <2>2 DEF OperandsFit
    <3>2. PICK a \in Words, b \in Words :
            a = ToWords(m) /\ b = ToWords(n) /\ Value(a) = m /\ Value(b) = n
      BY ToWordsIs
    <3>3. EightWords(F128Mul(a, b)) = Value(a) * Value(b)
      BY <1>2, WordsMul
    <3> QED BY <3>1, <3>2, <3>3
  <2> QED BY <2>1, <2>2 DEF ProductsExact
<1> QED BY <1>1, <1>2 DEF MultiWordExact
=============================================================================
