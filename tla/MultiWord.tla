------------------------------ MODULE MultiWord ------------------------------
(***************************************************************************)
(* The multi-word integers of softfloat.c: soft_f128 as four words, word 0 *)
(* the lowest, and soft_f64 as the words lo and hi.  A word is an unsigned *)
(* int of W bits; the products of half words are computed in an unsigned   *)
(* long of LongBits bits, which is 2 * W on x86_64 and W on the targets    *)
(* i386 and RV32.                                                          *)
(***************************************************************************)
EXTENDS Integers, SequencesExt

CONSTANTS W,          \* bits of an unsigned int
          LongBits    \* bits of an unsigned long

ASSUME WordsAssumption ==
  /\ W \in Nat \ {0} /\ W % 2 = 0
  /\ LongBits \in Nat /\ LongBits >= W

Base == 2 ^ W
Half == 2 ^ (W \div 2)
Long(n) == n % 2 ^ LongBits
Word == 0 .. Base - 1
Pair == [lo : Word, hi : Word]
Words == [0 .. 3 -> Word]

Shl(w, k) == (w * 2 ^ k) % Base
Shr(w, k) == w \div 2 ^ k
Bit(b) == IF b THEN 1 ELSE 0

(* The number that a pair or four words stand for. *)
PairValue(p) == p.lo + Base * p.hi
Value(a) == a[0] + Base * (a[1] + Base * (a[2] + Base * a[3]))

-----------------------------------------------------------------------------
(* mul32x32_to_64: four products of half words.  The sum of the middle ones *)
(* has a bit more than two words.                                           *)

Mid(p0, p1, p2) == Long(p1 + p2 + (p0 \div Half))

Mul32x32(u, v) ==
  LET p0  == Long((u % Half) * (v % Half))
      p1  == Long((u % Half) * (v \div Half))
      p2  == Long((u \div Half) * (v % Half))
      p3  == Long((u \div Half) * (v \div Half))
      mid == Mid(p0, p1, p2)
  IN  [lo |-> (p0 % Half) + Half * (mid % Half),
       hi |-> Long(p3 + (mid \div Half)) % Base]

-----------------------------------------------------------------------------
(* Two words: the mantissa of a double.                                    *)

F64Shr(a, k) ==
  CASE k <= 0         -> a
    [] k >= 2 * W     -> [lo |-> 0, hi |-> 0]
    [] k \in W .. 2 * W - 1 -> [lo |-> Shr(a.hi, k - W), hi |-> 0]
    [] OTHER          -> [lo |-> Shr(a.lo, k) + Shl(a.hi, W - k), hi |-> Shr(a.hi, k)]

F64Shl(a, k) ==
  CASE k <= 0         -> a
    [] k >= 2 * W     -> [lo |-> 0, hi |-> 0]
    [] k \in W .. 2 * W - 1 -> [lo |-> 0, hi |-> Shl(a.lo, k - W)]
    [] OTHER          -> [lo |-> Shl(a.lo, k), hi |-> Shl(a.hi, k) + Shr(a.lo, W - k)]

F64CmpMant(a, b) ==
  CASE a.hi < b.hi -> -1
    [] a.hi > b.hi -> 1
    [] a.hi = b.hi /\ a.lo < b.lo -> -1
    [] a.hi = b.hi /\ a.lo > b.lo -> 1
    [] OTHER       -> 0

F64AddMant(a, b) ==
  LET sum_lo == (a.lo + b.lo) % Base
  IN  [lo |-> sum_lo, hi |-> (a.hi + b.hi + Bit(sum_lo < a.lo)) % Base]

F64SubMant(a, b) ==
  [lo |-> (a.lo - b.lo) % Base, hi |-> (a.hi - b.hi - Bit(a.lo < b.lo)) % Base]

-----------------------------------------------------------------------------
(* Four words.                                                             *)

U128Zero == [i \in 0 .. 3 |-> 0]

U128IsZero(a) == a = U128Zero

(* The loop from the highest word: the first that differs decides. *)
U128Cmp(a, b) ==
  IF a = b THEN 0
  ELSE LET i == CHOOSE j \in 0 .. 3 : a[j] # b[j] /\ \A k \in j + 1 .. 3 : a[k] = b[k]
       IN  IF a[i] < b[i] THEN -1 ELSE 1

CarryStrict(ai, bi, carry) ==    \* Mutant: one comparison for both cases.
  Bit((ai + bi + carry) % Base < ai)
CarryOut(ai, bi, carry) ==
  LET sum == (ai + bi + carry) % Base
  IN  IF carry = 1 THEN Bit(sum <= ai) ELSE Bit(sum < ai)

U128Add(a, b) ==
  LET c1 == CarryOut(a[0], b[0], 0)
      c2 == CarryOut(a[1], b[1], c1)
      c3 == CarryOut(a[2], b[2], c2)
      carry == <<0, c1, c2, c3>>
  IN  [i \in 0 .. 3 |-> (a[i] + b[i] + carry[i + 1]) % Base]

BorrowOut(ai, bi, borrow) == IF borrow = 1 THEN Bit(ai <= bi) ELSE Bit(ai < bi)

U128Sub(a, b) ==
  LET c1 == BorrowOut(a[0], b[0], 0)
      c2 == BorrowOut(a[1], b[1], c1)
      c3 == BorrowOut(a[2], b[2], c2)
      borrow == <<0, c1, c2, c3>>
  IN  [i \in 0 .. 3 |-> (a[i] - b[i] - borrow[i + 1]) % Base]

U128Shl(a, k) ==
  LET words == k \div W
      bits  == k % W
      From(i) == IF i \in 0 .. 3 THEN a[i] ELSE 0
  IN  CASE k <= 0      -> a
        [] k >= 4 * W  -> U128Zero
        [] OTHER       -> [i \in 0 .. 3 |-> Shl(From(i - words), bits)
                                              + Shr(From(i - words - 1), W - bits)]

U128Shr(a, k) ==
  LET words == k \div W
      bits  == k % W
      From(i) == IF i \in 0 .. 3 THEN a[i] ELSE 0
  IN  CASE k <= 0      -> a
        [] k >= 4 * W  -> U128Zero
        [] OTHER       -> [i \in 0 .. 3 |-> Shr(From(i + words), bits)
                                              + Shl(From(i + words + 1), W - bits)]

BitOf(a, i) == (a[i \div W] \div 2 ^ (i % W)) % 2

(* One turn of a division loop: the remainder takes in a bit. *)
Take(rem, bit, den) ==
  LET r == [U128Shl(rem, 1) EXCEPT ![0] = @ + bit]
  IN  IF U128Cmp(r, den) >= 0 THEN [rem |-> U128Sub(r, den), q |-> 1]
                              ELSE [rem |-> r, q |-> 0]

Turn(acc, bit, den) ==
  LET t == Take(acc.rem, bit, den)
  IN  [rem  |-> t.rem, quot |-> [U128Shl(acc.quot, 1) EXCEPT ![0] = @ + t.q]]

(* Schoolbook division of the bits numerator[top] .. numerator[0] by den; of *)
(* the quotient the lowest four words are kept.                              *)
Divide(numerator, top, den) ==
  LET after[n \in 0 .. top + 1] ==
        IF n = 0 THEN [rem |-> U128Zero, quot |-> U128Zero]
        ELSE Turn(after[n - 1], numerator[top + 1 - n], den)
  IN  after[top + 1]

U128Div(num, den) ==
  Divide([i \in 0 .. 4 * W - 1 |-> BitOf(num, i)], 4 * W - 1, den)

-----------------------------------------------------------------------------
(* The product of two mantissas.                                           *)

(* f64_mul_impl: four products of words, added at their places. *)
F64Mul(a, b) ==
  LET At(k, p) == [i \in 0 .. 3 |-> IF i = k THEN p.lo ELSE IF i = k + 1 THEN p.hi ELSE 0]
  IN  U128Add(U128Add(U128Add(At(0, Mul32x32(a.lo, b.lo)), At(1, Mul32x32(a.lo, b.hi))),
                      At(1, Mul32x32(a.hi, b.lo))),
              At(2, Mul32x32(a.hi, b.hi)))

(* __multf3: row i adds a.w[i] times b to the product from word i on. *)
Column(prev, p, carry) ==
  LET sum1 == (prev + p.lo) % Base
      sum2 == (sum1 + carry) % Base
  IN  [word |-> sum2, carry |-> (p.hi + Bit(sum1 < prev) + Bit(sum2 < sum1)) % Base]

AddRow(prod, ai, b, i) ==
  LET col[j \in 0 .. 3] ==
        Column(prod[i + j], Mul32x32(ai, b[j]), IF j = 0 THEN 0 ELSE col[j - 1].carry)
      tail[k \in i + 3 .. 7] ==
        IF k = i + 3 THEN [word |-> 0, carry |-> col[3].carry]
        ELSE LET sum == (prod[k] + tail[k - 1].carry) % Base
             IN  [word |-> sum, carry |-> Bit(sum < prod[k])]
  IN  [k \in 0 .. 7 |-> CASE k \in i .. i + 3 -> col[k - i].word
                          [] k > i + 3        -> tail[k].word
                          [] OTHER            -> prod[k]]

F128Mul(a, b) ==
  LET row[i \in 0 .. 4] == IF i = 0 THEN [k \in 0 .. 7 |-> 0]
                           ELSE AddRow(row[i - 1], a[i - 1], b, i - 1)
  IN  row[4]

(* __divtf3: the bits of the mantissa a, followed by frac zeros. *)
F128Div(a, b, frac) ==
  Divide([i \in 0 .. 2 * frac |-> IF i >= frac THEN BitOf(a, i - frac) ELSE 0],
         2 * frac, b).quot
=============================================================================
