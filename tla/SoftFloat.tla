------------------------------ MODULE SoftFloat ------------------------------
(***************************************************************************)
(* The arithmetic of softfloat.c.  A format is a record: exp and frac are  *)
(* the bits of the two fields, kept those of the variable that holds a     *)
(* mantissa or a quotient.  A floating-point number is the natural number  *)
(* of its bits; mantissas are natural numbers, as MultiWord shows that the *)
(* operations on words compute them.  Where the three formats have the     *)
(* same code, one operator stands for the three functions.                 *)
(***************************************************************************)
EXTENDS MultiWord

CONSTANTS F32, F64, F128    \* the formats of float, double and long double

Formats == {F32, F64, F128}

ASSUME FormatsAssumption ==
  /\ \A f \in Formats : /\ f.exp \in Nat \ {0, 1} /\ f.frac \in Nat \ {0}
                        /\ f.kept >= f.frac + 2
  /\ F32.exp < F64.exp /\ F64.exp <= F128.exp
  /\ F32.frac < F64.frac /\ F64.frac < F128.frac
  /\ W <= F64.frac

Bias(f) == 2 ^ (f.exp - 1) - 1
MaxExp(f) == 2 ^ f.exp - 1
Implicit(f) == 2 ^ f.frac
SignBit(f) == 2 ^ (f.exp + f.frac)
Float(f) == 0 .. 2 * SignBit(f) - 1
BitSet(m, k) == (m \div 2 ^ k) % 2 = 1

-----------------------------------------------------------------------------
(* Fields.                                                                 *)

Sign(f, u) == u \div SignBit(f)
Magnitude(f, u) == u % SignBit(f)

Unpack(f, u) ==
  LET exp  == Magnitude(f, u) \div Implicit(f)
      mant == u % Implicit(f)
  IN  [sign |-> Sign(f, u),
       exp  |-> IF exp = 0 /\ mant # 0 THEN 1 ELSE exp,
       mant |-> IF exp \in 1 .. MaxExp(f) - 1 THEN mant + Implicit(f) ELSE mant]

Fields(f, sign, exp, mant) == sign * SignBit(f) + exp * Implicit(f) + (mant % Implicit(f))
Zero(f, sign) == sign * SignBit(f)
Infinity(f, sign) == Fields(f, sign, MaxExp(f), 0)

(* f32_pack: small results become subnormal. *)
PackSingle(f, sign, exp, mant) ==
  CASE exp < -(f.frac + 1) -> Zero(f, sign)
    [] exp \in -(f.frac + 1) .. 0 -> Fields(f, sign, 0, mant \div 2 ^ (1 - exp))
    [] exp >= MaxExp(f)    -> Infinity(f, sign)
    [] OTHER               -> Fields(f, sign, exp, mant)

(* f64_pack and f128_pack: small results become zero. *)
PackWide(f, sign, exp, mant) ==
  CASE exp <= 0         -> Zero(f, sign)
    [] exp >= MaxExp(f) -> Infinity(f, sign)
    [] OTHER            -> Fields(f, sign, exp, mant)

Pack(f, sign, exp, mant) ==
  IF f = F32 THEN PackSingle(f, sign, exp, mant) ELSE PackWide(f, sign, exp, mant)

(* The loop that shifts the leading bit to the place of the implicit one, as *)
(* long as the exponent is positive.                                         *)
Normalised(f, sign, exp, mant) ==
  LET last == IF exp > 0 THEN exp ELSE 0
      n    == Min({k \in 0 .. last : k = last \/ (k <= f.frac /\ BitSet(mant, f.frac - k))})
  IN  [sign |-> sign, exp |-> exp - n,
       mant |-> IF n < f.kept THEN (mant * 2 ^ n) % 2 ^ f.kept ELSE 0]

(* A mantissa with one bit too many. *)
CarriedOff(f, x) == x    \* Mutant: the carry of the mantissas is dropped.
Carried(f, x) ==
  IF BitSet(x.mant, f.frac + 1) THEN [x EXCEPT !.mant = @ \div 2, !.exp = @ + 1] ELSE x

Packed(f, x) == Pack(f, x.sign, x.exp, x.mant)

-----------------------------------------------------------------------------
(* Arithmetic.                                                             *)

AlignedBack(m, d) == m    \* Mutant: the smaller mantissa is not shifted.
Aligned(m, d) == m \div 2 ^ d

AddAligned(f, x, y, exp) ==
  IF x.sign = y.sign
    THEN Packed(f, Carried(f, [sign |-> x.sign, exp |-> exp, mant |-> x.mant + y.mant]))
    ELSE CASE x.mant = y.mant -> 0
           [] x.mant > y.mant -> Packed(f, Normalised(f, x.sign, exp, x.mant - y.mant))
           [] x.mant < y.mant -> Packed(f, Normalised(f, y.sign, exp, y.mant - x.mant))

Add(f, a, b) ==
  LET x == Unpack(f, a)
      y == Unpack(f, b)
  IN  CASE x.mant = 0    -> b
        [] x.mant # 0 /\ y.mant = 0 -> a
        [] x.mant # 0 /\ y.mant # 0 /\ x.exp > y.exp ->
             AddAligned(f, x, [y EXCEPT !.mant = Aligned(@, x.exp - y.exp)], x.exp)
        [] OTHER ->
             AddAligned(f, [x EXCEPT !.mant = Aligned(@, y.exp - x.exp)], y, y.exp)

Neg(f, a) == (a + SignBit(f)) % (2 * SignBit(f))

Sub(f, a, b) == Add(f, a, Neg(f, b))

Xor(s, t) == (s + t) % 2

Mul(f, a, b) ==
  LET x    == Unpack(f, a)
      y    == Unpack(f, b)
      sign == Xor(x.sign, y.sign)
      prod == Carried(f, [sign |-> sign, exp |-> x.exp + y.exp - Bias(f),
                          mant |-> (x.mant * y.mant) \div Implicit(f)])
  IN  IF x.mant = 0 \/ y.mant = 0
        THEN Zero(f, sign)
        ELSE Packed(f, Normalised(f, sign, prod.exp, prod.mant))

Div(f, a, b) ==
  LET x    == Unpack(f, a)
      y    == Unpack(f, b)
      sign == Xor(x.sign, y.sign)
      exp  == x.exp - y.exp + Bias(f)
      quot == ((x.mant * Implicit(f)) \div y.mant) % 2 ^ f.kept
  IN  CASE y.mant = 0 -> Infinity(f, sign)
        [] y.mant # 0 /\ x.mant = 0 -> Zero(f, sign)
        [] OTHER -> Packed(f, IF quot = 0 THEN [sign |-> sign, exp |-> exp, mant |-> 0]
                              ELSE Carried(f, Normalised(f, sign, exp, quot)))

-----------------------------------------------------------------------------
(* Comparisons: the result is negative, zero or positive.                  *)

Order(m, n) == IF m < n THEN -1 ELSE IF m > n THEN 1 ELSE 0

(* __eqsf2, __ltsf2 and f64_eq_impl, f64_lt_impl take both zeros as one; *)
(* __eqtf2 and __lttf2 only two zeros without a sign.                    *)
BothZero(f, a, b) ==
  IF f = F128 THEN a = 0 /\ b = 0 ELSE Magnitude(f, a) = 0 /\ Magnitude(f, b) = 0

Eq(f, a, b) == IF BothZero(f, a, b) \/ a = b THEN 0 ELSE 1

LtUnsigned(f, a, b) ==    \* Mutant: the order of two negative numbers is not turned.
  CASE BothZero(f, a, b)          -> 0
    [] Sign(f, a) # Sign(f, b)    -> IF Sign(f, a) = 1 THEN -1 ELSE 1
    [] OTHER                      -> Order(a, b)

Lt(f, a, b) ==
  CASE BothZero(f, a, b)          -> 0
    [] ~BothZero(f, a, b) /\ Sign(f, a) # Sign(f, b) -> IF Sign(f, a) = 1 THEN -1 ELSE 1
    [] ~BothZero(f, a, b) /\ Sign(f, a) = Sign(f, b) ->
         IF Sign(f, a) = 1 THEN Order(b, a) ELSE Order(a, b)

Le(f, a, b) == IF Lt(f, a, b) <= 0 THEN 0 ELSE 1
Gt(f, a, b) == IF Lt(f, a, b) > 0 THEN 1 ELSE 0
Ge(f, a, b) == IF Lt(f, a, b) >= 0 THEN 0 ELSE -1

-----------------------------------------------------------------------------
(* Conversions.                                                            *)

ToInt(n) == ((n + 2 ^ (W - 1)) % 2 ^ W) - 2 ^ (W - 1)
ToUnsigned(n) == n % 2 ^ W
Abs(n) == IF n < 0 THEN -n ELSE n

(* The place of the leading bit of a positive number. *)
Leading(n) == CHOOSE k \in 0 .. n : 2 ^ k <= n /\ n < 2 ^ (k + 1)

(* A whole number: shifted until its leading bit is the implicit one.  A     *)
(* long double takes the low word of a long, so that the loop never ends for *)
(* a long whose low word is zero.                                            *)
FromWhole(f, sign, n) ==
  IF n = 0 THEN 0
  ELSE LET shift == f.frac - Leading(n)
       IN  Pack(f, sign, Bias(f) + Leading(n),
                IF shift >= 0 THEN n * 2 ^ shift ELSE n \div 2 ^ (-shift))

FromInt(f, i) == FromWhole(f, IF i < 0 THEN 1 ELSE 0, Abs(i))
FromUnsigned(f, u) == FromWhole(f, 0, u)

FromLong(f, l) ==
  IF f = F128 THEN FromWhole(f, IF l < 0 THEN 1 ELSE 0, ToUnsigned(Abs(l)))
              ELSE FromInt(f, ToInt(l))
LoopEnds(f, l) == f = F128 /\ l # 0 => ToUnsigned(Abs(l)) # 0

(* The whole part of the magnitude. *)
Whole(f, x) ==
  LET shift == x.exp - Bias(f) - f.frac
  IN  CASE x.exp < Bias(f) -> 0
        [] x.exp >= Bias(f) /\ shift > 0 -> (x.mant * 2 ^ shift) % 2 ^ f.kept
        [] OTHER -> x.mant \div 2 ^ (-shift)

Fix(f, a) ==
  LET x == Unpack(f, a)
      n == ToUnsigned(Whole(f, x))
  IN  ToInt(IF x.sign = 1 THEN -n ELSE n)

FixUnsigned(f, a) ==
  LET x == Unpack(f, a) IN IF x.sign = 1 THEN 0 ELSE ToUnsigned(Whole(f, x))

(* Between formats: the exponent gets the other bias, the fraction is widened *)
(* or cut.                                                                    *)
ConvertSameBias(from, to, a) ==    \* Mutant: the exponent keeps its bias.
  LET x     == Unpack(from, a)
      shift == to.frac - from.frac
  IN  Pack(to, x.sign, x.exp,
           IF shift >= 0 THEN x.mant * 2 ^ shift ELSE x.mant \div 2 ^ (-shift))

Convert(from, to, a) ==
  LET x     == Unpack(from, a)
      shift == to.frac - from.frac
      mant  == IF from = F128 \/ to = F128 THEN x.mant ELSE x.mant % Implicit(from)
  IN  IF x.mant = 0 /\ x.exp = 0
        THEN Zero(to, x.sign)
        ELSE Pack(to, x.sign, x.exp - Bias(from) + Bias(to),
                  IF shift >= 0 THEN mant * 2 ^ shift ELSE mant \div 2 ^ (-shift))

-----------------------------------------------------------------------------
(* The functions of the library, by their names.                           *)

__addsf3(a, b) == Add(F32, a, b)
f64_add_impl(a, b) == Add(F64, a, b)
__addtf3(a, b) == Add(F128, a, b)
__subsf3(a, b) == Sub(F32, a, b)
f64_sub_impl(a, b) == Sub(F64, a, b)
__subtf3(a, b) == Sub(F128, a, b)
__mulsf3(a, b) == Mul(F32, a, b)
f64_mul_impl(a, b) == Mul(F64, a, b)
__multf3(a, b) == Mul(F128, a, b)
__divsf3(a, b) == Div(F32, a, b)
f64_div_impl(a, b) == Div(F64, a, b)
__divtf3(a, b) == Div(F128, a, b)
__floatsisf(i) == FromInt(F32, i)
f64_from_int_impl(i) == FromInt(F64, i)
__floatditf(i) == FromInt(F128, i)
__floatunsisf(u) == FromUnsigned(F32, u)
f64_from_uint_impl(u) == FromUnsigned(F64, u)
__floatunditf(u) == FromUnsigned(F128, u)
__fixsfsi(a) == Fix(F32, a)
f64_to_int_impl(a) == Fix(F64, a)
__fixtfdi(a) == Fix(F128, a)
f64_from_f32_impl(a) == Convert(F32, F64, a)
f64_to_f32_impl(a) == Convert(F64, F32, a)
__extendsftf2(a) == Convert(F32, F128, a)
__trunctfsf2(a) == Convert(F128, F32, a)
__extenddftf2(a) == Convert(F64, F128, a)
__trunctfdf2(a) == Convert(F128, F64, a)

Sum(f, a, b) ==
  CASE f = F32 -> __addsf3(a, b) [] f = F64 -> f64_add_impl(a, b) [] f = F128 -> __addtf3(a, b)
Difference(f, a, b) ==
  CASE f = F32 -> __subsf3(a, b) [] f = F64 -> f64_sub_impl(a, b) [] f = F128 -> __subtf3(a, b)
Product(f, a, b) ==
  CASE f = F32 -> __mulsf3(a, b) [] f = F64 -> f64_mul_impl(a, b) [] f = F128 -> __multf3(a, b)
Quotient(f, a, b) ==
  CASE f = F32 -> __divsf3(a, b) [] f = F64 -> f64_div_impl(a, b) [] f = F128 -> __divtf3(a, b)
OfInt(f, i) ==
  CASE f = F32 -> __floatsisf(i) [] f = F64 -> f64_from_int_impl(i) [] f = F128 -> __floatditf(i)
OfUnsigned(f, u) ==
  CASE f = F32 -> __floatunsisf(u) [] f = F64 -> f64_from_uint_impl(u) [] f = F128 -> __floatunditf(u)
IntOf(f, a) ==
  CASE f = F32 -> __fixsfsi(a) [] f = F64 -> f64_to_int_impl(a) [] f = F128 -> __fixtfdi(a)
Converted(from, to, a) ==
  CASE from = F32 /\ to = F64  -> f64_from_f32_impl(a)
    [] from = F32 /\ to = F128 -> __extendsftf2(a)
    [] from = F64 /\ to = F32  -> f64_to_f32_impl(a)
    [] from = F64 /\ to = F128 -> __extenddftf2(a)
    [] from = F128 /\ to = F32 -> __trunctfsf2(a)
    [] from = F128 /\ to = F64 -> __trunctfdf2(a)

-----------------------------------------------------------------------------
(* parse_dec_f64: the digits before the point, behind it, and the exponent. *)

Ten == f64_from_int_impl(10)

ParseDec(sign, whole, fraction, exp) ==
  LET digits[i \in 0 .. Len(whole)] ==
        IF i = 0 THEN 0
        ELSE f64_add_impl(f64_mul_impl(digits[i - 1], Ten), f64_from_int_impl(whole[i]))
      behind[i \in 0 .. Len(fraction)] ==
        IF i = 0 THEN [val |-> digits[Len(whole)], div |-> f64_from_int_impl(1)]
        ELSE LET div == f64_mul_impl(behind[i - 1].div, Ten)
             IN  [div |-> div,
                  val |-> f64_add_impl(behind[i - 1].val, f64_div_impl(f64_from_int_impl(fraction[i]), div))]
      scaled[i \in 0 .. Abs(exp)] ==
        CASE i = 0 -> behind[Len(fraction)].val
          [] i > 0 /\ exp < 0 -> f64_div_impl(scaled[i - 1], Ten)
          [] i > 0 /\ exp > 0 -> f64_mul_impl(scaled[i - 1], Ten)
  IN  IF sign = 1 THEN Neg(F64, scaled[Abs(exp)]) ELSE scaled[Abs(exp)]
=============================================================================
