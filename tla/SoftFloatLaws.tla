---------------------------- MODULE SoftFloatLaws ----------------------------
(***************************************************************************)
(* What softfloat.c computes, against exact arithmetic.  A state is one    *)
(* call: an operation, its format and its operands.  All numbers that are  *)
(* compared are m * 2^e for natural numbers m.                             *)
(***************************************************************************)
EXTENDS SoftFloat

VARIABLE call

-----------------------------------------------------------------------------
(* m * 2^e <= n * 2^d, for m and n of at most Wide bits. *)
Wide == 15
AtMost(m, e, n, d) ==
  CASE m = 0             -> TRUE
    [] m # 0 /\ n = 0    -> FALSE
    [] m # 0 /\ n # 0 /\ e - d > Wide -> FALSE
    [] m # 0 /\ n # 0 /\ d - e > Wide -> TRUE
    [] m # 0 /\ n # 0 /\ e - d \in 0 .. Wide -> m * 2 ^ (e - d) <= n
    [] OTHER             -> m <= n * 2 ^ (d - e)
Below(m, e, n, d) == ~AtMost(n, d, m, e)

Parts(f, u) == [Unpack(f, u) EXCEPT !.exp = IF @ = 0 THEN 1 ELSE @]
Finite(f, u) == Unpack(f, u).exp < MaxExp(f)
Normal(f, u) == Finite(f, u) /\ Unpack(f, u).mant >= Implicit(f)

(* A number that is not rounded to a subnormal, to zero or to infinity. *)
Representable(f, m, e) ==
  AtMost(Implicit(f), 1, m, e) /\ Below(m, e, 2 * Implicit(f), MaxExp(f) - 1)

(* r is m * 2^e rounded toward zero. *)
Truncates(f, r, m, e) ==
  LET x == Unpack(f, r) IN AtMost(x.mant, x.exp, m, e) /\ Below(m, e, x.mant + 1, x.exp)

(* Operands whose mantissas overlap, or nearly so, and fit the comparison. *)
Near(f, a, b) == Abs(Parts(f, a).exp - Parts(f, b).exp) < Wide - f.frac

(* The mantissas of two numbers in the unit of the smaller exponent. *)
Common(f, a, b) ==
  LET x == Parts(f, a)
      y == Parts(f, b)
      unit == IF x.exp < y.exp THEN x.exp ELSE y.exp
  IN  [m |-> x.mant * 2 ^ (x.exp - unit), n |-> y.mant * 2 ^ (y.exp - unit), unit |-> unit]

Of(op) == call.op = op
NormalOperands == Normal(call.f, call.a) /\ Normal(call.f, call.b)

(* Sums of two numbers of one sign and products of normal numbers are the    *)
(* exact results rounded toward zero; a quotient is less than two units of   *)
(* its last place below the exact one.                                       *)
SumTruncates(f, a, b) ==
  LET z == Common(f, a, b)
  IN  Sign(f, a) = Sign(f, b) /\ Representable(f, z.m + z.n, z.unit)
        => /\ Sign(f, Sum(f, a, b)) = Sign(f, a)
           /\ Truncates(f, Sum(f, a, b), z.m + z.n, z.unit)

ProductTruncates(f, a, b) ==
  LET x == Parts(f, a)
      y == Parts(f, b)
      e == x.exp + y.exp - Bias(f) - f.frac
  IN  Representable(f, x.mant * y.mant, e)
        => /\ Sign(f, Product(f, a, b)) = Xor(x.sign, y.sign)
           /\ Truncates(f, Product(f, a, b), x.mant * y.mant, e)

QuotientClose(f, a, b) ==
  LET x == Parts(f, a)
      y == Parts(f, b)
      z == Unpack(f, Quotient(f, a, b))
      e == z.exp + y.exp - Bias(f) - f.frac
  IN  Normal(f, Quotient(f, a, b))
        => /\ AtMost(z.mant * y.mant, e, x.mant, x.exp)
           /\ Below(x.mant, x.exp, (z.mant + 2) * y.mant, e)

ArithmeticRounds ==
  Of("pair") /\ NormalOperands /\ Near(call.f, call.a, call.b)
    => /\ SumTruncates(call.f, call.a, call.b)
       /\ ProductTruncates(call.f, call.a, call.b)
       /\ QuotientClose(call.f, call.a, call.b)

(* The operands of a subtraction are aligned without further digits: the     *)
(* difference has the right sign and is off by less than one unit of the     *)
(* last place of the larger OPERAND, which may be as much as the difference  *)
(* itself; it is zero for equal operands.                                    *)
DifferenceClose(f, a, b) ==
  LET z     == Common(f, a, b)
      exact == Abs(z.m - z.n)
      r     == Parts(f, Difference(f, a, b))
      unit  == 2 ^ (Parts(f, IF z.m >= z.n THEN a ELSE b).exp - z.unit)
  IN  /\ a = b => Difference(f, a, b) = 0
      /\ exact >= unit /\ Representable(f, exact - unit + 1, z.unit)
           => /\ r.sign = (IF z.m > z.n THEN 0 ELSE 1)
              /\ AtMost(exact - unit + 1, z.unit, r.mant, r.exp)
              /\ AtMost(r.mant, r.exp, exact + unit - 1, z.unit)

DifferencesClose ==
  Of("pair") /\ NormalOperands /\ Near(call.f, call.a, call.b)
    /\ Sign(call.f, call.a) = 0 /\ Sign(call.f, call.b) = 0
    => DifferenceClose(call.f, call.a, call.b)

(* The comparisons order all finite numbers, subnormal ones included, by     *)
(* their values; both zeros are equal, except to __eqtf2 and __lttf2.        *)
ValueOrder(f, a, b) ==
  LET x == Parts(f, a)
      y == Parts(f, b)
      size == IF Below(x.mant, x.exp, y.mant, y.exp) THEN -1
              ELSE IF Below(y.mant, y.exp, x.mant, x.exp) THEN 1 ELSE 0
      turn == [s \in {0, 1} |-> IF s = 1 THEN -1 ELSE 1]
  IN  IF x.sign = y.sign THEN turn[x.sign] * size
      ELSE IF x.mant = 0 /\ y.mant = 0 THEN 0 ELSE turn[x.sign]

Ordered(f, a, b) ==
  LET order == ValueOrder(f, a, b)
  IN  /\ Lt(f, a, b) = order
      /\ Eq(f, a, b) = 0 <=> order = 0
      /\ Le(f, a, b) <= 0 <=> order <= 0
      /\ Gt(f, a, b) > 0 <=> order > 0
      /\ Ge(f, a, b) >= 0 <=> order >= 0

OrdersValues ==
  Of("pair") /\ Finite(call.f, call.a) /\ Finite(call.f, call.b)
    /\ (call.f = F128 => Magnitude(F128, call.a) # 0)
    => Ordered(call.f, call.a, call.b)

(* An int that fits a mantissa survives the way through any format; a        *)
(* floating-point number whose whole part fits an int gives that part.       *)
IntsSurvive ==
  Of("int") => \A f \in Formats :
    Abs(call.a) <= 2 * Implicit(f) =>
      /\ IntOf(f, OfInt(f, call.a)) = ToInt(call.a)
      /\ call.a >= 0 => FixUnsigned(f, OfUnsigned(f, call.a)) = call.a

WholeParts ==
  Of("convert") /\ Normal(call.f, call.a)
    => LET x    == Parts(call.f, call.a)
           unit == Bias(call.f) + call.f.frac
           whole == Abs(IntOf(call.f, call.a))
       IN  Below(x.mant, x.exp, 2 ^ (W - 1), unit)
             => /\ AtMost(whole, unit, x.mant, x.exp)
                /\ Below(x.mant, x.exp, whole + 1, unit)

(* Normal numbers keep their values in a wider format and are rounded toward *)
(* zero in a narrower one, where large ones become infinity.                 *)
FormatsConvert ==
  Of("convert") /\ Normal(call.f, call.a)
    => \A to \in Formats \ {call.f} :
         LET x == Parts(call.f, call.a)
             r == Converted(call.f, to, call.a)
             shift == Bias(to) + to.frac - Bias(call.f) - call.f.frac
         IN  /\ Sign(to, r) = x.sign
             /\ Representable(to, x.mant, x.exp + shift)
                  => Truncates(to, r, x.mant, x.exp + shift)
             /\ to.frac > call.f.frac
                  => /\ AtMost(Parts(to, r).mant, Parts(to, r).exp, x.mant, x.exp + shift)
                     /\ AtMost(x.mant, x.exp + shift, Parts(to, r).mant, Parts(to, r).exp)

(* A decimal number with a point and an exponent that stands for a whole     *)
(* number reads as that number, however it is written.                       *)
DecimalsExact ==
  Of("decimal") => ParseDec(Sign(F64, call.a), call.whole, call.fraction, call.exp) = call.a

ConversionsExact == IntsSurvive /\ WholeParts /\ FormatsConvert /\ DecimalsExact

-----------------------------------------------------------------------------
(* The words of softfloat.c compute what the numbers above say.              *)
ToPair(n) == [lo |-> n % Base, hi |-> (n \div Base) % Base]
ToWords(n) == [i \in 0 .. 3 |-> (n \div 2 ^ (i * W)) % Base]
EightWords(p) == Value(p) + 2 ^ (4 * W) * Value([i \in 0 .. 3 |-> p[i + 4]])

PairsCompute(m, n, k) ==
  LET a == ToPair(m)
      b == ToPair(n)
      all == 2 ^ (2 * W)
  IN  /\ PairValue(F64AddMant(a, b)) = (m + n) % all
      /\ PairValue(F64SubMant(a, b)) = (m - n) % all
      /\ PairValue(F64Shl(a, k)) = (m * 2 ^ k) % all
      /\ PairValue(F64Shr(a, k)) = m \div 2 ^ k
      /\ F64CmpMant(a, b) = Order(m, n)

WordsCompute(m, n, k) ==
  LET a == ToWords(m)
      b == ToWords(n)
      all == 2 ^ (4 * W)
  IN  /\ Value(U128Add(a, b)) = (m + n) % all
      /\ Value(U128Sub(a, b)) = (m - n) % all
      /\ Value(U128Shl(a, k)) = (m * 2 ^ k) % all
      /\ Value(U128Shr(a, k)) = m \div 2 ^ k
      /\ U128Cmp(a, b) = Order(m, n)
      /\ n # 0 /\ 2 * n <= all
           => LET q == U128Div(a, b)
              IN  Value(q.quot) = m \div n /\ Value(q.rem) = m % n
      /\ n # 0 /\ 2 * n <= all /\ k < 4 * W /\ m < 2 ^ (k + 1)
           => Value(F128Div(a, b, k)) = ((m * 2 ^ k) \div n) % all

WordsExact ==
  /\ Of("pairs") => PairsCompute(call.a, call.b, call.exp)
  /\ Of("words") => WordsCompute(call.a, call.b, call.exp)

(* The products need a carry that an unsigned long has to hold. *)
ProductsExact ==
  /\ Of("pairs") => Value(F64Mul(ToPair(call.a), ToPair(call.b))) = call.a * call.b
  /\ Of("words") => EightWords(F128Mul(ToWords(call.a), ToWords(call.b))) = call.a * call.b

MultiWordExact == WordsExact /\ ProductsExact
=============================================================================
