---------------------------- MODULE MCSoftFloat ----------------------------
(***************************************************************************)
(* Formats of 6, 9 and 12 bits, with the words of 4 bits that hold their   *)
(* mantissas in one, two and four.                                         *)
(***************************************************************************)
EXTENDS SoftFloatLaws

Format(exp, frac) == [exp |-> exp, frac |-> frac, kept |-> frac + 4]
MC32 == Format(3, 2)
MC64 == Format(4, 4)
MC128 == Format(5, 6)

Both(f, a, b) == [op |-> "pair", f |-> f, a |-> a, b |-> b]
One(op, f, a) == [op |-> op, f |-> f, a |-> a]
Wordwise(op, a, b, k) == [op |-> op, a |-> a, b |-> b, exp |-> k]
Decimal(a, whole, fraction, exp) ==
  [op |-> "decimal", a |-> a, whole |-> whole, fraction |-> fraction, exp |-> exp]

\* Doubles and long doubles with exponents near each other, far apart, the
\* least and the greatest.
Some(f, exps, fracs) == {Fields(f, s, e, m) : s \in {0, 1}, e \in exps, m \in fracs}
Doubles == Some(F64, {0, 1, 5, 7, 8, 14, 15}, {0, 1, 6, 9, 15})
LongDoubles(exps) == Some(F128, exps, {0, 1, 40, 63})

LongEdges == {0, 1, 15, 16, 255, 256, 257, 4095, 4096, 4111, 9999, 32767}

\* 3, 03.0, 30e-1, -3.00: whole numbers of at most five bits.
Spelt(n) ==
  LET v == FromInt(F64, n)
  IN  {Decimal(v, <<n>>, << >>, 0), Decimal(v, <<0, n>>, <<0>>, 0),
       Decimal(v, <<n, 0>>, << >>, -1), Decimal(Neg(F64, v), <<n>>, <<0, 0>>, 0)}

Init ==
  \/ \E a, b \in Float(F32) : call = Both(F32, a, b)
  \/ \E a, b \in Doubles : call = Both(F64, a, b)
  \/ \E a, b \in LongDoubles({0, 1, 2, 9, 15, 16, 30}) : call = Both(F128, a, b)
  \/ \E i \in -8 .. 7 : call = One("int", F32, i)
  \/ \E f \in {F32, F64} : \E a \in Float(f) : call = One("convert", f, a)
  \/ \E a \in LongDoubles(0 .. 31) : call = One("convert", F128, a)
  \/ \E n \in 0 .. 3 : \E c \in Spelt(n) : call = c
  \/ \E n \in 1 .. 3 : call = Decimal(Mul(F64, FromInt(F64, n), Ten), <<n>>, << >>, 1)
  \/ \E a \in 0 .. 255, b \in {0, 1, 3, 15, 16, 17, 240, 255}, k \in {0, 1, 3, 4, 5, 8} :
       call = Wordwise("pairs", a, b, k)
  \/ \E a \in LongEdges, b \in LongEdges, k \in {0, 1, 4, 7, 15} :
       call = Wordwise("words", a, b, k)

Next == UNCHANGED call
Spec == Init /\ [][Next]_call

\* A long on x86_64 is two words.
=============================================================================
