------------------------- MODULE CallFrames_proofs --------------------------
(***************************************************************************)
(* Proofs about CallFrames, for all functions, calls and bounds: the       *)
(* sizes and places FrameLayout computes, what the steps of a call write   *)
(* and leave alone, and two inductive invariants.  FramesInv says what     *)
(* each call in progress finds on the stack: a call gives its caller the   *)
(* stack and frame pointers back and returns to it, and calls are made on  *)
(* an aligned stack.  ArgumentsInv, which rests on it, says where each     *)
(* word of an argument is from the push to the body: the parameters of a   *)
(* function are the arguments of its call, and va_arg yields the others.   *)
(***************************************************************************)
EXTENDS CallFrames, WellFoundedInduction, TLAPS

-----------------------------------------------------------------------------
(***************************************************************************)
(* Recursive definitions.                                                  *)
(***************************************************************************)
\* Induction on the naturals, for a set.
LEMMA Induction ==
  ASSUME NEW S \in SUBSET Nat, 0 \in S, \A n \in S : n + 1 \in S
  PROVE  S = Nat
<1> SUFFICES ASSUME Nat \ S # {} PROVE FALSE
  OBVIOUS
<1> DEFINE R == OpToRel(<, Nat)
<1>1. IsWellFoundedOn(R, Nat)
  BY NatLessThanWellFounded
<1>2. R = {p \in Nat \X Nat : p[1] < p[2]}
  BY DEF OpToRel
<1> HIDE DEF R
<1>3. PICK x \in Nat \ S : \A y \in Nat \ S : <<y, x>> \notin R
  BY <1>1, WFMin
<1>4. x # 0 /\ x - 1 \in Nat /\ x - 1 + 1 = x
  BY <1>3
<1>5. x - 1 \in S
  <2>1. <<x - 1, x>> \in Nat \X Nat /\ x - 1 < x
    BY <1>4
  <2>2. <<x - 1, x>> \in R
    BY <1>2, <2>1
  <2> QED BY <1>3, <1>4, <2>2
<1> QED BY <1>3, <1>4, <1>5

\* A function that is defined from its value before, up to n.
Follows(f, n, T, x0, step) ==
  /\ f \in [0..n -> T] /\ f[0] = x0
  /\ \A k \in 1..n : f[k] = step[k][f[k - 1]]

\* Such a function exists: without this, nothing follows from a recursive definition.
LEMMA Recursion ==
  ASSUME NEW n \in Nat, NEW T, NEW x0 \in T, NEW step \in [0..n -> [T -> T]]
  PROVE  \E f : Follows(f, n, T, x0, step)
<1> DEFINE S == {i \in Nat : i <= n => \E f : Follows(f, i, T, x0, step)}
<1>1. 0 \in S
  <2> DEFINE g == [k \in 0..0 |-> x0]
  <2>1. g \in [0..0 -> T] /\ g[0] = x0
    OBVIOUS
  <2> HIDE DEF g
  <2>2. Follows(g, 0, T, x0, step)
    BY <2>1 DEF Follows
  <2> QED BY <2>2
<1>2. ASSUME NEW i \in Nat, i \in S PROVE i + 1 \in S
  <2>1. ASSUME i + 1 <= n PROVE \E f : Follows(f, i + 1, T, x0, step)
    <3>1. PICK f : Follows(f, i, T, x0, step)
      BY <1>2, <2>1
    <3>2. f \in [0..i -> T] /\ f[0] = x0 /\ \A k \in 1..i : f[k] = step[k][f[k - 1]]
      BY <3>1 DEF Follows
    <3>3. f[i] \in T /\ i + 1 \in 0..n
      BY <2>1, <3>2
    <3>4. step[i + 1][f[i]] \in T
      BY <3>3
    <3> DEFINE g == [k \in 0..i + 1 |-> IF k = i + 1 THEN step[i + 1][f[i]] ELSE f[k]]
    <3>5. g \in [0..i + 1 -> T] /\ g[0] = x0
      BY <3>2, <3>4
    <3>6. \A k \in 0..i + 1 : g[k] = IF k = i + 1 THEN step[i + 1][f[i]] ELSE f[k]
      OBVIOUS
    <3> HIDE DEF g
    <3>7. ASSUME NEW k \in 1..i + 1 PROVE g[k] = step[k][g[k - 1]]
      <4>1. k \in 0..i + 1 /\ k - 1 \in 0..i + 1 /\ k - 1 # i + 1
        OBVIOUS
      <4>2. g[k - 1] = f[k - 1]
        BY <3>6, <4>1
      <4>3. CASE k = i + 1
        BY <3>6, <4>1, <4>2, <4>3
      <4>4. CASE k # i + 1
        <5>1. k \in 1..i
          BY <4>4
        <5> QED BY <3>2, <3>6, <4>1, <4>2, <4>4, <5>1
      <4> QED BY <4>3, <4>4
    <3>8. Follows(g, i + 1, T, x0, step)
      BY <3>5, <3>7 DEF Follows
    <3> QED BY <3>8
  <2> QED BY <2>1
<1>3. S \in SUBSET Nat
  OBVIOUS
<1> HIDE DEF S
<1>4. \A i \in S : i + 1 \in S
  BY <1>2, <1>3
<1>5. n \in S
  BY <1>1, <1>3, <1>4, Induction
<1> QED BY <1>5 DEF S

\* What it yields is of one type if every step yields that type.
LEMMA Typed ==
  ASSUME NEW n \in Nat, NEW T, NEW g, g[0] \in T,
         \A k \in 1..n : g[k - 1] \in T => g[k] \in T
  PROVE  \A k \in 0..n : g[k] \in T
<1> DEFINE S == {i \in Nat : i <= n => g[i] \in T}
<1>1. S \in SUBSET Nat /\ 0 \in S
  OBVIOUS
<1>2. ASSUME NEW i \in S PROVE i + 1 \in S
  <2>1. i \in Nat /\ (i <= n => g[i] \in T) /\ i + 1 - 1 = i
    OBVIOUS
  <2>2. i + 1 <= n => g[i + 1] \in T
    BY <2>1
  <2> QED BY <2>1, <2>2
<1> HIDE DEF S
<1>3. S = Nat
  BY <1>1, <1>2, Induction
<1> QED BY <1>3 DEF S

-----------------------------------------------------------------------------
(***************************************************************************)
(* The layout of the arguments and of the frame.                           *)
(***************************************************************************)
Targets == {"x86_64", "i386", "rv32"}

\* Rounding up to a unit.
LEMMA MultipleIs ==
  ASSUME NEW x \in Nat, NEW u \in Nat \ {0}
  PROVE  Multiple(x, u) \in Nat /\ x <= Multiple(x, u) /\ Multiple(x, u) % u = 0
<1>1. PICK q \in Nat, r \in 0..u - 1 : q = (x + u - 1) \div u /\ x + u - 1 = u * q + r
  OBVIOUS
<1>2. PICK p \in Nat : p = q * u /\ p = u * q
  OBVIOUS
<1>3. p % u = 0
  BY <1>2
<1> QED BY <1>1, <1>2, <1>3 DEF Multiple

\* An argument has at most four words, and a long double is no special case
\* but on x86_64.
LEMMA WordsAre ==
  ASSUME NEW t \in Targets, NEW k \in Kinds
  PROVE  /\ WordSize(t) \in {4, 8} /\ (WordSize(t) = 8 <=> t = "x86_64")
         /\ WordsIn(t, k) \in 1..4 /\ arg_words(t, k) \in 1..4
         /\ t = "x86_64" /\ k # "ldouble" => WordsIn(t, k) = arg_words(t, k)
         /\ t = "rv32" => arg_words(t, k) = WordsIn(t, k)
         /\ \A n \in Nat : Pad(t, k, n) \in {0, 1} /\ (t # "rv32" => Pad(t, k, n) = 0)
BY DEF Targets, Kinds, WordSize, WordsIn, Multiple, Size, arg_words, is_multiword_arg,
       Aggregate, Pad

\* What LastWord is a function of.
IsLast(last, t, kinds) ==
  last = [i \in 0..Len(kinds) |->
            IF i = 0 THEN 0
            ELSE last[i - 1] + Pad(t, kinds[i], last[i - 1]) + arg_words(t, kinds[i])]

\* The words pushed for the first arguments are counted from left to right.
LEMMA LastIs ==
  ASSUME NEW t \in Targets, NEW kinds \in Seq(Kinds)
  PROVE  /\ IsLast(LastWord(t, kinds), t, kinds)
         /\ LastWord(t, kinds) \in [0..Len(kinds) -> Nat]
<1> DEFINE step == [i \in 0..Len(kinds) |-> [x \in Nat |->
                      IF i = 0 THEN 0 ELSE x + Pad(t, kinds[i], x) + arg_words(t, kinds[i])]]
<1>1. PICK n \in Nat : n = Len(kinds)
  OBVIOUS
<1>2. step \in [0..n -> [Nat -> Nat]]
  <2>1. ASSUME NEW i \in 0..n, NEW x \in Nat, i # 0
        PROVE  x + Pad(t, kinds[i], x) + arg_words(t, kinds[i]) \in Nat
    <3>1. kinds[i] \in Kinds
      BY <1>1, <2>1
    <3>2. arg_words(t, kinds[i]) \in 1..4 /\ Pad(t, kinds[i], x) \in {0, 1}
      BY <3>1, WordsAre
    <3> QED BY <3>2
  <2> QED BY <1>1, <2>1
<1> HIDE DEF step
<1>3. PICK f : Follows(f, n, Nat, 0, step)
  BY <1>2, Recursion
<1>4. f \in [0..n -> Nat] /\ f[0] = 0 /\ \A k \in 1..n : f[k] = step[k][f[k - 1]]
  BY <1>3 DEF Follows
<1>5. ASSUME NEW i \in 0..n
      PROVE  f[i] = IF i = 0 THEN 0
                    ELSE f[i - 1] + Pad(t, kinds[i], f[i - 1]) + arg_words(t, kinds[i])
  <2>1. CASE i = 0
    BY <1>4, <2>1
  <2>2. CASE i # 0
    <3>1. i \in 1..n /\ i - 1 \in 0..n
      BY <2>2
    <3>2. f[i] = step[i][f[i - 1]] /\ f[i - 1] \in Nat
      BY <1>4, <3>1
    <3> QED BY <1>1, <2>2, <3>2 DEF step
  <2> QED BY <2>1, <2>2
<1>6. f = [i \in 0..n |-> f[i]]
  BY <1>4
<1>7. IsLast(f, t, kinds)
  BY <1>1, <1>5, <1>6, Zenon DEF IsLast
<1>8. LastWord(t, kinds) = CHOOSE g : IsLast(g, t, kinds)
  BY Zenon DEF LastWord, IsLast
<1>9. IsLast(LastWord(t, kinds), t, kinds)
  BY <1>7, <1>8, Zenon
<1>10. PICK g : g = LastWord(t, kinds) /\ IsLast(g, t, kinds)
  BY <1>9
<1>11. g \in [0..n -> Nat]
  <2>1. g = [i \in 0..n |-> g[i]]
    BY <1>1, <1>10 DEF IsLast
  <2>2. \A i \in 0..n : i # 0 =>
          g[i] = g[i - 1] + Pad(t, kinds[i], g[i - 1]) + arg_words(t, kinds[i])
    BY <1>1, <1>10 DEF IsLast
  <2>3. g[0] = 0
    BY <1>1, <1>10 DEF IsLast
  <2>4. ASSUME NEW i \in 1..n, g[i - 1] \in Nat PROVE g[i] \in Nat
    <3>1. kinds[i] \in Kinds /\ i \in 0..n /\ i # 0
      BY <1>1
    <3>2. arg_words(t, kinds[i]) \in 1..4 /\ Pad(t, kinds[i], g[i - 1]) \in {0, 1}
      BY <2>4, <3>1, WordsAre
    <3>3. g[i] = g[i - 1] + Pad(t, kinds[i], g[i - 1]) + arg_words(t, kinds[i])
      BY <2>2, <3>1
    <3> QED BY <2>4, <3>2, <3>3
  <2>5. g[0] \in Nat
    BY <2>3
  <2>6. \A i \in 0..n : g[i] \in Nat
    BY <2>4, <2>5, Typed
  <2> QED BY <2>1, <2>6
<1> QED BY <1>1, <1>9, <1>10, <1>11

\* The same, one argument after the other.
LEMMA LastStep ==
  ASSUME NEW t \in Targets, NEW kinds \in Seq(Kinds)
  PROVE  /\ total_words(t, kinds) \in Nat
         /\ LastWord(t, kinds)[0] = 0
         /\ \A i \in 0..Len(kinds) : LastWord(t, kinds)[i] \in Nat
         /\ \A i \in 1..Len(kinds) :
              LastWord(t, kinds)[i] = LastWord(t, kinds)[i - 1]
                + Pad(t, kinds[i], LastWord(t, kinds)[i - 1]) + arg_words(t, kinds[i])
<1>1. PICK g : /\ g = LastWord(t, kinds) /\ IsLast(g, t, kinds)
               /\ g \in [0..Len(kinds) -> Nat]
  BY LastIs
<1>2. Len(kinds) \in Nat
  OBVIOUS
<1>3. \A i \in 0..Len(kinds) : g[i] = IF i = 0 THEN 0
        ELSE g[i - 1] + Pad(t, kinds[i], g[i - 1]) + arg_words(t, kinds[i])
  BY <1>1, Zenon DEF IsLast
<1>4. total_words(t, kinds) = g[Len(kinds)] /\ g[Len(kinds)] \in Nat /\ g[0] = 0
  BY <1>1, <1>2, <1>3 DEF total_words
<1>5. ASSUME NEW i \in 1..Len(kinds)
      PROVE  g[i] = g[i - 1] + Pad(t, kinds[i], g[i - 1]) + arg_words(t, kinds[i])
  <2>1. i \in 0..Len(kinds) /\ i # 0
    BY <1>2
  <2> QED BY <1>3, <2>1
<1> QED BY <1>1, <1>4, <1>5

\* The words of the first arguments are among those of more arguments.
LEMMA LastOrdered ==
  ASSUME NEW t \in Targets, NEW kinds \in Seq(Kinds),
         NEW i \in 0..Len(kinds), NEW k \in 0..Len(kinds), i <= k
  PROVE  LastWord(t, kinds)[i] <= LastWord(t, kinds)[k]
<1>1. PICK n \in Nat : n = Len(kinds)
  OBVIOUS
<1>2. PICK g : g = LastWord(t, kinds)
  OBVIOUS
<1>3. ASSUME NEW j \in 1..n PROVE g[j] \in Nat /\ g[j - 1] \in Nat /\ g[j - 1] <= g[j]
  <2>1. kinds[j] \in Kinds /\ j \in 0..n /\ j - 1 \in 0..n
    BY <1>1
  <2>2. g[j] \in Nat /\ g[j - 1] \in Nat
    BY <1>1, <1>2, <2>1, LastStep
  <2>3. arg_words(t, kinds[j]) \in 1..4 /\ Pad(t, kinds[j], g[j - 1]) \in {0, 1}
    BY <2>1, <2>2, WordsAre
  <2>4. g[j] = g[j - 1] + Pad(t, kinds[j], g[j - 1]) + arg_words(t, kinds[j])
    BY <1>1, <1>2, LastStep
  <2> QED BY <2>2, <2>3, <2>4
<1> DEFINE S == {j \in Nat : i + j <= n => g[i] <= g[i + j]}
<1>4. 0 \in S /\ S \in SUBSET Nat
  <2>1. g[i] \in Nat /\ i + 0 = i
    BY <1>2, LastStep
  <2> QED BY <2>1
<1>5. ASSUME NEW j \in S PROVE j + 1 \in S
  <2> SUFFICES ASSUME i + (j + 1) <= n PROVE g[i] <= g[i + (j + 1)]
    OBVIOUS
  <2>1. j \in Nat /\ g[i] <= g[i + j] /\ i + (j + 1) \in 1..n /\ i + (j + 1) - 1 = i + j
    OBVIOUS
  <2>2. g[i + j] \in Nat /\ g[i + (j + 1)] \in Nat /\ g[i + j] <= g[i + (j + 1)]
    BY <1>3, <2>1
  <2>3. g[i] \in Nat
    BY <1>2, LastStep
  <2> QED BY <2>1, <2>2, <2>3
<1> HIDE DEF S
<1>6. S = Nat
  BY <1>4, <1>5, Induction
<1>7. k - i \in Nat /\ i + (k - i) = k
  BY <1>1
<1>8. PICK j \in Nat : i + j = k
  BY <1>7
<1>9. i + j <= n => g[i] <= g[i + j]
  BY <1>6 DEF S
<1> QED BY <1>1, <1>2, <1>8, <1>9

\* The words of the first arguments are among those of all.
LEMMA LastGrows ==
  ASSUME NEW t \in Targets, NEW kinds \in Seq(Kinds), NEW i \in 0..Len(kinds)
  PROVE  LastWord(t, kinds)[i] <= total_words(t, kinds)
<1>1. Len(kinds) \in 0..Len(kinds) /\ i <= Len(kinds)
  OBVIOUS
<1> QED BY <1>1, LastOrdered DEF total_words

\* The places of the parameters so far.
Placing == [offset : Nat, reg_idx : Nat, places : Seq(Int), above : Nat]

\* A parameter has a place in the frame if its words came in registers, and
\* always on RV32.
Local(t, so_far, k) ==
  t = "rv32" \/ (t = "x86_64" /\ Fits(so_far.reg_idx, arg_words(t, k)))

\* A parameter gets a place below the others, or above the frame.
LEMMA AddParameterIs ==
  ASSUME NEW t \in Targets, NEW s \in Placing, NEW k \in Kinds
  PROVE  LET p == AddParameter(t, s, k)
             bytes == WordSize(t) * arg_words(t, k)
         IN  /\ p \in Placing
             /\ Local(t, s, k) =>
                  /\ p.offset = s.offset + bytes /\ p.reg_idx = s.reg_idx + arg_words(t, k)
                  /\ p.places = Append(s.places, -p.offset) /\ p.above = s.above
             /\ ~Local(t, s, k) =>
                  /\ p.offset = s.offset /\ p.reg_idx = s.reg_idx
                  /\ p.places = Append(s.places, s.above) /\ p.above = s.above + bytes
<1>1. PICK w \in 1..4, z \in {4, 8} :
        /\ w = arg_words(t, k) /\ z = WordSize(t)
        /\ (t = "rv32" => w = WordsIn(t, k) /\ z = 4)
  BY WordsAre DEF WordSize
<1>2. PICK bytes \in Nat : bytes = z * w /\ bytes = w * z /\ (z = 4 => bytes = 4 * w)
  OBVIOUS
<1>3. s = [offset |-> s.offset, reg_idx |-> s.reg_idx, places |-> s.places,
           above |-> s.above]
      /\ s.offset \in Nat /\ s.reg_idx \in Nat /\ s.places \in Seq(Int) /\ s.above \in Nat
  BY DEF Placing
<1>4. PICK below \in Nat : below = s.offset + bytes
  BY <1>2, <1>3
<1>5. CASE Local(t, s, k)
  <2>1. AddParameter(t, s, k)
          = [s EXCEPT !.offset = below, !.places = Append(@, -below), !.reg_idx = @ + w]
    BY <1>1, <1>2, <1>4, <1>5 DEF AddParameter, Local, Targets
  <2>2. AddParameter(t, s, k)
          = [offset |-> below, reg_idx |-> s.reg_idx + w,
             places |-> Append(s.places, -below), above |-> s.above]
    BY <1>3, <2>1
  <2>3. Append(s.places, -below) \in Seq(Int) /\ s.reg_idx + w \in Nat
    BY <1>3
  <2>4. AddParameter(t, s, k) \in Placing
    BY <1>3, <2>2, <2>3 DEF Placing
  <2>5. PICK p \in Placing : p = AddParameter(t, s, k)
    BY <2>4
  <2>6. /\ p.offset = below /\ p.reg_idx = s.reg_idx + w
        /\ p.places = Append(s.places, -below) /\ p.above = s.above
    BY <2>2, <2>5
  <2> QED BY <1>1, <1>2, <1>4, <1>5, <2>5, <2>6
<1>6. CASE ~Local(t, s, k)
  <2>1. AddParameter(t, s, k) = [s EXCEPT !.above = @ + bytes, !.places = Append(@, s.above)]
    BY <1>1, <1>2, <1>4, <1>6 DEF AddParameter, Local, Targets
  <2>2. AddParameter(t, s, k)
          = [offset |-> s.offset, reg_idx |-> s.reg_idx,
             places |-> Append(s.places, s.above), above |-> s.above + bytes]
    BY <1>3, <2>1
  <2>3. Append(s.places, s.above) \in Seq(Int) /\ s.above + bytes \in Nat
    BY <1>2, <1>3
  <2> QED BY <1>1, <1>2, <1>3, <1>6, <2>2, <2>3 DEF Placing
<1> QED BY <1>5, <1>6

FirstPlacing(t, f) ==
  [offset |-> FirstOffset(t, f), reg_idx |-> 0, places |-> << >>,
   above |-> IF t = "i386" THEN 8 ELSE 16]

IsPlacing(after, t, f) ==
  after = [i \in 0..Len(f.params) |-> IF i = 0 THEN FirstPlacing(t, f)
                                      ELSE AddParameter(t, after[i - 1], f.params[i])]

\* What Parameters computes on its way.
Places(after, t, f) ==
  /\ after \in [0..Len(f.params) -> Placing]
  /\ after[0] = FirstPlacing(t, f)
  /\ \A i \in 1..Len(f.params) : after[i] = AddParameter(t, after[i - 1], f.params[i])
  /\ Parameters(t, f) = after[Len(f.params)]

\* The places are given from left to right.
LEMMA ParametersAre ==
  ASSUME NEW t \in Targets, NEW f \in Functions
  PROVE  \E after : Places(after, t, f)
<1> DEFINE first == FirstPlacing(t, f)
           step == [i \in 0..Len(f.params) |-> [x \in Placing |->
                      IF i = 0 THEN x ELSE AddParameter(t, x, f.params[i])]]
<1>1. PICK n \in Nat : n = Len(f.params)
  BY DEF Functions
<1>2. \A i \in 1..n : f.params[i] \in Kinds
  BY <1>1 DEF Functions
<1>3. first \in Placing
  BY DEF FirstPlacing, Placing, FirstOffset, Targets
<1>4. step \in [0..n -> [Placing -> Placing]]
  <2>1. ASSUME NEW i \in 0..n, NEW x \in Placing, i # 0
        PROVE  AddParameter(t, x, f.params[i]) \in Placing
    <3>1. f.params[i] \in Kinds
      BY <1>2, <2>1
    <3> QED BY <3>1, AddParameterIs
  <2> QED BY <1>1, <2>1
<1> HIDE DEF step, first
<1>5. PICK g : Follows(g, n, Placing, first, step)
  BY <1>3, <1>4, Recursion, Zenon
<1>6. g \in [0..n -> Placing] /\ g[0] = first /\ \A k \in 1..n : g[k] = step[k][g[k - 1]]
  BY <1>5 DEF Follows
<1>7. ASSUME NEW i \in 0..n
      PROVE  g[i] = IF i = 0 THEN FirstPlacing(t, f)
                    ELSE AddParameter(t, g[i - 1], f.params[i])
  <2>1. CASE i = 0
    BY <1>6, <2>1 DEF first
  <2>2. CASE i # 0
    <3>1. i \in 1..n /\ i - 1 \in 0..n
      BY <2>2
    <3>2. g[i] = step[i][g[i - 1]] /\ g[i - 1] \in Placing
      BY <1>6, <3>1
    <3> QED BY <1>1, <2>2, <3>2 DEF step
  <2> QED BY <2>1, <2>2
<1>8. g = [i \in 0..n |-> g[i]]
  BY <1>6
<1>9. IsPlacing(g, t, f)
  BY <1>1, <1>7, <1>8, Zenon DEF IsPlacing
<1>10. PICK after : after = CHOOSE h : IsPlacing(h, t, f)
  OBVIOUS
<1>11. IsPlacing(after, t, f)
  BY <1>9, <1>10, Zenon
<1>12. Parameters(t, f) = after[n]
  BY <1>1, <1>10, Zenon DEF Parameters, IsPlacing, FirstPlacing
<1>13. /\ after = [i \in 0..n |-> after[i]]
       /\ after[0] = FirstPlacing(t, f)
       /\ \A i \in 1..n : after[i] = AddParameter(t, after[i - 1], f.params[i])
  BY <1>1, <1>11 DEF IsPlacing
<1>14. \A i \in 0..n : after[i] \in Placing
  <2>1. ASSUME NEW i \in 1..n, after[i - 1] \in Placing PROVE after[i] \in Placing
    <3>1. f.params[i] \in Kinds
      BY <1>2
    <3>2. AddParameter(t, after[i - 1], f.params[i]) \in Placing
      BY <2>1, <3>1, AddParameterIs
    <3> QED BY <1>13, <3>2
  <2>2. after[0] \in Placing
    BY <1>3, <1>13 DEF first
  <2> QED BY <2>1, <2>2, Typed
<1> QED BY <1>1, <1>12, <1>13, <1>14 DEF Places

\* Where the j-th parameter is.
PlaceOf(after, t, f, j) ==
  IF Local(t, after[j - 1], f.params[j]) THEN -after[j].offset ELSE after[j - 1].above

\* The places that were given stay, and each is below those before.
LEMMA PlacesStay ==
  ASSUME NEW t \in Targets, NEW f \in Functions, NEW after, Places(after, t, f)
  PROVE  /\ \A i \in 0..Len(f.params) :
              /\ after[i].offset \in Nat /\ FirstOffset(t, f) <= after[i].offset
              /\ after[i].offset <= Parameters(t, f).offset
         /\ \A j \in 1..Len(f.params) :
              Parameters(t, f).places[j] = PlaceOf(after, t, f, j)
<1>1. PICK n \in Nat : n = Len(f.params)
  BY DEF Functions
<1>2. /\ after \in [0..n -> Placing] /\ after[0] = FirstPlacing(t, f)
      /\ \A i \in 1..n : after[i] = AddParameter(t, after[i - 1], f.params[i])
      /\ Parameters(t, f) = after[n]
  BY <1>1 DEF Places
<1>3. \A i \in 1..n : f.params[i] \in Kinds
  BY <1>1 DEF Functions
<1>4. \A i \in 0..n : /\ after[i].offset \in Nat /\ after[i].places \in Seq(Int)
                      /\ after[i].above \in Nat
  BY <1>2 DEF Placing
<1> DEFINE Stay(i) ==
             /\ \A j \in 0..i : after[j].offset <= after[i].offset
             /\ Len(after[i].places) = i
             /\ \A j \in 1..i : after[i].places[j] = PlaceOf(after, t, f, j)
           S == {i \in Nat : i <= n => Stay(i)}
<1>5. 0 \in S
  <2>1. after[0].places = << >>
    BY <1>2 DEF FirstPlacing
  <2> QED BY <1>4, <2>1
<1>6. ASSUME NEW i \in 1..n, Stay(i - 1) PROVE Stay(i)
  <2>1. i - 1 \in 0..n /\ i \in 0..n
    OBVIOUS
  <2>2. after[i - 1] \in Placing /\ f.params[i] \in Kinds
    BY <1>2, <1>3, <2>1
  <2>3. after[i] = AddParameter(t, after[i - 1], f.params[i])
    BY <1>2
  <2>4. PICK bytes \in Nat : bytes = WordSize(t) * arg_words(t, f.params[i])
    BY <2>2, WordsAre
  <2>5. /\ after[i].places = Append(after[i - 1].places, PlaceOf(after, t, f, i))
        /\ after[i - 1].offset <= after[i].offset
    <3>1. PICK s \in Placing, k \in Kinds : s = after[i - 1] /\ k = f.params[i]
      BY <2>2
    <3>0. AddParameter(t, s, k) = after[i] /\ WordSize(t) * arg_words(t, k) = bytes
      BY <2>3, <2>4, <3>1
    <3> HIDE DEF Stay, S
    <3>2. /\ Local(t, s, k) => /\ after[i].offset = s.offset + bytes
                              /\ after[i].places = Append(s.places, -after[i].offset)
          /\ ~Local(t, s, k) => /\ after[i].offset = s.offset
                               /\ after[i].places = Append(s.places, s.above)
      BY <3>0, AddParameterIs
    <3>3. s.offset \in Nat
      BY <1>4, <2>1, <3>1
    <3>4. PlaceOf(after, t, f, i) = IF Local(t, s, k) THEN -after[i].offset ELSE s.above
      BY <3>1 DEF PlaceOf
    <3> QED BY <3>1, <3>2, <3>3, <3>4
  <2>6. PlaceOf(after, t, f, i) \in Int
    BY <1>4, <2>1 DEF PlaceOf
  <2>7. /\ Len(after[i - 1].places) = i - 1
        /\ \A j \in 1..i - 1 : after[i - 1].places[j] = PlaceOf(after, t, f, j)
        /\ \A j \in 0..i - 1 : after[j].offset <= after[i - 1].offset
    BY <1>6
  <2> HIDE DEF Stay
  <2>8. Len(after[i].places) = i
    BY <1>4, <2>1, <2>5, <2>6, <2>7
  <2>9. \A j \in 1..i : after[i].places[j] = PlaceOf(after, t, f, j)
    BY <1>4, <2>1, <2>5, <2>6, <2>7
  <2>10. ASSUME NEW j \in 0..i PROVE after[j].offset <= after[i].offset
    <3>1. CASE j = i
      BY <1>4, <2>1, <3>1
    <3>2. CASE j # i
      <4>1. j \in 0..i - 1 /\ j \in 0..n
        BY <3>2
      <4>2. after[j].offset \in Nat /\ after[i].offset \in Nat /\ after[i - 1].offset \in Nat
        BY <1>4, <2>1, <4>1
      <4>3. after[i - 1].offset <= after[i].offset
        BY <2>5
      <4>4. after[j].offset <= after[i - 1].offset
        BY <2>7, <4>1
      <4> QED BY <4>2, <4>3, <4>4
    <3> QED BY <3>1, <3>2
  <2> QED BY <2>8, <2>9, <2>10 DEF Stay
<1>7. \A j \in S : j + 1 \in S
  <2>1. ASSUME NEW i \in S PROVE i + 1 \in S
    <3> HIDE DEF Stay
    <3>1. i \in Nat /\ (i <= n => Stay(i)) /\ i + 1 - 1 = i
      OBVIOUS
    <3>2. i + 1 <= n => Stay(i + 1)
      BY <1>6, <3>1
    <3> QED BY <3>1, <3>2
  <2> QED BY <2>1
<1>8. n \in S
  <2>1. S \in SUBSET Nat
    OBVIOUS
  <2> HIDE DEF S
  <2> QED BY <1>5, <1>7, <2>1, Induction
<1>9. Stay(n)
  BY <1>8
<1>10. ASSUME NEW i \in 0..n PROVE FirstOffset(t, f) <= after[i].offset
  <2>1. FirstOffset(t, f) = after[0].offset
    BY <1>2 DEF FirstPlacing
  <2>2. 0 \in S /\ \A j \in S : j + 1 \in S
    BY <1>5, <1>7
  <2>3. S \in SUBSET Nat
    OBVIOUS
  <2> HIDE DEF S
  <2>4. i \in S
    BY <2>2, <2>3, Induction
  <2> USE DEF S
  <2>5. Stay(i)
    BY <2>4
  <2> QED BY <2>1, <2>5
<1> QED BY <1>1, <1>2, <1>4, <1>9, <1>10

-----------------------------------------------------------------------------
(***************************************************************************)
(* The prologue.                                                           *)
(***************************************************************************)
\* What a move may be: a register has a number from 0 to 7.
PrologueMoves == {v \in [from : {"reg", "above"}, n : Int, to : Int] :
                    v.from = "reg" => v.n \in 0..7}

Spilling == [reg_idx : 0..8, above : Nat, moves : Seq(PrologueMoves)]

\* A move writes to a place in the frame.
LEMMA MoveTyped ==
  ASSUME NEW moves \in Seq(PrologueMoves), NEW i \in 1..Len(moves)
  PROVE  moves[i].to \in Int
<1>1. moves[i] \in PrologueMoves
  OBVIOUS
<1> QED BY <1>1 DEF PrologueMoves

\* The moves of one parameter go to its words.
ToWords(moves, t, k, place) ==
  \A i \in 1..Len(moves) :
    /\ place <= moves[i].to
    /\ moves[i].to <= place + WordSize(t) * (arg_words(t, k) - 1)

\* The moves of one parameter on x86_64 go to its own words.
LEMMA SpillX86Is ==
  ASSUME NEW s \in Spilling, NEW k \in Kinds, NEW place \in Int
  PROVE  LET p == Spill("x86_64", s, k, place)
         IN  /\ p \in Spilling
             /\ ~Fits(s.reg_idx, WordsIn("x86_64", k)) => p = s
             /\ Fits(s.reg_idx, WordsIn("x86_64", k)) =>
                  /\ p.reg_idx = s.reg_idx + arg_words("x86_64", k)
                  /\ \E new \in Seq(PrologueMoves) : /\ p.moves = s.moves \o new
                                             /\ ToWords(new, "x86_64", k, place)
<1>1. PICK w \in 1..4 : w = WordsIn("x86_64", k)
  BY WordsAre DEF Targets
<1>2. PICK v \in 1..4 : v = arg_words("x86_64", k) /\ v <= w /\ v = IF Aggregate(k) THEN w ELSE 1
  BY <1>1, WordsAre DEF Targets, arg_words
<1>3. s = [reg_idx |-> s.reg_idx, above |-> s.above, moves |-> s.moves]
      /\ s.reg_idx \in 0..8 /\ s.above \in Nat /\ s.moves \in Seq(PrologueMoves)
  BY DEF Spilling
<1>4. CASE ~Fits(s.reg_idx, w)
  <2>1. Spill("x86_64", s, k, place) = s
    BY <1>1, <1>4 DEF Spill, SpillX86
  <2> QED BY <1>1, <1>4, <2>1
<1>5. CASE Fits(s.reg_idx, w)
  <2> DEFINE new == [i \in 1..v |-> Move("reg", s.reg_idx + i - 1, place + 8 * (i - 1))]
  <2>1. ASSUME NEW i \in 1..v
        PROVE  Move("reg", s.reg_idx + i - 1, place + 8 * (i - 1)) \in PrologueMoves
    <3>1. s.reg_idx + i - 1 \in 0..7
      BY <1>2, <1>3, <1>5 DEF Fits
    <3>2. place + 8 * (i - 1) \in Int
      OBVIOUS
    <3> QED BY <3>1, <3>2 DEF Move, PrologueMoves
  <2>2. new \in Seq(PrologueMoves) /\ Len(new) = v
    BY <2>1
  <2>3. ToWords(new, "x86_64", k, place)
    <3>1. \A i \in 1..v : new[i].to = place + 8 * (i - 1)
      BY DEF Move
    <3> HIDE DEF new
    <3> QED BY <1>2, <2>2, <3>1 DEF ToWords, WordSize
  <2>4. Spill("x86_64", s, k, place)
          = [s EXCEPT !.reg_idx = @ + v, !.moves = @ \o new]
    BY <1>1, <1>2, <1>5 DEF Spill, SpillX86
  <2> HIDE DEF new
  <2>5. Spill("x86_64", s, k, place)
          = [reg_idx |-> s.reg_idx + v, above |-> s.above, moves |-> s.moves \o new]
    BY <1>3, <2>4
  <2>6. s.moves \o new \in Seq(PrologueMoves) /\ s.reg_idx + v \in 0..8
    BY <1>2, <1>3, <1>5, <2>2 DEF Fits
  <2>7. PICK p : p = Spill("x86_64", s, k, place)
    OBVIOUS
  <2>8. PICK x \in 0..8, ms \in Seq(PrologueMoves) : x = s.reg_idx + v /\ ms = s.moves \o new
    BY <2>6
  <2>9. p = [reg_idx |-> x, above |-> s.above, moves |-> ms]
    BY <2>5, <2>7, <2>8
  <2>10. p \in Spilling /\ p.reg_idx = x /\ p.moves = ms
    BY <1>3, <2>9 DEF Spilling
  <2> QED BY <1>1, <1>2, <1>5, <2>2, <2>3, <2>7, <2>8, <2>10
<1> QED BY <1>4, <1>5

\* The moves of one parameter on RV32 go to its own words.
LEMMA SpillRv32Is ==
  ASSUME NEW s \in Spilling, NEW k \in Kinds, NEW place \in Int
  PROVE  LET p == Spill("rv32", s, k, place)
         IN  /\ p \in Spilling
             /\ \E new \in Seq(PrologueMoves) : /\ p.moves = s.moves \o new
                                        /\ ToWords(new, "rv32", k, place)
<1> DEFINE odd == /\ needs_8byte_align(k)
                  /\ IF s.reg_idx < 8 THEN s.reg_idx % 2 # 0 ELSE s.above % 8 # 0
           reg0 == IF odd /\ s.reg_idx < 8 THEN s.reg_idx + 1 ELSE s.reg_idx
           up0 == IF odd /\ s.reg_idx >= 8 THEN s.above + 4 ELSE s.above
<1>1. PICK w \in 1..4 : w = WordsIn("rv32", k) /\ w = arg_words("rv32", k)
  BY WordsAre DEF Targets
<1>2. /\ s.reg_idx \in 0..8 /\ s.above \in Nat /\ s.moves \in Seq(PrologueMoves)
  BY DEF Spilling
<1>3. PICK reg \in 0..8, up \in Nat : reg = reg0 /\ up = up0
  <2>1. reg0 \in 0..8 /\ up0 \in Nat
    BY <1>2, SMTT(20)
  <2> HIDE DEF reg0, up0
  <2> QED BY <2>1
<1>4. PICK in \in 0..4 : in = IF reg + w <= 8 THEN w ELSE 8 - reg
  OBVIOUS
<1>5. in <= w /\ reg + in <= 8
  BY <1>4
<1> DEFINE Word1(i) == IF i <= in THEN Move("reg", reg + i - 1, place + 4 * (i - 1))
                       ELSE Move("above", up + 4 * (i - in - 1), place + 4 * (i - 1))
           new == [i \in 1..w |-> Word1(i)]
<1>6. Spill("rv32", s, k, place)
        = [reg_idx |-> reg + in, above |-> up + 4 * (w - in), moves |-> s.moves \o new]
  BY <1>1, <1>3, <1>4 DEF Spill, SpillRv32
<1>7. \A i \in 1..w : Word1(i) \in PrologueMoves
  BY <1>5 DEF Move, PrologueMoves
<1>8. new \in Seq(PrologueMoves) /\ Len(new) = w
  BY <1>7
<1>9. ToWords(new, "rv32", k, place)
  <2>1. \A i \in 1..w : new[i].to = place + 4 * (i - 1)
    BY DEF Move
  <2> HIDE DEF new
  <2> QED BY <1>1, <1>8, <2>1 DEF ToWords, WordSize
<1> HIDE DEF new, Word1
<1>10. s.moves \o new \in Seq(PrologueMoves)
  BY <1>2, <1>8
<1>11. PICK p : p = Spill("rv32", s, k, place)
  OBVIOUS
<1>12. reg + in \in 0..8 /\ up + 4 * (w - in) \in Nat
  BY <1>5
<1>13. PICK x \in 0..8, y \in Nat, ms \in Seq(PrologueMoves) :
         x = reg + in /\ y = up + 4 * (w - in) /\ ms = s.moves \o new
  BY <1>10, <1>12
<1>14. p = [reg_idx |-> x, above |-> y, moves |-> ms]
  BY <1>6, <1>11, <1>13
<1>15. p \in Spilling /\ p.moves = ms
  BY <1>14 DEF Spilling
<1> QED BY <1>8, <1>9, <1>11, <1>13, <1>15

\* i386 moves nothing.
LEMMA SpillTyped ==
  ASSUME NEW t \in Targets, NEW s \in Spilling, NEW k \in Kinds, NEW place \in Int
  PROVE  Spill(t, s, k, place) \in Spilling /\ (t = "i386" => Spill(t, s, k, place) = s)
<1>1. CASE t = "i386"
  BY <1>1 DEF Spill
<1>2. CASE t = "x86_64"
  BY <1>2, SpillX86Is
<1>3. CASE t = "rv32"
  BY <1>3, SpillRv32Is
<1> QED BY <1>1, <1>2, <1>3 DEF Targets

\* A place is a distance from the frame pointer.
LEMMA PlaceTyped ==
  ASSUME NEW t \in Targets, NEW f \in Functions, NEW j \in 1..Len(f.params)
  PROVE  Parameters(t, f).places[j] \in Int
<1>1. PICK after : Places(after, t, f)
  BY ParametersAre
<1>2. j \in 0..Len(f.params) /\ j - 1 \in 0..Len(f.params)
  OBVIOUS
<1>3. after[j] \in Placing /\ after[j - 1] \in Placing
  BY <1>1, <1>2 DEF Places
<1>4. Parameters(t, f).places[j] = PlaceOf(after, t, f, j)
  BY <1>1, PlacesStay
<1> QED BY <1>3, <1>4 DEF PlaceOf, Placing

NothingSpilled == [reg_idx |-> 0, above |-> 0, moves |-> << >>]

IsSpilling(after, t, f) ==
  after = [i \in 0..Len(f.params) |->
             IF i = 0 THEN [reg_idx |-> 0, above |-> 0, moves |-> << >>]
             ELSE Spill(t, after[i - 1], f.params[i], Parameters(t, f).places[i])]

\* What Moves computes on its way.
Spills(after, t, f) ==
  /\ after \in [0..Len(f.params) -> Spilling]
  /\ after[0] = NothingSpilled
  /\ \A i \in 1..Len(f.params) :
       after[i] = Spill(t, after[i - 1], f.params[i], Parameters(t, f).places[i])
  /\ Moves(t, f) = after[Len(f.params)].moves \o SaveVariadics(t, f)

\* The parameters are moved from left to right.
LEMMA MovesAre ==
  ASSUME NEW t \in Targets, NEW f \in Functions
  PROVE  \E after : Spills(after, t, f)
<1> DEFINE step == [i \in 0..Len(f.params) |-> [x \in Spilling |->
                      IF i = 0 THEN x
                      ELSE Spill(t, x, f.params[i], Parameters(t, f).places[i])]]
<1>1. PICK n \in Nat : n = Len(f.params)
  BY DEF Functions
<1>2. \A i \in 1..n : f.params[i] \in Kinds
  BY <1>1 DEF Functions
<1>3. PICK first \in Spilling : first = NothingSpilled
  <2>1. << >> \in Seq(PrologueMoves) /\ 0 \in 0..8 /\ 0 \in Nat
    OBVIOUS
  <2> HIDE DEF step
  <2>2. NothingSpilled \in Spilling
    BY <2>1 DEF NothingSpilled, Spilling
  <2> QED BY <2>2
<1>4. ASSUME NEW i \in 1..n, NEW x \in Spilling
      PROVE  Spill(t, x, f.params[i], Parameters(t, f).places[i]) \in Spilling
  <2>1. f.params[i] \in Kinds /\ Parameters(t, f).places[i] \in Int
    BY <1>1, <1>2, PlaceTyped
  <2> QED BY <2>1, SpillTyped
<1>5. step \in [0..n -> [Spilling -> Spilling]]
  <2>1. ASSUME NEW i \in 0..n, NEW x \in Spilling, i # 0
        PROVE  Spill(t, x, f.params[i], Parameters(t, f).places[i]) \in Spilling
    <3>1. i \in 1..n
      BY <2>1
    <3> QED BY <1>4, <3>1
  <2> QED BY <1>1, <2>1
<1> HIDE DEF step
<1>6. PICK g : Follows(g, n, Spilling, first, step)
  BY <1>5, Recursion, Zenon
<1>7. g \in [0..n -> Spilling] /\ g[0] = first /\ \A k \in 1..n : g[k] = step[k][g[k - 1]]
  BY <1>6 DEF Follows
<1>8. ASSUME NEW i \in 0..n
      PROVE  g[i] = IF i = 0 THEN [reg_idx |-> 0, above |-> 0, moves |-> << >>]
                    ELSE Spill(t, g[i - 1], f.params[i], Parameters(t, f).places[i])
  <2>1. CASE i = 0
    BY <1>3, <1>7, <2>1 DEF NothingSpilled
  <2>2. CASE i # 0
    <3>1. i \in 1..n /\ i - 1 \in 0..n
      BY <2>2
    <3>2. g[i] = step[i][g[i - 1]] /\ g[i - 1] \in Spilling
      BY <1>7, <3>1
    <3> QED BY <1>1, <2>2, <3>2 DEF step
  <2> QED BY <2>1, <2>2
<1>9. g = [i \in 0..n |-> g[i]]
  BY <1>7
<1>10. IsSpilling(g, t, f)
  BY <1>1, <1>8, <1>9, Zenon DEF IsSpilling
<1>11. PICK after : after = CHOOSE h : IsSpilling(h, t, f)
  OBVIOUS
<1>12. IsSpilling(after, t, f)
  BY <1>10, <1>11, Zenon
<1>13. Moves(t, f) = after[n].moves \o SaveVariadics(t, f)
  BY <1>1, <1>11, Zenon DEF Moves, IsSpilling
<1>14. /\ after = [i \in 0..n |-> after[i]]
       /\ after[0] = NothingSpilled
       /\ \A i \in 1..n :
            after[i] = Spill(t, after[i - 1], f.params[i], Parameters(t, f).places[i])
  BY <1>1, <1>12 DEF IsSpilling, NothingSpilled
<1>15. \A i \in 0..n : after[i] \in Spilling
  <2>1. ASSUME NEW i \in 1..n, after[i - 1] \in Spilling PROVE after[i] \in Spilling
    BY <1>4, <1>14, <2>1
  <2>2. after[0] \in Spilling
    BY <1>3, <1>14
  <2> QED BY <2>1, <2>2, Typed
<1> QED BY <1>1, <1>13, <1>14, <1>15 DEF Spills

\* No long double among the parameters on x86_64.
NoLongDouble(t, f) ==
  t = "x86_64" => \A i \in 1..Len(f.params) : f.params[i] # "ldouble"

\* The prologue counts the registers as the parser does.
LEMMA RegistersAgree ==
  ASSUME NEW f \in Functions, NoLongDouble("x86_64", f),
         NEW p, Places(p, "x86_64", f), NEW s, Spills(s, "x86_64", f)
  PROVE  \A i \in 0..Len(f.params) : s[i].reg_idx = p[i].reg_idx
<1>1. PICK n \in Nat : n = Len(f.params)
  BY DEF Functions
<1>2. \A i \in 1..n : f.params[i] \in Kinds
  BY <1>1 DEF Functions
<1> DEFINE T == {i \in Nat : i <= n => s[i].reg_idx = p[i].reg_idx}
<1>3. 0 \in T
  BY DEF Places, Spills, FirstPlacing, NothingSpilled
<1>4. ASSUME NEW i \in T PROVE i + 1 \in T
  <2> SUFFICES ASSUME i + 1 <= n PROVE s[i + 1].reg_idx = p[i + 1].reg_idx
    OBVIOUS
  <2>1. /\ i \in 0..n /\ i + 1 \in 1..n /\ i + 1 - 1 = i /\ s[i].reg_idx = p[i].reg_idx
    OBVIOUS
  <2>2. PICK k \in Kinds, place \in Int, pi \in Placing, si \in Spilling :
          /\ k = f.params[i + 1] /\ place = Parameters("x86_64", f).places[i + 1]
          /\ pi = p[i] /\ si = s[i]
    BY <1>1, <1>2, <2>1, PlaceTyped DEF Places, Spills, Targets
  <2>3. k # "ldouble" /\ "x86_64" \in Targets
    BY <1>1, <2>1, <2>2 DEF NoLongDouble, Targets
  <2>4. s[i + 1] = Spill("x86_64", si, k, place) /\ p[i + 1] = AddParameter("x86_64", pi, k)
    BY <1>1, <2>1, <2>2 DEF Places, Spills
  <2>5. WordsIn("x86_64", k) = arg_words("x86_64", k)
    BY <2>3, WordsAre
  <2>6. CASE Fits(si.reg_idx, arg_words("x86_64", k))
    <3>1. Local("x86_64", pi, k)
      BY <2>1, <2>2, <2>6 DEF Local
    <3>2. p[i + 1].reg_idx = pi.reg_idx + arg_words("x86_64", k)
      BY <2>3, <2>4, <3>1, AddParameterIs
    <3>3. s[i + 1].reg_idx = si.reg_idx + arg_words("x86_64", k)
      BY <2>4, <2>5, <2>6, SpillX86Is
    <3> QED BY <2>1, <2>2, <3>2, <3>3
  <2>7. CASE ~Fits(si.reg_idx, arg_words("x86_64", k))
    <3>1. ~Local("x86_64", pi, k)
      BY <2>1, <2>2, <2>7 DEF Local
    <3>2. p[i + 1].reg_idx = pi.reg_idx
      BY <2>3, <2>4, <3>1, AddParameterIs
    <3>3. s[i + 1].reg_idx = si.reg_idx
      BY <2>4, <2>5, <2>7, SpillX86Is
    <3> QED BY <2>1, <2>2, <3>2, <3>3
  <2> QED BY <2>6, <2>7
<1>5. T \in SUBSET Nat
  OBVIOUS
<1> HIDE DEF T
<1>6. T = Nat
  BY <1>3, <1>4, <1>5, Induction
<1> QED BY <1>1, <1>6 DEF T

\* The place of every move is in the frame: above its local variables and
\* below the saved frame pointer.
Within(v, t, f) == -FirstLocal(t, f) <= v.to /\ v.to <= -WordSize(t)

AllWithin(moves, t, f) == \A j \in 1..Len(moves) : Within(moves[j], t, f)

\* Moves that are not there are within the frame.
LEMMA NoMoves ==
  ASSUME NEW old \in Seq(PrologueMoves), NEW t, NEW f
  PROVE  \E new \in Seq(PrologueMoves) : old = old \o new /\ AllWithin(new, t, f)
<1>1. << >> \in Seq(PrologueMoves) /\ old = old \o << >>
  OBVIOUS
<1>2. AllWithin(<< >>, t, f)
  BY DEF AllWithin
<1> QED BY <1>1, <1>2

\* Two lists of moves within the frame are one.
LEMMA MovesJoin ==
  ASSUME NEW old \in Seq(PrologueMoves), NEW new \in Seq(PrologueMoves), NEW t, NEW f,
         AllWithin(old, t, f), AllWithin(new, t, f)
  PROVE  old \o new \in Seq(PrologueMoves) /\ AllWithin(old \o new, t, f)
<1>1. ASSUME NEW j \in 1..Len(old \o new) PROVE Within((old \o new)[j], t, f)
  <2>1. CASE j <= Len(old)
    <3>1. j \in 1..Len(old) /\ (old \o new)[j] = old[j]
      BY <2>1
    <3> QED BY <3>1 DEF AllWithin
  <2>2. CASE j > Len(old)
    <3>1. j - Len(old) \in 1..Len(new) /\ (old \o new)[j] = new[j - Len(old)]
      BY <2>2
    <3> QED BY <3>1 DEF AllWithin
  <2> QED BY <2>1, <2>2
<1> QED BY <1>1 DEF AllWithin

\* The moves of one parameter stay in its place.
LEMMA ParameterWithin ==
  ASSUME NEW t \in {"x86_64", "rv32"}, NEW f \in Functions, NoLongDouble(t, f),
         NEW p, Places(p, t, f), NEW s, Spills(s, t, f), NEW i \in 1..Len(f.params)
  PROVE  \E new \in Seq(PrologueMoves) :
           /\ s[i].moves = s[i - 1].moves \o new
           /\ AllWithin(new, t, f)
<1>1. /\ t \in Targets /\ i \in 0..Len(f.params) /\ i - 1 \in 0..Len(f.params)
      /\ f.params[i] \in Kinds
  BY DEF Targets, Functions
<1>2. PICK k \in Kinds, place \in Int, pi \in Placing, si \in Spilling :
        /\ k = f.params[i] /\ place = Parameters(t, f).places[i]
        /\ pi = p[i - 1] /\ si = s[i - 1]
  BY <1>1, PlaceTyped DEF Places, Spills
<1>3. s[i] = Spill(t, si, k, place) /\ p[i] = AddParameter(t, pi, k)
  BY <1>2 DEF Places, Spills
<1>4. CASE Local(t, pi, k)
  <2>1. PICK z \in {4, 8}, w \in 1..4 : z = WordSize(t) /\ w = arg_words(t, k)
    BY <1>1, WordsAre
  <2>2. PICK zw \in Nat, q \in Nat : zw = z * w /\ q = z * (w - 1) /\ zw = q + z
    <3>1. z * w \in Nat /\ z * (w - 1) \in Nat /\ z * w = z * (w - 1) + z
      OBVIOUS
    <3> QED BY <3>1
  <2>3. /\ p[i].offset = pi.offset + zw /\ p[i].offset <= Parameters(t, f).offset
        /\ pi.offset \in Nat /\ Parameters(t, f).offset \in Nat
    <3>1. p[i].offset = pi.offset + WordSize(t) * arg_words(t, k)
      BY <1>1, <1>3, <1>4, AddParameterIs
    <3>2. p[i].offset <= Parameters(t, f).offset
      BY <1>1, PlacesStay
    <3>3. Parameters(t, f) \in Placing
      <4>1. Len(f.params) \in 0..Len(f.params)
        BY DEF Functions
      <4> QED BY <4>1 DEF Places
    <3> QED BY <2>1, <2>2, <3>1, <3>2, <3>3 DEF Placing
  <2>4. place = -p[i].offset
    <3>1. place = PlaceOf(p, t, f, i)
      BY <1>1, <1>2, PlacesStay
    <3> QED BY <1>2, <1>4, <3>1 DEF PlaceOf
  <2>5. PICK new \in Seq(PrologueMoves) : s[i].moves = si.moves \o new /\ ToWords(new, t, k, place)
    <3>1. CASE t = "rv32"
      BY <1>3, <3>1, SpillRv32Is
    <3>2. CASE t = "x86_64"
      <4>1. si.reg_idx = pi.reg_idx
        BY <1>1, <1>2, <3>2, RegistersAgree
      <4>2. k # "ldouble"
        BY <1>2, <3>2 DEF NoLongDouble
      <4>3. WordsIn(t, k) = arg_words(t, k)
        BY <1>1, <3>2, <4>2, WordsAre
      <4>4. Fits(si.reg_idx, WordsIn("x86_64", k))
        BY <1>4, <3>2, <4>1, <4>3 DEF Local
      <4> QED BY <1>3, <3>2, <4>4, SpillX86Is
    <3> QED BY <3>1, <3>2
  <2>6. Parameters(t, f).offset <= FirstLocal(t, f) /\ FirstLocal(t, f) \in Nat
    BY <2>3 DEF FirstLocal, Reserve, Functions
  <2>7. ASSUME NEW j \in 1..Len(new) PROVE Within(new[j], t, f)
    <3>1. new[j].to \in Int
      BY MoveTyped
    <3>2. PICK to \in Int : to = new[j].to /\ place <= to /\ to <= place + q
      BY <2>1, <2>2, <2>5, <3>1 DEF ToWords
    <3>3. PICK a \in Int, b \in Int, c \in Int, d \in Int :
            /\ a = p[i].offset /\ b = pi.offset /\ c = Parameters(t, f).offset
            /\ d = FirstLocal(t, f)
      <4>1. p[i].offset \in Int
        BY <2>3
      <4> QED BY <2>3, <2>6, <4>1
    <3>4. place = -a /\ a = b + zw /\ b >= 0 /\ a <= c /\ c <= d
      BY <2>3, <2>4, <2>6, <3>3
    <3>5. to <= -z /\ -d <= to
      <4>1. place = -(b + q + z)
        BY <2>2, <3>4
      <4>2. to <= -(b + q + z) + q
        BY <3>2, <4>1
      <4>3. to <= -z
        BY <3>4, <4>2
      <4>4. -d <= place
        BY <3>4
      <4> QED BY <3>2, <4>3, <4>4
    <3> QED BY <2>1, <3>2, <3>3, <3>5 DEF Within
  <2> QED BY <1>2, <2>5, <2>7 DEF AllWithin
<1>5. CASE ~Local(t, pi, k)
  <2>1. t = "x86_64"
    BY <1>5 DEF Local
  <2>2. si.reg_idx = pi.reg_idx
    BY <1>1, <1>2, <2>1, RegistersAgree
  <2>3. k # "ldouble"
    BY <1>2, <2>1 DEF NoLongDouble
  <2>4. WordsIn(t, k) = arg_words(t, k)
    BY <1>1, <2>1, <2>3, WordsAre
  <2>5. ~Fits(si.reg_idx, WordsIn("x86_64", k))
    BY <1>5, <2>1, <2>2, <2>4 DEF Local
  <2>6. s[i] = si
    BY <1>3, <2>1, <2>5, SpillX86Is
  <2>7. si.moves \in Seq(PrologueMoves)
    BY DEF Spilling
  <2> QED BY <1>2, <2>6, <2>7, NoMoves
<1> QED BY <1>4, <1>5

\* So do the copies for the variable arguments.
LEMMA VariadicsWithin ==
  ASSUME NEW t \in Targets, NEW f \in Functions
  PROVE  /\ SaveVariadics(t, f) \in Seq(PrologueMoves)
         /\ AllWithin(SaveVariadics(t, f), t, f)
<1>1. PICK p : Places(p, t, f)
  BY ParametersAre
<1>2. PICK low \in Nat : low = FirstLocal(t, f) /\ FirstOffset(t, f) <= low
  <2>1. /\ Len(f.params) \in 0..Len(f.params) /\ Len(f.params) \in Nat
    BY DEF Functions
  <2>2. /\ Parameters(t, f).offset \in Nat /\ FirstOffset(t, f) <= Parameters(t, f).offset
    BY <1>1, <2>1, PlacesStay DEF Places
  <2>3. FirstOffset(t, f) \in Nat
    BY DEF FirstOffset, Targets
  <2> QED BY <2>1, <2>2, <2>3 DEF FirstLocal, Reserve
<1>3. CASE ~f.is_varargs \/ t = "i386"
  <2>1. SaveVariadics(t, f) = << >>
    BY <1>3 DEF SaveVariadics
  <2> QED BY <2>1 DEF AllWithin
<1>4. CASE f.is_varargs /\ t = "rv32"
  <2> DEFINE M(n) == Move("reg", n - 1, -32 + 4 * (n - 1))
             moves == [n \in 1..8 |-> M(n)]
  <2>1. SaveVariadics(t, f) = moves \o << >>
    BY <1>4 DEF SaveVariadics, ArgRegisters, SaveArea, WordSize
  <2>2. \A n \in 1..8 : M(n) \in PrologueMoves
    BY DEF Move, PrologueMoves
  <2>3. moves \in Seq(PrologueMoves) /\ Len(moves) = 8
    BY <2>2
  <2>4. \A n \in 1..8 : moves[n].to = -32 + 4 * (n - 1)
    BY DEF Move
  <2> HIDE DEF moves, M
  <2>5. SaveVariadics(t, f) = moves
    BY <2>1, <2>3
  <2>6. 32 <= low
    BY <1>2, <1>4 DEF FirstOffset
  <2>7. \A n \in 1..8 : -low <= moves[n].to /\ moves[n].to <= -4
    BY <2>4, <2>6
  <2>8. AllWithin(moves, t, f)
    BY <1>2, <1>4, <2>3, <2>7 DEF AllWithin, Within, WordSize
  <2> QED BY <2>3, <2>5, <2>8
<1>5. CASE f.is_varargs /\ t = "x86_64"
  <2> DEFINE M(n) == Move("reg", n - 1, -192 + 8 * (n - 1))
             A(n) == Move("above", 16 + 8 * (n - 1), -192 + 8 * (n + 5))
             regs == [n \in 1..6 |-> M(n)]
             copies == [n \in 1..16 |-> A(n)]
  <2>1. SaveVariadics(t, f) = regs \o copies
    BY <1>5 DEF SaveVariadics, ArgRegisters, SaveArea, WordSize
  <2>2. (\A n \in 1..6 : M(n) \in PrologueMoves) /\ \A n \in 1..16 : A(n) \in PrologueMoves
    BY DEF Move, PrologueMoves
  <2>3. /\ regs \in Seq(PrologueMoves) /\ Len(regs) = 6
        /\ copies \in Seq(PrologueMoves) /\ Len(copies) = 16
    BY <2>2
  <2>4. /\ \A n \in 1..6 : regs[n].to = -192 + 8 * (n - 1)
        /\ \A n \in 1..16 : copies[n].to = -192 + 8 * (n + 5)
    BY DEF Move
  <2> HIDE DEF regs, copies, M, A
  <2>5. 192 <= low
    BY <1>2, <1>5 DEF FirstOffset
  <2>6. (\A n \in 1..6 : Within(regs[n], t, f)) /\ \A n \in 1..16 : Within(copies[n], t, f)
    BY <1>2, <1>5, <2>4, <2>5 DEF Within, WordSize
  <2>7. AllWithin(regs, t, f) /\ AllWithin(copies, t, f)
    BY <2>3, <2>6 DEF AllWithin
  <2> QED BY <2>1, <2>3, <2>7, MovesJoin
<1> QED BY <1>3, <1>4, <1>5 DEF Targets, Functions

\* The prologue writes between its local variables and the saved registers.
LEMMA MovesWithin ==
  ASSUME NEW t \in Targets, NEW f \in Functions, NoLongDouble(t, f)
  PROVE  /\ Moves(t, f) \in Seq(PrologueMoves)
         /\ AllWithin(Moves(t, f), t, f)
<1>1. PICK p : Places(p, t, f)
  BY ParametersAre
<1>2. PICK s : Spills(s, t, f)
  BY MovesAre
<1>3. PICK n \in Nat : n = Len(f.params)
  BY DEF Functions
<1>4. \A i \in 0..n : s[i].moves \in Seq(PrologueMoves) /\ s[i] \in Spilling
  BY <1>2, <1>3 DEF Spills, Spilling
<1> DEFINE T == {i \in Nat : i <= n => AllWithin(s[i].moves, t, f)}
<1>5. 0 \in T
  <2>1. s[0].moves = << >>
    BY <1>2 DEF Spills, NothingSpilled
  <2> QED BY <2>1 DEF AllWithin
<1>6. ASSUME NEW i \in 1..n, AllWithin(s[i - 1].moves, t, f)
      PROVE  AllWithin(s[i].moves, t, f)
  <2>1. i - 1 \in 0..n /\ i \in 0..n /\ i \in 1..Len(f.params)
    BY <1>3
  <2>2. PICK old \in Seq(PrologueMoves) : old = s[i - 1].moves
    BY <1>4, <2>1
  <2>3. PICK new \in Seq(PrologueMoves) : s[i].moves = old \o new /\ AllWithin(new, t, f)
    <3>1. CASE t # "i386"
      <4>1. t \in {"x86_64", "rv32"}
        BY <3>1 DEF Targets
      <4>2. \E new \in Seq(PrologueMoves) : /\ s[i].moves = s[i - 1].moves \o new
                                      /\ AllWithin(new, t, f)
        BY <1>1, <1>2, <2>1, <4>1, ParameterWithin
      <4> QED BY <2>2, <4>2
    <3>2. CASE t = "i386"
      <4>1. PICK si \in Spilling : si = s[i - 1]
        BY <1>4, <2>1
      <4>2. PICK k \in Kinds, place \in Int :
              k = f.params[i] /\ place = Parameters(t, f).places[i]
        BY <2>1, PlaceTyped DEF Functions
      <4>3. s[i] = Spill(t, si, k, place)
        BY <1>2, <2>1, <4>1, <4>2 DEF Spills
      <4>4. s[i] = s[i - 1]
        BY <3>2, <4>1, <4>3, SpillTyped
      <4> QED BY <2>2, <4>4, NoMoves
    <3> QED BY <3>1, <3>2
  <2> QED BY <1>6, <2>2, <2>3, MovesJoin
<1>7. ASSUME NEW i \in T PROVE i + 1 \in T
  <2>1. i \in Nat /\ (i <= n => AllWithin(s[i].moves, t, f)) /\ i + 1 - 1 = i
    OBVIOUS
  <2>2. i + 1 <= n => AllWithin(s[i + 1].moves, t, f)
    BY <1>6, <2>1
  <2> QED BY <2>1, <2>2
<1>8. n \in T
  <2>1. T \in SUBSET Nat
    OBVIOUS
  <2> HIDE DEF T
  <2>2. T = Nat
    BY <1>5, <1>7, <2>1, Induction
  <2> QED BY <2>2
<1>9. s[n].moves \in Seq(PrologueMoves) /\ AllWithin(s[n].moves, t, f)
  <2>1. n \in 0..n
    OBVIOUS
  <2> QED BY <1>4, <1>8, <2>1
<1>10. Moves(t, f) = s[n].moves \o SaveVariadics(t, f)
  BY <1>2, <1>3 DEF Spills
<1> QED BY <1>9, <1>10, VariadicsWithin, MovesJoin

-----------------------------------------------------------------------------
(***************************************************************************)
(* The words of the arguments, counted in the order in which they are      *)
(* passed, and the moves that carry them to the parameters.                *)
(***************************************************************************)
\* Which of all the words word w of argument i is; the first is word 0.
Rank(t, kinds, i, w) ==
  LastWord(t, kinds)[i] - arg_words(t, kinds[i]) + w - 1

\* A prefix of the arguments has the same words.
LEMMA LastOfPrefix ==
  ASSUME NEW t \in Targets, NEW kinds \in Seq(Kinds), NEW params \in Seq(Kinds),
         Len(params) <= Len(kinds), \A i \in 1..Len(params) : params[i] = kinds[i]
  PROVE  \A i \in 0..Len(params) : LastWord(t, params)[i] = LastWord(t, kinds)[i]
<1>1. PICK n \in Nat : n = Len(params)
  OBVIOUS
<1> DEFINE S == {i \in Nat : i <= n => LastWord(t, params)[i] = LastWord(t, kinds)[i]}
<1>2. 0 \in S /\ S \in SUBSET Nat
  BY LastStep
<1>3. ASSUME NEW i \in S PROVE i + 1 \in S
  <2> SUFFICES ASSUME i + 1 <= n
               PROVE  LastWord(t, params)[i + 1] = LastWord(t, kinds)[i + 1]
    OBVIOUS
  <2>1. /\ i \in Nat /\ LastWord(t, params)[i] = LastWord(t, kinds)[i]
        /\ i + 1 \in 1..Len(params) /\ i + 1 \in 1..Len(kinds) /\ i + 1 - 1 = i
    BY <1>1
  <2>2. PICK k, x : /\ k \in Kinds /\ k = params[i + 1] /\ k = kinds[i + 1]
                    /\ x = LastWord(t, params)[i] /\ x = LastWord(t, kinds)[i]
    BY <2>1
  <2>3. LastWord(t, params)[i + 1] = x + Pad(t, k, x) + arg_words(t, k)
    BY <2>1, <2>2, LastStep
  <2>4. LastWord(t, kinds)[i + 1] = x + Pad(t, k, x) + arg_words(t, k)
    BY <2>1, <2>2, LastStep
  <2> QED BY <2>3, <2>4
<1> HIDE DEF S
<1>4. S = Nat
  BY <1>2, <1>3, Induction
<1> QED BY <1>1, <1>4 DEF S

\* The rank of a word among all of them.
LEMMA RankIs ==
  ASSUME NEW t \in Targets, NEW kinds \in Seq(Kinds), NEW i \in 1..Len(kinds),
         NEW w \in 1..arg_words(t, kinds[i])
  PROVE  /\ Rank(t, kinds, i, w) \in Nat /\ w \in 1..4
         /\ LastWord(t, kinds)[i - 1] <= Rank(t, kinds, i, w)
         /\ Rank(t, kinds, i, w) < LastWord(t, kinds)[i]
         /\ Rank(t, kinds, i, w) < total_words(t, kinds)
         /\ Rank(t, kinds, i, w)
              = LastWord(t, kinds)[i - 1] + Pad(t, kinds[i], LastWord(t, kinds)[i - 1]) + w - 1
<1>1. i \in 0..Len(kinds) /\ i - 1 \in 0..Len(kinds) /\ Len(kinds) \in 0..Len(kinds)
  OBVIOUS
<1>2. PICK k \in Kinds : k = kinds[i]
  OBVIOUS
<1>3. PICK x \in Nat, y \in Nat, z \in Nat :
        /\ x = LastWord(t, kinds)[i - 1] /\ y = LastWord(t, kinds)[i]
        /\ z = total_words(t, kinds) /\ y <= z
  BY <1>1, LastStep, LastGrows
<1>4. PICK a \in 1..4, b \in {0, 1} : a = arg_words(t, k) /\ b = Pad(t, k, x)
  BY WordsAre
<1>5. y = x + b + a
  BY <1>2, <1>3, <1>4, LastStep
<1>6. w \in 1..a
  BY <1>2, <1>4
<1>7. Rank(t, kinds, i, w) = y - a + w - 1
  BY <1>2, <1>3, <1>4 DEF Rank
<1>8. PICK r \in Int : r = Rank(t, kinds, i, w) /\ r = x + b + w - 1 /\ r = y - a + w - 1
  BY <1>5, <1>6, <1>7
<1>9. x <= r /\ r < y /\ r < z /\ r \in Nat
  <2>1. y <= z /\ r = x + b + (w - 1) /\ w >= 1 /\ w <= a /\ w \in Int
    BY <1>3, <1>6, <1>8
  <2> QED BY <1>5, <2>1
<1>10. w \in 1..4
  BY <1>6
<1> QED BY <1>2, <1>3, <1>4, <1>8, <1>9, <1>10

-----------------------------------------------------------------------------
\* The move that carries word r to a place.
Carried(t, r, to) ==
  IF r < ArgRegisters(t) THEN Move("reg", r, to)
  ELSE Move("above", (IF t = "x86_64" THEN 16 ELSE 0) + WordSize(t) * (r - ArgRegisters(t)), to)

\* RV32: what the prologue has counted when it has moved the first parameters.
LEMMA CountedRv32 ==
  ASSUME NEW f \in Functions, NEW s, Spills(s, "rv32", f)
  PROVE  \A i \in 0..Len(f.params) :
           LET words == LastWord("rv32", f.params)[i]
           IN  /\ s[i].reg_idx = IF words <= 8 THEN words ELSE 8
               /\ s[i].above = IF words <= 8 THEN 0 ELSE 4 * (words - 8)
<1>1. PICK n \in Nat, params \in Seq(Kinds) : params = f.params /\ n = Len(params)
  BY DEF Functions
<1> DEFINE Counted(i) ==
             /\ s[i].reg_idx = IF LastWord("rv32", params)[i] <= 8
                               THEN LastWord("rv32", params)[i] ELSE 8
             /\ s[i].above = IF LastWord("rv32", params)[i] <= 8 THEN 0
                             ELSE 4 * (LastWord("rv32", params)[i] - 8)
           S == {i \in Nat : i <= n => Counted(i)}
<1>2. "rv32" \in Targets
  BY DEF Targets
<1>3. 0 \in S
  <2>1. LastWord("rv32", params)[0] = 0
    BY <1>2, LastStep
  <2>2. s[0].reg_idx = 0 /\ s[0].above = 0
    BY DEF Spills, NothingSpilled
  <2> QED BY <2>1, <2>2
<1>4. ASSUME NEW i \in S PROVE i + 1 \in S
  <2> SUFFICES ASSUME i + 1 <= n PROVE Counted(i + 1)
    OBVIOUS
  <2>1. i \in 0..n /\ i + 1 \in 1..n /\ i + 1 - 1 = i /\ Counted(i)
    OBVIOUS
  <2>2. PICK k \in Kinds, place \in Int, si \in Spilling :
          /\ k = params[i + 1] /\ place = Parameters("rv32", f).places[i + 1] /\ si = s[i]
    BY <1>1, <1>2, <2>1, PlaceTyped DEF Spills
  <2>3. PICK x \in Nat, y \in Nat :
          x = LastWord("rv32", params)[i] /\ y = LastWord("rv32", params)[i + 1]
    <3>1. i + 1 \in 0..n
      BY <2>1
    <3> QED BY <1>1, <1>2, <2>1, <3>1, LastStep
  <2>4. PICK a \in 1..4, b \in {0, 1} :
          /\ a = arg_words("rv32", k) /\ a = WordsIn("rv32", k) /\ b = Pad("rv32", k, x)
          /\ b = IF needs_8byte_align(k) THEN x % 2 ELSE 0
    BY <1>2, WordsAre DEF Pad
  <2>5. y = x + b + a
    <3>1. \A j \in 1..n : LastWord("rv32", params)[j] = LastWord("rv32", params)[j - 1]
            + Pad("rv32", params[j], LastWord("rv32", params)[j - 1]) + arg_words("rv32", params[j])
      BY <1>1, <1>2, LastStep
    <3> QED BY <2>1, <2>2, <2>3, <2>4, <3>1
  <2>6. si.reg_idx = (IF x <= 8 THEN x ELSE 8) /\ si.above = IF x <= 8 THEN 0 ELSE 4 * (x - 8)
    BY <2>1, <2>2, <2>3
  <2>7. s[i + 1] = SpillRv32(si, k, place)
    BY <1>1, <2>1, <2>2 DEF Spills, Spill
  <2>8. LET odd == /\ needs_8byte_align(k)
                   /\ IF si.reg_idx < 8 THEN si.reg_idx % 2 # 0 ELSE si.above % 8 # 0
        IN odd <=> b = 1
    <3>1. CASE x < 8
      BY <2>4, <2>6, <3>1
    <3>2. CASE x >= 8
      <4>1. (4 * (x - 8)) % 8 # 0 <=> x % 2 = 1
        OBVIOUS
      <4> QED BY <2>4, <2>6, <3>2, <4>1
    <3> QED BY <3>1, <3>2
  <2>9. PICK reg \in 0..8, up \in Nat :
          /\ reg = (IF b = 1 /\ si.reg_idx < 8 THEN si.reg_idx + 1 ELSE si.reg_idx)
          /\ up = (IF b = 1 /\ si.reg_idx >= 8 THEN si.above + 4 ELSE si.above)
    BY <2>6
  <2>10. PICK in \in 0..4 : in = IF reg + a <= 8 THEN a ELSE 8 - reg
    OBVIOUS
  <2>11. PICK ri, ab : ri = s[i + 1].reg_idx /\ ab = s[i + 1].above
    OBVIOUS
  <2>12. ri = reg + in /\ ab = up + 4 * (a - in)
    <3> HIDE DEF Counted, S
    <3>1. PICK new : s[i + 1] = [reg_idx |-> reg + in, above |-> up + 4 * (a - in),
                                 moves |-> si.moves \o new]
      BY <2>4, <2>7, <2>8, <2>9, <2>10 DEF SpillRv32
    <3> QED BY <2>11, <3>1
  <2>13. ri = (IF y <= 8 THEN y ELSE 8) /\ ab = (IF y <= 8 THEN 0 ELSE 4 * (y - 8))
    <3> HIDE DEF Counted, S
    <3>1. CASE x < 8
      <4>1. reg = x + b /\ up = 0
        BY <2>6, <2>9, <3>1
      <4> QED BY <2>5, <2>10, <2>12, <4>1
    <3>2. CASE x >= 8
      <4>1. reg = 8 /\ in = 0
        BY <2>6, <2>9, <2>10, <3>2
      <4>2. x = 8 => b = 0
        BY <2>4
      <4>3. up = 4 * (x + b - 8)
        <5>1. CASE x = 8
          BY <2>6, <2>9, <4>2, <5>1
        <5>2. CASE x # 8
          BY <2>6, <2>9, <3>2, <5>2
        <5> QED BY <5>1, <5>2
      <4> QED BY <2>5, <2>12, <3>2, <4>1, <4>3
    <3> QED BY <3>1, <3>2
  <2> QED BY <2>3, <2>11, <2>13
<1>5. S \in SUBSET Nat
  OBVIOUS
<1> HIDE DEF S
<1>6. S = Nat
  BY <1>3, <1>4, <1>5, Induction
<1>7. \A i \in 0..n : Counted(i)
  BY <1>6 DEF S
<1> QED BY <1>1, <1>7

\* No argument up to argument i is split between the registers and the stack.
Unsplit(t, kinds, i) ==
  t = "x86_64" => \A j \in 1..i :
    ~(LastWord(t, kinds)[j - 1] < 6 /\ 6 < LastWord(t, kinds)[j])

\* x86_64: what the parser has counted when it has placed the first parameters.
LEMMA CountedX86 ==
  ASSUME NEW f \in Functions, NEW p, Places(p, "x86_64", f)
  PROVE  \A i \in 0..Len(f.params) : Unsplit("x86_64", f.params, i) =>
           LET words == LastWord("x86_64", f.params)[i]
           IN  /\ p[i].reg_idx = IF words <= 6 THEN words ELSE 6
               /\ p[i].above = IF words <= 6 THEN 16 ELSE 16 + 8 * (words - 6)
<1>1. PICK n \in Nat, params \in Seq(Kinds) : params = f.params /\ n = Len(params)
  BY DEF Functions
<1> DEFINE L(i) == LastWord("x86_64", params)[i]
           Counted(i) ==
             Unsplit("x86_64", params, i) =>
               /\ p[i].reg_idx = IF L(i) <= 6 THEN L(i) ELSE 6
               /\ p[i].above = IF L(i) <= 6 THEN 16 ELSE 16 + 8 * (L(i) - 6)
           S == {i \in Nat : i <= n => Counted(i)}
<1>2. "x86_64" \in Targets
  BY DEF Targets
<1>3. 0 \in S
  <2>1. L(0) = 0
    BY <1>2, LastStep
  <2>2. p[0].reg_idx = 0 /\ p[0].above = 16
    BY DEF Places, FirstPlacing
  <2> QED BY <2>1, <2>2
<1>4. ASSUME NEW i \in S PROVE i + 1 \in S
  <2> SUFFICES ASSUME i + 1 <= n, Unsplit("x86_64", params, i + 1)
               PROVE  /\ p[i + 1].reg_idx = IF L(i + 1) <= 6 THEN L(i + 1) ELSE 6
                      /\ p[i + 1].above = IF L(i + 1) <= 6 THEN 16 ELSE 16 + 8 * (L(i + 1) - 6)
    OBVIOUS
  <2>1. i \in 0..n /\ i + 1 \in 1..n /\ i + 1 - 1 = i /\ Counted(i) /\ i + 1 \in 0..n
    OBVIOUS
  <2> HIDE DEF S, Counted
  <2>2. Unsplit("x86_64", params, i) /\ ~(L(i) < 6 /\ 6 < L(i + 1))
    <3>1. \A j \in 1..i + 1 : ~(L(j - 1) < 6 /\ 6 < L(j))
      BY DEF Unsplit
    <3>2. i + 1 \in 1..i + 1 /\ \A j \in 1..i : j \in 1..i + 1
      BY <2>1
    <3>3. ~(L(i) < 6 /\ 6 < L(i + 1))
      BY <2>1, <3>1, <3>2
    <3>4. \A j \in 1..i : ~(L(j - 1) < 6 /\ 6 < L(j))
      BY <3>1, <3>2
    <3> QED BY <3>3, <3>4 DEF Unsplit
  <2>3. PICK k \in Kinds, pi \in Placing : k = params[i + 1] /\ pi = p[i]
    BY <1>1, <2>1 DEF Places
  <2>4. PICK x \in Nat, y \in Nat : x = L(i) /\ y = L(i + 1)
    BY <1>1, <1>2, <2>1, LastStep
  <2>5. PICK a \in 1..4 : a = arg_words("x86_64", k) /\ Pad("x86_64", k, x) = 0
    BY <1>2, WordsAre
  <2>6. y = x + a
    <3>1. \A j \in 1..n : LastWord("x86_64", params)[j] = LastWord("x86_64", params)[j - 1]
            + Pad("x86_64", params[j], LastWord("x86_64", params)[j - 1]) + arg_words("x86_64", params[j])
      BY <1>1, <1>2, LastStep
    <3>2. y = x + Pad("x86_64", k, x) + a
      BY <2>1, <2>3, <2>4, <2>5, <3>1
    <3> QED BY <2>5, <3>2
  <2>7. pi.reg_idx = (IF x <= 6 THEN x ELSE 6)
        /\ pi.above = (IF x <= 6 THEN 16 ELSE 16 + 8 * (x - 6))
    BY <2>1, <2>2, <2>3, <2>4 DEF Counted
  <2>8. PICK new \in Placing : new = p[i + 1] /\ new = AddParameter("x86_64", pi, k)
    <3>1. p[i + 1] = AddParameter("x86_64", pi, k) /\ p[i + 1] \in Placing
      BY <1>1, <2>1, <2>3 DEF Places
    <3> QED BY <3>1
  <2>9. /\ Local("x86_64", pi, k) =>
             new.reg_idx = pi.reg_idx + a /\ new.above = pi.above
        /\ ~Local("x86_64", pi, k) =>
             new.reg_idx = pi.reg_idx /\ new.above = pi.above + WordSize("x86_64") * a
    BY <1>2, <2>5, <2>8, AddParameterIs
  <2>10. Local("x86_64", pi, k) <=> pi.reg_idx + a <= 6
    BY <2>5 DEF Local, Fits
  <2>11. PICK u \in Nat, v \in Nat : u = new.reg_idx /\ v = new.above
    BY DEF Placing
  <2>12. u = (IF y <= 6 THEN y ELSE 6) /\ v = (IF y <= 6 THEN 16 ELSE 16 + 8 * (y - 6))
    <3>1. ~(x < 6 /\ 6 < y)
      BY <2>2, <2>4
    <3>2. WordSize("x86_64") = 8
      BY DEF WordSize
    <3>3. CASE y <= 6
      <4>1. u = x + a /\ v = 16
        BY <2>6, <2>7, <2>9, <2>10, <2>11, <3>3
      <4> QED BY <2>6, <3>3, <4>1
    <3>4. CASE y > 6
      <4>1. u = 6 /\ v = (IF x <= 6 THEN 16 ELSE 16 + 8 * (x - 6)) + 8 * a
        BY <2>6, <2>7, <2>9, <2>10, <2>11, <3>1, <3>2, <3>4
      <4> QED BY <2>6, <3>1, <3>4, <4>1
    <3> QED BY <2>6, <3>3, <3>4
  <2> QED BY <2>4, <2>8, <2>11, <2>12
<1>5. S \in SUBSET Nat
  OBVIOUS
<1> HIDE DEF S
<1>6. S = Nat
  BY <1>3, <1>4, <1>5, Induction
<1>7. \A i \in 0..n : Counted(i)
  BY <1>6 DEF S
<1> QED BY <1>1, <1>7

\* i386: every parameter stays above the frame.
LEMMA CountedI386 ==
  ASSUME NEW f \in Functions, NEW p, Places(p, "i386", f)
  PROVE  \A i \in 0..Len(f.params) : p[i].above = 8 + 4 * LastWord("i386", f.params)[i]
<1>1. PICK n \in Nat, params \in Seq(Kinds) : params = f.params /\ n = Len(params)
  BY DEF Functions
<1> DEFINE L(i) == LastWord("i386", params)[i]
           S == {i \in Nat : i <= n => p[i].above = 8 + 4 * L(i)}
<1>2. "i386" \in Targets
  BY DEF Targets
<1>3. 0 \in S
  <2>1. L(0) = 0
    BY <1>2, LastStep
  <2>2. p[0].above = 8
    BY DEF Places, FirstPlacing
  <2> QED BY <2>1, <2>2
<1>4. ASSUME NEW i \in S PROVE i + 1 \in S
  <2> SUFFICES ASSUME i + 1 <= n PROVE p[i + 1].above = 8 + 4 * L(i + 1)
    OBVIOUS
  <2>1. i \in 0..n /\ i + 1 \in 1..n /\ i + 1 - 1 = i /\ p[i].above = 8 + 4 * L(i)
        /\ i + 1 \in 0..n
    OBVIOUS
  <2> HIDE DEF S
  <2>3. PICK k \in Kinds, pi \in Placing : k = params[i + 1] /\ pi = p[i]
    BY <1>1, <2>1 DEF Places
  <2>4. PICK x \in Nat, y \in Nat : x = L(i) /\ y = L(i + 1)
    BY <1>1, <1>2, <2>1, LastStep
  <2>5. PICK a \in 1..4 : a = arg_words("i386", k) /\ Pad("i386", k, x) = 0
    BY <1>2, WordsAre
  <2>6. y = x + a
    <3>1. \A j \in 1..n : LastWord("i386", params)[j] = LastWord("i386", params)[j - 1]
            + Pad("i386", params[j], LastWord("i386", params)[j - 1]) + arg_words("i386", params[j])
      BY <1>1, <1>2, LastStep
    <3>2. y = x + Pad("i386", k, x) + a
      BY <2>1, <2>3, <2>4, <2>5, <3>1
    <3> QED BY <2>5, <3>2
  <2>7. p[i + 1] = AddParameter("i386", pi, k) /\ ~Local("i386", pi, k)
    BY <1>1, <2>1, <2>3 DEF Places, Local
  <2>8. p[i + 1].above = pi.above + WordSize("i386") * a
    BY <1>2, <2>5, <2>7, AddParameterIs
  <2>9. pi.above = 8 + 4 * x
    BY <2>1, <2>3, <2>4
  <2>10. WordSize("i386") = 4
    BY DEF WordSize
  <2>11. p[i + 1].above = 8 + 4 * x + 4 * a
    BY <2>8, <2>9, <2>10
  <2>12. PICK z \in Int : z = p[i + 1].above /\ z = 8 + 4 * x + 4 * a
    BY <2>11
  <2>13. z = 8 + 4 * y
    BY <2>6, <2>12
  <2> QED BY <2>4, <2>12, <2>13
<1>5. S \in SUBSET Nat
  OBVIOUS
<1> HIDE DEF S
<1>6. S = Nat
  BY <1>3, <1>4, <1>5, Induction
<1> QED BY <1>1, <1>6 DEF S

\* No two moves go to one place, and none is from the frame itself.
Separate(moves) ==
  /\ \A i, j \in 1..Len(moves) : i # j => moves[i].to # moves[j].to
  /\ \A j \in 1..Len(moves) : moves[j].to < 0 /\ (moves[j].from # "reg" => moves[j].n >= 0)

Between(moves, low, high) ==
  \A j \in 1..Len(moves) : low <= moves[j].to /\ moves[j].to < high

Among(v, moves) == \E j \in 1..Len(moves) : moves[j] = v

\* Two lists with places apart are one.
LEMMA SeparateJoin ==
  ASSUME NEW old \in Seq(PrologueMoves), NEW new \in Seq(PrologueMoves),
         Separate(old), Separate(new),
         \A i \in 1..Len(old) : \A j \in 1..Len(new) : old[i].to # new[j].to
  PROVE  /\ old \o new \in Seq(PrologueMoves) /\ Separate(old \o new)
         /\ \A v : Among(v, old) \/ Among(v, new) => Among(v, old \o new)
<1>1. PICK a \in Nat, b \in Nat : a = Len(old) /\ b = Len(new)
  OBVIOUS
<1>2. PICK both \in Seq(PrologueMoves) : both = old \o new
  <2>1. old \o new \in Seq(PrologueMoves)
    OBVIOUS
  <2> QED BY <2>1
<1>3. Len(both) = a + b
  BY <1>1, <1>2
<1>4. \A i \in 1..a : both[i] = old[i] /\ i \in 1..a + b
  BY <1>1, <1>2
<1>5. \A i \in 1..b : both[a + i] = new[i] /\ a + i \in 1..a + b
  BY <1>1, <1>2
<1>6. ASSUME NEW i \in 1..a + b
      PROVE  \/ i \in 1..a /\ both[i] = old[i]
             \/ i - a \in 1..b /\ both[i] = new[i - a]
  <2>1. CASE i <= a
    BY <1>4, <2>1
  <2>2. CASE i > a
    <3>1. i - a \in 1..b /\ a + (i - a) = i
      BY <2>2
    <3> QED BY <1>5, <3>1
  <2> QED BY <2>1, <2>2
<1>7. /\ \A i, j \in 1..a : i # j => old[i].to # old[j].to
      /\ \A i, j \in 1..b : i # j => new[i].to # new[j].to
      /\ \A i \in 1..a : \A j \in 1..b : old[i].to # new[j].to
      /\ \A i \in 1..a : old[i].to < 0 /\ (old[i].from # "reg" => old[i].n >= 0)
      /\ \A i \in 1..b : new[i].to < 0 /\ (new[i].from # "reg" => new[i].n >= 0)
  BY <1>1 DEF Separate
<1>8. ASSUME NEW i \in 1..a + b, NEW j \in 1..a + b, i # j
      PROVE  both[i].to # both[j].to
  <2>1. CASE i \in 1..a /\ both[i] = old[i]
    <3>1. CASE j \in 1..a /\ both[j] = old[j]
      BY <1>7, <1>8, <2>1, <3>1
    <3>2. CASE j - a \in 1..b /\ both[j] = new[j - a]
      BY <1>7, <2>1, <3>2
    <3> QED BY <1>6, <3>1, <3>2
  <2>2. CASE i - a \in 1..b /\ both[i] = new[i - a]
    <3>1. CASE j \in 1..a /\ both[j] = old[j]
      BY <1>7, <2>2, <3>1
    <3>2. CASE j - a \in 1..b /\ both[j] = new[j - a]
      <4>1. i - a # j - a
        BY <1>8
      <4> QED BY <1>7, <2>2, <3>2, <4>1
    <3> QED BY <1>6, <3>1, <3>2
  <2> QED BY <1>6, <2>1, <2>2
<1>9. \A i \in 1..a + b : both[i].to < 0 /\ (both[i].from # "reg" => both[i].n >= 0)
  BY <1>6, <1>7
<1>10. ASSUME NEW v, Among(v, old) \/ Among(v, new) PROVE Among(v, both)
  <2>1. CASE Among(v, old)
    <3>1. PICK i \in 1..a : old[i] = v
      BY <1>1, <2>1 DEF Among
    <3> QED BY <1>3, <1>4, <3>1 DEF Among
  <2>2. CASE Among(v, new)
    <3>1. PICK i \in 1..b : new[i] = v
      BY <1>1, <2>2 DEF Among
    <3>2. a + i \in 1..a + b /\ both[a + i] = v
      BY <1>5, <3>1
    <3> QED BY <1>3, <3>2 DEF Among
  <2> QED BY <1>10, <2>1, <2>2
<1> QED BY <1>2, <1>3, <1>8, <1>9, <1>10 DEF Separate

\* The moves that carry so many words, from the first on, to a place.
Carries(moves, t, first, place, words) ==
  /\ moves \in Seq(PrologueMoves) /\ Len(moves) = words
  /\ \A w \in 1..words : moves[w] = Carried(t, first + w - 1, place + WordSize(t) * (w - 1))

\* A word is carried from a register or from above the frame.
LEMMA CarriedIs ==
  ASSUME NEW t \in {"x86_64", "rv32"}, NEW r \in Nat, NEW to \in Int
  PROVE  LET v == Carried(t, r, to)
         IN  /\ v \in PrologueMoves /\ v.to = to
             /\ v.from # "reg" => v.n >= 0 /\ r >= ArgRegisters(t)
             /\ v.from = "reg" => r < ArgRegisters(t) /\ v.n = r
             /\ v.from # "reg" =>
                  v.n = (IF t = "x86_64" THEN 16 ELSE 0) + WordSize(t) * (r - ArgRegisters(t))
<1>1. PICK z \in {4, 8}, q \in {6, 8}, y \in {0, 16} :
        z = WordSize(t) /\ q = ArgRegisters(t) /\ y = IF t = "x86_64" THEN 16 ELSE 0
  BY DEF WordSize, ArgRegisters
<1>2. CASE r < q
  <2>1. Carried(t, r, to) = [from |-> "reg", n |-> r, to |-> to]
    BY <1>1, <1>2 DEF Carried, Move
  <2> QED BY <1>1, <1>2, <2>1 DEF PrologueMoves
<1>3. CASE ~(r < q)
  <2>1. PICK x \in Nat : x = y + z * (r - q)
    BY <1>3
  <2>2. Carried(t, r, to) = [from |-> "above", n |-> x, to |-> to]
    BY <1>1, <1>3, <2>1 DEF Carried, Move
  <2> QED BY <1>1, <1>3, <2>1, <2>2 DEF PrologueMoves
<1> QED BY <1>2, <1>3

\* Such moves are separate.
LEMMA CarriesSeparate ==
  ASSUME NEW t \in {"x86_64", "rv32"}, NEW first \in Nat, NEW place \in Int, NEW words \in Nat,
         NEW moves, Carries(moves, t, first, place, words), place + WordSize(t) * words <= 0
  PROVE  /\ moves \in Seq(PrologueMoves) /\ Separate(moves)
         /\ Between(moves, place, place + WordSize(t) * words)
         /\ \A w \in 1..words :
              Among(Carried(t, first + w - 1, place + WordSize(t) * (w - 1)), moves)
<1>1. PICK z \in {4, 8} : z = WordSize(t)
  BY DEF WordSize
<1>2. moves \in Seq(PrologueMoves) /\ Len(moves) = words
      /\ \A w \in 1..words : moves[w] = Carried(t, first + w - 1, place + z * (w - 1))
  BY <1>1 DEF Carries
<1>3. ASSUME NEW w \in 1..words
      PROVE  /\ moves[w].to = place + z * (w - 1)
             /\ moves[w].from # "reg" => moves[w].n >= 0
             /\ place <= place + z * (w - 1) /\ place + z * (w - 1) < place + z * words
  <2>1. PICK r \in Nat, to \in Int : r = first + w - 1 /\ to = place + z * (w - 1)
    OBVIOUS
  <2>2. moves[w] = Carried(t, r, to)
    BY <1>2, <2>1
  <2>3. moves[w].to = to /\ (moves[w].from # "reg" => moves[w].n >= 0)
    BY <2>2, CarriedIs
  <2>4. place <= to /\ to < place + z * words
    <3>1. w >= 1 /\ w <= words
      OBVIOUS
    <3>2. CASE z = 4
      BY <2>1, <3>1, <3>2
    <3>3. CASE z = 8
      BY <2>1, <3>1, <3>3
    <3> QED BY <3>2, <3>3
  <2> QED BY <2>1, <2>3, <2>4
<1>4. ASSUME NEW i \in 1..words, NEW j \in 1..words, i # j
      PROVE  moves[i].to # moves[j].to
  <2>1. place + z * (i - 1) # place + z * (j - 1)
    <3>1. CASE z = 4
      BY <1>4, <3>1
    <3>2. CASE z = 8
      BY <1>4, <3>2
    <3> QED BY <3>1, <3>2
  <2> QED BY <1>3, <2>1
<1>5. \A j \in 1..words : moves[j].to < 0 /\ moves[j].to < place + z * words /\ place <= moves[j].to
  <2>1. ASSUME NEW j \in 1..words
        PROVE  moves[j].to < 0 /\ moves[j].to < place + z * words /\ place <= moves[j].to
    <3>1. PICK to \in Int, top \in Int :
            to = place + z * (j - 1) /\ top = place + z * words /\ top <= 0
      BY <1>1
    <3>2. moves[j].to = to /\ place <= to /\ to < top
      BY <1>3, <3>1
    <3> QED BY <3>1, <3>2
  <2> QED BY <2>1
<1>6. Separate(moves)
  BY <1>2, <1>3, <1>4, <1>5 DEF Separate
<1>7. Between(moves, place, place + WordSize(t) * words)
  BY <1>1, <1>2, <1>5 DEF Between
<1> QED BY <1>1, <1>2, <1>6, <1>7 DEF Among

\* x86_64: the words of a parameter that came in registers.
LEMMA SpillX86Carries ==
  ASSUME NEW s \in Spilling, NEW k \in Kinds, NEW place \in Int, k # "ldouble",
         Fits(s.reg_idx, arg_words("x86_64", k))
  PROVE  \E new \in Seq(PrologueMoves) :
           /\ Spill("x86_64", s, k, place).moves = s.moves \o new
           /\ Carries(new, "x86_64", s.reg_idx, place, arg_words("x86_64", k))
<1>1. PICK a \in 1..4 : a = arg_words("x86_64", k) /\ a = WordsIn("x86_64", k)
  BY WordsAre DEF Targets
<1>2. a = IF Aggregate(k) THEN WordsIn("x86_64", k) ELSE 1
  BY <1>1 DEF arg_words
<1>3. PICK x \in 0..8 : x = s.reg_idx /\ x + a <= 6
  BY <1>1 DEF Spilling, Fits
<1>4. s = [reg_idx |-> s.reg_idx, above |-> s.above, moves |-> s.moves]
  BY DEF Spilling
<1> DEFINE M(w) == Move("reg", x + w - 1, place + 8 * (w - 1))
           new == [w \in 1..a |-> M(w)]
<1>5. Spill("x86_64", s, k, place) = [s EXCEPT !.reg_idx = @ + a, !.moves = @ \o new]
  BY <1>1, <1>2, <1>3 DEF Spill, SpillX86
<1>6. \A w \in 1..a : M(w) = Carried("x86_64", x + w - 1, place + 8 * (w - 1))
  BY <1>3 DEF Carried, ArgRegisters
<1>7. \A w \in 1..a : M(w) \in PrologueMoves
  BY <1>3 DEF Move, PrologueMoves
<1>8. new \in Seq(PrologueMoves) /\ Len(new) = a
  BY <1>7
<1>9. Carries(new, "x86_64", x, place, a)
  <2>1. WordSize("x86_64") = 8
    BY DEF WordSize
  <2> QED BY <1>6, <1>8, <2>1 DEF Carries
<1> HIDE DEF new
<1>10. Spill("x86_64", s, k, place).moves = s.moves \o new
  BY <1>4, <1>5
<1> QED BY <1>1, <1>3, <1>8, <1>9, <1>10

\* RV32: every word of a parameter.
LEMMA SpillRv32Carries ==
  ASSUME NEW s \in Spilling, NEW k \in Kinds, NEW place \in Int, NEW x \in Nat,
         s.reg_idx = IF x <= 8 THEN x ELSE 8,
         s.above = IF x <= 8 THEN 0 ELSE 4 * (x - 8)
  PROVE  \E new \in Seq(PrologueMoves) :
           /\ Spill("rv32", s, k, place).moves = s.moves \o new
           /\ Carries(new, "rv32", x + Pad("rv32", k, x), place, arg_words("rv32", k))
<1>1. PICK a \in 1..4, b \in {0, 1} :
        /\ a = arg_words("rv32", k) /\ a = WordsIn("rv32", k) /\ b = Pad("rv32", k, x)
        /\ b = IF needs_8byte_align(k) THEN x % 2 ELSE 0
  BY WordsAre DEF Targets, Pad
<1>2. LET odd == /\ needs_8byte_align(k)
                 /\ IF s.reg_idx < 8 THEN s.reg_idx % 2 # 0 ELSE s.above % 8 # 0
      IN odd <=> b = 1
  <2>1. CASE x < 8
    BY <1>1, <2>1
  <2>2. CASE x >= 8
    <3>1. (4 * (x - 8)) % 8 # 0 <=> x % 2 = 1
      OBVIOUS
    <3> QED BY <1>1, <2>2, <3>1
  <2> QED BY <2>1, <2>2
<1>3. PICK reg \in 0..8, up \in Nat :
        /\ reg = (IF b = 1 /\ s.reg_idx < 8 THEN s.reg_idx + 1 ELSE s.reg_idx)
        /\ up = (IF b = 1 /\ s.reg_idx >= 8 THEN s.above + 4 ELSE s.above)
  OBVIOUS
<1>4. PICK in \in 0..4 : in = IF reg + a <= 8 THEN a ELSE 8 - reg
  OBVIOUS
<1> DEFINE M(w) == IF w <= in THEN Move("reg", reg + w - 1, place + 4 * (w - 1))
                   ELSE Move("above", up + 4 * (w - in - 1), place + 4 * (w - 1))
           new == [w \in 1..a |-> M(w)]
<1>5. Spill("rv32", s, k, place)
        = [reg_idx |-> reg + in, above |-> up + 4 * (a - in), moves |-> s.moves \o new]
  BY <1>1, <1>2, <1>3, <1>4 DEF Spill, SpillRv32
<1>6. \/ x < 8 /\ reg = x + b /\ up = 0
      \/ x >= 8 /\ reg = 8 /\ in = 0 /\ up = 4 * (x + b - 8)
  <2>1. CASE x < 8
    BY <1>3, <2>1
  <2>2. CASE x >= 8
    <3>1. reg = 8 /\ in = 0
      BY <1>3, <1>4, <2>2
    <3>2. x = 8 => b = 0
      BY <1>1
    <3>3. CASE x = 8
      BY <1>3, <3>1, <3>2, <3>3
    <3>4. CASE x # 8
      <4>1. s.above = 4 * (x - 8) /\ s.reg_idx = 8
        BY <2>2, <3>4
      <4> QED BY <1>3, <2>2, <3>1, <3>4, <4>1
    <3> QED BY <3>3, <3>4
  <2> QED BY <2>1, <2>2
<1>7. ASSUME NEW w \in 1..a
      PROVE  M(w) = Carried("rv32", x + b + w - 1, place + 4 * (w - 1))
  <2>1. ArgRegisters("rv32") = 8 /\ WordSize("rv32") = 4
    BY DEF ArgRegisters, WordSize
  <2>2. Carried("rv32", x + b + w - 1, place + 4 * (w - 1))
          = IF x + b + w - 1 < 8 THEN Move("reg", x + b + w - 1, place + 4 * (w - 1))
            ELSE Move("above", 4 * (x + b + w - 1 - 8), place + 4 * (w - 1))
    BY <2>1 DEF Carried
  <2>3. CASE w <= in
    <3>1. x < 8 /\ reg = x + b /\ x + b + w - 1 < 8
      BY <1>4, <1>6, <2>3
    <3> QED BY <2>2, <2>3, <3>1
  <2>4. CASE ~(w <= in)
    <3>1. in = 8 - reg
      BY <1>4, <2>4
    <3>2. ~(x + b + w - 1 < 8) /\ up + 4 * (w - in - 1) = 4 * (x + b + w - 1 - 8)
      BY <1>6, <2>4, <3>1
    <3> QED BY <2>2, <2>4, <3>2
  <2> QED BY <2>3, <2>4
<1>8. \A w \in 1..a : M(w) \in PrologueMoves
  BY <1>4 DEF Move, PrologueMoves
<1>9. new \in Seq(PrologueMoves) /\ Len(new) = a
  BY <1>8
<1>10. Carries(new, "rv32", x + b, place, a)
  <2>1. WordSize("rv32") = 4
    BY DEF WordSize
  <2>2. \A w \in 1..a : new[w] = Carried("rv32", x + b + w - 1, place + 4 * (w - 1))
    BY <1>7
  <2> HIDE DEF new, M
  <2> QED BY <1>9, <2>1, <2>2 DEF Carries
<1> HIDE DEF new, M
<1>11. Spill("rv32", s, k, place).moves = s.moves \o new
  BY <1>5
<1> QED BY <1>1, <1>9, <1>10, <1>11

\* The moves of one parameter, which go to the words of its place.
LEMMA ParameterMoves ==
  ASSUME NEW t \in {"x86_64", "rv32"}, NEW f \in Functions, NoLongDouble(t, f),
         NEW p, Places(p, t, f), NEW s, Spills(s, t, f), NEW i \in 1..Len(f.params)
  PROVE  \E new \in Seq(PrologueMoves) :
           /\ s[i].moves = s[i - 1].moves \o new /\ Separate(new)
           /\ Between(new, -p[i].offset, -p[i - 1].offset)
           /\ Local(t, p[i - 1], f.params[i]) /\ Unsplit(t, f.params, i) =>
                \A w \in 1..arg_words(t, f.params[i]) :
                  Among(Carried(t, Rank(t, f.params, i, w),
                                Parameters(t, f).places[i] + WordSize(t) * (w - 1)), new)
<1>1. /\ t \in Targets /\ i \in 0..Len(f.params) /\ i - 1 \in 0..Len(f.params)
      /\ f.params[i] \in Kinds /\ f.params \in Seq(Kinds)
  BY DEF Targets, Functions
<1>2. PICK k \in Kinds, place \in Int, pi \in Placing, si \in Spilling :
        /\ k = f.params[i] /\ place = Parameters(t, f).places[i]
        /\ pi = p[i - 1] /\ si = s[i - 1]
  BY <1>1, PlaceTyped DEF Places, Spills
<1>3. s[i] = Spill(t, si, k, place) /\ p[i] = AddParameter(t, pi, k)
  BY <1>2 DEF Places, Spills
<1>4. PICK a \in 1..4, z \in {4, 8} : a = arg_words(t, k) /\ z = WordSize(t)
  BY <1>1, WordsAre
<1>5. PICK x \in Nat, b \in {0, 1} : x = LastWord(t, f.params)[i - 1] /\ b = Pad(t, k, x)
  BY <1>1, LastStep, WordsAre
<1>6. \A w \in 1..a : Rank(t, f.params, i, w) = x + b + w - 1
  BY <1>1, <1>2, <1>4, <1>5, RankIs
<1>7. CASE Local(t, pi, k)
  <2>1. PICK c \in Nat : c = pi.offset
    BY DEF Placing
  <2>2. p[i].offset = c + z * a
    BY <1>1, <1>3, <1>4, <1>7, <2>1, AddParameterIs, SMTT(20)
  <2>3. place = -(c + z * a)
    <3>1. place = PlaceOf(p, t, f, i)
      BY <1>1, <1>2, PlacesStay
    <3> QED BY <1>2, <1>7, <2>2, <3>1 DEF PlaceOf
  <2>4. PICK first \in Nat, new \in Seq(PrologueMoves) :
          /\ s[i].moves = si.moves \o new /\ Carries(new, t, first, place, a)
          /\ Unsplit(t, f.params, i) => first = x + b
    <3>1. CASE t = "rv32"
      <4>1. /\ si.reg_idx = IF x <= 8 THEN x ELSE 8
            /\ si.above = IF x <= 8 THEN 0 ELSE 4 * (x - 8)
        BY <1>1, <1>2, <1>5, <3>1, CountedRv32
      <4>2. PICK new \in Seq(PrologueMoves) :
              /\ Spill("rv32", si, k, place).moves = si.moves \o new
              /\ Carries(new, "rv32", x + Pad("rv32", k, x), place, arg_words("rv32", k))
        BY <4>1, SpillRv32Carries
      <4>3. x + b \in Nat
        OBVIOUS
      <4> QED BY <1>3, <1>4, <1>5, <3>1, <4>2, <4>3
    <3>2. CASE t = "x86_64"
      <4>1. si.reg_idx = pi.reg_idx
        BY <1>1, <1>2, <3>2, RegistersAgree
      <4>2. k # "ldouble"
        BY <1>2, <3>2 DEF NoLongDouble
      <4>3. Fits(si.reg_idx, arg_words("x86_64", k))
        BY <1>7, <3>2, <4>1 DEF Local
      <4>4. PICK new \in Seq(PrologueMoves) :
              /\ Spill("x86_64", si, k, place).moves = si.moves \o new
              /\ Carries(new, "x86_64", si.reg_idx, place, arg_words("x86_64", k))
        BY <4>2, <4>3, SpillX86Carries
      <4>5. si.reg_idx \in Nat
        BY DEF Spilling
      <4>6. ASSUME Unsplit(t, f.params, i) PROVE si.reg_idx = x + b
        <5>1. b = 0
          BY <1>1, <1>5, <3>2, WordsAre
        <5>2. Unsplit(t, f.params, i - 1) /\ ~(x < 6 /\ 6 < LastWord(t, f.params)[i])
          <6>1. \A j \in 1..i : ~(LastWord(t, f.params)[j - 1] < 6 /\ 6 < LastWord(t, f.params)[j])
            BY <3>2, <4>6 DEF Unsplit
          <6>2. i \in 1..i /\ \A j \in 1..i - 1 : j \in 1..i
            BY <1>1
          <6> QED BY <1>5, <6>1, <6>2 DEF Unsplit
        <5>3. pi.reg_idx = IF x <= 6 THEN x ELSE 6
          BY <1>1, <1>2, <1>5, <3>2, <5>2, CountedX86
        <5>4. pi.reg_idx + a <= 6
          BY <1>4, <3>2, <4>1, <4>3 DEF Fits
        <5> QED BY <4>1, <5>1, <5>3, <5>4
      <4> QED BY <1>3, <1>4, <3>2, <4>4, <4>5, <4>6
    <3> QED BY <3>1, <3>2
  <2>5. /\ place + z * a = -c /\ place + z * a <= 0
        /\ place = -p[i].offset
    BY <2>2, <2>3
  <2>6. /\ Separate(new) /\ Between(new, place, place + z * a)
        /\ \A w \in 1..a : Among(Carried(t, first + w - 1, place + z * (w - 1)), new)
    <3>1. place + WordSize(t) * a <= 0 /\ a \in Nat
      BY <1>4, <2>5
    <3>2. /\ Separate(new) /\ Between(new, place, place + WordSize(t) * a)
          /\ \A w \in 1..a : Among(Carried(t, first + w - 1, place + WordSize(t) * (w - 1)), new)
      BY <2>4, <3>1, CarriesSeparate, Zenon
    <3> QED BY <1>4, <3>2, Zenon
  <2>7. ASSUME Unsplit(t, f.params, i), NEW w \in 1..a
        PROVE  Among(Carried(t, Rank(t, f.params, i, w), place + z * (w - 1)), new)
    BY <1>6, <2>4, <2>6, <2>7
  <2>8. Between(new, -p[i].offset, -pi.offset)
    BY <2>1, <2>5, <2>6
  <2> QED BY <1>2, <1>4, <2>4, <2>6, <2>7, <2>8
<1>8. CASE ~Local(t, pi, k)
  <2>1. t = "x86_64"
    BY <1>8 DEF Local
  <2>2. si.reg_idx = pi.reg_idx
    BY <1>1, <1>2, <2>1, RegistersAgree
  <2>3. k # "ldouble"
    BY <1>2, <2>1 DEF NoLongDouble
  <2>4. WordsIn(t, k) = arg_words(t, k)
    BY <1>1, <2>1, <2>3, WordsAre
  <2>5. ~Fits(si.reg_idx, WordsIn("x86_64", k))
    BY <1>8, <2>1, <2>2, <2>4 DEF Local
  <2>6. s[i] = si
    BY <1>3, <2>1, <2>5, SpillX86Is
  <2>7. PICK none \in Seq(PrologueMoves) : none = << >>
    <3>1. << >> \in Seq(PrologueMoves)
      OBVIOUS
    <3> QED BY <3>1
  <2>8. Len(none) = 0
    BY <2>7
  <2>9. Separate(none) /\ Between(none, -p[i].offset, -p[i - 1].offset)
    BY <2>8 DEF Separate, Between
  <2>10. si.moves = si.moves \o none
    <3>1. si.moves \in Seq(PrologueMoves)
      BY DEF Spilling
    <3> QED BY <2>7, <3>1
  <2> QED BY <1>2, <1>8, <2>6, <2>9, <2>10
<1> QED BY <1>7, <1>8

\* Two lists within a range are one.
LEMMA BetweenJoin ==
  ASSUME NEW old \in Seq(PrologueMoves), NEW new \in Seq(PrologueMoves),
         NEW a \in Int, NEW b \in Int, NEW c \in Int, NEW d \in Int,
         NEW low \in Int, NEW high \in Int,
         Between(old, a, b), Between(new, c, d), low <= a, low <= c, b <= high, d <= high
  PROVE  Between(old \o new, low, high)
<1>1. PICK both \in Seq(PrologueMoves) : both = old \o new
  <2>1. old \o new \in Seq(PrologueMoves)
    OBVIOUS
  <2> QED BY <2>1
<1>2. ASSUME NEW j \in 1..Len(both) PROVE low <= both[j].to /\ both[j].to < high
  <2>1. CASE j <= Len(old)
    <3>1. j \in 1..Len(old) /\ both[j] = old[j]
      BY <1>1, <2>1
    <3>2. PICK to \in Int : to = old[j].to /\ a <= to /\ to < b
      BY <3>1, MoveTyped DEF Between
    <3>3. both[j].to = to
      BY <3>1, <3>2
    <3>4. low <= to /\ to < high
      BY <3>2
    <3> QED BY <3>3, <3>4
  <2>2. CASE j > Len(old)
    <3>1. PICK y \in 1..Len(new) : both[j] = new[y]
      <4>1. j - Len(old) \in 1..Len(new) /\ both[j] = new[j - Len(old)]
        BY <1>1, <2>2
      <4> QED BY <4>1
    <3>2. PICK to \in Int : to = new[y].to /\ c <= to /\ to < d
      BY MoveTyped DEF Between
    <3>3. both[j].to = to
      BY <3>1, <3>2
    <3>4. low <= to /\ to < high
      BY <3>2
    <3> QED BY <3>3, <3>4
  <2> QED BY <2>1, <2>2
<1> QED BY <1>1, <1>2 DEF Between

\* The registers and the words behind them are copied to one array.
LEMMA VariadicMoves ==
  ASSUME NEW t \in Targets, NEW f \in Functions
  PROVE  /\ Separate(SaveVariadics(t, f)) /\ Between(SaveVariadics(t, f), -FirstOffset(t, f), 0)
         /\ f.is_varargs /\ t # "i386" =>
              \A r \in 0..(IF t = "x86_64" THEN 21 ELSE 7) :
                Among(Carried(t, r, SaveArea(t) + WordSize(t) * r), SaveVariadics(t, f))
<1>1. CASE ~f.is_varargs \/ t = "i386"
  <2>1. SaveVariadics(t, f) = << >>
    BY <1>1 DEF SaveVariadics
  <2> QED BY <1>1, <2>1 DEF Separate, Between
<1>2. CASE f.is_varargs /\ t = "rv32"
  <2> DEFINE M(n) == Move("reg", n - 1, -32 + 4 * (n - 1))
             moves == [n \in 1..8 |-> M(n)]
  <2>1. SaveVariadics(t, f) = moves \o << >>
    BY <1>2 DEF SaveVariadics, ArgRegisters, SaveArea, WordSize
  <2>2. \A n \in 1..8 : M(n) \in PrologueMoves /\ M(n) = Carried("rv32", 0 + n - 1, -32 + 4 * (n - 1))
    BY DEF Move, PrologueMoves, Carried, ArgRegisters
  <2>3. moves \in Seq(PrologueMoves) /\ Len(moves) = 8
    BY <2>2
  <2>4. WordSize("rv32") = 4 /\ SaveArea("rv32") = -32 /\ FirstOffset(t, f) = 32
    BY <1>2 DEF WordSize, SaveArea, FirstOffset
  <2>5. \A n \in 1..8 : moves[n] = Carried("rv32", 0 + n - 1, -32 + 4 * (n - 1))
    BY <2>2
  <2> HIDE DEF moves, M
  <2>6. Carries(moves, "rv32", 0, -32, 8)
    BY <2>3, <2>4, <2>5 DEF Carries
  <2>7. /\ Separate(moves) /\ Between(moves, -32, -32 + WordSize("rv32") * 8)
        /\ \A w \in 1..8 : Among(Carried("rv32", 0 + w - 1, -32 + WordSize("rv32") * (w - 1)), moves)
    <3>1. PICK first \in Nat, place \in Int, words \in Nat :
            first = 0 /\ place = -32 /\ words = 8
      OBVIOUS
    <3>2. Carries(moves, "rv32", first, place, words) /\ place + WordSize("rv32") * words <= 0
      BY <2>2, <2>4, <2>6, <3>1
    <3>3. /\ Separate(moves) /\ Between(moves, place, place + WordSize("rv32") * words)
          /\ \A w \in 1..words :
               Among(Carried("rv32", first + w - 1, place + WordSize("rv32") * (w - 1)), moves)
      BY <3>2, CarriesSeparate
    <3> QED BY <3>1, <3>3
  <2>8. SaveVariadics(t, f) = moves
    BY <2>1, <2>3
  <2>9. ASSUME NEW r \in 0..7
        PROVE  Among(Carried("rv32", r, SaveArea("rv32") + WordSize("rv32") * r), moves)
    <3>1. r + 1 \in 1..8 /\ 0 + (r + 1) - 1 = r /\ (r + 1) - 1 = r
      OBVIOUS
    <3>2. Among(Carried("rv32", 0 + (r + 1) - 1, -32 + WordSize("rv32") * ((r + 1) - 1)), moves)
      BY <2>7, <3>1
    <3> QED BY <2>4, <3>1, <3>2
  <2>10. Between(moves, -FirstOffset(t, f), 0)
    BY <2>4, <2>7
  <2> QED BY <1>2, <2>7, <2>8, <2>9, <2>10
<1>3. CASE f.is_varargs /\ t = "x86_64"
  <2> DEFINE M(n) == Move("reg", n - 1, -192 + 8 * (n - 1))
             A(n) == Move("above", 16 + 8 * (n - 1), -192 + 8 * (n + 5))
             regs == [n \in 1..6 |-> M(n)]
             copies == [n \in 1..16 |-> A(n)]
  <2>1. SaveVariadics(t, f) = regs \o copies
    BY <1>3 DEF SaveVariadics, ArgRegisters, SaveArea, WordSize
  <2>2. WordSize("x86_64") = 8 /\ SaveArea("x86_64") = -192 /\ FirstOffset(t, f) = 192
    BY <1>3 DEF WordSize, SaveArea, FirstOffset
  <2>3. /\ \A n \in 1..6 : M(n) \in PrologueMoves
                           /\ M(n) = Carried("x86_64", 0 + n - 1, -192 + 8 * (n - 1))
        /\ \A n \in 1..16 : A(n) \in PrologueMoves
                            /\ A(n) = Carried("x86_64", 6 + n - 1, -144 + 8 * (n - 1))
    <3>1. \A n \in 1..6 : M(n) \in PrologueMoves
                          /\ M(n) = Carried("x86_64", 0 + n - 1, -192 + 8 * (n - 1))
      BY DEF Move, PrologueMoves, Carried, ArgRegisters
    <3>2. ASSUME NEW n \in 1..16 PROVE A(n) = Carried("x86_64", 6 + n - 1, -144 + 8 * (n - 1))
      <4>1. ~(6 + n - 1 < 6) /\ 6 + n - 1 - 6 = n - 1 /\ -192 + 8 * (n + 5) = -144 + 8 * (n - 1)
        OBVIOUS
      <4>2. Carried("x86_64", 6 + n - 1, -144 + 8 * (n - 1))
              = Move("above", 16 + 8 * (6 + n - 1 - 6), -144 + 8 * (n - 1))
        BY <2>2, <4>1 DEF Carried, ArgRegisters
      <4> QED BY <4>1, <4>2
    <3>3. \A n \in 1..16 : A(n) \in PrologueMoves
      BY DEF Move, PrologueMoves
    <3> QED BY <3>1, <3>2, <3>3
  <2>4. /\ regs \in Seq(PrologueMoves) /\ Len(regs) = 6
        /\ copies \in Seq(PrologueMoves) /\ Len(copies) = 16
        /\ \A n \in 1..6 : regs[n] = Carried("x86_64", 0 + n - 1, -192 + 8 * (n - 1))
        /\ \A n \in 1..16 : copies[n] = Carried("x86_64", 6 + n - 1, -144 + 8 * (n - 1))
    BY <2>3
  <2> HIDE DEF regs, copies, M, A
  <2>5. Carries(regs, "x86_64", 0, -192, 6) /\ Carries(copies, "x86_64", 6, -144, 16)
    <3>1. /\ \A w \in 1..6 : regs[w] = Carried("x86_64", 0 + w - 1, -192 + WordSize("x86_64") * (w - 1))
          /\ \A w \in 1..16 : copies[w] = Carried("x86_64", 6 + w - 1, -144 + WordSize("x86_64") * (w - 1))
      <4>1. PICK z \in {8} : z = WordSize("x86_64")
        BY <2>2
      <4>2. /\ \A w \in 1..6 : regs[w] = Carried("x86_64", 0 + w - 1, -192 + z * (w - 1))
            /\ \A w \in 1..16 : copies[w] = Carried("x86_64", 6 + w - 1, -144 + z * (w - 1))
        <5>1. z = 8
          OBVIOUS
        <5> QED BY <2>4, <5>1, Zenon
      <4> QED BY <4>1, <4>2, ZenonT(30)
    <3>2. Carries(regs, "x86_64", 0, -192, 6)
      BY <2>4, <3>1, Zenon DEF Carries
    <3>3. Carries(copies, "x86_64", 6, -144, 16)
      BY <2>4, <3>1, Zenon DEF Carries
    <3> QED BY <3>2, <3>3
  <2>6. /\ Separate(regs) /\ Between(regs, -192, -192 + WordSize("x86_64") * 6)
        /\ \A w \in 1..6 : Among(Carried("x86_64", 0 + w - 1, -192 + WordSize("x86_64") * (w - 1)), regs)
    <3>1. PICK first \in Nat, place \in Int, words \in Nat :
            first = 0 /\ place = -192 /\ words = 6
      OBVIOUS
    <3>2. Carries(regs, "x86_64", first, place, words) /\ place + WordSize("x86_64") * words <= 0
      <4>1. Carries(regs, "x86_64", first, place, words)
        BY <2>5, <3>1, Zenon
      <4> QED BY <2>2, <3>1, <4>1
    <3>3. /\ Separate(regs) /\ Between(regs, place, place + WordSize("x86_64") * words)
          /\ \A w \in 1..words :
               Among(Carried("x86_64", first + w - 1, place + WordSize("x86_64") * (w - 1)), regs)
      BY <3>2, CarriesSeparate
    <3> QED BY <3>1, <3>3
  <2>7. /\ Separate(copies) /\ Between(copies, -144, -144 + WordSize("x86_64") * 16)
        /\ \A w \in 1..16 :
             Among(Carried("x86_64", 6 + w - 1, -144 + WordSize("x86_64") * (w - 1)), copies)
    <3>1. PICK first \in Nat, place \in Int, words \in Nat :
            first = 6 /\ place = -144 /\ words = 16
      OBVIOUS
    <3>2. Carries(copies, "x86_64", first, place, words) /\ place + WordSize("x86_64") * words <= 0
      <4>1. Carries(copies, "x86_64", first, place, words)
        BY <2>5, <3>1, Zenon
      <4> QED BY <2>2, <3>1, <4>1
    <3>3. /\ Separate(copies) /\ Between(copies, place, place + WordSize("x86_64") * words)
          /\ \A w \in 1..words :
               Among(Carried("x86_64", first + w - 1, place + WordSize("x86_64") * (w - 1)), copies)
      BY <3>2, CarriesSeparate
    <3> QED BY <3>1, <3>3
  <2>8. Between(regs, -192, -144) /\ Between(copies, -144, -16)
    BY <2>2, <2>6, <2>7
  <2>9. \A i \in 1..Len(regs) : \A j \in 1..Len(copies) : regs[i].to # copies[j].to
    <3>1. ASSUME NEW i \in 1..Len(regs), NEW j \in 1..Len(copies) PROVE regs[i].to # copies[j].to
      <4>1. regs[i].to \in Int /\ copies[j].to \in Int
        BY <2>4, MoveTyped
      <4>2. regs[i].to < -144 /\ -144 <= copies[j].to
        BY <2>8 DEF Between
      <4> QED BY <4>1, <4>2
    <3> QED BY <3>1
  <2>10. /\ Separate(regs \o copies)
         /\ \A v : Among(v, regs) \/ Among(v, copies) => Among(v, regs \o copies)
    BY <2>4, <2>6, <2>7, <2>9, SeparateJoin
  <2>11. Between(regs \o copies, -192, 0)
    <3>1. PICK x \in Int, y \in Int, z \in Int, o \in Int :
            /\ x = -192 /\ y = -144 /\ z = -16 /\ o = 0
            /\ x <= x /\ x <= y /\ y <= o /\ z <= o
      OBVIOUS
    <3>2. Between(regs, x, y) /\ Between(copies, y, z)
      BY <2>8, <3>1
    <3>3. x <= x /\ x <= y /\ y <= o /\ z <= o
      BY <3>1
    <3>4. PICK one \in Seq(PrologueMoves), two \in Seq(PrologueMoves) : one = regs /\ two = copies
      BY <2>4
    <3>5. Between(one \o two, x, o)
      BY <3>2, <3>3, <3>4, BetweenJoin
    <3> QED BY <3>1, <3>4, <3>5
  <2>12. ASSUME NEW r \in 0..21
         PROVE  Among(Carried("x86_64", r, SaveArea("x86_64") + WordSize("x86_64") * r), regs \o copies)
    <3>1. CASE r < 6
      <4>1. r + 1 \in 1..6 /\ 0 + (r + 1) - 1 = r /\ (r + 1) - 1 = r
        BY <3>1
      <4>2. Among(Carried("x86_64", 0 + (r + 1) - 1, -192 + WordSize("x86_64") * ((r + 1) - 1)), regs)
        BY <2>6, <4>1
      <4>3. Among(Carried("x86_64", r, SaveArea("x86_64") + WordSize("x86_64") * r), regs)
        BY <2>2, <4>1, <4>2
      <4> QED BY <2>10, <4>3
    <3>2. CASE r >= 6
      <4>1. r - 5 \in 1..16 /\ 6 + (r - 5) - 1 = r /\ -144 + 8 * ((r - 5) - 1) = -192 + 8 * r
        BY <3>2
      <4>2. Among(Carried("x86_64", 6 + (r - 5) - 1, -144 + WordSize("x86_64") * ((r - 5) - 1)), copies)
        BY <2>7, <4>1
      <4>3. Among(Carried("x86_64", r, SaveArea("x86_64") + WordSize("x86_64") * r), copies)
        BY <2>2, <4>1, <4>2
      <4> QED BY <2>10, <4>3
    <3> QED BY <3>1, <3>2
  <2> QED BY <1>3, <2>1, <2>2, <2>10, <2>11, <2>12
<1> QED BY <1>1, <1>2, <1>3 DEF Targets, Functions

\* The words of parameter j are among the moves that carry them to its place.
Delivered(moves, t, f, p, j) ==
  Local(t, p[j - 1], f.params[j]) /\ Unsplit(t, f.params, j) =>
    \A w \in 1..arg_words(t, f.params[j]) :
      Among(Carried(t, Rank(t, f.params, j, w),
                    Parameters(t, f).places[j] + WordSize(t) * (w - 1)), moves)

\* The moves of all the parameters, each below the place of the one before.
LEMMA ParametersMove ==
  ASSUME NEW t \in {"x86_64", "rv32"}, NEW f \in Functions, NoLongDouble(t, f),
         NEW p, Places(p, t, f), NEW s, Spills(s, t, f), NEW n \in Nat, n = Len(f.params)
  PROVE  /\ s[n].moves \in Seq(PrologueMoves) /\ Separate(s[n].moves)
         /\ \A j \in 1..Len(s[n].moves) : s[n].moves[j].to < -FirstOffset(t, f)
         /\ \A j \in 1..n : Delivered(s[n].moves, t, f, p, j)
<1> DEFINE Good(i) ==
             /\ Separate(s[i].moves) /\ Between(s[i].moves, -p[i].offset, -FirstOffset(t, f))
             /\ \A j \in 1..i : Delivered(s[i].moves, t, f, p, j)
           S == {i \in Nat : i <= n => Good(i)}
<1>1. \A i \in 0..n : s[i].moves \in Seq(PrologueMoves) /\ p[i].offset \in Nat
  BY DEF Spills, Spilling, Places, Placing
<1>2. 0 \in S
  <2>1. s[0].moves = << >>
    BY DEF Spills, NothingSpilled
  <2> QED BY <2>1 DEF Separate, Between
<1>3. ASSUME NEW i \in S PROVE i + 1 \in S
  <2> SUFFICES ASSUME i + 1 <= n PROVE Good(i + 1)
    OBVIOUS
  <2>1. i \in Nat /\ Good(i) /\ i + 1 - 1 = i /\ i + 1 \in 1..n /\ i \in 0..n /\ i + 1 \in 0..n
    OBVIOUS
  <2> HIDE DEF S
  <2>2. PICK old \in Seq(PrologueMoves) : old = s[i].moves
    BY <1>1, <2>1
  <2>3. PICK new \in Seq(PrologueMoves) :
          /\ s[i + 1].moves = old \o new /\ Separate(new)
          /\ Between(new, -p[i + 1].offset, -p[i].offset)
          /\ Delivered(new, t, f, p, i + 1)
    <3>1. PICK q \in 1..Len(f.params) : q = i + 1 /\ q - 1 = i
      <4>1. i + 1 \in 1..Len(f.params)
        BY <2>1
      <4> QED BY <2>1, <4>1
    <3>2. \E new \in Seq(PrologueMoves) :
           /\ s[q].moves = s[q - 1].moves \o new /\ Separate(new)
           /\ Between(new, -p[q].offset, -p[q - 1].offset)
           /\ Delivered(new, t, f, p, q)
      <4> HIDE DEF Good, S
      <4>1. \E new \in Seq(PrologueMoves) :
              /\ s[q].moves = s[q - 1].moves \o new /\ Separate(new)
              /\ Between(new, -p[q].offset, -p[q - 1].offset)
              /\ Local(t, p[q - 1], f.params[q]) /\ Unsplit(t, f.params, q) =>
                   \A w \in 1..arg_words(t, f.params[q]) :
                     Among(Carried(t, Rank(t, f.params, q, w),
                                   Parameters(t, f).places[q] + WordSize(t) * (w - 1)), new)
        BY ParameterMoves, ZenonT(60)
      <4> QED BY <4>1, Zenon DEF Delivered
    <3>3. \E new \in Seq(PrologueMoves) :
           /\ s[i + 1].moves = old \o new /\ Separate(new)
           /\ Between(new, -p[i + 1].offset, -p[i].offset)
           /\ Delivered(new, t, f, p, i + 1)
      <4> HIDE DEF Good
      <4> QED BY <2>2, <3>1, <3>2
    <3> QED BY <3>3
  <2>4. PICK a \in Nat, b \in Nat, c \in Int :
          a = p[i].offset /\ b = p[i + 1].offset /\ c = FirstOffset(t, f) /\ c <= a /\ a <= b
    <3>1. p[i].offset \in Nat /\ p[i + 1].offset \in Nat
      BY <1>1, <2>1
    <3>2. FirstOffset(t, f) \in Int
      BY DEF FirstOffset
    <3>3. FirstOffset(t, f) <= p[i].offset
      BY <2>1, PlacesStay DEF Targets
    <3>4. p[i].offset <= p[i + 1].offset
      <4>1. PICK k \in Kinds, pi \in Placing : k = f.params[i + 1] /\ pi = p[i]
        <5> HIDE DEF Good
        <5>1. f.params[i + 1] \in Kinds
          BY <2>1 DEF Functions
        <5>2. p[i] \in Placing
          BY <2>1 DEF Places
        <5> QED BY <5>1, <5>2
      <4>2. p[i + 1] = AddParameter(t, pi, k)
        BY <2>1, <4>1 DEF Places
      <4>3. t \in Targets
        BY DEF Targets
      <4>4. PICK bytes \in Nat : bytes = WordSize(t) * arg_words(t, k)
        BY <4>3, WordsAre
      <4>5. p[i + 1].offset = pi.offset + bytes \/ p[i + 1].offset = pi.offset
        BY <4>2, <4>3, <4>4, AddParameterIs
      <4> QED BY <3>1, <4>1, <4>4, <4>5
    <3> QED BY <3>1, <3>2, <3>3, <3>4
  <2>5. Separate(old) /\ Between(old, -a, -c) /\ Between(new, -b, -a)
    BY <2>1, <2>2, <2>3, <2>4
  <2>6. \A j \in 1..i : Delivered(old, t, f, p, j)
    BY <2>1, <2>2
  <2> HIDE DEF Good
  <2>7. \A x \in 1..Len(old) : \A y \in 1..Len(new) : old[x].to # new[y].to
    <3>1. ASSUME NEW x \in 1..Len(old), NEW y \in 1..Len(new) PROVE old[x].to # new[y].to
      <4>1. old[x].to \in Int /\ new[y].to \in Int
        BY MoveTyped
      <4>2. -a <= old[x].to /\ new[y].to < -a
        BY <2>5 DEF Between
      <4> QED BY <4>1, <4>2
    <3> QED BY <3>1
  <2>8. PICK both \in Seq(PrologueMoves) : both = old \o new
    <3>1. old \o new \in Seq(PrologueMoves)
      OBVIOUS
    <3> QED BY <3>1
  <2>9. Separate(both) /\ \A v : Among(v, old) \/ Among(v, new) => Among(v, both)
    BY <2>3, <2>5, <2>7, <2>8, SeparateJoin
  <2>10. Between(both, -b, -c)
    <3>1. -a \in Int /\ -b \in Int /\ -c \in Int /\ -b <= -a /\ -a <= -c
          /\ -b <= -b /\ -c <= -c
      <4>1. c <= a /\ a <= b
        BY <2>4
      <4> QED BY <4>1
    <3> QED BY <2>5, <2>8, <3>1, BetweenJoin
  <2>11. ASSUME NEW j \in 1..i + 1 PROVE Delivered(both, t, f, p, j)
    <3>1. CASE j <= i
      <4>1. j \in 1..i
        BY <2>1, <3>1
      <4> QED BY <2>6, <2>9, <4>1 DEF Delivered
    <3>2. CASE j > i
      <4>1. j = i + 1
        BY <2>1, <3>2
      <4> QED BY <2>3, <2>9, <4>1 DEF Delivered
    <3> QED BY <2>1, <3>1, <3>2
  <2> QED BY <2>3, <2>4, <2>8, <2>9, <2>10, <2>11 DEF Good
<1>4. S \in SUBSET Nat
  OBVIOUS
<1> HIDE DEF S
<1>5. S = Nat
  BY <1>2, <1>3, <1>4, Induction
<1>6. Good(n)
  BY <1>5 DEF S
<1> QED BY <1>1, <1>6 DEF Between

\* What the prologue moves: the places are separate, and all that the function
\* may look for in its frame is moved.
LEMMA MovesReach ==
  ASSUME NEW t \in Targets, NEW f \in Functions, NoLongDouble(t, f), NEW p, Places(p, t, f)
  PROVE  /\ Separate(Moves(t, f))
         /\ \A j \in 1..Len(f.params) : Delivered(Moves(t, f), t, f, p, j)
         /\ f.is_varargs /\ t # "i386" =>
              \A r \in 0..(IF t = "x86_64" THEN 21 ELSE 7) :
                Among(Carried(t, r, SaveArea(t) + WordSize(t) * r), Moves(t, f))
<1>1. PICK n \in Nat : n = Len(f.params)
  BY DEF Functions
<1>2. PICK s : Spills(s, t, f)
  BY MovesAre
<1>3. PICK saved \in Seq(PrologueMoves) : saved = SaveVariadics(t, f)
  BY VariadicsWithin
<1>4. PICK old \in Seq(PrologueMoves) : old = s[n].moves /\ Moves(t, f) = old \o saved
  <2>1. s[n] \in Spilling
    BY <1>1, <1>2 DEF Spills
  <2>2. s[n].moves \in Seq(PrologueMoves)
    BY <2>1 DEF Spilling
  <2>3. Moves(t, f) = s[n].moves \o saved
    BY <1>1, <1>2, <1>3 DEF Spills
  <2> QED BY <2>2, <2>3
<1>5. CASE t = "i386"
  <2>1. \A j \in 1..n : ~Local(t, p[j - 1], f.params[j])
    BY <1>5 DEF Local
  <2>2. Moves(t, f) = << >>
    <3> DEFINE S == {i \in Nat : i <= n => s[i].moves = << >>}
    <3>1. 0 \in S /\ S \in SUBSET Nat
      BY <1>2 DEF Spills, NothingSpilled
    <3>2. ASSUME NEW i \in S PROVE i + 1 \in S
      <4> SUFFICES ASSUME i + 1 <= n PROVE s[i + 1].moves = << >>
        OBVIOUS
      <4>1. i \in 0..n /\ i + 1 \in 1..n /\ i + 1 - 1 = i /\ s[i].moves = << >>
        OBVIOUS
      <4> HIDE DEF S
      <4>2. PICK k \in Kinds, place \in Int, si \in Spilling :
              k = f.params[i + 1] /\ place = Parameters(t, f).places[i + 1] /\ si = s[i]
        <5>1. f.params[i + 1] \in Kinds
          BY <1>1, <4>1 DEF Functions
        <5>2. s[i] \in Spilling
          BY <1>1, <1>2, <4>1 DEF Spills
        <5>3. Parameters(t, f).places[i + 1] \in Int
          BY <1>1, <4>1, PlaceTyped
        <5> QED BY <5>1, <5>2, <5>3
      <4>3. s[i + 1] = Spill(t, si, k, place)
        BY <1>1, <1>2, <4>1, <4>2, SMTT(20) DEF Spills
      <4> QED BY <1>5, <4>1, <4>2, <4>3, SpillTyped
    <3> HIDE DEF S
    <3>3. S = Nat
      BY <3>1, <3>2, Induction
    <3>4. s[n].moves = << >>
      BY <3>3 DEF S
    <3>5. SaveVariadics(t, f) = << >>
      BY <1>5 DEF SaveVariadics
    <3> QED BY <1>3, <1>4, <3>4, <3>5
  <2> QED BY <1>1, <1>5, <2>1, <2>2 DEF Separate, Delivered
<1>6. CASE t # "i386"
  <2>1. t \in {"x86_64", "rv32"}
    BY <1>6 DEF Targets
  <2>2. /\ Separate(old) /\ \A j \in 1..Len(old) : old[j].to < -FirstOffset(t, f)
        /\ \A j \in 1..n : Delivered(old, t, f, p, j)
    BY <1>1, <1>2, <1>4, <2>1, ParametersMove
  <2>3. /\ Separate(saved) /\ Between(saved, -FirstOffset(t, f), 0)
        /\ f.is_varargs => \A r \in 0..(IF t = "x86_64" THEN 21 ELSE 7) :
             Among(Carried(t, r, SaveArea(t) + WordSize(t) * r), saved)
    BY <1>3, <1>6, VariadicMoves
  <2>4. PICK c \in Int : c = FirstOffset(t, f)
    BY <2>1 DEF FirstOffset
  <2>5. \A x \in 1..Len(old) : \A y \in 1..Len(saved) : old[x].to # saved[y].to
    <3>1. ASSUME NEW x \in 1..Len(old), NEW y \in 1..Len(saved) PROVE old[x].to # saved[y].to
      <4>1. old[x].to \in Int /\ saved[y].to \in Int
        BY MoveTyped
      <4>2. -c <= saved[y].to /\ old[x].to < -c
        BY <2>2, <2>3, <2>4 DEF Between
      <4> QED BY <4>1, <4>2
    <3> QED BY <3>1
  <2>6. /\ Separate(old \o saved)
        /\ \A v : Among(v, old) \/ Among(v, saved) => Among(v, old \o saved)
    BY <2>2, <2>3, <2>5, SeparateJoin
  <2>7. \A j \in 1..n : Delivered(old \o saved, t, f, p, j)
    BY <2>2, <2>6 DEF Delivered
  <2> QED BY <1>1, <1>4, <2>3, <2>6, <2>7
<1> QED BY <1>5, <1>6

-----------------------------------------------------------------------------
(***************************************************************************)
(* Sizes.                                                                  *)
(***************************************************************************)
\* The frame has room for the variables and the temporaries.
LEMMA FrameSize ==
  ASSUME NEW t \in Targets, NEW f \in Functions
  PROVE  /\ FirstLocal(t, f) \in Nat /\ stack_size(t, f) \in Nat
         /\ FirstLocal(t, f) + f.locals * WordSize(t) + 160 <= stack_size(t, f)
         /\ stack_size(t, f) % 16 = 0
<1>1. PICK p : Places(p, t, f)
  BY ParametersAre
<1>2. Parameters(t, f).offset \in Nat
  <2>1. Len(f.params) \in 0..Len(f.params)
    BY DEF Functions
  <2> QED BY <1>1, <2>1, PlacesStay DEF Places
<1>3. PICK low \in Nat : low = FirstLocal(t, f)
  BY <1>2 DEF FirstLocal, Reserve, Functions
<1>4. PICK bytes \in Nat : bytes = f.locals * WordSize(t)
  BY DEF Functions, WordSize
<1>5. PICK x \in Nat : x = low + bytes + 160
  OBVIOUS
<1>6. stack_size(t, f) = Multiple(x, 16)
  BY <1>3, <1>4, <1>5 DEF stack_size, LastLocal
<1>7. 16 \in Nat \ {0}
  OBVIOUS
<1>8. Multiple(x, 16) \in Nat /\ x <= Multiple(x, 16) /\ Multiple(x, 16) % 16 = 0
  BY <1>7, MultipleIs
<1> QED BY <1>3, <1>4, <1>5, <1>6, <1>8

\* The words of a call.
LEMMA CallSize ==
  ASSUME NEW t \in Targets, NEW kinds \in Seq(Kinds)
  PROVE  /\ total_words(t, kinds) \in Nat
         /\ reg_words_count(t, kinds) \in 0..8 /\ stack_words_count(t, kinds) \in Nat
         /\ total_words(t, kinds) = reg_words_count(t, kinds) + stack_words_count(t, kinds)
         /\ t = "rv32" /\ total_words(t, kinds) <= 8 =>
              reg_words_count(t, kinds) = total_words(t, kinds)
         /\ stack_pad(t, kinds) \in {0, 8} /\ (t # "x86_64" => stack_pad(t, kinds) = 0)
         /\ t = "x86_64" => (8 * stack_words_count(t, kinds) + stack_pad(t, kinds)) % 16 = 0
         /\ stack_bytes(t, kinds) \in Nat /\ stack_bytes(t, kinds) % 16 = 0
         /\ stack_words_count(t, kinds) * 4 <= stack_bytes(t, kinds)
<1>1. PICK n \in Nat : n = total_words(t, kinds)
  BY LastStep
<1>2. PICK r \in 0..8 : r = reg_words_count(t, kinds) /\ r <= n
                        /\ (t = "rv32" /\ n <= 8 => r = n)
  BY <1>1 DEF reg_words_count, ArgRegisters, Targets
<1>3. PICK s \in Nat : s = stack_words_count(t, kinds) /\ n = r + s
  BY <1>1, <1>2 DEF stack_words_count
<1>4. /\ stack_pad(t, kinds) \in {0, 8} /\ (t # "x86_64" => stack_pad(t, kinds) = 0)
      /\ t = "x86_64" => (8 * s + stack_pad(t, kinds)) % 16 = 0
  <2>1. PICK h \in Nat, b \in {0, 1} : s = 2 * h + b /\ b = s % 2
    OBVIOUS
  <2>2. stack_pad(t, kinds) = IF t = "x86_64" THEN 8 * b ELSE 0
    BY <1>3, <2>1 DEF stack_pad
  <2>3. (8 * s + 8 * b) % 16 = 0
    <3>0. PICK e \in Nat : e = h + b
      OBVIOUS
    <3>1. 8 * s + 8 * b = 16 * e
      BY <2>1, <3>0
    <3> QED BY <3>1
  <2> QED BY <2>1, <2>2, <2>3
<1>5. PICK x \in Nat : x = s * 4
  OBVIOUS
<1>6. 16 \in Nat \ {0}
  OBVIOUS
<1>7. Multiple(x, 16) \in Nat /\ x <= Multiple(x, 16) /\ Multiple(x, 16) % 16 = 0
  BY <1>6, MultipleIs
<1>8. stack_bytes(t, kinds) = Multiple(x, 16)
  BY <1>3, <1>5 DEF stack_bytes
<1> QED BY <1>1, <1>2, <1>3, <1>4, <1>5, <1>7, <1>8

-----------------------------------------------------------------------------
(***************************************************************************)
(* The memory.                                                             *)
(***************************************************************************)
Token == {"argument", "frame", "return", "address", "junk"} \X Int \X Int \X Int

Memories == UNION {[S -> Token] : S \in SUBSET Int}

Held(mem, a) == IF a \in DOMAIN mem THEN mem[a] ELSE Junk

\* What a word of memory may hold.
LEMMA Tokens ==
  /\ Junk \in Token
  /\ \A n, i, w \in Int : Argument(n, i, w) \in Token
  /\ \A n \in Int : FrameOf(n) \in Token /\ ReturnTo(n) \in Token /\ Address(n) \in Token
  /\ \A x \in Token : x[2] \in Int
BY DEF Token, Junk, Argument, FrameOf, ReturnTo, Address

\* A memory is a function from addresses to tokens.
LEMMA MemoryIs ==
  ASSUME NEW mem
  PROVE  mem \in Memories <=> /\ DOMAIN mem \subseteq Int
                              /\ mem = [a \in DOMAIN mem |-> mem[a]]
                              /\ \A a \in DOMAIN mem : mem[a] \in Token
<1>1. ASSUME mem \in Memories
      PROVE  /\ DOMAIN mem \subseteq Int /\ mem = [a \in DOMAIN mem |-> mem[a]]
             /\ \A a \in DOMAIN mem : mem[a] \in Token
  <2>1. PICK S \in SUBSET Int : mem \in [S -> Token]
    BY <1>1 DEF Memories
  <2> QED BY <2>1
<1>2. ASSUME DOMAIN mem \subseteq Int, mem = [a \in DOMAIN mem |-> mem[a]],
             \A a \in DOMAIN mem : mem[a] \in Token
      PROVE  mem \in Memories
  <2>1. mem \in [DOMAIN mem -> Token] /\ DOMAIN mem \in SUBSET Int
    BY <1>2
  <2> QED BY <2>1 DEF Memories
<1> QED BY <1>1, <1>2

\* An address that was not written holds something.
LEMMA HeldTyped ==
  ASSUME NEW mem \in Memories, NEW a
  PROVE  Held(mem, a) \in Token
BY MemoryIs, Tokens DEF Held

\* Writing changes what is written.
LEMMA WrittenIs ==
  ASSUME NEW mem \in Memories, NEW writes \in Memories
  PROVE  /\ Written(mem, writes) \in Memories
         /\ \A a : Held(Written(mem, writes), a)
                     = IF a \in DOMAIN writes THEN writes[a] ELSE Held(mem, a)
<1> DEFINE D == DOMAIN mem \cup DOMAIN writes
<1>1. PICK w : w = Written(mem, writes)
  OBVIOUS
<1>2. /\ DOMAIN w = D /\ w = [a \in D |-> w[a]]
      /\ \A a \in D : w[a] = IF a \in DOMAIN writes THEN writes[a] ELSE mem[a]
  BY <1>1 DEF Written
<1>3. DOMAIN mem \subseteq Int /\ DOMAIN writes \subseteq Int
  BY MemoryIs
<1>4. (\A a \in DOMAIN mem : mem[a] \in Token) /\ \A a \in DOMAIN writes : writes[a] \in Token
  BY MemoryIs
<1>5. w \in Memories
  <2>1. DOMAIN w \subseteq Int /\ \A a \in DOMAIN w : w[a] \in Token
    BY <1>2, <1>3, <1>4
  <2> QED BY <1>2, <2>1, MemoryIs
<1> QED BY <1>1, <1>2, <1>5 DEF Held

\* A memory of one word.
LEMMA WordIs ==
  ASSUME NEW a \in Int, NEW value \in Token
  PROVE  Word(a, value) \in Memories /\ DOMAIN Word(a, value) = {a} /\ Word(a, value)[a] = value
<1>1. DOMAIN Word(a, value) = {a} /\ Word(a, value)[a] = value
      /\ Word(a, value) = [x \in {a} |-> Word(a, value)[x]]
  BY DEF Word
<1> QED BY <1>1, MemoryIs

\* What is kept is not changed.
LEMMA KeptIs ==
  ASSUME NEW mem \in Memories, NEW sp \in Int
  PROVE  /\ Kept(mem, sp) \in Memories
         /\ \A a \in Int : a >= sp => Held(Kept(mem, sp), a) = Held(mem, a)
<1>1. PICK k, D : k = Kept(mem, sp) /\ D = {b \in DOMAIN mem : b >= sp}
  OBVIOUS
<1>2. DOMAIN k = D /\ k = [a \in D |-> k[a]] /\ \A a \in D : k[a] = mem[a]
  BY <1>1 DEF Kept
<1>3. DOMAIN mem \subseteq Int /\ \A a \in DOMAIN mem : mem[a] \in Token
  BY MemoryIs
<1>4. k \in Memories
  BY <1>1, <1>2, <1>3, MemoryIs
<1> QED BY <1>1, <1>2, <1>4 DEF Held

-----------------------------------------------------------------------------
IsMoved(after, machine, moves) ==
  after = [i \in 0..Len(moves) |->
             IF i = 0 THEN machine.mem ELSE OneMove(machine, after[i - 1], moves[i])]

\* One move of the prologue changes its place only.
LEMMA OneMoveIs ==
  ASSUME NEW machine, machine.fp \in Int, machine.reg \in [0..7 -> Token],
         NEW mem \in Memories, NEW v \in PrologueMoves
  PROVE  /\ OneMove(machine, mem, v) \in Memories
         /\ Held(OneMove(machine, mem, v), machine.fp + v.to) = Source(machine, mem, v)
         /\ \A a : a # machine.fp + v.to =>
              Held(OneMove(machine, mem, v), a) = Held(mem, a)
<1>1. v.to \in Int /\ v.n \in Int /\ (v.from = "reg" => v.n \in 0..7)
  BY DEF PrologueMoves
<1>2. Source(machine, mem, v) \in Token
  <2>1. CASE v.from = "reg"
    BY <1>1, <2>1 DEF Source
  <2>2. CASE v.from # "reg"
    <3>1. Source(machine, mem, v) = Held(mem, machine.fp + v.n)
      BY <2>2 DEF Source, Held
    <3> QED BY <3>1, HeldTyped
  <2> QED BY <2>1, <2>2
<1>3. PICK x \in Int, value \in Token : x = machine.fp + v.to /\ value = Source(machine, mem, v)
  BY <1>1, <1>2
<1>4. PICK w \in Memories : w = Word(x, value) /\ DOMAIN w = {x} /\ w[x] = value
  BY WordIs
<1>5. OneMove(machine, mem, v) = Written(mem, w)
  BY <1>3, <1>4 DEF OneMove
<1> QED BY <1>3, <1>4, <1>5, WrittenIs

\* The moves change nothing but their places; each carries its word there if
\* the places are separate, as no move overwrites what a later one reads.
LEMMA MovedIs ==
  ASSUME NEW machine, machine.fp \in Int, machine.reg \in [0..7 -> Token],
         machine.mem \in Memories, NEW moves \in Seq(PrologueMoves)
  PROVE  \E mem \in Memories :
           /\ Moved(machine, moves) = [machine EXCEPT !.mem = mem]
           /\ \A a : (\A i \in 1..Len(moves) : a # machine.fp + moves[i].to) =>
                       Held(mem, a) = Held(machine.mem, a)
           /\ Separate(moves) =>
                \A v : Among(v, moves) =>
                  Held(mem, machine.fp + v.to) = Source(machine, machine.mem, v)
<1> DEFINE step == [i \in 0..Len(moves) |-> [x \in Memories |->
                      IF i = 0 THEN x ELSE OneMove(machine, x, moves[i])]]
<1>1. PICK n \in Nat : n = Len(moves)
  OBVIOUS
<1>2. PICK first \in Memories : first = machine.mem
  OBVIOUS
<1>3. ASSUME NEW i \in 1..n, NEW x \in Memories
      PROVE  /\ OneMove(machine, x, moves[i]) \in Memories
             /\ Held(OneMove(machine, x, moves[i]), machine.fp + moves[i].to)
                  = Source(machine, x, moves[i])
             /\ \A a : a # machine.fp + moves[i].to =>
                  Held(OneMove(machine, x, moves[i]), a) = Held(x, a)
  <2>1. moves[i] \in PrologueMoves
    BY <1>1
  <2> QED BY <2>1, OneMoveIs
<1>4. step \in [0..n -> [Memories -> Memories]]
  <2>1. ASSUME NEW i \in 0..n, NEW x \in Memories, i # 0
        PROVE  OneMove(machine, x, moves[i]) \in Memories
    <3>1. i \in 1..n
      BY <2>1
    <3> QED BY <1>3, <3>1
  <2> QED BY <1>1, <2>1
<1> HIDE DEF step
<1>5. PICK g : Follows(g, n, Memories, first, step)
  BY <1>4, Recursion, Zenon
<1>6. g \in [0..n -> Memories] /\ g[0] = first /\ \A k \in 1..n : g[k] = step[k][g[k - 1]]
  BY <1>5 DEF Follows
<1>7. ASSUME NEW i \in 0..n
      PROVE  g[i] = IF i = 0 THEN machine.mem ELSE OneMove(machine, g[i - 1], moves[i])
  <2>1. CASE i = 0
    BY <1>2, <1>6, <2>1
  <2>2. CASE i # 0
    <3>1. i \in 1..n /\ i - 1 \in 0..n
      BY <2>2
    <3>2. g[i] = step[i][g[i - 1]] /\ g[i - 1] \in Memories
      BY <1>6, <3>1
    <3> QED BY <1>1, <2>2, <3>2 DEF step
  <2> QED BY <2>1, <2>2
<1>8. g = [i \in 0..n |-> g[i]]
  BY <1>6
<1>9. IsMoved(g, machine, moves)
  BY <1>1, <1>7, <1>8, Zenon DEF IsMoved
<1>10. PICK after : after = CHOOSE h : IsMoved(h, machine, moves)
  OBVIOUS
<1>11. IsMoved(after, machine, moves)
  BY <1>9, <1>10, Zenon
<1>12. Moved(machine, moves) = [machine EXCEPT !.mem = after[n]]
  BY <1>1, <1>10, Zenon DEF Moved, IsMoved
<1>13. /\ after[0] = machine.mem
       /\ \A i \in 1..n : after[i] = OneMove(machine, after[i - 1], moves[i])
  BY <1>1, <1>11 DEF IsMoved
<1> DEFINE Untouched == {x \in Memories :
             \A a : (\A i \in 1..n : a # machine.fp + moves[i].to) => Held(x, a) = Held(first, a)}
<1>14. \A i \in 0..n : after[i] \in Untouched
  <2>1. ASSUME NEW i \in 1..n, after[i - 1] \in Untouched PROVE after[i] \in Untouched
    <3>1. PICK x \in Memories : x = after[i - 1]
      BY <2>1
    <3>2. after[i] = OneMove(machine, x, moves[i])
      BY <1>13, <3>1
    <3>3. /\ after[i] \in Memories
          /\ \A a : a # machine.fp + moves[i].to => Held(after[i], a) = Held(x, a)
      BY <1>3, <3>2
    <3>4. \A a : (\A j \in 1..n : a # machine.fp + moves[j].to) => Held(x, a) = Held(first, a)
      BY <2>1, <3>1
    <3> QED BY <3>3, <3>4
  <2>2. after[0] \in Untouched
    BY <1>2, <1>13
  <2> HIDE DEF Untouched
  <2> QED BY <2>1, <2>2, Typed
<1>15. after[n] \in Untouched
  <2> HIDE DEF Untouched
  <2> QED BY <1>14
<1>16. ASSUME Separate(moves), NEW v, Among(v, moves)
       PROVE  Held(after[n], machine.fp + v.to) = Source(machine, first, v)
  <2> DEFINE Carrying(i) ==
               /\ after[i] \in Memories
               /\ \A j \in 1..i :
                    Held(after[i], machine.fp + moves[j].to) = Source(machine, first, moves[j])
               /\ \A a : (\A j \in 1..i : a # machine.fp + moves[j].to) =>
                           Held(after[i], a) = Held(first, a)
             S == {i \in Nat : i <= n => Carrying(i)}
  <2>1. PICK fp \in Int : fp = machine.fp
    OBVIOUS
  <2>2. \A j \in 1..n : moves[j] \in PrologueMoves /\ moves[j].to \in Int /\ moves[j].n \in Int
    BY <1>1 DEF PrologueMoves
  <2>3. /\ \A i, j \in 1..n : i # j => moves[i].to # moves[j].to
        /\ \A j \in 1..n : moves[j].to < 0 /\ (moves[j].from # "reg" => moves[j].n >= 0)
    BY <1>1, <1>16 DEF Separate
  <2>4. 0 \in S /\ S \in SUBSET Nat
    BY <1>2, <1>13
  <2>5. ASSUME NEW i \in S PROVE i + 1 \in S
    <3> SUFFICES ASSUME i + 1 <= n PROVE Carrying(i + 1)
      OBVIOUS
    <3>1. i \in Nat /\ Carrying(i) /\ i + 1 \in 1..n /\ i + 1 - 1 = i
      OBVIOUS
    <3> HIDE DEF S
    <3>2. PICK x \in Memories, y \in Memories, u \in PrologueMoves :
            x = after[i] /\ y = after[i + 1] /\ u = moves[i + 1] /\ y = OneMove(machine, x, u)
      <4>1. after[i] \in Memories /\ moves[i + 1] \in PrologueMoves
        BY <2>2, <3>1
      <4>2. after[i + 1] = OneMove(machine, after[i], moves[i + 1])
        BY <1>13, <3>1
      <4>3. OneMove(machine, after[i], moves[i + 1]) \in Memories
        BY <1>3, <3>1, <4>1
      <4> QED BY <4>1, <4>2, <4>3
    <3>3. /\ Held(y, fp + u.to) = Source(machine, x, u)
          /\ \A a : a # fp + u.to => Held(y, a) = Held(x, a)
      BY <1>3, <2>1, <3>1, <3>2
    <3>4. Source(machine, x, u) = Source(machine, first, u)
      <4>1. CASE u.from = "reg"
        BY <4>1 DEF Source
      <4>2. CASE u.from # "reg"
        <5>1. Source(machine, x, u) = Held(x, fp + u.n)
              /\ Source(machine, first, u) = Held(first, fp + u.n)
          BY <2>1, <4>2 DEF Source, Held
        <5>2. u.n \in Int /\ u.n >= 0
          BY <2>2, <2>3, <3>1, <3>2, <4>2
        <5>3. ASSUME NEW j \in 1..i PROVE fp + u.n # fp + moves[j].to
          <6>1. j \in 1..n
            BY <3>1
          <6>2. moves[j].to \in Int /\ moves[j].to < 0
            BY <2>2, <2>3, <6>1
          <6> QED BY <5>2, <6>2, SMTT(20)
        <5>4. Held(x, fp + u.n) = Held(first, fp + u.n)
          BY <2>1, <3>1, <3>2, <5>3
        <5> QED BY <5>1, <5>4
      <4> QED BY <4>1, <4>2
    <3>5. ASSUME NEW j \in 1..i + 1
          PROVE  Held(y, fp + moves[j].to) = Source(machine, first, moves[j])
      <4>1. CASE j = i + 1
        BY <3>2, <3>3, <3>4, <4>1
      <4>2. CASE j # i + 1
        <5>1. j \in 1..i /\ j \in 1..n
          BY <3>1, <4>2
        <5>2. moves[j].to # u.to /\ moves[j].to \in Int /\ u.to \in Int
          BY <2>2, <2>3, <3>1, <3>2, <4>2, <5>1
        <5>3. fp + moves[j].to # fp + u.to
          BY <5>2, SMTT(20)
        <5>4. Held(y, fp + moves[j].to) = Held(x, fp + moves[j].to)
          BY <3>3, <5>3
        <5> QED BY <2>1, <3>1, <3>2, <5>1, <5>4
      <4> QED BY <4>1, <4>2
    <3>6. ASSUME NEW a, \A j \in 1..i + 1 : a # fp + moves[j].to
          PROVE  Held(y, a) = Held(first, a)
      <4>1. \A j \in 1..i : j \in 1..i + 1
        BY <3>1
      <4>2. i + 1 \in 1..i + 1
        BY <3>1
      <4>3. a # fp + u.to /\ \A j \in 1..i : a # fp + moves[j].to
        BY <3>2, <3>6, <4>1, <4>2
      <4> QED BY <2>1, <3>1, <3>2, <3>3, <4>3
    <3> QED BY <2>1, <3>2, <3>5, <3>6
  <2> HIDE DEF S
  <2>6. S = Nat
    BY <2>4, <2>5, Induction
  <2>7. Carrying(n)
    BY <2>6 DEF S
  <2>8. PICK j \in 1..n : moves[j] = v
    BY <1>1, <1>16 DEF Among
  <2> QED BY <2>7, <2>8
<1> QED BY <1>1, <1>2, <1>12, <1>15, <1>16

-----------------------------------------------------------------------------
(***************************************************************************)
(* The invariant: what each call in progress finds on the stack.           *)
(***************************************************************************)
Phases == {"arguments", "call", "entry", "body", "returned"}

CallRecords ==
  [f : Functions, kinds : Seq(Kinds), n : Nat, phase : Phases, pushed : Nat,
   sp : Int, fp : Int, operands : Nat, frame : Int, lost : Nat, started : BOOLEAN,
   taken : Seq(Seq(Token)), back : Token]

\* The registers of doubles, which no call keeps, hold whatever XmmWords found.
TypeOK ==
  /\ target \in Targets
  /\ m = [sp |-> m.sp, fp |-> m.fp, ra |-> m.ra, reg |-> m.reg, xmm |-> m.xmm,
          mem |-> m.mem]
  /\ m.sp \in Int /\ m.fp \in Int /\ m.ra \in Token
  /\ m.reg \in [0..7 -> Token] /\ m.mem \in Memories
  /\ calls \in Seq(CallRecords)
  /\ made \in Nat

\* The stack and frame pointers to which call k + 1 returns.
SpAt(k) == IF k = Depth THEN m.sp ELSE calls[k + 1].sp
FpAt(k) == IF k = Depth THEN m.fp ELSE calls[k + 1].fp

PushedWords(c) ==
  IF target = "rv32" THEN LastWord(target, c.kinds)[c.pushed]
  ELSE total_words(target, c.kinds) - LastWord(target, c.kinds)[Len(c.kinds) - c.pushed]

\* The operands that wait for a call, and the padding below them.
Room(t, c) == (IF t = "i386" THEN 4 ELSE 16) * c.operands + stack_pad(t, c.kinds)

PushingAt(c, k) ==
  /\ c.pushed <= Len(c.kinds)
  /\ SpAt(k) = c.sp - Room(target, c) - Slot * PushedWords(c)
  /\ FpAt(k) = c.fp /\ c.lost = 0

CallingAt(c, k) == k = Depth /\ m.sp = c.sp - Dropped(c) /\ m.fp = c.fp /\ c.lost = 0

EnteringAt(c, k) ==
  /\ k = Depth /\ m.fp = c.fp /\ c.lost = 0
  /\ IF target = "rv32" THEN m.sp = c.sp - Dropped(c) /\ m.ra = ReturnTo(c.n)
     ELSE m.sp = c.sp - Dropped(c) - W /\ At(m.sp) = ReturnTo(c.n)

\* The saved registers are behind the frame on x86, and its lowest words on
\* RV32, where lost words may be below it.
FrameEnd(c) == c.frame - stack_size(target, c.f)

RunningAt(c, k) ==
  /\ FpAt(k) = c.frame
  /\ SpAt(k) = FrameEnd(c) - 4 * c.lost
  /\ IF target = "rv32"
     THEN /\ c.frame = c.sp - Dropped(c)
          /\ At(FrameEnd(c)) = ReturnTo(c.n) /\ At(FrameEnd(c) + 4) = FrameOf(c.fp)
     ELSE /\ c.frame = c.sp - Dropped(c) - 2 * W
          /\ At(c.frame) = FrameOf(c.fp) /\ At(c.frame + W) = ReturnTo(c.n)

ReturnedAt(c, k) ==
  k = Depth /\ m.sp = c.sp - Dropped(c) /\ m.fp = c.fp /\ c.back = ReturnTo(c.n)

LevelOK(c, k) ==
  /\ c.phase = "arguments" => PushingAt(c, k)
  /\ c.phase = "call" => CallingAt(c, k)
  /\ c.phase = "entry" => EnteringAt(c, k)
  /\ c.phase = "body" => RunningAt(c, k)
  /\ c.phase = "returned" => ReturnedAt(c, k)

\* A call is on an aligned stack unless it computes an argument on x86_64, or
\* a function below it has lost words.
Unshifted(n) ==
  /\ target = "rv32" \/ (target = "x86_64" /\ \A j \in 1..n : calls[j].phase # "arguments")
  /\ \A j \in 1..n : calls[j].lost = 0

AlignedAt(k) == Unshifted(k - 1) => calls[k].sp % 16 = 0

Descending == \A j, k \in 1..Depth : j <= k => calls[k].sp <= calls[j].sp

Base == SpAt(0) = -stack_size(target, Main) /\ FpAt(0) = 0

Levels == \A k \in 1..Depth : LevelOK(calls[k], k)

NoLongDoubles == \A k \in 1..Depth : NoLongDouble(target, calls[k].f)

Aligned == \A k \in 1..Depth : AlignedAt(k)

FramesInv == TypeOK /\ Base /\ Descending /\ NoLongDoubles /\ Levels /\ Aligned

-----------------------------------------------------------------------------
\* The call on top and the calls below it.
LEMMA Calls ==
  ASSUME TypeOK
  PROVE  /\ Depth \in Nat /\ DOMAIN calls = 1..Depth
         /\ \A k \in 1..Depth : calls[k] \in CallRecords
         /\ Depth > 0 => Top \in CallRecords /\ Top = calls[Depth] /\ Depth \in 1..Depth
BY DEF TypeOK, Depth, Top

\* The words and the slots of the three back ends.
LEMMA WIs ==
  ASSUME TypeOK
  PROVE  /\ target \in Targets
         /\ W \in {4, 8} /\ W = WordSize(target) /\ (target = "x86_64" <=> W = 8)
         /\ Slot = (IF target = "rv32" THEN 16 ELSE W) /\ Slot \in {4, 8, 16}
BY DEF TypeOK, W, WordSize, Slot, Targets

\* What a call leaves on the stack.
LEMMA DroppedIs ==
  ASSUME TypeOK, NEW c \in CallRecords
  PROVE  /\ Dropped(c) \in Nat
         /\ target # "i386" => Dropped(c) % 16 = 0
<1>1. c.kinds \in Seq(Kinds) /\ target \in Targets
  BY WIs DEF CallRecords
<1>2. PICK n \in Nat, r \in 0..8, s \in Nat, p \in {0, 8}, b \in Nat :
        /\ n = total_words(target, c.kinds) /\ r = reg_words_count(target, c.kinds)
        /\ s = stack_words_count(target, c.kinds) /\ p = stack_pad(target, c.kinds)
        /\ b = stack_bytes(target, c.kinds) /\ b % 16 = 0
        /\ (target = "x86_64" => (8 * s + p) % 16 = 0)
  BY <1>1, CallSize, SMTT(20)
<1>3. PICK o \in Nat : o = c.operands
  BY DEF CallRecords
<1>4. CASE target = "rv32"
  <2>1. Dropped(c) = 16 * o + IF n <= 8 THEN 0 ELSE 16 * n + b
    BY <1>2, <1>3, <1>4 DEF Dropped, Operand
  <2>2. (16 * o + (16 * n + b)) % 16 = 0 /\ (16 * o) % 16 = 0
        /\ 16 * o + (16 * n + b) \in Nat /\ 16 * o \in Nat
    BY <1>2
  <2>3. CASE n <= 8
    BY <2>1, <2>2, <2>3
  <2>4. CASE ~(n <= 8)
    BY <2>1, <2>2, <2>4
  <2> QED BY <2>3, <2>4
<1>5. CASE target = "x86_64"
  <2>1. Dropped(c) = 16 * o + (8 * s + p)
    BY <1>2, <1>3, <1>5 DEF Dropped, Operand, W, WordSize
  <2>2. (8 * s + p) % 16 = 0
    BY <1>2, <1>5
  <2> QED BY <2>1, <2>2
<1>6. CASE target = "i386"
  <2>1. Dropped(c) = 4 * o + (4 * s + p)
    BY <1>2, <1>3, <1>6 DEF Dropped, Operand, W, WordSize
  <2>2. 4 * o + (4 * s + p) \in Nat
    OBVIOUS
  <2> QED BY <1>6, <2>1, <2>2
<1> QED BY <1>1, <1>4, <1>5, <1>6 DEF Targets

\* The operands that wait and the padding are a number of bytes.
LEMMA RoomIs ==
  ASSUME NEW t \in Targets, NEW c \in CallRecords
  PROVE  /\ Room(t, c) \in Nat
         /\ t = "rv32" => Room(t, c) = 16 * c.operands
<1>1. c.kinds \in Seq(Kinds) /\ c.operands \in Nat
  BY DEF CallRecords
<1>2. stack_pad(t, c.kinds) \in {0, 8} /\ (t = "rv32" => stack_pad(t, c.kinds) = 0)
  BY <1>1, CallSize
<1> QED BY <1>1, <1>2 DEF Room

\* Neither changes while the call and its operands stay.
LEMMA RoomStays ==
  ASSUME target' = target, NEW c, NEW d, d.kinds = c.kinds, d.operands = c.operands
  PROVE  Dropped(d)' = Dropped(c) /\ Room(target, d)' = Room(target, c) /\ W' = W
         /\ Dropped(d) = Dropped(c)
<1>1. W' = W /\ Operand' = Operand
  BY DEF W, Operand
<1> QED BY <1>1 DEF Dropped, Room

\* The words pushed so far are a number.
LEMMA PushedIs ==
  ASSUME TypeOK, NEW c \in CallRecords, c.pushed <= Len(c.kinds)
  PROVE  PushedWords(c) \in Int
<1>1. c.kinds \in Seq(Kinds) /\ target \in Targets /\ c.pushed \in 0..Len(c.kinds)
      /\ Len(c.kinds) - c.pushed \in 0..Len(c.kinds)
  BY WIs DEF CallRecords
<1>2. /\ LastWord(target, c.kinds)[c.pushed] \in Nat
      /\ LastWord(target, c.kinds)[Len(c.kinds) - c.pushed] \in Nat
      /\ total_words(target, c.kinds) \in Nat
  BY <1>1, LastStep
<1> QED BY <1>2 DEF PushedWords

\* A call stays as it is while the words around its frame do.
LEMMA LevelKept ==
  ASSUME TypeOK, target' = target, NEW c \in CallRecords, NEW k, NEW s \in Int,
         LevelOK(c, k), c.phase \in {"arguments", "body"},
         SpAt(k) = s, SpAt(k)' = s, FpAt(k)' = FpAt(k),
         \A a \in Int : a >= s /\ ~(FrameEnd(c) + 4 < a /\ a < c.frame) =>
                          Held(m'.mem, a) = Held(m.mem, a)
  PROVE  LevelOK(c, k)'
<1>1. W' = W /\ Slot' = Slot
  BY DEF W, Slot
<1>2. Dropped(c)' = Dropped(c) /\ PushedWords(c)' = PushedWords(c) /\ FrameEnd(c)' = FrameEnd(c)
  BY <1>1 DEF Dropped, Operand, PushedWords, FrameEnd
<1>3. CASE c.phase = "arguments"
  <2>1. PushingAt(c, k)
    BY <1>3 DEF LevelOK
  <2>2. PushingAt(c, k)'
    BY <1>1, <1>2, <2>1 DEF PushingAt
  <2> QED BY <1>3, <2>2 DEF LevelOK
<1>4. CASE c.phase = "body"
  <2>1. RunningAt(c, k)
    BY <1>4 DEF LevelOK
  <2>2. c.f \in Functions /\ c.frame \in Int /\ target \in Targets
    BY WIs DEF CallRecords
  <2>3. PICK z \in Nat : z = stack_size(target, c.f)
    BY <2>2, FrameSize
  <2>4. PICK w \in {4, 8}, x \in Int : w = W /\ x = c.frame
    BY <2>2, WIs
  <2>5. PICK u \in Int, l \in Nat : u = FrameEnd(c) /\ u = x - z /\ l = c.lost /\ s = u - 4 * l
    BY <2>1, <2>2, <2>3, <2>4 DEF RunningAt, FrameEnd, CallRecords
  <2>6. /\ u \in Int /\ u + 4 \in Int /\ x \in Int /\ x + w \in Int
        /\ u >= s /\ u + 4 >= s /\ x >= s /\ x + w >= s
        /\ ~(u + 4 < u) /\ ~(u + 4 < u + 4) /\ ~(x < x) /\ ~(x + w < x)
    BY <2>5
  <2>7. \A a \in {u, u + 4, x, x + w} : Held(m'.mem, a) = Held(m.mem, a)
    BY <2>4, <2>5, <2>6
  <2>8. \A a : At(a) = Held(m.mem, a)
    BY DEF At, Held
  <2>9. \A a : At(a)' = Held(m'.mem, a)
    BY DEF At, Held
  <2>10. CASE target = "rv32"
    <3>1. /\ FpAt(k) = x /\ c.frame = c.sp - Dropped(c)
          /\ Held(m.mem, u) = ReturnTo(c.n) /\ Held(m.mem, u + 4) = FrameOf(c.fp)
      BY <2>1, <2>4, <2>5, <2>8, <2>10 DEF RunningAt
    <3>2. /\ FpAt(k)' = x /\ SpAt(k)' = FrameEnd(c)' - 4 * c.lost /\ FrameEnd(c)' = u
          /\ c.frame = c.sp - Dropped(c)'
          /\ Held(m'.mem, u) = ReturnTo(c.n) /\ Held(m'.mem, u + 4) = FrameOf(c.fp)
      BY <1>2, <2>4, <2>5, <2>7, <3>1
    <3>3. RunningAt(c, k)'
      BY <2>4, <2>9, <2>10, <3>2 DEF RunningAt
    <3> QED BY <1>4, <3>3 DEF LevelOK
  <2>11. CASE target # "rv32"
    <3>1. /\ FpAt(k) = x /\ c.frame = c.sp - Dropped(c) - 2 * W
          /\ Held(m.mem, x) = FrameOf(c.fp) /\ Held(m.mem, x + w) = ReturnTo(c.n)
      BY <2>1, <2>4, <2>8, <2>11 DEF RunningAt
    <3>2. /\ FpAt(k)' = x /\ SpAt(k)' = FrameEnd(c)' - 4 * c.lost
          /\ c.frame = c.sp - Dropped(c)' - 2 * W'
          /\ Held(m'.mem, x) = FrameOf(c.fp) /\ Held(m'.mem, x + w) = ReturnTo(c.n)
      BY <1>1, <1>2, <2>4, <2>5, <2>7, <3>1
    <3>3. RunningAt(c, k)'
      BY <1>1, <2>4, <2>9, <2>11, <3>2 DEF RunningAt
    <3> QED BY <1>4, <3>3 DEF LevelOK
  <2> QED BY <2>10, <2>11
<1> QED BY <1>3, <1>4

\* Only the call on top is in a phase other than these two.
LEMMA LowerPhases ==
  ASSUME FramesInv, NEW k \in 1..Depth, k # Depth
  PROVE  calls[k].phase \in {"arguments", "body"}
<1>1. LevelOK(calls[k], k) /\ calls[k] \in CallRecords
  BY Calls DEF FramesInv, Levels
<1> QED BY <1>1 DEF LevelOK, CallingAt, EnteringAt, ReturnedAt, CallRecords, Phases

\* A step of the call on top leaves the calls below, and what is above the
\* stack of its caller, as they are.
TopOnly ==
  /\ Depth' = Depth /\ Top'.sp = Top.sp
  /\ \A k \in 1..Depth : k # Depth => calls'[k] = calls[k]
  /\ \A a \in Int : a >= Top.sp => Held(m'.mem, a) = Held(m.mem, a)

\* A step of the call on top that writes below the stack of its caller.
LEMMA TopStep ==
  ASSUME FramesInv, Depth > 0, NEW c \in CallRecords,
         calls' = [calls EXCEPT ![Depth] = c], target' = target,
         c.sp = Top.sp, c.f = Top.f,
         c.fp = Top.fp,
         \A a \in Int : a >= Top.sp => Held(m'.mem, a) = Held(m.mem, a),
         LevelOK(c, Depth)', TypeOK'
  PROVE  FramesInv' /\ TopOnly
<1>1. PICK d \in Nat : d = Depth /\ d > 0
  BY Calls DEF FramesInv
<1>2. /\ calls \in Seq(CallRecords) /\ TypeOK /\ DOMAIN calls = 1..d
      /\ \A k \in 1..d : calls[k] \in CallRecords
      /\ Top = calls[d] /\ d \in 1..d
  BY <1>1, Calls DEF FramesInv, TypeOK
<1>3. /\ Depth' = d /\ calls'[d] = c /\ DOMAIN calls' = 1..d
      /\ \A k \in 1..d : k # d => calls'[k] = calls[k]
  <2>1. calls' = [calls EXCEPT ![d] = c]
    BY <1>1
  <2>2. Len(calls') = Len(calls)
    BY <1>2, <2>1
  <2> QED BY <1>1, <1>2, <2>1, <2>2 DEF Depth
<1>4. /\ \A k \in 1..d : /\ calls'[k].sp = calls[k].sp /\ calls'[k].fp = calls[k].fp
                         /\ calls'[k].f = calls[k].f
  BY <1>1, <1>2, <1>3
<1>5. Base'
  <2>1. Base /\ 0 # d /\ 0 + 1 \in 1..d
    BY <1>1 DEF FramesInv
  <2>2. SpAt(0)' = SpAt(0) /\ FpAt(0)' = FpAt(0)
    BY <1>1, <1>3, <1>4, <2>1 DEF SpAt, FpAt
  <2> QED BY <2>1, <2>2 DEF Base
<1>6. Descending'
  BY <1>1, <1>3, <1>4 DEF FramesInv, Descending
<1>7. NoLongDoubles'
  BY <1>1, <1>3, <1>4 DEF FramesInv, NoLongDoubles
<1>8. Aligned'
  <2>1. ASSUME NEW k \in 1..d PROVE AlignedAt(k)'
    <3>1. AlignedAt(k)
      BY <1>1 DEF FramesInv, Aligned
    <3>2. \A j \in 1..k - 1 : calls'[j].phase = calls[j].phase /\ calls'[j].lost = calls[j].lost
      BY <1>3
    <3> QED BY <1>4, <3>1, <3>2 DEF AlignedAt, Unshifted
  <2> QED BY <1>3, <2>1 DEF Aligned
<1>9. Levels'
  <2>1. ASSUME NEW k \in 1..d PROVE LevelOK(calls[k], k)'
    <3>1. CASE k = d
      BY <1>1, <1>3, <3>1
    <3>2. CASE k # d
      <4>1. k + 1 \in 1..d /\ calls'[k] = calls[k] /\ k # Depth /\ k \in 1..Depth
        BY <1>1, <1>3, <3>2
      <4>2. PICK e \in CallRecords : e = calls[k]
        BY <1>2
      <4>3. LevelOK(e, k) /\ e.phase \in {"arguments", "body"}
        BY <4>1, <4>2, LowerPhases DEF FramesInv, Levels
      <4>4. PICK s \in Int : s = calls[k + 1].sp
        BY <1>2, <4>1 DEF CallRecords
      <4>5. SpAt(k) = s /\ SpAt(k)' = s /\ FpAt(k)' = FpAt(k)
        BY <1>3, <1>4, <3>2, <4>1, <4>4 DEF SpAt, FpAt
      <4>6. PICK t \in Int : t = Top.sp /\ t <= s
        <5>1. calls[d] \in CallRecords
          BY <1>2
        <5>2. calls[d].sp \in Int
          BY <5>1 DEF CallRecords
        <5>3. k + 1 \in 1..Depth /\ d \in 1..Depth /\ k + 1 <= d
          BY <1>1, <1>2, <4>1
        <5>4. calls[d].sp <= calls[k + 1].sp
          BY <5>3 DEF FramesInv, Descending
        <5> QED BY <1>2, <4>4, <5>2, <5>4
      <4>7. \A a \in Int : a >= s => Held(m'.mem, a) = Held(m.mem, a)
        BY <4>6
      <4>8. LevelOK(e, k)'
        BY <1>2, <4>3, <4>5, <4>7, LevelKept
      <4> QED BY <4>1, <4>2, <4>8
    <3> QED BY <3>1, <3>2
  <2> QED BY <1>3, <2>1 DEF Levels
<1>10. TopOnly
  BY <1>1, <1>2, <1>3, <1>4 DEF TopOnly, Top
<1> QED BY <1>5, <1>6, <1>7, <1>8, <1>9, <1>10 DEF FramesInv

-----------------------------------------------------------------------------
(***************************************************************************)
(* The steps.                                                              *)
(***************************************************************************)
\* The machine, field by field.
LEMMA TypedStep ==
  ASSUME TypeOK, target' = target, made' = made, calls' \in Seq(CallRecords),
         NEW sp \in Int, NEW fp \in Int, NEW ra \in Token, NEW reg \in [0..7 -> Token],
         NEW xmm, NEW mem \in Memories,
         m' = [sp |-> sp, fp |-> fp, ra |-> ra, reg |-> reg, xmm |-> xmm, mem |-> mem]
  PROVE  /\ TypeOK'
         /\ m'.sp = sp /\ m'.fp = fp /\ m'.ra = ra /\ m'.mem = mem
<1>1. PICK x : x = m'
  OBVIOUS
<1>2. /\ x.sp = sp /\ x.fp = fp /\ x.ra = ra /\ x.reg = reg /\ x.xmm = xmm /\ x.mem = mem
      /\ x = [sp |-> x.sp, fp |-> x.fp, ra |-> x.ra, reg |-> x.reg, xmm |-> x.xmm,
              mem |-> x.mem]
  BY <1>1
<1>3. x.sp \in Int /\ x.fp \in Int /\ x.ra \in Token /\ x.reg \in [0..7 -> Token]
      /\ x.mem \in Memories
  BY <1>2
<1> QED BY <1>1, <1>2, <1>3 DEF TypeOK

\* The words one argument takes are those PushedWords counts.
LEMMA PushesAre ==
  ASSUME TypeOK, NEW c \in CallRecords, NEW d \in CallRecords,
         c.pushed < Len(c.kinds), d.kinds = c.kinds, d.pushed = c.pushed + 1,
         NEW i, i = IF target = "rv32" THEN c.pushed + 1 ELSE Len(c.kinds) - c.pushed
  PROVE  /\ Pushes(c, i) \in Seq(Token)
         /\ Len(Pushes(c, i)) = PushedWords(d) - PushedWords(c)
<1>1. PICK n \in Nat, p \in Nat : n = Len(c.kinds) /\ p = c.pushed /\ p < n
  BY DEF CallRecords
<1>2. /\ target \in Targets /\ c.kinds \in Seq(Kinds) /\ c.n \in Int
      /\ i \in 1..n /\ i \in 0..n /\ i - 1 \in 0..n
  <2>1. target \in Targets /\ c.kinds \in Seq(Kinds) /\ c.n \in Int
    BY WIs DEF CallRecords
  <2>2. i = p + 1 \/ i = n - p
    BY <1>1
  <2>2a. p < n
    BY <1>1
  <2>3. i \in 1..n /\ i \in 0..n /\ i - 1 \in 0..n
    BY <2>2, <2>2a
  <2> QED BY <2>1, <2>3
<1>3. PICK k \in Kinds : k = c.kinds[i]
  <2>1. c.kinds[i] \in Kinds
    BY <1>1, <1>2
  <2> QED BY <2>1
<1>4. PICK x \in Nat, y \in Nat, z \in Nat :
        /\ x = LastWord(target, c.kinds)[i - 1] /\ y = LastWord(target, c.kinds)[i]
        /\ z = total_words(target, c.kinds)
  BY <1>1, <1>2, LastStep
<1>5. PICK w \in 1..4, b \in {0, 1} :
        w = arg_words(target, k) /\ b = Pad(target, k, x) /\ (target # "rv32" => b = 0)
  BY <1>2, WordsAre
<1>6. y = x + b + w
  BY <1>1, <1>2, <1>3, <1>4, <1>5, LastStep
<1>7. CASE target = "rv32"
  <2> DEFINE pads == [q \in 1..b |-> Junk]
             words == [q \in 1..w |-> Argument(c.n, i, q)]
  <2>1. Pushes(c, i) = pads \o words
    BY <1>3, <1>4, <1>5, <1>7 DEF Pushes
  <2>2. pads \in Seq(Token) /\ Len(pads) = b /\ words \in Seq(Token) /\ Len(words) = w
    <3>0. PICK u \in Int, v \in Int : u = c.n /\ v = i
      BY <1>2
    <3>1. Junk \in Token /\ \A q \in 1..w : Argument(u, v, q) \in Token
      BY Tokens
    <3> QED BY <3>0, <3>1
  <2> HIDE DEF pads, words
  <2>3. pads \o words \in Seq(Token) /\ Len(pads \o words) = b + w
    BY <2>2
  <2>4. PushedWords(d) = y /\ PushedWords(c) = x
    <3>1. c.pushed = i - 1 /\ d.pushed = i
      BY <1>1, <1>2, <1>7
    <3> QED BY <1>4, <1>7, <3>1 DEF PushedWords
  <2>5. Len(pads \o words) = y - x
    BY <1>6, <2>3
  <2> QED BY <2>1, <2>3, <2>4, <2>5
<1>8. CASE target # "rv32"
  <2> DEFINE words == [q \in 1..w |-> Argument(c.n, i, w + 1 - q)]
  <2>1. Pushes(c, i) = words
    BY <1>3, <1>4, <1>5, <1>8 DEF Pushes
  <2>2. words \in Seq(Token) /\ Len(words) = w
    <3>0. PICK u \in Int, v \in Int : u = c.n /\ v = i
      BY <1>2
    <3>1. \A q \in 1..w : w + 1 - q \in Int
      OBVIOUS
    <3>2. \A q \in 1..w : Argument(u, v, w + 1 - q) \in Token
      BY <3>1, Tokens
    <3> QED BY <3>0, <3>2
  <2> HIDE DEF words
  <2>3. PushedWords(d) = z - x /\ PushedWords(c) = z - y
    <3>1. Len(c.kinds) - c.pushed = i /\ Len(c.kinds) - d.pushed = i - 1
      BY <1>1, <1>2, <1>8
    <3> QED BY <1>4, <1>8, <3>1 DEF PushedWords
  <2>4. Pushes(c, i) \in Seq(Token) /\ Len(Pushes(c, i)) = w
    BY <2>1, <2>2
  <2>5. w = PushedWords(d) - PushedWords(c)
    BY <1>5, <1>6, <1>8, <2>3
  <2> QED BY <2>4, <2>5
<1> QED BY <1>7, <1>8

\* An argument is pushed below the stack pointer of its caller.
LEMMA PushingBelow ==
  ASSUME FramesInv, Depth > 0, Top.phase = "arguments"
  PROVE  /\ m.sp <= Top.sp /\ PushedWords(Top) \in Nat
         /\ m.sp = Top.sp - Room(target, Top) - Slot * PushedWords(Top)
         /\ m.fp = Top.fp /\ Top.pushed <= Len(Top.kinds) /\ Top.lost = 0
<1>1. PICK c \in CallRecords : c = Top /\ LevelOK(c, Depth)
  BY Calls DEF FramesInv, Levels
<1>2. PushingAt(c, Depth) /\ TypeOK
  BY <1>1 DEF LevelOK, FramesInv
<1>3. /\ c.pushed <= Len(c.kinds) /\ m.fp = c.fp /\ c.lost = 0
      /\ m.sp = c.sp - Room(target, c) - Slot * PushedWords(c)
  BY <1>2 DEF PushingAt, SpAt, FpAt
<1>4. /\ target \in Targets /\ c.kinds \in Seq(Kinds) /\ c.sp \in Int
      /\ c.pushed \in 0..Len(c.kinds) /\ Len(c.kinds) - c.pushed \in 0..Len(c.kinds)
  BY <1>2, <1>3, WIs DEF CallRecords
<1>5. PICK p \in Nat, s \in {4, 8, 16} : p = Room(target, c) /\ s = Slot
  BY <1>2, <1>4, RoomIs, WIs
<1>6. PICK w \in Nat : w = PushedWords(c)
  <2>1. /\ LastWord(target, c.kinds)[c.pushed] \in Nat
        /\ LastWord(target, c.kinds)[Len(c.kinds) - c.pushed] \in Nat
        /\ total_words(target, c.kinds) \in Nat
        /\ LastWord(target, c.kinds)[Len(c.kinds) - c.pushed] <= total_words(target, c.kinds)
    BY <1>4, LastStep, LastGrows
  <2> QED BY <2>1 DEF PushedWords
<1>7. m.sp <= c.sp
  <2>1. PICK top \in Int : top = c.sp
    BY <1>4
  <2>2. s * w \in Nat
    OBVIOUS
  <2>3. m.sp = top - p - s * w
    BY <1>3, <1>5, <1>6, <2>1
  <2> QED BY <2>1, <2>2, <2>3
<1> QED BY <1>1, <1>3, <1>6, <1>7

\* Replacing an element of a sequence.
LEMMA Replaced ==
  ASSUME NEW S, NEW q \in Seq(S), NEW d \in 1..Len(q), NEW x \in S
  PROVE  /\ [q EXCEPT ![d] = x] \in Seq(S)
         /\ Len([q EXCEPT ![d] = x]) = Len(q) /\ [q EXCEPT ![d] = x][d] = x
OBVIOUS

\* The call on top is replaced.
LEMMA TopReplaced ==
  ASSUME TypeOK, Depth > 0, NEW c \in CallRecords, calls' = [calls EXCEPT ![Depth] = c]
  PROVE  calls' \in Seq(CallRecords) /\ Depth' = Depth /\ Top' = c
<1>1. PICK d \in Nat : d = Depth /\ d > 0
  BY Calls
<1>2. calls \in Seq(CallRecords) /\ Len(calls) = d /\ d \in 1..d
  BY <1>1 DEF TypeOK, Depth
<1>3. calls' = [calls EXCEPT ![d] = c]
  BY <1>1
<1>4. calls' \in Seq(CallRecords) /\ Len(calls') = d /\ calls'[d] = c
  <2> DEFINE S == CallRecords
  <2>0. c \in S /\ calls \in Seq(S)
    BY <1>2
  <2> HIDE DEF S
  <2>1. PICK q \in Seq(S) : q = calls
    BY <2>0
  <2>2. d \in 1..Len(q)
    BY <1>2, <2>1
  <2>3. [q EXCEPT ![d] = c] \in Seq(S) /\ Len([q EXCEPT ![d] = c]) = Len(q)
        /\ [q EXCEPT ![d] = c][d] = c
    BY <2>0, <2>2, Replaced
  <2>4. calls' = [q EXCEPT ![d] = c]
    BY <1>3, <2>1
  <2>5. calls' \in Seq(S) /\ Len(calls') = d /\ calls'[d] = c
    BY <1>2, <2>1, <2>3, <2>4
  <2> QED BY <2>5 DEF S
<1> QED BY <1>1, <1>4 DEF Depth, Top

\* The fields of a call in progress.
LEMMA RecordIs ==
  ASSUME NEW c
  PROVE  c \in CallRecords <=>
           /\ c = [f |-> c.f, kinds |-> c.kinds, n |-> c.n, phase |-> c.phase,
                   pushed |-> c.pushed, sp |-> c.sp, fp |-> c.fp, frame |-> c.frame,
                   started |-> c.started, taken |-> c.taken, operands |-> c.operands,
                   lost |-> c.lost, back |-> c.back]
           /\ c.f \in Functions /\ c.kinds \in Seq(Kinds) /\ c.n \in Nat /\ c.phase \in Phases
           /\ c.pushed \in Nat /\ c.sp \in Int /\ c.fp \in Int /\ c.frame \in Int
           /\ c.started \in BOOLEAN /\ c.taken \in Seq(Seq(Token)) /\ c.back \in Token
           /\ c.operands \in Nat /\ c.lost \in Nat
BY DEF CallRecords

\* A call with one field changed is a call: its phase, ...
LEMMA Rephased ==
  ASSUME NEW c \in CallRecords, NEW p \in Phases, NEW d, d = [c EXCEPT !.phase = p]
  PROVE  /\ d \in CallRecords /\ d.operands = c.operands /\ d.lost = c.lost
         /\ d.f = c.f /\ d.kinds = c.kinds /\ d.n = c.n /\ d.phase = p
         /\ d.pushed = c.pushed /\ d.sp = c.sp /\ d.fp = c.fp /\ d.frame = c.frame
         /\ d.started = c.started /\ d.taken = c.taken /\ d.back = c.back
<1>1. c = [f |-> c.f, kinds |-> c.kinds, n |-> c.n,
           phase |-> c.phase, pushed |-> c.pushed, sp |-> c.sp,
           fp |-> c.fp, frame |-> c.frame, started |-> c.started,
           taken |-> c.taken, operands |-> c.operands,
           lost |-> c.lost, back |-> c.back]
  BY RecordIs
<1>2. /\ c.f \in Functions /\ c.kinds \in Seq(Kinds) /\ c.n \in Nat /\ c.phase \in Phases
      /\ c.pushed \in Nat /\ c.sp \in Int /\ c.fp \in Int /\ c.frame \in Int
      /\ c.started \in BOOLEAN /\ c.taken \in Seq(Seq(Token)) /\ c.back \in Token
      /\ c.operands \in Nat /\ c.lost \in Nat
  BY RecordIs
<1>3. d = [f |-> c.f, kinds |-> c.kinds, n |-> c.n, phase |-> p,
           pushed |-> c.pushed, sp |-> c.sp, fp |-> c.fp,
           frame |-> c.frame, started |-> c.started,
           taken |-> c.taken, operands |-> c.operands,
           lost |-> c.lost, back |-> c.back]
  BY <1>1
<1>4. /\ d.operands = c.operands /\ d.lost = c.lost
      /\ d.f = c.f /\ d.kinds = c.kinds /\ d.n = c.n /\ d.phase = p
      /\ d.pushed = c.pushed /\ d.sp = c.sp /\ d.fp = c.fp /\ d.frame = c.frame
      /\ d.started = c.started /\ d.taken = c.taken /\ d.back = c.back
  BY <1>3
<1>5. d = [f |-> d.f, kinds |-> d.kinds, n |-> d.n,
           phase |-> d.phase, pushed |-> d.pushed, sp |-> d.sp,
           fp |-> d.fp, frame |-> d.frame, started |-> d.started,
           taken |-> d.taken, operands |-> d.operands,
           lost |-> d.lost, back |-> d.back]
  BY <1>3, <1>4
<1> QED BY <1>2, <1>4, <1>5, RecordIs

\* ... its frame, ...
LEMMA Reframed ==
  ASSUME NEW c \in CallRecords, NEW x \in Int, NEW d, d = [c EXCEPT !.frame = x]
  PROVE  /\ d \in CallRecords /\ d.operands = c.operands /\ d.lost = c.lost
         /\ d.f = c.f /\ d.kinds = c.kinds /\ d.n = c.n
         /\ d.phase = c.phase /\ d.sp = c.sp /\ d.fp = c.fp /\ d.frame = x
         /\ d.started = c.started /\ d.taken = c.taken
<1>1. c = [f |-> c.f, kinds |-> c.kinds, n |-> c.n,
           phase |-> c.phase, pushed |-> c.pushed, sp |-> c.sp,
           fp |-> c.fp, frame |-> c.frame, started |-> c.started,
           taken |-> c.taken, operands |-> c.operands,
           lost |-> c.lost, back |-> c.back]
  BY RecordIs
<1>2. /\ c.f \in Functions /\ c.kinds \in Seq(Kinds) /\ c.n \in Nat /\ c.phase \in Phases
      /\ c.pushed \in Nat /\ c.sp \in Int /\ c.fp \in Int /\ c.frame \in Int
      /\ c.started \in BOOLEAN /\ c.taken \in Seq(Seq(Token)) /\ c.back \in Token
      /\ c.operands \in Nat /\ c.lost \in Nat
  BY RecordIs
<1>3. d = [f |-> c.f, kinds |-> c.kinds, n |-> c.n,
           phase |-> c.phase, pushed |-> c.pushed, sp |-> c.sp,
           fp |-> c.fp, frame |-> x, started |-> c.started,
           taken |-> c.taken, operands |-> c.operands,
           lost |-> c.lost, back |-> c.back]
  BY <1>1
<1>4. /\ d.operands = c.operands /\ d.lost = c.lost
      /\ d.f = c.f /\ d.kinds = c.kinds /\ d.n = c.n /\ d.phase = c.phase
      /\ d.pushed = c.pushed /\ d.sp = c.sp /\ d.fp = c.fp /\ d.frame = x
      /\ d.started = c.started /\ d.taken = c.taken /\ d.back = c.back
  BY <1>3
<1>5. d = [f |-> d.f, kinds |-> d.kinds, n |-> d.n,
           phase |-> d.phase, pushed |-> d.pushed, sp |-> d.sp,
           fp |-> d.fp, frame |-> d.frame, started |-> d.started,
           taken |-> d.taken, operands |-> d.operands,
           lost |-> d.lost, back |-> d.back]
  BY <1>3, <1>4
<1> QED BY <1>2, <1>4, <1>5, RecordIs

\* ... the arguments va_arg has taken, ...
LEMMA Retaken ==
  ASSUME NEW c \in CallRecords, NEW x \in Seq(Seq(Token)), NEW d, d = [c EXCEPT !.taken = x]
  PROVE  /\ d \in CallRecords /\ d.operands = c.operands /\ d.lost = c.lost
         /\ d.f = c.f /\ d.kinds = c.kinds /\ d.n = c.n
         /\ d.phase = c.phase /\ d.sp = c.sp /\ d.fp = c.fp /\ d.frame = c.frame
         /\ d.started = c.started /\ d.taken = x
<1>1. c = [f |-> c.f, kinds |-> c.kinds, n |-> c.n,
           phase |-> c.phase, pushed |-> c.pushed, sp |-> c.sp,
           fp |-> c.fp, frame |-> c.frame, started |-> c.started,
           taken |-> c.taken, operands |-> c.operands,
           lost |-> c.lost, back |-> c.back]
  BY RecordIs
<1>2. /\ c.f \in Functions /\ c.kinds \in Seq(Kinds) /\ c.n \in Nat /\ c.phase \in Phases
      /\ c.pushed \in Nat /\ c.sp \in Int /\ c.fp \in Int /\ c.frame \in Int
      /\ c.started \in BOOLEAN /\ c.taken \in Seq(Seq(Token)) /\ c.back \in Token
      /\ c.operands \in Nat /\ c.lost \in Nat
  BY RecordIs
<1>3. d = [f |-> c.f, kinds |-> c.kinds, n |-> c.n,
           phase |-> c.phase, pushed |-> c.pushed, sp |-> c.sp,
           fp |-> c.fp, frame |-> c.frame, started |-> c.started,
           taken |-> x, operands |-> c.operands,
           lost |-> c.lost, back |-> c.back]
  BY <1>1
<1>4. /\ d.operands = c.operands /\ d.lost = c.lost
      /\ d.f = c.f /\ d.kinds = c.kinds /\ d.n = c.n /\ d.phase = c.phase
      /\ d.pushed = c.pushed /\ d.sp = c.sp /\ d.fp = c.fp /\ d.frame = c.frame
      /\ d.started = c.started /\ d.taken = x /\ d.back = c.back
  BY <1>3
<1>5. d = [f |-> d.f, kinds |-> d.kinds, n |-> d.n,
           phase |-> d.phase, pushed |-> d.pushed, sp |-> d.sp,
           fp |-> d.fp, frame |-> d.frame, started |-> d.started,
           taken |-> d.taken, operands |-> d.operands,
           lost |-> d.lost, back |-> d.back]
  BY <1>3, <1>4
<1> QED BY <1>2, <1>4, <1>5, RecordIs

\* ... the words it has lost, ...
LEMMA Relost ==
  ASSUME NEW c \in CallRecords, NEW x \in Nat, NEW d, d = [c EXCEPT !.lost = x]
  PROVE  /\ d \in CallRecords /\ d.operands = c.operands /\ d.lost = x
         /\ d.f = c.f /\ d.kinds = c.kinds /\ d.n = c.n
         /\ d.phase = c.phase /\ d.sp = c.sp /\ d.fp = c.fp /\ d.frame = c.frame
         /\ d.started = c.started /\ d.taken = c.taken
<1>1. c = [f |-> c.f, kinds |-> c.kinds, n |-> c.n,
           phase |-> c.phase, pushed |-> c.pushed, sp |-> c.sp,
           fp |-> c.fp, frame |-> c.frame, started |-> c.started,
           taken |-> c.taken, operands |-> c.operands,
           lost |-> c.lost, back |-> c.back]
  BY RecordIs
<1>2. /\ c.f \in Functions /\ c.kinds \in Seq(Kinds) /\ c.n \in Nat /\ c.phase \in Phases
      /\ c.pushed \in Nat /\ c.sp \in Int /\ c.fp \in Int /\ c.frame \in Int
      /\ c.started \in BOOLEAN /\ c.taken \in Seq(Seq(Token)) /\ c.back \in Token
      /\ c.operands \in Nat /\ c.lost \in Nat
  BY RecordIs
<1>3. d = [f |-> c.f, kinds |-> c.kinds, n |-> c.n,
           phase |-> c.phase, pushed |-> c.pushed, sp |-> c.sp,
           fp |-> c.fp, frame |-> c.frame, started |-> c.started,
           taken |-> c.taken, operands |-> c.operands,
           lost |-> x, back |-> c.back]
  BY <1>1
<1>4. /\ d.operands = c.operands /\ d.lost = x
      /\ d.f = c.f /\ d.kinds = c.kinds /\ d.n = c.n /\ d.phase = c.phase
      /\ d.pushed = c.pushed /\ d.sp = c.sp /\ d.fp = c.fp /\ d.frame = c.frame
      /\ d.started = c.started /\ d.taken = c.taken /\ d.back = c.back
  BY <1>3
<1>5. d = [f |-> d.f, kinds |-> d.kinds, n |-> d.n,
           phase |-> d.phase, pushed |-> d.pushed, sp |-> d.sp,
           fp |-> d.fp, frame |-> d.frame, started |-> d.started,
           taken |-> d.taken, operands |-> d.operands,
           lost |-> d.lost, back |-> d.back]
  BY <1>3, <1>4
<1> QED BY <1>2, <1>4, <1>5, RecordIs

\* ... whether va_start was reached, ...
LEMMA Restarted ==
  ASSUME NEW c \in CallRecords, NEW x \in BOOLEAN, NEW d,
         d = [c EXCEPT !.started = x]
  PROVE  /\ d \in CallRecords /\ d.operands = c.operands /\ d.lost = c.lost
         /\ d.f = c.f /\ d.kinds = c.kinds /\ d.n = c.n
         /\ d.phase = c.phase /\ d.sp = c.sp /\ d.fp = c.fp /\ d.frame = c.frame
         /\ d.started = x /\ d.taken = c.taken
<1>1. c = [f |-> c.f, kinds |-> c.kinds, n |-> c.n,
           phase |-> c.phase, pushed |-> c.pushed, sp |-> c.sp,
           fp |-> c.fp, frame |-> c.frame, started |-> c.started,
           taken |-> c.taken, operands |-> c.operands,
           lost |-> c.lost, back |-> c.back]
  BY RecordIs
<1>2. /\ c.f \in Functions /\ c.kinds \in Seq(Kinds) /\ c.n \in Nat /\ c.phase \in Phases
      /\ c.pushed \in Nat /\ c.sp \in Int /\ c.fp \in Int /\ c.frame \in Int
      /\ c.started \in BOOLEAN /\ c.taken \in Seq(Seq(Token)) /\ c.back \in Token
      /\ c.operands \in Nat /\ c.lost \in Nat
  BY RecordIs
<1>3. d = [f |-> c.f, kinds |-> c.kinds, n |-> c.n,
           phase |-> c.phase, pushed |-> c.pushed, sp |-> c.sp,
           fp |-> c.fp, frame |-> c.frame, started |-> x,
           taken |-> c.taken, operands |-> c.operands,
           lost |-> c.lost, back |-> c.back]
  BY <1>1
<1>4. /\ d.operands = c.operands /\ d.lost = c.lost
      /\ d.f = c.f /\ d.kinds = c.kinds /\ d.n = c.n /\ d.phase = c.phase
      /\ d.pushed = c.pushed /\ d.sp = c.sp /\ d.fp = c.fp /\ d.frame = c.frame
      /\ d.started = x /\ d.taken = c.taken /\ d.back = c.back
  BY <1>3
<1>5. d = [f |-> d.f, kinds |-> d.kinds, n |-> d.n,
           phase |-> d.phase, pushed |-> d.pushed, sp |-> d.sp,
           fp |-> d.fp, frame |-> d.frame, started |-> d.started,
           taken |-> d.taken, operands |-> d.operands,
           lost |-> d.lost, back |-> d.back]
  BY <1>3, <1>4
<1> QED BY <1>2, <1>4, <1>5, RecordIs

\* ... and where it returned to.
LEMMA Returned ==
  ASSUME NEW c \in CallRecords, NEW x \in Token, NEW d, d = [c EXCEPT !.back = x]
  PROVE  /\ d \in CallRecords /\ d.operands = c.operands /\ d.lost = c.lost
         /\ d.f = c.f /\ d.kinds = c.kinds /\ d.n = c.n
         /\ d.phase = c.phase /\ d.sp = c.sp /\ d.fp = c.fp /\ d.frame = c.frame
         /\ d.back = x /\ d.started = c.started /\ d.taken = c.taken
<1>1. c = [f |-> c.f, kinds |-> c.kinds, n |-> c.n,
           phase |-> c.phase, pushed |-> c.pushed, sp |-> c.sp,
           fp |-> c.fp, frame |-> c.frame, started |-> c.started,
           taken |-> c.taken, operands |-> c.operands,
           lost |-> c.lost, back |-> c.back]
  BY RecordIs
<1>2. /\ c.f \in Functions /\ c.kinds \in Seq(Kinds) /\ c.n \in Nat /\ c.phase \in Phases
      /\ c.pushed \in Nat /\ c.sp \in Int /\ c.fp \in Int /\ c.frame \in Int
      /\ c.started \in BOOLEAN /\ c.taken \in Seq(Seq(Token)) /\ c.back \in Token
      /\ c.operands \in Nat /\ c.lost \in Nat
  BY RecordIs
<1>3. d = [f |-> c.f, kinds |-> c.kinds, n |-> c.n,
           phase |-> c.phase, pushed |-> c.pushed, sp |-> c.sp,
           fp |-> c.fp, frame |-> c.frame, started |-> c.started,
           taken |-> c.taken, operands |-> c.operands,
           lost |-> c.lost, back |-> x]
  BY <1>1
<1>4. /\ d.operands = c.operands /\ d.lost = c.lost
      /\ d.f = c.f /\ d.kinds = c.kinds /\ d.n = c.n /\ d.phase = c.phase
      /\ d.pushed = c.pushed /\ d.sp = c.sp /\ d.fp = c.fp /\ d.frame = c.frame
      /\ d.started = c.started /\ d.taken = c.taken /\ d.back = x
  BY <1>3
<1>5. d = [f |-> d.f, kinds |-> d.kinds, n |-> d.n,
           phase |-> d.phase, pushed |-> d.pushed, sp |-> d.sp,
           fp |-> d.fp, frame |-> d.frame, started |-> d.started,
           taken |-> d.taken, operands |-> d.operands,
           lost |-> d.lost, back |-> d.back]
  BY <1>3, <1>4
<1> QED BY <1>2, <1>4, <1>5, RecordIs

\* Words in slots below the stack pointer.
LEMMA SlotsHold ==
  ASSUME NEW sp \in Int, NEW slot \in {4, 8, 16}, NEW words, NEW writes,
         writes = [a \in {sp - slot * p : p \in 1..Len(words)} |->
                     words[(sp - a) \div slot]]
  PROVE  \A p \in 1..Len(words) : /\ sp - slot * p \in DOMAIN writes
                                  /\ writes[sp - slot * p] = words[p]
<1>1. PICK D : D = {sp - slot * p : p \in 1..Len(words)}
  OBVIOUS
<1>2. PICK w : w = writes /\ w = [a \in D |-> words[(sp - a) \div slot]]
  BY <1>1
<1>3. ASSUME NEW p \in 1..Len(words) PROVE sp - slot * p \in D /\ w[sp - slot * p] = words[p]
  <2>1. sp - slot * p \in D /\ p \in Int
    BY <1>1
  <2>2. (sp - (sp - slot * p)) \div slot = p
    <3>1. CASE slot = 4
      BY <2>1, <3>1
    <3>2. CASE slot = 8
      BY <2>1, <3>2
    <3>3. CASE slot = 16
      BY <2>1, <3>3
    <3> QED BY <3>1, <3>2, <3>3
  <2> QED BY <1>2, <2>1, <2>2
<1> QED BY <1>1, <1>2, <1>3

\* They are words of memory.
LEMMA SlotsBelow ==
  ASSUME NEW sp \in Int, NEW slot \in {4, 8, 16}, NEW words \in Seq(Token), NEW writes,
         writes = [a \in {sp - slot * p : p \in 1..Len(words)} |->
                     words[(sp - a) \div slot]]
  PROVE  /\ writes \in Memories
         /\ \A a \in DOMAIN writes : a < sp
<1>1. PICK D : D = {sp - slot * p : p \in 1..Len(words)}
  OBVIOUS
<1>2. PICK w : w = writes /\ w = [a \in D |-> words[(sp - a) \div slot]]
  BY <1>1
<1>3. ASSUME NEW a \in D PROVE a \in Int /\ a < sp /\ words[(sp - a) \div slot] \in Token
  <2>1. PICK p \in 1..Len(words) : a = sp - slot * p
    BY <1>1, <1>3
  <2>2. p \in Int /\ p >= 1
    BY <2>1
  <2>3. words[p] \in Token
    BY <2>1
  <2>4. CASE slot = 4
    <3>1. a = sp - 4 * p /\ (sp - a) \div 4 = p
      BY <2>1, <2>2, <2>4
    <3> QED BY <2>2, <2>3, <2>4, <3>1
  <2>5. CASE slot = 8
    <3>1. a = sp - 8 * p /\ (sp - a) \div 8 = p
      BY <2>1, <2>2, <2>5
    <3> QED BY <2>2, <2>3, <2>5, <3>1
  <2>6. CASE slot = 16
    <3>1. a = sp - 16 * p /\ (sp - a) \div 16 = p
      BY <2>1, <2>2, <2>6
    <3> QED BY <2>2, <2>3, <2>6, <3>1
  <2> QED BY <2>4, <2>5, <2>6
<1>4. w \in Memories
  <2>1. DOMAIN w = D /\ w = [a \in DOMAIN w |-> w[a]] /\ \A a \in D : w[a] = words[(sp - a) \div slot]
    BY <1>2
  <2> QED BY <1>3, <2>1, MemoryIs
<1> QED BY <1>1, <1>2, <1>3, <1>4

\* What the push of an argument does to the call: its words are in the next slots.
ArgumentPushed ==
  LET pushes == Pushes(Top, IF target = "rv32" THEN Top.pushed + 1
                            ELSE Len(Top.kinds) - Top.pushed)
  IN  /\ Top' = [Top EXCEPT !.pushed = @ + 1]
      /\ \A a \in Int : a >= m.sp => Held(m'.mem, a) = Held(m.mem, a)
      /\ \A p \in 1..Len(pushes) : Held(m'.mem, m.sp - Slot * p) = pushes[p]

\* PushArgument writes below the stack pointer the caller had.
LEMMA PushArgumentKeeps ==
  ASSUME FramesInv, PushArgument
  PROVE  FramesInv' /\ TopOnly /\ ArgumentPushed
<1>1. TypeOK /\ Depth > 0 /\ Top.phase = "arguments" /\ Top.pushed < Len(Top.kinds)
      /\ target' = target /\ made' = made
  BY DEF PushArgument, FramesInv
<1>2. PICK c \in CallRecords : c = Top /\ c = calls[Depth]
  BY <1>1, Calls
<1>3. PICK i : i = IF target = "rv32" THEN c.pushed + 1 ELSE Len(c.kinds) - c.pushed
  OBVIOUS
<1>4. PICK d : d = [c EXCEPT !.pushed = @ + 1]
  OBVIOUS
<1>5. /\ d \in CallRecords /\ d.pushed = c.pushed + 1 /\ d.kinds = c.kinds /\ d.sp = c.sp
      /\ d.fp = c.fp /\ d.f = c.f /\ d.phase = c.phase
      /\ d.operands = c.operands /\ d.lost = c.lost
  <2>1. c.pushed + 1 \in Nat
    BY DEF CallRecords
  <2>2. c = [f |-> c.f, kinds |-> c.kinds, n |-> c.n, phase |-> c.phase,
             pushed |-> c.pushed, sp |-> c.sp, fp |-> c.fp, frame |-> c.frame,
             started |-> c.started, taken |-> c.taken, operands |-> c.operands,
             lost |-> c.lost, back |-> c.back]
    BY RecordIs
  <2>3. d = [f |-> c.f, kinds |-> c.kinds, n |-> c.n, phase |-> c.phase,
             pushed |-> c.pushed + 1, sp |-> c.sp, fp |-> c.fp, frame |-> c.frame,
             started |-> c.started, taken |-> c.taken, operands |-> c.operands,
             lost |-> c.lost, back |-> c.back]
    BY <1>4, <2>2
  <2>4. d \in [f : Functions, kinds : Seq(Kinds), n : Nat, phase : Phases, pushed : Nat,
               sp : Int, fp : Int, operands : Nat, frame : Int, lost : Nat,
               started : BOOLEAN, taken : Seq(Seq(Token)), back : Token]
    BY <2>1, <2>3 DEF CallRecords
  <2> QED BY <2>3, <2>4 DEF CallRecords
<1>6. PICK words \in Seq(Token) : words = Pushes(c, i)
                                  /\ Len(words) = PushedWords(d) - PushedWords(c)
  BY <1>1, <1>2, <1>3, <1>5, PushesAre
<1>7. PICK sp \in Int, slot \in {4, 8, 16} : sp = m.sp /\ slot = Slot
  BY <1>1, WIs DEF TypeOK
<1>8. PICK writes :
        writes = [a \in {sp - slot * p : p \in 1..Len(words)} |-> words[(sp - a) \div slot]]
  OBVIOUS
<1>8a. writes \in Memories /\ \A a \in DOMAIN writes : a < sp
  BY <1>8, SlotsBelow
<1>8b. \A p \in 1..Len(words) : /\ sp - slot * p \in DOMAIN writes
                                /\ writes[sp - slot * p] = words[p]
  BY <1>8, SlotsHold
<1>9. PICK low \in Int : low = sp - slot * Len(words)
  <2>1. Len(words) \in Nat
    OBVIOUS
  <2>2. PICK t \in Int : t = slot * Len(words)
    BY <2>1
  <2>3. sp - t \in Int
    OBVIOUS
  <2> QED BY <2>2, <2>3, Zenon
<1>10. PICK mem \in Memories :
         /\ mem = Written(m.mem, writes)
         /\ \A a : a >= sp /\ a \in Int => Held(mem, a) = Held(m.mem, a)
         /\ \A p \in 1..Len(words) : Held(mem, sp - slot * p) = words[p]
  <2>1. m.mem \in Memories
    BY <1>1 DEF TypeOK
  <2>2. PICK mem : mem = Written(m.mem, writes)
    OBVIOUS
  <2>3. mem \in Memories /\ \A a : Held(mem, a) = IF a \in DOMAIN writes THEN writes[a]
                                                ELSE Held(m.mem, a)
    BY <1>8a, <2>1, <2>2, WrittenIs
  <2>4. \A a : a >= sp /\ a \in Int => a \notin DOMAIN writes
    BY <1>8a, MemoryIs
  <2>5. \A p \in 1..Len(words) : Held(mem, sp - slot * p) = words[p]
    BY <1>8b, <2>3
  <2> QED BY <2>2, <2>3, <2>4, <2>5
<1>11. /\ m' = [m EXCEPT !.sp = low, !.mem = mem]
       /\ calls' = [calls EXCEPT ![Depth] = d]
  <2>1. PushArgument
    OBVIOUS
  <2>2. calls' = [calls EXCEPT ![Depth].pushed = @ + 1]
    BY <2>1 DEF PushArgument
  <2>3. m' = [m EXCEPT !.sp = low, !.mem = mem]
    <3>1. i = IF target = "rv32" THEN Top.pushed + 1 ELSE Len(Top.kinds) - Top.pushed
      BY <1>2, <1>3
    <3>2. words = Pushes(Top, i)
      BY <1>2, <1>6
    <3>3. m' = [m EXCEPT
                !.sp = m.sp - Slot * Len(words),
                !.mem = Written(@, [a \in {m.sp - Slot * p : p \in 1..Len(words)} |->
                                      words[(m.sp - a) \div Slot]])]
      BY <2>1, <3>1, <3>2, ZenonT(30) DEF PushArgument
    <3> QED BY <1>7, <1>8, <1>9, <1>10, <3>3, SMTT(20)
  <2> QED BY <1>2, <1>4, <2>2, <2>3
<1>12. calls' \in Seq(CallRecords) /\ Depth' = Depth
  BY <1>1, <1>5, <1>11, TopReplaced
<1>13. /\ m.fp \in Int /\ m.ra \in Token /\ m.reg \in [0..7 -> Token]
       /\ m' = [sp |-> low, fp |-> m.fp, ra |-> m.ra, reg |-> m.reg, xmm |-> m.xmm,
                mem |-> mem]
  BY <1>1, <1>11 DEF TypeOK
<1>14. TypeOK' /\ m'.sp = low /\ m'.fp = m.fp /\ m'.mem = mem
  BY <1>1, <1>12, <1>13, TypedStep
<1>15. /\ sp <= c.sp /\ m.fp = c.fp /\ c.pushed < Len(c.kinds) /\ c.lost = 0
       /\ sp = c.sp - Room(target, c) - slot * PushedWords(c)
  BY <1>1, <1>2, <1>7, PushingBelow
<1>16. LevelOK(d, Depth)'
  <2>1. PICK x \in Int, y \in Int : x = PushedWords(c) /\ y = PushedWords(d)
    <3>1. c.pushed <= Len(c.kinds) /\ d.pushed <= Len(d.kinds)
      <4>1. c.pushed \in Nat /\ Len(c.kinds) \in Nat
        BY DEF CallRecords
      <4>2. c.pushed < Len(c.kinds) /\ d.pushed = c.pushed + 1 /\ Len(d.kinds) = Len(c.kinds)
        BY <1>5, <1>15
      <4> QED BY <4>1, <4>2
    <3> QED BY <1>1, <1>5, <3>1, PushedIs
  <2>2. PICK p \in Nat, top \in Int :
          p = Room(target, c) /\ top = c.sp /\ Room(target, d)' = p
    <3>1. target \in Targets /\ c.sp \in Int /\ Room(target, d)' = Room(target, c)
      BY <1>1, <1>5, WIs, RoomStays DEF CallRecords
    <3> QED BY <3>1, RoomIs
  <2>3. sp = top - p - slot * x /\ low = sp - slot * (y - x)
    BY <1>6, <1>9, <1>15, <2>1, <2>2
  <2>4. low = top - p - slot * y
    <3>1. CASE slot = 4
      BY <2>3, <3>1
    <3>2. CASE slot = 8
      BY <2>3, <3>2
    <3>3. CASE slot = 16
      BY <2>3, <3>3
    <3> QED BY <3>1, <3>2, <3>3
  <2>5. Slot' = slot /\ PushedWords(d)' = y
    <3>1. W' = W
      BY <1>1 DEF W
    <3> QED BY <1>1, <1>7, <2>1, <3>1 DEF Slot, PushedWords
  <2>6. SpAt(Depth)' = low /\ FpAt(Depth)' = m.fp
    BY <1>14 DEF SpAt, FpAt
  <2>7. d.pushed <= Len(d.kinds)
    <3>1. c.pushed \in Nat /\ Len(c.kinds) \in Nat
      BY DEF CallRecords
    <3>2. c.pushed < Len(c.kinds) /\ d.pushed = c.pushed + 1 /\ Len(d.kinds) = Len(c.kinds)
      BY <1>5, <1>15
    <3> QED BY <3>1, <3>2
  <2>8. PushingAt(d, Depth)'
    BY <1>1, <1>5, <1>15, <2>2, <2>4, <2>5, <2>6, <2>7 DEF PushingAt
  <2> QED BY <1>1, <1>2, <1>5, <2>8 DEF LevelOK
<1>17. \A a \in Int : a >= Top.sp => Held(m'.mem, a) = Held(m.mem, a)
  <2>1. c.sp \in Int
    BY DEF CallRecords
  <2> QED BY <1>2, <1>10, <1>14, <1>15, <2>1
<1>18. ArgumentPushed
  <2>1. Top' = d
    BY <1>1, <1>5, <1>11, TopReplaced
  <2>2. i = IF target = "rv32" THEN Top.pushed + 1 ELSE Len(Top.kinds) - Top.pushed
    BY <1>2, <1>3
  <2>3. words = Pushes(Top, i)
    BY <1>2, <1>6
  <2>4. Top' = [Top EXCEPT !.pushed = @ + 1]
    BY <1>2, <1>4, <2>1
  <2>5. /\ \A a \in Int : a >= m.sp => Held(m'.mem, a) = Held(m.mem, a)
        /\ \A p \in 1..Len(words) : Held(m'.mem, m.sp - Slot * p) = words[p]
    BY <1>7, <1>10, <1>14
  <2> QED BY <2>2, <2>3, <2>4, <2>5, Zenon DEF ArgumentPushed
<1>19. FramesInv' /\ TopOnly
  BY <1>1, <1>2, <1>5, <1>11, <1>14, <1>16, <1>17, TopStep
<1> QED BY <1>18, <1>19

\* What is written below an address changes nothing above it.
LEMMA WrittenBelow ==
  ASSUME NEW mem \in Memories, NEW writes \in Memories, NEW limit \in Int,
         \A a \in DOMAIN writes : a < limit
  PROVE  /\ Written(mem, writes) \in Memories
         /\ \A a \in Int : a >= limit => Held(Written(mem, writes), a) = Held(mem, a)
<1>1. \A a \in Int : a >= limit => a \notin DOMAIN writes
  BY MemoryIs
<1> QED BY <1>1, WrittenIs

\* The packed words of RV32 are below the slots of the words.
LEMMA PackedIs ==
  ASSUME TypeOK, NEW c \in CallRecords, target = "rv32"
  PROVE  /\ Packed(c).sp = m.sp - stack_bytes(target, c.kinds)
         /\ Packed(c).mem \in Memories
         /\ \A a \in Int : a >= m.sp => Held(Packed(c).mem, a) = Held(m.mem, a)
         /\ \A j \in 0..stack_words_count(target, c.kinds) - 1 :
              Held(Packed(c).mem, m.sp - stack_bytes(target, c.kinds) + 4 * j)
                = PushedWord(c, 8 + j)
<1>1. c.kinds \in Seq(Kinds) /\ target \in Targets
  BY WIs DEF CallRecords
<1>2. PICK bytes \in Nat, count \in Nat :
        /\ bytes = stack_bytes(target, c.kinds) /\ count = stack_words_count(target, c.kinds)
        /\ count * 4 <= bytes
  BY <1>1, CallSize
<1>3. PICK top \in Int, old \in Memories : top = m.sp /\ old = m.mem
  BY DEF TypeOK
<1>4. PICK sp \in Int : sp = top - bytes
  OBVIOUS
<1>5. PICK D : D = {sp + 4 * j : j \in 0..count - 1}
  OBVIOUS
<1>6. PICK w : w = [a \in D |-> PushedWord(c, 8 + (a - sp) \div 4)]
  OBVIOUS
<1>7. Packed(c) = [sp |-> sp, mem |-> Written(old, w)]
  BY <1>2, <1>3, <1>4, <1>5, <1>6 DEF Packed
<1>8. ASSUME NEW a \in D PROVE a \in Int /\ a < top
  <2>1. PICK j \in 0..count - 1 : a = sp + 4 * j
    BY <1>5, <1>8
  <2> QED BY <1>2, <1>4, <2>1
<1>9. w \in Memories /\ DOMAIN w = D
  <2>1. ASSUME NEW r PROVE PushedWord(c, r) \in Token
    <3>1. \E x : PushedWord(c, r) = Held(old, x)
      BY <1>3 DEF PushedWord, At, Held
    <3> QED BY <3>1, HeldTyped
  <2>2. DOMAIN w = D /\ w = [a \in D |-> w[a]] /\ \A a \in D : w[a] \in Token
    BY <1>6, <2>1
  <2> QED BY <1>8, <2>2, MemoryIs
<1>10. /\ Written(old, w) \in Memories
       /\ \A a \in Int : a >= top => Held(Written(old, w), a) = Held(old, a)
  BY <1>8, <1>9, WrittenBelow
<1>11. ASSUME NEW j \in 0..count - 1
       PROVE  Held(Written(old, w), sp + 4 * j) = PushedWord(c, 8 + j)
  <2>1. sp + 4 * j \in D /\ (sp + 4 * j - sp) \div 4 = j
    BY <1>5
  <2>2. w[sp + 4 * j] = PushedWord(c, 8 + j)
    BY <1>6, <2>1
  <2> QED BY <1>9, <2>1, <2>2, WrittenIs
<1> QED BY <1>2, <1>3, <1>4, <1>7, <1>10, <1>11

\* When all the arguments are pushed, all the words are.
LEMMA AllPushed ==
  ASSUME TypeOK, NEW c \in CallRecords, c.pushed = Len(c.kinds)
  PROVE  PushedWords(c) = total_words(target, c.kinds)
<1>1. c.kinds \in Seq(Kinds) /\ target \in Targets
  BY WIs DEF CallRecords
<1>2. LastWord(target, c.kinds)[0] = 0 /\ total_words(target, c.kinds) \in Nat
  BY <1>1, LastStep
<1>3. LastWord(target, c.kinds)[Len(c.kinds)] = total_words(target, c.kinds)
  BY DEF total_words
<1>4. Len(c.kinds) - c.pushed = 0
  BY <1>1
<1> QED BY <1>2, <1>3, <1>4 DEF PushedWords

\* What loading the registers does to the call: the other words are on top.
RegistersLoaded ==
  /\ Top' = [Top EXCEPT !.phase = "call"]
  /\ \A r \in 0..reg_words_count(target, Top.kinds) - 1 : m'.reg[r] = PushedWord(Top, r)
  /\ \A j \in 0..stack_words_count(target, Top.kinds) - 1 :
       Held(m'.mem, Top.sp - Dropped(Top) + W * j)
         = PushedWord(Top, reg_words_count(target, Top.kinds) + j)

\* LoadRegisters takes the slots off, or leaves the packed words on top; either
\* way the stack is down by what the caller will drop.
LEMMA LoadRegistersKeeps ==
  ASSUME FramesInv, LoadRegisters
  PROVE  FramesInv' /\ TopOnly /\ RegistersLoaded
<1>1. TypeOK /\ Depth > 0 /\ Top.phase = "arguments" /\ Top.pushed = Len(Top.kinds)
      /\ target' = target /\ made' = made
  BY DEF LoadRegisters, FramesInv
<1>2. PICK c \in CallRecords : c = Top /\ c = calls[Depth]
  BY <1>1, Calls
<1>3. PICK d : d = [c EXCEPT !.phase = "call"]
  OBVIOUS
<1>4. /\ d \in CallRecords /\ d.kinds = c.kinds /\ d.sp = c.sp
      /\ d.fp = c.fp /\ d.f = c.f /\ d.phase = "call"
      /\ d.operands = c.operands /\ d.lost = c.lost
  BY <1>3, Rephased DEF Phases
<1>5. PICK regs \in 0..8, stacked \in Nat, total \in Nat, pad \in {0, 8}, bytes \in Nat :
        /\ regs = reg_words_count(target, c.kinds) /\ total = total_words(target, c.kinds)
        /\ stacked = stack_words_count(target, c.kinds) /\ pad = stack_pad(target, c.kinds)
        /\ bytes = stack_bytes(target, c.kinds) /\ total = regs + stacked
        /\ target = "rv32" /\ total <= 8 => regs = total
        /\ target # "x86_64" => pad = 0
  <2>1. c.kinds \in Seq(Kinds) /\ target \in Targets
    BY <1>1, WIs DEF CallRecords
  <2> QED BY <2>1, CallSize
<1>6. PICK sp \in Int, slot \in {4, 8, 16}, w \in {4, 8} : sp = m.sp /\ slot = Slot /\ w = W
        /\ slot = IF target = "rv32" THEN 16 ELSE w
  BY <1>1, WIs DEF TypeOK
<1>7a. PICK o \in Nat : o = Operand * c.operands /\ Room(target, c) = o + pad
  <2>1. c.operands \in Nat /\ Operand \in {4, 16}
    BY DEF CallRecords, Operand
  <2> QED BY <1>5, <2>1 DEF Operand, Room
<1>7. /\ sp <= c.sp /\ m.fp = c.fp /\ c.sp \in Int /\ c.lost = 0
      /\ sp = c.sp - (o + pad) - slot * total
  <2>1. c.sp \in Int /\ PushedWords(c) = total
    BY <1>1, <1>2, <1>5, AllPushed DEF CallRecords
  <2> QED BY <1>1, <1>2, <1>5, <1>6, <1>7a, <2>1, PushingBelow
<1>8. PICK rest : rest = IF target # "rv32" \/ total <= 8
                         THEN [sp |-> m.sp + Slot * regs, mem |-> m.mem] ELSE Packed(c)
  OBVIOUS
<1>9. PICK reg, xmm :
        /\ reg = [r \in 0..7 |-> IF r < regs THEN PushedWord(c, r) ELSE Junk]
        /\ xmm = IF target = "x86_64" THEN XmmWords(c) ELSE << >>
  OBVIOUS
<1>10. /\ m' = [m EXCEPT !.reg = reg, !.xmm = xmm, !.sp = rest.sp, !.mem = rest.mem]
       /\ calls' = [calls EXCEPT ![Depth] = d]
  <2>1. LoadRegisters
    OBVIOUS
  <2>2. calls' = [calls EXCEPT ![Depth].phase = "call"]
    BY <2>1 DEF LoadRegisters, Step
  <2>3. m' = [m EXCEPT !.reg = reg, !.xmm = xmm, !.sp = rest.sp, !.mem = rest.mem]
    <3>1. regs = reg_words_count(target, Top.kinds) /\ total = total_words(target, Top.kinds)
      BY <1>2, <1>5
    <3>2. /\ reg = [r \in 0..7 |-> IF r < regs THEN PushedWord(Top, r) ELSE Junk]
          /\ xmm = IF target = "x86_64" THEN XmmWords(Top) ELSE << >>
          /\ rest = IF target # "rv32" \/ total <= 8
                    THEN [sp |-> m.sp + Slot * regs, mem |-> m.mem] ELSE Packed(Top)
      BY <1>2, <1>8, <1>9
    <3>3. m' = [m EXCEPT
                !.reg = [r \in 0..7 |-> IF r < reg_words_count(target, Top.kinds)
                                       THEN PushedWord(Top, r) ELSE Junk],
                !.xmm = IF target = "x86_64" THEN XmmWords(Top) ELSE << >>,
                !.sp = (IF target # "rv32" \/ total_words(target, Top.kinds) <= 8
                          THEN [sp |-> m.sp + Slot * reg_words_count(target, Top.kinds),
                                mem |-> m.mem] ELSE Packed(Top)).sp,
                !.mem = (IF target # "rv32" \/ total_words(target, Top.kinds) <= 8
                          THEN [sp |-> m.sp + Slot * reg_words_count(target, Top.kinds),
                                mem |-> m.mem] ELSE Packed(Top)).mem]
      BY <2>1, Zenon DEF LoadRegisters
    <3> QED BY <3>1, <3>2, <3>3, Zenon
  <2> QED BY <1>2, <1>3, <2>2, <2>3
<1>11. /\ rest.mem \in Memories
       /\ \A a \in Int : a >= sp => Held(rest.mem, a) = Held(m.mem, a)
  <2>1. CASE target # "rv32" \/ total <= 8
    BY <1>1, <1>8, <2>1 DEF TypeOK
  <2>2. CASE ~(target # "rv32" \/ total <= 8)
    BY <1>1, <1>6, <1>8, <2>2, PackedIs
  <2> QED BY <2>1, <2>2
<1>12. reg \in [0..7 -> Token]
  <2>1. ASSUME NEW r PROVE PushedWord(c, r) \in Token
    <3>1. \E x : PushedWord(c, r) = Held(m.mem, x)
      BY DEF PushedWord, At, Held
    <3>2. m.mem \in Memories
      BY <1>1 DEF TypeOK
    <3> QED BY <3>1, <3>2, HeldTyped
  <2> QED BY <1>9, <2>1, Tokens
<1>13. PICK top \in Int, drop \in Nat : top = c.sp /\ drop = Dropped(c)
  BY <1>1, <1>7, DroppedIs
<1>14. rest.sp = top - drop /\ rest.sp \in Int
  <2>1. CASE target = "rv32" /\ total <= 8
    <3>1. rest.sp = sp + slot * regs /\ drop = o + 0 /\ slot = 16
      <4>1. rest.sp = sp + slot * regs /\ slot = 16
        BY <1>6, <1>8, <2>1
      <4>2. Dropped(c) = Operand * c.operands + 0
        BY <1>5, <2>1 DEF Dropped
      <4> QED BY <1>7a, <1>13, <4>1, <4>2
    <3> QED BY <1>5, <1>7, <1>13, <2>1, <3>1
  <2>2. CASE target = "rv32" /\ ~(total <= 8)
    <3>1. rest.sp = sp - bytes /\ drop = o + (16 * total + bytes) /\ slot = 16
      BY <1>1, <1>5, <1>6, <1>7a, <1>8, <1>13, <2>2, PackedIs DEF Dropped
    <3> QED BY <1>5, <1>7, <1>13, <2>2, <3>1
  <2>3. CASE target # "rv32"
    <3>1. rest.sp = sp + slot * regs /\ drop = o + (w * stacked + pad) /\ slot = w
      BY <1>5, <1>6, <1>7a, <1>8, <1>13, <2>3 DEF Dropped
    <3>2. CASE w = 4
      BY <1>5, <1>7, <1>13, <3>1, <3>2
    <3>3. CASE w = 8
      BY <1>5, <1>7, <1>13, <3>1, <3>3
    <3> QED BY <3>2, <3>3
  <2> QED BY <2>1, <2>2, <2>3
<1>15. calls' \in Seq(CallRecords) /\ Depth' = Depth
  BY <1>1, <1>4, <1>10, TopReplaced
<1>16. /\ m.fp \in Int /\ m.ra \in Token
       /\ m' = [sp |-> rest.sp, fp |-> m.fp, ra |-> m.ra, reg |-> reg, xmm |-> xmm,
                mem |-> rest.mem]
  BY <1>1, <1>10 DEF TypeOK
<1>17. TypeOK' /\ m'.sp = rest.sp /\ m'.fp = m.fp /\ m'.mem = rest.mem
  BY <1>1, <1>11, <1>12, <1>14, <1>15, <1>16, TypedStep
<1>18. LevelOK(d, Depth)'
  <2>1. Dropped(d)' = drop
    BY <1>1, <1>4, <1>13, RoomStays
  <2>2. CallingAt(d, Depth)'
    BY <1>4, <1>7, <1>13, <1>14, <1>17, <2>1 DEF CallingAt
  <2> QED BY <1>4, <2>2 DEF LevelOK
<1>19. \A a \in Int : a >= Top.sp => Held(m'.mem, a) = Held(m.mem, a)
  BY <1>2, <1>7, <1>11, <1>17
<1>20. ASSUME NEW j \in 0..stacked - 1
       PROVE  Held(rest.mem, top - drop + w * j) = PushedWord(c, regs + j)
  <2>1. CASE target = "rv32"
    <3>1. total > 8 /\ regs = 8 /\ w = 4
      <4>1. total > 8
        BY <1>5, <2>1
      <4>2. regs = 8
        BY <1>5, <2>1, <4>1 DEF reg_words_count, ArgRegisters
      <4>3. w = 4
        BY <1>6, <2>1 DEF W, WordSize
      <4> QED BY <4>1, <4>2, <4>3
    <3>2. rest = Packed(c)
      BY <1>8, <2>1, <3>1
    <3>3. rest.sp = sp - bytes
      BY <1>1, <1>5, <1>6, <2>1, <3>2, PackedIs
    <3>4. Held(rest.mem, sp - bytes + 4 * j) = PushedWord(c, 8 + j)
      BY <1>1, <1>5, <1>6, <2>1, <3>2, PackedIs
    <3> QED BY <1>14, <3>1, <3>3, <3>4
  <2>2. CASE target # "rv32"
    <3>1. rest.sp = sp + slot * regs /\ rest.mem = m.mem /\ slot = w
      BY <1>6, <1>8, <2>2
    <3>2. top - drop + w * j = sp + w * (regs + j)
      <4>1. CASE w = 4
        BY <1>14, <3>1, <4>1
      <4>2. CASE w = 8
        BY <1>14, <3>1, <4>2
      <4> QED BY <4>1, <4>2
    <3>3. PushedWord(c, regs + j) = Held(m.mem, sp + w * (regs + j))
      BY <1>6, <2>2, <3>1 DEF PushedWord, At, Held
    <3> QED BY <3>1, <3>2, <3>3
  <2> QED BY <2>1, <2>2
<1>21. RegistersLoaded
  <2>1. Top' = d
    BY <1>1, <1>4, <1>10, TopReplaced
  <2>2. Top' = [Top EXCEPT !.phase = "call"]
    BY <1>2, <1>3, <2>1
  <2>3. m'.reg = reg
    BY <1>16
  <2>4. \A r \in 0..regs - 1 : reg[r] = PushedWord(c, r)
    BY <1>9
  <2>5. \A j \in 0..stacked - 1 :
          Held(m'.mem, c.sp - Dropped(c) + W * j) = PushedWord(c, regs + j)
    BY <1>6, <1>13, <1>17, <1>20
  <2> QED BY <1>2, <1>5, <2>2, <2>3, <2>4, <2>5 DEF RegistersLoaded
<1>22. FramesInv' /\ TopOnly
  BY <1>1, <1>2, <1>4, <1>10, <1>17, <1>18, <1>19, TopStep
<1> QED BY <1>21, <1>22

\* What the call instruction does to the call: its words stay.
Jumped ==
  /\ Top' = [Top EXCEPT !.phase = "entry"] /\ m'.reg = m.reg
  /\ \A a \in Int : a >= Top.sp - Dropped(Top) => Held(m'.mem, a) = Held(m.mem, a)

\* The call instruction leaves the address to return to where the callee saves
\* or expects it.
LEMMA JumpKeeps ==
  ASSUME FramesInv, Jump
  PROVE  FramesInv' /\ TopOnly /\ Jumped
<1>1. TypeOK /\ Depth > 0 /\ Top.phase = "call" /\ target' = target /\ made' = made
  BY DEF Jump, FramesInv
<1>2. PICK c \in CallRecords : c = Top /\ c = calls[Depth] /\ LevelOK(c, Depth)
  BY <1>1, Calls DEF FramesInv, Levels
<1>3. PICK d : d = [c EXCEPT !.phase = "entry"]
  OBVIOUS
<1>4. /\ d \in CallRecords /\ d.n = c.n /\ d.sp = c.sp /\ d.kinds = c.kinds
      /\ d.fp = c.fp /\ d.f = c.f /\ d.phase = "entry"
      /\ d.operands = c.operands /\ d.lost = c.lost
  BY <1>3, Rephased DEF Phases
<1>5. calls' = [calls EXCEPT ![Depth] = d]
  <2>1. calls' = [calls EXCEPT ![Depth].phase = "entry"]
    BY DEF Jump, Step
  <2> QED BY <1>2, <1>3, <2>1
<1>6. calls' \in Seq(CallRecords) /\ Depth' = Depth
  BY <1>1, <1>4, <1>5, TopReplaced
<1>7. PICK top \in Int, drop \in Nat, w \in {4, 8}, sp \in Int :
        /\ top = c.sp /\ drop = Dropped(c) /\ w = W /\ sp = m.sp /\ sp = top - drop
        /\ m.fp = c.fp /\ c.lost = 0
  <2>1. CallingAt(c, Depth)
    BY <1>1, <1>2 DEF LevelOK
  <2>2. c.sp \in Int /\ Dropped(c) \in Nat /\ W \in {4, 8} /\ m.sp \in Int
    BY <1>1, WIs, DroppedIs DEF TypeOK, CallRecords
  <2> QED BY <2>1, <2>2 DEF CallingAt
<1>8. PICK back \in Token : back = ReturnTo(c.n)
  <2>1. c.n \in Int
    BY DEF CallRecords
  <2> QED BY <2>1, Tokens
<1>9. /\ W' = w
      /\ Dropped(d)' = drop
  BY <1>1, <1>4, <1>7, RoomStays
<1>10. /\ m.fp \in Int /\ m.ra \in Token /\ m.reg \in [0..7 -> Token] /\ m.mem \in Memories
       /\ m = [sp |-> m.sp, fp |-> m.fp, ra |-> m.ra, reg |-> m.reg, xmm |-> m.xmm,
               mem |-> m.mem]
  BY <1>1 DEF TypeOK
<1>10a. Top' = [Top EXCEPT !.phase = "entry"]
  <2>1. Top' = d
    BY <1>1, <1>4, <1>5, TopReplaced
  <2> QED BY <1>2, <1>3, <2>1
<1>11. CASE target = "rv32"
  <2>1. m' = [m EXCEPT !.ra = back]
    BY <1>2, <1>8, <1>11 DEF Jump
  <2>2. m' = [sp |-> sp, fp |-> m.fp, ra |-> back, reg |-> m.reg, xmm |-> m.xmm,
              mem |-> m.mem]
    BY <1>7, <1>10, <2>1
  <2>3. TypeOK' /\ m'.sp = sp /\ m'.fp = m.fp /\ m'.ra = back /\ m'.mem = m.mem
    BY <1>1, <1>6, <1>10, <2>2, TypedStep
  <2>4. EnteringAt(d, Depth)'
    BY <1>1, <1>4, <1>7, <1>8, <1>9, <1>11, <2>3 DEF EnteringAt
  <2>5. LevelOK(d, Depth)'
    BY <1>4, <2>4 DEF LevelOK
  <2>6. Jumped
    <3>1. m'.reg = m.reg
      BY <2>2
    <3> QED BY <1>10a, <2>3, <3>1 DEF Jumped
  <2>7. FramesInv' /\ TopOnly
    BY <1>1, <1>2, <1>4, <1>5, <2>3, <2>5, TopStep
  <2> QED BY <2>6, <2>7
<1>12. CASE target # "rv32"
  <2>1. PICK low \in Int : low = sp - w
    OBVIOUS
  <2>2. m' = [m EXCEPT !.sp = low, !.mem = Written(@, Word(low, back))]
    BY <1>2, <1>7, <1>8, <1>12, <2>1 DEF Jump
  <2>3. PICK old \in Memories, wd \in Memories :
          old = m.mem /\ wd = Word(low, back) /\ DOMAIN wd = {low} /\ wd[low] = back
    BY <1>10, WordIs
  <2>4. PICK mem \in Memories :
          /\ mem = Written(old, wd)
          /\ \A a : Held(mem, a) = IF a \in DOMAIN wd THEN wd[a] ELSE Held(old, a)
    BY WrittenIs
  <2>5. m' = [sp |-> low, fp |-> m.fp, ra |-> m.ra, reg |-> m.reg, xmm |-> m.xmm,
              mem |-> mem]
    BY <1>10, <2>2, <2>3, <2>4
  <2>6. TypeOK' /\ m'.sp = low /\ m'.fp = m.fp /\ m'.mem = mem
    BY <1>1, <1>6, <1>10, <2>5, TypedStep
  <2>7. At(m.sp)' = back
    BY <2>3, <2>4, <2>6 DEF At, Held
  <2>8. EnteringAt(d, Depth)'
    BY <1>1, <1>4, <1>7, <1>8, <1>9, <1>12, <2>1, <2>6, <2>7 DEF EnteringAt
  <2>9. LevelOK(d, Depth)'
    BY <1>4, <2>8 DEF LevelOK
  <2>10. \A a \in Int : a >= Top.sp => Held(m'.mem, a) = Held(m.mem, a)
    <3>1. \A a \in Int : a >= top => a # low
      BY <1>7, <2>1
    <3> QED BY <1>2, <1>7, <2>3, <2>4, <2>6, <3>1
  <2>11. Jumped
    <3>1. m'.reg = m.reg
      BY <2>5
    <3>2. \A a \in Int : a >= top - drop => a # low
      BY <1>7, <2>1
    <3>3. \A a \in Int : a >= top - drop => Held(m'.mem, a) = Held(m.mem, a)
      BY <2>3, <2>4, <2>6, <3>2
    <3> QED BY <1>2, <1>7, <1>10a, <3>1, <3>3 DEF Jumped
  <2>12. FramesInv' /\ TopOnly
    BY <1>1, <1>2, <1>4, <1>5, <2>6, <2>9, <2>10, TopStep
  <2> QED BY <2>11, <2>12
<1> QED BY <1>11, <1>12

-----------------------------------------------------------------------------
\* The variables and the temporaries are in the frame, above the registers
\* RV32 saves there.
LEMMA ScratchWithin ==
  ASSUME TypeOK, NEW f \in Functions, NEW s \in Scratch(f)
  PROVE  /\ s \in Int /\ s < 0 /\ s < -FirstLocal(target, f)
         /\ target = "rv32" => 8 - stack_size(target, f) <= s
<1>1. PICK w \in {4, 8} : w = W /\ w = WordSize(target)
  BY WIs
<1>2. PICK first \in Nat, size \in Nat, count \in Nat :
        /\ first = FirstLocal(target, f) /\ size = stack_size(target, f) /\ count = f.locals
        /\ first + count * w + 160 <= size
  <2>1. target \in Targets /\ f.locals \in Nat
    BY WIs DEF Functions
  <2> QED BY <1>1, <2>1, FrameSize
<1>3. CASE \E v \in 2..f.locals : s = -(FirstLocal(target, f) + W * v)
  <2>1. PICK v \in 2..count : s = -(first + w * v)
    BY <1>1, <1>2, <1>3
  <2>2. v \in Nat /\ v >= 2 /\ v <= count
    BY <2>1
  <2>3. CASE w = 4
    BY <1>2, <2>1, <2>2, <2>3
  <2>4. CASE w = 8
    BY <1>2, <2>1, <2>2, <2>4
  <2> QED BY <1>2, <2>3, <2>4
<1>4. CASE \E slot \in 0..7, v \in 0..(16 \div W) - 1 : s = Temporary(target, f, slot) + W * v
  <2>1. PICK slot \in 0..7, v \in 0..(16 \div w) - 1 : s = Temporary(target, f, slot) + w * v
    BY <1>1, <1>4
  <2>2. PICK past \in 0..12 : past = w * v
    <3>1. CASE w = 4
      BY <2>1, <3>1
    <3>2. CASE w = 8
      BY <2>1, <3>2
    <3> QED BY <3>1, <3>2
  <2>3. size >= first + 160
    <3>1. count * w >= 0 /\ count * w \in Int
      BY <1>2
    <3>2. PICK bytes \in Nat : bytes = count * w
      BY <3>1
    <3>3. first + bytes + 160 <= size
      BY <1>2, <3>2
    <3> QED BY <3>3
  <2>4. CASE target = "rv32"
    <3>1. s = -size + 8 + 16 * slot + past
      BY <1>2, <2>1, <2>2, <2>4 DEF Temporary
    <3> QED BY <1>2, <2>2, <2>3, <3>1
  <2>5. CASE target # "rv32"
    <3>1. s = -((size - 128 + 16) + 16 * slot) + past
      BY <1>2, <2>1, <2>2, <2>5 DEF Temporary
    <3> QED BY <1>2, <2>2, <2>3, <2>5, <3>1
  <2> QED BY <2>4, <2>5
<1> QED BY <1>3, <1>4 DEF Scratch

\* The variables and temporaries of the body are written, nothing else than
\* the frame is.
Readied(ready, f) ==
  [ready EXCEPT !.mem = Written(@, [a \in {ready.fp + s : s \in Scratch(f)} |-> Junk])]

FrameOnly(mem, old, fp, f) ==
  \A a \in Int : a >= fp \/ (target = "rv32" /\ a < fp - stack_size(target, f) + 8) =>
                    Held(mem, a) = Held(old, a)

\* The prologue and the body write into their frame only.
LEMMA PrologueKeeps ==
  ASSUME TypeOK, NEW f \in Functions, NoLongDouble(target, f),
         NEW sp \in Int, NEW fp \in Int, NEW ra \in Token, NEW reg \in [0..7 -> Token],
         NEW xmm, NEW old \in Memories, NEW framed, NEW ready,
         framed = [sp |-> sp, fp |-> fp, ra |-> ra, reg |-> reg, xmm |-> xmm, mem |-> old],
         ready = Moved(framed, Moves(target, f))
  PROVE  /\ ready.fp = fp
         /\ \E mem \in Memories :
              /\ Readied(ready, f)
                   = [sp |-> sp, fp |-> fp, ra |-> ra, reg |-> reg, xmm |-> xmm, mem |-> mem]
              /\ FrameOnly(mem, old, fp, f)
              /\ \A v : Among(v, Moves(target, f)) =>
                         Held(mem, fp + v.to) = Source(framed, old, v)
<1>1. target \in Targets
  BY WIs
<1>2. PICK moves \in Seq(PrologueMoves) : moves = Moves(target, f) /\ AllWithin(moves, target, f)
  BY <1>1, MovesWithin
<1>3. /\ framed.fp = fp /\ framed.reg = reg /\ framed.mem = old
      /\ framed.fp \in Int /\ framed.reg \in [0..7 -> Token] /\ framed.mem \in Memories
  OBVIOUS
<1>4. PICK mid \in Memories :
        /\ Moved(framed, moves) = [framed EXCEPT !.mem = mid]
        /\ \A a : (\A i \in 1..Len(moves) : a # framed.fp + moves[i].to) =>
                    Held(mid, a) = Held(framed.mem, a)
        /\ \A v : Among(v, moves) => Held(mid, fp + v.to) = Source(framed, old, v)
  <2>1. PICK z : z = framed
    OBVIOUS
  <2>2. z.fp \in Int /\ z.reg \in [0..7 -> Token] /\ z.mem \in Memories
    BY <1>3, <2>1
  <2>3. PICK mid \in Memories :
          /\ Moved(z, moves) = [z EXCEPT !.mem = mid]
          /\ \A a : (\A i \in 1..Len(moves) : a # z.fp + moves[i].to) =>
                      Held(mid, a) = Held(z.mem, a)
          /\ \A v : Among(v, moves) => Held(mid, z.fp + v.to) = Source(z, z.mem, v)
    <3>1. Separate(moves)
      BY <1>1, <1>2, ParametersAre, MovesReach
    <3>2. \E mid \in Memories :
            /\ Moved(z, moves) = [z EXCEPT !.mem = mid]
            /\ \A a : (\A i \in 1..Len(moves) : a # z.fp + moves[i].to) =>
                        Held(mid, a) = Held(z.mem, a)
            /\ Separate(moves) =>
                 \A v : Among(v, moves) => Held(mid, z.fp + v.to) = Source(z, z.mem, v)
      BY <2>2, MovedIs
    <3> QED BY <3>1, <3>2
  <2>4. z.fp = fp /\ z.mem = old
    BY <1>3, <2>1
  <2> QED BY <2>1, <2>3, <2>4
<1>5. ready = [sp |-> sp, fp |-> fp, ra |-> ra, reg |-> reg, xmm |-> xmm, mem |-> mid]
  BY <1>2, <1>4
<1>6. ready.fp = fp /\ ready.mem = mid
  BY <1>5
<1>7. PICK D : D = {fp + s : s \in Scratch(f)}
  OBVIOUS
<1>8. PICK w : w = [a \in D |-> Junk]
  OBVIOUS
<1>9. PICK size \in Nat, first \in Nat, u \in {4, 8} :
        /\ size = stack_size(target, f) /\ first = FirstLocal(target, f)
        /\ u = WordSize(target) /\ first + 160 <= size
  <2>1. /\ FirstLocal(target, f) \in Nat /\ stack_size(target, f) \in Nat
        /\ FirstLocal(target, f) + f.locals * WordSize(target) + 160 <= stack_size(target, f)
        /\ WordSize(target) \in {4, 8} /\ f.locals \in Nat
    BY <1>1, FrameSize DEF WordSize, Functions
  <2>2. PICK count \in Nat, unit \in {4, 8} : count = f.locals /\ unit = WordSize(target)
    BY <2>1
  <2>3. PICK bytes \in Nat : bytes = count * unit
    OBVIOUS
  <2>4. PICK x \in Nat, y \in Nat : x = FirstLocal(target, f) /\ y = stack_size(target, f)
    BY <2>1
  <2>5. x + bytes + 160 <= y
    BY <2>1, <2>2, <2>3, <2>4
  <2>6. x + 160 <= y
    BY <2>5
  <2> QED BY <2>2, <2>4, <2>6
<1>10. ASSUME NEW a \in D
       PROVE  a \in Int /\ a < fp /\ a < fp - first /\ (target = "rv32" => fp - size + 8 <= a)
  <2>1. PICK s \in Scratch(f) : a = fp + s
    BY <1>7, <1>10
  <2>2. s \in Int /\ s < 0 /\ s < -first /\ (target = "rv32" => 8 - size <= s)
    BY <1>9, ScratchWithin
  <2>3. a \in Int /\ a < fp /\ a < fp - first
    BY <2>1, <2>2
  <2>4. ASSUME target = "rv32" PROVE fp - size + 8 <= a
    <3>1. 8 - size <= s
      BY <2>2, <2>4
    <3> QED BY <2>1, <2>2, <3>1
  <2> QED BY <2>3, <2>4
<1>11. w \in Memories /\ DOMAIN w = D
  <2>1. DOMAIN w = D /\ w = [a \in D |-> w[a]] /\ \A a \in D : w[a] = Junk
    BY <1>8
  <2>2. \A a \in D : a \in Int
    BY <1>10
  <2>3. DOMAIN w \subseteq Int /\ \A a \in DOMAIN w : w[a] \in Token
    BY <2>1, <2>2, Tokens, Zenon
  <2>4. w = [a \in DOMAIN w |-> w[a]]
    BY <2>1
  <2>5. w \in Memories
    BY <2>3, <2>4, MemoryIs, Zenon
  <2> QED BY <2>1, <2>5
<1>12. PICK mem \in Memories :
         /\ mem = Written(mid, w)
         /\ \A a : Held(mem, a) = IF a \in DOMAIN w THEN w[a] ELSE Held(mid, a)
  BY <1>11, WrittenIs
<1>13. [ready EXCEPT !.mem = Written(@, [a \in {ready.fp + s : s \in Scratch(f)} |-> Junk])]
         = [sp |-> sp, fp |-> fp, ra |-> ra, reg |-> reg, xmm |-> xmm, mem |-> mem]
  <2>1. w = [a \in {ready.fp + s : s \in Scratch(f)} |-> Junk]
    BY <1>6, <1>7, <1>8
  <2>2. Written(ready.mem, w) = mem
    BY <1>5, <1>12
  <2>3. [ready EXCEPT !.mem = mem]
         = [sp |-> sp, fp |-> fp, ra |-> ra, reg |-> reg, xmm |-> xmm, mem |-> mem]
    BY <1>5
  <2> QED BY <2>1, <2>2, <2>3
<1>14. ASSUME NEW a \in Int, a >= fp \/ (target = "rv32" /\ a < fp - size + 8)
       PROVE  Held(mem, a) = Held(old, a)
  <2>1. a \notin D
    BY <1>10, <1>14
  <2>2. ASSUME NEW i \in 1..Len(moves) PROVE a # fp + moves[i].to
    <3>1. PICK to \in Int : to = moves[i].to
      BY <1>2, <2>2, MoveTyped
    <3>2. -first <= to /\ to <= -u
      BY <1>2, <1>9, <2>2, <3>1 DEF AllWithin, Within
    <3>2a. first + 160 <= size /\ u >= 4 /\ u \in Int
      BY <1>9, SMTT(20)
    <3>2b. to < 0 /\ 8 - size <= to
      BY <3>2, <3>2a
    <3>3. fp + to < fp /\ ~(fp + to < fp - size + 8)
      BY <3>2b
    <3>4. a # fp + to
      BY <1>14, <3>3
    <3> QED BY <3>1, <3>4
  <2>3. Held(mid, a) = Held(old, a)
    BY <1>3, <1>4, <2>2
  <2> QED BY <1>11, <1>12, <2>1, <2>3
<1>15. FrameOnly(mem, old, fp, f)
  BY <1>9, <1>14 DEF FrameOnly
<1>16. Readied(ready, f)
         = [sp |-> sp, fp |-> fp, ra |-> ra, reg |-> reg, xmm |-> xmm, mem |-> mem]
  BY <1>13 DEF Readied
<1>17. ASSUME NEW v, Among(v, Moves(target, f))
       PROVE  Held(mem, fp + v.to) = Source(framed, old, v)
  <2>1. PICK j \in 1..Len(moves) : moves[j] = v
    BY <1>2, <1>17 DEF Among
  <2>2. PICK to \in Int : to = v.to
    BY <2>1, MoveTyped
  <2>3. -first <= to
    BY <1>2, <1>9, <2>1, <2>2 DEF AllWithin, Within
  <2>4. fp + to \notin D
    <3>1. ~(fp + to < fp - first)
      BY <2>3
    <3> QED BY <1>10, <3>1
  <2>5. Held(mem, fp + to) = Held(mid, fp + to)
    BY <1>11, <1>12, <2>4
  <2> QED BY <1>2, <1>4, <1>17, <2>2, <2>5
<1> QED BY <1>6, <1>15, <1>16, <1>17

\* The frame the prologue of each back end sets up.
LEMMA FrameIs ==
  ASSUME TypeOK, Depth > 0, NEW c \in CallRecords, c = Top, EnteringAt(c, Depth),
         NEW framed, framed = IF target = "rv32" THEN FrameRv32 ELSE FrameX86
  PROVE  \E sp \in Int, fp \in Int, old \in Memories :
           /\ framed = [sp |-> sp, fp |-> fp, ra |-> m.ra, reg |-> m.reg, xmm |-> m.xmm,
                        mem |-> old]
           /\ sp = fp - stack_size(target, c.f)
           /\ \A a \in Int : a >= c.sp - Dropped(c) => Held(old, a) = Held(m.mem, a)
           /\ IF target = "rv32"
              THEN /\ fp = c.sp - Dropped(c)
                   /\ Held(old, sp) = ReturnTo(c.n) /\ Held(old, sp + 4) = FrameOf(c.fp)
              ELSE /\ fp = c.sp - Dropped(c) - 2 * W
                   /\ Held(old, fp) = FrameOf(c.fp) /\ Held(old, fp + W) = ReturnTo(c.n)
<1>1. /\ m.mem \in Memories /\ m.ra \in Token /\ m.fp = c.fp /\ m.sp \in Int
      /\ m = [sp |-> m.sp, fp |-> m.fp, ra |-> m.ra, reg |-> m.reg, xmm |-> m.xmm,
              mem |-> m.mem]
  BY DEF TypeOK, EnteringAt
<1>2. PICK mem \in Memories, x \in Int : mem = m.mem /\ x = m.sp
  BY <1>1
<1>3. PICK w \in {4, 8}, top \in Int, drop \in Nat :
        w = W /\ top = c.sp /\ drop = Dropped(c)
  BY WIs, DroppedIs DEF CallRecords
<1>4. PICK size \in Nat : size = stack_size(target, c.f) /\ size >= 160
  <2>1. c.f \in Functions /\ target \in Targets
    BY WIs DEF CallRecords
  <2>2. /\ FirstLocal(target, c.f) \in Nat /\ stack_size(target, c.f) \in Nat
        /\ FirstLocal(target, c.f) + c.f.locals * WordSize(target) + 160 <= stack_size(target, c.f)
    BY <2>1, FrameSize
  <2>3. PICK count \in Nat, u \in {4, 8} : count = c.f.locals /\ u = WordSize(target)
    BY <2>1 DEF Functions, WordSize
  <2>4. PICK bytes \in Nat : bytes = count * u
    OBVIOUS
  <2>5. PICK a \in Nat, b \in Nat : a = FirstLocal(target, c.f) /\ b = stack_size(target, c.f)
    BY <2>2
  <2>6. a + bytes + 160 <= b
    BY <2>2, <2>3, <2>4, <2>5
  <2>7. b >= 160
    BY <2>6
  <2> QED BY <2>5, <2>7
<1>5. PICK frame \in Token, back \in Token : frame = FrameOf(c.fp) /\ back = ReturnTo(c.n)
  <2>1. c.fp \in Int /\ c.n \in Int
    BY DEF CallRecords
  <2> QED BY <2>1, Tokens
<1>6. CASE target = "rv32"
  <2>1. x = top - drop /\ m.ra = back
    BY <1>2, <1>3, <1>5, <1>6 DEF EnteringAt
  <2>2. PICK sp \in Int : sp = x - size
    OBVIOUS
  <2>3. PICK D : D = {sp, sp + 4}
    OBVIOUS
  <2>4. PICK wd : wd = [a \in D |-> IF a = sp THEN back ELSE frame]
    OBVIOUS
  <2>5. /\ wd \in Memories /\ DOMAIN wd = D /\ wd[sp] = back /\ wd[sp + 4] = frame
        /\ \A a \in DOMAIN wd : a < x
    <3>1. D \subseteq Int /\ sp \in D /\ sp + 4 \in D /\ sp + 4 # sp
          /\ \A a \in D : a < x
      BY <1>4, <2>2, <2>3
    <3>2. DOMAIN wd = D /\ wd = [a \in D |-> wd[a]] /\ \A a \in D : wd[a] \in Token
      BY <2>4
    <3> QED BY <2>4, <3>1, <3>2, MemoryIs
  <2>6. PICK old \in Memories :
          /\ old = Written(mem, wd)
          /\ \A a : Held(old, a) = IF a \in DOMAIN wd THEN wd[a] ELSE Held(mem, a)
          /\ \A a \in Int : a >= x => Held(old, a) = Held(mem, a)
    <3>1. Written(mem, wd) \in Memories
      BY <2>5, WrittenIs
    <3>2. \A a \in Int : a >= x => Held(Written(mem, wd), a) = Held(mem, a)
      BY <2>5, WrittenBelow
    <3>3. \A a : Held(Written(mem, wd), a) = IF a \in DOMAIN wd THEN wd[a] ELSE Held(mem, a)
      BY <2>5, WrittenIs
    <3> QED BY <3>1, <3>2, <3>3
  <2>7. framed = [m EXCEPT !.sp = sp, !.fp = x, !.mem = old]
    <3>1. Top.f = c.f
      OBVIOUS
    <3>2. FrameRv32 = [m EXCEPT !.sp = sp, !.fp = m.sp,
               !.mem = Written(@, [a \in {sp, sp + 4} |-> IF a = sp THEN m.ra ELSE FrameOf(m.fp)])]
      BY <1>2, <1>4, <2>2, <3>1 DEF FrameRv32
    <3>3. wd = [a \in {sp, sp + 4} |-> IF a = sp THEN m.ra ELSE FrameOf(m.fp)]
      BY <1>1, <1>5, <2>1, <2>3, <2>4
    <3> QED BY <1>2, <1>6, <2>6, <3>2, <3>3
  <2>8. framed = [sp |-> sp, fp |-> x, ra |-> m.ra, reg |-> m.reg, xmm |-> m.xmm, mem |-> old]
    BY <1>1, <2>7
  <2>9. \A a \in Int : a >= c.sp - Dropped(c) => Held(old, a) = Held(m.mem, a)
    BY <1>2, <1>3, <2>1, <2>6
  <2>10. Held(old, sp) = ReturnTo(c.n) /\ Held(old, sp + 4) = FrameOf(c.fp)
    BY <1>5, <2>3, <2>5, <2>6
  <2>11. sp = x - stack_size(target, c.f) /\ x = c.sp - Dropped(c)
    BY <1>3, <1>4, <2>1, <2>2
  <2> QED BY <1>6, <2>8, <2>9, <2>10, <2>11
<1>7. CASE target # "rv32"
  <2>1. x = top - drop - w /\ Held(mem, x) = back
    BY <1>2, <1>3, <1>5, <1>7 DEF EnteringAt, At, Held
  <2>2. PICK fp \in Int, sp \in Int : fp = x - w /\ sp = fp - size
    OBVIOUS
  <2>3. PICK wd \in Memories : wd = Word(fp, frame) /\ DOMAIN wd = {fp} /\ wd[fp] = frame
    BY WordIs
  <2>4. PICK old \in Memories :
          /\ old = Written(mem, wd)
          /\ \A a : Held(old, a) = IF a \in DOMAIN wd THEN wd[a] ELSE Held(mem, a)
    BY WrittenIs
  <2>5. framed = [m EXCEPT !.sp = sp, !.fp = fp, !.mem = old]
    <3>1. Top.f = c.f
      OBVIOUS
    <3>2. FrameX86 = [m EXCEPT !.sp = sp, !.fp = fp, !.mem = Written(@, Word(fp, FrameOf(m.fp)))]
      BY <1>2, <1>3, <1>4, <2>2, <3>1 DEF FrameX86
    <3> QED BY <1>1, <1>2, <1>5, <1>7, <2>3, <2>4, <3>2
  <2>6. framed = [sp |-> sp, fp |-> fp, ra |-> m.ra, reg |-> m.reg, xmm |-> m.xmm, mem |-> old]
    BY <1>1, <2>5
  <2>7. \A a \in Int : a >= c.sp - Dropped(c) => Held(old, a) = Held(m.mem, a)
    <3>1. \A a \in Int : a >= top - drop => a # fp
      BY <2>1, <2>2
    <3> QED BY <1>2, <1>3, <2>3, <2>4, <3>1
  <2>8. Held(old, fp) = FrameOf(c.fp) /\ Held(old, fp + W) = ReturnTo(c.n)
    <3>1. fp + w = x /\ fp + w # fp
      BY <2>2
    <3> QED BY <1>3, <1>5, <2>1, <2>3, <2>4, <3>1
  <2>9. sp = fp - stack_size(target, c.f) /\ fp = c.sp - Dropped(c) - 2 * W
    BY <1>3, <1>4, <2>1, <2>2
  <2> QED BY <1>7, <2>6, <2>7, <2>8, <2>9
<1> QED BY <1>6, <1>7

\* What the prologue does to the call: the words of the caller stay, and each
\* move has carried its word, from a register or from the words of the caller.
Entered ==
  LET start == Top.sp - Dropped(Top)
  IN  /\ Top' = [Top EXCEPT !.phase = "body", !.frame = m'.fp]
      /\ m'.fp = IF target = "rv32" THEN start ELSE start - 2 * W
      /\ \A a \in Int : a >= start => Held(m'.mem, a) = Held(m.mem, a)
      /\ \A v \in PrologueMoves :
           Among(v, Moves(target, Top.f)) /\ (v.from # "reg" => m'.fp + v.n >= start) =>
             Held(m'.mem, m'.fp + v.to)
               = IF v.from = "reg" THEN m.reg[v.n] ELSE Held(m.mem, m'.fp + v.n)

\* The prologue saves what the epilogue will look for, and the moves and the
\* variables leave it alone.
LEMMA EnterKeeps ==
  ASSUME FramesInv, Enter
  PROVE  FramesInv' /\ TopOnly /\ Entered
<1>1. TypeOK /\ Depth > 0 /\ Top.phase = "entry" /\ target' = target /\ made' = made
  BY DEF Enter, FramesInv
<1>2. PICK c \in CallRecords : c = Top /\ c = calls[Depth] /\ LevelOK(c, Depth)
                               /\ NoLongDouble(target, c.f)
  BY <1>1, Calls DEF FramesInv, Levels, NoLongDoubles
<1>3. c.f \in Functions /\ target \in Targets /\ EnteringAt(c, Depth) /\ c.lost = 0
  BY <1>1, <1>2, WIs DEF LevelOK, CallRecords, EnteringAt
<1>4. PICK framed, ready : /\ framed = IF target = "rv32" THEN FrameRv32 ELSE FrameX86
                           /\ ready = Moved(framed, Moves(target, c.f))
  OBVIOUS
<1>5. PICK sp \in Int, fp \in Int, old \in Memories :
        /\ framed = [sp |-> sp, fp |-> fp, ra |-> m.ra, reg |-> m.reg, xmm |-> m.xmm,
                     mem |-> old]
        /\ sp = fp - stack_size(target, c.f)
        /\ \A a \in Int : a >= c.sp - Dropped(c) => Held(old, a) = Held(m.mem, a)
        /\ IF target = "rv32"
           THEN /\ fp = c.sp - Dropped(c)
                /\ Held(old, sp) = ReturnTo(c.n) /\ Held(old, sp + 4) = FrameOf(c.fp)
           ELSE /\ fp = c.sp - Dropped(c) - 2 * W
                /\ Held(old, fp) = FrameOf(c.fp) /\ Held(old, fp + W) = ReturnTo(c.n)
  BY <1>1, <1>2, <1>3, <1>4, FrameIs
<1>6. m.ra \in Token /\ m.reg \in [0..7 -> Token]
  BY <1>1 DEF TypeOK
<1>7. /\ ready.fp = fp
      /\ \E mem \in Memories :
           /\ Readied(ready, c.f)
                = [sp |-> sp, fp |-> fp, ra |-> m.ra, reg |-> m.reg, xmm |-> m.xmm, mem |-> mem]
           /\ FrameOnly(mem, old, fp, c.f)
           /\ \A v : Among(v, Moves(target, c.f)) =>
                      Held(mem, fp + v.to) = Source(framed, old, v)
  <2>1. PICK f \in Functions : f = c.f
    BY <1>3
  <2>2. PICK ra \in Token, reg \in [0..7 -> Token] : ra = m.ra /\ reg = m.reg
    BY <1>6
  <2>2a. PICK xmm : xmm = m.xmm
    OBVIOUS
  <2>3. /\ framed = [sp |-> sp, fp |-> fp, ra |-> ra, reg |-> reg, xmm |-> xmm, mem |-> old]
        /\ ready = Moved(framed, Moves(target, f)) /\ NoLongDouble(target, f)
    BY <1>2, <1>4, <1>5, <2>1, <2>2, <2>2a
  <2>4. /\ ready.fp = fp
        /\ \E mem \in Memories :
             /\ Readied(ready, f)
                  = [sp |-> sp, fp |-> fp, ra |-> ra, reg |-> reg, xmm |-> xmm, mem |-> mem]
             /\ FrameOnly(mem, old, fp, f)
             /\ \A v : Among(v, Moves(target, f)) =>
                        Held(mem, fp + v.to) = Source(framed, old, v)
    BY <1>1, <2>3, PrologueKeeps
  <2> QED BY <2>1, <2>2, <2>2a, <2>4
<1>8. PICK mem \in Memories :
        /\ Readied(ready, c.f)
             = [sp |-> sp, fp |-> fp, ra |-> m.ra, reg |-> m.reg, xmm |-> m.xmm, mem |-> mem]
        /\ FrameOnly(mem, old, fp, c.f)
        /\ \A v : Among(v, Moves(target, c.f)) =>
                   Held(mem, fp + v.to) = Source(framed, old, v)
  BY <1>7
<1>9. PICK d : d = [c EXCEPT !.phase = "body", !.frame = fp]
  OBVIOUS
<1>10. /\ d \in CallRecords /\ d.kinds = c.kinds /\ d.sp = c.sp /\ d.n = c.n
       /\ d.fp = c.fp /\ d.f = c.f /\ d.phase = "body" /\ d.frame = fp
       /\ d.operands = c.operands /\ d.lost = 0
  <2>1. PICK b : b = [c EXCEPT !.phase = "body"]
    OBVIOUS
  <2>2. /\ b \in CallRecords /\ b.kinds = c.kinds /\ b.sp = c.sp /\ b.n = c.n
        /\ b.fp = c.fp /\ b.f = c.f /\ b.phase = "body"
        /\ b.operands = c.operands /\ b.lost = 0
    <3>1. "body" \in Phases
      BY DEF Phases
    <3> QED BY <1>3, <2>1, <3>1, Rephased
  <2>3. d = [b EXCEPT !.frame = fp]
    BY <1>9, <2>1
  <2> QED BY <2>2, <2>3, Reframed
<1>11. /\ m' = [sp |-> sp, fp |-> fp, ra |-> m.ra, reg |-> m.reg, xmm |-> m.xmm, mem |-> mem]
       /\ calls' = [calls EXCEPT ![Depth] = d]
  <2>1. Enter
    OBVIOUS
  <2>2. /\ m' = [ready EXCEPT !.mem = Written(@, [a \in {ready.fp + s : s \in Scratch(c.f)} |-> Junk])]
        /\ calls' = [calls EXCEPT ![Depth].phase = "body", ![Depth].frame = ready.fp]
    <3> DEFINE one == Moved(IF target = "rv32" THEN FrameRv32 ELSE FrameX86, Moves(target, Top.f))
    <3>1. one = ready /\ c.f = Top.f
      BY <1>2, <1>4
    <3>2. /\ m' = [one EXCEPT !.mem = Written(@, [a \in {one.fp + s : s \in Scratch(Top.f)} |-> Junk])]
          /\ calls' = [calls EXCEPT ![Depth].phase = "body", ![Depth].frame = one.fp]
      BY <2>1, Zenon DEF Enter
    <3> HIDE DEF one
    <3> QED BY <3>1, <3>2
  <2>3. m' = Readied(ready, c.f)
    BY <2>2 DEF Readied
  <2>4. Depth \in DOMAIN calls
    BY <1>1, Calls
  <2>5. calls' = [calls EXCEPT ![Depth] = d]
    <3>1. [calls EXCEPT ![Depth].phase = "body", ![Depth].frame = fp]
            = [calls EXCEPT ![Depth] = [[calls[Depth] EXCEPT !.phase = "body"] EXCEPT !.frame = fp]]
      BY <2>4
    <3>2. d = [[c EXCEPT !.phase = "body"] EXCEPT !.frame = fp]
      BY <1>9
    <3> QED BY <1>2, <1>7, <2>2, <3>1, <3>2
  <2> QED BY <1>8, <2>3, <2>5
<1>12. calls' \in Seq(CallRecords) /\ Depth' = Depth
  BY <1>1, <1>10, <1>11, TopReplaced
<1>13. TypeOK' /\ m'.sp = sp /\ m'.fp = fp /\ m'.mem = mem
  BY <1>1, <1>6, <1>11, <1>12, TypedStep
<1>14. PICK top \in Int, drop \in Nat, w \in {4, 8}, size \in Nat :
         /\ top = c.sp /\ drop = Dropped(c) /\ w = W /\ size = stack_size(target, c.f)
  BY <1>1, <1>3, WIs, DroppedIs, FrameSize DEF CallRecords
<1>15. W' = w /\ Dropped(d)' = drop /\ FrameEnd(d)' = sp /\ sp - 4 * d.lost = sp
  BY <1>1, <1>5, <1>10, <1>14, RoomStays DEF FrameEnd
<1>16. RunningAt(d, Depth)'
  <2>1. \A a : At(a)' = Held(mem, a)
    BY <1>13 DEF At, Held
  <2>2. SpAt(Depth)' = sp /\ FpAt(Depth)' = fp
    BY <1>13 DEF SpAt, FpAt
  <2>3. CASE target = "rv32"
    <3>1. sp < fp - size + 8 /\ sp + 4 < fp - size + 8 /\ sp + 4 \in Int
      BY <1>5, <1>14
    <3>2. Held(mem, sp) = Held(old, sp) /\ Held(mem, sp + 4) = Held(old, sp + 4)
      <4>1. \A a \in Int : a < fp - size + 8 => Held(mem, a) = Held(old, a)
        BY <1>8, <1>14, <2>3 DEF FrameOnly
      <4> QED BY <3>1, <4>1
    <3>3. Held(mem, sp) = ReturnTo(c.n) /\ Held(mem, sp + 4) = FrameOf(c.fp)
          /\ fp = top - drop /\ sp = fp - size
      BY <1>5, <1>14, <2>3, <3>2
    <3> QED BY <1>1, <1>10, <1>14, <1>15, <2>1, <2>2, <2>3, <3>3 DEF RunningAt
  <2>4. CASE target # "rv32"
    <3>1. fp >= fp /\ fp + w >= fp /\ fp + w \in Int
      OBVIOUS
    <3>2. Held(mem, fp) = Held(old, fp) /\ Held(mem, fp + w) = Held(old, fp + w)
      BY <1>8, <3>1 DEF FrameOnly
    <3>3. Held(mem, fp + w) = ReturnTo(c.n) /\ Held(mem, fp) = FrameOf(c.fp)
          /\ fp = top - drop - 2 * w /\ sp = fp - size
      BY <1>5, <1>14, <2>4, <3>2
    <3> QED BY <1>1, <1>10, <1>14, <1>15, <2>1, <2>2, <2>4, <3>3 DEF RunningAt
  <2> QED BY <2>3, <2>4
<1>17. LevelOK(d, Depth)'
  BY <1>10, <1>16 DEF LevelOK
<1>18. \A a \in Int : a >= Top.sp => Held(m'.mem, a) = Held(m.mem, a)
  <2>1. fp <= top
    <3>1. CASE target = "rv32"
      BY <1>5, <1>14, <3>1
    <3>2. CASE target # "rv32"
      <4>1. fp = top - drop - 2 * w
        BY <1>5, <1>14, <3>2
      <4> QED BY <4>1
    <3> QED BY <3>1, <3>2
  <2>2. ASSUME NEW a \in Int, a >= top PROVE Held(mem, a) = Held(m.mem, a)
    <3>1. a >= fp
      BY <2>1, <2>2
    <3>2. Held(mem, a) = Held(old, a)
      BY <1>8, <3>1 DEF FrameOnly
    <3>3. a >= c.sp - Dropped(c)
      BY <1>14, <2>2
    <3>4. Held(old, a) = Held(m.mem, a)
      BY <1>5, <3>3
    <3> QED BY <3>2, <3>4
  <2> QED BY <1>2, <1>13, <1>14, <2>2
<1>19. FramesInv' /\ TopOnly
  BY <1>1, <1>2, <1>10, <1>11, <1>13, <1>17, <1>18, TopStep
<1>20. PICK start \in Int : /\ start = Top.sp - Dropped(Top)
                            /\ fp = IF target = "rv32" THEN start ELSE start - 2 * w
  BY <1>2, <1>5, <1>14
<1>21. ASSUME NEW a \in Int, a >= start PROVE Held(mem, a) = Held(m.mem, a)
  <2>1. a >= fp
    BY <1>14, <1>20, <1>21
  <2>2. Held(mem, a) = Held(old, a)
    BY <1>8, <2>1 DEF FrameOnly
  <2> QED BY <1>2, <1>5, <1>20, <1>21, <2>2
<1>22. ASSUME NEW v \in PrologueMoves, Among(v, Moves(target, c.f)),
              v.from # "reg" => fp + v.n >= start
       PROVE  Held(mem, fp + v.to) = IF v.from = "reg" THEN m.reg[v.n] ELSE Held(m.mem, fp + v.n)
  <2>1. Held(mem, fp + v.to) = Source(framed, old, v)
    BY <1>8, <1>22
  <2>2. framed.reg = m.reg /\ framed.fp = fp
    BY <1>5
  <2>3. CASE v.from = "reg"
    BY <2>1, <2>2, <2>3 DEF Source
  <2>4. CASE v.from # "reg"
    <3>1. Source(framed, old, v) = Held(old, fp + v.n)
      BY <2>2, <2>4 DEF Source, Held
    <3>2. fp + v.n \in Int /\ fp + v.n >= start
      BY <1>22, <2>4 DEF PrologueMoves
    <3>3. Held(old, fp + v.n) = Held(m.mem, fp + v.n)
      BY <1>2, <1>5, <1>20, <3>2
    <3> QED BY <2>1, <2>4, <3>1, <3>3
  <2> QED BY <2>3, <2>4
<1>23. Top' = [Top EXCEPT !.phase = "body", !.frame = fp]
  <2>1. Top' = d
    BY <1>1, <1>10, <1>11, TopReplaced
  <2> QED BY <1>2, <1>9, <2>1
<1>24. Entered
  <2>1. m'.fp = fp /\ m'.mem = mem
    BY <1>13
  <2>2. PICK top0 : top0 = Top /\ top0 = c
    BY <1>2
  <2> QED BY <1>2, <1>14, <1>20, <1>21, <1>22, <1>23, <2>1 DEF Entered
<1> QED BY <1>19, <1>24

\* The va_list is a variable of the frame.
LEMMA ListWithin ==
  ASSUME TypeOK, NEW c \in CallRecords
  PROVE  /\ ap(c) \in Int /\ ap(c) < c.frame /\ c.frame \in Int
         /\ c.frame - stack_size(target, c.f) + 4 < ap(c)
<1>1. PICK w \in {4, 8} : w = W /\ w = WordSize(target)
  BY WIs
<1>2. PICK first \in Nat, size \in Nat, count \in Nat, frame \in Int :
        /\ first = FirstLocal(target, c.f) /\ size = stack_size(target, c.f)
        /\ count = c.f.locals /\ frame = c.frame /\ first + count * w + 160 <= size
  <2>1. target \in Targets /\ c.f \in Functions /\ c.frame \in Int
    BY WIs DEF CallRecords
  <2>2. c.f.locals \in Nat
    BY <2>1 DEF Functions
  <2> QED BY <1>1, <2>1, <2>2, FrameSize
<1>3. PICK bytes \in Nat : bytes = count * w
  OBVIOUS
<1>4. first + bytes + 160 <= size
  BY <1>2, <1>3
<1>5. ap(c) = frame - (first + w)
  BY <1>1, <1>2 DEF ap
<1>6. frame - (first + w) < frame /\ frame - size + 4 < frame - (first + w)
  BY <1>4
<1> QED BY <1>2, <1>5, <1>6

\* Where a running call is.
LEMMA RunningBelow ==
  ASSUME FramesInv, Depth > 0, NEW c \in CallRecords, c = Top, c.phase = "body"
  PROVE  /\ RunningAt(c, Depth) /\ LevelOK(c, Depth)
         /\ m.sp = c.frame - stack_size(target, c.f) - 4 * c.lost /\ m.fp = c.frame
         /\ m.sp \in Int /\ m.fp \in Int /\ m.fp <= c.sp
<1>1. TypeOK /\ LevelOK(c, Depth)
  BY Calls DEF FramesInv, Levels
<1>2. RunningAt(c, Depth)
  BY <1>1 DEF LevelOK
<1>3. PICK w \in {4, 8}, top \in Int, drop \in Nat, fp \in Int :
        w = W /\ top = c.sp /\ drop = Dropped(c) /\ fp = c.frame
  BY <1>1, WIs, DroppedIs DEF CallRecords
<1>4. fp = top - drop \/ fp = top - drop - 2 * w
  BY <1>2, <1>3 DEF RunningAt
<1>5. fp <= top
  BY <1>4
<1>6. m.sp = c.frame - stack_size(target, c.f) - 4 * c.lost /\ m.fp = c.frame
  BY <1>2 DEF RunningAt, SpAt, FpAt, FrameEnd
<1> QED BY <1>1, <1>2, <1>3, <1>5, <1>6 DEF TypeOK

\* Only the va_list of the call on top changes.
ListSet(value) ==
  \A a : Held(m'.mem, a) = IF a = ap(Top) THEN value ELSE Held(m.mem, a)

ListWritten(c, value) == m' = [m EXCEPT !.mem = Written(@, Word(ap(c), value))]

\* A step of the body that changes the va_list only.
LEMMA ListStep ==
  ASSUME FramesInv, Depth > 0, NEW c \in CallRecords, c = Top, c.phase = "body",
         NEW d \in CallRecords, d.f = c.f, d.kinds = c.kinds, d.n = c.n, d.phase = c.phase,
         d.sp = c.sp, d.fp = c.fp, d.frame = c.frame,
         d.operands = c.operands, d.lost = c.lost,
         calls' = [calls EXCEPT ![Depth] = d], target' = target, made' = made,
         NEW value \in Token, ListWritten(c, value)
  PROVE  FramesInv' /\ TopOnly /\ ListSet(value) /\ Top' = d
<1>1. TypeOK
  BY DEF FramesInv
<1>2. PICK x \in Int, frame \in Int, size \in Nat, top \in Int :
        /\ x = ap(c) /\ frame = c.frame /\ size = stack_size(target, c.f) /\ top = c.sp
        /\ x < frame /\ frame - size + 4 < x
  <2>1. c.f \in Functions /\ target \in Targets /\ c.sp \in Int
    BY <1>1, WIs DEF CallRecords
  <2> QED BY <1>1, <2>1, ListWithin, FrameSize
<1>3. PICK old \in Memories, wd \in Memories :
        old = m.mem /\ wd = Word(x, value) /\ DOMAIN wd = {x} /\ wd[x] = value
  <2>1. m.mem \in Memories
    BY <1>1 DEF TypeOK
  <2> QED BY <2>1, WordIs
<1>4. PICK mem \in Memories :
        /\ mem = Written(old, wd)
        /\ \A a : Held(mem, a) = IF a \in DOMAIN wd THEN wd[a] ELSE Held(old, a)
  BY WrittenIs
<1>5. /\ m.fp \in Int /\ m.ra \in Token /\ m.reg \in [0..7 -> Token] /\ m.sp \in Int
      /\ m' = [sp |-> m.sp, fp |-> m.fp, ra |-> m.ra, reg |-> m.reg, xmm |-> m.xmm,
               mem |-> mem]
  <2>1. m' = [m EXCEPT !.mem = mem]
    BY <1>2, <1>3, <1>4 DEF ListWritten
  <2> QED BY <1>1, <2>1 DEF TypeOK
<1>6. calls' \in Seq(CallRecords) /\ Depth' = Depth /\ Top' = d
  BY <1>1, TopReplaced
<1>7. TypeOK' /\ m'.sp = m.sp /\ m'.fp = m.fp /\ m'.mem = mem
  <2>1. PICK sp \in Int, fp \in Int, ra \in Token, reg \in [0..7 -> Token] :
          sp = m.sp /\ fp = m.fp /\ ra = m.ra /\ reg = m.reg
    BY <1>5
  <2>1a. PICK xmm : xmm = m.xmm
    OBVIOUS
  <2>2. m' = [sp |-> sp, fp |-> fp, ra |-> ra, reg |-> reg, xmm |-> xmm, mem |-> mem]
    BY <1>5, <2>1, <2>1a
  <2>3. TypeOK' /\ m'.sp = sp /\ m'.fp = fp /\ m'.mem = mem
    BY <1>1, <1>6, <2>2, TypedStep
  <2> QED BY <2>1, <2>3
<1>8. /\ RunningAt(c, Depth) /\ m.fp = frame /\ m.fp <= top
      /\ FrameEnd(d) = frame - size /\ FrameEnd(c) = frame - size
  BY <1>2, RunningBelow DEF FrameEnd
<1>9. LevelOK(d, Depth)
  <2>1. RunningAt(d, Depth)
    <3>1. Dropped(d) = Dropped(c)
      BY RoomStays
    <3> QED BY <1>8, <3>1 DEF RunningAt
  <2> QED BY <2>1 DEF LevelOK
<1>10. \A a \in Int : ~(frame - size + 4 < a /\ a < frame) => Held(m'.mem, a) = Held(m.mem, a)
  <2>1. \A a \in Int : ~(frame - size + 4 < a /\ a < frame) => a # x
    BY <1>2
  <2> QED BY <1>3, <1>4, <1>7, <2>1
<1>11. LevelOK(d, Depth)'
  <2>1. PICK k \in Nat : k = Depth
    BY <1>1, Calls
  <2>2. PICK s \in Int : s = m.sp
    BY <1>5
  <2>3. SpAt(k) = s /\ SpAt(k)' = s /\ FpAt(k)' = FpAt(k)
    BY <1>6, <1>7, <2>1, <2>2 DEF SpAt, FpAt
  <2>4. d.frame = frame /\ d.phase \in {"arguments", "body"} /\ LevelOK(d, k)
    BY <1>2, <1>9, <2>1
  <2>5. \A a \in Int : a >= s /\ ~(FrameEnd(d) + 4 < a /\ a < d.frame) =>
                           Held(m'.mem, a) = Held(m.mem, a)
    BY <1>8, <1>10, <2>4
  <2>6. LevelOK(d, k)'
    BY <1>1, <2>3, <2>4, <2>5, LevelKept
  <2> QED BY <1>6, <2>1, <2>6
<1>12. \A a \in Int : a >= Top.sp => Held(m'.mem, a) = Held(m.mem, a)
  <2>1. \A a \in Int : a >= top => ~(a < frame)
    BY <1>8
  <2> QED BY <1>2, <1>10, <2>1
<1>13. ListSet(value)
  BY <1>2, <1>3, <1>4, <1>7 DEF ListSet
<1>14. FramesInv' /\ TopOnly
  BY <1>7, <1>11, <1>12, TopStep
<1> QED BY <1>6, <1>13, <1>14

\* What va_start does to the call.
Started ==
  /\ Top' = [Top EXCEPT !.started = TRUE]
  /\ ListSet(Address(m.fp + va_offset(target, Top.f)))

\* va_start changes the va_list only.
LEMMA VaStartKeeps ==
  ASSUME FramesInv, VaStart
  PROVE  FramesInv' /\ TopOnly /\ Started
<1>1. TypeOK /\ Depth > 0 /\ Top.phase = "body" /\ target' = target /\ made' = made
  BY DEF VaStart, FramesInv
<1>2. PICK c \in CallRecords : c = Top /\ c = calls[Depth]
  BY <1>1, Calls
<1>3. PICK d : d = [c EXCEPT !.started = TRUE]
  OBVIOUS
<1>4. /\ d \in CallRecords /\ d.f = c.f /\ d.kinds = c.kinds /\ d.n = c.n /\ d.phase = c.phase
      /\ d.sp = c.sp /\ d.fp = c.fp /\ d.frame = c.frame
      /\ d.operands = c.operands /\ d.lost = c.lost
  <2>1. TRUE \in BOOLEAN
    OBVIOUS
  <2> QED BY <1>3, <2>1, Restarted
<1>5. PICK value : value = Address(m.fp + va_offset(target, c.f))
  OBVIOUS
<1>6. value \in Token
  <2>1. m.fp \in Int /\ Len(c.f.params) \in Nat /\ WordSize(target) \in {4, 8}
    <3>1. c.f \in Functions
      BY DEF CallRecords
    <3> QED BY <1>1, <3>1 DEF TypeOK, Functions, WordSize
  <2>2. PICK size \in {4, 8}, count \in Nat, fp \in Int :
          size = WordSize(target) /\ count = Len(c.f.params) /\ fp = m.fp
    BY <2>1
  <2>3. PICK bytes \in Nat : bytes = size * count
    OBVIOUS
  <2>4. PICK low \in Int : low = IF target = "i386" THEN 8 ELSE SaveArea(target)
    BY DEF SaveArea
  <2>5. va_offset(target, c.f) = low + bytes
    BY <2>2, <2>3, <2>4 DEF va_offset
  <2>6. PICK x \in Int : x = fp + (low + bytes)
    OBVIOUS
  <2> QED BY <1>5, <2>2, <2>5, <2>6, Tokens
<1>7. /\ m' = [m EXCEPT !.mem = Written(@, Word(ap(c), value))]
      /\ calls' = [calls EXCEPT ![Depth] = d]
  <2>1. VaStart
    OBVIOUS
  <2> QED BY <1>2, <1>3, <1>5, <2>1 DEF VaStart
<1>8. ListWritten(c, value)
  BY <1>7 DEF ListWritten
<1>9. FramesInv' /\ TopOnly /\ ListSet(value) /\ Top' = d
  BY <1>1, <1>2, <1>4, <1>6, <1>7, <1>8, ListStep
<1> QED BY <1>2, <1>3, <1>5, <1>9 DEF Started

\* What va_arg does to the call: the words it takes are where the va_list says.
Taken ==
  LET k     == Extra(Top)[Len(Top.taken) + 1]
      start == AlignedStart(k, At(ap(Top))[2])
  IN  /\ Top' = [Top EXCEPT !.taken =
                   Append(@, [w \in 1..WordsIn(target, k) |-> At(start + W * (w - 1))])]
      /\ ListSet(Address(start + W * WordsIn(target, k)))

\* So does va_arg.
LEMMA VaArgKeeps ==
  ASSUME FramesInv, VaArg
  PROVE  FramesInv' /\ TopOnly /\ Taken
<1>1. TypeOK /\ Depth > 0 /\ Top.phase = "body" /\ target' = target /\ made' = made
  BY DEF VaArg, FramesInv
<1>2. PICK c \in CallRecords : c = Top /\ c = calls[Depth]
  BY <1>1, Calls
<1>3. PICK k \in Kinds : k = Extra(c)[Len(c.taken) + 1]
  <2>1. Len(c.taken) < Len(Extra(c))
    BY <1>2 DEF VaArg
  <2>2. Extra(c) \in Seq(Kinds) /\ Len(c.taken) \in Nat
    <3>1. c.kinds \in Seq(Kinds) /\ Len(c.f.params) \in Nat /\ Len(c.taken) \in Nat
      BY DEF CallRecords, Functions
    <3>2. PICK q \in Seq(Kinds), n \in Nat : q = c.kinds /\ n = Len(c.f.params)
      BY <3>1
    <3>3. SubSeq(q, n + 1, Len(q)) \in Seq(Kinds)
      OBVIOUS
    <3> QED BY <3>1, <3>2, <3>3 DEF Extra
  <2>3. PICK q \in Seq(Kinds), n \in Nat : q = Extra(c) /\ n = Len(c.taken) /\ n < Len(q)
    BY <2>1, <2>2
  <2>4. q[n + 1] \in Kinds
    BY <2>3
  <2> QED BY <2>3, <2>4
<1>4. PICK start : start = AlignedStart(k, At(ap(c))[2])
  OBVIOUS
<1>5. start \in Int
  <2>1. At(ap(c)) \in Token
    <3>1. m.mem \in Memories /\ At(ap(c)) = Held(m.mem, ap(c))
      BY <1>1 DEF TypeOK, At, Held
    <3> QED BY <3>1, HeldTyped
  <2>2. PICK a \in Int : a = At(ap(c))[2]
    BY <2>1, Tokens
  <2>3. Multiple(a, 8) \in Int
    BY DEF Multiple
  <2> QED BY <1>4, <2>2, <2>3 DEF AlignedStart
<1>6. PICK words \in 1..4, w \in {4, 8} : words = WordsIn(target, k) /\ w = W
  <2>1. target \in Targets /\ W \in {4, 8}
    BY <1>1, WIs
  <2> QED BY <2>1, WordsAre
<1>7. PICK taken : taken = Append(c.taken, [i \in 1..words |-> At(start + w * (i - 1))])
  OBVIOUS
<1>8. taken \in Seq(Seq(Token))
  <2>1. ASSUME NEW x PROVE At(x) \in Token
    <3>1. m.mem \in Memories /\ At(x) = Held(m.mem, x)
      BY <1>1 DEF TypeOK, At, Held
    <3> QED BY <3>1, HeldTyped
  <2>2. PICK new : new = [i \in 1..words |-> At(start + w * (i - 1))]
    OBVIOUS
  <2>3. new \in Seq(Token)
    BY <2>1, <2>2
  <2>4. c.taken \in Seq(Seq(Token))
    BY DEF CallRecords
  <2>5. PICK S : S = Seq(Token)
    OBVIOUS
  <2>6. new \in S /\ c.taken \in Seq(S)
    BY <2>3, <2>4, <2>5
  <2>7. Append(c.taken, new) \in Seq(S)
    BY <2>6
  <2> QED BY <1>7, <2>2, <2>5, <2>7
<1>9. PICK d : d = [c EXCEPT !.taken = taken]
  OBVIOUS
<1>10. /\ d \in CallRecords /\ d.f = c.f /\ d.kinds = c.kinds /\ d.n = c.n /\ d.phase = c.phase
       /\ d.sp = c.sp /\ d.fp = c.fp /\ d.frame = c.frame
       /\ d.operands = c.operands /\ d.lost = c.lost
  BY <1>8, <1>9, Retaken
<1>11. PICK value : value = Address(start + w * words)
  OBVIOUS
<1>12. value \in Token
  <2>1. PICK x \in Int : x = start + w * words
    BY <1>5, <1>6
  <2> QED BY <1>11, <2>1, Tokens
<1>13. /\ m' = [m EXCEPT !.mem = Written(@, Word(ap(c), value))]
       /\ calls' = [calls EXCEPT ![Depth] = d]
  <2>1. VaArg
    OBVIOUS
  <2> DEFINE kind == Extra(Top)[Len(Top.taken) + 1]
             first == AlignedStart(kind, At(ap(Top))[2])
  <2>2. /\ m' = [m EXCEPT !.mem = Written(@, Word(ap(Top), Address(first + W * WordsIn(target, kind))))]
        /\ calls' = [calls EXCEPT ![Depth].taken =
                       Append(@, [i \in 1..WordsIn(target, kind) |-> At(first + W * (i - 1))])]
    BY <2>1, Zenon DEF VaArg
  <2>3. kind = k /\ first = start
    BY <1>2, <1>3, <1>4
  <2> HIDE DEF kind, first
  <2>4. m' = [m EXCEPT !.mem = Written(@, Word(ap(c), value))]
    BY <1>2, <1>6, <1>11, <2>2, <2>3
  <2>5. calls' = [calls EXCEPT ![Depth].taken =
                    Append(@, [i \in 1..words |-> At(start + w * (i - 1))])]
    BY <1>6, <2>2, <2>3
  <2> QED BY <1>2, <1>7, <1>9, <2>4, <2>5
<1>14. ListWritten(c, value)
  BY <1>13 DEF ListWritten
<1>15. FramesInv' /\ TopOnly /\ ListSet(value) /\ Top' = d
  BY <1>1, <1>2, <1>10, <1>12, <1>13, <1>14, ListStep
<1>16. Taken
  <2>1. k = Extra(Top)[Len(Top.taken) + 1] /\ start = AlignedStart(k, At(ap(Top))[2])
    BY <1>2, <1>3, <1>4
  <2>2. Top' = [Top EXCEPT !.taken =
                  Append(@, [i \in 1..WordsIn(target, k) |-> At(start + W * (i - 1))])]
    BY <1>2, <1>6, <1>7, <1>9, <1>15
  <2>3. ListSet(Address(start + W * WordsIn(target, k)))
    BY <1>6, <1>11, <1>15
  <2> QED BY <2>1, <2>2, <2>3, Zenon DEF Taken
<1> QED BY <1>15, <1>16

\* What the initializer of a bit-field does to the call: a word is lost below
\* its stack pointer.
FieldInitialized ==
  /\ Top' = [Top EXCEPT !.lost = @ + 1]
  /\ \A a \in Int : a >= m.sp => Held(m'.mem, a) = Held(m.mem, a)

\* It writes below the frame only.
LEMMA InitializeFieldKeeps ==
  ASSUME FramesInv, InitializeField
  PROVE  FramesInv' /\ TopOnly /\ FieldInitialized
<1>1. /\ TypeOK /\ Depth > 0 /\ Top.phase = "body" /\ target = "rv32"
      /\ target' = target /\ made' = made
  BY DEF InitializeField, FramesInv
<1>2. PICK c \in CallRecords : c = Top /\ c = calls[Depth] /\ c.phase = "body"
  BY <1>1, Calls
<1>3. PICK l \in Nat, frame \in Int, size \in Nat, sp \in Int, top \in Int :
        /\ l = c.lost /\ frame = c.frame /\ size = stack_size(target, c.f) /\ sp = m.sp
        /\ top = c.sp /\ sp = frame - size - 4 * l /\ m.fp = frame /\ frame <= top
        /\ RunningAt(c, Depth)
  <2>1. c.f \in Functions /\ target \in Targets /\ c.lost \in Nat /\ c.sp \in Int
        /\ c.frame \in Int
    BY <1>1, WIs DEF CallRecords
  <2>2. stack_size(target, c.f) \in Nat
    BY <2>1, FrameSize
  <2> QED BY <1>1, <1>2, <2>1, <2>2, RunningBelow
<1>4. PICK d : d = [c EXCEPT !.lost = l + 1]
  OBVIOUS
<1>5. /\ d \in CallRecords /\ d.f = c.f /\ d.kinds = c.kinds /\ d.n = c.n /\ d.phase = c.phase
      /\ d.sp = c.sp /\ d.fp = c.fp /\ d.frame = c.frame
      /\ d.operands = c.operands /\ d.lost = l + 1
  <2>1. l + 1 \in Nat
    OBVIOUS
  <2> QED BY <1>4, <2>1, Relost
<1>6. PICK low \in Int : low = sp - 4
  OBVIOUS
<1>7. PICK old \in Memories, wd \in Memories :
        old = m.mem /\ wd = Word(low, Junk) /\ DOMAIN wd = {low} /\ wd[low] = Junk
  <2>1. m.mem \in Memories /\ Junk \in Token
    BY <1>1, Tokens DEF TypeOK
  <2> QED BY <2>1, WordIs
<1>8. PICK mem \in Memories :
        /\ mem = Written(old, wd)
        /\ \A a : Held(mem, a) = IF a \in DOMAIN wd THEN wd[a] ELSE Held(old, a)
  BY WrittenIs
<1>9. /\ m' = [m EXCEPT !.sp = low, !.mem = mem]
      /\ calls' = [calls EXCEPT ![Depth] = d]
  <2>1. InitializeField
    OBVIOUS
  <2>2. m' = [m EXCEPT !.sp = @ - 4, !.mem = Written(@, Word(m.sp - 4, Junk))]
        /\ calls' = [calls EXCEPT ![Depth].lost = @ + 1]
    BY <2>1 DEF InitializeField
  <2>3. m' = [m EXCEPT !.sp = low, !.mem = mem]
    BY <1>3, <1>6, <1>7, <1>8, <2>2
  <2>4. Depth \in DOMAIN calls
    BY <1>1, Calls
  <2>5. [calls EXCEPT ![Depth].lost = @ + 1]
          = [calls EXCEPT ![Depth] = [calls[Depth] EXCEPT !.lost = @ + 1]]
    BY <2>4
  <2>6. [c EXCEPT !.lost = @ + 1] = d
    BY <1>3, <1>4
  <2> QED BY <1>2, <2>2, <2>3, <2>5, <2>6
<1>10. calls' \in Seq(CallRecords) /\ Depth' = Depth /\ Top' = d
  BY <1>1, <1>5, <1>9, TopReplaced
<1>11. /\ m.fp \in Int /\ m.ra \in Token /\ m.reg \in [0..7 -> Token]
       /\ m' = [sp |-> low, fp |-> m.fp, ra |-> m.ra, reg |-> m.reg, xmm |-> m.xmm,
                mem |-> mem]
  BY <1>1, <1>9 DEF TypeOK
<1>12. TypeOK' /\ m'.sp = low /\ m'.fp = m.fp /\ m'.mem = mem
  BY <1>1, <1>10, <1>11, TypedStep
<1>13. \A a \in Int : a >= sp => Held(mem, a) = Held(m.mem, a)
  <2>1. \A a \in Int : a >= sp => a # low
    BY <1>6
  <2> QED BY <1>7, <1>8, <2>1
<1>14. RunningAt(d, Depth)'
  <2>1. /\ FrameEnd(c) = frame - size /\ FrameEnd(d)' = frame - size
        /\ Dropped(d)' = Dropped(c)
    BY <1>1, <1>3, <1>5, RoomStays DEF FrameEnd
  <2>2. /\ frame = c.sp - Dropped(c)
        /\ Held(m.mem, frame - size) = ReturnTo(c.n)
        /\ Held(m.mem, frame - size + 4) = FrameOf(c.fp)
    BY <1>1, <1>3, <2>1 DEF RunningAt, At, Held
  <2>3. /\ frame - size \in Int /\ frame - size + 4 \in Int
        /\ frame - size >= sp /\ frame - size + 4 >= sp
    BY <1>3
  <2>4. /\ Held(mem, frame - size) = ReturnTo(c.n)
        /\ Held(mem, frame - size + 4) = FrameOf(c.fp)
    BY <1>13, <2>2, <2>3
  <2>5. At(frame - size)' = ReturnTo(c.n) /\ At(frame - size + 4)' = FrameOf(c.fp)
    BY <1>12, <2>4 DEF At, Held
  <2>6. SpAt(Depth)' = low /\ FpAt(Depth)' = frame
    BY <1>3, <1>12 DEF SpAt, FpAt
  <2>7. low = frame - size - 4 * (l + 1)
    BY <1>3, <1>6
  <2> QED BY <1>1, <1>3, <1>5, <2>1, <2>2, <2>5, <2>6, <2>7 DEF RunningAt
<1>15. LevelOK(d, Depth)'
  BY <1>2, <1>5, <1>14 DEF LevelOK
<1>16. \A a \in Int : a >= Top.sp => Held(m'.mem, a) = Held(m.mem, a)
  <2>1. \A a \in Int : a >= top => a >= sp
    BY <1>3
  <2> QED BY <1>2, <1>3, <1>12, <1>13, <2>1
<1>17. FramesInv' /\ TopOnly
  BY <1>1, <1>2, <1>5, <1>9, <1>12, <1>15, <1>16, TopStep
<1>18. FieldInitialized
  <2>1. Top' = [Top EXCEPT !.lost = @ + 1]
    BY <1>2, <1>3, <1>4, <1>10
  <2> QED BY <1>3, <1>12, <1>13, <2>1 DEF FieldInitialized
<1> QED BY <1>17, <1>18

\* The epilogue finds the registers where the prologue saved them.
LEMMA LeaveKeeps ==
  ASSUME FramesInv, Leave
  PROVE  /\ FramesInv' /\ TopOnly
         /\ Top'.phase = "returned" /\ Top'.f = Top.f /\ Top'.kinds = Top.kinds
         /\ Top'.started = Top.started /\ Top'.taken = Top.taken
<1>1. TypeOK /\ Depth > 0 /\ Top.phase = "body" /\ target' = target /\ made' = made
  BY DEF Leave, FramesInv
<1>2. PICK c \in CallRecords : c = Top /\ c = calls[Depth] /\ c.phase = "body"
  BY <1>1, Calls
<1>3. RunningAt(c, Depth) /\ m.fp = c.frame /\ m.fp \in Int /\ m.fp <= c.sp
  BY <1>1, <1>2, RunningBelow
<1>4. PICK sp, fp, ra, up :
        /\ sp = IF target = "rv32" THEN m.fp - stack_size(target, c.f) ELSE m.fp
        /\ fp = IF target = "rv32" THEN At(sp + 4) ELSE At(sp)
        /\ ra = IF target = "rv32" THEN At(sp) ELSE At(sp + W)
        /\ up = IF target = "rv32" THEN m.fp ELSE sp + 2 * W
  OBVIOUS
<1>5. PICK top \in Int, drop \in Nat, w \in {4, 8}, x \in Int :
        top = c.sp /\ drop = Dropped(c) /\ w = W /\ x = c.fp
  BY <1>1, WIs, DroppedIs DEF CallRecords
<1>6. fp = FrameOf(c.fp) /\ ra = ReturnTo(c.n) /\ up = top - drop
  <2>1. CASE target = "rv32"
    <3>1. sp = FrameEnd(c)
      BY <1>3, <1>4, <2>1 DEF FrameEnd
    <3>2. At(sp) = ReturnTo(c.n) /\ At(sp + 4) = FrameOf(c.fp) /\ c.frame = c.sp - Dropped(c)
      BY <1>3, <2>1, <3>1 DEF RunningAt
    <3> QED BY <1>3, <1>4, <1>5, <2>1, <3>2
  <2>2. CASE target # "rv32"
    <3>1. sp = c.frame
      BY <1>3, <1>4, <2>2
    <3>2. /\ At(sp) = FrameOf(c.fp) /\ At(sp + W) = ReturnTo(c.n)
          /\ c.frame = c.sp - Dropped(c) - 2 * W
      BY <1>3, <2>2, <3>1 DEF RunningAt
    <3>3. sp = top - drop - 2 * w /\ up = sp + 2 * w
      BY <1>4, <1>5, <2>2, <3>1, <3>2
    <3>4. up = top - drop
      BY <3>3
    <3> QED BY <1>4, <2>2, <3>2, <3>4
  <2> QED BY <2>1, <2>2
<1>7. ra \in Token /\ fp[2] = x /\ up \in Int
  <2>1. c.n \in Int
    BY DEF CallRecords
  <2>2. ra \in Token
    BY <1>6, <2>1, Tokens
  <2>3. fp[2] = x
    BY <1>5, <1>6 DEF FrameOf
  <2>4. up \in Int
    BY <1>6
  <2> QED BY <2>2, <2>3, <2>4
<1>8. PICK b, d : b = [c EXCEPT !.phase = "returned"] /\ d = [b EXCEPT !.back = ra]
  OBVIOUS
<1>9. /\ d \in CallRecords /\ d.f = c.f /\ d.kinds = c.kinds /\ d.n = c.n
      /\ d.phase = "returned" /\ d.sp = c.sp /\ d.fp = c.fp /\ d.back = ra
      /\ d.started = c.started /\ d.taken = c.taken /\ d.operands = c.operands
  <2>1. "returned" \in Phases
    BY DEF Phases
  <2>2. /\ b \in CallRecords /\ b.f = c.f /\ b.kinds = c.kinds /\ b.n = c.n
        /\ b.phase = "returned" /\ b.sp = c.sp /\ b.fp = c.fp
        /\ b.started = c.started /\ b.taken = c.taken /\ b.operands = c.operands
    BY <1>8, <2>1, Rephased
  <2>3. PICK r \in Token : r = ra
    BY <1>7
  <2>4. d = [b EXCEPT !.back = r]
    BY <1>8, <2>3
  <2>5. /\ d \in CallRecords /\ d.f = b.f /\ d.kinds = b.kinds /\ d.n = b.n
        /\ d.phase = b.phase /\ d.sp = b.sp /\ d.fp = b.fp /\ d.back = r
        /\ d.started = b.started /\ d.taken = b.taken /\ d.operands = b.operands
    BY <2>2, <2>4, Returned
  <2> QED BY <2>2, <2>3, <2>5
<1>10. PICK old \in Memories, mem \in Memories :
         /\ old = m.mem /\ mem = Kept(old, up)
         /\ \A a \in Int : a >= up => Held(mem, a) = Held(old, a)
  <2>1. m.mem \in Memories
    BY <1>1 DEF TypeOK
  <2> QED BY <1>7, <2>1, KeptIs
<1>11. /\ m' = [m EXCEPT !.sp = up, !.fp = x, !.ra = ra, !.mem = mem]
       /\ calls' = [calls EXCEPT ![Depth] = d]
  <2>1. Leave
    OBVIOUS
  <2> DEFINE sp0 == IF target = "rv32" THEN m.fp - stack_size(target, Top.f) ELSE m.fp
             fp0 == IF target = "rv32" THEN At(sp0 + 4) ELSE At(sp0)
             ra0 == IF target = "rv32" THEN At(sp0) ELSE At(sp0 + W)
             up0 == IF target = "rv32" THEN m.fp ELSE sp0 + 2 * W
  <2>2. /\ m' = [m EXCEPT !.sp = up0, !.fp = fp0[2], !.ra = ra0, !.mem = Kept(@, up0)]
        /\ calls' = [calls EXCEPT ![Depth].phase = "returned", ![Depth].back = ra0]
    BY <2>1, Zenon DEF Leave
  <2>3. sp0 = sp
    BY <1>2, <1>4
  <2>4. fp0 = fp /\ ra0 = ra /\ up0 = up
    BY <1>4, <2>3
  <2> HIDE DEF sp0, fp0, ra0, up0
  <2>5. m' = [m EXCEPT !.sp = up, !.fp = x, !.ra = ra, !.mem = mem]
    BY <1>7, <1>10, <2>2, <2>4
  <2>6. Depth \in DOMAIN calls
    BY <1>1, Calls
  <2>7. [calls EXCEPT ![Depth].phase = "returned", ![Depth].back = ra]
          = [calls EXCEPT ![Depth] = [[calls[Depth] EXCEPT !.phase = "returned"] EXCEPT !.back = ra]]
    BY <2>6
  <2> QED BY <1>2, <1>8, <2>2, <2>4, <2>5, <2>7
<1>12. calls' \in Seq(CallRecords) /\ Depth' = Depth /\ Top' = d
  BY <1>1, <1>9, <1>11, TopReplaced
<1>13. /\ m.reg \in [0..7 -> Token]
       /\ m' = [sp |-> up, fp |-> x, ra |-> ra, reg |-> m.reg, xmm |-> m.xmm, mem |-> mem]
  BY <1>1, <1>11 DEF TypeOK
<1>14. TypeOK' /\ m'.sp = up /\ m'.fp = x /\ m'.mem = mem
  BY <1>1, <1>7, <1>12, <1>13, TypedStep
<1>15. LevelOK(d, Depth)'
  <2>1. Dropped(d)' = drop
    BY <1>1, <1>5, <1>9, RoomStays
  <2>2. ReturnedAt(d, Depth)'
    BY <1>5, <1>6, <1>9, <1>14, <2>1 DEF ReturnedAt
  <2> QED BY <1>9, <2>2 DEF LevelOK
<1>16. \A a \in Int : a >= Top.sp => Held(m'.mem, a) = Held(m.mem, a)
  <2>1. up <= top
    BY <1>6
  <2>2. \A a \in Int : a >= top => a >= up
    BY <1>7, <2>1
  <2> QED BY <1>2, <1>5, <1>10, <1>14, <2>2
<1>17. FramesInv' /\ TopOnly
  BY <1>1, <1>2, <1>9, <1>11, <1>14, <1>15, <1>16, TopStep
<1> QED BY <1>2, <1>9, <1>12, <1>17

\* The call a caller begins.
NewCall(c, o) ==
  [f |-> c.f, kinds |-> c.kinds, n |-> made + 1, phase |-> "arguments", pushed |-> 0,
   sp |-> m.sp, fp |-> m.fp, operands |-> o, frame |-> 0, lost |-> 0,
   started |-> FALSE, taken |-> << >>, back |-> Junk]

\* A call that begins has pushed nothing.
LEMMA NewCallIs ==
  ASSUME TypeOK, NEW c \in Outer \cup Inner, NEW o \in Nat, Compiled(c),
         NEW d, d = NewCall(c, o)
  PROVE  /\ d \in CallRecords /\ d.f = c.f /\ d.kinds = c.kinds /\ d.phase = "arguments"
         /\ d.operands = o /\ d.lost = 0
         /\ d.pushed = 0 /\ d.sp = m.sp /\ d.fp = m.fp
         /\ c.kinds \in Seq(Kinds) /\ NoLongDouble(target, d.f) /\ PushedWords(d) = 0
<1>1. /\ c \in [f : Functions, kinds : Seq(Kinds)] /\ Len(c.f.params) <= Len(c.kinds)
      /\ \A i \in 1..Len(c.f.params) : c.f.params[i] = c.kinds[i]
  BY CallsAssumption DEF CallsAssumption
<1>2. c.f \in Functions /\ c.kinds \in Seq(Kinds) /\ m.sp \in Int /\ m.fp \in Int /\ made \in Nat
  BY <1>1 DEF TypeOK
<1>3. PICK f \in Functions, kinds \in Seq(Kinds), sp \in Int, fp \in Int, n \in Nat :
        f = c.f /\ kinds = c.kinds /\ sp = m.sp /\ fp = m.fp /\ n = made + 1
  BY <1>2
<1>4. d = [f |-> f, kinds |-> kinds, n |-> n, phase |-> "arguments", pushed |-> 0,
           sp |-> sp, fp |-> fp, operands |-> o, frame |-> 0, lost |-> 0,
           started |-> FALSE, taken |-> << >>, back |-> Junk]
  BY <1>3 DEF NewCall
<1>5. /\ d.f = f /\ d.kinds = kinds /\ d.n = n /\ d.phase = "arguments"
      /\ d.pushed = 0 /\ d.sp = sp /\ d.fp = fp /\ d.frame = 0 /\ d.started = FALSE
      /\ d.taken = << >> /\ d.back = Junk /\ d.operands = o /\ d.lost = 0
      /\ d = [f |-> d.f, kinds |-> d.kinds, n |-> d.n, phase |-> d.phase, pushed |-> d.pushed,
              sp |-> d.sp, fp |-> d.fp, frame |-> d.frame, started |-> d.started,
              taken |-> d.taken, operands |-> d.operands, lost |-> d.lost, back |-> d.back]
  BY <1>4
<1>6. "arguments" \in Phases /\ << >> \in Seq(Seq(Token)) /\ Junk \in Token /\ 0 \in Nat
      /\ 0 \in Int /\ FALSE \in BOOLEAN
  BY Tokens DEF Phases
<1>7. d \in CallRecords
  BY <1>5, <1>6, RecordIs
<1>8. NoLongDouble(target, d.f)
  <2>1. ASSUME target = "x86_64", NEW i \in 1..Len(c.f.params) PROVE c.f.params[i] # "ldouble"
    <3>1. Len(c.f.params) \in Nat /\ Len(c.kinds) \in Nat
      BY <1>2 DEF Functions
    <3>2. i \in 1..Len(c.kinds)
      BY <1>1, <3>1
    <3>3. c.kinds[i] # "ldouble"
      BY <2>1, <3>2 DEF Compiled
    <3> QED BY <1>1, <3>3
  <2> QED BY <1>3, <1>5, <2>1 DEF NoLongDouble
<1>9. PushedWords(d) = 0
  <2>1. target \in Targets
    BY WIs
  <2>2. /\ LastWord(target, kinds)[0] = 0 /\ total_words(target, kinds) \in Nat
        /\ LastWord(target, kinds)[Len(kinds)] = total_words(target, kinds)
    BY <2>1, LastStep DEF total_words
  <2>3. Len(kinds) - 0 = Len(kinds)
    OBVIOUS
  <2> QED BY <1>5, <2>2, <2>3 DEF PushedWords
<1> QED BY <1>2, <1>3, <1>5, <1>7, <1>8, <1>9

\* The stack on which a call is begun.
LEMMA CallerStack ==
  ASSUME FramesInv, Depth = 0 \/ Top.phase \in {"arguments", "body"}
  PROVE  /\ \A k \in 1..Depth : m.sp <= calls[k].sp
         /\ Unshifted(Depth) => m.sp % 16 = 0
<1>1. PICK d \in Nat : d = Depth /\ TypeOK
  BY Calls DEF FramesInv
<1>2. CASE d = 0
  <2>1. Main \in Functions /\ target \in Targets
    <3>1. << >> \in Seq(Kinds) /\ FALSE \in BOOLEAN /\ 0 \in Nat
      OBVIOUS
    <3> QED BY <1>1, <3>1, WIs DEF Main, Functions
  <2>2. PICK size \in Nat : size = stack_size(target, Main) /\ size % 16 = 0
    BY <2>1, FrameSize
  <2>3. m.sp = -size
    BY <1>1, <1>2, <2>2 DEF FramesInv, Base, SpAt
  <2>4. (-size) % 16 = 0
    BY <2>2
  <2> QED BY <1>1, <1>2, <2>3, <2>4
<1>3. CASE d > 0
  <2>1. PICK c \in CallRecords : c = Top /\ c = calls[d] /\ d \in 1..d
                                 /\ c.phase \in {"arguments", "body"}
    BY <1>1, <1>3, Calls
  <2>2. PICK top \in Int, sp \in Int, drop \in Nat, w \in {4, 8} :
          /\ top = c.sp /\ sp = m.sp /\ drop = Dropped(c) /\ w = W
          /\ (target # "i386" => drop % 16 = 0) /\ (target = "x86_64" <=> w = 8)
    BY <1>1, DroppedIs, WIs DEF TypeOK, CallRecords
  <2>3. Unshifted(d) => top % 16 = 0
    <3>1. AlignedAt(d)
      BY <1>1, <2>1 DEF FramesInv, Aligned
    <3>2. \A j \in 1..d - 1 : j \in 1..d
      OBVIOUS
    <3> QED BY <2>1, <2>2, <3>1, <3>2 DEF AlignedAt, Unshifted
  <2>3a. Unshifted(d) =>
           /\ target = "rv32" \/ (target = "x86_64" /\ c.phase # "arguments")
           /\ c.lost = 0
    BY <2>1 DEF Unshifted
  <2>4. /\ sp <= top
        /\ Unshifted(d) => sp % 16 = 0
    <3>1. CASE c.phase = "arguments"
      <4>1. PICK pushed \in Nat : /\ pushed = PushedWords(c) /\ sp <= top
                                  /\ sp = top - Room(target, c) - Slot * pushed
        BY <1>1, <1>3, <2>1, <2>2, <3>1, PushingBelow
      <4>2. CASE target = "rv32" /\ top % 16 = 0
        <5>1. PICK o \in Nat : Room(target, c) = 16 * o /\ Slot = 16
          <6>1. c.operands \in Nat /\ target \in Targets
            BY <1>1, WIs DEF CallRecords
          <6> QED BY <4>2, <6>1, RoomIs DEF Slot
        <5>2. sp = top - 16 * o - 16 * pushed
          BY <4>1, <5>1
        <5>3. sp % 16 = 0
          BY <4>2, <5>2
        <5> QED BY <4>1, <5>3
      <4>3. CASE ~Unshifted(d)
        BY <4>1, <4>3
      <4>4. Unshifted(d) => target = "rv32" /\ top % 16 = 0
        BY <2>3, <2>3a, <3>1
      <4> QED BY <4>2, <4>3, <4>4
    <3>2. CASE c.phase = "body"
      <4>1. PICK frame \in Int, size \in Nat, l \in Nat :
              /\ frame = c.frame /\ size = stack_size(target, c.f) /\ size % 16 = 0 /\ l = c.lost
              /\ sp = frame - size - 4 * l /\ frame <= top /\ RunningAt(c, Depth)
        <5>1. c.f \in Functions /\ target \in Targets
          BY <1>1, WIs DEF CallRecords
        <5>2. /\ RunningAt(c, Depth) /\ m.sp = c.frame - stack_size(target, c.f) - 4 * c.lost
              /\ m.fp = c.frame /\ m.fp \in Int /\ m.fp <= c.sp
          BY <1>1, <1>3, <2>1, <3>2, RunningBelow
        <5>3. c.lost \in Nat
          BY DEF CallRecords
        <5>4. stack_size(target, c.f) \in Nat /\ stack_size(target, c.f) % 16 = 0
          BY <5>1, FrameSize
        <5> QED BY <2>2, <5>2, <5>3, <5>4
      <4>2. frame = IF target = "rv32" THEN top - drop ELSE top - drop - 2 * w
        BY <2>2, <4>1 DEF RunningAt
      <4>3. CASE target = "rv32" /\ top % 16 = 0 /\ l = 0
        <5>1. sp = top - drop - size /\ drop % 16 = 0
          BY <2>2, <4>1, <4>2, <4>3
        <5>2. sp % 16 = 0
          BY <4>1, <4>3, <5>1
        <5> QED BY <4>1, <5>2
      <4>4. CASE target = "x86_64" /\ top % 16 = 0 /\ l = 0
        <5>1. sp = top - drop - 16 - size /\ drop % 16 = 0
          BY <2>2, <4>1, <4>2, <4>4
        <5>2. sp % 16 = 0
          BY <4>1, <4>4, <5>1
        <5> QED BY <4>1, <5>2
      <4>5. sp <= top
        BY <4>1
      <4> QED BY <2>3, <2>3a, <4>1, <4>3, <4>4, <4>5
    <3> QED BY <2>1, <3>1, <3>2
  <2>5. ASSUME NEW k \in 1..d PROVE sp <= calls[k].sp
    <3>1. calls[d].sp <= calls[k].sp
      BY <1>1, <2>1, <2>5 DEF FramesInv, Descending
    <3>2. calls[k].sp \in Int
      <4>1. calls[k] \in CallRecords
        BY <1>1, <2>5, Calls
      <4> QED BY <4>1 DEF CallRecords
    <3> QED BY <2>1, <2>2, <2>4, <3>1, <3>2
  <2> QED BY <1>1, <2>2, <2>4, <2>5
<1> QED BY <1>2, <1>3

\* A call is added to those in progress.
CallBegun(c, o) ==
  /\ Depth' = Depth + 1 /\ calls'[Depth'] = NewCall(c, o) /\ m'.mem = m.mem
  /\ \A k \in 1..Depth : calls'[k] = calls[k]

\* A call that begins leaves those below as they are.
LEMMA BeginCallKeeps ==
  ASSUME FramesInv, NEW c \in Outer \cup Inner, NEW o \in Nat, BeginCall(c, o),
         Depth = 0 \/ Top.phase \in {"arguments", "body"}
  PROVE  FramesInv' /\ CallBegun(c, o)
<1>1. TypeOK /\ Compiled(c) /\ target' = target /\ made' = made + 1 /\ made' \in Nat
  <2>1. TypeOK /\ made \in Nat
    BY DEF FramesInv, TypeOK
  <2>2. Compiled(c) /\ target' = target /\ made' = made + 1
    BY DEF BeginCall
  <2> QED BY <2>1, <2>2
<1>2. PICK d \in Nat : d = Depth
  BY <1>1, Calls
<1>3. PICK new : new = NewCall(c, o)
  OBVIOUS
<1>4. /\ new.operands = o /\ new.lost = 0
      /\ new \in CallRecords /\ new.f = c.f /\ new.kinds = c.kinds /\ new.phase = "arguments"
      /\ new.pushed = 0 /\ new.sp = m.sp /\ new.fp = m.fp
      /\ c.kinds \in Seq(Kinds) /\ NoLongDouble(target, new.f) /\ PushedWords(new) = 0
  BY <1>1, <1>3, NewCallIs
<1>5. calls' = Append(calls, new)
  BY <1>3 DEF BeginCall, NewCall
<1>6. /\ calls' \in Seq(CallRecords) /\ Depth' = d + 1 /\ calls'[d + 1] = new
      /\ \A k \in 1..d : calls'[k] = calls[k] /\ calls[k] \in CallRecords
  <2>1. calls \in Seq(CallRecords) /\ Len(calls) = d
    BY <1>1, <1>2 DEF TypeOK, Depth
  <2> DEFINE S == CallRecords
  <2>2. PICK q \in Seq(S) : q = calls /\ Len(q) = d
    BY <2>1
  <2>3. new \in S
    BY <1>4
  <2> HIDE DEF S
  <2>4. /\ Append(q, new) \in Seq(S) /\ Len(Append(q, new)) = d + 1 /\ Append(q, new)[d + 1] = new
        /\ \A k \in 1..d : Append(q, new)[k] = q[k] /\ q[k] \in S
    BY <2>2, <2>3
  <2> QED BY <1>5, <2>2, <2>4 DEF Depth, S
<1>7. PICK room \in Nat : room = Room(target, new)
  <2>1. target \in Targets
    BY <1>1, WIs
  <2> QED BY <1>4, <2>1, RoomIs
<1>7a. m' = [m EXCEPT !.sp = @ - room]
  <2>1. PICK x \in Nat, pad \in {0, 8} :
          x = Operand * o /\ pad = stack_pad(target, c.kinds) /\ room = x + pad
    <3>1. target \in Targets /\ Operand \in {4, 16}
      BY <1>1, WIs DEF Operand
    <3>2. stack_pad(target, c.kinds) \in {0, 8} /\ Operand * o \in Nat
      BY <1>4, <3>1, CallSize
    <3>3. Room(target, new) = Operand * o + stack_pad(target, c.kinds)
      BY <1>4 DEF Room, Operand
    <3> QED BY <1>7, <3>2, <3>3
  <2>2. m' = [m EXCEPT !.sp = m.sp - Operand * o - stack_pad(target, c.kinds)]
    BY DEF BeginCall
  <2>3. m.sp \in Int
    BY <1>1 DEF TypeOK
  <2>4. m.sp - x - pad = m.sp - room
    BY <2>1, <2>3
  <2> QED BY <2>1, <2>2, <2>4
<1>8. PICK sp \in Int, fp \in Int : sp = m.sp /\ fp = m.fp
  BY <1>1 DEF TypeOK
<1>9. TypeOK' /\ m'.sp = sp - room /\ m'.fp = fp /\ m'.mem = m.mem
  <2>1. m' = [m EXCEPT !.sp = @ - room]
    BY <1>7a
  <2>2. PICK x \in Int : x = sp - room
    OBVIOUS
  <2>2a. PICK ra \in Token : ra = m.ra
    BY <1>1 DEF TypeOK
  <2>2b. PICK reg \in [0..7 -> Token] : reg = m.reg
    BY <1>1 DEF TypeOK
  <2>2c. PICK mem \in Memories : mem = m.mem
    BY <1>1 DEF TypeOK
  <2>2d. PICK xmm : xmm = m.xmm
    OBVIOUS
  <2>3. m' = [sp |-> x, fp |-> fp, ra |-> ra, reg |-> reg, xmm |-> xmm, mem |-> mem]
    BY <1>1, <1>8, <2>1, <2>2, <2>2a, <2>2b, <2>2c, <2>2d DEF TypeOK
  <2>4. /\ m'.sp = x /\ m'.fp = fp /\ m'.ra = ra /\ m'.reg = reg /\ m'.mem = mem
        /\ m' = [sp |-> m'.sp, fp |-> m'.fp, ra |-> m'.ra, reg |-> m'.reg, xmm |-> m'.xmm,
                 mem |-> m'.mem]
    BY <2>3
  <2>5. m'.sp \in Int /\ m'.fp \in Int /\ m'.ra \in Token /\ m'.reg \in [0..7 -> Token]
        /\ m'.mem \in Memories
    BY <2>4
  <2>6. target' \in Targets
    BY <1>1, WIs
  <2> QED BY <1>1, <1>6, <2>2, <2>2c, <2>4, <2>5, <2>6 DEF TypeOK
<1>10. /\ \A k \in 0..d : SpAt(k)' = SpAt(k) /\ FpAt(k)' = FpAt(k)
       /\ SpAt(d + 1)' = sp - room /\ FpAt(d + 1)' = fp
  <2>1. ASSUME NEW k \in 0..d PROVE SpAt(k)' = SpAt(k) /\ FpAt(k)' = FpAt(k)
    <3>1. k # Depth'
      BY <1>6
    <3>2. SpAt(k)' = calls'[k + 1].sp /\ FpAt(k)' = calls'[k + 1].fp
      BY <3>1 DEF SpAt, FpAt
    <3>3. CASE k = d
      BY <1>2, <1>4, <1>6, <3>2, <3>3 DEF SpAt, FpAt
    <3>4. CASE k # d
      <4>1. k + 1 \in 1..d
        BY <3>4
      <4> QED BY <1>2, <1>6, <3>2, <3>4, <4>1 DEF SpAt, FpAt
    <3> QED BY <3>3, <3>4
  <2>2. SpAt(d + 1)' = sp - room /\ FpAt(d + 1)' = fp
    BY <1>6, <1>9 DEF SpAt, FpAt
  <2> QED BY <2>1, <2>2
<1>11. Base'
  <2>1. 0 \in 0..d
    OBVIOUS
  <2>2. SpAt(0)' = SpAt(0) /\ FpAt(0)' = FpAt(0)
    BY <1>10, <2>1
  <2> QED BY <1>1, <2>2 DEF FramesInv, Base
<1>12. Descending'
  <2>1. ASSUME NEW j \in 1..d + 1, NEW k \in 1..d + 1, j <= k
        PROVE  calls'[k].sp <= calls'[j].sp
    <3>1. CASE k = d + 1 /\ j = d + 1
      BY <1>4, <1>6, <1>8, <3>1
    <3>2. CASE k = d + 1 /\ j # d + 1
      <4>1. j \in 1..d
        BY <3>2
      <4>2. m.sp <= calls[j].sp
        BY <1>2, <4>1, CallerStack
      <4> QED BY <1>4, <1>6, <3>2, <4>1, <4>2
    <3>3. CASE k # d + 1
      <4>1. j \in 1..d /\ k \in 1..d
        BY <2>1, <3>3
      <4> QED BY <1>2, <1>6, <2>1, <4>1 DEF FramesInv, Descending
    <3> QED BY <3>1, <3>2, <3>3
  <2> QED BY <1>6, <2>1 DEF Descending
<1>13. NoLongDoubles'
  <2>1. ASSUME NEW k \in 1..d + 1 PROVE NoLongDouble(target, calls'[k].f)
    <3>1. CASE k = d + 1
      BY <1>4, <1>6, <3>1
    <3>2. CASE k # d + 1
      <4>1. k \in 1..d
        BY <3>2
      <4> QED BY <1>2, <1>6, <4>1 DEF FramesInv, NoLongDoubles
    <3> QED BY <3>1, <3>2
  <2> QED BY <1>1, <1>6, <2>1 DEF NoLongDoubles
<1>14. Levels'
  <2>1. ASSUME NEW k \in 1..d PROVE LevelOK(calls[k], k)'
    <3>1. PICK e \in CallRecords : e = calls[k]
      BY <1>6
    <3>2. LevelOK(e, k)
      BY <1>2, <3>1 DEF FramesInv, Levels
    <3>3. e.phase \in {"arguments", "body"}
      <4>1. CASE k = d
        BY <1>2, <2>1, <3>1, <4>1 DEF Top
      <4>2. CASE k # d
        BY <1>2, <3>1, <4>2, LowerPhases
      <4> QED BY <4>1, <4>2
    <3>4. PICK s \in Int : s = SpAt(k)
      <4>1. CASE k = d
        BY <1>2, <1>8, <4>1 DEF SpAt
      <4>2. CASE k # d
        <5>1. k + 1 \in 1..d
          BY <4>2
        <5>2. calls[k + 1].sp \in Int
          BY <1>6, <5>1 DEF CallRecords
        <5> QED BY <1>2, <4>2, <5>2 DEF SpAt
      <4> QED BY <4>1, <4>2
    <3>5. SpAt(k) = s /\ SpAt(k)' = s /\ FpAt(k)' = FpAt(k)
      <4>1. k \in 0..d
        OBVIOUS
      <4> QED BY <1>10, <3>4, <4>1
    <3>6. \A a \in Int : Held(m'.mem, a) = Held(m.mem, a)
      BY <1>9
    <3>7. LevelOK(e, k)'
      BY <1>1, <3>2, <3>3, <3>5, <3>6, LevelKept
    <3> QED BY <1>6, <3>1, <3>7
  <2>2. LevelOK(new, d + 1)'
    <3>1. PushedWords(new)' = 0
      BY <1>1, <1>4 DEF PushedWords
    <3>2. Slot' \in Int /\ Slot' * 0 = 0
      <4>1. Slot' = Slot /\ Slot \in Int
        BY <1>1, WIs DEF Slot, W
      <4> QED BY <4>1
    <3>3. Room(target, new)' = room
      BY <1>1, <1>7, RoomStays
    <3>4. new.pushed <= Len(new.kinds)
      BY <1>4
    <3>5. PushingAt(new, d + 1)'
      BY <1>4, <1>8, <1>10, <3>1, <3>2, <3>3, <3>4 DEF PushingAt
    <3> QED BY <1>4, <3>5 DEF LevelOK
  <2>3. ASSUME NEW k \in 1..d + 1 PROVE LevelOK(calls[k], k)'
    <3>1. CASE k = d + 1
      BY <1>6, <2>2, <3>1
    <3>2. CASE k # d + 1
      <4>1. k \in 1..d
        BY <3>2
      <4> QED BY <2>1, <4>1
    <3> QED BY <3>1, <3>2
  <2> QED BY <1>6, <2>3 DEF Levels
<1>15. Aligned'
  <2>1. ASSUME NEW k \in 1..d + 1 PROVE AlignedAt(k)'
    <3>1. \A j \in 1..k - 1 : j \in 1..d /\ calls'[j] = calls[j]
      BY <1>6
    <3>2. CASE k = d + 1
      <4>1. \A j \in 1..d : j \in 1..k - 1
        BY <3>2
      <4>2. Unshifted(d) => m.sp % 16 = 0
        BY <1>2, CallerStack
      <4>3. calls'[k].sp = m.sp
        BY <1>4, <1>6, <3>2
      <4> QED BY <1>1, <3>1, <4>1, <4>2, <4>3 DEF AlignedAt, Unshifted
    <3>3. CASE k # d + 1
      <4>1. k \in 1..d
        BY <3>3
      <4>2. AlignedAt(k) /\ calls'[k] = calls[k]
        BY <1>2, <1>6, <4>1 DEF FramesInv, Aligned
      <4> QED BY <1>1, <3>1, <4>2 DEF AlignedAt, Unshifted
    <3> QED BY <3>2, <3>3
  <2> QED BY <1>6, <2>1 DEF Aligned
<1>16. CallBegun(c, o)
  BY <1>2, <1>3, <1>6, <1>9 DEF CallBegun
<1> QED BY <1>9, <1>11, <1>12, <1>13, <1>14, <1>15, <1>16 DEF FramesInv

\* That holds for each of the three places from where a call is made.
LEMMA CallKeeps ==
  ASSUME FramesInv, Call
  PROVE  FramesInv'
<1>1. PICK c \in Outer \cup Inner, o \in 0..MaxOperands :
        BeginCall(c, o) /\ (Depth = 0 \/ Top.phase \in {"arguments", "body"})
  BY DEF Call
<1>2. o \in Nat
  BY CallsAssumption DEF CallsAssumption
<1> QED BY <1>1, <1>2, BeginCallKeeps

\* The call on top is taken from those in progress.
CallEnded ==
  /\ Depth' = Depth - 1 /\ \A k \in 1..Depth - 1 : calls'[k] = calls[k]
  /\ \A a \in Int : a >= Top.sp => Held(m'.mem, a) = Held(m.mem, a)

\* The caller drops what the call left on the stack, and has its own again.
LEMMA CleanUpKeeps ==
  ASSUME FramesInv, CleanUp
  PROVE  FramesInv' /\ CallEnded
<1>1. TypeOK /\ Depth > 0 /\ Top.phase = "returned" /\ target' = target /\ made' = made
  BY DEF CleanUp, FramesInv
<1>2. PICK d \in Nat : d = Depth /\ d > 0
  BY <1>1, Calls
<1>3. PICK c \in CallRecords : c = Top /\ c = calls[d] /\ LevelOK(c, d)
  BY <1>1, <1>2, Calls DEF FramesInv, Levels
<1>4. PICK top \in Int, drop \in Nat, fp \in Int :
        /\ top = c.sp /\ drop = Dropped(c) /\ fp = c.fp /\ m.sp = top - drop /\ m.fp = fp
  <2>1. ReturnedAt(c, d)
    BY <1>1, <1>3 DEF LevelOK
  <2>2. c.sp \in Int /\ c.fp \in Int /\ Dropped(c) \in Nat
    BY <1>1, DroppedIs DEF CallRecords
  <2> QED BY <2>1, <2>2 DEF ReturnedAt
<1>5. m.sp + Dropped(c) = top
  BY <1>4
<1>6. PICK old \in Memories, mem \in Memories :
        /\ old = m.mem /\ mem = Kept(old, top)
        /\ \A a \in Int : a >= top => Held(mem, a) = Held(old, a)
  <2>1. m.mem \in Memories
    BY <1>1 DEF TypeOK
  <2> QED BY <2>1, KeptIs
<1>7. calls' = SubSeq(calls, 1, d - 1)
  BY <1>2 DEF CleanUp
<1>8. /\ calls' \in Seq(CallRecords) /\ Depth' = d - 1
      /\ \A k \in 1..d - 1 : calls'[k] = calls[k]
      /\ \A k \in 1..d : calls[k] \in CallRecords
  <2>1. calls \in Seq(CallRecords) /\ Len(calls) = d
    BY <1>1, <1>2 DEF TypeOK, Depth
  <2> DEFINE S == CallRecords
  <2>2. PICK q \in Seq(S) : q = calls /\ Len(q) = d
    BY <2>1
  <2> HIDE DEF S
  <2>3. /\ SubSeq(q, 1, d - 1) \in Seq(S) /\ Len(SubSeq(q, 1, d - 1)) = d - 1
        /\ \A k \in 1..d - 1 : SubSeq(q, 1, d - 1)[k] = q[k]
        /\ \A k \in 1..d : q[k] \in S
    BY <1>2, <2>2
  <2> QED BY <1>7, <2>2, <2>3 DEF Depth, S
<1>9. TypeOK' /\ m'.sp = top /\ m'.fp = fp /\ m'.mem = mem
  <2>1. m' = [m EXCEPT !.sp = top, !.mem = mem]
    <3>1. m' = [m EXCEPT !.sp = @ + Dropped(Top), !.mem = Kept(@, m.sp + Dropped(Top))]
      BY DEF CleanUp
    <3> QED BY <1>3, <1>5, <1>6, <3>1
  <2>2. PICK ra \in Token, reg \in [0..7 -> Token] : ra = m.ra /\ reg = m.reg
    BY <1>1 DEF TypeOK
  <2>2a. PICK xmm : xmm = m.xmm
    OBVIOUS
  <2>3. m' = [sp |-> top, fp |-> fp, ra |-> ra, reg |-> reg, xmm |-> xmm, mem |-> mem]
    BY <1>1, <1>4, <2>1, <2>2, <2>2a DEF TypeOK
  <2> QED BY <1>1, <1>8, <2>3, TypedStep
<1>10. ASSUME NEW k \in 0..d - 1
       PROVE  SpAt(k)' = SpAt(k) /\ FpAt(k)' = FpAt(k)
  <2>1. k + 1 \in 1..d /\ k # Depth
    BY <1>2
  <2>2. SpAt(k) = calls[k + 1].sp /\ FpAt(k) = calls[k + 1].fp
    BY <2>1 DEF SpAt, FpAt
  <2>3. CASE k = d - 1
    <3>1. SpAt(k) = top /\ FpAt(k) = fp
      BY <1>3, <1>4, <2>2, <2>3
    <3>2. SpAt(k)' = top /\ FpAt(k)' = fp
      BY <1>8, <1>9, <2>3 DEF SpAt, FpAt
    <3> QED BY <3>1, <3>2
  <2>4. CASE k # d - 1
    <3>1. k # Depth' /\ k + 1 \in 1..d - 1
      BY <1>8, <2>4
    <3>2. SpAt(k)' = calls'[k + 1].sp /\ FpAt(k)' = calls'[k + 1].fp
      BY <3>1 DEF SpAt, FpAt
    <3> QED BY <1>8, <2>2, <3>1, <3>2
  <2> QED BY <2>3, <2>4
<1>11. \A k \in 1..d - 1 : k \in 1..d /\ k \in 1..Depth
  BY <1>2
<1>12. Base'
  <2>1. 0 \in 0..d - 1
    BY <1>2
  <2>2. SpAt(0)' = SpAt(0) /\ FpAt(0)' = FpAt(0)
    BY <1>10, <2>1
  <2> QED BY <1>1, <2>2 DEF FramesInv, Base
<1>13. Descending'
  BY <1>8, <1>11 DEF FramesInv, Descending
<1>14. NoLongDoubles'
  BY <1>1, <1>8, <1>11 DEF FramesInv, NoLongDoubles
<1>15. Levels'
  <2>1. ASSUME NEW k \in 1..d - 1 PROVE LevelOK(calls[k], k)'
    <3>1. k \in 1..d /\ k \in 1..Depth /\ k # Depth /\ k + 1 \in 1..d /\ k \in 0..d - 1
      BY <1>2
    <3>2. PICK e \in CallRecords : e = calls[k]
      BY <1>8, <3>1
    <3>3. LevelOK(e, k) /\ e.phase \in {"arguments", "body"}
      BY <3>1, <3>2, LowerPhases DEF FramesInv, Levels
    <3>4. PICK s \in Int : s = calls[k + 1].sp
      BY <1>8, <3>1 DEF CallRecords
    <3>5. SpAt(k) = s /\ SpAt(k)' = s /\ FpAt(k)' = FpAt(k)
      BY <1>10, <3>1, <3>4 DEF SpAt
    <3>6. top <= s
      <4>1. k + 1 <= d /\ k + 1 \in 1..Depth /\ d \in 1..Depth
        BY <1>2, <3>1
      <4> QED BY <1>3, <1>4, <3>4, <4>1 DEF FramesInv, Descending
    <3>7. \A a \in Int : a >= s => Held(m'.mem, a) = Held(m.mem, a)
      BY <1>6, <1>9, <3>6
    <3>8. LevelOK(e, k)'
      BY <1>1, <3>3, <3>5, <3>7, LevelKept
    <3> QED BY <1>8, <3>2, <3>8
  <2> QED BY <1>8, <2>1 DEF Levels
<1>16. Aligned'
  <2>1. ASSUME NEW k \in 1..d - 1 PROVE AlignedAt(k)'
    <3>1. AlignedAt(k) /\ calls'[k] = calls[k]
      BY <1>8, <1>11 DEF FramesInv, Aligned
    <3>2. \A j \in 1..k - 1 : calls'[j] = calls[j]
      BY <1>8
    <3> QED BY <1>1, <3>1, <3>2 DEF AlignedAt, Unshifted
  <2> QED BY <1>8, <2>1 DEF Aligned
<1>17. CallEnded
  BY <1>2, <1>3, <1>4, <1>6, <1>8, <1>9 DEF CallEnded
<1> QED BY <1>9, <1>12, <1>13, <1>14, <1>15, <1>16, <1>17 DEF FramesInv

-----------------------------------------------------------------------------
\* The invariant holds before the first call.
LEMMA FramesBegin == Init => FramesInv
<1> SUFFICES ASSUME Init PROVE FramesInv
  OBVIOUS
<1>1. target \in Targets /\ calls = << >> /\ made = 0 /\ Depth = 0
  BY DEF Init, Targets, Depth
<1>2. Main \in Functions
  <2>1. << >> \in Seq(Kinds) /\ FALSE \in BOOLEAN /\ 0 \in Nat
    OBVIOUS
  <2> QED BY <2>1 DEF Main, Functions
<1>3. PICK sp \in Int : sp = -stack_size(target, Main)
  <2>1. PICK size \in Nat : size = stack_size(target, Main)
    BY <1>1, <1>2, FrameSize
  <2>2. PICK sp \in Int : sp = -size
    OBVIOUS
  <2> QED BY <2>1, <2>2
<1>3a. PICK reg, none, mem :
         reg = [r \in 0..7 |-> Junk] /\ none = << >> /\ mem = << >>
  OBVIOUS
<1>4. m = [sp |-> sp, fp |-> 0, ra |-> Junk, reg |-> reg, xmm |-> none, mem |-> mem]
  BY <1>3, <1>3a DEF Init
<1>5. /\ m.sp = sp /\ m.fp = 0 /\ m.ra = Junk /\ m.reg = reg /\ m.mem = mem
      /\ m = [sp |-> m.sp, fp |-> m.fp, ra |-> m.ra, reg |-> m.reg, xmm |-> m.xmm, mem |-> m.mem]
  BY <1>4
<1>6. reg \in [0..7 -> Token] /\ Junk \in Token
  BY <1>3a, Tokens
<1>7. mem \in Memories
  <2>1. DOMAIN mem = {} /\ mem = [a \in DOMAIN mem |-> mem[a]]
    BY <1>3a
  <2> QED BY <2>1, MemoryIs
<1>8. TypeOK
  <2>1. calls \in Seq(CallRecords)
    BY <1>1
  <2> QED BY <1>1, <1>5, <1>6, <1>7, <2>1 DEF TypeOK
<1>9. Base
  BY <1>1, <1>3, <1>5 DEF Base, SpAt, FpAt
<1>10. Descending /\ NoLongDoubles /\ Levels /\ Aligned
  <2>1. 1..Depth = {}
    BY <1>1
  <2> QED BY <2>1 DEF Descending, NoLongDoubles, Levels, Aligned
<1> QED BY <1>8, <1>9, <1>10 DEF FramesInv

\* A step that changes nothing keeps it.
LEMMA FramesStutter ==
  ASSUME FramesInv, UNCHANGED vars
  PROVE  FramesInv'
<1>1. target' = target /\ m' = m /\ calls' = calls /\ made' = made
  BY DEF vars
<1>2. TypeOK' /\ Base'
  BY <1>1 DEF FramesInv, TypeOK, Base, SpAt, FpAt, Depth
<1>3. Descending' /\ NoLongDoubles'
  BY <1>1 DEF FramesInv, Descending, NoLongDoubles, SpAt, FpAt, Depth
<1>4. Aligned'
  BY <1>1 DEF FramesInv, Aligned, AlignedAt, Unshifted, SpAt, FpAt, Depth
<1>5. Levels'
  BY <1>1 DEF FramesInv, Levels, LevelOK, PushingAt, CallingAt, EnteringAt, RunningAt,
       ReturnedAt, SpAt, FpAt, Depth, At, Dropped, Operand, Room, FrameEnd, PushedWords, Slot, W
<1> QED BY <1>2, <1>3, <1>4, <1>5 DEF FramesInv

\* Every step keeps it.
LEMMA FramesStep ==
  ASSUME FramesInv, [Next]_vars
  PROVE  FramesInv'
<1>1. CASE Call
  BY <1>1, CallKeeps
<1>2. CASE PushArgument
  BY <1>2, PushArgumentKeeps
<1>3. CASE LoadRegisters
  BY <1>3, LoadRegistersKeeps
<1>4. CASE Jump
  BY <1>4, JumpKeeps
<1>5. CASE CleanUp
  BY <1>5, CleanUpKeeps
<1>6. CASE Enter
  BY <1>6, EnterKeeps
<1>7. CASE VaStart
  BY <1>7, VaStartKeeps
<1>8. CASE VaArg
  BY <1>8, VaArgKeeps
<1>9. CASE Leave
  BY <1>9, LeaveKeeps
<1>10. CASE InitializeField
  BY <1>10, InitializeFieldKeeps
<1>11. CASE Ended \/ UNCHANGED vars
  BY <1>11, FramesStutter DEF Ended
<1> QED BY <1>1, <1>2, <1>3, <1>4, <1>5, <1>6, <1>7, <1>8, <1>9, <1>10, <1>11 DEF Next

\* In every state each call in progress finds the stack its phase calls for.
THEOREM FramesStand == Spec => []FramesInv
<1>1. FramesInv /\ [Next]_vars => FramesInv'
  BY FramesStep
<1> QED BY <1>1, FramesBegin, PTL DEF Spec

\* Only CleanUp makes the calls in progress fewer.
LEMMA OnlyCleanUpEnds ==
  ASSUME TypeOK, Next, Len(calls') < Len(calls)
  PROVE  CleanUp
<1>1. Len(calls) \in Nat
  BY DEF TypeOK
<1>2. ASSUME NEW c, NEW o, BeginCall(c, o) PROVE Len(calls') = Len(calls) + 1
  <2>1. PICK new : calls' = Append(calls, new)
    BY <1>2 DEF BeginCall
  <2>2. PICK q \in Seq(CallRecords) : q = calls
    BY DEF TypeOK
  <2>3. Len(Append(q, new)) = Len(q) + 1
    OBVIOUS
  <2> QED BY <2>1, <2>2, <2>3
<1>3. ASSUME Call PROVE FALSE
  <2>1. \E c, o : BeginCall(c, o)
    BY <1>3 DEF Call
  <2> QED BY <1>1, <1>2, <2>1
<1>4. ASSUME Depth > 0, NEW q, calls' = [calls EXCEPT ![Depth] = q] PROVE FALSE
  <2>1. Len(calls') = Len(calls)
    BY <1>4 DEF TypeOK
  <2> QED BY <1>1, <2>1
<1>5. ASSUME \/ PushArgument \/ LoadRegisters \/ Jump \/ Enter
             \/ VaStart \/ VaArg \/ InitializeField \/ Leave
      PROVE  FALSE
  <2>1. DOMAIN calls' = DOMAIN calls
    <3>1. CASE PushArgument
      BY <3>1 DEF PushArgument
    <3>2. CASE LoadRegisters
      BY <3>2 DEF LoadRegisters, Step
    <3>3. CASE Jump
      BY <3>3 DEF Jump, Step
    <3>4. CASE Enter
      BY <3>4 DEF Enter
    <3>5. CASE VaStart
      BY <3>5 DEF VaStart
    <3>6. CASE VaArg
      BY <3>6 DEF VaArg
    <3>7. CASE Leave
      BY <3>7 DEF Leave
    <3>8. CASE InitializeField
      BY <3>8 DEF InitializeField
    <3> QED BY <1>5, <3>1, <3>2, <3>3, <3>4, <3>5, <3>6, <3>7, <3>8
  <2> QED BY <1>1, <2>1
<1> QED BY <1>1, <1>3, <1>5 DEF Next, Ended, vars

\* CallsBalance: a call leaves the stack pointer and the frame pointer as its
\* caller had them, and it returned to the caller, whatever was pushed, padded
\* or packed for it and whatever calls it made.
THEOREM CallsComeBack == Spec => CallsBalance
<1>1. FramesInv /\ [Next]_vars =>
        [Len(calls') < Len(calls) =>
           m'.sp = Top.sp /\ m'.fp = Top.fp /\ Top.back = ReturnTo(Top.n)]_vars
  <2> SUFFICES ASSUME FramesInv, Next, Len(calls') < Len(calls)
               PROVE  m'.sp = Top.sp /\ m'.fp = Top.fp /\ Top.back = ReturnTo(Top.n)
    OBVIOUS
  <2>1. TypeOK /\ CleanUp
    BY OnlyCleanUpEnds DEF FramesInv
  <2>2. Depth > 0 /\ Top.phase = "returned"
    BY <2>1 DEF CleanUp
  <2>3. PICK c \in CallRecords : c = Top /\ LevelOK(c, Depth)
    BY <2>1, <2>2, Calls DEF FramesInv, Levels
  <2>4. ReturnedAt(c, Depth)
    BY <2>2, <2>3 DEF LevelOK
  <2>5. PICK top \in Int, drop \in Nat, sp \in Int :
          top = c.sp /\ drop = Dropped(c) /\ sp = m.sp /\ sp = top - drop /\ m.fp = c.fp
    <3>1. c.sp \in Int /\ Dropped(c) \in Nat
      BY <2>1, DroppedIs DEF CallRecords
    <3>2. m.sp \in Int
      BY <2>1 DEF TypeOK
    <3>3. m.sp = c.sp - Dropped(c) /\ m.fp = c.fp
      BY <2>4 DEF ReturnedAt
    <3>4. PICK top \in Int, drop \in Nat : top = c.sp /\ drop = Dropped(c)
      BY <3>1
    <3>5. PICK sp \in Int : sp = m.sp
      BY <3>2
    <3> QED BY <3>3, <3>4, <3>5
  <2>6. PICK mem : mem = Kept(m.mem, sp + drop)
    OBVIOUS
  <2>6a. m' = [m EXCEPT !.sp = sp + drop, !.mem = mem]
    <3>1. /\ m.sp + Dropped(Top) = sp + drop
          /\ Kept(m.mem, m.sp + Dropped(Top)) = mem
      BY <2>3, <2>5, <2>6
    <3> QED BY <2>1, <3>1 DEF CleanUp
  <2>7. m = [sp |-> m.sp, fp |-> m.fp, ra |-> m.ra, reg |-> m.reg, xmm |-> m.xmm, mem |-> m.mem]
    BY <2>1 DEF TypeOK
  <2>8. m'.sp = sp + drop /\ m'.fp = m.fp
    BY <2>6a, <2>7
  <2>9. sp + drop = top
    BY <2>5
  <2> QED BY <2>3, <2>4, <2>5, <2>8, <2>9 DEF ReturnedAt
<1> QED BY <1>1, FramesStand, PTL DEF Spec, CallsBalance

\* AlignedCalls: at a call instruction the stack is aligned to 16 bytes, also
\* while operands wait for the call, on RV32 unless a function in progress has
\* initialized a bit-field of a local variable, and on x86_64 unless the call
\* computes an argument of another call.
THEOREM CallsOnAlignedStack == Spec => []AlignedCalls
<1>1. FramesInv => AlignedCalls
  <2> SUFFICES ASSUME FramesInv, Depth > 0, Top.phase = "call", target # "i386",
                      ~(target = "x86_64" /\ InArguments), ~LostWords
               PROVE  m.sp % 16 = 0
    BY DEF AlignedCalls
  <2>1. TypeOK /\ Depth \in 1..Depth
    BY Calls DEF FramesInv
  <2>2. PICK c \in CallRecords : c = Top /\ c = calls[Depth] /\ LevelOK(c, Depth)
    BY <2>1, Calls DEF FramesInv, Levels
  <2>3. CallingAt(c, Depth)
    BY <2>2 DEF LevelOK
  <2>4. PICK top \in Int, drop \in Nat :
          top = c.sp /\ drop = Dropped(c) /\ drop % 16 = 0 /\ m.sp = top - drop
    <3>1. c.sp \in Int /\ Dropped(c) \in Nat /\ Dropped(c) % 16 = 0
      BY <2>1, DroppedIs DEF CallRecords
    <3> QED BY <2>3, <3>1 DEF CallingAt
  <2>5. top % 16 = 0
    <3>1. AlignedAt(Depth)
      BY <2>1 DEF FramesInv, Aligned
    <3>2. target = "rv32" \/ (target = "x86_64" /\ ~InArguments)
      BY <2>1 DEF TypeOK, Targets
    <3>3. ASSUME NEW j \in 1..Depth - 1 PROVE calls[j].lost = 0
      <4>1. j \in 1..Depth
        BY <2>1
      <4>2. calls[j] \in CallRecords
        BY <2>1, <4>1, Calls
      <4>3. calls[j].lost \in Nat /\ ~(calls[j].lost > 0)
        BY <4>1, <4>2 DEF CallRecords, LostWords
      <4> QED BY <4>3
    <3>4. Unshifted(Depth - 1)
      BY <3>2, <3>3 DEF Unshifted, InArguments
    <3> QED BY <2>2, <2>4, <3>1, <3>4 DEF AlignedAt
  <2> QED BY <2>4, <2>5
<1> QED BY <1>1, FramesStand, PTL

-----------------------------------------------------------------------------
(***************************************************************************)
(* The invariant of the arguments: where each word of a call in progress   *)
(* is, from the push to the body.                                          *)
(***************************************************************************)
\* The parameters are the first arguments; va_start comes before va_arg.
Matching(t, c) ==
  /\ Len(c.f.params) <= Len(c.kinds)
  /\ \A i \in 1..Len(c.f.params) : c.f.params[i] = c.kinds[i]
  /\ t = "x86_64" => \A i \in 1..Len(c.kinds) : c.kinds[i] # "ldouble"
  /\ ~c.started => c.taken = << >>
  /\ c.started => c.f.is_varargs /\ c.phase \in {"body", "returned"}
  /\ Len(c.f.params) + Len(c.taken) <= Len(c.kinds)

SlotSize(t) == IF t = "rv32" THEN 16 ELSE WordSize(t)

\* The slot of word r while the arguments are pushed, ...
PushedSlot(t, c, r) ==
  c.sp - Room(t, c)
    - SlotSize(t) * (IF t = "rv32" THEN r + 1 ELSE total_words(t, c.kinds) - r)

IsPushed(t, c, i) == IF t = "rv32" THEN i <= c.pushed ELSE i > Len(c.kinds) - c.pushed

PushedIn(t, mem, c) ==
  \A i \in 1..Len(c.kinds) : IsPushed(t, c, i) =>
    \A w \in 1..arg_words(t, c.kinds[i]) :
      Held(mem, PushedSlot(t, c, Rank(t, c.kinds, i, w))) = Argument(c.n, i, w)

\* ... where the callee expects it, ...
Passed(t, reg, mem, start, r) ==
  IF r < ArgRegisters(t) THEN reg[r]
  ELSE Held(mem, start + WordSize(t) * (r - ArgRegisters(t)))

PassedIn(t, reg, mem, start, c) ==
  \A i \in 1..Len(c.kinds) : \A w \in 1..arg_words(t, c.kinds[i]) :
    Passed(t, reg, mem, start, Rank(t, c.kinds, i, w)) = Argument(c.n, i, w)

\* ... in the place of the parameter, ...
ParametersIn(t, mem, c) ==
  \A i \in 1..Len(c.f.params) : Unsplit(t, c.kinds, i) =>
    \A w \in 1..arg_words(t, c.kinds[i]) :
      Held(mem, c.frame + Parameters(t, c.f).places[i] + WordSize(t) * (w - 1))
        = Argument(c.n, i, w)

\* ... and in the array that va_arg walks.
ArrayAt(t, c) == c.frame + (IF t = "i386" THEN 8 ELSE SaveArea(t))

ArrayIn(t, mem, c) ==
  c.f.is_varargs =>
    \A i \in 1..Len(c.kinds) : \A w \in 1..arg_words(t, c.kinds[i]) :
      (t = "x86_64" => Rank(t, c.kinds, i, w) < 22) =>
        Held(mem, ArrayAt(t, c) + WordSize(t) * Rank(t, c.kinds, i, w)) = Argument(c.n, i, w)

Counts(t, c) ==
  /\ LastWord(t, c.f.params)[Len(c.f.params)] = Len(c.f.params)
  /\ t = "x86_64" => total_words(t, c.kinds) <= 22
  /\ t = "rv32" => c.frame % 8 = 0

\* The va_list is behind the arguments that were taken, which were the right ones.
ListAt(t, c) == c.frame - (FirstLocal(t, c.f) + WordSize(t))

ListIn(t, mem, c) ==
  Counts(t, c) /\ c.started =>
    Held(mem, ListAt(t, c))
      = Address(ArrayAt(t, c) + WordSize(t) * LastWord(t, c.kinds)[Len(c.f.params) + Len(c.taken)])

TakenIn(t, c) ==
  Counts(t, c) =>
    \A j \in 1..Len(c.taken) :
      c.taken[j] = [w \in 1..arg_words(t, c.kinds[Len(c.f.params) + j]) |->
                      Argument(c.n, Len(c.f.params) + j, w)]

ArgumentsOK(c) ==
  /\ Matching(target, c)
  /\ c.phase = "arguments" => PushedIn(target, m.mem, c)
  /\ c.phase \in {"call", "entry"} => PassedIn(target, m.reg, m.mem, c.sp - Dropped(c), c)
  /\ c.phase = "body" => /\ ParametersIn(target, m.mem, c) /\ ArrayIn(target, m.mem, c)
                         /\ ListIn(target, m.mem, c) /\ TakenIn(target, c)

ArgumentsInv == \A k \in 1..Depth : ArgumentsOK(calls[k])

-----------------------------------------------------------------------------
\* The fields of a call that the arguments are about.
LEMMA FieldsAre ==
  ASSUME NEW c \in CallRecords
  PROVE  /\ c.f \in Functions /\ c.f.params \in Seq(Kinds) /\ c.kinds \in Seq(Kinds)
         /\ c.n \in Nat /\ c.pushed \in Nat /\ c.sp \in Int /\ c.frame \in Int
         /\ c.taken \in Seq(Seq(Token)) /\ c.started \in BOOLEAN /\ c.f.is_varargs \in BOOLEAN
BY DEF CallRecords, Functions

\* The words pushed so far.
PushedCount(t, c) ==
  IF t = "rv32" THEN LastWord(t, c.kinds)[c.pushed]
  ELSE total_words(t, c.kinds) - LastWord(t, c.kinds)[Len(c.kinds) - c.pushed]

\* The slot of a word that is pushed is above the stack pointer.
LEMMA SlotAbove ==
  ASSUME NEW t \in Targets, NEW c \in CallRecords, c.pushed <= Len(c.kinds),
         NEW i \in 1..Len(c.kinds), IsPushed(t, c, i), NEW w \in 1..arg_words(t, c.kinds[i])
  PROVE  /\ PushedSlot(t, c, Rank(t, c.kinds, i, w)) \in Int
         /\ c.sp - Room(t, c) - SlotSize(t) * PushedCount(t, c)
              <= PushedSlot(t, c, Rank(t, c.kinds, i, w))
<1>1. c.kinds \in Seq(Kinds) /\ c.sp \in Int /\ c.pushed \in Nat
  BY FieldsAre
<1>2. PICK n \in Nat, q \in Nat : n = Len(c.kinds) /\ q = c.pushed /\ q <= n
  BY <1>1
<1>3. PICK r \in Nat : /\ r = Rank(t, c.kinds, i, w) /\ LastWord(t, c.kinds)[i - 1] <= r
                       /\ r < LastWord(t, c.kinds)[i] /\ r < total_words(t, c.kinds)
  BY <1>1, RankIs
<1>4. PICK u \in {4, 8, 16}, total \in Nat, pad \in Nat, sp \in Int :
        /\ u = SlotSize(t) /\ total = total_words(t, c.kinds) /\ pad = Room(t, c)
        /\ sp = c.sp
  BY <1>1, CallSize, RoomIs DEF SlotSize, WordSize
<1>5. PICK words \in Int, place \in Int :
        /\ words = PushedCount(t, c) /\ place <= words
        /\ place = IF t = "rv32" THEN r + 1 ELSE total - r
  <2>1. CASE t = "rv32"
    <3>1. i <= q /\ i \in 0..n /\ q \in 0..n
      BY <1>2, <2>1 DEF IsPushed
    <3>2. PICK x \in Nat, y \in Nat : /\ x = LastWord(t, c.kinds)[i] /\ y = LastWord(t, c.kinds)[q]
                                      /\ x <= y
      BY <1>1, <1>2, <3>1, LastStep, LastOrdered
    <3>3. y = PushedCount(t, c) /\ r + 1 <= y
      BY <1>2, <1>3, <2>1, <3>2 DEF PushedCount
    <3> QED BY <2>1, <3>3
  <2>2. CASE t # "rv32"
    <3>1. i - 1 >= n - q /\ i - 1 \in 0..n /\ n - q \in 0..n
      BY <1>2, <2>2 DEF IsPushed
    <3>2. PICK x \in Nat, y \in Nat :
            /\ x = LastWord(t, c.kinds)[i - 1] /\ y = LastWord(t, c.kinds)[n - q] /\ y <= x
      <4>1. PICK g \in 0..Len(c.kinds), h \in 0..Len(c.kinds) : g = i - 1 /\ h = n - q /\ h <= g
        BY <1>2, <3>1
      <4>2. LastWord(t, c.kinds)[g] \in Nat /\ LastWord(t, c.kinds)[h] \in Nat
        BY <1>1, LastStep
      <4>3. LastWord(t, c.kinds)[h] <= LastWord(t, c.kinds)[g]
        BY <1>1, <4>1, LastOrdered
      <4> QED BY <4>1, <4>2, <4>3
    <3>3. total - y = PushedCount(t, c) /\ total - r <= total - y
      BY <1>2, <1>3, <1>4, <2>2, <3>2, SMTT(20) DEF PushedCount
    <3> QED BY <2>2, <3>3
  <2> QED BY <2>1, <2>2
<1>6. PushedSlot(t, c, Rank(t, c.kinds, i, w)) = sp - pad - u * place
  BY <1>3, <1>4, <1>5 DEF PushedSlot
<1>7. sp - pad - u * words <= sp - pad - u * place
  <2>1. CASE u = 4
    BY <1>5, <2>1
  <2>2. CASE u = 8
    BY <1>5, <2>2
  <2>3. CASE u = 16
    BY <1>5, <2>3
  <2> QED BY <2>1, <2>2, <2>3
<1>8. sp - pad - u * place \in Int
  OBVIOUS
<1> QED BY <1>4, <1>5, <1>6, <1>7, <1>8

\* The words that are pushed stay while the memory above the stack pointer does.
LEMMA PushedKept ==
  ASSUME NEW t \in Targets, NEW c \in CallRecords, c.pushed <= Len(c.kinds),
         NEW mem, NEW new, PushedIn(t, mem, c), NEW low \in Int,
         low <= c.sp - Room(t, c) - SlotSize(t) * PushedCount(t, c),
         \A a \in Int : a >= low => Held(new, a) = Held(mem, a)
  PROVE  PushedIn(t, new, c)
<1>1. PICK sp \in Int : sp = c.sp - Room(t, c) - SlotSize(t) * PushedCount(t, c)
  <2>1. c.kinds \in Seq(Kinds) /\ c.sp \in Int /\ c.pushed \in Nat
    BY FieldsAre
  <2>2. PICK u \in {4, 8, 16}, pad \in Nat : u = SlotSize(t) /\ pad = Room(t, c)
    BY <2>1, RoomIs DEF SlotSize, WordSize
  <2>3. PICK words \in Int : words = PushedCount(t, c)
    <3>1. c.pushed \in 0..Len(c.kinds) /\ Len(c.kinds) - c.pushed \in 0..Len(c.kinds)
      BY <2>1
    <3>2. /\ LastWord(t, c.kinds)[c.pushed] \in Nat
          /\ LastWord(t, c.kinds)[Len(c.kinds) - c.pushed] \in Nat
          /\ total_words(t, c.kinds) \in Nat
      BY <2>1, <3>1, LastStep
    <3> QED BY <3>2 DEF PushedCount
  <2> QED BY <2>1, <2>2, <2>3
<1>2. ASSUME NEW i \in 1..Len(c.kinds), IsPushed(t, c, i), NEW w \in 1..arg_words(t, c.kinds[i])
      PROVE  Held(new, PushedSlot(t, c, Rank(t, c.kinds, i, w))) = Argument(c.n, i, w)
  <2>1. PICK a \in Int : a = PushedSlot(t, c, Rank(t, c.kinds, i, w)) /\ sp <= a
    BY <1>1, <1>2, SlotAbove
  <2>2. a >= low
    BY <1>1, <2>1
  <2>3. Held(mem, a) = Argument(c.n, i, w)
    BY <1>2, <2>1 DEF PushedIn
  <2> QED BY <2>1, <2>2, <2>3
<1> QED BY <1>2 DEF PushedIn

-----------------------------------------------------------------------------
\* The places of the parameters are above the variables.
LEMMA PlaceAbove ==
  ASSUME NEW t \in Targets, NEW f \in Functions, NEW j \in 1..Len(f.params)
  PROVE  /\ Parameters(t, f).places[j] \in Int
         /\ -FirstLocal(t, f) <= Parameters(t, f).places[j]
<1>1. PICK p : Places(p, t, f)
  BY ParametersAre
<1>2. j \in 0..Len(f.params) /\ j - 1 \in 0..Len(f.params)
  OBVIOUS
<1>3. p[j].offset \in Nat /\ p[j - 1].above \in Nat
  BY <1>1, <1>2 DEF Places, Placing
<1>4. PICK a \in Nat, b \in Nat, c \in Nat :
        a = p[j].offset /\ b = FirstLocal(t, f) /\ c = p[j - 1].above /\ a <= b
  <2>1. p[j].offset <= Parameters(t, f).offset
    BY <1>1, <1>2, PlacesStay
  <2>2. Parameters(t, f).offset \in Nat
    <3>1. Len(f.params) \in 0..Len(f.params)
      BY DEF Functions
    <3> QED BY <1>1, <3>1 DEF Places, Placing
  <2>3. Reserve(t, f) \in Nat
    BY DEF Reserve, Functions
  <2> QED BY <1>3, <2>1, <2>2, <2>3 DEF FirstLocal
<1>5. Parameters(t, f).places[j] = -a \/ Parameters(t, f).places[j] = c
  BY <1>1, <1>4, PlacesStay DEF PlaceOf
<1> QED BY <1>4, <1>5

\* So is the array of a function with a variable argument list.
LEMMA ArrayAbove ==
  ASSUME NEW t \in Targets, NEW c \in CallRecords, c.f.is_varargs
  PROVE  ArrayAt(t, c) \in Int /\ c.frame - FirstLocal(t, c.f) <= ArrayAt(t, c)
<1>1. c.f \in Functions /\ c.frame \in Int
  BY FieldsAre
<1>2. PICK p : Places(p, t, c.f)
  BY <1>1, ParametersAre
<1>3. PICK x \in Nat, y \in Nat, z \in Nat :
        /\ x = FirstOffset(t, c.f) /\ y = Parameters(t, c.f).offset /\ z = Reserve(t, c.f)
        /\ x <= y
  <2>1. Len(c.f.params) \in 0..Len(c.f.params)
    BY <1>1 DEF Functions
  <2>2. /\ Parameters(t, c.f).offset \in Nat /\ FirstOffset(t, c.f) <= Parameters(t, c.f).offset
    <3>1. PICK k \in 0..Len(c.f.params) : k = Len(c.f.params)
      BY <2>1
    <3>2. /\ p[k].offset \in Nat /\ FirstOffset(t, c.f) <= p[k].offset
      BY <1>1, <1>2, PlacesStay
    <3>3. Parameters(t, c.f) = p[k]
      BY <1>2, <3>1 DEF Places
    <3> QED BY <3>2, <3>3
  <2>3. FirstOffset(t, c.f) \in Nat
    BY DEF FirstOffset, Targets
  <2>4. Reserve(t, c.f) \in Nat
    BY <1>1 DEF Reserve, Functions
  <2> QED BY <2>2, <2>3, <2>4
<1>4. FirstLocal(t, c.f) = y + z
  BY <1>3 DEF FirstLocal
<1>5. CASE t = "i386"
  <2>1. ArrayAt(t, c) = c.frame + 8
    BY <1>5 DEF ArrayAt
  <2> QED BY <1>1, <1>4, <2>1
<1>6. CASE t = "rv32"
  <2>1. ArrayAt(t, c) = c.frame - 32 /\ x = 32
    BY <1>1, <1>3, <1>6 DEF ArrayAt, SaveArea, FirstOffset
  <2> QED BY <1>1, <1>3, <1>4, <2>1
<1>7. CASE t = "x86_64"
  <2>1. ArrayAt(t, c) = c.frame - 192 /\ x = 192
    BY <1>1, <1>3, <1>7 DEF ArrayAt, SaveArea, FirstOffset
  <2> QED BY <1>1, <1>3, <1>4, <2>1
<1> QED BY <1>5, <1>6, <1>7 DEF Targets

\* The parameters and the array stay while the memory above the variables does,
LEMMA BodyKept ==
  ASSUME NEW t \in Targets, NEW c \in CallRecords, NEW d \in CallRecords,
         d.f = c.f, d.kinds = c.kinds, d.n = c.n, d.frame = c.frame,
         Len(c.f.params) <= Len(c.kinds),
         NEW mem, NEW new, ParametersIn(t, mem, c), ArrayIn(t, mem, c),
         \A a \in Int : a >= c.frame - FirstLocal(t, c.f) => Held(new, a) = Held(mem, a)
  PROVE  ParametersIn(t, new, d) /\ ArrayIn(t, new, d)
<1>1. c.f \in Functions /\ c.f.params \in Seq(Kinds) /\ c.kinds \in Seq(Kinds) /\ c.frame \in Int
  BY FieldsAre
<1>2. PICK u \in {4, 8}, first \in Nat, frame \in Int :
        u = WordSize(t) /\ first = FirstLocal(t, c.f) /\ frame = c.frame
  BY <1>1, FrameSize DEF WordSize
<1>3. \A a \in Int : a >= frame - first => Held(new, a) = Held(mem, a)
  BY <1>2
<1>4. ASSUME NEW i \in 1..Len(c.f.params), Unsplit(t, c.kinds, i),
             NEW w \in 1..arg_words(t, c.kinds[i])
      PROVE  Held(new, c.frame + Parameters(t, c.f).places[i] + WordSize(t) * (w - 1))
               = Argument(c.n, i, w)
  <2>1. PICK place \in Int : place = Parameters(t, c.f).places[i] /\ -first <= place
    BY <1>1, <1>2, PlaceAbove
  <2>2. PICK past \in Nat : past = u * (w - 1)
    <3>1. i \in 1..Len(c.kinds)
      BY <1>1
    <3>2. c.kinds[i] \in Kinds
      BY <1>1, <3>1
    <3>3. arg_words(t, c.kinds[i]) \in 1..4
      BY <3>2, WordsAre
    <3>4. w - 1 \in Nat
      BY <3>3
    <3>5. u * (w - 1) \in Nat
      BY <3>4
    <3> QED BY <3>5
  <2>3. frame + place + past \in Int /\ frame + place + past >= frame - first
    BY <2>1
  <2>4. Held(mem, frame + place + past) = Argument(c.n, i, w)
    BY <1>2, <1>4, <2>1, <2>2 DEF ParametersIn
  <2> QED BY <1>2, <1>3, <2>1, <2>2, <2>3, <2>4
<1>5. ParametersIn(t, new, d)
  BY <1>4 DEF ParametersIn
<1>6. ASSUME c.f.is_varargs, NEW i \in 1..Len(c.kinds), NEW w \in 1..arg_words(t, c.kinds[i]),
             t = "x86_64" => Rank(t, c.kinds, i, w) < 22
      PROVE  Held(new, ArrayAt(t, c) + WordSize(t) * Rank(t, c.kinds, i, w)) = Argument(c.n, i, w)
  <2>1. PICK base \in Int : base = ArrayAt(t, c) /\ frame - first <= base
    BY <1>2, <1>6, ArrayAbove
  <2>2. PICK r \in Nat : r = Rank(t, c.kinds, i, w)
    BY <1>1, RankIs
  <2>3. PICK past \in Nat : past = u * r
    <3>1. u * r \in Nat
      OBVIOUS
    <3> QED BY <3>1
  <2>4. base + past \in Int /\ base + past >= frame - first
    BY <2>1
  <2>5. Held(mem, base + past) = Argument(c.n, i, w)
    BY <1>2, <1>6, <2>1, <2>2, <2>3 DEF ArrayIn
  <2> QED BY <1>2, <1>3, <2>1, <2>2, <2>3, <2>4, <2>5
<1>7. ArrayAt(t, d) = ArrayAt(t, c)
  BY DEF ArrayAt
<1>8. ArrayIn(t, new, d)
  BY <1>6, <1>7 DEF ArrayIn
<1> QED BY <1>5, <1>8

\* and the va_list as well while its word does.
LEMMA ListKept ==
  ASSUME NEW t \in Targets, NEW c \in CallRecords, NEW mem, NEW new, ListIn(t, mem, c),
         Held(new, ListAt(t, c)) = Held(mem, ListAt(t, c))
  PROVE  ListIn(t, new, c)
BY DEF ListIn

\* The words of a call in progress stay while the memory of its caller does.
LEMMA ArgumentsKept ==
  ASSUME FramesInv, target' = target, NEW k \in 1..Depth, NEW c \in CallRecords, c = calls[k],
         c.phase \in {"arguments", "body"}, ArgumentsOK(c),
         \A a \in Int : a >= SpAt(k) => Held(m'.mem, a) = Held(m.mem, a)
  PROVE  ArgumentsOK(c)'
<1>1. PICK t \in Targets : t = target
  BY WIs DEF FramesInv
<1>2. LevelOK(c, k) /\ TypeOK /\ Matching(t, c)
  BY <1>1 DEF FramesInv, Levels, ArgumentsOK
<1>3. c.phase = "arguments" => PushedIn(t, m'.mem, c)
  <2>1. HAVE c.phase = "arguments"
  <2>2. PushingAt(c, k) /\ PushedIn(t, m.mem, c)
    BY <1>1, <1>2, <2>1 DEF LevelOK, ArgumentsOK
  <2>3. /\ c.pushed <= Len(c.kinds)
        /\ SpAt(k) = c.sp - Room(t, c) - SlotSize(t) * PushedCount(t, c)
    <3>1. Slot = SlotSize(t) /\ PushedWords(c) = PushedCount(t, c)
      BY <1>1 DEF Slot, SlotSize, PushedWords, PushedCount, W
    <3> QED BY <1>1, <2>2, <3>1 DEF PushingAt
  <2>4. PICK low \in Int : low = SpAt(k)
    <3>1. SpAt(k) \in Int
      <4>1. CASE k = Depth
        BY <1>2, <4>1 DEF SpAt, TypeOK
      <4>2. CASE k # Depth
        <5>1. k + 1 \in 1..Depth
          BY <1>2, <4>2, Calls
        <5>2. calls[k + 1] \in CallRecords
          BY <1>2, <5>1, Calls
        <5>3. calls[k + 1].sp \in Int
          BY <5>2 DEF CallRecords
        <5> QED BY <4>2, <5>3 DEF SpAt
      <4> QED BY <4>1, <4>2
    <3> QED BY <3>1
  <2>5. low <= c.sp - Room(t, c) - SlotSize(t) * PushedCount(t, c)
    BY <2>3, <2>4
  <2>6. PICK mem, new : mem = m.mem /\ new = m'.mem
    OBVIOUS
  <2>7. \A a \in Int : a >= low => Held(new, a) = Held(mem, a)
    BY <2>4, <2>6
  <2>8. PushedIn(t, new, c)
    BY <2>2, <2>3, <2>5, <2>6, <2>7, PushedKept
  <2> QED BY <2>6, <2>8
<1>4. c.phase = "body" => /\ ParametersIn(t, m'.mem, c) /\ ArrayIn(t, m'.mem, c)
                          /\ ListIn(t, m'.mem, c)
  <2>1. HAVE c.phase = "body"
  <2>2. RunningAt(c, k)
    BY <1>2, <2>1 DEF LevelOK
  <2>3. ParametersIn(t, m.mem, c) /\ ArrayIn(t, m.mem, c) /\ ListIn(t, m.mem, c)
    BY <1>1, <2>1 DEF ArgumentsOK
  <2>4. c.f \in Functions /\ c.frame \in Int
    BY FieldsAre
  <2>5. PICK u \in {4, 8}, first \in Nat, size \in Nat, frame \in Int :
          /\ u = WordSize(t) /\ first = FirstLocal(t, c.f) /\ size = stack_size(t, c.f)
          /\ frame = c.frame /\ first + 160 <= size
    <3>1. /\ FirstLocal(t, c.f) \in Nat /\ stack_size(t, c.f) \in Nat
          /\ FirstLocal(t, c.f) + c.f.locals * WordSize(t) + 160 <= stack_size(t, c.f)
      BY <2>4, FrameSize
    <3>2. PICK u \in {4, 8} : u = WordSize(t)
      BY DEF WordSize
    <3>3. PICK n \in Nat : n = c.f.locals
      BY <2>4 DEF Functions
    <3>4. n * u \in Nat
      OBVIOUS
    <3> QED BY <2>4, <3>1, <3>2, <3>3, <3>4
  <2>6. SpAt(k) <= frame - size /\ SpAt(k) \in Int
    <3>1. PICK l \in Nat : l = c.lost
      BY DEF CallRecords
    <3>2. SpAt(k) = frame - size - 4 * l
      BY <1>1, <2>2, <2>5, <3>1 DEF RunningAt, FrameEnd
    <3> QED BY <3>2
  <2>7. \A a \in Int : a >= frame - size => Held(m'.mem, a) = Held(m.mem, a)
    <3>1. PICK low \in Int : low = SpAt(k) /\ low <= frame - size
      BY <2>6
    <3> QED BY <3>1
  <2>8. \A a \in Int : a >= c.frame - FirstLocal(t, c.f) => Held(m'.mem, a) = Held(m.mem, a)
    BY <2>5, <2>7
  <2>9. Held(m'.mem, ListAt(t, c)) = Held(m.mem, ListAt(t, c))
    <3>1. ListAt(t, c) = frame - (first + u)
      BY <2>5 DEF ListAt
    <3>2. frame - (first + u) \in Int /\ frame - (first + u) >= frame - size
      BY <2>5
    <3> QED BY <2>7, <3>1, <3>2
  <2>10. PICK mem, new : mem = m.mem /\ new = m'.mem
    OBVIOUS
  <2>11. \A a \in Int : a >= c.frame - FirstLocal(t, c.f) => Held(new, a) = Held(mem, a)
    BY <2>8, <2>10
  <2>12. ParametersIn(t, mem, c) /\ ArrayIn(t, mem, c) /\ Len(c.f.params) <= Len(c.kinds)
    BY <1>2, <2>3, <2>10 DEF Matching
  <2>13. ParametersIn(t, new, c) /\ ArrayIn(t, new, c)
    BY <2>11, <2>12, BodyKept
  <2>14. ListIn(t, new, c)
    BY <2>3, <2>9, <2>10, ListKept
  <2> QED BY <2>10, <2>13, <2>14
<1> QED BY <1>1, <1>2, <1>3, <1>4 DEF ArgumentsOK

\* A step of the call on top that is right about its own words is right about all.
LEMMA TopArguments ==
  ASSUME FramesInv, ArgumentsInv, Depth > 0, TopOnly, target' = target,
         NEW d \in CallRecords, d = Top', ArgumentsOK(d)'
  PROVE  ArgumentsInv'
<1>1. PICK n \in Nat : n = Depth /\ n > 0 /\ n = Depth'
  BY Calls DEF FramesInv, TopOnly
<1>2. TypeOK
  BY DEF FramesInv
<1>3. ASSUME NEW k \in 1..n PROVE ArgumentsOK(calls[k])'
  <2>1. CASE k = n
    <3>1. d = calls'[k]
      BY <1>1, <2>1 DEF Top
    <3> QED BY <3>1
  <2>2. CASE k # n
    <3>1. k \in 1..Depth /\ k # Depth /\ k + 1 \in 1..Depth /\ k + 1 <= Depth /\ Depth \in 1..Depth
      BY <1>1, <2>2
    <3>2. PICK c \in CallRecords : c = calls[k] /\ c = calls'[k]
      BY <1>2, <3>1, Calls DEF TopOnly
    <3>3. ArgumentsOK(c) /\ c.phase \in {"arguments", "body"}
      BY <3>1, <3>2, LowerPhases DEF ArgumentsInv
    <3>4. \A a \in Int : a >= SpAt(k) => Held(m'.mem, a) = Held(m.mem, a)
      <4>1. SpAt(k) = calls[k + 1].sp
        BY <3>1 DEF SpAt
      <4>2. Top.sp <= calls[k + 1].sp
        BY <3>1 DEF FramesInv, Descending, Top
      <4>3. Top.sp \in Int /\ calls[k + 1].sp \in Int
        <5>1. calls[k + 1] \in CallRecords /\ Top \in CallRecords
          BY <1>1, <1>2, <3>1, Calls
        <5> QED BY <5>1, FieldsAre
      <4>4. PICK x \in Int, y \in Int : x = Top.sp /\ y = SpAt(k) /\ x <= y
        BY <4>1, <4>2, <4>3
      <4>5. \A a \in Int : a >= x => Held(m'.mem, a) = Held(m.mem, a)
        BY <4>4 DEF TopOnly
      <4> QED BY <4>4, <4>5
    <3>5. ArgumentsOK(c)'
      BY <3>1, <3>2, <3>3, <3>4, ArgumentsKept
    <3> QED BY <3>2, <3>5
  <2> QED BY <2>1, <2>2
<1> QED BY <1>1, <1>3 DEF ArgumentsInv

\* The number of arguments pushed of a call is changed.
LEMMA Repushed ==
  ASSUME NEW c \in CallRecords, NEW x \in Nat, NEW d, d = [c EXCEPT !.pushed = x]
  PROVE  /\ d \in CallRecords /\ d.f = c.f /\ d.kinds = c.kinds /\ d.n = c.n
         /\ d.phase = c.phase /\ d.sp = c.sp /\ d.fp = c.fp /\ d.frame = c.frame
         /\ d.started = c.started /\ d.taken = c.taken /\ d.pushed = x
         /\ d.operands = c.operands /\ d.lost = c.lost
<1>1. c = [f |-> c.f, kinds |-> c.kinds, n |-> c.n, phase |-> c.phase,
           pushed |-> c.pushed, sp |-> c.sp, fp |-> c.fp, frame |-> c.frame,
           started |-> c.started, taken |-> c.taken, operands |-> c.operands,
           lost |-> c.lost, back |-> c.back]
  BY RecordIs
<1>2. d = [f |-> c.f, kinds |-> c.kinds, n |-> c.n, phase |-> c.phase,
           pushed |-> x, sp |-> c.sp, fp |-> c.fp, frame |-> c.frame,
           started |-> c.started, taken |-> c.taken, operands |-> c.operands,
           lost |-> c.lost, back |-> c.back]
  BY <1>1
<1>3. d \in [f : Functions, kinds : Seq(Kinds), n : Nat, phase : Phases, pushed : Nat,
             sp : Int, fp : Int, operands : Nat, frame : Int, lost : Nat, started : BOOLEAN,
             taken : Seq(Seq(Token)), back : Token]
  BY <1>2 DEF CallRecords
<1> QED BY <1>2, <1>3 DEF CallRecords

\* An element of the second of two sequences.
LEMMA JoinedAt ==
  ASSUME NEW S, NEW a \in Seq(S), NEW b \in Seq(S), NEW w \in 1..Len(b)
  PROVE  Len(a \o b) = Len(a) + Len(b) /\ (a \o b)[Len(a) + w] = b[w]
OBVIOUS

\* Each word of the argument is among those that are pushed.
LEMMA PushesHold ==
  ASSUME TypeOK, NEW c \in CallRecords, NEW i \in 1..Len(c.kinds),
         NEW w \in 1..arg_words(target, c.kinds[i]),
         NEW p, p = IF target = "rv32"
                    THEN Pad(target, c.kinds[i], LastWord(target, c.kinds)[i - 1]) + w
                    ELSE arg_words(target, c.kinds[i]) + 1 - w
  PROVE  p \in 1..Len(Pushes(c, i)) /\ Pushes(c, i)[p] = Argument(c.n, i, w)
<1>1. target \in Targets /\ c.kinds \in Seq(Kinds)
  BY WIs, FieldsAre
<1>2. PICK k \in Kinds : k = c.kinds[i]
  BY <1>1
<1>3. PICK x \in Nat : x = LastWord(target, c.kinds)[i - 1]
  <2>1. i - 1 \in 0..Len(c.kinds)
    BY <1>1
  <2> QED BY <1>1, <2>1, LastStep
<1>4. PICK words \in 1..4, b \in {0, 1} :
        words = arg_words(target, k) /\ b = Pad(target, k, x)
  BY <1>1, WordsAre
<1>5. w \in 1..words /\ p = IF target = "rv32" THEN b + w ELSE words + 1 - w
  BY <1>2, <1>3, <1>4
<1>6. CASE target = "rv32"
  <2> DEFINE pads == [q \in 1..b |-> Junk]
             args == [q \in 1..words |-> Argument(c.n, i, q)]
  <2>1. Pushes(c, i) = pads \o args
    BY <1>2, <1>3, <1>4, <1>6 DEF Pushes
  <2> DEFINE S == {Junk} \cup {Argument(c.n, i, q) : q \in 1..words}
  <2>2. pads \in Seq(S) /\ Len(pads) = b
    OBVIOUS
  <2>3. args \in Seq(S) /\ Len(args) = words /\ args[w] = Argument(c.n, i, w)
    BY <1>5
  <2> HIDE DEF pads, args, S
  <2>4. Len(pads \o args) = b + words /\ (pads \o args)[b + w] = args[w]
    BY <1>5, <2>2, <2>3, JoinedAt
  <2>5. p = b + w /\ p \in 1..(b + words)
    BY <1>5, <1>6
  <2>6. (pads \o args)[p] = Argument(c.n, i, w) /\ p \in 1..Len(pads \o args)
    BY <2>3, <2>4, <2>5
  <2> QED BY <2>1, <2>6
<1>7. CASE target # "rv32"
  <2> DEFINE args == [q \in 1..words |-> Argument(c.n, i, words + 1 - q)]
  <2>1. Pushes(c, i) = args
    BY <1>2, <1>3, <1>4, <1>7 DEF Pushes
  <2>2. p \in 1..words /\ words + 1 - p = w
    BY <1>5, <1>7
  <2>3. Len(args) = words
    OBVIOUS
  <2>4. args[p] = Argument(c.n, i, w)
    BY <2>2
  <2> HIDE DEF args
  <2> QED BY <2>1, <2>2, <2>3, <2>4
<1> QED BY <1>6, <1>7

\* The slots in which the words of the next argument are pushed are those where
\* they are looked for.
LEMMA NextSlots ==
  ASSUME NEW t \in Targets, NEW c \in CallRecords, NEW i \in 1..Len(c.kinds),
         c.pushed < Len(c.kinds),
         i = IF t = "rv32" THEN c.pushed + 1 ELSE Len(c.kinds) - c.pushed,
         NEW w \in 1..arg_words(t, c.kinds[i]),
         NEW p, p = IF t = "rv32"
                    THEN Pad(t, c.kinds[i], LastWord(t, c.kinds)[i - 1]) + w
                    ELSE arg_words(t, c.kinds[i]) + 1 - w
  PROVE  c.sp - Room(t, c) - SlotSize(t) * PushedCount(t, c) - SlotSize(t) * p
           = PushedSlot(t, c, Rank(t, c.kinds, i, w))
<1>1. c.kinds \in Seq(Kinds) /\ c.sp \in Int /\ c.pushed \in Nat
  BY FieldsAre
<1>2. PICK n \in Nat, q \in Nat : n = Len(c.kinds) /\ q = c.pushed
  BY <1>1
<1>3. i \in 0..n /\ i - 1 \in 0..n /\ i \in Nat
  BY <1>2
<1>4. PICK x \in Nat, y \in Nat, total \in Nat :
        /\ x = LastWord(t, c.kinds)[i - 1] /\ y = LastWord(t, c.kinds)[i]
        /\ total = total_words(t, c.kinds)
  BY <1>1, <1>2, <1>3, LastStep
<1>5. PICK k \in Kinds : k = c.kinds[i]
  BY <1>1
<1>6. PICK words \in 1..4, b \in {0, 1} :
        words = arg_words(t, k) /\ b = Pad(t, k, x)
  BY WordsAre
<1>7. w \in 1..words /\ p = (IF t = "rv32" THEN b + w ELSE words + 1 - w)
      /\ y = x + b + words
  BY <1>1, <1>2, <1>3, <1>4, <1>5, <1>6, LastStep
<1>8. PICK r \in Nat : r = Rank(t, c.kinds, i, w) /\ r = y - words + w - 1 /\ r = x + b + w - 1
  <2>1. Rank(t, c.kinds, i, w) = y - words + w - 1
    BY <1>4, <1>5, <1>6 DEF Rank
  <2>2. y - words + w - 1 = x + b + w - 1 /\ x + b + w - 1 \in Nat
    BY <1>7
  <2> QED BY <2>1, <2>2
<1>9. PICK u \in {4, 8, 16}, pad \in Nat, sp \in Int :
        u = SlotSize(t) /\ pad = Room(t, c) /\ sp = c.sp
  BY <1>1, RoomIs DEF SlotSize, WordSize
<1>10. PICK e \in Int : e = p
  BY <1>7
<1>11. PICK count \in Int, place \in Int :
         /\ count = PushedCount(t, c) /\ place = (IF t = "rv32" THEN r + 1 ELSE total - r)
         /\ count + e = place
  <2>1. CASE t = "rv32"
    <3>1. i - 1 = q
      BY <1>2, <2>1
    <3>2. PushedCount(t, c) = x
      BY <1>2, <1>4, <2>1, <3>1 DEF PushedCount
    <3>3. e = b + w
      BY <1>7, <1>10, <2>1
    <3>4. x + e = r + 1
      BY <1>8, <3>3
    <3> QED BY <2>1, <3>2, <3>4
  <2>2. CASE t # "rv32"
    <3>1. i = n - q
      BY <1>2, <2>2
    <3>2. PushedCount(t, c) = total - y
      BY <1>2, <1>4, <2>2, <3>1 DEF PushedCount
    <3>3. e = words + 1 - w
      BY <1>7, <1>10, <2>2
    <3>4. total - y + e = total - r
      <4>1. w \in Int /\ r = y - words + w - 1
        BY <1>7, <1>8
      <4> QED BY <3>3, <4>1
    <3> QED BY <2>2, <3>2, <3>4
  <2> QED BY <2>1, <2>2
<1>12. PushedSlot(t, c, Rank(t, c.kinds, i, w)) = sp - pad - u * place
  BY <1>4, <1>8, <1>9, <1>11 DEF PushedSlot
<1>13. sp - pad - u * count - u * e = sp - pad - u * place
  <2>0. place = count + e
    BY <1>11
  <2>1. CASE u = 4
    BY <2>0, <2>1
  <2>2. CASE u = 8
    BY <2>0, <2>2
  <2>3. CASE u = 16
    BY <2>0, <2>3
  <2> QED BY <2>1, <2>2, <2>3
<1> QED BY <1>9, <1>10, <1>11, <1>12, <1>13

\* The push of an argument puts its words where they are looked for.
LEMMA PushArgumentPasses ==
  ASSUME FramesInv, ArgumentsInv, PushArgument
  PROVE  ArgumentsInv'
<1>1. /\ TopOnly /\ ArgumentPushed /\ TypeOK /\ target' = target
      /\ Depth > 0 /\ Top.phase = "arguments" /\ Top.pushed < Len(Top.kinds)
  <2>1. FramesInv' /\ TopOnly /\ ArgumentPushed
    BY PushArgumentKeeps
  <2>2. PushArgument
    OBVIOUS
  <2> QED BY <2>1, <2>2 DEF PushArgument, FramesInv
<1>2. PICK t \in Targets, c \in CallRecords :
        t = target /\ c = Top /\ c = calls[Depth] /\ Depth \in 1..Depth
  BY <1>1, Calls, WIs
<1>3. ArgumentsOK(c) /\ c.phase = "arguments" /\ c.pushed < Len(c.kinds)
  BY <1>1, <1>2 DEF ArgumentsInv
<1>4. PICK n \in Nat, q \in Nat : n = Len(c.kinds) /\ q = c.pushed /\ q < n
  BY <1>3, FieldsAre
<1>5. PICK d : d = [c EXCEPT !.pushed = q + 1] /\ d = Top'
  BY <1>1, <1>2, <1>4 DEF ArgumentPushed
<1>6. /\ d \in CallRecords /\ d.f = c.f /\ d.kinds = c.kinds /\ d.n = c.n
      /\ d.phase = c.phase /\ d.sp = c.sp /\ d.started = c.started /\ d.taken = c.taken
      /\ d.pushed = q + 1 /\ d.operands = c.operands
  BY <1>5, Repushed
<1>7. PICK i : i = IF t = "rv32" THEN q + 1 ELSE n - q
  OBVIOUS
<1>8. i \in 1..Len(c.kinds) /\ i = IF t = "rv32" THEN c.pushed + 1 ELSE Len(c.kinds) - c.pushed
  BY <1>4, <1>7
<1>9. PICK sp, u, mem, new :
        /\ sp \in Int /\ u \in {4, 8, 16}
        /\ sp = m.sp /\ u = SlotSize(t) /\ u = Slot /\ mem = m.mem /\ new = m'.mem
  <2>1. m.sp \in Int
    BY <1>1 DEF TypeOK
  <2>2. Slot \in {4, 8, 16} /\ Slot = SlotSize(t)
    BY <1>1, <1>2, WIs DEF Slot, SlotSize, W
  <2> QED BY <2>1, <2>2
<1>10. /\ \A a \in Int : a >= sp => Held(new, a) = Held(mem, a)
       /\ \A p \in 1..Len(Pushes(c, i)) : Held(new, sp - u * p) = Pushes(c, i)[p]
  <2>1. i = IF target = "rv32" THEN Top.pushed + 1 ELSE Len(Top.kinds) - Top.pushed
    BY <1>2, <1>8
  <2> QED BY <1>1, <1>2, <1>9, <2>1 DEF ArgumentPushed
<1>11. sp = c.sp - Room(t, c) - SlotSize(t) * PushedCount(t, c)
       /\ c.pushed <= Len(c.kinds)
  <2>1. PushedWords(c) = PushedCount(t, c)
    BY <1>2 DEF PushedWords, PushedCount
  <2> QED BY <1>1, <1>2, <1>9, <2>1, PushingBelow
<1>12. PushedIn(t, new, c)
  <2>1. PushedIn(t, mem, c)
    BY <1>2, <1>3, <1>9 DEF ArgumentsOK
  <2>2. sp <= c.sp - Room(t, c) - SlotSize(t) * PushedCount(t, c)
    BY <1>11
  <2> QED BY <1>10, <1>11, <2>1, <2>2, PushedKept
<1>13. ASSUME NEW j \in 1..Len(c.kinds), IsPushed(t, d, j), NEW w \in 1..arg_words(t, c.kinds[j])
       PROVE  Held(new, PushedSlot(t, c, Rank(t, c.kinds, j, w))) = Argument(c.n, j, w)
  <2>1. CASE IsPushed(t, c, j)
    BY <1>12, <2>1 DEF PushedIn
  <2>2. CASE ~IsPushed(t, c, j)
    <3>1. j = i
      <4>1. j \in Int
        OBVIOUS
      <4>2. CASE t = "rv32"
        <5>1. j <= q + 1 /\ ~(j <= q)
          BY <1>4, <1>6, <1>13, <2>2, <4>2 DEF IsPushed
        <5> QED BY <1>7, <4>1, <4>2, <5>1
      <4>3. CASE t # "rv32"
        <5>1. j > n - (q + 1) /\ ~(j > n - q)
          BY <1>4, <1>6, <1>13, <2>2, <4>3 DEF IsPushed
        <5> QED BY <1>7, <4>1, <4>3, <5>1
      <4> QED BY <4>2, <4>3
    <3>2. PICK p : p = IF t = "rv32"
                       THEN Pad(t, c.kinds[i], LastWord(t, c.kinds)[i - 1]) + w
                       ELSE arg_words(t, c.kinds[i]) + 1 - w
      OBVIOUS
    <3>3. p \in 1..Len(Pushes(c, i)) /\ Pushes(c, i)[p] = Argument(c.n, i, w)
      <4>1. w \in 1..arg_words(target, c.kinds[i])
        BY <1>2, <3>1
      <4>2. p = IF target = "rv32"
                THEN Pad(target, c.kinds[i], LastWord(target, c.kinds)[i - 1]) + w
                ELSE arg_words(target, c.kinds[i]) + 1 - w
        BY <1>2, <3>2
      <4> QED BY <1>1, <1>8, <4>1, <4>2, PushesHold
    <3>4. PushedSlot(t, c, Rank(t, c.kinds, i, w))
            = c.sp - Room(t, c) - SlotSize(t) * PushedCount(t, c) - SlotSize(t) * p
      <4>1. w \in 1..arg_words(t, c.kinds[i])
        BY <3>1
      <4> QED BY <1>3, <1>8, <3>2, <4>1, NextSlots
    <3>5. PushedSlot(t, c, Rank(t, c.kinds, i, w)) = sp - u * p
      BY <1>9, <1>11, <3>4
    <3>6. Held(new, sp - u * p) = Argument(c.n, i, w)
      BY <1>10, <3>3
    <3> QED BY <3>1, <3>5, <3>6
  <2> QED BY <2>1, <2>2
<1>14. PushedIn(t, new, d)
  <2>1. \A r : PushedSlot(t, d, r) = PushedSlot(t, c, r)
    BY <1>6 DEF PushedSlot, Room
  <2> QED BY <1>6, <1>13, <2>1 DEF PushedIn
<1>15. Matching(t, d)
  <2>1. Matching(t, c)
    BY <1>2, <1>3 DEF ArgumentsOK
  <2> QED BY <1>3, <1>6, <2>1 DEF Matching
<1>16. ArgumentsOK(d)'
  <2>1. d.phase = "arguments"
    BY <1>3, <1>6
  <2> QED BY <1>1, <1>2, <1>9, <1>14, <1>15, <2>1 DEF ArgumentsOK
<1> QED BY <1>1, <1>5, <1>6, <1>16, TopArguments

\* When all the arguments are pushed, a word is in its slot.
LEMMA SlotOfWord ==
  ASSUME TypeOK, NEW t, t = target, NEW c \in CallRecords, NEW r \in Nat,
         m.sp = c.sp - Room(t, c) - Slot * total_words(t, c.kinds)
  PROVE  PushedWord(c, r) = Held(m.mem, PushedSlot(t, c, r))
<1>1. t \in Targets /\ c.kinds \in Seq(Kinds) /\ c.sp \in Int
  BY WIs, FieldsAre
<1>2. PICK u \in {4, 8, 16}, total \in Nat, pad \in Nat, top \in Int, sp \in Int :
        /\ u = Slot /\ total = total_words(t, c.kinds) /\ pad = Room(t, c)
        /\ top = c.sp /\ sp = m.sp /\ sp = top - pad - u * total
  <2>1. Slot \in {4, 8, 16} /\ m.sp \in Int
    BY WIs DEF TypeOK
  <2>2. total_words(t, c.kinds) \in Nat /\ Room(t, c) \in Nat
    BY <1>1, CallSize, RoomIs
  <2> QED BY <1>1, <2>1, <2>2
<1>3. u = SlotSize(t)
  BY <1>1, <1>2 DEF Slot, SlotSize, W
<1>4. CASE t = "rv32"
  <2>1. u = 16
    BY <1>3, <1>4 DEF SlotSize
  <2>2. sp + 16 * (total - 1 - r) = top - pad - 16 * (r + 1)
    BY <1>2, <2>1
  <2>3. PushedSlot(t, c, r) = top - pad - 16 * (r + 1)
    BY <1>2, <1>3, <1>4, <2>1 DEF PushedSlot
  <2>4. PushedWord(c, r) = Held(m.mem, sp + 16 * (total - 1 - r))
    BY <1>2, <1>4, <2>1 DEF PushedWord, At, Held
  <2> QED BY <2>2, <2>3, <2>4
<1>5. CASE t # "rv32"
  <2>1. sp + u * r = top - pad - u * (total - r)
    <3>1. CASE u = 4
      BY <1>2, <3>1
    <3>2. CASE u = 8
      BY <1>2, <3>2
    <3>3. CASE u = 16
      BY <1>2, <3>3
    <3> QED BY <3>1, <3>2, <3>3
  <2>2. PushedSlot(t, c, r) = top - pad - u * (total - r)
    BY <1>2, <1>3, <1>5 DEF PushedSlot
  <2>3. PushedWord(c, r) = Held(m.mem, sp + u * r)
    BY <1>2, <1>5 DEF PushedWord, At, Held
  <2> QED BY <2>1, <2>2, <2>3
<1> QED BY <1>4, <1>5

\* The registers and the top of the stack hold the words in their order.
LEMMA LoadRegistersPasses ==
  ASSUME FramesInv, ArgumentsInv, LoadRegisters
  PROVE  ArgumentsInv'
<1>1. /\ TopOnly /\ RegistersLoaded /\ TypeOK /\ target' = target
      /\ Depth > 0 /\ Top.phase = "arguments" /\ Top.pushed = Len(Top.kinds)
  <2>1. FramesInv' /\ TopOnly /\ RegistersLoaded
    BY LoadRegistersKeeps
  <2>2. LoadRegisters
    OBVIOUS
  <2> QED BY <2>1, <2>2 DEF LoadRegisters, FramesInv
<1>2. PICK t \in Targets, c \in CallRecords :
        t = target /\ c = Top /\ c = calls[Depth] /\ Depth \in 1..Depth
  BY <1>1, Calls, WIs
<1>3. ArgumentsOK(c) /\ c.phase = "arguments" /\ c.pushed = Len(c.kinds)
  BY <1>1, <1>2 DEF ArgumentsInv
<1>4. PICK d : d = [c EXCEPT !.phase = "call"] /\ d = Top'
  BY <1>1, <1>2 DEF RegistersLoaded
<1>5. /\ d \in CallRecords /\ d.f = c.f /\ d.kinds = c.kinds /\ d.n = c.n
      /\ d.phase = "call" /\ d.sp = c.sp /\ d.started = c.started /\ d.taken = c.taken
      /\ d.operands = c.operands
  BY <1>4, Rephased DEF Phases
<1>6. m.sp = c.sp - Room(t, c) - Slot * total_words(t, c.kinds)
  <2>1. PushedWords(c) = total_words(t, c.kinds)
    BY <1>1, <1>2, <1>3, AllPushed
  <2> QED BY <1>1, <1>2, <2>1, PushingBelow
<1>7. ASSUME NEW i \in 1..Len(c.kinds), NEW w \in 1..arg_words(t, c.kinds[i])
      PROVE  PushedWord(c, Rank(t, c.kinds, i, w)) = Argument(c.n, i, w)
  <2>1. IsPushed(t, c, i)
    <3>1. c.pushed \in Nat /\ i \in Nat /\ i >= 1 /\ i <= c.pushed
      BY <1>3, FieldsAre
    <3> QED BY <1>3, <3>1 DEF IsPushed
  <2>2. PICK r \in Nat : r = Rank(t, c.kinds, i, w)
    BY FieldsAre, RankIs
  <2>3. Held(m.mem, PushedSlot(t, c, r)) = Argument(c.n, i, w)
    BY <1>2, <1>3, <2>1, <2>2 DEF ArgumentsOK, PushedIn
  <2>4. PushedWord(c, r) = Held(m.mem, PushedSlot(t, c, r))
    BY <1>1, <1>2, <1>6, SlotOfWord
  <2> QED BY <2>2, <2>3, <2>4
<1>8. PICK u \in {4, 8}, regs \in 0..8, stacked \in Nat, total \in Nat, ar \in {0, 6, 8} :
        /\ u = W /\ u = WordSize(t) /\ regs = reg_words_count(t, c.kinds)
        /\ stacked = stack_words_count(t, c.kinds) /\ total = total_words(t, c.kinds)
        /\ ar = ArgRegisters(t) /\ total = regs + stacked
        /\ total > ar => regs = ar
        /\ total <= ar => regs = total
  <2>1. c.kinds \in Seq(Kinds)
    BY FieldsAre
  <2>2. W \in {4, 8} /\ W = WordSize(t)
    BY <1>1, <1>2, WIs
  <2>3. ArgRegisters(t) \in {0, 6, 8}
    BY DEF ArgRegisters, Targets
  <2>4. PICK regs \in 0..8, stacked \in Nat, total \in Nat :
          /\ regs = reg_words_count(t, c.kinds) /\ stacked = stack_words_count(t, c.kinds)
          /\ total = total_words(t, c.kinds) /\ total = regs + stacked
    BY <2>1, CallSize
  <2>5. PICK ar \in {0, 6, 8} : ar = ArgRegisters(t)
    BY <2>3
  <2>6. regs = IF total > ar THEN ar ELSE total
    BY <2>4, <2>5 DEF reg_words_count
  <2>7. (total > ar => regs = ar) /\ (total <= ar => regs = total)
    BY <2>6
  <2> QED BY <2>2, <2>4, <2>5, <2>7
<1>9. PICK reg, new, start : reg = m'.reg /\ new = m'.mem /\ start = c.sp - Dropped(c)
  OBVIOUS
<1>10. /\ \A r \in 0..regs - 1 : reg[r] = PushedWord(c, r)
       /\ \A j \in 0..stacked - 1 : Held(new, start + u * j) = PushedWord(c, regs + j)
  BY <1>1, <1>2, <1>8, <1>9 DEF RegistersLoaded
<1>11. ASSUME NEW i \in 1..Len(c.kinds), NEW w \in 1..arg_words(t, c.kinds[i])
       PROVE  Passed(t, reg, new, start, Rank(t, c.kinds, i, w)) = Argument(c.n, i, w)
  <2>1. PICK r \in Nat : r = Rank(t, c.kinds, i, w) /\ r < total
    <3>1. c.kinds \in Seq(Kinds)
      BY FieldsAre
    <3>2. Rank(t, c.kinds, i, w) \in Nat /\ Rank(t, c.kinds, i, w) < total_words(t, c.kinds)
      BY <3>1, RankIs
    <3> QED BY <1>8, <3>2
  <2>2. Passed(t, reg, new, start, r) = PushedWord(c, r)
    <3>1. CASE r < ar
      <4>1. r \in 0..regs - 1
        BY <1>8, <2>1, <3>1
      <4>2. Passed(t, reg, new, start, r) = reg[r]
        BY <1>8, <3>1 DEF Passed
      <4> QED BY <1>10, <4>1, <4>2
    <3>2. CASE ~(r < ar)
      <4>1. regs = ar /\ r - ar \in 0..stacked - 1 /\ regs + (r - ar) = r
        BY <1>8, <2>1, <3>2
      <4>2. Passed(t, reg, new, start, r) = Held(new, start + u * (r - ar))
        BY <1>8, <3>2 DEF Passed
      <4>3. Held(new, start + u * (r - ar)) = PushedWord(c, regs + (r - ar))
        BY <1>10, <4>1
      <4> QED BY <4>1, <4>2, <4>3
    <3> QED BY <3>1, <3>2
  <2> QED BY <1>7, <2>1, <2>2
<1>12. PassedIn(t, reg, new, start, d)
  BY <1>5, <1>11 DEF PassedIn
<1>13. Matching(t, d)
  <2>1. Matching(t, c)
    BY <1>2, <1>3 DEF ArgumentsOK
  <2> QED BY <1>3, <1>5, <2>1 DEF Matching
<1>14. ArgumentsOK(d)'
  <2>1. d.sp - Dropped(d)' = start
    <3>1. Dropped(d)' = Dropped(c)
      BY <1>1, <1>5, RoomStays
    <3> QED BY <1>5, <1>9, <3>1
  <2> QED BY <1>1, <1>2, <1>5, <1>9, <1>12, <1>13, <2>1 DEF ArgumentsOK
<1> QED BY <1>1, <1>4, <1>5, <1>14, TopArguments

\* The call instruction leaves them there.
LEMMA JumpPasses ==
  ASSUME FramesInv, ArgumentsInv, Jump
  PROVE  ArgumentsInv'
<1>1. /\ TopOnly /\ Jumped /\ TypeOK /\ target' = target /\ Depth > 0 /\ Top.phase = "call"
  <2>1. FramesInv' /\ TopOnly /\ Jumped
    BY JumpKeeps
  <2>2. Jump
    OBVIOUS
  <2> QED BY <2>1, <2>2 DEF Jump, FramesInv
<1>2. PICK t \in Targets, c \in CallRecords :
        t = target /\ c = Top /\ c = calls[Depth] /\ Depth \in 1..Depth
  BY <1>1, Calls, WIs
<1>3. ArgumentsOK(c) /\ c.phase = "call"
  BY <1>1, <1>2 DEF ArgumentsInv
<1>4. PICK d : d = [c EXCEPT !.phase = "entry"] /\ d = Top'
  BY <1>1, <1>2 DEF Jumped
<1>5. /\ d \in CallRecords /\ d.f = c.f /\ d.kinds = c.kinds /\ d.n = c.n
      /\ d.phase = "entry" /\ d.sp = c.sp /\ d.started = c.started /\ d.taken = c.taken
      /\ d.operands = c.operands
  BY <1>4, Rephased DEF Phases
<1>6. PICK start \in Int : start = c.sp - Dropped(c)
  BY <1>1, DroppedIs, FieldsAre
<1>7. PICK reg, mem, new : reg = m.reg /\ reg = m'.reg /\ mem = m.mem /\ new = m'.mem
  BY <1>1 DEF Jumped
<1>8. \A a \in Int : a >= start => Held(new, a) = Held(mem, a)
  BY <1>1, <1>2, <1>6, <1>7 DEF Jumped
<1>9. ASSUME NEW i \in 1..Len(c.kinds), NEW w \in 1..arg_words(t, c.kinds[i])
      PROVE  Passed(t, reg, new, start, Rank(t, c.kinds, i, w)) = Argument(c.n, i, w)
  <2>1. PICK r \in Nat : r = Rank(t, c.kinds, i, w)
    BY FieldsAre, RankIs
  <2>2. Passed(t, reg, mem, start, r) = Argument(c.n, i, w)
    BY <1>2, <1>3, <1>6, <1>7, <2>1 DEF ArgumentsOK, PassedIn
  <2>3. Passed(t, reg, new, start, r) = Passed(t, reg, mem, start, r)
    <3>1. PICK u \in {4, 8}, ar \in {0, 6, 8} : u = WordSize(t) /\ ar = ArgRegisters(t)
      BY DEF ArgRegisters, Targets, WordSize
    <3>2. CASE r < ar
      BY <3>1, <3>2 DEF Passed
    <3>3. CASE ~(r < ar)
      <4>1. start + u * (r - ar) \in Int /\ start + u * (r - ar) >= start
        BY <3>3
      <4> QED BY <1>8, <3>1, <3>3, <4>1 DEF Passed
    <3> QED BY <3>2, <3>3
  <2> QED BY <2>1, <2>2, <2>3
<1>10. PassedIn(t, reg, new, start, d)
  BY <1>5, <1>9 DEF PassedIn
<1>11. Matching(t, d)
  <2>1. Matching(t, c)
    BY <1>2, <1>3 DEF ArgumentsOK
  <2> QED BY <1>3, <1>5, <2>1 DEF Matching
<1>12. ArgumentsOK(d)'
  <2>1. d.sp - Dropped(d)' = start
    <3>1. Dropped(d)' = Dropped(c)
      BY <1>1, <1>5, RoomStays
    <3> QED BY <1>5, <1>6, <3>1
  <2> QED BY <1>1, <1>2, <1>5, <1>7, <1>10, <1>11, <2>1 DEF ArgumentsOK
<1> QED BY <1>1, <1>4, <1>5, <1>12, TopArguments

\* What a prologue with its frame at fr does to the words at and above start,
\* and to those it moves.
CarriedIn(t, f, reg, mem, new, start, fr) ==
  /\ fr = IF t = "rv32" THEN start ELSE start - 2 * WordSize(t)
  /\ \A a \in Int : a >= start => Held(new, a) = Held(mem, a)
  /\ \A v \in PrologueMoves :
       Among(v, Moves(t, f)) /\ (v.from # "reg" => fr + v.n >= start) =>
         Held(new, fr + v.to) = IF v.from = "reg" THEN reg[v.n] ELSE Held(mem, fr + v.n)

\* A word that stays where it was passed, ...
LEMMA WordStays ==
  ASSUME NEW t \in Targets, NEW f, NEW reg, NEW mem, NEW new, NEW start \in Int, NEW fr,
         CarriedIn(t, f, reg, mem, new, start, fr),
         NEW r \in Nat, r >= ArgRegisters(t)
  PROVE  Held(new, start + WordSize(t) * (r - ArgRegisters(t))) = Passed(t, reg, mem, start, r)
<1>1. PICK u \in {4, 8}, ar \in {0, 6, 8} : u = WordSize(t) /\ ar = ArgRegisters(t) /\ r >= ar
  BY DEF ArgRegisters, Targets, WordSize
<1>2. start + u * (r - ar) \in Int /\ start + u * (r - ar) >= start
  BY <1>1
<1>3. Held(new, start + u * (r - ar)) = Held(mem, start + u * (r - ar))
  BY <1>2 DEF CarriedIn
<1>4. ~(r < ar)
  BY <1>1
<1> QED BY <1>1, <1>3, <1>4 DEF Passed

\* ... and one that the prologue moves.
LEMMA WordCarried ==
  ASSUME NEW t \in {"x86_64", "rv32"}, NEW f, NEW reg, NEW mem, NEW new, NEW start \in Int,
         NEW fr \in Int, CarriedIn(t, f, reg, mem, new, start, fr),
         NEW r \in Nat, NEW to \in Int, Among(Carried(t, r, to), Moves(t, f))
  PROVE  Held(new, fr + to) = Passed(t, reg, mem, start, r)
<1>1. PICK v \in PrologueMoves :
        /\ v = Carried(t, r, to) /\ v.to = to
        /\ v.from # "reg" => v.n >= 0 /\ r >= ArgRegisters(t)
        /\ v.from = "reg" => r < ArgRegisters(t) /\ v.n = r
        /\ v.from # "reg" =>
             v.n = (IF t = "x86_64" THEN 16 ELSE 0) + WordSize(t) * (r - ArgRegisters(t))
  BY CarriedIs
<1>2. Among(v, Moves(t, f))
  BY <1>1
<1>3. CASE v.from = "reg"
  <2>1. Held(new, fr + v.to) = reg[v.n]
    BY <1>2, <1>3 DEF CarriedIn
  <2> QED BY <1>1, <1>3, <2>1 DEF Passed
<1>4. CASE v.from # "reg"
  <2>1. PICK u \in {4, 8}, ar \in {6, 8}, x \in {0, 16} :
          /\ u = WordSize(t) /\ ar = ArgRegisters(t) /\ r >= ar
          /\ x = (IF t = "x86_64" THEN 16 ELSE 0) /\ fr = start - x
    BY <1>1, <1>4 DEF ArgRegisters, WordSize, CarriedIn
  <2>2. PICK past \in Nat : past = u * (r - ar)
    <3>1. r - ar \in Nat
      BY <2>1
    <3>2. u * (r - ar) \in Nat
      BY <3>1
    <3> QED BY <3>2
  <2>3. v.n = x + past
    BY <1>1, <1>4, <2>1, <2>2
  <2>4. fr + v.n = start + past /\ fr + v.n >= start
    BY <2>1, <2>2, <2>3
  <2>5. Held(new, fr + v.to) = Held(mem, fr + v.n)
    BY <1>2, <1>4, <2>4 DEF CarriedIn
  <2>6. ~(r < ar)
    BY <2>1
  <2>7. Passed(t, reg, mem, start, r) = Held(mem, start + past)
    BY <2>1, <2>2, <2>6 DEF Passed
  <2> QED BY <1>1, <2>4, <2>5, <2>7
<1> QED BY <1>3, <1>4

\* The word of an argument has the same rank among the parameters.
LEMMA RankOfPrefix ==
  ASSUME NEW t \in Targets, NEW kinds \in Seq(Kinds), NEW params \in Seq(Kinds),
         Len(params) <= Len(kinds), \A i \in 1..Len(params) : params[i] = kinds[i],
         NEW i \in 1..Len(params)
  PROVE  /\ i \in 1..Len(kinds)
         /\ \A w \in Int : Rank(t, params, i, w) = Rank(t, kinds, i, w)
         /\ Unsplit(t, kinds, i) <=> Unsplit(t, params, i)
<1>1. \A j \in 0..Len(params) : LastWord(t, params)[j] = LastWord(t, kinds)[j]
  BY LastOfPrefix
<1>2. i \in 1..Len(kinds) /\ i \in 0..Len(params)
  OBVIOUS
<1>3. \A w \in Int : Rank(t, params, i, w) = Rank(t, kinds, i, w)
  BY <1>1, <1>2 DEF Rank
<1>4. \A j \in 1..i : j \in 0..Len(params) /\ j - 1 \in 0..Len(params)
  OBVIOUS
<1>5. \A j \in 1..i : /\ LastWord(t, params)[j] = LastWord(t, kinds)[j]
                      /\ LastWord(t, params)[j - 1] = LastWord(t, kinds)[j - 1]
  BY <1>1, <1>4
<1>6. Unsplit(t, kinds, i) <=> Unsplit(t, params, i)
  BY <1>5 DEF Unsplit
<1> QED BY <1>2, <1>3, <1>6

\* A parameter that keeps its place above the frame is where its words are.
LEMMA PlaceAboveIs ==
  ASSUME NEW t \in Targets, NEW f \in Functions, NEW p, Places(p, t, f),
         NEW i \in 1..Len(f.params), ~Local(t, p[i - 1], f.params[i]), Unsplit(t, f.params, i),
         NEW w \in 1..arg_words(t, f.params[i]), NEW start \in Int
  PROVE  /\ Rank(t, f.params, i, w) >= ArgRegisters(t)
         /\ start - 2 * WordSize(t) + Parameters(t, f).places[i] + WordSize(t) * (w - 1)
              = start + WordSize(t) * (Rank(t, f.params, i, w) - ArgRegisters(t))
<1>1. PICK params \in Seq(Kinds) : params = f.params
  BY DEF Functions
<1>2. i \in 1..Len(params) /\ i \in 0..Len(params) /\ i - 1 \in 0..Len(params)
  BY <1>1
<1>3. PICK k \in Kinds : k = params[i]
  BY <1>2
<1>4. PICK x \in Nat, y \in Nat : x = LastWord(t, params)[i - 1] /\ y = LastWord(t, params)[i]
  BY <1>2, LastStep
<1>5. PICK words \in 1..4 : words = arg_words(t, k)
  BY WordsAre
<1>6. w \in 1..words
  BY <1>1, <1>3, <1>5
<1>7. t # "rv32"
  BY DEF Local
<1>8. y = x + words
  <2>1. Pad(t, k, x) = 0
    BY <1>7 DEF Pad
  <2> QED BY <1>2, <1>3, <1>4, <1>5, <2>1, LastStep
<1>9. PICK r \in Nat : r = Rank(t, f.params, i, w) /\ r = x + w - 1
  <2>1. Rank(t, f.params, i, w) = y - words + w - 1
    BY <1>1, <1>3, <1>4, <1>5 DEF Rank
  <2>2. y - words + w - 1 = x + w - 1 /\ x + w - 1 \in Nat
    BY <1>6, <1>8
  <2> QED BY <2>1, <2>2
<1>10. PICK above \in Nat, reg_idx \in Nat :
         above = p[i - 1].above /\ reg_idx = p[i - 1].reg_idx
  BY <1>1, <1>2 DEF Places, Placing
<1>11. Parameters(t, f).places[i] = above
  BY <1>10, PlacesStay DEF PlaceOf
<1>12. CASE t = "i386"
  <2>1. above = 8 + 4 * x
    BY <1>1, <1>2, <1>4, <1>10, <1>12, CountedI386
  <2>2. WordSize(t) = 4 /\ ArgRegisters(t) = 0
    BY <1>12 DEF WordSize, ArgRegisters
  <2>3. start - 2 * 4 + above + 4 * (w - 1) = start + 4 * (r - 0)
    BY <1>6, <1>9, <2>1
  <2> QED BY <1>9, <1>11, <2>2, <2>3
<1>13. CASE t = "x86_64"
  <2>1. Unsplit("x86_64", params, i - 1) /\ ~(x < 6 /\ 6 < y)
    <3>1. \A j \in 1..i : ~(LastWord("x86_64", params)[j - 1] < 6 /\ 6 < LastWord("x86_64", params)[j])
      BY <1>1, <1>13 DEF Unsplit
    <3>2. \A j \in 1..i - 1 : j \in 1..i
      OBVIOUS
    <3>3. i \in 1..i
      OBVIOUS
    <3> QED BY <1>4, <1>13, <3>1, <3>2, <3>3 DEF Unsplit
  <2>2. /\ reg_idx = (IF x <= 6 THEN x ELSE 6)
        /\ above = (IF x <= 6 THEN 16 ELSE 16 + 8 * (x - 6))
    BY <1>1, <1>2, <1>4, <1>10, <1>13, <2>1, CountedX86, SMTT(20)
  <2>3. ~(reg_idx + words <= 6)
    BY <1>1, <1>3, <1>5, <1>10, <1>13 DEF Local, Fits
  <2>4. x >= 6
    BY <1>8, <2>1, <2>2, <2>3
  <2>5. above = 16 + 8 * (x - 6)
    BY <2>2, <2>4
  <2>6. WordSize(t) = 8 /\ ArgRegisters(t) = 6
    BY <1>13 DEF WordSize, ArgRegisters
  <2>7. start - 2 * 8 + above + 8 * (w - 1) = start + 8 * (r - 6) /\ r >= 6
    BY <1>6, <1>9, <2>4, <2>5
  <2> QED BY <1>9, <1>11, <2>6, <2>7
<1> QED BY <1>7, <1>12, <1>13 DEF Targets

\* After the prologue the parameters are the arguments.
LEMMA ParametersFound ==
  ASSUME NEW t \in Targets, NEW c \in CallRecords, NEW d \in CallRecords,
         d.f = c.f, d.kinds = c.kinds, d.n = c.n, Matching(t, c), NoLongDouble(t, c.f),
         NEW reg, NEW mem, NEW new, NEW start \in Int, NEW fr \in Int, fr = d.frame,
         CarriedIn(t, c.f, reg, mem, new, start, fr), PassedIn(t, reg, mem, start, c)
  PROVE  ParametersIn(t, new, d)
<1>1. /\ c.f \in Functions /\ c.f.params \in Seq(Kinds) /\ c.kinds \in Seq(Kinds)
      /\ Len(c.f.params) <= Len(c.kinds)
      /\ \A i \in 1..Len(c.f.params) : c.f.params[i] = c.kinds[i]
  BY FieldsAre DEF Matching
<1>2. PICK p : Places(p, t, c.f)
  BY <1>1, ParametersAre
<1>3. ASSUME NEW i \in 1..Len(c.f.params), Unsplit(t, c.kinds, i),
             NEW w \in 1..arg_words(t, c.kinds[i])
      PROVE  Held(new, fr + Parameters(t, c.f).places[i] + WordSize(t) * (w - 1))
               = Argument(c.n, i, w)
  <2>1. /\ i \in 1..Len(c.kinds) /\ Unsplit(t, c.f.params, i) /\ c.f.params[i] = c.kinds[i]
        /\ Rank(t, c.f.params, i, w) = Rank(t, c.kinds, i, w)
    <3>1. w \in Int
      OBVIOUS
    <3> QED BY <1>1, <1>3, <3>1, RankOfPrefix
  <2>2. PICK r \in Nat : r = Rank(t, c.kinds, i, w) /\ r = Rank(t, c.f.params, i, w) /\ w \in Nat
    BY <1>1, <2>1, RankIs
  <2>3. Passed(t, reg, mem, start, r) = Argument(c.n, i, w)
    BY <2>1, <2>2 DEF PassedIn
  <2>4. PICK place \in Int, u \in {4, 8} :
          place = Parameters(t, c.f).places[i] /\ u = WordSize(t)
    BY <1>1, PlaceAbove DEF WordSize
  <2>5. CASE Local(t, p[i - 1], c.f.params[i])
    <3>1. t \in {"x86_64", "rv32"}
      BY <2>5 DEF Local
    <3>2. Delivered(Moves(t, c.f), t, c.f, p, i)
      BY <1>1, <1>2, MovesReach
    <3>3. w \in 1..arg_words(t, c.f.params[i])
      BY <2>1
    <3>3a. PICK past \in Int : past = u * (w - 1)
      <4>1. u * (w - 1) \in Int
        BY <2>2
      <4> QED BY <4>1
    <3>4. PICK to \in Int : to = place + past
      OBVIOUS
    <3>4a. to = place + u * (w - 1)
      BY <3>3a, <3>4, Zenon
    <3>5. Among(Carried(t, r, to), Moves(t, c.f))
      BY <2>1, <2>2, <2>4, <2>5, <3>2, <3>3, <3>4a DEF Delivered
    <3>6. Held(new, fr + to) = Passed(t, reg, mem, start, r)
      BY <3>1, <3>5, WordCarried
    <3>7. fr + to = fr + place + u * (w - 1)
      <4>1. fr + to = fr + place + past
        BY <3>4
      <4> QED BY <3>3a, <4>1
    <3> QED BY <2>3, <2>4, <3>6, <3>7
  <2>6. CASE ~Local(t, p[i - 1], c.f.params[i])
    <3>1. w \in 1..arg_words(t, c.f.params[i])
      BY <2>1
    <3>2. /\ r >= ArgRegisters(t)
          /\ start - 2 * u + place + u * (w - 1)
               = start + WordSize(t) * (r - ArgRegisters(t))
      BY <1>1, <1>2, <2>1, <2>2, <2>4, <2>6, <3>1, PlaceAboveIs, ZenonT(30)
    <3>3. fr = start - 2 * u
      BY <2>4, <2>6 DEF Local, CarriedIn
    <3>4. Held(new, start + WordSize(t) * (r - ArgRegisters(t))) = Passed(t, reg, mem, start, r)
      BY <3>2, WordStays
    <3> QED BY <2>3, <2>4, <3>2, <3>3, <3>4
  <2> QED BY <2>5, <2>6
<1> QED BY <1>3 DEF ParametersIn

\* And all the arguments are one array if others may follow the parameters.
LEMMA ArrayFound ==
  ASSUME NEW t \in Targets, NEW c \in CallRecords, NEW d \in CallRecords,
         d.f = c.f, d.kinds = c.kinds, d.n = c.n, NoLongDouble(t, c.f),
         NEW reg, NEW mem, NEW new, NEW start \in Int, NEW fr \in Int, fr = d.frame,
         CarriedIn(t, c.f, reg, mem, new, start, fr), PassedIn(t, reg, mem, start, c)
  PROVE  ArrayIn(t, new, d)
<1>1. c.f \in Functions /\ c.kinds \in Seq(Kinds)
  BY FieldsAre
<1>2. PICK p : Places(p, t, c.f)
  BY <1>1, ParametersAre
<1>3. ASSUME c.f.is_varargs, NEW i \in 1..Len(c.kinds), NEW w \in 1..arg_words(t, c.kinds[i]),
             t = "x86_64" => Rank(t, c.kinds, i, w) < 22
      PROVE  Held(new, ArrayAt(t, d) + WordSize(t) * Rank(t, c.kinds, i, w))
               = Argument(c.n, i, w)
  <2>1. PICK r \in Nat : r = Rank(t, c.kinds, i, w)
    BY <1>1, RankIs
  <2>2. Passed(t, reg, mem, start, r) = Argument(c.n, i, w)
    BY <2>1 DEF PassedIn
  <2>3. CASE t = "i386"
    <3>1. /\ ArgRegisters(t) = 0 /\ WordSize(t) = 4 /\ fr = start - 8
          /\ ArrayAt(t, d) = fr + 8
      BY <2>3 DEF ArgRegisters, WordSize, CarriedIn, ArrayAt
    <3>1a. r >= ArgRegisters(t)
      BY <3>1
    <3>2. Held(new, start + WordSize(t) * (r - ArgRegisters(t))) = Passed(t, reg, mem, start, r)
      BY <3>1a, WordStays
    <3>3. fr + 8 + 4 * r = start + 4 * (r - 0)
      BY <3>1
    <3> QED BY <2>1, <2>2, <3>1, <3>2, <3>3
  <2>4. CASE t = "rv32" /\ r >= 8
    <3>1. /\ ArgRegisters(t) = 8 /\ WordSize(t) = 4 /\ fr = start
          /\ ArrayAt(t, d) = fr - 32
      BY <2>4 DEF ArgRegisters, WordSize, CarriedIn, ArrayAt, SaveArea
    <3>2. Held(new, start + WordSize(t) * (r - ArgRegisters(t))) = Passed(t, reg, mem, start, r)
      BY <2>4, <3>1, WordStays
    <3>3. fr - 32 + 4 * r = start + 4 * (r - 8)
      BY <3>1
    <3> QED BY <2>1, <2>2, <3>1, <3>2, <3>3
  <2>5. CASE t = "x86_64" \/ (t = "rv32" /\ r < 8)
    <3>1. r \in 0..(IF t = "x86_64" THEN 21 ELSE 7) /\ t # "i386" /\ t \in {"x86_64", "rv32"}
      BY <1>3, <2>1, <2>5
    <3>2. PICK area \in Int, u \in {4, 8} : area = SaveArea(t) /\ u = WordSize(t)
      BY DEF SaveArea, WordSize
    <3>3. PICK to \in Int : to = area + u * r
      <4>1. u * r \in Int
        OBVIOUS
      <4> QED BY <4>1
    <3>4. Among(Carried(t, r, to), Moves(t, c.f))
      BY <1>1, <1>2, <1>3, <3>1, <3>2, <3>3, MovesReach
    <3>5. Held(new, fr + to) = Passed(t, reg, mem, start, r)
      BY <3>1, <3>4, WordCarried
    <3>6. ArrayAt(t, d) = fr + area
      BY <3>1, <3>2 DEF ArrayAt
    <3>7. fr + area + u * r = fr + to
      <4>1. PICK e \in Int : e = u * r
        OBVIOUS
      <4> QED BY <3>3, <4>1
    <3> QED BY <2>1, <2>2, <3>2, <3>5, <3>6, <3>7
  <2> QED BY <2>3, <2>4, <2>5 DEF Targets
<1> QED BY <1>3 DEF ArrayIn

\* The prologue leaves every word where the function will look for it.
LEMMA EnterPasses ==
  ASSUME FramesInv, ArgumentsInv, Enter
  PROVE  ArgumentsInv'
<1>1. /\ TopOnly /\ Entered /\ TypeOK /\ TypeOK' /\ target' = target
      /\ Depth > 0 /\ Top.phase = "entry"
  <2>1. FramesInv' /\ TopOnly /\ Entered
    BY EnterKeeps
  <2>2. Enter
    OBVIOUS
  <2> QED BY <2>1, <2>2 DEF Enter, FramesInv
<1>2. PICK t \in Targets, c \in CallRecords :
        t = target /\ c = Top /\ c = calls[Depth] /\ Depth \in 1..Depth
  BY <1>1, Calls, WIs
<1>3. ArgumentsOK(c) /\ c.phase = "entry" /\ NoLongDouble(t, c.f)
  BY <1>1, <1>2 DEF ArgumentsInv, FramesInv, NoLongDoubles
<1>4. PICK start \in Int : start = c.sp - Dropped(c)
  BY <1>1, DroppedIs, FieldsAre
<1>5. PICK reg, mem, new : reg = m.reg /\ mem = m.mem /\ new = m'.mem
  OBVIOUS
<1>6. PICK fr \in Int : fr = m'.fp
  BY <1>1 DEF TypeOK
<1>7. CarriedIn(t, c.f, reg, mem, new, start, fr)
  <2>1. fr = IF t = "rv32" THEN start ELSE start - 2 * WordSize(t)
    BY <1>1, <1>2, <1>4, <1>6 DEF Entered, W
  <2>2. \A a \in Int : a >= start => Held(new, a) = Held(mem, a)
    BY <1>1, <1>2, <1>4, <1>5 DEF Entered
  <2>3. \A v \in PrologueMoves :
          Among(v, Moves(t, c.f)) /\ (v.from # "reg" => fr + v.n >= start) =>
            Held(new, fr + v.to) = IF v.from = "reg" THEN reg[v.n] ELSE Held(mem, fr + v.n)
    BY <1>1, <1>2, <1>4, <1>5, <1>6 DEF Entered
  <2> QED BY <2>1, <2>2, <2>3 DEF CarriedIn
<1>8. PassedIn(t, reg, mem, start, c) /\ Matching(t, c)
  BY <1>2, <1>3, <1>4, <1>5 DEF ArgumentsOK
<1>9. PICK e, d : e = [c EXCEPT !.phase = "body"] /\ d = [e EXCEPT !.frame = fr] /\ d = Top'
  <2>1. Top' = [Top EXCEPT !.phase = "body", !.frame = m'.fp]
    BY <1>1 DEF Entered
  <2> QED BY <1>2, <1>6, <2>1
<1>10. /\ e \in CallRecords /\ e.f = c.f /\ e.kinds = c.kinds /\ e.n = c.n
       /\ e.phase = "body" /\ e.sp = c.sp /\ e.started = c.started /\ e.taken = c.taken
  BY <1>9, Rephased DEF Phases
<1>11. /\ d \in CallRecords /\ d.f = c.f /\ d.kinds = c.kinds /\ d.n = c.n
       /\ d.phase = "body" /\ d.frame = fr /\ d.started = c.started /\ d.taken = c.taken
  <2>1. /\ d \in CallRecords /\ d.f = e.f /\ d.kinds = e.kinds /\ d.n = e.n
        /\ d.phase = e.phase /\ d.frame = fr /\ d.started = e.started /\ d.taken = e.taken
    <3>1. e \in CallRecords /\ d = [e EXCEPT !.frame = fr]
      BY <1>9, <1>10
    <3> QED BY <3>1, Reframed
  <2> QED BY <1>10, <2>1
<1>12. ParametersIn(t, new, d) /\ ArrayIn(t, new, d)
  BY <1>3, <1>7, <1>8, <1>11, ParametersFound, ArrayFound
<1>13. ~d.started /\ d.taken = << >>
  BY <1>3, <1>8, <1>11 DEF Matching
<1>14. Matching(t, d)
  BY <1>8, <1>11, <1>13 DEF Matching
<1>15. ListIn(t, new, d) /\ TakenIn(t, d)
  BY <1>13 DEF ListIn, TakenIn
<1>16. ArgumentsOK(d)'
  BY <1>1, <1>2, <1>5, <1>11, <1>12, <1>14, <1>15 DEF ArgumentsOK
<1> QED BY <1>1, <1>9, <1>11, <1>16, TopArguments

\* va_start and the array agree on where the first of the other arguments is.
LEMMA ListBegins ==
  ASSUME NEW t \in Targets, NEW c \in CallRecords, Matching(t, c), Counts(t, c)
  PROVE  c.frame + va_offset(t, c.f)
           = ArrayAt(t, c) + WordSize(t) * LastWord(t, c.kinds)[Len(c.f.params)]
<1>1. /\ c.f.params \in Seq(Kinds) /\ c.kinds \in Seq(Kinds) /\ c.frame \in Int
      /\ Len(c.f.params) <= Len(c.kinds)
      /\ \A i \in 1..Len(c.f.params) : c.f.params[i] = c.kinds[i]
  BY FieldsAre DEF Matching
<1>2. PICK n \in Nat : n = Len(c.f.params) /\ n \in 0..Len(c.f.params)
  BY <1>1
<1>3. LastWord(t, c.kinds)[n] = n
  <2>1. LastWord(t, c.f.params)[n] = LastWord(t, c.kinds)[n]
    BY <1>1, <1>2, LastOfPrefix
  <2> QED BY <1>2, <2>1 DEF Counts
<1>4. PICK frame \in Int, low \in Int, u \in {4, 8} :
        /\ frame = c.frame /\ low = (IF t = "i386" THEN 8 ELSE SaveArea(t)) /\ u = WordSize(t)
  BY <1>1 DEF SaveArea, WordSize
<1>5. PICK past \in Int : past = u * n
  <2>1. u * n \in Int
    OBVIOUS
  <2> QED BY <2>1
<1>6. va_offset(t, c.f) = low + past
  BY <1>2, <1>4, <1>5 DEF va_offset
<1>7. ArrayAt(t, c) = frame + low
  BY <1>4 DEF ArrayAt
<1>8. frame + (low + past) = (frame + low) + past
  OBVIOUS
<1> QED BY <1>2, <1>3, <1>4, <1>5, <1>6, <1>7, <1>8

\* The va_list is below the places of the parameters and the array.
LEMMA ListBelow ==
  ASSUME NEW t \in Targets, NEW c \in CallRecords
  PROVE  /\ ListAt(t, c) \in Int
         /\ \A a \in Int : a >= c.frame - FirstLocal(t, c.f) => a # ListAt(t, c)
<1>1. PICK frame \in Int, first \in Nat, u \in {4, 8} :
        frame = c.frame /\ first = FirstLocal(t, c.f) /\ u = WordSize(t)
  BY FieldsAre, FrameSize DEF WordSize
<1>2. ListAt(t, c) = frame - (first + u)
  BY <1>1 DEF ListAt
<1> QED BY <1>1, <1>2

\* A step of the body that changes the va_list, and of the call what va_start
\* and va_arg do, leaves the parameters and the array as they are.
LEMMA BodyStays ==
  ASSUME FramesInv, Depth > 0, NEW value, ListSet(value), NEW t, t = target,
         NEW c \in CallRecords, c = Top, NEW d \in CallRecords,
         d.f = c.f, d.kinds = c.kinds, d.n = c.n, d.frame = c.frame,
         Matching(t, c), ParametersIn(t, m.mem, c), ArrayIn(t, m.mem, c)
  PROVE  /\ ParametersIn(t, m'.mem, d) /\ ArrayIn(t, m'.mem, d)
         /\ Held(m'.mem, ListAt(t, d)) = value
<1>1. t \in Targets /\ W = WordSize(t)
  BY WIs DEF FramesInv
<1>2. ap(c) = ListAt(t, c) /\ ListAt(t, c) = ListAt(t, d)
  BY <1>1 DEF ap, ListAt
<1>3. Held(m'.mem, ListAt(t, d)) = value
  BY <1>2 DEF ListSet
<1>4. PICK mem, new : mem = m.mem /\ new = m'.mem
  OBVIOUS
<1>5. \A a \in Int : a >= c.frame - FirstLocal(t, c.f) => Held(new, a) = Held(mem, a)
  BY <1>1, <1>2, <1>4, ListBelow DEF ListSet
<1>6. ParametersIn(t, new, d) /\ ArrayIn(t, new, d)
  <2>1. ParametersIn(t, mem, c) /\ ArrayIn(t, mem, c) /\ Len(c.f.params) <= Len(c.kinds)
    BY <1>4 DEF Matching
  <2> QED BY <1>1, <1>5, <2>1, BodyKept
<1> QED BY <1>3, <1>4, <1>6

\* va_start leaves the va_list behind the parameters.
LEMMA VaStartPasses ==
  ASSUME FramesInv, ArgumentsInv, VaStart
  PROVE  ArgumentsInv'
<1>1. /\ TopOnly /\ Started /\ TypeOK /\ target' = target
      /\ Depth > 0 /\ Top.phase = "body" /\ Top.f.is_varargs
  <2>1. FramesInv' /\ TopOnly /\ Started
    BY VaStartKeeps
  <2>2. VaStart
    OBVIOUS
  <2> QED BY <2>1, <2>2 DEF VaStart, FramesInv
<1>2. PICK t \in Targets, c \in CallRecords :
        t = target /\ c = Top /\ c = calls[Depth] /\ Depth \in 1..Depth
  BY <1>1, Calls, WIs
<1>3. ArgumentsOK(c) /\ c.phase = "body" /\ m.fp = c.frame
  BY <1>1, <1>2, RunningBelow DEF ArgumentsInv
<1>4. /\ Matching(t, c) /\ ParametersIn(t, m.mem, c) /\ ArrayIn(t, m.mem, c)
      /\ TakenIn(t, c)
  BY <1>2, <1>3 DEF ArgumentsOK
<1>5. PICK d : d = [c EXCEPT !.started = TRUE] /\ d = Top'
  BY <1>1, <1>2 DEF Started
<1>6. /\ d \in CallRecords /\ d.f = c.f /\ d.kinds = c.kinds /\ d.n = c.n
      /\ d.phase = "body" /\ d.frame = c.frame /\ d.started = TRUE /\ d.taken = c.taken
  <2>1. PICK x \in BOOLEAN : x = TRUE
    OBVIOUS
  <2>2. d = [c EXCEPT !.started = x]
    BY <1>5, <2>1
  <2>3. /\ d \in CallRecords /\ d.f = c.f /\ d.kinds = c.kinds /\ d.n = c.n
        /\ d.phase = c.phase /\ d.frame = c.frame /\ d.started = x /\ d.taken = c.taken
    BY <2>2, Restarted
  <2> QED BY <1>3, <2>1, <2>3
<1>7. PICK value : value = Address(c.frame + va_offset(t, c.f)) /\ ListSet(value)
  BY <1>1, <1>2, <1>3 DEF Started
<1>8. /\ ParametersIn(t, m'.mem, d) /\ ArrayIn(t, m'.mem, d)
      /\ Held(m'.mem, ListAt(t, d)) = value
  BY <1>1, <1>2, <1>4, <1>6, <1>7, BodyStays
<1>9. Matching(t, d) /\ TakenIn(t, d)
  <2>1. Matching(t, d)
    <3>1. c.f.is_varargs
      BY <1>1, <1>2
    <3> QED BY <1>4, <1>6, <3>1 DEF Matching
  <2>2. TakenIn(t, d)
    BY <1>4, <1>6 DEF TakenIn, Counts
  <2> QED BY <2>1, <2>2
<1>10. ListIn(t, m'.mem, d)
  <2> SUFFICES ASSUME Counts(t, d), d.started
               PROVE  Held(m'.mem, ListAt(t, d))
                        = Address(ArrayAt(t, d)
                                    + WordSize(t) * LastWord(t, d.kinds)[Len(d.f.params) + Len(d.taken)])
    BY DEF ListIn
  <2>1. Counts(t, d)
    OBVIOUS
  <2>2. Counts(t, c)
    BY <1>6, <2>1 DEF Counts
  <2>3. c.frame + va_offset(t, c.f)
          = ArrayAt(t, c) + WordSize(t) * LastWord(t, c.kinds)[Len(c.f.params)]
    BY <1>4, <2>2, ListBegins
  <2>4. ArrayAt(t, d) = ArrayAt(t, c)
    BY <1>6 DEF ArrayAt
  <2>5. Len(c.f.params) + Len(d.taken) = Len(c.f.params)
    <3>1. c.started = FALSE
      BY <1>2, FieldsAre DEF VaStart
    <3>2. Len(d.taken) = 0
      BY <1>4, <1>6, <3>1 DEF Matching
    <3>3. Len(c.f.params) \in Nat
      BY FieldsAre
    <3> QED BY <3>2, <3>3
  <2> QED BY <1>6, <1>7, <1>8, <2>3, <2>4, <2>5
<1>11. ArgumentsOK(d)'
  <2>1. PICK new : new = m'.mem
    OBVIOUS
  <2>2. ParametersIn(t, new, d) /\ ArrayIn(t, new, d) /\ ListIn(t, new, d)
    BY <1>8, <1>10, <2>1
  <2> QED BY <1>1, <1>2, <1>6, <1>9, <2>1, <2>2 DEF ArgumentsOK
<1> QED BY <1>1, <1>5, <1>6, <1>11, TopArguments

\* va_arg reads as many words as the caller pushed.
LEMMA WordsAgree ==
  ASSUME NEW t \in Targets, NEW k \in Kinds, t = "x86_64" => k # "ldouble"
  PROVE  WordsIn(t, k) = arg_words(t, k)
BY DEF Targets, Kinds, WordSize, WordsIn, Multiple, Size, arg_words, is_multiword_arg, Aggregate

\* On RV32 it skips the word the caller skipped if the frame is aligned.
LEMMA SkippedAgree ==
  ASSUME NEW frame \in Int, frame % 8 = 0, NEW n \in Nat, NEW a \in Int, a = frame - 32 + 4 * n
  PROVE  Multiple(a, 8) = a + 4 * (n % 2)
<1>1. PICK q \in Int, h \in Nat, r \in {0, 1} : frame = 8 * q /\ n = 2 * h + r /\ r = n % 2
  <2>1. PICK q \in Int : frame = 8 * q
    OBVIOUS
  <2>2. PICK h \in Nat, r \in {0, 1} : n = 2 * h + r /\ r = n % 2
    OBVIOUS
  <2> QED BY <2>1, <2>2
<1>2. PICK p \in Int : p = q - 4 + h
  OBVIOUS
<1>3. a = 8 * p + 4 * r
  BY <1>1, <1>2
<1>4. CASE r = 0
  <2>1. (a + 8 - 1) \div 8 = p
    BY <1>3, <1>4
  <2>2. p * 8 = a + 4 * r
    BY <1>3, <1>4
  <2> QED BY <1>1, <2>1, <2>2 DEF Multiple
<1>5. CASE r = 1
  <2>1. (a + 8 - 1) \div 8 = p + 1
    BY <1>3, <1>5
  <2>2. (p + 1) * 8 = a + 4 * r
    BY <1>3, <1>5
  <2> QED BY <1>1, <2>1, <2>2 DEF Multiple
<1> QED BY <1>4, <1>5

\* The sizes of words add up.
LEMMA SizesAdd ==
  ASSUME NEW u \in {4, 8}, NEW n \in Nat, NEW pad \in Nat, NEW v \in Nat,
         NEW r \in Nat, r = n + pad + v - 1
  PROVE  u * r = u * n + u * pad + u * (v - 1)
<1>1. CASE u = 4
  BY <1>1
<1>2. CASE u = 8
  BY <1>2
<1> QED BY <1>1, <1>2

\* The va_list behind the first arguments leads to the words of the next one.
LEMMA NextTaken ==
  ASSUME NEW t \in Targets, NEW c \in CallRecords, Matching(t, c), Counts(t, c),
         c.f.is_varargs,
         NEW mem, ArrayIn(t, mem, c),
         NEW j \in 1..Len(c.kinds), NEW k, k = c.kinds[j],
         NEW a, a = ArrayAt(t, c) + WordSize(t) * LastWord(t, c.kinds)[j - 1],
         NEW start, start = IF t = "rv32" /\ needs_8byte_align(k) THEN Multiple(a, 8) ELSE a
  PROVE  /\ \A w \in 1..arg_words(t, k) :
              Held(mem, start + WordSize(t) * (w - 1)) = Argument(c.n, j, w)
         /\ start + WordSize(t) * arg_words(t, k)
              = ArrayAt(t, c) + WordSize(t) * LastWord(t, c.kinds)[j]
<1>1. c.kinds \in Seq(Kinds) /\ c.frame \in Int /\ k \in Kinds /\ j - 1 \in 0..Len(c.kinds)
      /\ j \in 0..Len(c.kinds)
  BY FieldsAre
<1>2. PICK n \in Nat, pad \in Nat, words \in Nat, u \in {4, 8} :
        /\ n = LastWord(t, c.kinds)[j - 1] /\ pad = Pad(t, k, n)
        /\ words = arg_words(t, k) /\ u = WordSize(t)
        /\ LastWord(t, c.kinds)[j] = n + pad + words
  <2>1. LastWord(t, c.kinds)[j - 1] \in Nat
    BY <1>1, LastStep
  <2>2. PICK n \in Nat : n = LastWord(t, c.kinds)[j - 1]
    BY <2>1
  <2>3. LastWord(t, c.kinds)[j] = n + Pad(t, k, n) + arg_words(t, k)
    BY <1>1, <2>2, LastStep
  <2>4. Pad(t, k, n) \in Nat /\ arg_words(t, k) \in Nat /\ WordSize(t) \in {4, 8}
    <3>1. /\ WordSize(t) \in {4, 8} /\ arg_words(t, k) \in 1..4
          /\ \A x \in Nat : Pad(t, k, x) \in {0, 1}
      BY <1>1, WordsAre
    <3>2. Pad(t, k, n) \in {0, 1}
      BY <3>1
    <3> QED BY <3>1, <3>2
  <2> QED BY <2>2, <2>3, <2>4
<1>3. PICK base \in Int : base = ArrayAt(t, c)
  BY ArrayAbove
<1>4. PICK past \in Int, skip \in Int, all \in Int :
        past = u * n /\ skip = u * pad /\ all = u * words
  <2>1. u * n \in Int /\ u * pad \in Int /\ u * words \in Int
    OBVIOUS
  <2> QED BY <2>1
<1>5. a = base + past /\ a \in Int
  <2>1. a = base + past
    BY <1>2, <1>3, <1>4
  <2> QED BY <2>1
<1>6. start = base + past + skip
  <2>1. CASE t = "rv32" /\ needs_8byte_align(k)
    <3>1. base = c.frame - 32 /\ u = 4 /\ pad = n % 2
      BY <1>2, <1>3, <2>1 DEF ArrayAt, SaveArea, WordSize, Pad
    <3>2. c.frame % 8 = 0
      BY <2>1 DEF Counts
    <3>3. a = c.frame - 32 + 4 * n
      BY <1>4, <1>5, <3>1
    <3>4. Multiple(a, 8) = a + 4 * (n % 2)
      BY <1>1, <1>5, <3>2, <3>3, SkippedAgree
    <3>5. start = a + skip
      BY <1>4, <2>1, <3>1, <3>4
    <3> QED BY <1>5, <3>5
  <2>2. CASE ~(t = "rv32" /\ needs_8byte_align(k))
    <3>1. pad = 0
      BY <1>2, <2>2 DEF Pad
    <3>2. skip = 0
      BY <1>4, <3>1
    <3> QED BY <1>5, <2>2, <3>2
  <2> QED BY <2>1, <2>2
<1>7. ASSUME NEW w \in 1..arg_words(t, k)
      PROVE  Held(mem, start + WordSize(t) * (w - 1)) = Argument(c.n, j, w)
  <2>1. w \in 1..arg_words(t, c.kinds[j]) /\ w \in Nat
    BY <1>1, WordsAre
  <2>2. PICK r \in Nat : /\ r = Rank(t, c.kinds, j, w) /\ r = n + pad + w - 1
                         /\ r < total_words(t, c.kinds)
    BY <1>1, <1>2, <2>1, RankIs
  <2>3. t = "x86_64" => r < 22
    <3>1. total_words(t, c.kinds) \in Nat
      BY <1>1, LastStep
    <3> QED BY <2>2, <3>1 DEF Counts
  <2>4. Held(mem, base + u * r) = Argument(c.n, j, w)
    BY <1>2, <1>3, <2>1, <2>2, <2>3 DEF ArrayIn
  <2>5. PICK rest \in Int : rest = u * (w - 1)
    <3>1. u * (w - 1) \in Int
      BY <2>1
    <3> QED BY <3>1
  <2>5a. PICK v \in Nat : v = w /\ r = n + pad + v - 1 /\ rest = u * (v - 1)
    BY <2>1, <2>2, <2>5
  <2>6. u * r = past + skip + rest
    <3>1. u * r = u * n + u * pad + u * (v - 1)
      BY <2>5a, SizesAdd
    <3> QED BY <1>4, <2>5a, <3>1
  <2>7. base + u * r = start + u * (w - 1)
    <3>1. base + (past + skip + rest) = (base + past + skip) + rest
      OBVIOUS
    <3> QED BY <1>6, <2>5, <2>6, <3>1
  <2> QED BY <1>2, <2>4, <2>7
<1>8. start + WordSize(t) * arg_words(t, k)
        = ArrayAt(t, c) + WordSize(t) * LastWord(t, c.kinds)[j]
  <2>1. u * (n + pad + words) = past + skip + all
    <3>1. CASE u = 4
      BY <1>4, <3>1
    <3>2. CASE u = 8
      BY <1>4, <3>2
    <3> QED BY <3>1, <3>2
  <2>2. (base + past + skip) + all = base + (past + skip + all)
    OBVIOUS
  <2> QED BY <1>2, <1>3, <1>4, <1>6, <2>1, <2>2, ZenonT(30)
<1> QED BY <1>7, <1>8

\* The rest of a sequence.
LEMMA RestIs ==
  ASSUME NEW S, NEW q \in Seq(S), NEW n \in 0..Len(q)
  PROVE  /\ Len(SubSeq(q, n + 1, Len(q))) = Len(q) - n
         /\ \A i \in 1..Len(q) - n : SubSeq(q, n + 1, Len(q))[i] = q[n + i]
<1>1. PICK a \in Int, b \in Int :
        a = n + 1 /\ b = Len(q) /\ a \in 1..Len(q) + 1 /\ b >= a - 1
  OBVIOUS
<1>2. Len(SubSeq(q, a, b)) = IF a <= b THEN b - a + 1 ELSE 0
  BY <1>1
<1>3. \A i \in 1..b - a + 1 : SubSeq(q, a, b)[i] = q[a + i - 1]
  BY <1>1
<1>4. \A i \in Int : a + i - 1 = n + i
  BY <1>1
<1> QED BY <1>1, <1>2, <1>3, <1>4

\* The call of which va_arg takes an argument, as the argument is one of its.
TakenFrom(t, c, d, j, k, start) ==
  /\ j = Len(c.f.params) + Len(c.taken) + 1 /\ k = c.kinds[j]
  /\ start = AlignedStart(k, At(ap(c))[2])
  /\ d = [c EXCEPT !.taken =
            Append(@, [w \in 1..WordsIn(t, k) |-> At(start + WordSize(t) * (w - 1))])]
  /\ ListSet(Address(start + WordSize(t) * WordsIn(t, k)))

\* The argument is the one behind those that were taken.
LEMMA TakenIs ==
  ASSUME TypeOK, Depth > 0, NEW t, t = target, NEW c \in CallRecords, c = Top,
         Len(c.f.params) <= Len(c.kinds), Len(c.taken) < Len(Extra(c)), Taken,
         NEW d, d = Top'
  PROVE  \E j \in 1..Len(c.kinds), k \in Kinds : \E start : TakenFrom(t, c, d, j, k, start)
<1>1. PICK q \in Seq(Kinds) : q = c.kinds
  BY FieldsAre
<1>1a. PICK n \in Nat : n = Len(c.f.params)
  BY FieldsAre
<1>1b. PICK x \in Nat : x = Len(c.taken)
  BY FieldsAre
<1>1c. PICK b \in Nat : b = Len(q) /\ n <= b
  BY <1>1, <1>1a
<1>2. Extra(c) = SubSeq(q, n + 1, Len(q))
  BY <1>1, <1>1a DEF Extra
<1>2a. n \in 0..Len(q)
  BY <1>1c
<1>3. x < b - n
  <2>1. Len(SubSeq(q, n + 1, Len(q))) = Len(q) - n
    BY <1>2a, RestIs
  <2> QED BY <1>1b, <1>1c, <1>2, <2>1
<1>4. PICK j \in 1..Len(q) : j = n + x + 1
  <2>1. n + x + 1 \in 1..b
    BY <1>3
  <2> QED BY <1>1c, <2>1
<1>5. PICK k \in Kinds : k = q[j] /\ k = Extra(c)[x + 1]
  <2>1. SubSeq(q, n + 1, Len(q))[x + 1] = q[n + (x + 1)]
    <3>1. x + 1 \in 1..b - n
      BY <1>3
    <3>2. \A i \in 1..Len(q) - n : SubSeq(q, n + 1, Len(q))[i] = q[n + i]
      BY <1>2a, RestIs
    <3> QED BY <1>1c, <3>1, <3>2
  <2>2. n + (x + 1) = j
    BY <1>4
  <2>3. q[j] \in Kinds
    BY <1>4
  <2> QED BY <1>2, <2>1, <2>2, <2>3
<1>6. PICK start : start = AlignedStart(k, At(ap(c))[2])
  OBVIOUS
<1>7. W = WordSize(t)
  BY WIs
<1>8. /\ d = [c EXCEPT !.taken =
                Append(@, [w \in 1..WordsIn(t, k) |-> At(start + WordSize(t) * (w - 1))])]
      /\ ListSet(Address(start + WordSize(t) * WordsIn(t, k)))
  <2> DEFINE kind == Extra(Top)[Len(Top.taken) + 1]
             first == AlignedStart(kind, At(ap(Top))[2])
  <2>1. /\ Top' = [Top EXCEPT !.taken =
                     Append(@, [w \in 1..WordsIn(target, kind) |-> At(first + W * (w - 1))])]
        /\ ListSet(Address(first + W * WordsIn(target, kind)))
    BY Zenon DEF Taken
  <2>2. kind = k /\ first = start
    BY <1>1b, <1>5, <1>6
  <2> HIDE DEF kind, first
  <2> QED BY <1>7, <2>1, <2>2
<1>9. TakenFrom(t, c, d, j, k, start)
  <2>1. j = Len(c.f.params) + Len(c.taken) + 1 /\ k = c.kinds[j]
    BY <1>1, <1>1a, <1>1b, <1>4, <1>5
  <2> QED BY <1>6, <1>8, <2>1 DEF TakenFrom
<1> QED BY <1>1, <1>4, <1>5, <1>9

\* The arguments taken are one more.
LEMMA TakenMore ==
  ASSUME NEW c \in CallRecords, NEW d \in CallRecords, NEW words,
         d = [c EXCEPT !.taken = Append(@, words)]
  PROVE  /\ d.f = c.f /\ d.kinds = c.kinds /\ d.n = c.n /\ d.phase = c.phase
         /\ d.frame = c.frame /\ d.started = c.started
         /\ Len(d.taken) = Len(c.taken) + 1
         /\ \A i \in 1..Len(c.taken) : d.taken[i] = c.taken[i]
         /\ d.taken[Len(c.taken) + 1] = words
<1>1. PICK taken : taken = Append(c.taken, words) /\ d = [c EXCEPT !.taken = taken]
  OBVIOUS
<1>2. d.taken = taken
  <2>1. c = [f |-> c.f, kinds |-> c.kinds, n |-> c.n, phase |-> c.phase,
             pushed |-> c.pushed, sp |-> c.sp, fp |-> c.fp, frame |-> c.frame,
             started |-> c.started, taken |-> c.taken, operands |-> c.operands,
             lost |-> c.lost, back |-> c.back]
    BY RecordIs
  <2> QED BY <1>1, <2>1
<1>3. taken \in Seq(Seq(Token))
  BY <1>2, FieldsAre
<1>4. /\ d.f = c.f /\ d.kinds = c.kinds /\ d.n = c.n /\ d.phase = c.phase
      /\ d.frame = c.frame /\ d.started = c.started
  BY <1>1, <1>3, Retaken
<1>5. c.taken \in Seq(Seq(Token))
  BY FieldsAre
<1>6. PICK q : q = c.taken /\ q \in Seq(Seq(Token))
  BY <1>5
<1>7. /\ Len(Append(q, words)) = Len(q) + 1
      /\ \A i \in 1..Len(q) : Append(q, words)[i] = q[i]
      /\ Append(q, words)[Len(q) + 1] = words
  BY <1>6
<1> QED BY <1>1, <1>2, <1>4, <1>6, <1>7

\* va_arg takes the words of the next argument, and leaves the va_list behind it.
LEMMA NextIsTaken ==
  ASSUME FramesInv, Depth > 0, NEW t \in Targets, t = target, NEW c \in CallRecords, c = Top,
         c.phase = "body", c.started, ArgumentsOK(c),
         NEW d \in CallRecords, NEW j \in 1..Len(c.kinds), NEW k \in Kinds, NEW start,
         TakenFrom(t, c, d, j, k, start), Counts(t, c)
  PROVE  /\ d.taken[Len(c.taken) + 1] = [w \in 1..arg_words(t, k) |-> Argument(c.n, j, w)]
         /\ ListSet(Address(ArrayAt(t, c) + WordSize(t) * LastWord(t, c.kinds)[j]))
<1>1. /\ Matching(t, c) /\ ArrayIn(t, m.mem, c) /\ ListIn(t, m.mem, c)
      /\ c.f.is_varargs /\ (t = "x86_64" => k # "ldouble")
  BY DEF ArgumentsOK, Matching, TakenFrom
<1>2. PICK a : /\ a = ArrayAt(t, c) + WordSize(t) * LastWord(t, c.kinds)[j - 1]
               /\ Held(m.mem, ListAt(t, c)) = Address(a)
  <2>1. Len(c.f.params) + Len(c.taken) = j - 1
    <3>1. Len(c.f.params) \in Nat /\ Len(c.taken) \in Nat
      BY FieldsAre
    <3> QED BY <3>1 DEF TakenFrom
  <2> QED BY <1>1, <2>1 DEF ListIn
<1>3. start = IF t = "rv32" /\ needs_8byte_align(k) THEN Multiple(a, 8) ELSE a
  <2>1. W = WordSize(t)
    BY WIs DEF FramesInv
  <2>2. At(ap(c)) = Address(a)
    BY <1>2, <2>1 DEF At, Held, ap, ListAt
  <2>3. At(ap(c))[2] = a
    BY <2>2 DEF Address
  <2> QED BY <2>3 DEF TakenFrom, AlignedStart
<1>5. PICK mem : mem = m.mem
  OBVIOUS
<1>6. ArrayIn(t, mem, c) /\ k = c.kinds[j]
  BY <1>1, <1>5 DEF TakenFrom
<1>7. /\ \A w \in 1..arg_words(t, k) :
           Held(mem, start + WordSize(t) * (w - 1)) = Argument(c.n, j, w)
      /\ start + WordSize(t) * arg_words(t, k)
           = ArrayAt(t, c) + WordSize(t) * LastWord(t, c.kinds)[j]
  BY <1>1, <1>2, <1>3, <1>6, NextTaken
<1>8. WordsIn(t, k) = arg_words(t, k)
  BY <1>1, WordsAgree
<1>9. PICK words : words = [w \in 1..WordsIn(t, k) |-> At(start + WordSize(t) * (w - 1))]
  OBVIOUS
<1>10. words = [w \in 1..arg_words(t, k) |-> Argument(c.n, j, w)]
  <2>1. \A x : At(x) = Held(mem, x)
    BY <1>5 DEF At, Held
  <2> QED BY <1>7, <1>8, <1>9, <2>1
<1>11. d.taken[Len(c.taken) + 1] = words
  <2>1. d = [c EXCEPT !.taken = Append(@, words)]
    BY <1>9 DEF TakenFrom
  <2> QED BY <2>1, TakenMore
<1> QED BY <1>7, <1>8, <1>10, <1>11 DEF TakenFrom

\* The argument behind those that were taken is one of the call.
LEMMA NextWithin ==
  ASSUME NEW n \in Nat, NEW x \in Nat, NEW b \in Nat, NEW j, j = n + x + 1, j \in 1..b
  PROVE  j = n + (x + 1) /\ n + (x + 1) <= b
OBVIOUS

\* So va_arg finds the arguments one after the other.
LEMMA VaArgPasses ==
  ASSUME FramesInv, ArgumentsInv, VaArg
  PROVE  ArgumentsInv'
<1>1. /\ FramesInv' /\ TopOnly /\ Taken /\ TypeOK /\ target' = target
      /\ Depth > 0 /\ Top.phase = "body" /\ Top.started /\ Len(Top.taken) < Len(Extra(Top))
  <2>1. FramesInv' /\ TopOnly /\ Taken
    BY VaArgKeeps
  <2>2. VaArg
    OBVIOUS
  <2> QED BY <2>1, <2>2 DEF VaArg, FramesInv
<1>2. PICK t \in Targets, c \in CallRecords :
        t = target /\ c = Top /\ c = calls[Depth] /\ Depth \in 1..Depth
  BY <1>1, Calls, WIs
<1>3. ArgumentsOK(c) /\ c.phase = "body" /\ c.started
  BY <1>1, <1>2 DEF ArgumentsInv
<1>4. /\ Matching(t, c) /\ ParametersIn(t, m.mem, c) /\ ArrayIn(t, m.mem, c)
      /\ TakenIn(t, c)
  BY <1>2, <1>3 DEF ArgumentsOK
<1>5. PICK d \in CallRecords : d = Top'
  <2>1. calls' \in Seq(CallRecords) /\ Len(calls') > 0
    BY <1>1 DEF FramesInv, TypeOK, TopOnly, Depth
  <2> QED BY <2>1 DEF Top, Depth
<1>6. PICK j \in 1..Len(c.kinds), k \in Kinds : \E start : TakenFrom(t, c, d, j, k, start)
  BY <1>1, <1>2, <1>4, <1>5, TakenIs DEF Matching
<1>7. PICK start : TakenFrom(t, c, d, j, k, start)
  BY <1>6
<1>8a. PICK x \in Nat : x = Len(c.taken)
  BY FieldsAre
<1>8b. PICK n \in Nat : n = Len(c.f.params)
  BY FieldsAre
<1>8c. PICK b \in Nat : b = Len(c.kinds)
  BY FieldsAre
<1>8. j = n + x + 1 /\ j \in 1..b /\ k = c.kinds[j]
  BY <1>7, <1>8a, <1>8b, <1>8c DEF TakenFrom
<1>9. /\ d.f = c.f /\ d.kinds = c.kinds /\ d.n = c.n /\ d.phase = "body"
      /\ d.frame = c.frame /\ d.started = TRUE
      /\ Len(d.taken) = x + 1 /\ (\A i \in 1..x : d.taken[i] = c.taken[i])
  <2>1. \E words : d = [c EXCEPT !.taken = Append(@, words)]
    BY <1>7 DEF TakenFrom
  <2>2. c.started = TRUE
    BY <1>3, FieldsAre
  <2> QED BY <1>3, <1>8a, <2>1, <2>2, TakenMore
<1>9a. Len(d.f.params) = n /\ Len(d.taken) = x + 1 /\ Len(d.kinds) = b
  BY <1>8b, <1>8c, <1>9
<1>9b. j = n + (x + 1) /\ n + (x + 1) <= b
  BY <1>8, NextWithin
<1>10. PICK value : ListSet(value)
  BY <1>7 DEF TakenFrom
<1>11. ParametersIn(t, m'.mem, d) /\ ArrayIn(t, m'.mem, d)
  BY <1>1, <1>2, <1>4, <1>9, <1>10, BodyStays
<1>12. Matching(t, d)
  <2>1. Len(d.f.params) = n /\ Len(d.taken) = x + 1 /\ Len(d.kinds) = b /\ n + (x + 1) <= b
    BY <1>9a, <1>9b
  <2>2. c.started /\ c.f.is_varargs
    BY <1>3, <1>4 DEF Matching
  <2> QED BY <1>4, <1>9, <2>1, <2>2 DEF Matching
<1>13. Counts(t, c) => ListIn(t, m'.mem, d) /\ TakenIn(t, d)
  <2> SUFFICES ASSUME Counts(t, c) PROVE ListIn(t, m'.mem, d) /\ TakenIn(t, d)
    OBVIOUS
  <2>1. /\ d.taken[x + 1] = [w \in 1..arg_words(t, k) |-> Argument(c.n, j, w)]
        /\ ListSet(Address(ArrayAt(t, c) + WordSize(t) * LastWord(t, c.kinds)[j]))
    <3>1. /\ d.taken[Len(c.taken) + 1] = [w \in 1..arg_words(t, k) |-> Argument(c.n, j, w)]
          /\ ListSet(Address(ArrayAt(t, c) + WordSize(t) * LastWord(t, c.kinds)[j]))
      BY <1>1, <1>2, <1>3, <1>7, NextIsTaken
    <3> QED BY <1>8a, <3>1
  <2>2. Len(d.f.params) + Len(d.taken) = j
    <3>1. Len(d.f.params) = n /\ Len(d.taken) = x + 1 /\ j = n + (x + 1)
      BY <1>9a, <1>9b
    <3> QED BY <3>1
  <2>3. Held(m'.mem, ListAt(t, d))
          = Address(ArrayAt(t, c) + WordSize(t) * LastWord(t, c.kinds)[j])
    BY <1>1, <1>2, <1>4, <1>9, <2>1, BodyStays
  <2>4. ListIn(t, m'.mem, d)
    <3>1. ArrayAt(t, d) = ArrayAt(t, c)
      BY <1>9 DEF ArrayAt
    <3>2. Held(m'.mem, ListAt(t, d))
            = Address(ArrayAt(t, d)
                        + WordSize(t) * LastWord(t, d.kinds)[Len(d.f.params) + Len(d.taken)])
      BY <1>9, <2>2, <2>3, <3>1
    <3> QED BY <3>2 DEF ListIn
  <2>5. TakenIn(t, d)
    <3>1. ASSUME NEW i \in 1..Len(d.taken)
          PROVE  d.taken[i] = [w \in 1..arg_words(t, d.kinds[Len(d.f.params) + i]) |->
                                 Argument(d.n, Len(d.f.params) + i, w)]
      <4>1. CASE i \in 1..x
        BY <1>4, <1>8a, <1>9, <4>1 DEF TakenIn
      <4>2. CASE i = x + 1
        <5>1. Len(d.f.params) + i = j
          <6>1. Len(d.f.params) = n /\ i = x + 1 /\ j = n + (x + 1)
            BY <1>9a, <1>9b, <4>2
          <6> QED BY <6>1
        <5> QED BY <1>8, <1>9, <2>1, <4>2, <5>1
      <4> QED BY <1>9, <4>1, <4>2
    <3> QED BY <3>1 DEF TakenIn
  <2> QED BY <2>4, <2>5
<1>14. ListIn(t, m'.mem, d) /\ TakenIn(t, d)
  <2>1. ~Counts(t, c) => ~Counts(t, d)
    BY <1>9 DEF Counts
  <2> QED BY <1>13, <2>1 DEF ListIn, TakenIn
<1>15. ArgumentsOK(d)'
  <2>1. PICK new : new = m'.mem
    OBVIOUS
  <2>2. ParametersIn(t, new, d) /\ ArrayIn(t, new, d) /\ ListIn(t, new, d)
    BY <1>11, <1>14, <2>1
  <2> QED BY <1>1, <1>2, <1>9, <1>12, <1>14, <2>1, <2>2 DEF ArgumentsOK
<1> QED BY <1>1, <1>5, <1>15, TopArguments

\* The initializer of a bit-field writes below all of them.
LEMMA InitializeFieldPasses ==
  ASSUME FramesInv, ArgumentsInv, InitializeField
  PROVE  ArgumentsInv'
<1>1. /\ TopOnly /\ FieldInitialized /\ TypeOK /\ target' = target
      /\ Depth > 0 /\ Top.phase = "body"
  <2>1. FramesInv' /\ TopOnly /\ FieldInitialized
    BY InitializeFieldKeeps
  <2>2. InitializeField
    OBVIOUS
  <2> QED BY <2>1, <2>2 DEF InitializeField, FramesInv
<1>2. PICK t \in Targets, c \in CallRecords :
        t = target /\ c = Top /\ c = calls[Depth] /\ Depth \in 1..Depth
  BY <1>1, Calls, WIs
<1>3. ArgumentsOK(c) /\ c.phase = "body"
  BY <1>1, <1>2 DEF ArgumentsInv
<1>4. PICK x \in Nat : x = c.lost + 1
  BY DEF CallRecords
<1>5. PICK d : d = [c EXCEPT !.lost = x] /\ d = Top'
  BY <1>1, <1>2, <1>4 DEF FieldInitialized
<1>6. /\ d \in CallRecords /\ d.f = c.f /\ d.kinds = c.kinds /\ d.n = c.n
      /\ d.phase = "body" /\ d.frame = c.frame /\ d.started = c.started /\ d.taken = c.taken
  <2>1. /\ d \in CallRecords /\ d.f = c.f /\ d.kinds = c.kinds /\ d.n = c.n
        /\ d.phase = c.phase /\ d.frame = c.frame /\ d.started = c.started
        /\ d.taken = c.taken
    BY <1>5, Relost
  <2> QED BY <1>3, <2>1
<1>7. ArgumentsOK(c)'
  <2>1. \A a \in Int : a >= SpAt(Depth) => Held(m'.mem, a) = Held(m.mem, a)
    BY <1>1 DEF SpAt, FieldInitialized
  <2> QED BY <1>1, <1>2, <1>3, <2>1, ArgumentsKept
<1>8. PICK new : new = m'.mem
  OBVIOUS
<1>9. /\ Matching(t, c) /\ ParametersIn(t, new, c) /\ ArrayIn(t, new, c)
      /\ ListIn(t, new, c) /\ TakenIn(t, c)
  BY <1>1, <1>2, <1>3, <1>7, <1>8 DEF ArgumentsOK
<1>10. Matching(t, d) /\ TakenIn(t, d)
  <2>1. Matching(t, d)
    BY <1>6, <1>9 DEF Matching
  <2>2. Counts(t, d) <=> Counts(t, c)
    BY <1>6 DEF Counts
  <2> QED BY <1>6, <1>9, <2>1, <2>2 DEF TakenIn
<1>11. ParametersIn(t, new, d) /\ ArrayIn(t, new, d) /\ ListIn(t, new, d)
  <2>1. ParametersIn(t, new, d) /\ ArrayIn(t, new, d)
    <3>1. Len(c.f.params) <= Len(c.kinds)
      BY <1>9 DEF Matching
    <3> QED BY <1>6, <1>9, <3>1, BodyKept
  <2>2. ListAt(t, d) = ListAt(t, c) /\ ArrayAt(t, d) = ArrayAt(t, c)
    BY <1>6 DEF ListAt, ArrayAt
  <2>3. Counts(t, d) <=> Counts(t, c)
    BY <1>6 DEF Counts
  <2>4. ListIn(t, new, d)
    BY <1>6, <1>9, <2>2, <2>3 DEF ListIn
  <2> QED BY <2>1, <2>4
<1>12. ArgumentsOK(d)'
  BY <1>1, <1>2, <1>6, <1>8, <1>10, <1>11 DEF ArgumentsOK
<1> QED BY <1>1, <1>5, <1>6, <1>12, TopArguments

\* When the callee has returned, nobody looks for the arguments any more.
LEMMA LeavePasses ==
  ASSUME FramesInv, ArgumentsInv, Leave
  PROVE  ArgumentsInv'
<1>1. /\ FramesInv' /\ TopOnly /\ TypeOK /\ target' = target /\ Depth > 0
      /\ Top'.phase = "returned" /\ Top'.f = Top.f /\ Top'.kinds = Top.kinds
      /\ Top'.started = Top.started /\ Top'.taken = Top.taken
  <2>1. /\ FramesInv' /\ TopOnly
        /\ Top'.phase = "returned" /\ Top'.f = Top.f /\ Top'.kinds = Top.kinds
        /\ Top'.started = Top.started /\ Top'.taken = Top.taken
    BY LeaveKeeps
  <2>2. Leave
    OBVIOUS
  <2> QED BY <2>1, <2>2 DEF Leave, FramesInv
<1>2. PICK t \in Targets, c \in CallRecords :
        t = target /\ c = Top /\ c = calls[Depth] /\ Depth \in 1..Depth
  BY <1>1, Calls, WIs
<1>3. PICK d \in CallRecords : d = Top'
  <2>1. calls' \in Seq(CallRecords) /\ Len(calls') > 0
    BY <1>1 DEF FramesInv, TypeOK, TopOnly, Depth
  <2> QED BY <2>1 DEF Top, Depth
<1>4. ArgumentsOK(c)
  BY <1>2 DEF ArgumentsInv
<1>5. Matching(t, c)
  BY <1>2, <1>4 DEF ArgumentsOK
<1>6. /\ d.phase = "returned" /\ d.f = c.f /\ d.kinds = c.kinds
      /\ d.started = c.started /\ d.taken = c.taken
  BY <1>1, <1>2, <1>3
<1>6a. Matching(t, d)
  BY <1>5, <1>6 DEF Matching
<1>7. ArgumentsOK(d)'
  BY <1>1, <1>2, <1>6, <1>6a DEF ArgumentsOK
<1> QED BY <1>1, <1>3, <1>7, TopArguments

\* A call that begins has pushed none of its arguments.
LEMMA NewArguments ==
  ASSUME TypeOK, NEW c \in Outer \cup Inner, Compiled(c), NEW o \in Nat,
         NEW d, d = NewCall(c, o), NEW mem, NEW t, t = target
  PROVE  Matching(t, d) /\ d.phase = "arguments" /\ PushedIn(t, mem, d)
<1>1. /\ d.f = c.f /\ d.kinds = c.kinds /\ d.phase = "arguments" /\ d.pushed = 0
      /\ d.started = FALSE /\ d.taken = << >>
  BY DEF NewCall
<1>2. /\ c.f.params \in Seq(Kinds) /\ c.kinds \in Seq(Kinds)
      /\ Len(c.f.params) <= Len(c.kinds)
      /\ \A i \in 1..Len(c.f.params) : c.f.params[i] = c.kinds[i]
  BY CallsAssumption DEF CallsAssumption, Functions
<1>3. t = "x86_64" => \A i \in 1..Len(c.kinds) : c.kinds[i] # "ldouble"
  BY DEF Compiled
<1>4. Len(c.f.params) + Len(d.taken) <= Len(c.kinds)
  BY <1>1, <1>2
<1>5. Matching(t, d)
  BY <1>1, <1>2, <1>3, <1>4 DEF Matching
<1>6. PushedIn(t, mem, d)
  <2>1. ASSUME NEW i \in 1..Len(d.kinds), IsPushed(t, d, i) PROVE FALSE
    BY <1>1, <1>2, <2>1 DEF IsPushed
  <2> QED BY <2>1 DEF PushedIn
<1> QED BY <1>1, <1>5, <1>6

\* It leaves those of the calls below where they are.
LEMMA BeginCallPasses ==
  ASSUME FramesInv, ArgumentsInv, NEW c \in Outer \cup Inner, NEW o \in Nat, BeginCall(c, o),
         Depth = 0 \/ Top.phase \in {"arguments", "body"}
  PROVE  ArgumentsInv'
<1>1. /\ CallBegun(c, o) /\ TypeOK /\ target' = target /\ Compiled(c)
  <2>1. CallBegun(c, o)
    BY BeginCallKeeps
  <2>2. BeginCall(c, o)
    OBVIOUS
  <2> QED BY <2>1, <2>2 DEF BeginCall, FramesInv
<1>2. PICK n \in Nat : n = Depth /\ Depth' = n + 1
  BY <1>1, Calls DEF CallBegun
<1>3. ASSUME NEW k \in 1..n + 1 PROVE ArgumentsOK(calls[k])'
  <2>1. CASE k = n + 1
    <3>1. PICK d : d = NewCall(c, o) /\ d = calls'[k]
      BY <1>1, <1>2, <2>1 DEF CallBegun
    <3>2. PICK new : new = m'.mem
      OBVIOUS
    <3>3. Matching(target, d) /\ d.phase = "arguments" /\ PushedIn(target, new, d)
      BY <1>1, <3>1, NewArguments
    <3>4. ArgumentsOK(d)'
      BY <1>1, <3>2, <3>3 DEF ArgumentsOK
    <3> QED BY <3>1, <3>4
  <2>2. CASE k # n + 1
    <3>1. k \in 1..Depth
      BY <1>2, <2>2
    <3>2. PICK e \in CallRecords : e = calls[k] /\ e = calls'[k]
      BY <1>1, <3>1, Calls DEF CallBegun
    <3>3. ArgumentsOK(e)
      BY <3>1, <3>2 DEF ArgumentsInv
    <3>4. e.phase \in {"arguments", "body"}
      <4>1. CASE k = Depth
        <5>1. Depth # 0
          BY <1>2, <3>1
        <5>2. e = Top
          BY <3>2, <4>1 DEF Top
        <5> QED BY <5>1, <5>2
      <4>2. CASE k # Depth
        BY <3>1, <3>2, <4>2, LowerPhases
      <4> QED BY <4>1, <4>2
    <3>5. \A a \in Int : a >= SpAt(k) => Held(m'.mem, a) = Held(m.mem, a)
      BY <1>1 DEF CallBegun
    <3>6. ArgumentsOK(e)'
      BY <1>1, <3>1, <3>2, <3>3, <3>4, <3>5, ArgumentsKept
    <3> QED BY <3>2, <3>6
  <2> QED BY <2>1, <2>2
<1> QED BY <1>2, <1>3 DEF ArgumentsInv

\* That holds for each of the three places from where a call is made.
LEMMA CallPasses ==
  ASSUME FramesInv, ArgumentsInv, Call
  PROVE  ArgumentsInv'
<1>1. PICK o \in 0..MaxOperands, c \in Outer \cup Inner :
        BeginCall(c, o) /\ (Depth = 0 \/ Top.phase \in {"arguments", "body"})
  BY DEF Call
<1>2. o \in Nat
  BY CallsAssumption DEF CallsAssumption
<1> QED BY <1>1, <1>2, BeginCallPasses

\* The end of a call leaves those of the calls below where they are.
LEMMA CleanUpPasses ==
  ASSUME FramesInv, ArgumentsInv, CleanUp
  PROVE  ArgumentsInv'
<1>1. CallEnded /\ TypeOK /\ target' = target /\ Depth > 0
  <2>1. CallEnded
    BY CleanUpKeeps
  <2>2. CleanUp
    OBVIOUS
  <2> QED BY <2>1, <2>2 DEF CleanUp, FramesInv
<1>2. PICK n \in Nat : n = Depth /\ n > 0 /\ Depth' = n - 1
  BY <1>1, Calls DEF CallEnded
<1>3. ASSUME NEW k \in 1..n - 1 PROVE ArgumentsOK(calls[k])'
  <2>1. /\ k \in 1..Depth /\ k # Depth /\ k + 1 \in 1..Depth /\ k + 1 <= Depth
        /\ Depth \in 1..Depth /\ k \in 1..Depth - 1
    BY <1>2
  <2>2. PICK c \in CallRecords : c = calls[k] /\ c = calls'[k]
    BY <1>1, <2>1, Calls DEF CallEnded
  <2>3. ArgumentsOK(c) /\ c.phase \in {"arguments", "body"}
    BY <2>1, <2>2, LowerPhases DEF ArgumentsInv
  <2>4. \A a \in Int : a >= SpAt(k) => Held(m'.mem, a) = Held(m.mem, a)
    <3>1. SpAt(k) = calls[k + 1].sp
      BY <2>1 DEF SpAt
    <3>2. Top.sp <= calls[k + 1].sp
      BY <2>1 DEF FramesInv, Descending, Top
    <3>3. Top.sp \in Int /\ calls[k + 1].sp \in Int
      <4>1. calls[k + 1] \in CallRecords /\ Top \in CallRecords
        BY <1>1, <2>1, Calls
      <4> QED BY <4>1, FieldsAre
    <3>4. PICK x \in Int, y \in Int : x = Top.sp /\ y = SpAt(k) /\ x <= y
      BY <3>1, <3>2, <3>3
    <3>5. \A a \in Int : a >= x => Held(m'.mem, a) = Held(m.mem, a)
      BY <1>1, <3>4 DEF CallEnded
    <3> QED BY <3>4, <3>5
  <2>5. ArgumentsOK(c)'
    BY <1>1, <2>1, <2>2, <2>3, <2>4, ArgumentsKept
  <2> QED BY <2>2, <2>5
<1> QED BY <1>2, <1>3 DEF ArgumentsInv

\* Before the first call there are no arguments.
LEMMA ArgumentsBegin == Init => ArgumentsInv
<1> SUFFICES ASSUME Init PROVE ArgumentsInv
  OBVIOUS
<1>1. 1..Depth = {}
  BY DEF Init, Depth
<1> QED BY <1>1 DEF ArgumentsInv

\* A step that changes nothing keeps them.
LEMMA ArgumentsStutter ==
  ASSUME ArgumentsInv, UNCHANGED vars
  PROVE  ArgumentsInv'
<1>1. target' = target /\ m' = m /\ calls' = calls
  BY DEF vars
<1> QED BY <1>1 DEF ArgumentsInv, ArgumentsOK, Depth, Dropped, Operand, W

\* Every step keeps the words of the arguments where they are looked for.
LEMMA ArgumentsStep ==
  ASSUME FramesInv, ArgumentsInv, [Next]_vars
  PROVE  ArgumentsInv'
<1>1. CASE Call
  BY <1>1, CallPasses
<1>2. CASE PushArgument
  BY <1>2, PushArgumentPasses
<1>3. CASE LoadRegisters
  BY <1>3, LoadRegistersPasses
<1>4. CASE Jump
  BY <1>4, JumpPasses
<1>5. CASE CleanUp
  BY <1>5, CleanUpPasses
<1>6. CASE Enter
  BY <1>6, EnterPasses
<1>7. CASE VaStart
  BY <1>7, VaStartPasses
<1>8. CASE VaArg
  BY <1>8, VaArgPasses
<1>9. CASE Leave
  BY <1>9, LeavePasses
<1>10. CASE InitializeField
  BY <1>10, InitializeFieldPasses
<1>11. CASE Ended \/ UNCHANGED vars
  BY <1>11, ArgumentsStutter DEF Ended
<1> QED BY <1>1, <1>2, <1>3, <1>4, <1>5, <1>6, <1>7, <1>8, <1>9, <1>10, <1>11 DEF Next

\* In every state the words of the arguments of each call in progress are where
\* its phase calls for: in the slots, in the registers and on the stack, in the
\* places of the parameters, and in the array that va_arg walks.
THEOREM ArgumentsStand == Spec => []ArgumentsInv
<1>1. FramesInv /\ ArgumentsInv /\ [Next]_vars => ArgumentsInv'
  BY ArgumentsStep
<1> QED BY <1>1, ArgumentsBegin, FramesStand, PTL DEF Spec

\* A running call is one of those in progress.
LEMMA BodyIs ==
  ASSUME FramesInv, ArgumentsInv, NEW c \in Bodies
  PROVE  c \in CallRecords /\ c.phase = "body" /\ ArgumentsOK(c)
<1>1. PICK k \in 1..Depth : c = calls[k] /\ calls[k].phase = "body"
  BY DEF Bodies
<1>2. calls[k] \in CallRecords
  BY <1>1, Calls DEF FramesInv
<1> QED BY <1>1, <1>2 DEF ArgumentsInv

\* ParametersArrive: in all functions that run, on all three back ends, the words
\* at the place of a parameter are those of the argument the caller computed,
\* unless x86_64 splits a structure between the registers and the stack before it.
THEOREM ParametersReach == Spec => []ParametersArrive
<1>1. FramesInv /\ ArgumentsInv => ParametersArrive
  <2> SUFFICES ASSUME FramesInv, ArgumentsInv, NEW c \in Bodies,
                      NEW i \in 1..Len(c.f.params), ~Straddles(c, i),
                      NEW w \in 1..arg_words(target, c.kinds[i])
               PROVE  At(c.frame + Parameters(target, c.f).places[i] + W * (w - 1))
                        = Words(c, i)[w]
    BY DEF ParametersArrive
  <2>1. ParametersIn(target, m.mem, c)
    BY BodyIs DEF ArgumentsOK
  <2>2. Unsplit(target, c.kinds, i)
    <3>1. \A j \in 1..i : target = "x86_64" =>
            ~(LastWord(target, c.kinds)[j - 1] < 6 /\ 6 < LastWord(target, c.kinds)[j])
      BY Zenon DEF Straddles
    <3> QED BY <3>1 DEF Unsplit
  <2>3. W = WordSize(target)
    BY WIs DEF FramesInv
  <2>4. Held(m.mem, c.frame + Parameters(target, c.f).places[i] + W * (w - 1))
          = Argument(c.n, i, w)
    BY <2>1, <2>2, <2>3 DEF ParametersIn
  <2> QED BY <2>4 DEF At, Held, Words
<1> QED BY <1>1, FramesStand, ArgumentsStand, PTL

\* VariadicsArrive: va_arg yields the arguments behind the parameters one after
\* the other, whatever the function calls in between, as long as each parameter
\* is one word, which is what va_start counts, as long as x86_64 copies all the
\* words, and as long as the frame on RV32 is on a multiple of eight.
THEOREM VariadicsReach == Spec => []VariadicsArrive
<1>1. FramesInv /\ ArgumentsInv => VariadicsArrive
  <2> SUFFICES ASSUME FramesInv, ArgumentsInv, NEW c \in Bodies, WithinSaved(c),
                      NEW j \in 1..Len(c.taken)
               PROVE  c.taken[j] = Words(c, Len(c.f.params) + j)
    BY DEF VariadicsArrive
  <2>1. TakenIn(target, c)
    BY BodyIs DEF ArgumentsOK
  <2>2. Counts(target, c)
    BY DEF WithinSaved, Counts
  <2> QED BY <2>1, <2>2 DEF TakenIn, Words
<1> QED BY <1>1, FramesStand, ArgumentsStand, PTL
=============================================================================
