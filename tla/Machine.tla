------------------------------ MODULE Machine ------------------------------
(***************************************************************************)
(* The processors that run the generated code, with the library functions  *)
(* it calls.  A byte has ByteBits bits, so that the sizes of the types are *)
(* those of the code; a register holds a word of PtrSize(t) bytes.         *)
(*                                                                         *)
(* Floating-point numbers are whole numbers, kept as a sign and a          *)
(* magnitude: the highest bit is the sign.                                 *)
(*                                                                         *)
(* Comparisons that the code makes of two instructions (cmp, setcc) are    *)
(* one, as are the loads and stores that copy an object byte by byte.      *)
(***************************************************************************)
EXTENDS CTypes, Bitwise, FiniteSetsExt

CONSTANT ByteBits

Radix == 2 ^ ByteBits
Span(bytes) == 2 ^ (ByteBits * bytes)
WordBits(t) == ByteBits * PtrSize(t)
Wrap(t, n) == n % Span(PtrSize(t))
SignedOf(n, bytes) == IF 2 * n >= Span(bytes) THEN n - Span(bytes) ELSE n
SignedWord(t, n) == SignedOf(n, PtrSize(t))
Magnitude(n) == IF n < 0 THEN -n ELSE n

Registers == {"ax", "bx", "cx", "dx", "di", "si",
              "a0", "a1", "a2", "a3", "t0", "t1", "sp", "fp"}

-----------------------------------------------------------------------------
(* Memory: a function from addresses to bytes, the lowest byte first.      *)

RECURSIVE Fetch(_, _, _), Put(_, _, _, _)
Fetch(mem, a, n) ==
  IF n = 0 \/ a \notin DOMAIN mem THEN 0 ELSE mem[a] + Radix * Fetch(mem, a + 1, n - 1)
Put(mem, a, n, v) ==
  IF n = 0 \/ a \notin DOMAIN mem THEN mem
  ELSE Put([mem EXCEPT ![a] = v % Radix], a + 1, n - 1, v \div Radix)

RECURSIVE CopyBytes(_, _, _, _)
CopyBytes(mem, to, from, n) ==
  IF n = 0 THEN mem
  ELSE CopyBytes(Put(mem, to, 1, Fetch(mem, from, 1)), to + 1, from + 1, n - 1)

(* A floating-point number of n bytes; its magnitude fits 8 of them. *)
FloatBits(v, n) == (Magnitude(v) % (Span(n) \div 2)) + (IF v < 0 THEN Span(n) \div 2 ELSE 0)
FloatOf(bits, n) == IF 2 * bits >= Span(n) THEN -(bits - Span(n) \div 2) ELSE bits

FetchFloat(mem, a, n) ==
  IF n <= 8 THEN FloatOf(Fetch(mem, a, n), n)
  ELSE IF 2 * Fetch(mem, a + n - 1, 1) >= Radix THEN -Fetch(mem, a, 8) ELSE Fetch(mem, a, 8)
PutFloat(mem, a, n, v) ==
  IF n <= 8 THEN Put(mem, a, n, FloatBits(v, n))
  ELSE Put(Put(mem, a, n, Magnitude(v) % Span(8)), a + n - 1, 1, IF v < 0 THEN Radix \div 2 ELSE 0)

-----------------------------------------------------------------------------
(* Arithmetic on words.                                                    *)

Times(t, x, y) ==
  LET h == 2 ^ (WordBits(t) \div 2)
  IN  Wrap(t, (x % h) * (y % h) + h * (((x \div h) * (y % h) + (x % h) * (y \div h)) % h))

Quo(x, y) == LET q == Magnitude(x) \div Magnitude(y) IN IF (x < 0) # (y < 0) THEN -q ELSE q
Rem(x, y) == x - y * Quo(x, y)

Alu(t, op, x, y) ==
  CASE op = "ADD" -> Wrap(t, x + y)
    [] op = "SUB" -> Wrap(t, x - y)
    [] op = "MUL" -> Times(t, x, y)
    [] op = "BITAND" -> x & y
    [] op = "BITOR"  -> x | y
    [] op = "BITXOR" -> x ^^ y
    [] op = "SHL" -> IF y >= WordBits(t) THEN 0 ELSE Times(t, x, 2 ^ y)
    [] op = "SHR" -> IF y >= WordBits(t) THEN 0 ELSE x \div 2 ^ y
    [] op = "SAR" -> IF y >= WordBits(t) THEN 0 ELSE Wrap(t, SignedWord(t, x) \div 2 ^ y)
    [] op \in {"DIV", "MOD", "UDIV", "UMOD"} /\ y = 0 -> 0
    [] op = "DIV" /\ y # 0 -> Wrap(t, Quo(SignedWord(t, x), SignedWord(t, y)))
    [] op = "MOD" /\ y # 0 -> Wrap(t, Rem(SignedWord(t, x), SignedWord(t, y)))
    [] op = "UDIV" /\ y # 0 -> x \div y
    [] op = "UMOD" /\ y # 0 -> x % y

Holds(cond, x, y) ==
  CASE cond = "EQ" -> x = y
    [] cond = "NE" -> x # y
    [] cond = "LT" -> x < y
    [] cond = "LE" -> x <= y
    [] cond = "GT" -> x > y
    [] cond = "GE" -> x >= y

Truth(b) == IF b THEN 1 ELSE 0

-----------------------------------------------------------------------------
(* The soft-float routines.  A routine has operands of one kind and a result *)
(* of another: sf, df, tf are the formats, si, usi, di, udi the integers of  *)
(* 4 and 8 bytes.  How the three versions of the library take their          *)
(* arguments: in a word, as the address of the object, or in two words.      *)

KindSize(k) == CASE k \in {"sf", "si", "usi"} -> 4 [] k \in {"df", "di", "udi"} -> 8 [] k = "tf" -> 16

PassX86(k, result) == IF k = "tf" THEN "address" ELSE "word"
PassI386(k, result) == IF k \in {"df", "tf"} THEN "address" ELSE "word"
PassRv32(k, result) ==
  IF k = "tf" \/ (k = "df" /\ result = "tf") THEN "address" ELSE IF k = "df" THEN "pair" ELSE "word"
Pass(t, k, result) ==
  CASE t = "x86_64" -> PassX86(k, result)
    [] t = "i386"   -> PassI386(k, result)
    [] t = "rv32"   -> PassRv32(k, result)

(* A result that does not fit a register is stored where the first argument *)
(* points.                                                                  *)
Hidden(t, result) == result = "tf" \/ (result = "df" /\ t = "i386")

ArgumentWord(t, m, j) ==
  CASE t = "x86_64" -> m.r[<<"di", "si", "dx">>[j]]
    [] t = "i386"   -> Fetch(m.mem, m.r["sp"] + 4 * (j - 1), 4)
    [] t = "rv32"   -> m.r[<<"a0", "a1", "a2", "a3">>[j]]

Operand(t, m, j, k, result) ==
  LET word == ArgumentWord(t, m, j)
      size == KindSize(k)
  IN  CASE Pass(t, k, result) = "address" -> FetchFloat(m.mem, word, size)
        [] Pass(t, k, result) = "pair" ->
             FloatOf(word + Span(4) * ArgumentWord(t, m, j + 1), 8)
        [] Pass(t, k, result) = "word" /\ k \in {"sf", "df"} -> FloatOf(word % Span(size), size)
        [] Pass(t, k, result) = "word" /\ k \in {"si", "di"} -> SignedOf(word % Span(size), size)
        [] Pass(t, k, result) = "word" /\ k \in {"usi", "udi"} -> word % Span(size)

FirstOperand(t, m, k, result) == Operand(t, m, IF Hidden(t, result) THEN 2 ELSE 1, k, result)
SecondOperand(t, m, k, result) ==
  Operand(t, m, (IF Hidden(t, result) THEN 3 ELSE 2) + (IF Pass(t, k, result) = "pair" THEN 1 ELSE 0),
          k, result)

(* What the comparisons return. *)
Compared(op, x, y) ==
  CASE op \in {"EQ", "NE"} -> IF x = y THEN 0 ELSE 1
    [] op = "LT" -> IF x < y THEN -1 ELSE IF x = y THEN 0 ELSE 1
    [] op = "LE" -> IF x <= y THEN 0 ELSE 1
    [] op = "GT" -> IF x > y THEN 1 ELSE 0
    [] op = "GE" -> IF x >= y THEN 0 ELSE -1

(* Floating-point numbers are made of the low word of a long. *)
Converting(v, from, to) ==
  IF from \in {"di", "udi"} /\ to \in {"sf", "df", "tf"}
    THEN IF from = "di" THEN SignedOf(v % Span(4), 4) ELSE v % Span(4)
    ELSE v

Computed(op, x, y) ==
  CASE op = "ADD" -> x + y
    [] op = "SUB" -> x - y
    [] op = "MUL" -> IF Magnitude(x) < 2 ^ 15 /\ Magnitude(y) < 2 ^ 15 THEN x * y ELSE 0
    [] op = "DIV" -> IF y = 0 THEN 0 ELSE Quo(x, y)

(* A call leaves its result and nothing else in the registers that belong to *)
(* the callee.                                                               *)
CONSTANT Junk
CallerSaved == {"cx", "dx", "di", "si", "a1", "a2", "a3", "t0", "t1"}
Clobbered(m) == [m EXCEPT !.r = [x \in Registers |-> IF x \in CallerSaved THEN Junk ELSE @[x]]]

ResultRegister(t) == IF t = "rv32" THEN "a0" ELSE "ax"

Deliver(t, m, result, v) ==
  LET c   == Clobbered(m)
      out == ResultRegister(t)
      to  == ArgumentWord(t, m, 1)
      bits == FloatBits(v, KindSize(result))
  IN  CASE result \in {"tf", "df"} /\ Hidden(t, result) ->
             [c EXCEPT !.mem = PutFloat(@, to, KindSize(result), v), !.r[out] = to]
        [] result = "df" /\ t = "rv32" -> [c EXCEPT !.r["a0"] = bits % Span(4), !.r["a1"] = bits \div Span(4)]
        [] result \in {"sf", "df"} /\ t # "rv32" /\ ~Hidden(t, result) -> [c EXCEPT !.r[out] = bits]
        [] result = "sf" /\ t = "rv32" -> [c EXCEPT !.r[out] = bits]
        [] result \in {"si", "usi", "di", "udi"} -> [c EXCEPT !.r[out] = v % Span(KindSize(result))]

(* <<"soft", op, kind>> and <<"soft", "CONV", from, to>> *)
Soft(t, m, i) ==
  CASE i[2] = "CONV" ->
         Deliver(t, m, i[4], Converting(FirstOperand(t, m, i[3], i[4]), i[3], i[4]))
    [] i[2] = "NEG" -> Deliver(t, m, i[3], -FirstOperand(t, m, i[3], i[3]))
    [] i[2] \in Comparisons ->
         Deliver(t, m, "si", Compared(i[2], FirstOperand(t, m, i[3], "si"), SecondOperand(t, m, i[3], "si")))
    [] OTHER ->
         Deliver(t, m, i[3], Computed(i[2], FirstOperand(t, m, i[3], i[3]), SecondOperand(t, m, i[3], i[3])))

-----------------------------------------------------------------------------
(* Instructions.                                                           *)

Labelled(code, l) == CHOOSE n \in 1 .. Len(code) : code[n] = <<"lab", l>>

Set(t, m, d, v) == [m EXCEPT !.r[d] = Wrap(t, v)]

Push(t, m, v) ==
  LET sp == m.r["sp"] - PtrSize(t)
  IN  [m EXCEPT !.r["sp"] = sp, !.mem = Put(@, sp, PtrSize(t), v)]

Operation(t, m, i) ==
  LET r == m.r
  IN  CASE i[1] = "li"   -> Set(t, m, i[2], i[3])
        [] i[1] = "mv"   -> Set(t, m, i[2], r[i[3]])
        [] i[1] = "neg"  -> Set(t, m, i[2], -r[i[3]])
        [] i[1] = "zext" -> Set(t, m, i[2], r[i[3]] % Span(i[4]))
        [] i[1] = "sext" -> Set(t, m, i[2], SignedOf(r[i[3]] % Span(i[4]), i[4]))
        [] i[1] = "ld"   -> LET v == Fetch(m.mem, Wrap(t, r[i[3]] + i[4]), i[5])
                            IN  Set(t, m, i[2], IF i[6] THEN SignedOf(v, i[5]) ELSE v)
        [] i[1] = "st"   -> [m EXCEPT !.mem = Put(@, Wrap(t, r[i[3]] + i[4]), i[5], r[i[2]])]
        [] i[1] = "sti"  -> [m EXCEPT !.mem = Put(@, r["fp"] + i[3], 4, i[2])]
        [] i[1] = "copy" -> [m EXCEPT !.mem = CopyBytes(@, r[i[2]], r[i[3]], i[4]), !.r[i[5]] = Junk]
        [] i[1] = "push" -> Push(t, m, r[i[2]])
        [] i[1] = "pushi" -> Push(t, m, Wrap(t, i[2]))
        [] i[1] = "pop"  -> [m EXCEPT !.r = [@ EXCEPT ![i[2]] = Fetch(m.mem, r["sp"], PtrSize(t)),
                                                      !["sp"] = @ + PtrSize(t)]]
        [] i[1] = "align" -> [m EXCEPT !.r["sp"] = @ - (@ % 16)]
        [] i[1] = "op"   -> Set(t, m, i[3], Alu(t, i[2], r[i[4]], r[i[5]]))
        [] i[1] = "opi"  -> Set(t, m, i[3], Alu(t, i[2], r[i[4]], Wrap(t, i[5])))
        [] i[1] = "idiv" -> [m EXCEPT !.r = [@ EXCEPT !["ax"] = Alu(t, i[2], r["ax"], r["cx"]),
                                                      !["dx"] = Alu(t, i[3], r["ax"], r["cx"])]]
        [] i[1] = "set"  -> Set(t, m, i[3], Truth(Holds(i[2], SignedWord(t, r[i[4]]), SignedWord(t, r[i[5]]))))
        [] i[1] = "setu" -> Set(t, m, i[3], Truth(Holds(i[2], r[i[4]], r[i[5]])))
        [] i[1] = "seti" -> Set(t, m, i[3], Truth(Holds(i[2], SignedWord(t, r[i[4]]), i[5])))
        [] i[1] = "soft" -> Soft(t, m, i)
        [] i[1] = "int"  -> [Clobbered(m) EXCEPT !.r["a0"] = Alu(t, i[2], r["a0"], r["a1"])]
        [] i[1] = "lab"  -> m

(* The instruction after pc. *)
Target(code, m, i) ==
  CASE i[1] = "jmp" -> Labelled(code, i[2])
    [] i[1] = "bz"  -> IF m.r[i[2]] = 0 THEN Labelled(code, i[3]) ELSE m.pc + 1
    [] i[1] = "bnz" -> IF m.r[i[2]] # 0 THEN Labelled(code, i[3]) ELSE m.pc + 1

RECURSIVE Execute(_, _, _)
Execute(t, code, m) ==
  IF m.pc > Len(code) THEN m
  ELSE LET i == code[m.pc]
       IN  Execute(t, code, IF i[1] \in {"jmp", "bz", "bnz"} THEN [m EXCEPT !.pc = Target(code, m, i)]
                            ELSE [Operation(t, m, i) EXCEPT !.pc = @ + 1])
=============================================================================
