---------------------------- MODULE FrameLayout ----------------------------
(***************************************************************************)
(* Where the arguments of a call stand, as each of the four pieces of the  *)
(* compiler that have to know it computes it for itself: the parser (the   *)
(* places of the parameters), the call (the words that are pushed), the    *)
(* prologue (what it moves into those places) and va_start.                *)
(*                                                                         *)
(* The kind of an argument is its type as far as it matters here: trio and *)
(* wide are structures of 12 and 16 bytes, wide has a double.              *)
(***************************************************************************)
EXTENDS Integers, Sequences

Kinds == {"char", "int", "double", "ldouble", "trio", "wide"}

Size(k) == CASE k = "char" -> 1 [] k = "int" -> 4 [] k = "double" -> 8
             [] k = "trio" -> 12 [] k \in {"wide", "ldouble"} -> 16

Aggregate(k) == k \in {"trio", "wide"}

WordSize(t) == IF t = "x86_64" THEN 8 ELSE 4
Multiple(n, unit) == ((n + unit - 1) \div unit) * unit
WordsIn(t, k) == Multiple(Size(k), WordSize(t)) \div WordSize(t)

ArgRegisters(t) == CASE t = "x86_64" -> 6 [] t = "rv32" -> 8 [] t = "i386" -> 0

-----------------------------------------------------------------------------
(* The call.                                                               *)

is_multiword_arg(k) == Aggregate(k) \/ k \in {"double", "ldouble"}
needs_8byte_align(k) == k \in {"double", "ldouble", "wide"}

arg_words(t, k) ==
  IF t = "x86_64" THEN IF Aggregate(k) THEN WordsIn(t, k) ELSE 1
  ELSE IF is_multiword_arg(k) THEN WordsIn(t, k) ELSE 1

\* Mutant: a double is not moved to an even word.
PadNever(t, k, words) == 0

Pad(t, k, words) == IF t = "rv32" /\ needs_8byte_align(k) THEN words % 2 ELSE 0

\* Last[i]: the words pushed for the first i arguments, the padding included.
LastWord(t, kinds) ==
  LET last[i \in 0..Len(kinds)] ==
        IF i = 0 THEN 0
        ELSE last[i - 1] + Pad(t, kinds[i], last[i - 1]) + arg_words(t, kinds[i])
  IN last

total_words(t, kinds) == LastWord(t, kinds)[Len(kinds)]

reg_words_count(t, kinds) ==
  IF total_words(t, kinds) > ArgRegisters(t) THEN ArgRegisters(t)
  ELSE total_words(t, kinds)

stack_words_count(t, kinds) == total_words(t, kinds) - reg_words_count(t, kinds)

\* Mutant: nothing keeps the stack aligned.
NoPad(t, kinds) == 0

stack_pad(t, kinds) ==
  IF t = "x86_64" /\ stack_words_count(t, kinds) % 2 # 0 THEN 8 ELSE 0

stack_bytes(t, kinds) == Multiple(stack_words_count(t, kinds) * 4, 16)

-----------------------------------------------------------------------------
(* The parser: the place of each parameter, from the frame pointer.        *)

Fits(reg_idx, words) == reg_idx + words <= 6

AddParameter(t, so_far, k) ==
  LET bytes == arg_words(t, k) * WordSize(t)
      below == so_far.offset + (IF t = "rv32" THEN 4 * WordsIn(t, k) ELSE bytes)
      local == [so_far EXCEPT !.offset = below, !.places = Append(@, -below),
                              !.reg_idx = @ + arg_words(t, k)]
      above == [so_far EXCEPT !.above = @ + bytes, !.places = Append(@, so_far.above)]
  IN CASE t = "rv32"   -> local
       [] t = "i386"   -> above
       [] t = "x86_64" -> IF Fits(so_far.reg_idx, arg_words(t, k)) THEN local ELSE above

\* f: the function, with the kinds of its parameters, whether others may
\* follow, and the words of its local variables.
FirstOffset(t, f) ==
  CASE t = "rv32" -> 32 [] t = "i386" -> 0 [] t = "x86_64" -> IF f.is_varargs THEN 192 ELSE 48

Parameters(t, f) ==
  LET after[i \in 0..Len(f.params)] ==   \* the first i parameters
        IF i = 0
        THEN [offset |-> FirstOffset(t, f), reg_idx |-> 0, places |-> << >>,
              above |-> IF t = "i386" THEN 8 ELSE 16]
        ELSE AddParameter(t, after[i - 1], f.params[i])
  IN after[Len(f.params)]

\* The reserve for the registers that are left, which nothing uses.
Reserve(t, f) ==
  IF t = "x86_64" /\ f.is_varargs /\ Len(f.params) < 6
  THEN 8 * (6 - Len(f.params)) ELSE 0

FirstLocal(t, f) == Parameters(t, f).offset + Reserve(t, f)
LastLocal(t, f) == FirstLocal(t, f) + f.locals * WordSize(t)
stack_size(t, f) == Multiple(LastLocal(t, f) + 160, 16)
-----------------------------------------------------------------------------
(* The prologue: which word it moves to which place.  Words that came in a  *)
(* register have from = "reg" and its number, the others their distance     *)
(* from the frame pointer.                                                  *)
Move(from, n, to) == [from |-> from, n |-> n, to |-> to]

\* x86_64: the words of a parameter that came in registers; the others stay.
SpillX86(so_far, k, place) ==
  LET words == WordsIn("x86_64", k)
      moved == IF Aggregate(k) THEN words ELSE 1
  IN IF Fits(so_far.reg_idx, words)
     THEN [so_far EXCEPT
             !.reg_idx = @ + moved,
             !.moves = @ \o [w \in 1..moved |->
                              Move("reg", so_far.reg_idx + w - 1, place + 8 * (w - 1))]]
     ELSE so_far

\* RV32: every word, from a register or from above the frame.
SpillRv32(so_far, k, place) ==
  LET odd == /\ needs_8byte_align(k)
             /\ IF so_far.reg_idx < 8 THEN so_far.reg_idx % 2 # 0
                ELSE so_far.above % 8 # 0
      reg == IF odd /\ so_far.reg_idx < 8 THEN so_far.reg_idx + 1 ELSE so_far.reg_idx
      up  == IF odd /\ so_far.reg_idx >= 8 THEN so_far.above + 4 ELSE so_far.above
      words == WordsIn("rv32", k)
      in_regs == IF reg + words <= 8 THEN words ELSE 8 - reg
      Word(w) == IF w <= in_regs THEN Move("reg", reg + w - 1, place + 4 * (w - 1))
                 ELSE Move("above", up + 4 * (w - in_regs - 1), place + 4 * (w - 1))
  IN [reg_idx |-> reg + in_regs, above |-> up + 4 * (words - in_regs),
      moves |-> so_far.moves \o [w \in 1..words |-> Word(w)]]

Spill(t, so_far, k, place) ==
  CASE t = "x86_64" -> SpillX86(so_far, k, place)
    [] t = "rv32"   -> SpillRv32(so_far, k, place)
    [] t = "i386"   -> so_far

\* A function with a variable argument list keeps all the registers, below
\* the words that came on the stack; x86_64 copies sixteen of these as well.
SaveArea(t) == IF t = "x86_64" THEN -192 ELSE -32

\* Mutant: the words on the stack are not copied behind the registers.
SaveRegistersOnly(t, f) ==
  IF ~f.is_varargs \/ t = "i386" THEN << >>
  ELSE [n \in 1..ArgRegisters(t) |->
          Move("reg", n - 1, SaveArea(t) + WordSize(t) * (n - 1))]

SaveVariadics(t, f) ==
  IF ~f.is_varargs \/ t = "i386" THEN << >>
  ELSE [n \in 1..ArgRegisters(t) |->
          Move("reg", n - 1, SaveArea(t) + WordSize(t) * (n - 1))]
       \o (IF t = "x86_64"
           THEN [n \in 1..16 |-> Move("above", 16 + 8 * (n - 1), SaveArea(t) + 8 * (n + 5))]
           ELSE << >>)

Moves(t, f) ==
  LET places == Parameters(t, f).places
      after[i \in 0..Len(f.params)] ==   \* the first i parameters
        IF i = 0 THEN [reg_idx |-> 0, above |-> 0, moves |-> << >>]
        ELSE Spill(t, after[i - 1], f.params[i], places[i])
  IN after[Len(f.params)].moves \o SaveVariadics(t, f)

\* va_start counts the parameters, not their words.
va_offset(t, f) ==
  (IF t = "i386" THEN 8 ELSE SaveArea(t)) + WordSize(t) * Len(f.params)

\* The sixteen-byte temporaries of the function, eight of them.
Temporary(t, f, slot) ==
  IF t = "rv32" THEN -stack_size(t, f) + 8 + 16 * slot
  ELSE -((stack_size(t, f) - 128 + 16) + 16 * slot)
=============================================================================
