----------------------------- MODULE CallFrames -----------------------------
(***************************************************************************)
(* Calls as the three back ends compile them (AST_CALL, AST_VA_ARG and     *)
(* gen_func_def), run on the stack and the registers of the machine: the   *)
(* caller pushes the words of its arguments, loads registers, calls; the   *)
(* callee builds its frame, moves its parameters, walks its variable       *)
(* arguments, and returns; the caller drops what is left on the stack.     *)
(*                                                                         *)
(* The calls in progress are a sequence, the newest last: a call may be    *)
(* made to compute an argument of the one before it, or by its callee.     *)
(* The memory below the stack pointer is not kept.                         *)
(*                                                                         *)
(* A call may be an operand of an operator: the operands before it wait on *)
(* the stack until it is done.  On RV32 the initializer of a bit-field of  *)
(* a local variable leaves a word on the stack for the rest of the         *)
(* function, as it does in the code.                                       *)
(*                                                                         *)
(* Abstracted: what the words are (word w of argument i of call n is a     *)
(* token), the values of the operands that wait, floats and pointers       *)
(* (words like an int), what functions return, the other builtins, how an  *)
(* indirect call keeps the function.  main initializes no bit-field.       *)
(***************************************************************************)
EXTENDS FrameLayout, FiniteSets

CONSTANTS
  Outer,     \* the calls main may make: [f, kinds]
  Inner,     \* the calls made for an argument, or by a callee
  MaxCalls,     \* bound: calls of one program
  MaxOperands,  \* bound: operands that wait for one call
  MaxLost       \* bound: bit-fields that one call of a function initializes

VARIABLES
  target,    \* the back end
  m,         \* the machine: sp, fp, ra, reg, xmm, mem
  calls,     \* the calls in progress
  made       \* the calls begun

vars == <<target, m, calls, made>>

Functions == [params : Seq(Kinds), is_varargs : BOOLEAN, locals : Nat]

\* The parameters of a function are the first arguments of its calls.
CallsAssumption ==
  /\ \A c \in Outer \cup Inner :
       /\ c \in [f : Functions, kinds : Seq(Kinds)]
       /\ Len(c.f.params) <= Len(c.kinds)
       /\ \A i \in 1..Len(c.f.params) : c.f.params[i] = c.kinds[i]
  /\ MaxOperands \in Nat

ASSUME CallsAssumption

\* What a word of memory or a register holds.
Argument(n, i, w) == <<"argument", n, i, w>>
FrameOf(fp)       == <<"frame", fp, 0, 0>>
ReturnTo(n)       == <<"return", n, 0, 0>>
Address(a)        == <<"address", a, 0, 0>>
Junk              == <<"junk", 0, 0, 0>>

Main == [params |-> << >>, is_varargs |-> FALSE, locals |-> 0]

W == WordSize(target)

At(a) == IF a \in DOMAIN m.mem THEN m.mem[a] ELSE Junk
Written(mem, writes) ==   \* writes: a function from addresses to words
  [a \in DOMAIN mem \cup DOMAIN writes |->
     IF a \in DOMAIN writes THEN writes[a] ELSE mem[a]]

Word(a, value) == [x \in {a} |-> value]

\* What is below the stack pointer is lost.
Kept(mem, sp) == [a \in {b \in DOMAIN mem : b >= sp} |-> mem[a]]

Init ==
  /\ target \in {"x86_64", "i386", "rv32"}
  /\ m = [sp |-> -stack_size(target, Main), fp |-> 0, ra |-> Junk,
          reg |-> [r \in 0..7 |-> Junk], xmm |-> << >>, mem |-> << >>]
  /\ calls = << >>
  /\ made = 0

-----------------------------------------------------------------------------
Depth == Len(calls)
Top   == calls[Depth]
Step(phase) == calls' = [calls EXCEPT ![Depth].phase = phase]

(***************************************************************************)
(* The caller.                                                             *)
(***************************************************************************)
\* On x86_64 a long double is passed as its address and expected as a value.
Compiled(c) == target = "x86_64" => \A i \in 1..Len(c.kinds) : c.kinds[i] # "ldouble"

\* An operand that waits takes sixteen bytes, but on i386.
Operand == IF target = "i386" THEN 4 ELSE 16

\* The operands that wait are pushed, then the padding.
BeginCall(c, operands) ==
  /\ made < MaxCalls /\ Compiled(c)
  /\ made' = made + 1
  /\ calls' = Append(calls, [f |-> c.f, kinds |-> c.kinds, n |-> made + 1,
                             phase |-> "arguments", pushed |-> 0, sp |-> m.sp, fp |-> m.fp,
                             operands |-> operands, frame |-> 0, lost |-> 0,
                             started |-> FALSE, taken |-> << >>, back |-> Junk])
  /\ m' = [m EXCEPT !.sp = @ - Operand * operands - stack_pad(target, c.kinds)]
  /\ UNCHANGED target

\* A call from main, from a callee, or for the next argument of a call.
Call ==
  \E operands \in 0..MaxOperands :
    \/ Depth = 0 /\ made = 0 /\ \E c \in Outer : BeginCall(c, operands)
    \/ Depth > 0 /\ Top.phase = "body" /\ \E c \in Inner : BeginCall(c, operands)
    \/ /\ Depth > 0 /\ Top.phase = "arguments" /\ Top.pushed < Len(Top.kinds)
       /\ \E c \in Inner : BeginCall(c, operands)

\* The words of argument i in the order in which they go to lower addresses,
\* each in a slot of its own.
Pushes(c, i) ==
  LET words == arg_words(target, c.kinds[i])
  IN IF target = "rv32"
     THEN [p \in 1..Pad(target, c.kinds[i], LastWord(target, c.kinds)[i - 1]) |-> Junk]
          \o [w \in 1..words |-> Argument(c.n, i, w)]
     ELSE [w \in 1..words |-> Argument(c.n, i, words + 1 - w)]

Slot == IF target = "rv32" THEN 16 ELSE W

\* x86_64 and i386 push from right to left.
PushArgument ==
  LET i == IF target = "rv32" THEN Top.pushed + 1 ELSE Len(Top.kinds) - Top.pushed
      pushes == Pushes(Top, i)
      sp == m.sp - Slot * Len(pushes)
  IN /\ Depth > 0 /\ Top.phase = "arguments" /\ Top.pushed < Len(Top.kinds)
     /\ m' = [m EXCEPT
                !.sp = sp,
                !.mem = Written(@, [a \in {m.sp - Slot * p : p \in 1..Len(pushes)} |->
                                      pushes[(m.sp - a) \div Slot]])]
     /\ calls' = [calls EXCEPT ![Depth].pushed = @ + 1]
     /\ UNCHANGED <<target, made>>

\* Mutant: the words of the slots are taken one too low.
NextWord(c, r) == At(m.sp + Slot * (r + 1))

\* Word r of the arguments, which are all on the stack.
PushedWord(c, r) ==
  IF target = "rv32" THEN At(m.sp + Slot * (total_words(target, c.kinds) - 1 - r))
  ELSE At(m.sp + Slot * r)

\* x86_64 takes the number of the argument for that of its register.
XmmWords(c) ==
  LET doubles == SelectSeq([i \in 1..Len(c.kinds) |-> i],
                           LAMBDA i : /\ c.kinds[i] = "double"
                                      /\ i <= reg_words_count(target, c.kinds))
  IN [x \in 1..Len(doubles) |-> PushedWord(c, doubles[x] - 1)]

\* RV32 copies the words behind the eighth to a packed area at the new top.
Packed(c) ==
  LET bytes == stack_bytes(target, c.kinds)
      count == stack_words_count(target, c.kinds)
      sp    == m.sp - bytes
  IN [sp  |-> sp,
      mem |-> Written(m.mem, [a \in {sp + 4 * j : j \in 0..count - 1} |->
                                PushedWord(c, 8 + (a - sp) \div 4)])]

LoadRegisters ==
  LET regs == reg_words_count(target, Top.kinds)
      rest == IF target # "rv32" \/ total_words(target, Top.kinds) <= 8
              THEN [sp |-> m.sp + Slot * regs, mem |-> m.mem]
              ELSE Packed(Top)
  IN /\ Depth > 0 /\ Top.phase = "arguments" /\ Top.pushed = Len(Top.kinds)
     /\ m' = [m EXCEPT
                !.reg = [r \in 0..7 |-> IF r < regs THEN PushedWord(Top, r) ELSE Junk],
                !.xmm = IF target = "x86_64" THEN XmmWords(Top) ELSE << >>,
                !.sp  = rest.sp,
                !.mem = rest.mem]
     /\ Step("call")
     /\ UNCHANGED <<target, made>>

\* The call instruction: x86 pushes the address to return to.
Jump ==
  /\ Depth > 0 /\ Top.phase = "call"
  /\ m' = IF target = "rv32" THEN [m EXCEPT !.ra = ReturnTo(Top.n)]
          ELSE [m EXCEPT !.sp = @ - W,
                         !.mem = Written(@, Word(m.sp - W, ReturnTo(Top.n)))]
  /\ Step("entry")
  /\ UNCHANGED <<target, made>>

\* Mutant: the words above the registers are dropped, the padding is not.
DroppedWords(c) ==
  Operand * c.operands
  + IF target = "rv32"
    THEN IF total_words(target, c.kinds) <= 8 THEN 0
         ELSE 16 * total_words(target, c.kinds) + stack_bytes(target, c.kinds)
    ELSE W * stack_words_count(target, c.kinds)

\* What the caller adds to the stack pointer when it goes on: it drops the
\* words of the call, and its operators pop the operands that waited.
Dropped(c) ==
  Operand * c.operands
  + IF target = "rv32"
    THEN IF total_words(target, c.kinds) <= 8 THEN 0
         ELSE 16 * total_words(target, c.kinds) + stack_bytes(target, c.kinds)
    ELSE W * stack_words_count(target, c.kinds) + stack_pad(target, c.kinds)

CleanUp ==
  /\ Depth > 0 /\ Top.phase = "returned"
  /\ m' = [m EXCEPT !.sp = @ + Dropped(Top), !.mem = Kept(@, m.sp + Dropped(Top))]
  /\ calls' = SubSeq(calls, 1, Depth - 1)
  /\ UNCHANGED <<target, made>>

-----------------------------------------------------------------------------
(***************************************************************************)
(* The callee.                                                             *)
(***************************************************************************)
\* The frame pointer is saved and set, with the return address on RV32.
FrameX86 ==
  LET fp == m.sp - W
  IN [m EXCEPT !.sp = fp - stack_size(target, Top.f), !.fp = fp,
               !.mem = Written(@, Word(fp, FrameOf(m.fp)))]

FrameRv32 ==
  LET sp == m.sp - stack_size(target, Top.f)
  IN [m EXCEPT !.sp = sp, !.fp = m.sp,
               !.mem = Written(@, [a \in {sp, sp + 4} |-> IF a = sp THEN m.ra ELSE FrameOf(m.fp)])]

\* The word a move of the prologue finds.
Source(machine, mem, move) ==
  IF move.from = "reg" THEN machine.reg[move.n]
  ELSE IF machine.fp + move.n \in DOMAIN mem THEN mem[machine.fp + move.n] ELSE Junk

OneMove(machine, mem, move) ==
  Written(mem, Word(machine.fp + move.to, Source(machine, mem, move)))

\* The moves, one after the other.
Moved(machine, moves) ==
  LET after[i \in 0..Len(moves)] ==   \* the first i moves
        IF i = 0 THEN machine.mem ELSE OneMove(machine, after[i - 1], moves[i])
  IN [machine EXCEPT !.mem = after[Len(moves)]]

\* The words of the variables, but for the va_list, and of the temporaries.
Scratch(f) ==
  {-(FirstLocal(target, f) + W * w) : w \in 2..f.locals}
  \cup {Temporary(target, f, slot) + W * w : slot \in 0..7, w \in 0..(16 \div W) - 1}

\* The prologue, after which the body uses all its variables and temporaries.
Enter ==
  LET framed == IF target = "rv32" THEN FrameRv32 ELSE FrameX86
      ready  == Moved(framed, Moves(target, Top.f))
  IN /\ Depth > 0 /\ Top.phase = "entry"
     /\ m' = [ready EXCEPT !.mem = Written(@, [a \in {ready.fp + s : s \in Scratch(Top.f)} |-> Junk])]
     /\ calls' = [calls EXCEPT ![Depth].phase = "body", ![Depth].frame = ready.fp]
     /\ UNCHANGED <<target, made>>

\* The va_list is the first variable of the function.
ap(c) == c.frame - (FirstLocal(target, c.f) + W)

VaStart ==
  /\ Depth > 0 /\ Top.phase = "body" /\ Top.f.is_varargs /\ ~Top.started
  /\ m' = [m EXCEPT !.mem = Written(@, Word(ap(Top), Address(m.fp + va_offset(target, Top.f))))]
  /\ calls' = [calls EXCEPT ![Depth].started = TRUE]
  /\ UNCHANGED <<target, made>>

AlignedStart(k, a) ==
  IF target = "rv32" /\ needs_8byte_align(k) THEN Multiple(a, 8) ELSE a

Extra(c) == SubSeq(c.kinds, Len(c.f.params) + 1, Len(c.kinds))

\* va_arg of the type of the next argument: its words are read, and the
\* va_list is left behind it.
VaArg ==
  LET k     == Extra(Top)[Len(Top.taken) + 1]
      start == AlignedStart(k, At(ap(Top))[2])
  IN /\ Depth > 0 /\ Top.phase = "body" /\ Top.started
     /\ Len(Top.taken) < Len(Extra(Top))
     /\ m' = [m EXCEPT !.mem = Written(@, Word(ap(Top), Address(start + W * WordsIn(target, k))))]
     /\ calls' = [calls EXCEPT ![Depth].taken =
                    Append(@, [w \in 1..WordsIn(target, k) |-> At(start + W * (w - 1))])]
     /\ UNCHANGED <<target, made>>

\* The initializer of a bit-field of a local variable pushes the address of
\* its unit on RV32, and nothing pops it.
InitializeField ==
  /\ Depth > 0 /\ Top.phase = "body" /\ target = "rv32" /\ Top.lost < MaxLost
  /\ m' = [m EXCEPT !.sp = @ - 4, !.mem = Written(@, Word(m.sp - 4, Junk))]
  /\ calls' = [calls EXCEPT ![Depth].lost = @ + 1]
  /\ UNCHANGED <<target, made>>

\* The epilogue, which finds the frame from the frame pointer, and the return.
Leave ==
  LET sp == IF target = "rv32" THEN m.fp - stack_size(target, Top.f) ELSE m.fp
      fp == IF target = "rv32" THEN At(sp + 4) ELSE At(sp)
      ra == IF target = "rv32" THEN At(sp) ELSE At(sp + W)
      up == IF target = "rv32" THEN m.fp ELSE sp + 2 * W
  IN /\ Depth > 0 /\ Top.phase = "body"
     /\ Top.f.is_varargs => Len(Top.taken) = Len(Extra(Top))
     /\ m' = [m EXCEPT !.sp = up, !.fp = fp[2], !.ra = ra, !.mem = Kept(@, up)]
     /\ calls' = [calls EXCEPT ![Depth].phase = "returned", ![Depth].back = ra]
     /\ UNCHANGED <<target, made>>

\* main has made its call.
Ended == made > 0 /\ Depth = 0 /\ UNCHANGED vars

Next == Call \/ PushArgument \/ LoadRegisters \/ Jump \/ CleanUp
        \/ Enter \/ VaStart \/ VaArg \/ InitializeField \/ Leave \/ Ended

Spec == Init /\ [][Next]_vars
-----------------------------------------------------------------------------
(***************************************************************************)
(* Properties.                                                             *)
(***************************************************************************)
Words(c, i) == [w \in 1..arg_words(target, c.kinds[i]) |-> Argument(c.n, i, w)]

\* A structure that the caller splits between the registers and the stack,
\* and the x86_64 callee expects on the stack as a whole, shifts what follows.
Straddles(c, i) ==
  /\ target = "x86_64"
  /\ \E j \in 1..i : LET last == LastWord(target, c.kinds)
                     IN last[j - 1] < 6 /\ 6 < last[j]

Bodies == {calls[k] : k \in {j \in 1..Depth : calls[j].phase = "body"}}

\* What the parser, the caller and the prologue each compute of the places of
\* the arguments agrees: as long as a function runs, whatever it calls, its
\* parameters are the arguments of its call.
ParametersArrive ==
  \A c \in Bodies : \A i \in 1..Len(c.f.params) :
    ~Straddles(c, i) =>
      \A w \in 1..arg_words(target, c.kinds[i]) :
        At(c.frame + Parameters(target, c.f).places[i] + W * (w - 1)) = Words(c, i)[w]

\* va_start counts one word for each parameter; on x86_64 the words behind
\* the twenty-second are not copied; on RV32 va_arg rounds addresses up to
\* eight, which finds the doubles of a frame on a multiple of eight: that is
\* a frame of a call that AlignedCalls speaks of.
WithinSaved(c) ==
  /\ LastWord(target, c.f.params)[Len(c.f.params)] = Len(c.f.params)
  /\ target = "x86_64" => total_words(target, c.kinds) <= 22
  /\ target = "rv32" => c.frame % 8 = 0

\* va_arg yields the arguments behind the parameters, in their order, also
\* when the function calls others in between: the saved registers and the
\* words on the stack are one array.
VariadicsArrive ==
  \A c \in Bodies : WithinSaved(c) =>
    \A j \in 1..Len(c.taken) : c.taken[j] = Words(c, Len(c.f.params) + j)

\* A call leaves the stack pointer and the frame pointer as they were and
\* returns to its caller, whatever was pushed, padded and packed for it, and
\* whatever its function left on the stack.
CallsBalance ==
  [][Len(calls') < Len(calls) =>
       m'.sp = Top.sp /\ m'.fp = Top.fp /\ Top.back = ReturnTo(Top.n)]_vars

InArguments == \E k \in 1..Depth - 1 : calls[k].phase = "arguments"

\* A function in progress has initialized a bit-field of a local variable.
LostWords == \E k \in 1..Depth : calls[k].lost > 0

\* The stack is aligned to sixteen bytes at a call instruction, also while
\* operands wait for the call.  Three kinds of calls are left out: those of
\* i386; on x86_64, those inside the arguments of another call; and on RV32,
\* those made after a function in progress has initialized a bit-field of a
\* local variable: the word that its initializer leaves misaligns them.
AlignedCalls ==
  /\ Depth > 0 /\ Top.phase = "call" /\ target # "i386"
  /\ ~(target = "x86_64" /\ InArguments) /\ ~LostWords
  => m.sp % 16 = 0

Before(c, i, kinds) == Cardinality({j \in 1..i - 1 : c.kinds[j] \in kinds})

\* Where a function of the C library finds its arguments.
SystemV(c) ==
  \A i \in 1..Len(c.kinds) :
    IF c.kinds[i] = "double"
    THEN m.xmm[1 + Before(c, i, {"double"})] = Argument(c.n, i, 1)
    ELSE m.reg[Before(c, i, {"char", "int"})] = Argument(c.n, i, 1)

\* A library function of x86_64 finds up to six numbers in its registers if
\* the integers come first: doubles use up the integer registers as well.
LibraryFinds ==
  (/\ Depth > 0 /\ Top.phase = "call" /\ target = "x86_64"
   /\ Len(Top.kinds) <= 6
   /\ \A i \in 1..Len(Top.kinds) : Top.kinds[i] \in {"char", "int", "double"}
   /\ \A i, j \in 1..Len(Top.kinds) :
        Top.kinds[i] = "double" /\ i < j => Top.kinds[j] = "double")
  => SystemV(Top)
=============================================================================
