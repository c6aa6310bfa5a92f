# CCIA in TLA+

CCIA (`src/`) is a self-hosting ANSI C90 compiler in C90: a driver, a
preprocessor, a lexer, a recursive-descent parser with a type system, three
code generators (x86_64, i386, RV32I), an IEEE 754 software floating-point
library, and a C runtime for RV32I Linux with its own allocator and stdio.
This directory holds TLA+ modules of its parts, the TLC runs that check them
on small instances, and proofs checked by TLAPS.  Paths below are relative to
the repository.

## 1. Inventory

| part | files | state it keeps | operations | what is hard about it |
|---|---|---|---|---|
| driver | `src/main.c` | options, the temporary `.tmp.s` file | preprocess, parse, generate, run `clang`, retry, remove the temporary | failure between two steps; several compilers at once on one source file |
| utilities | `src/util.c` | vectors, hash maps, string buffers | push/pop, put/get with resize | growth at the capacity; a NULL value means "absent" |
| lexer | `src/lex.c` | position in the source | next token | line numbers decide where a directive ends |
| preprocessor: directives | `src/cpp.c` | macro table, one stack of conditional groups, the recursion of `cpp_process` | one case per directive | groups nested in dead text, macros that change between branches, headers that include each other |
| preprocessor: macro expansion | `src/cpp.c` | the token list, the hide set of every token | substitute, paste, stringify, rescan | termination |
| preprocessor: `#if` expressions | `src/cpp.c` | position in the token list | ten levels of recursive descent | where the expression ends |
| types and symbols | `src/type.c`, `src/sym.c` | scopes of names and tags | enter, exit, declare, look up, complete a type; common type of two operands | shadowing; conversions |
| parser | `src/parse.c` | current token, scopes, current function, label counters, the layout of the struct it reads | declarations, statements, expressions, struct bodies | declarator syntax, static locals, bit-fields, the place of each parameter |
| code generators: statements | `src/gen.c`, `src/gen_i386.c`, `src/gen_riscv32.c` | label counter, break/continue stacks | one case per statement | jumps out of nested loops and switches |
| code generators: expressions | the same | eight temporaries in rotation, the stack of the generated program | one case per expression | width and sign of results, balance of the stack around library calls |
| code generators: calls | the same, and `src/parse.c` | places of arguments, parameters and variable arguments | call, prologue, `va_start`, `va_arg`, return | four pieces of code compute one place each for itself |
| code generators: objects | the same | bytes emitted, the unit of a bit-field | initializers, stores and loads of members | read, change and write a unit without touching neighbours |
| softfloat | `src/softfloat.c` | none | arithmetic, conversions, comparisons, decimal constants | carries between words, alignment, rounding |
| RV32 runtime: heap | `src/runtime_rv32.c` | physical and free lists of blocks, the break | malloc, calloc, realloc, free | pointer surgery over long call sequences; word arithmetic at the limits |
| RV32 runtime: stdio | `src/runtime_rv32.c` | FILE: descriptor, eof, error, one pushed-back character | fopen ... fclose, printf | short reads and writes; position against the pushed-back character |
| RV32 runtime: strings, qsort, arithmetic helpers | `src/runtime_rv32.c` | none | library functions | boundaries |
| RV32 runtime: processes | `src/runtime_rv32.c` | none | system, fork, execve, waitpid | a child that fails |

The parts interact by calls only: the driver runs the preprocessor to the end,
then the parser, which pulls its tokens, then a code generator, which walks the
tree and writes text, then `clang` as a child process.  There are no threads.
Concurrency comes in only where several compilers run at once (the Makefile's
stages share the sources) and through the file system.

### What makes each part correct

* Directives: a line is obeyed exactly when the C90 rule says so; a guarded
  header counts once; preprocessing ends; an error is reported in the file it
  is in.
* Macro expansion: the result is that of the standard and expansion ends.
* `#if`: the value is that of the expression on the line, and nothing else.
* Scopes: a name means the innermost visible declaration; leaving a scope
  restores the outer ones.
* Layout: members do not overlap, are aligned, and fit the structure; each keeps
  its value whatever is stored beside it.
* Expressions: the register, the objects and the stack are what C90 says.
* Calls: every argument arrives where the callee looks for it; the stack is
  aligned at the call and given back after it.
* Softfloat: results are the exact ones, rounded as the code rounds; order and
  conversions are those of the numbers.
* Statements: the jumps emitted execute the structured program.
* Heap: blocks in use do not overlap and keep their contents; the lists are
  exact; free neighbours are merged; failure changes nothing.
* stdio: the bytes delivered and the position reported are those of the file.
* Driver: exit status 0 means that the output is the translation of the input;
  no temporary file is left.

## 2. Plan

Order: the most stateful logic first, then what the other parts build on.

| step | modules | abstract specification | state |
|---|---|---|---|
| 1 | `CppConditionals` | `TextSelection` | checked; types, stack flags and the refinement proved |
| 2 | `RvHeap` | `HeapContract` | checked; `HeapInv` and the refinement proved |
| 3 | `MacroExpand` | `MacroReplacement` (the standard's algorithm) | checked |
| 4 | `Driver` | the assembly text a job delivers is its own | checked; proved for jobs whose files differ |
| 5 | `StatementParser`, `Statements`: statements from their tokens to jumps | `StructuredControl`, the order of the expressions | checked |
| 6 | `CTypes`, `Machine`, `Emission`, `GenX86`, `GenI386`, `GenRv32` | `CExpressions`: values and effects of C90 | checked |
| 7 | `FrameLayout`, `CallFrames` | each word where its parameter is | checked; proved but for what library functions find |
| 8 | `MultiWord`, `SoftFloat` | `SoftFloatLaws`: exact arithmetic | checked at reduced width; the words proved for every width |
| 9 | `RvStdio` | `StreamContract` | checked; ownership of descriptors and the refinement proved |
| 10 | `StructLayout`, `Aggregates` | the value C90 gives each member | checked; disjoint and well placed members proved |
| 11 | `IfExpressions` | the C90 grammar on the expanded line | checked |
| 12 | scopes of names and tags, completion of struct tags | a stack of functions, restored on exit | not done |
| 13 | `printf` and `scanf`; vectors and maps | | not done |

Theorems still worth proving, in order: `LibraryFinds` of `CallFrames`, from where
`ArgumentsInv` has the words of a call; `Coalesced` for programs without `realloc`;
what `SoftFloat` makes of the words, which are proved.

## 3. Modules and the code

**`CppConditionals`** is the loop of `cpp_process` (`src/src/cpp.c:879`) seen by
directives.  `frames` is the C call stack of `cpp_process`, one frame for the
main file and one for each `#include` in progress; `cond_stack` and `macros` are
the fields of `Preprocessor`, shared by all activations; `status` is how the
program ended.  One action per case of the loop: `If` (`#if`, `#ifdef`,
`#ifndef`), `Else` (`#elif`, `#else`), `Endif`, `Misplaced` (their errors),
`Skip` (the `if (!is_cond_active)` that passes over other lines), `Obey`
(`#define`, `#undef`, unknown directives, text), `Include`, `IncludeMissing`,
`IncludeOverflow`, `Return`.  Files are discovered as they are read: a run
covers every content of the files over the alphabet `Lines`.  `hist` is
history: no action tests it.

**`TextSelection`** says what conditional text means with no stack and no flags.
`CppConditionals` is shown to implement it with `hist` and `status` mapped to
themselves.

**`MacroExpand`** is `expand_macro`, `expand_token_vector` and the text loop of
`cpp_process`.  The two loops have the same turns; `frames` is the stack of them,
and the `call` of a frame is an `expand_macro` that waits for its arguments.
`Emit` delivers a token, `ReplaceObject` and `Call` meet a macro,
`ExpandArgument` and `ArgumentDone` are the call of `expand_token_vector` on an
argument and its return, `ReplaceCall` is the rest of `expand_macro`:
substitution, `#`, `##`, and the tagging of the result.

**`MacroReplacement`** is the reference: the recursive algorithm of the C90
committee, on sequences, in which the hide set of a result depends on the tokens
it replaces.

**`RvHeap`** is `malloc`, `calloc`, `realloc` and `free` of
`src/src/runtime_rv32.c`.  Its static variables, the block headers in memory and
the bytes are the record `heap`; the static functions (`insert_free_block`,
`remove_free_block`, `split_block`, `request_space`) are operators of the same
names from heaps to heaps; each library call is one action, made by a program
that fills its blocks with marks.  All `size_t` arithmetic is modulo `WordMod`;
`RoomAssumption` keeps requests away from the sizes that wrap it (section 5), all
but the arrays of `calloc`, whose product may.  `request_space` compares breaks as
longs (`Signed`): when the break moves from the lower half of the addresses to
the upper one it returns NULL, and what the kernel granted is lost.  From then on
(`Crossed`) `Tiling` allows a gap between two blocks, and asks as before that
they are in order, apart and linked both ways.
**`HeapContract`** is what the callers are promised; `RvHeap` implements it with
`data[s]` mapped to the bytes at `slots[s].ptr`.

**`Driver`** is `main` for the modes that write assembly text, for several
compilers at once: `pc[j]` is the place of compiler `j` in `main`, `stream[j]`
the inode its `asm_out` writes to, `emitted[j]` and `offset[j]` what it printed
and what reached the file, `dir` and `disk` the file system, with the assembly
files and the outputs of `clang` in it: a name may be both.  One action per step
with an effect outside the process: `FrontEnd`, `OpenFails`, `Open`, `Emit` (which
can fail), `GenerateFails` (`c90_error`), `Close`, `ClangSucceeds` (which makes a
new file under the name of the output), `ClangFails`, `Cleanup`.

**`StatementParser`** is `parse_stmt`, `parse_compound_stmt` and the function
definitions of `parser_parse`.  `ast` is the tree, `open` the C stack of
`parse_stmt` by its nodes, `switch_stack` and `label_seq` the fields of `Parser`,
`globals` the labels of static local variables.  One action per kind of
statement, which reads the tokens up to the next statement; `ReadElse` and
`ReadEnd` are the two outcomes of `match(p, TOK_ELSE)` and the returns.  The
program is a choice made token by token.  **`Statements`** adds the generator:
`gen_stmt` and its cases are operators (`GenIf`, `GenWhile` ...) from states of
the generator to states, with its two stacks, its label counter and the text;
`Generate` is `codegen_generate`, `Call` and `Execute` are the machine that runs
the result.  **`StructuredControl`** says where control goes in a tree of
statements, with no labels and no stacks; `Statements` implements it with `at`
mapped to the expression at `pc`.

**`IfExpressions`** is `eval_cpp_expr` and the ten functions below it.  A
function takes tokens and yields a value and the tokens it left (`*pcur`).  The
nine loops for the binary operators have one shape, `EvalLoop`, with the
operators of each as `Levels`; `EvalPrimary` splices the expansion of a macro
into the list in front of it, as the code does with `next`; `Expanded` is
`expand_token_vector` again, as one step.  The reference, `C90Value`, knows no
macros and no position: it splits a line at its weakest operator.

**`MultiWord`** is the arithmetic of `softfloat.c` on two and four words, with
the carry tests as they stand there; a word has `W` bits and an `unsigned long`
`LongBits`.  **`SoftFloat`** is what the library does with
mantissas and exponents (`Unpack`, `Pack`, `Add`, `Mul`, `Div`, comparisons,
conversions, decimal constants), once for the three formats where their code is
the same.  **`SoftFloatLaws`** states what is expected, on numbers `m * 2^e`; a
state is one call.

**`CTypes`** is `type.c` and the constructors of expression nodes in `parse.c`
(`ast_binary`, `ast_unary`, `type_max` ...).  **`Emission`** is what the three
generators share (code, labels, temporaries); **`GenX86`**, **`GenI386`** and
**`GenRv32`** are their `gen_lval`, `gen_expr`, `gen_cast_to`, `gen_cond` and
helpers under the names of the code, each an operator from a generator to a
generator.  **`Machine`** (external) runs the instructions, with the library
routines as single ones.  **`CExpressions`** is the reference: value, effects and
definedness of a typed tree.  It also marks the evaluations that meet a known
deviation (`gap`); section 5 lists them.

**`FrameLayout`** has the places of arguments as four pieces of code compute
them: `Parameters` (the parser), `arg_words` and `LastWord` (the call), `Moves`
(the prologue), `va_offset` (the variable arguments).  **`CallFrames`** runs calls: `BeginCall`,
`PushArgument`, `LoadRegisters`, `Jump`, `Enter`, `VaStart`, `VaArg`,
`InitializeField`, `Leave`, `CleanUp`, with a second call begun for an argument or
by the callee.  Operands of the operators around a call may wait on the stack
below it, each with the word that keeps the alignment (`Operand`; `pushq $0` on
x86_64).  `InitializeField` is the word that RV32 pushes for the initializer of a
local bit-field and never pops: it moves the stack pointer for the rest of the
function.

**`RvStdio`** is the stream functions of `runtime_rv32.c`; a stream has the fields
of `FILE`.  The kernel, external, may give less than was asked for, or fail.
Each function is one action; the system calls of a call are in its order.
**`StreamContract`** is C90 4.9: a file, a position, a pushed-back character, two
indicators.  `RvStdio` implements it with a stream mapped to what its descriptor
stands for.

**`StructLayout`** is the loop of `parse_struct_union_body`: the variables are its
local variables, `st` the type; `PlainMember`, `UnionMember`, `NewUnit`,
`NextBits` and `ZeroWidth` are the branches for one member, `EndBody` the rest
of the function.  **`Aggregates`** takes the finished type and makes an object of
it: `DefineStatic` is `gen_global_init`, `DefineLocal` is
`gen_local_initializer`, `Assign` and `Step` are assignment, `++` and `--` of a
member, through `gen_load`, `gen_store`, `gen_bitfield_load` and
`gen_bitfield_store`.  A target is the size of its registers.

The modules named `MC...` give the constants their values.  Definitions with the
comment "Mutant" are broken variants of the definition behind them, used to see
that the properties notice.

## 4. Runs

| run | bounds | checks |
|---|---|---|
| `cpp_texts` | one file of any 6 lines of 7 kinds; a main file and a header; two guarded headers that include each other, 4 activations | `TypeOK`, `CondInv`, `GuardedOnce`, `NestingEnds`, `ImplementsStandard`, `Terminates` |
| `heap` | 3 pointers, 73 bytes, of which the upper 28 are negative as longs; `malloc`, `calloc`, `free` of 0, 2, 5, 22 and three arrays; or `malloc(2)`, `realloc` to 0, 2, 9, `free` | `HeapInv`, `Coalesced`, `ImplementsContract` |
| `macro_texts` | 5 tables by all balanced texts of 7 tokens; 3 tables by all calls of 8 tokens; 2,200 conditions with every pair of operators | `AgreesWithC90`, `ConditionsRight`, `Terminates` |
| `macro_mutual` | `#define A B`, `#define B A`, text `A` | `Terminates` is violated |
| `driver_apart` | 3 compilers with `-S`, `-c` and link, two flushes each | `TempGone`, `JobInv`, `OwnOutput`, `Terminates` |
| `driver_stages` | 2 compilers with `-c` on one source | `OwnOutput` is violated |
| `statements` | one function of 3 statements of any kind; of 6 with `while`, `switch`, `case`, `break`, `continue`; of 6 with `switch`, `case`, `default`, `break`; of 4 with `if`, `do`, `for`, `continue`; one or two with 6 nodes, labels and a static variable | `Assembles`, `SwitchesOpen`, `ImplementsStructure` |
| `expressions` | 30,000 trees over variables of every type, three back ends, bytes of 3 bits | `ResultsRight`, `EffectsRight`, `StackBalanced` |
| `calls` | up to eight ints and two arguments of six kinds, fixed or variable, three back ends; a second call for an argument or by the callee, with an operand waiting for either and a local bit-field initialized before or after it | `ParametersArrive`, `VariadicsArrive`, `AlignedCalls`, `LibraryFinds`, `CallsBalance` |
| `softfloat` | formats of 6, 9 and 12 bits in words of 4 bits | `ArithmeticRounds`, `DifferencesClose`, `OrdersValues`, `ConversionsExact`, `MultiWordExact` |
| `streams` | one stream of a file of 3 bytes with every call; two streams of it; or stdin, stdout and the file; 4 descriptors | `DescriptorsOwned`, `ImplementsContract` |
| `aggregates` | structs and unions of up to 3 members of 3 types, named and unnamed bit-fields of 3 widths, zero widths; bytes of 2 bits; registers of 4 and 8 bytes; any initializers, one store | `TypeOK`, `MembersApart`, `Placed`, `ValuesKept`, `FieldResults`, `ImageSized` |

Why the bounds are enough.  Six lines hold two nested groups with an `#elif` or
`#else` in one of them, or three nested ones, and a macro that changes in
between; parent flags relate neighbours on the stack, so a third level repeats
the second.  In the third kind of `cpp_texts`, main, `a.h`, `b.h` and the second `a.h` are the
four activations that guards allow: `NestingEnds` says that a fifth is never
wanted.  A chunk of the heap holds four smallest blocks: every shape of a
merge (with the next, the previous, both, across chunks, none), a failing
`brk`, a request larger than a chunk, a `calloc` whose product wraps to 4 and
would give a block too small.  The second chunk crosses the middle of a word, at
62: `malloc` fails with the break moved, and the next chunk lies behind the gap.
Seven
tokens hold a call nested in a call, a call made by a body with an argument
from the text behind it, and a name without a call.  Six
statements in a body hold a loop with a switch in it, a case that falls through
to the next and a `continue` or `break` in it; every kind of statement is met inside and
after every other kind; the condition of each takes both values each time.
Two flushes are enough for
another compiler to come between them.  Eight ints fill the registers of every
back end, and two more arguments of any kind straddle their end; one
operand moves the stack pointer by what every further one does, and one bit-field
takes it off the multiples of 8.  The formats
of `softfloat` keep the relations of the real ones (a mantissa in one, two and
four words, with room for a carry), and all exponents of a `float` and the near,
far and extreme ones of the others occur.  The trees of `expressions` have up to
three operators, enough for a value to wait on the stack while a library routine
and a second temporary are used; with bytes of 3 bits each width keeps a width of
its own.  Three members hold a unit that is opened, continued and closed, a field
between two others, and a field that just fills or misses its unit; an object
gets values first, so that one more store shows a bit that strays.

`VIEW` in `heap` drops the headers that no list reaches, which calls of a
correct program never read; in `streams` it drops the last answer, which no call reads (the refinement is
about every step, also one into a state already seen), and the place of the
pushed-back character of a stream that has none.  `SYMMETRY` permutes the
pointers, which `heap` treats alike; it checks no liveness.
`CHECK_DEADLOCK` is off in `statements`, where a function
returns, loops without an expression, or a file stays unfinished at the bound, in
`expressions`, where a state is one tree, and in `aggregates`, where an object
has had its store: the others stutter when they have ended.

Fairness.  The preprocessor is one thread that keeps running: `WF_vars(Process)`.
In `Driver` each compiler is a process the system keeps scheduling:
`WF_vars(Step(j))` for each job; nothing is assumed of the choice between
success and failure.

## 5. What the runs show

The stack of flags with its early computed `parent_active` selects the text that
the standard selects, across includes and redefinitions; guards bound the
nesting; the heap's lists stay exact under all mixes of calls and the promises
of the library hold; macro expansion agrees with C90 on every program of the run
to which C90 gives a meaning, and a condition on a line of its own has the value
the grammar gives it; a driver whose files are its own delivers its own
translation and removes its temporary on each path after `clang`; the jumps of
the statements execute the structured program, Duff's switch into a loop and
`goto` into a block included; the place of a named `int`, `double`, pointer or
structure parameter, and of a variable argument, is the one the caller uses;
streams obey C90 where the program keeps to what is listed below; the members of
a structure keep their values whatever is stored beside them; the softfloat
library truncates exactly, orders and converts correctly on ordinary numbers;
and expressions have the value, the effects and the balanced stack of C90 in all
three back ends, except in the places that follow.

Disagreements between the code and what the repository says, each shown by a
run:

* `macro_mutual`: the hide set of a replaced token is dropped
  (`cpp.c:529`), so names that stand for each other are expanded for ever.
* `driver_stages`: the temporary file is named after the source alone
  (`main.c:312`), so two compilers on one source can mix their texts and exit
  with 0.

Others were met on the way.  No run is about them: the models leave out the inputs
that lead to them, or mark the evaluation as a known deviation (`gap` in
`CExpressions`).  Those of x86_64 and of the front end were confirmed with the
compiled program, the others by reading.

*Preprocessor*

* A string literal in a macro body is taken for a parameter with the same text
  (`cpp.c:466`): after `#define f(x) "x" x`, `f(1)` gives `1 1`.
* `README.md:79` lists `__VA_ARGS__`; `cpp.c:1028` drops the `...` and the name is
  delivered as it stands.  `README.md:81` lists `__DATE__` and `__TIME__`, which
  nothing defines.
* The lost hide set also changes finite results: with `f(x)` standing for `g` and
  `g` for `f`, `f(1)(2)(3)` gives `f` and not `f(2)(3)`.
* An `#endif` in a header closes a group of the includer, as the stack is shared,
  and no `#endif without #if` is reported (`cpp.c:990`).
* The token list has no line ends (`cpp.c:907`): a line after `#if V` that starts
  with an operator, `(` included when `V` is a function-like macro, is read as
  part of the condition.
* A macro with an empty expansion counts as 0 in a condition, where C90 leaves
  nothing (`cpp.c:671`).

*Types and objects*

* A `struct S { ... }` in an inner scope completes or changes the `S` of an outer
  one (`parse.c:777`).
* `README.md:93` promises automatic zero-padding: a local aggregate with fewer
  initializers than members keeps the rest of the stack (`gen.c:1276`); a union
  with an initializer is emitted as four bytes; a local
  `struct { double d; int i; } s = { 1.5, 2 }` stores the bits of an `int` in `d`
  (`parse.c:1416`).
* `extern int a[]; int a[3];` keeps the type without a size (`parse.c:1875`).
* A bit-field of 32 bits does not assemble on x86_64, whose `andq` has no such
  operand; on the other two the mask is `1 << 32` of the host
  (`gen_i386.c:170`).

*Expressions* (`README.md:98`: "Standard integer promotions and usual arithmetic
conversions.")

* The common type is the type of the wider operand, or the first unsigned one
  (`type.c:208`), without the promotion to `int`: `uc > -1` is false for an
  `unsigned char`, and `-c` and `~c` of a `char` have type `char`
  (`parse.c:115`).
* On x86_64 an `unsigned int` sum keeps its carry in bit 32 of the register:
  `u + 1 == 0` is false for the largest `u`, and a condition is tested on the
  whole register (`gen.c:1364`), so `if (u + 1)` is taken.  `if (d)` is taken for
  a `d` of -0.0, and a condition on a `long double`, or on a `double` in the
  32-bit back ends, tests the address of the number.
* A compound assignment is done and stored in the type of the operation:
  `a[0] += 255` on an array of `char` changes `a[1]`; `i += 1.5` and
  `f += 1.0` store the bits of a `double`.
* The arms of `?:` are not converted to its type; a `return` has no conversion on
  x86_64 and i386; local initializers have none anywhere.
* A `long` that does not fit an `int` becomes the floating-point number of its low
  word; a cast of a negative `float` to a type of up to four bytes leaves the
  upper half of an x86_64 register zero; on RV32 a cast from `double` to `float`
  yields the address of its operand, and `x++` of a `long double` stores through
  the wrong register.
* Eight temporaries are used in rotation, so the operands of a deep expression can
  be overwritten; an i386 function that returns a `double` returns an address in
  the frame it has left.

*Calls* (`README.md:108`: "System V AMD64 ABI compliant", "16-byte stack frame
alignment")

* `va_start` counts parameters, not words: after a structure of two words as the
  last named parameter the first variable argument is read one word too early.
* On x86_64 doubles use up integer registers, so that
  `printf("%f %d\n", 1.5, 7)` prints 0 for the 7; a structure that begins in the
  sixth register arrives torn; `long double` parameters are not found; a call
  among the arguments of a call leaves the stack at 8 modulo 16; a variadic
  function sees 22 words.
* On i386 and RV32 `va_arg` of a global `va_list` uses it as a local one.
* On RV32 the initializer of a local bit-field pushes the address of its unit
  (`gen_riscv32.c:1464`), and `gen_bitfield_store` does not pop it.  The word stays
  until the function returns, and each turn of a loop adds one.  Every later call
  of the function, and the frames of all the functions it calls, are off the
  multiple of 16 that `gen_riscv32.c:1934` ("16-byte aligned stack frame") and
  `README.md:59` ("16-byte aligned frames") promise, unless four such words make
  up for each other.  It has a result a program can see: `va_arg` of a `double`
  rounds the address up to a multiple of 8 (`gen_riscv32.c:1052`), while the caller
  counts words from its own stack pointer, so in a frame that is off by 4 the
  wrong two words are read.  `AlignedCalls` and `WithinSaved` leave these calls out;
  without `~LostWords` in the one, or the last conjunct of the other, TLC finds
  both failures in `calls`.

*Softfloat* (`README.md:104`)

* `__floatditf` keeps the low word of a `long` and loops for ever on
  `1L << 32` (`softfloat.c:1535`); `__floatdisf` and `__floatdidf` keep it, too.
* `mul32x32_to_64` adds its two middle products and a carry in an `unsigned long`
  (`softfloat.c:50`).  The sum can reach twice 2^32: where a `long` is as wide as
  an `int` it wraps.  The library of the RV32 target is built for such a machine
  (`Makefile:155`), and there 0xFFFFFFFF times itself gives 0xFFFEFFFE00000001, the
  carry into bit 48 of it lost.  Products of `double` and `long double` whose
  mantissas have many bits are wrong; the mantissas of a `float` are too short.
  TLC shows it when `softfloat` is run with `LongBits = 4`.
* Results are truncated, not rounded to the nearest; subtraction has no guard
  bits; an infinity takes part as a number with the largest exponent; there are
  no NaNs and no subnormal results.

*Statements*

* The assembler label of a user's label has no function in its name
  (`gen.c:1508`), so two functions with a label `out` define `.L_user_out` twice;
  `README.md:100` promises scoping for labels.
* The labels of static local variables are numbered by the parser
  (`parse.c:1670`), those of the statements by the generator (`gen.c:32`), in one
  name space: `static int ret;` in the first function gives `.L_ret_1` twice.

*Runtime*

* The guard against a double free (`runtime_rv32.c:309`, "Prevent corruption or
  double free") does not recognise a block that was merged into the one before
  it.
* After `realloc` to a smaller size the free rest is not merged with a free
  neighbour (`runtime_rv32.c:382`); the section is headed "Full Coalescing
  Free-List Allocator".  `Coalesced` is about the programs without `realloc`.
* `malloc` of one of the fifteen largest sizes returns a block of no bytes, and
  one just under 2^32 moves the break below the last block before it fails
  (`runtime_rv32.c:237`, `:284`).
* `request_space` compares the old and the new break as `long`
  (`runtime_rv32.c:228`, `:238`).  When the break goes from below 2^31 to above it,
  `malloc` returns NULL although the kernel has moved the break, and that memory
  is in no block.  Later chunks begin behind it.  Nothing overlaps: `RvHeap` has
  this case.  Two free blocks with the gap between them count as neighbours; when
  they are merged the size is the sum of theirs, and the end of the second is
  lost as well.
* `fread` that meets the end after some bytes sets no indicator until the next
  call; `ftell` and `fseek` ignore a pushed-back character; a second `ungetc`
  overwrites the first; `"w+"` and `"a+"` open for writing only; a short write
  sets no error; `fgets` returns a partial line when a read fails.

*Driver*

* The driver looks at no result of `fprintf` or `fclose` (`main.c:327`): on a full
  disk `-S` ends with status 0 and part of the text.  `Driver` has the failing
  write; `OwnOutput` is stated for jobs whose writes succeed.
* `ccia -c -o x.tmp.s x.c` makes its object under the name of its own temporary,
  removes it and ends with status 0 (`main.c:350`).  `FilesApart` excludes it.

## 6. Proofs

`CppConditionals_proofs`, for every set of files, macros and lines and for all
bounds, from the assumptions named in `CppConditionals`:

* `TypeCorrect`: `Spec => []TypeOK`.  One step per action; the lemmas are about
  what each part of an action (reading, going on, recording) does to one
  variable.
* `FlagsAgree`: `Spec => []CondInv`.  `CondInv` is inductive next to `TypeOK`
  because of its two halves together.  `ParentsAgree` (a group's
  `parent_active` holds exactly if all groups below it are active) would be
  broken by an `#else` that changes a group with others above it; `Branch`
  only touches the top one.  `TakenInLiveText` is needed so that a branch is
  never opened under dead groups.
* `TopDecides`: under both, `is_cond_active`, which scans the whole stack, is
  equivalent to the `active` flag of the innermost group.

`CppSelection_proofs`, under the same assumptions:

* `SelectsAsStandard`: `Spec => ImplementsStandard`, the refinement of
  `TextSelection`.  The two sides share only the history of the lines, and
  `TextSelection` finds groups in it by counting.  `StackMeans` is the link: the
  groups that are open at the end of the history are as many as the flags on the
  stack, one at each depth (`GroupsFound`); the flags at depth `i` say whether
  the text is selected as far as the groups down to `i` decide it, and
  `branch_taken` whether a branch of that group was (`FlagsMean`).  It rests on
  `FlagsAgree`.

`Driver_proofs`, for every set of jobs, all file names, and any length of the
text, under `FilesApart` (no two jobs share an assembly file or an output, and no
output of `clang` is an assembly file, that of its own job included; the jobs of
`driver_stages` share one, and there the conclusion fails):

* `FilesKept`: `Spec => []JobInv`.  `OwnOutput` is not inductive: that a job
  delivers its own text depends on what every step before did to the path, the
  inode and the stream.  `JobInv` says that the path of a job leads to the inode
  of its stream from `fopen` to `remove` (`OwnText`), with what it has written
  so far in it; that no two streams write to one inode (`StreamsApart`), for
  which the path must be new when it is opened (`Unopened`); that `clang` runs on
  a complete text (`Complete`); and that its output stays, as no stream writes to
  it (`OwnMade`).
  Steps that touch no file share one lemma (`QuietStep`); `OpenStep`, `EmitStep`,
  `ClangSucceedsStep` and `CleanupStep` show for each of the others what it does
  to its own job and why it leaves the others alone.
* `TempRemoved`: `Spec => []TempGone`, and `DeliversOwn`: `Spec => OwnOutput`,
  both from `FilesKept`.

`RvStdio_proofs`, for every set of files, streams and calls, whatever the kernel
answers:

* `DescriptorsAlwaysOwned`: `Spec => []DescriptorsOwned`, the open descriptors are
  those of the streams, one each: none is lost by a call that fails, none is
  shared, none survives its `FILE`.  The invariant adds the range of `fd`; only
  `fopen` and `fclose` need an argument, and for the rest it is that a stream
  that reads, writes or moves keeps the set of descriptors (`InputSame`,
  `OutputSame`).
* `StreamsAsInC90`: `Spec => ImplementsContract`, the refinement of
  `StreamContract`, under `ModeAssumption` (the modes are those the contract
  knows).  The invariant, `StdioInv`, is `DescriptorsOwned` with the types of the
  kernel's tables: that descriptors are owned is what lets a call on one stream
  leave what the others stand for alone.  There is one lemma for each call,
  `<Call>Implements`: the bytes delivered, the position, the pushed-back
  character and the indicators are those of the contract's step of that name,
  however short the kernel's answers are.  `fgets` is a recursive function over
  the bytes still wanted; what it reads is shown by induction on that number.

`StructLayout_proofs`, for every set of types, width of a byte and number of
members:

* `LayoutKeepsMembersApart`: `Spec => []MembersApart`, no two members of a
  structure, bit-fields included, have a bit in common.  `MembersApart` alone says
  nothing of the member to come.  `LayoutInv` adds where the free part begins:
  `BelowFree` (the members so far end before it), `OpenUnit` (an open unit of
  bit-fields is the last thing before `current_offset`, and what is used of it
  fits) and `UnionHasNoUnit`.  `AppendApart` is the step all branches share: a
  member put into the free part keeps the invariant.
* `LayoutPlacesMembers`: `Spec => []Placed`, each member is aligned and inside the
  structure, whole units of bit-fields included, and the size is a multiple of
  the alignment.  `PlacedInv` adds that `max_align` is 1 or the alignment of some
  type (`MaxIsAlign`), and where an open unit stands (`UnitAligned`).  It needs
  `AlignAssumption`, that of two alignments the smaller divides the larger
  (`type.c` has 1, 2, 4, 8 and 16), and that bit-fields have types whose size is
  their alignment (`BitTypes`): the unit of a bit-field is aligned to its size.

`RvHeap_proofs`, for every size of the heap, the word, the header, the page and
the chunk, every alignment, any number of pointers and any requests below the
wrap, wherever the break starts and ends, also where it crosses to the negative
longs, from the assumptions named in `RvHeap`:

* `HeapIsSound`: `Spec => []HeapInv`.  `HeapInv` walks the two lists as a reader of
  the code would, along recursive functions, and a walk says nothing of a step
  in the middle of a list.  The inductive invariant, `HeldInv`, is about sets:
  there is a set `B` of blocks in order and apart below the break (`Tiled`:
  each block ends before the one that `next_phys` and `prev_phys` put behind it, or
  the break, and until the break has crossed it ends right there, `Whole`); a part `S` of it is on the free list, with a rank that
  grows along `next_free` (`OnFreeList`), so that the list cannot come back to
  itself; the flag `is_free` says which blocks are in `S`; and `B \ S` are the
  blocks of the program's pointers, one each and large enough.  Each operator on
  the lists has a lemma for what it yields (`...Gives`) and one for the sets
  after it (`...Sound`); a merge takes a block out of `B`, `split_block` and
  `request_space` put one in.  That `HeldInv` implies `HeapInv` is an induction
  along the two walks (`WalkCovers`: a walk meets every member).
  `RequestAssumption` and `RoomAssumption` are needed in the arithmetic of
  `size_t`: the sizes whose rounding or addition to the break wraps are excluded,
  and there the conclusion fails (section 5).  `AlignableAssumption` says that the
  kernel grants the few bytes that align the first break where these would lead
  from the lower half into the upper one; breaks are whole pages.
* `HeapAsInC90`: `Spec => ImplementsContract`, the refinement of `HeapContract`.
  Beyond `HeldInv` it is about bytes: `Keeps` says that a function leaves the sizes
  and bytes of the blocks in use, which holds of each operator on the lists since
  it writes headers only, and headers of blocks that are apart.  `realloc` shrinks
  its block, or grows it over the next one, or copies it to another; `calloc` zeroes what it returns
  and refuses a product that wraps; a call that fails leaves the bytes of all
  blocks as they were.

TLC checks `HeapInv` itself in `heap`; `HeldInv`, whose sets and ranks it would
have to find, it does not, and need not: the theorem `HeldAlways` proves it.

`MultiWord_proofs`, for words of any even width, from `WordsAssumption`:

* `WordsAsNumbers`: for operands that fit, `WordsExact` holds, and `MultiWordExact`
  where `LongBits > W`, as on x86_64.  The hypothesis is needed: see section 5 for
  the carry that is lost without it.  `WordsExact` is `MultiWordExact` without the
  products.  Each operator has a lemma that says which number it yields; what two
  of them have in common is a chain of carries (`Chain`): if each digit of a number
  takes something from the place below and gives something to the place above, the
  two numbers differ by what leaves the highest place.  The tests of `u128_add` and
  `u128_sub` find these carries (`CarryIs`, `BorrowIs`), shifts are moves by whole
  words and by bits (`MovedUp`, `MovedDown`, `ShiftWords`), a row of `__multf3` adds
  its word times the other mantissa at its place (`AddRowIs`), and a turn of a
  division keeps numerator = quotient * divisor + remainder for the bits taken so
  far (`TurnIs`).  Divisors are at most half the range, so that the remainder,
  shifted, does not lose its highest bit; a mantissa is far below that.

`CallFrames_proofs`, for every set of functions and calls, any lists of arguments
and parameters, any number of locals, any depth of calls, any number of operands that wait and
of local bit-fields, from `CallsAssumption` (the parameters of a function are the
first arguments of its calls, and `MaxOperands` is a number):

* `FramesStand`: `Spec => []FramesInv`.  That a call ends as it began says nothing
  of the steps in between, so `FramesInv` says of each call in progress, by its
  phase, what the stack has for it: before the jump the words pushed so far, at
  the jump the return address, in the body the frame between its words and the
  calls made from it, with the return address and the caller's frame pointer where the
  epilogue of that back end will look for them, and after the epilogue the words
  the caller still has to drop (`Levels`).  What lies between a call and its
  caller's stack are its operands and its padding (`Room`); below a frame are the
  words lost to bit-fields (`FrameEnd`), which the epilogue passes over since it
  starts from the frame pointer.  Calls lie one below another (`Descending`).  What the prologue saves and the body stores lies in the frame,
  below the two saved words: this rests on lemmas about `FrameLayout`, that the
  places of the parameters and of the saved registers are within what
  `gen_func_def` reserves, by induction over the parameters.
* `CallsComeBack`: `Spec => CallsBalance`, and `CallsOnAlignedStack`:
  `Spec => []AlignedCalls`, both from `FramesStand`.  For the second `FramesInv`
  has `Aligned`: frames are rounded to 16 bytes, a waiting operand takes 16, and
  what a call pushes or packs is padded to 16 on x86_64 and RV32.  It speaks of the
  calls with no lost word in a function in progress (`Unshifted`), as
  `AlignedCalls` does: on RV32 the calls after the initializer of a local bit-field
  are not covered, and are misaligned, and neither are those of x86_64 made for an
  argument of another call, nor any of i386 (section 5).
* `ParametersReach`: `Spec => []ParametersArrive`, and `VariadicsReach`:
  `Spec => []VariadicsArrive`, both from `ArgumentsStand`: `Spec => []ArgumentsInv`.
  `ArgumentsInv` follows each word of an argument: by its rank among all the words
  (`Rank`) it is in its slot as soon as it is pushed (`PushedIn`), after
  `LoadRegisters` in the register of that number or as far up the stack
  (`PassedIn`), in the body at the place of its parameter (`ParametersIn`) and, if
  others may follow, in the array of registers and stack words (`ArrayIn`), in
  which the va_list is as far as the arguments that were taken (`ListIn`,
  `TakenIn`).  `FramesInv` gives what calls in between leave alone.  That the
  prologue moves each word to its place is about three counts that the code makes
  separately, of the registers in the parser, in the call and in the prologue:
  `CountedX86`, `CountedRv32` and `CountedI386` say that they agree as far as no
  structure straddles the last register of x86_64, and `MovesReach` that no move
  overwrites what another one carries.  `va_arg` skips a word on RV32 where the
  caller did, in a frame on a multiple of 8 (`SkippedAgree`).  The conditions are
  those of the properties: `Straddles` for the one, and for the other that the
  parameters are a word each, that x86_64 copies all the words and that the RV32
  frame is on a multiple of 8 (`WithinSaved`); without them both fail (section 5).

The prover has no facts about powers, and gets them from the number of subsets of
`1 .. n` (`PowIs`).  Recursive functions are shown to exist (`Recursion`) before
anything is concluded from their equations.

The prover's library states induction for operators that are passed as
arguments, which the provers here cannot instantiate.  The inductions above are
done for sets of numbers instead: a set of naturals that is not empty has a least
member (`WFMin` with `NatLessThanWellFounded`).

Checked by TLC only: the refinement of `StructuredControl`; `GuardedOnce`,
`NestingEnds`, `Coalesced` and `LibraryFinds`; what the floating-point formats,
`Aggregates` and the expressions compute; all liveness properties, as liveness under fairness is out
of the prover's reach.  So are `MacroReplacement`, `IfExpressions`, `Statements`
and the modules of the expressions and of `Aggregates`, which are recursive.

## 7. What is abstracted or not modelled

* `CppConditionals`: the value of an `#if` is that of one macro; a line of text
  starts with a token that cannot continue an expression (the evaluator reads
  past the end of the line otherwise); files end with a newline.
* `IfExpressions`: numbers are 0 to 3 and shifts below 16, as the width of the
  host's `long` is left out; `defined NAME` is one token of a text; the macros of
  a condition have an expansion that is not empty.
* `StatementParser`: the programs are those C90 allows; the parser itself takes a
  `break` outside a loop, a second `default`, a `goto` without a label.  Labels of
  two functions and prefixes of the generator are kept apart (see section 5).
  Expressions, with the labels `&&`, `||` and `?:` need, are one instruction.
* `MacroExpand`: `__FILE__` and `__LINE__` are plain names; texts have no `#` of
  their own; two spellings pasted together form one token.
* `Machine`, and so the expressions: floating-point numbers are whole numbers of
  a sign and a magnitude, and a library routine is one instruction; a comparison
  with its `setcc`, and a copy of an object, are one.  Calls and string literals
  are not among the trees.
* `CallFrames`: a word is a token that says where it comes from; floats and
  pointers are words; what functions return, the other builtins, a call in the
  operand of `va_copy` (`gen.c:910`) and the temporary of an indirect call are left
  out; operands that wait have places and no values; the caller of all calls,
  `main`, initializes no bit-field itself; `long double` is not passed on x86_64;
  what lies below the stack pointer is lost at once.
* `MultiWord`: `u128_div` is called with mantissas as divisors only, and its laws are
  stated for divisors of at most half the range.
* `SoftFloat`: the wrappers that repack arguments into words are left out, with
  what they truncate (section 5).
* `Aggregates`: a member fits a register; members are no aggregates themselves;
  unions have no initializer; a member that a local initializer does not name
  has no known value, where C90 makes it 0; the words its initializer leaves on
  the RV32 stack are in `CallFrames`.
* `RvHeap`: a header is valid until something is written over any part of it,
  even over a part other than the magic; bytes given back are forgotten.
* `RvStdio`: standard input is a pipe with short reads, standard output a terminal
  that keeps nothing; a program writes, positions and tells only when no
  character is pushed back, removes only files that are not open, and does not
  use `"w+"` or `"a+"`.  `printf`, `scanf` and their relatives are not modelled.
* `Driver`: the front end and `clang` are single steps; inputs are in the current
  directory; text whose write failed is lost.
* Not modelled: the scopes of names and tags (`sym.c`); declarators and the parsing
  of initializer lists; inline assembly; the lexer, and the vectors, maps and
  buffers of `util.c`, which the other modules take as sequences and functions;
  strings, `qsort` and the division helpers of the runtime, which keep no state;
  its processes, which are system calls in a row; its headers, which declare
  only.
