--------------------------- MODULE MCExpressions ---------------------------
(***************************************************************************)
(* Expressions over the variables of one function, compiled by the three   *)
(* generators and run: what the code leaves in the register and in memory  *)
(* against what C90 says.                                                  *)
(***************************************************************************)
EXTENDS CExpressions, TLC

CONSTANT StackSize  \* of the function

X86  == INSTANCE GenX86
I386 == INSTANCE GenI386
Rv   == INSTANCE GenRv32

VARIABLES target,   \* the back end
          values,   \* which values the variables have
          memory,   \* at the start
          tree,     \* the expression
          outcome   \* what running its code led to, and what C90 says

vars == <<target, values, memory, tree, outcome>>

-----------------------------------------------------------------------------
(* The variables: 96 bytes below the frame pointer, and one global.        *)

Local(type, offset) == ast_var([type |-> type, address |-> -offset, is_global |-> FALSE])

field(type, offset, bit_offset, bit_width) ==
  [type |-> type, offset |-> offset, bit_offset |-> bit_offset, bit_width |-> bit_width]
struct == type_new("STRUCT", 8)

c(t)  == Local(type_char, 1)
uc(t) == Local(type_uchar, 2)
s(t)  == Local(type_short, 4)
i(t)  == Local(type_int, 8)
j(t)  == Local(type_int, 12)
u(t)  == Local(type_uint, 16)
l(t)  == Local(type_long(t), 24)
ul(t) == Local(type_ulong(t), 32)
p(t)  == Local(type_pointer_to(t, type_int), 40)
a(t)  == Local(type_array_of(type_int, 3), 52)
f(t)  == Local(type_float, 56)
st(t) == Local(struct, 64)
d(t)  == Local(type_double, 72)
e(t)  == Local(type_ldouble, 88)
ps(t) == Local(type_pointer_to(t, struct), 96)
g(t)  == ast_var([type |-> type_int, address |-> Frame + 16, is_global |-> TRUE])

b(t) == ast_member(st(t), field(type_int, 0, 0, 3), FALSE)
w(t) == ast_member(st(t), field(type_uint, 0, 3, 2), FALSE)
n(t) == ast_member(ps(t), field(type_char, 4, 0, 0), TRUE)

IntLit(v) == ast_int_lit(v, type_int)
Constants == 0 .. 3
Label(v, type) ==
  Frame + 32 + (IF type.kind = "FLOAT" THEN 4 * v ELSE IF type.kind = "DOUBLE" THEN 16 + (8 * v) ELSE 48 + (16 * v))
Real(v, type) == ast_float_lit(v, type, Label(v, type))

-----------------------------------------------------------------------------
(* Two memories: small values, and those at the ends of the types.         *)

Extreme(type) == IF type.is_unsigned THEN Span(type.size) - 1 ELSE -(Span(type.size) \div 2)

Scalars(t, k) ==
  IF k = "small"
    THEN << <<c(t), 3>>, <<uc(t), 6>>, <<s(t), -5>>, <<i(t), 7>>, <<j(t), -3>>, <<u(t), 9>>, <<l(t), 20>>,
            <<ul(t), 5>>, <<f(t), 2>>, <<d(t), -3>>, <<e(t), 4>>, <<p(t), Frame - 48>>, <<b(t), -2>>, <<w(t), 3>>,
            <<g(t), 1>> >>
    ELSE << <<c(t), -4>>, <<uc(t), 7>>, <<s(t), 31>>, <<i(t), Extreme(type_int)>>, <<j(t), 0>>,
            <<u(t), Extreme(type_uint)>>, <<l(t), IF t = "x86_64" THEN 5000 ELSE 2047>>, <<ul(t), Extreme(type_ulong(t))>>,
            <<f(t), 0>>, <<d(t), 0>>, <<e(t), -2>>, <<p(t), Frame - 52>>, <<b(t), 3>>, <<w(t), 0>>, <<g(t), -1>> >>

Numbers(types) == {Real(v, type) : v \in Constants, type \in types}

RECURSIVE Written(_, _)
Written(mem, pairs) ==
  IF pairs = << >> THEN mem
  ELSE LET x == Head(pairs)[1]
           at == IF x.kind = "MEMBER" THEN Frame - 64 + x.member.offset
                 ELSE IF x.kind = "FLOAT_LIT" THEN x.label
                 ELSE IF x.sym.is_global THEN x.sym.address ELSE Frame + x.sym.address
       IN  Written(WriteObject(mem, at, x, Head(pairs)[2]), Tail(pairs))

RECURSIVE Listed(_)
Listed(xs) == IF xs = {} THEN << >> ELSE LET x == CHOOSE y \in xs : TRUE IN << <<x, x.val>> >> \o Listed(xs \ {x})

Memory(t, k) ==
  LET unset == [x \in 1 .. Frame + 160 |-> 5] \o << >>
      array == Put(Put(Put(unset, Frame - 52, 4, 2), Frame - 48, 4, Span(4) - 1), Frame - 44, 4, 3)
      record == Put(Put(array, Frame - 60, 1, 1), Frame - 96, PtrSize(t), Frame - 64)
  IN  Written(record, Scalars(t, k) \o Listed(Numbers({type_float, type_double, type_ldouble})))

-----------------------------------------------------------------------------
(* The expressions.                                                        *)

Integers1(t) == {c(t), uc(t), s(t), i(t), j(t), u(t), l(t), ul(t), b(t), w(t), n(t), IntLit(1), IntLit(2)}
Floats(t) == {f(t), d(t), e(t), Real(2, type_double), Real(1, type_ldouble), Real(3, type_float)}
Numbers1(t) == Integers1(t) \union Floats(t)
Pointers(t) == {p(t), a(t), ast_unary(t, "ADDR", i(t))}
Elements(t) == {ast_unary(t, "DEREF", p(t)), Index(t, a(t), IntLit(2)), g(t)}
Most(t) == {c(t), uc(t), i(t), j(t), u(t), l(t), ul(t), w(t), IntLit(2), f(t), d(t), e(t)}
Few(t) == {uc(t), j(t), u(t), l(t), w(t), d(t), f(t)}

Objects(t) == Elements(t) \union {c(t), uc(t), s(t), i(t), u(t), l(t), ul(t), b(t), w(t), n(t), f(t), d(t), e(t)}

Types(t) == {type_char, type_uchar, type_short, type_ushort, type_int, type_uint, type_long(t), type_ulong(t),
             type_float, type_double, type_ldouble}

Floating(x) == type_is_floating(x.type)
Fits(op, x, y) ==
  op \in {"MOD", "SHL", "SHR", "BITAND", "BITOR", "BITXOR"} => ~Floating(x) /\ ~Floating(y)

Unary(t, x) ==
  \/ \E op \in {"NEG", "BITNOT", "LOGNOT", "POS"} :
       /\ op = "BITNOT" => ~Floating(x)
       /\ tree' = ast_unary(t, op, x)
  \/ \E to \in Types(t) : tree' = ast_cast(to, x)

Two(t, x, y) ==
  \E op \in Arithmetics \union Comparisons : Fits(op, x, y) /\ tree' = ast_binary(t, op, x, y)

(* A tree of two operations, on either side. *)
Nested(t, x, y, z) ==
  \E op \in {"SUB", "MUL", "DIV"}, op2 \in {"SUB", "LT", "SHR"} :
    /\ Fits(op2, x, y) /\ Fits(op2, x, z)
    /\ \/ tree' = ast_binary(t, op2, ast_binary(t, op, x, y), z)
       \/ tree' = ast_binary(t, op2, z, ast_binary(t, op, x, y))

Addresses(t, x, y) ==
  \/ \E op \in {"ADD", "SUB"} : tree' = ast_unary(t, "DEREF", ast_binary(t, op, x, y))
  \/ tree' = ast_binary(t, "SUB", ast_binary(t, "ADD", x, y), x)
  \/ tree' = Index(t, y, x)

Stepped(t, x) ==
  \E op \in Increments :
    LET y == ast_unary(t, op, x)
    IN  \/ tree' = y
        \/ tree' = ast_binary(t, "ADD", y, IntLit(1))
        \/ tree' = ast_binary(t, "COMMA", y, x)
        \/ tree' = Assign(t, i(t), y)

Assigns(t, x, y) ==
  \/ tree' = Assign(t, x, y)
  \/ \E op \in Arithmetics : Fits(op, x, y) /\ tree' = OpAssign(t, op, x, y)
  \/ tree' = ast_binary(t, "ADD", Assign(t, x, y), IntLit(1))
  \/ tree' = Assign(t, l(t), Assign(t, x, y))

Controls(t, x, y) ==
  \/ \E op \in Conjunctions : \/ tree' = ast_binary(t, op, x, y)
                              \/ tree' = ast_binary(t, op, ast_unary(t, "LOGNOT", x), Assign(t, j(t), y))
  \/ \E z \in {j(t), d(t)} : tree' = Conditional(t, x, y, z)
  \/ tree' = Conditional(t, ast_binary(t, "LT", x, y), ast_unary(t, "PRE_INC", i(t)), ast_unary(t, "POST_INC", j(t)))

-----------------------------------------------------------------------------
(* Running the code.                                                       *)

Compiled(t, x) ==
  CASE t = "x86_64" -> X86!gen_expr(X86!Generator, x).code
    [] t = "i386"   -> I386!gen_expr(I386!Generator, x).code
    [] t = "rv32"   -> Rv!gen_expr(Rv!Generator, x).code

Registers0 == [x \in Registers |-> CASE x = "fp" -> Frame [] x = "sp" -> Frame - StackSize [] OTHER -> Junk]

(* The number or address that an expression of a type leaves. *)
Left(t, type, m) ==
  LET word == m.r[ResultRegister(t)]
  IN  CASE type.kind = "FLOAT" -> FloatOf(word % Span(4), 4)
        [] type.kind = "DOUBLE" -> IF t = "x86_64" THEN FloatOf(word, 8) ELSE FetchFloat(m.mem, word, 8)
        [] type.kind = "LDOUBLE" -> FetchFloat(m.mem, word, 16)
        [] type.kind = "STRUCT" -> Fetch(m.mem, word, 4)
        [] OTHER -> word

Wanted(t, type, x) ==
  CASE type_is_floating(type) -> x.v
    [] type.kind = "STRUCT" -> Fetch(x.mem, x.v, 4)
    [] ~type_is_floating(type) /\ type.kind # "STRUCT" -> Wrap(t, x.v)

Variables == (Frame - 96 .. Frame - 1) \union (Frame + 16 .. Frame + 19)

Verdict(t, x, m, meant) ==
  [ok |-> meant.ok, gap |-> meant.gap,
   left |-> Left(t, x.type, m), wanted |-> Wanted(t, x.type, meant),
   astray |-> {cell \in Variables : m.mem[cell] # meant.mem[cell]},
   kept |-> \A r \in {"sp", "fp", "bx"} : m.r[r] = Registers0[r]]

Outcome(t, x) ==
  Verdict(t, x, Execute(t, Compiled(t, x), [mem |-> memory, pc |-> 1, r |-> Registers0]), Eval(t, memory, x))

Init ==
  /\ target \in Targets
  /\ values \in {"small", "extreme"}
  /\ memory = Memory(target, values)
  /\ tree = << >> /\ outcome = << >>

Choose ==
  LET t == target
  IN  \/ \E x \in Numbers1(t) : Unary(t, x)
      \/ \E x \in Few(t), op \in {"ADD", "SUB"} : Unary(t, ast_binary(t, op, x, j(t)))
      \/ \E x, y \in Most(t) : Two(t, x, y)
      \/ \E x, y, z \in {uc(t), j(t), u(t), d(t)} : Nested(t, x, y, z)
      \/ \E x \in Pointers(t), y \in {IntLit(1), j(t), uc(t), l(t), w(t)} : Addresses(t, x, y)
      \/ \E x \in Objects(t) \union {p(t), ps(t)} : Stepped(t, x)
      \/ \E x \in Objects(t), y \in Few(t) : Assigns(t, x, y)
      \/ \E x \in Numbers1(t), y \in {j(t), d(t)} : Controls(t, x, y)
      \/ tree' = Assign(t, st(t), ast_unary(t, "DEREF", ps(t)))

Next ==
  /\ tree = << >>
  /\ Choose
  /\ outcome' = Outcome(target, tree')
  /\ UNCHANGED <<target, values, memory>>

Spec == Init /\ [][Next]_vars

-----------------------------------------------------------------------------
(* Properties.                                                             *)

(* README.md:98 promises the usual arithmetic conversions: outside the known *)
(* gaps, the register holds the value that C90 gives to the expression, in   *)
(* every back end, also where the subexpressions use the stack, the scratch  *)
(* temporaries and the library.                                              *)
ResultsRight == tree # << >> /\ outcome.ok /\ ~outcome.gap => outcome.left = outcome.wanted

(* Assignments, increments and stores into bit-fields change the objects they *)
(* name as C90 says, and no neighbour in the unit or in the frame.            *)
EffectsRight == tree # << >> /\ outcome.ok /\ ~outcome.gap => outcome.astray = {}

(* Whatever an expression is, its code takes from the stack what it put there, *)
(* and keeps the frame pointer and the register that belongs to the caller.    *)
StackBalanced == tree # << >> /\ outcome.ok => outcome.kept
=============================================================================
