---------------------------- MODULE CExpressions ----------------------------
(***************************************************************************)
(* What an expression means in C90: its value and its effect on the        *)
(* objects, for a target with the sizes of the code.  An evaluation is a   *)
(* record:                                                                 *)
(*    v, mem  the value and the memory after it;                           *)
(*    rd, wr  the addresses read and written;                              *)
(*    ok      C90 defines the result (and it is a whole number);           *)
(*    gap     the evaluation meets one of the places where the generated   *)
(*            code is known to depart from C90.                            *)
(***************************************************************************)
EXTENDS Machine

CONSTANT Frame  \* the address that the frame pointer holds

-----------------------------------------------------------------------------
(* Conversions.                                                            *)

InRange(type, v) ==
  IF type.is_unsigned \/ type_is_pointer(type) THEN 0 <= v /\ v < Span(type.size)
  ELSE -(Span(type.size) \div 2) <= v /\ v < Span(type.size) \div 2

(* The whole numbers that a type holds. *)
Holding(type, v) ==
  IF type_is_floating(type) THEN Magnitude(v) < Span(IF type.size > 8 THEN 8 ELSE type.size) \div 2
  ELSE Aggregate(type) \/ type.kind = "ARRAY" \/ InRange(type, v)

(* v in an integer type, modulo its size; any other type keeps it. *)
Into(type, v) ==
  IF type_is_integer(type)
    THEN IF type.is_unsigned THEN v % Span(type.size) ELSE SignedOf(v % Span(type.size), type.size)
    ELSE v

Promoted(type) == IF type_is_integer(type) /\ type.size < type_int.size THEN type_int ELSE type

Decayed(t, type) == IF type.kind = "ARRAY" THEN type_pointer_to(t, type.base[1]) ELSE type

(* The usual arithmetic conversions of two promoted types. *)
Usual(t, a, b) ==
  LET Either(x) == type_equal(a, x) \/ type_equal(b, x)
  IN  IF Either(type_ldouble) THEN type_ldouble
      ELSE IF Either(type_double) THEN type_double
      ELSE IF Either(type_float) THEN type_float
      ELSE IF Either(type_ulong(t)) THEN type_ulong(t)
      ELSE IF Either(type_long(t)) /\ Either(type_uint)
        THEN IF LongSize(t) > type_uint.size THEN type_long(t) ELSE type_ulong(t)
      ELSE IF Either(type_long(t)) THEN type_long(t)
      ELSE IF Either(type_uint) THEN type_uint ELSE type_int

RECURSIVE CType(_, _)
(* A bit-field that is narrower than an int is an int after promotion. *)
Operating(t, e) ==
  IF BitField(e) /\ e.member.bit_width < ByteBits * type_int.size THEN type_int
  ELSE Promoted(CType(t, e))
CType(t, e) ==
  CASE e.kind \in {"NEG", "POS", "BITNOT"} -> Operating(t, e.operand)
    [] e.kind \in {"LOGNOT"} \union Comparisons \union Conjunctions -> type_int
    [] e.kind \in Increments -> e.operand.type
    [] e.kind \in {"ASSIGN", "OP_ASSIGN"} -> e.lhs.type
    [] e.kind = "COMMA" -> CType(t, e.rhs)
    [] e.kind \in {"SHL", "SHR"} -> Operating(t, e.lhs)
    [] e.kind \in Arithmetics \ {"SHL", "SHR"} ->
         LET a == Operating(t, e.lhs)  b == Operating(t, e.rhs)
         IN  IF type_is_pointer(a) /\ type_is_pointer(b) THEN type_long(t)
             ELSE IF type_is_pointer(a) THEN a ELSE IF type_is_pointer(b) THEN b
             ELSE Usual(t, a, b)
    [] e.kind = "COND" ->
         LET a == Operating(t, e.then_expr)  b == Operating(t, e.else_expr)
         IN  IF type_is_pointer(a) THEN a ELSE IF type_is_pointer(b) THEN b ELSE Usual(t, a, b)
    [] e.kind \in {"INT_LIT", "FLOAT_LIT", "VAR", "DEREF", "MEMBER", "ADDR", "CAST"} -> Decayed(t, e.type)

-----------------------------------------------------------------------------
(* Objects.                                                                *)

Cells(a, type) == a .. a + type.size - 1

Field(m, unit) ==
  LET bits == (unit \div 2 ^ m.bit_offset) % 2 ^ m.bit_width
  IN  IF m.type.is_unsigned \/ 2 * bits < 2 ^ m.bit_width THEN bits ELSE bits - 2 ^ m.bit_width

WithField(m, unit, v) ==
  LET old == (unit \div 2 ^ m.bit_offset) % 2 ^ m.bit_width
  IN  unit + (((v % 2 ^ m.bit_width) - old) * 2 ^ m.bit_offset)

(* The object that the lvalue e designates at a. *)
ReadObject(mem, a, e) ==
  CASE BitField(e) -> Field(e.member, Fetch(mem, a, e.type.size))
    [] ~BitField(e) /\ type_is_floating(e.type) -> FetchFloat(mem, a, e.type.size)
    [] ~BitField(e) /\ ~type_is_floating(e.type) /\ (Aggregate(e.type) \/ e.type.kind = "ARRAY") -> a
    [] ~BitField(e) /\ (type_is_integer(e.type) \/ e.type.kind = "PTR") ->
         Into(e.type, Fetch(mem, a, e.type.size))

WriteObject(mem, a, e, v) ==
  CASE BitField(e) -> Put(mem, a, e.type.size, WithField(e.member, Fetch(mem, a, e.type.size), v))
    [] ~BitField(e) /\ type_is_floating(e.type) -> PutFloat(mem, a, e.type.size, v)
    [] ~BitField(e) /\ Aggregate(e.type) -> CopyBytes(mem, a, v, e.type.size)
    [] ~BitField(e) /\ (type_is_integer(e.type) \/ e.type.kind = "PTR") ->
         Put(mem, a, e.type.size, v % Span(e.type.size))

-----------------------------------------------------------------------------
(* Evaluations.                                                            *)

Value(mem, v) == [v |-> v, mem |-> mem, ok |-> TRUE, gap |-> FALSE, rd |-> {}, wr |-> {}]
Require(x, c) == [x EXCEPT !.ok = @ /\ c]
Departs(x, c) == [x EXCEPT !.gap = @ \/ c]

(* r, evaluated after l, with the accesses of both. *)
After(l, r) ==
  [r EXCEPT !.ok = @ /\ l.ok, !.gap = @ \/ l.gap, !.rd = @ \union l.rd, !.wr = @ \union l.wr]

(* Nothing orders l and r: neither may write what the other uses. *)
Unordered(l, r) ==
  Require(After(l, r), l.wr \intersect (r.rd \union r.wr) = {} /\ r.wr \intersect l.rd = {})

(* The exact number that an operation of type ctype yields, for the node e. *)
Settle(t, e, ctype, x, exact) ==
  LET held == Holding(ctype, exact)
      v == Into(ctype, exact)
      wide == t = "x86_64" /\ ctype.is_unsigned /\ ctype.size = 4
  IN  Departs(Require([x EXCEPT !.v = v], held \/ ctype.is_unsigned),
              \/ wide /\ ~held                        \* the register keeps the exact number
              \/ type_is_integer(e.type) /\ ~InRange(e.type, v))

Bits(op, type, a, b) ==
  LET x == a % Span(type.size)  y == b % Span(type.size)
  IN  Into(type, IF op = "BITAND" THEN x & y ELSE IF op = "BITOR" THEN x | y ELSE x ^^ y)

Exact(op, type, a, b) ==
  CASE op = "ADD" -> a + b
    [] op = "SUB" -> a - b
    [] op = "MUL" -> IF Magnitude(a) < 2 ^ 13 /\ Magnitude(b) < 2 ^ 13 THEN a * b ELSE 0
    [] op \in {"DIV", "MOD"} /\ b = 0 -> 0
    [] op = "DIV" /\ b # 0 -> Quo(a, b)
    [] op = "MOD" /\ b # 0 -> Rem(a, b)
    [] op \in {"BITAND", "BITOR", "BITXOR"} -> Bits(op, type, a, b)
    [] op = "SHL" -> IF b \in 0 .. 6 THEN a * 2 ^ b ELSE 0
    [] op = "SHR" -> IF b \in 0 .. 24 THEN a \div 2 ^ b ELSE 0

(* Whether C90 defines a op b: no zero divisor, no shift by the width; a     *)
(* division of floating-point numbers is taken only where it leaves a whole  *)
(* number.                                                                   *)
Meaningful(op, type, a, b) ==
  /\ op \in {"DIV", "MOD"} => b # 0
  /\ op = "DIV" /\ type_is_floating(type) /\ b # 0 => Rem(a, b) = 0
  /\ op \in {"SHL", "SHR"} => 0 <= b /\ b < ByteBits * type.size
  \* bounds that keep TLC's numbers in range
  /\ op = "SHL" => b <= 6
  /\ op = "MUL" => Magnitude(a) < 2 ^ 13 /\ Magnitude(b) < 2 ^ 13

(* The types in which the code and C90 do an operation differ, and one of them *)
(* does not hold an operand.                                                   *)
Disagree(code, c, a, b) ==
  ~type_equal(code, c) /\ \E v \in {a, b} : ~Holding(code, v) \/ ~Holding(c, v)

(* A long that does not fit an int becomes a floating-point number. *)
LongLost(from, v) == ~type_is_floating(from) /\ from.size = 8 /\ ~InRange(type_int, v) /\ ~InRange(type_uint, v)

(* The operation of two numbers in the type that C90 (ctype) and the code give *)
(* it; l and r are the promoted types of the operands.                         *)
InType(t, e, op, x, a, b, ctype, l, r, code) ==
  LET y == Require(x, Holding(ctype, a) /\ (op \in {"SHL", "SHR"} \/ Holding(ctype, b)) /\ Meaningful(op, ctype, a, b))
  IN  Departs(Settle(t, e, ctype, y, Exact(op, ctype, a, b)),
              type_is_floating(code) /\ (LongLost(l, a) \/ LongLost(r, b)))

Arithmetic(t, e, op, lhs, rhs, x, a, b) ==
  LET Do(l, r, ctype, code) ==
        InType(t, e, op, Departs(x, Disagree(code, ctype, a, b)), Into(ctype, a),
               IF op \in {"SHL", "SHR"} THEN b ELSE Into(ctype, b), ctype, l, r, code)
      On(l, r) == Do(l, r, IF op \in {"SHL", "SHR"} THEN l ELSE Usual(t, l, r), type_max(t, lhs.type, rhs.type))
  IN  On(Operating(t, lhs), Operating(t, rhs))

Related(t, e, x, a, b, l, r) ==
  LET In(ctype) ==
        Departs(Require([x EXCEPT !.v = Truth(Holds(e.kind, Into(ctype, a), Into(ctype, b)))],
                        Holding(ctype, Into(ctype, a)) /\ Holding(ctype, Into(ctype, b))),
                \/ Disagree(type_max(t, e.lhs.type, e.rhs.type), ctype, a, b)
                \/ type_is_floating(ctype) /\ (LongLost(l, a) \/ LongLost(r, b)))
  IN  IF type_is_pointer(l) \/ type_is_pointer(r) THEN [x EXCEPT !.v = Truth(Holds(e.kind, a, b))]
      ELSE In(Usual(t, l, r))

Comparison(t, e, x, a, b) == Related(t, e, x, a, b, Operating(t, e.lhs), Operating(t, e.rhs))

(* A pointer and an integer, or two pointers. *)
PointerSum(t, e, op, lhs, rhs, x, a, b) ==
  LET pl == type_is_pointer(lhs.type)
      pr == type_is_pointer(rhs.type)
      size == IF pl THEN lhs.type.base[1].size ELSE rhs.type.base[1].size
  IN  CASE pl /\ pr   -> Require([x EXCEPT !.v = Quo(a - b, size)], (a - b) % size = 0)
        [] pl /\ ~pr  -> Require([x EXCEPT !.v = IF op = "ADD" THEN a + (size * b) ELSE a - (size * b)], Magnitude(b) < 4)
        [] ~pl /\ pr  -> Require([x EXCEPT !.v = (size * a) + b], Magnitude(a) < 4)

Operate(t, e, op, lhs, rhs, x, a, b) ==
  IF type_is_pointer(lhs.type) \/ type_is_pointer(rhs.type)
    THEN PointerSum(t, e, op, lhs, rhs, x, a, b) ELSE Arithmetic(t, e, op, lhs, rhs, x, a, b)

(* v, the value of x of type from, converted to the type of a cast. *)
Cast(t, to, from, x) ==
  LET v == IF type_is_floating(from) THEN x.v ELSE Into(to, x.v)
  IN  Departs(Require([x EXCEPT !.v = v], Holding(to, v)),
              \/ type_is_floating(to) /\ LongLost(from, x.v)
              \/ t = "rv32" /\ from.kind = "DOUBLE" /\ to.kind = "FLOAT"
              \* gcc's int result does not reach the upper half of the register
              \/ t = "x86_64" /\ type_is_floating(from) /\ type_is_integer(to) /\ x.v < 0 /\ to.size < 8)

(* A condition on x, the value of e, tests the register: an address for a     *)
(* number that does not fit, and all of its bits where a negative zero may be. *)
Tested(t, e, x) ==
  Departs(x, \/ e.type.kind = "LDOUBLE"
             \/ e.type.kind = "DOUBLE" /\ t # "x86_64"
             \/ e.type.kind \in {"FLOAT", "DOUBLE"} /\ x.v = 0 /\ e.kind \notin {"VAR", "FLOAT_LIT"})

(* x becomes the object of the lvalue e at a, and the value of the assignment *)
(* is what the object then holds.                                             *)
Store(e, a, x) ==
  LET mem == WriteObject(x.mem, a, e, x.v)
  IN  [x EXCEPT !.v = ReadObject(mem, a, e), !.mem = mem, !.wr = @ \union Cells(a, e.type),
                !.ok = @ /\ Cells(a, e.type) \intersect x.wr = {} /\ Cells(a, e.type) \subseteq DOMAIN mem]

-----------------------------------------------------------------------------
RECURSIVE Eval(_, _, _), Place(_, _, _)

(* The address of the object of an lvalue. *)
Place(t, mem, e) ==
  CASE e.kind = "VAR" -> Value(mem, IF e.sym.is_global THEN e.sym.address ELSE Frame + e.sym.address)
    [] e.kind = "DEREF" -> Eval(t, mem, e.operand)
    [] e.kind = "MEMBER" ->
         LET x == IF e.is_arrow THEN Eval(t, mem, e.target) ELSE Place(t, mem, e.target)
         IN  [x EXCEPT !.v = @ + e.member.offset]

Load(e, p) ==
  IF Aggregate(e.type) \/ e.type.kind = "ARRAY" THEN p
  ELSE Require([p EXCEPT !.v = ReadObject(p.mem, @, e), !.rd = @ \union Cells(p.v, e.type)],
               Cells(p.v, e.type) \subseteq DOMAIN p.mem)

Both(t, mem, lhs, rhs) ==
  LET l == Eval(t, mem, lhs)
      r == Eval(t, l.mem, rhs)
  IN  <<l.v, r.v, Unordered(l, r)>>

Incremented(t, mem, e) ==
  LET p == Place(t, mem, e.operand)
      x == Load(e.operand, p)
      type == e.operand.type
      step == IF type.kind = "PTR" THEN type.base[1].size ELSE 1
      exact == IF e.kind \in {"PRE_INC", "POST_INC"} THEN x.v + step ELSE x.v - step
      new == Store(e.operand, p.v, Require([x EXCEPT !.v = Into(type, exact)],
                                           Holding(Promoted(type), exact) \/ type.is_unsigned))
  IN  IF e.kind \in {"PRE_INC", "PRE_DEC"}
        THEN Departs(new, /\ type_is_integer(type) /\ ~BitField(e.operand) /\ ~InRange(type, exact)
                          /\ type.size < 4 \/ (t = "x86_64" /\ type.size = 4))
        ELSE Departs([new EXCEPT !.v = x.v], t = "rv32" /\ type.kind = "LDOUBLE")

Assigned(t, mem, e) ==
  LET p == Place(t, mem, e.lhs)
      r == Eval(t, p.mem, e.rhs)
      x == Unordered(p, r)
  IN  Store(e.lhs, p.v, IF type_is_integer(e.lhs.type) THEN [x EXCEPT !.v = Into(e.lhs.type, @)] ELSE x)

(* The code does a compound assignment in the type of the operation, also *)
(* where the left operand has another one.                                *)
CompoundAssigned(t, mem, e) ==
  LET p == Place(t, mem, e.lhs)
      old == Load(e.lhs, p)
      r == Eval(t, old.mem, e.rhs)
      x == Operate(t, e, e.op, e.lhs, e.rhs, Unordered(old, r), old.v, r.v)
      y == Departs(x, \/ ~type_equal(e.type, e.lhs.type)
                      \/ t = "x86_64" /\ e.lhs.type.is_unsigned /\ e.lhs.type.size = 4 /\ r.v < 0)
  IN  Store(e.lhs, p.v, Require([y EXCEPT !.v = Into(e.lhs.type, @)], Holding(e.lhs.type, Into(e.lhs.type, y.v))))

Decided(t, mem, e) ==
  LET l == Tested(t, e.lhs, Eval(t, mem, e.lhs))
      r == Tested(t, e.rhs, Eval(t, l.mem, e.rhs))
      stops == IF e.kind = "LOGAND" THEN l.v = 0 ELSE l.v # 0
  IN  IF stops THEN [l EXCEPT !.v = Truth(@ # 0)] ELSE [After(l, r) EXCEPT !.v = Truth(@ # 0)]

(* The code does not convert the arms to the type of the whole. *)
Chosen(t, mem, e) ==
  LET c == Tested(t, e.cond, Eval(t, mem, e.cond))
      arm == IF c.v # 0 THEN e.then_expr ELSE e.else_expr
      x == After(c, Eval(t, c.mem, arm))
      ctype == CType(t, e)
      v == Into(ctype, x.v)
  IN  Departs(Require([x EXCEPT !.v = v], Holding(ctype, v)),
              v # x.v \/ ~Holding(e.type, v) \/ (type_is_floating(ctype) /\ ~type_equal(arm.type, ctype)))

Eval(t, mem, e) ==
  CASE e.kind \in {"INT_LIT", "FLOAT_LIT"} -> Value(mem, e.val)
    [] e.kind \in {"VAR", "DEREF", "MEMBER"} -> Load(e, Place(t, mem, e))
    [] e.kind = "ADDR" -> Place(t, mem, e.operand)
    [] e.kind = "POS"  -> Eval(t, mem, e.operand)
    [] e.kind = "NEG"  -> LET x == Eval(t, mem, e.operand) IN Settle(t, e, CType(t, e), x, -x.v)
    [] e.kind = "BITNOT" -> LET x == Eval(t, mem, e.operand) IN Settle(t, e, CType(t, e), x, -1 - x.v)
    [] e.kind = "LOGNOT" -> LET x == Tested(t, e.operand, Eval(t, mem, e.operand)) IN [x EXCEPT !.v = Truth(@ = 0)]
    [] e.kind = "CAST" -> Cast(t, e.type, CType(t, e.operand), Eval(t, mem, e.operand))
    [] e.kind \in Increments  -> Incremented(t, mem, e)
    [] e.kind = "ASSIGN"      -> Assigned(t, mem, e)
    [] e.kind = "OP_ASSIGN"   -> CompoundAssigned(t, mem, e)
    [] e.kind = "COMMA" -> LET l == Eval(t, mem, e.lhs) IN After(l, Eval(t, l.mem, e.rhs))
    [] e.kind \in Conjunctions -> Decided(t, mem, e)
    [] e.kind = "COND" -> Chosen(t, mem, e)
    [] e.kind \in Arithmetics ->
         LET b == Both(t, mem, e.lhs, e.rhs) IN Operate(t, e, e.kind, e.lhs, e.rhs, b[3], b[1], b[2])
    [] e.kind \in Comparisons -> LET b == Both(t, mem, e.lhs, e.rhs) IN Comparison(t, e, b[3], b[1], b[2])
=============================================================================
