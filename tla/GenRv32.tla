------------------------------ MODULE GenRv32 ------------------------------
(***************************************************************************)
(* Expressions in the code generator for RV32I (gen_riscv32.c).  The value *)
(* of an expression is left in a0; a struct, double or long double leaves  *)
(* its address.  The machine multiplies and divides with library calls.    *)
(***************************************************************************)
EXTENDS Emission

LOCAL T == "rv32"
LOCAL W == WordBits(T)

ByAddress(type) == type.kind \in {"DOUBLE", "LDOUBLE"}

gen_load(g, type) ==
  IF Aggregate(type) \/ type.kind = "ARRAY" \/ ByAddress(type) THEN g
  ELSE g ++ << <<"ld", "a0", "a0", 0, type.size, ~type.is_unsigned>> >>

(* A large object is copied in a loop that leaves both addresses behind it. *)
gen_store(g, type) ==
  CASE ~Aggregate(type) /\ type.size <= 4 -> g ++ << <<"st", "a0", "a1", 0, type.size>> >>
    [] (Aggregate(type) \/ type.size > 4) /\ type.size <= 16 ->
         g ++ << <<"copy", "a1", "a0", type.size, "t0">> >>
    [] (Aggregate(type) \/ type.size > 4) /\ type.size > 16 ->
         Labels(g, 1) ++ << <<"copy", "a1", "a0", type.size, "t0">>, <<"li", "t1", 0>>,
                            <<"opi", "ADD", "a0", "a0", type.size>>, <<"opi", "ADD", "a1", "a1", type.size>> >>

Extend(m) == << <<"opi", "SHL", "a0", "a0", W - (m.bit_offset + m.bit_width)>>,
                <<"opi", "SAR", "a0", "a0", W - m.bit_width>> >>

gen_bitfield_load(g, m) ==
  g ++ IF m.type.is_unsigned
         THEN << <<"opi", "SHR", "a0", "a0", m.bit_offset>>, <<"li", "t0", FieldMask(m)>>,
                 <<"op", "BITAND", "a0", "a0", "t0">> >>
       ELSE Extend(m)

(* The address is in a1. *)
gen_bitfield_store(g, m) ==
  g ++ (<< <<"li", "t0", FieldMask(m)>>, <<"op", "BITAND", "a0", "a0", "t0">>,
           <<"opi", "SHL", "a0", "a0", m.bit_offset>>, <<"mv", "t1", "a0">>,
           <<"ld", "a0", "a1", 0, m.type.size, FALSE>>, <<"li", "t0", ClearMask(m)>>,
           <<"op", "BITAND", "a0", "a0", "t0">>, <<"op", "BITOR", "a0", "a0", "t1">>,
           <<"st", "a0", "a1", 0, m.type.size>>, <<"mv", "a0", "t1">> >>
        \o IF m.type.is_unsigned THEN << <<"opi", "SHR", "a0", "a0", m.bit_offset>> >> ELSE Extend(m))

LoadField(g, e) == IF BitField(e) THEN gen_bitfield_load(g, e.member) ELSE g
StoreAt(g, lhs, type) == IF BitField(lhs) THEN gen_bitfield_store(g, lhs.member) ELSE gen_store(g, type)

(* The stack moves in steps of 16 bytes. *)
Sp(n) == <<"opi", "ADD", "sp", "sp", 16 * n>>
PushReg(r) == << Sp(-1), <<"st", r, "sp", 0, 4>> >>
PopReg(r) == << <<"ld", r, "sp", 0, 4, FALSE>>, Sp(1) >>

(* Stores a0 where the address on the stack points, and drops the address. *)
StoreField(g, lhs, type) == StoreAt(g ++ << <<"ld", "a1", "sp", 0, 4, FALSE>> >>, lhs, type) ++ << Sp(1) >>

Temp(g, i, r) == <<"opi", "ADD", r, "fp", ScratchRv32(g, i)>>

(* A double in a0 and a1 goes into the next temporary, its address into a0. *)
LoadPair(lo, hi, a) == << <<"ld", hi, a, 4, 4, FALSE>>, <<"ld", lo, a, 0, 4, FALSE>> >>
StorePair(a) == << <<"st", "a0", a, 0, 4>>, <<"st", "a1", a, 4, 4>> >>
PairToTemp(g, old) == g ++ (<< Temp(old, 0, "t0") >> \o StorePair("t0") \o << Temp(old, 0, "a0") >>)

UnaryLong(g, func) == Took(g, 1) ++ << <<"mv", "a1", "a0">>, Temp(g, 0, "a0"), func, Temp(g, 0, "a0") >>

(* A double that becomes a float is passed by its address. *)
gen_cast_to(g, from, to) ==
  LET func == Conversion(T, from, to)
  IN  CASE type_equal(from, to) -> g
        [] ~type_equal(from, to) /\ to.kind = "FLOAT"   -> g ++ << func >>
        [] ~type_equal(from, to) /\ to.kind = "DOUBLE"  -> PairToTemp(Took(g, 1) ++ << func >>, g)
        [] ~type_equal(from, to) /\ to.kind = "LDOUBLE" -> UnaryLong(g, func)
        [] ~type_is_floating(to) /\ from.kind = "DOUBLE" -> g ++ (LoadPair("a0", "a1", "a0") \o << func >>)
        [] ~type_is_floating(to) /\ from.kind \in {"FLOAT", "LDOUBLE"} -> g ++ << func >>
        [] ~type_equal(from, to) /\ ~type_is_floating(to) /\ ~type_is_floating(from) ->
             IF to.size \notin {1, 2} THEN g
             ELSE g ++ << <<IF to.is_unsigned THEN "zext" ELSE "sext", "a0", "a0", to.size>> >>

LibraryOp(op, unsigned) == <<"int", IF unsigned /\ op \in {"DIV", "MOD"} THEN "U" \o op ELSE op>>

(* a0 op a1 *)
IntegerOp(op, unsigned) ==
  CASE op \in {"ADD", "SUB", "SHL", "BITAND", "BITOR", "BITXOR"} -> << <<"op", op, "a0", "a0", "a1">> >>
    [] op \in {"MUL", "DIV", "MOD"} -> << LibraryOp(op, unsigned) >>
    [] op = "SHR" -> << <<"op", IF unsigned THEN "SHR" ELSE "SAR", "a0", "a0", "a1">> >>
    [] op \in {"EQ", "NE"} -> << <<"op", "SUB", "a0", "a0", "a1">>, <<"seti", op, "a0", "a0", 0>> >>
    [] op \in {"LT", "LE", "GT", "GE"} -> << <<IF unsigned THEN "setu" ELSE "set", op, "a0", "a0", "a1">> >>

(* a1, or a0, times the step of a pointer. *)
ScaleIndex(type) ==
  IF Step(type) = 1 THEN << >>
  ELSE PushReg("a0") \o << <<"mv", "a0", "a1">>, <<"li", "a1", Step(type)>>, <<"int", "MUL">>,
                           <<"mv", "a1", "a0">> >> \o PopReg("a0")
ScaleFirst(type) ==
  IF Step(type) = 1 THEN << >>
  ELSE PushReg("a1") \o << <<"li", "a1", Step(type)>>, <<"int", "MUL">> >> \o PopReg("a1")
ScaleRight(type) ==
  IF Step(type) = 1 THEN << >>
  ELSE PushReg("a0") \o << <<"li", "a0", Step(type)>>, <<"int", "MUL">>, <<"mv", "a1", "a0">> >> \o PopReg("a0")

-----------------------------------------------------------------------------
RECURSIVE gen_expr(_, _), gen_lval(_, _)

gen_lval(g, e) ==
  CASE e.kind = "VAR" ->
         g ++ << IF e.sym.is_global THEN <<"li", "a0", e.sym.address>>
                 ELSE <<"opi", "ADD", "a0", "fp", e.sym.address>> >>
    [] e.kind = "DEREF"  -> gen_expr(g, e.operand)
    [] e.kind = "MEMBER" ->
         (IF e.is_arrow THEN gen_expr(g, e.target) ELSE gen_lval(g, e.target))
           ++ << <<"opi", "ADD", "a0", "a0", e.member.offset>> >>

Literal(g, e) ==
  IF e.kind = "INT_LIT" THEN g ++ << <<"li", "a0", e.val>> >>
  ELSE gen_load(g ++ << <<"li", "a0", e.label>> >>, e.type)

Negation(g, e) ==
  LET v == gen_expr(g, e.operand)
      func == Routine(T, "NEG", e.type)
  IN  CASE e.type.kind = "FLOAT"   -> v ++ << func >>
        [] e.type.kind = "DOUBLE"  -> PairToTemp(Took(v, 1) ++ (LoadPair("a0", "a1", "a0") \o << func >>), v)
        [] e.type.kind = "LDOUBLE" -> UnaryLong(v, func)
        [] ~type_is_floating(e.type) -> v ++ << <<"neg", "a0", "a0">> >>

One(type) == FloatBits(1, type.size)
DoubleOne == << <<"li", "a2", One(type_double) % Span(4)>>, <<"li", "a3", One(type_double) \div Span(4)>> >>

(* The step is that of a pointer's type only. *)
StepOf(e) == <<"opi", Stepping(e), "a0", "a0", IF e.type.kind = "PTR" THEN Step(e.type) ELSE 1>>

(* The sum of the long double under the address on the stack and one, made *)
(* with the temporaries from i on; g has taken them.                       *)
LongStep(g, old, i, e) ==
  g ++ << Temp(old, i, "a0"), <<"li", "a1", 1>>, Conversion(T, type_int, e.type),
          <<"ld", "a1", "sp", 0, 4, FALSE>>, Temp(old, i, "a2"), Temp(old, i + 1, "a0"),
          Routine(T, Stepping(e), e.type), <<"ld", "a1", "sp", 0, 4, FALSE>>, Temp(old, i + 1, "a0") >>

(* The address of the operand is on the stack. *)
PreStep(a, e) ==
  LET v == LoadField(gen_load(a, e.type), e.operand)
      func == Routine(T, Stepping(e), e.type)
  IN  CASE e.type.kind = "FLOAT" ->
             v ++ << <<"li", "a1", One(e.type)>>, func, <<"ld", "a1", "sp", 0, 4, FALSE>>,
                     <<"st", "a0", "a1", 0, 4>>, Sp(1) >>
        [] e.type.kind = "DOUBLE" ->
             a ++ (<< <<"ld", "a0", "sp", 0, 4, FALSE>> >> \o LoadPair("a0", "a1", "a0") \o DoubleOne
                   \o << func, <<"ld", "a2", "sp", 0, 4, FALSE>> >> \o StorePair("a2")
                   \o << <<"mv", "a0", "a2">>, Sp(1) >>)
        [] e.type.kind = "LDOUBLE" ->
             gen_store(LongStep(Took(a, 2), a, 0, e), e.type) ++ << Sp(1), Temp(a, 1, "a0") >>
        [] ~type_is_floating(e.type) -> StoreField(v ++ << StepOf(e) >>, e.operand, e.type)

PreIncrement(g, e) == PreStep(gen_lval(g, e.operand) ++ PushReg("a0"), e)

(* The copy of the old long double goes the wrong way: from the temporary to *)
(* the object.                                                               *)
PostStep(a, e) ==
  LET v == LoadField(gen_load(a, e.type), e.operand)
      func == Routine(T, Stepping(e), e.type)
      address == << <<"ld", "a1", "sp", 16, 4, FALSE>> >>
      restore == << <<"ld", "a0", "sp", 0, 4, FALSE>>, Sp(2) >>
  IN  CASE e.type.kind = "FLOAT" ->
             v ++ (PushReg("a0") \o << <<"li", "a1", One(e.type)>>, func >> \o address
                   \o << <<"st", "a0", "a1", 0, 4>> >> \o restore)
        [] e.type.kind = "DOUBLE" ->
             Took(a, 1) ++ (<< <<"ld", "a0", "sp", 0, 4, FALSE>> >> \o LoadPair("a0", "a1", "a0")
                   \o << Temp(a, 0, "t0") >> \o StorePair("t0") \o DoubleOne
                   \o << func, <<"ld", "a2", "sp", 0, 4, FALSE>> >> \o StorePair("a2")
                   \o << Sp(1), Temp(a, 0, "a0") >>)
        [] e.type.kind = "LDOUBLE" ->
             LET saved == gen_store(Took(a, 3) ++ << <<"ld", "a1", "sp", 0, 4, FALSE>>, Temp(a, 0, "a0") >>, e.type)
             IN  gen_store(LongStep(saved, a, 1, e), e.type) ++ << Sp(1), Temp(a, 0, "a0") >>
        [] ~type_is_floating(e.type) ->
             StoreAt(v ++ (PushReg("a0") \o << StepOf(e) >> \o address), e.operand, e.type) ++ restore

PostIncrement(g, e) == PostStep(gen_lval(g, e.operand) ++ PushReg("a0"), e)

Assignment(g, e) ==
  StoreField(gen_cast_to(gen_expr(gen_lval(g, e.lhs) ++ PushReg("a0"), e.rhs), e.rhs.type, e.lhs.type),
             e.lhs, e.type)

(* The address is on the stack, the operands are in a0 and a1. *)
Combine(v, e) ==
  LET func == Routine(T, e.op, e.type)
      scale == IF e.op \in {"ADD", "SUB"} THEN ScaleRight(e.type) ELSE << >>
  IN  CASE e.type.kind = "DOUBLE" ->
             v ++ (LoadPair("a2", "a3", "a1") \o LoadPair("a0", "a1", "a0")
                   \o << func, <<"ld", "a2", "sp", 0, 4, FALSE>> >> \o StorePair("a2")
                   \o << <<"mv", "a0", "a2">>, Sp(1) >>)
        [] e.type.kind = "LDOUBLE" ->
             StoreField(Took(v, 1) ++ << <<"mv", "a2", "a1">>, <<"mv", "a1", "a0">>, Temp(v, 0, "a0"), func,
                                         Temp(v, 0, "a0") >>, e.lhs, e.type)
        [] e.type.kind = "FLOAT" -> StoreField(v ++ << func >>, e.lhs, e.type)
        [] ~type_is_floating(e.type) ->
             StoreField(v ++ (scale \o IntegerOp(e.op, e.type.is_unsigned)), e.lhs, e.type)

(* The old value is loaded, and the new one stored, with the type of the node. *)
CompoundAssignment(g, e) ==
  LET old == LoadField(gen_load(gen_lval(g, e.lhs) ++ PushReg("a0"), e.type), e.lhs)
      rhs == gen_expr(old ++ PushReg("a0"), e.rhs)
  IN  Combine((IF type_is_floating(e.type) THEN gen_cast_to(rhs, e.rhs.type, e.type) ELSE rhs)
                ++ (<< <<"mv", "a1", "a0">> >> \o PopReg("a0")), e)

Logical(g, e) ==
  LET out  == g.label  end == g.label + 1
      jump == IF e.kind = "LOGAND" THEN "bz" ELSE "bnz"
      through == IF e.kind = "LOGAND" THEN 1 ELSE 0
      l == gen_expr(Labels(g, 2), e.lhs) ++ << <<jump, "a0", out>> >>
  IN  gen_expr(l, e.rhs)
        ++ << <<jump, "a0", out>>, <<"li", "a0", through>>, <<"jmp", end>>, <<"lab", out>>,
              <<"li", "a0", 1 - through>>, <<"lab", end>> >>

Choice(g, e) ==
  LET else == g.label  end == g.label + 1
      then == gen_expr(gen_expr(Labels(g, 2), e.cond) ++ << <<"bz", "a0", else>> >>, e.then_expr)
  IN  gen_expr(then ++ << <<"jmp", end>>, <<"lab", else>> >>, e.else_expr) ++ << <<"lab", end>> >>

(* The number, not its address, is kept on the stack while the other operand *)
(* is evaluated.                                                             *)
PushNumber(type) ==
  IF type.kind = "FLOAT" THEN PushReg("a0") ELSE << Sp(-1), <<"copy", "sp", "a0", type.size, "t0">> >>

(* The left operand is on the stack, the right one in a0. *)
FloatingOp(r, op, type) ==
  LET func == Routine(T, op, type)
      result == IF op \in Comparisons THEN << func, <<"seti", op, "a0", "a0", 0>> >> ELSE << func >>
  IN  CASE type.kind = "FLOAT" -> r ++ (<< <<"mv", "a1", "a0">> >> \o PopReg("a0") \o result)
        [] type.kind = "DOUBLE" ->
             LET h == r ++ (LoadPair("a2", "a3", "a0") \o LoadPair("a0", "a1", "sp") \o << Sp(1) >> \o result)
             IN  IF op \in Comparisons THEN h ELSE PairToTemp(Took(h, 1), h)
        [] type.kind = "LDOUBLE" /\ op \in Comparisons ->
             r ++ (<< <<"mv", "a2", "a0">>, <<"mv", "a1", "sp">>, <<"mv", "a0", "a1">>, <<"mv", "a1", "a2">> >>
                     \o result \o << Sp(1) >>)
        [] type.kind = "LDOUBLE" /\ op \notin Comparisons ->
             Took(r, 1) ++ << <<"mv", "a2", "a0">>, <<"mv", "a1", "sp">>, Temp(r, 0, "a0"), func, Sp(1),
                              Temp(r, 0, "a0") >>

FloatingBinary(g, e, common) ==
  LET l == gen_cast_to(gen_expr(g, e.lhs), e.lhs.type, common) ++ PushNumber(common)
  IN  FloatingOp(gen_cast_to(gen_expr(l, e.rhs), e.rhs.type, common), e.kind, common)

IntegerBinary(g, e) ==
  LET pl == type_is_pointer(e.lhs.type)
      pr == type_is_pointer(e.rhs.type)
      unsigned == e.type.is_unsigned \/ e.lhs.type.is_unsigned \/ e.rhs.type.is_unsigned
      r == gen_expr(gen_expr(g, e.lhs) ++ PushReg("a0"), e.rhs) ++ (<< <<"mv", "a1", "a0">> >> \o PopReg("a0"))
  IN  r ++ (IF e.kind \in {"ADD", "SUB"} /\ pl /\ ~pr THEN ScaleIndex(e.lhs.type)
            ELSE IF e.kind = "ADD" /\ pr /\ ~pl THEN ScaleFirst(e.rhs.type) ELSE << >>)
        ++ IntegerOp(e.kind, unsigned)
        ++ IF e.kind = "SUB" /\ pl /\ pr /\ Step(e.lhs.type) > 1
             THEN << <<"li", "a1", Step(e.lhs.type)>>, LibraryOp("DIV", FALSE) >> ELSE << >>

Binary(g, e) ==
  LET common == type_max(T, e.lhs.type, e.rhs.type)
  IN  IF type_is_floating(common) THEN FloatingBinary(g, e, common) ELSE IntegerBinary(g, e)

gen_expr(g, e) ==
  CASE e.kind \in {"INT_LIT", "FLOAT_LIT"} -> Literal(g, e)
    [] e.kind \in {"VAR", "MEMBER"}        -> LoadField(gen_load(gen_lval(g, e), e.type), e)
    [] e.kind = "ADDR"   -> gen_lval(g, e.operand)
    [] e.kind = "DEREF"  -> gen_load(gen_expr(g, e.operand), e.type)
    [] e.kind = "POS"    -> gen_expr(g, e.operand)
    [] e.kind = "NEG"    -> Negation(g, e)
    [] e.kind = "BITNOT" -> gen_expr(g, e.operand) ++ << <<"opi", "BITXOR", "a0", "a0", -1>> >>
    [] e.kind = "LOGNOT" -> gen_expr(g, e.operand) ++ << <<"seti", "EQ", "a0", "a0", 0>> >>
    [] e.kind = "CAST"   -> gen_cast_to(gen_expr(g, e.operand), e.operand.type, e.type)
    [] e.kind \in {"PRE_INC", "PRE_DEC"}   -> PreIncrement(g, e)
    [] e.kind \in {"POST_INC", "POST_DEC"} -> PostIncrement(g, e)
    [] e.kind = "ASSIGN"    -> Assignment(g, e)
    [] e.kind = "OP_ASSIGN" -> CompoundAssignment(g, e)
    [] e.kind = "COMMA"  -> gen_expr(gen_expr(g, e.lhs), e.rhs)
    [] e.kind \in Conjunctions -> Logical(g, e)
    [] e.kind = "COND"   -> Choice(g, e)
    [] e.kind \in Arithmetics \union Comparisons -> Binary(g, e)
=============================================================================
