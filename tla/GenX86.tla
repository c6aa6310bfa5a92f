------------------------------- MODULE GenX86 -------------------------------
(***************************************************************************)
(* Expressions in the code generator for x86_64 (gen.c).  The value of an  *)
(* expression is left in ax; a struct or long double leaves its address.   *)
(***************************************************************************)
EXTENDS Emission

LOCAL T == "x86_64"
LOCAL W == WordBits(T)

gen_load(g, type) ==
  IF Aggregate(type) \/ type.kind \in {"ARRAY", "LDOUBLE"} THEN g
  ELSE g ++ << <<"ld", "ax", "ax", 0, type.size, ~type.is_unsigned /\ type.kind # "FLOAT">> >>

gen_store(g, type) ==
  g ++ << IF Aggregate(type) \/ type.kind = "LDOUBLE" THEN <<"copy", "cx", "ax", type.size, "dx">>
          ELSE <<"st", "ax", "cx", 0, type.size>> >>

(* The field in the word of ax, brought down to its value. *)
Extend(m) == << <<"opi", "SHL", "ax", "ax", W - (m.bit_offset + m.bit_width)>>,
                <<"opi", "SAR", "ax", "ax", W - m.bit_width>> >>

gen_bitfield_load(g, m) ==
  g ++ IF m.type.is_unsigned THEN << <<"opi", "SHR", "ax", "ax", m.bit_offset>>,
                                     <<"opi", "BITAND", "ax", "ax", FieldMask(m)>> >>
       ELSE Extend(m)

(* The address is on the stack, the value in ax. *)
gen_bitfield_store(g, m) ==
  g ++ (<< <<"opi", "BITAND", "ax", "ax", FieldMask(m)>>, <<"opi", "SHL", "ax", "ax", m.bit_offset>>,
           <<"mv", "dx", "ax">>, <<"pop", "cx">>, <<"ld", "ax", "cx", 0, m.type.size, FALSE>>,
           <<"opi", "BITAND", "ax", "ax", ClearMask(m)>>, <<"op", "BITOR", "ax", "ax", "dx">>,
           <<"st", "ax", "cx", 0, m.type.size>>, <<"mv", "ax", "dx">> >>
        \o IF m.type.is_unsigned THEN << <<"opi", "SHR", "ax", "ax", m.bit_offset>> >> ELSE Extend(m))

LoadField(g, e) == IF BitField(e) THEN gen_bitfield_load(g, e.member) ELSE g
(* Stores ax where the address on the stack points, and drops the address. *)
StoreField(g, lhs, type) ==
  IF BitField(lhs) THEN gen_bitfield_store(g, lhs.member)
  ELSE gen_store(g ++ << <<"pop", "cx">> >>, type)

emit_call(g, func) ==
  g ++ << <<"push", "bx">>, <<"mv", "bx", "sp">>, <<"align">>, func,
          <<"mv", "sp", "bx">>, <<"pop", "bx">> >>

Temp(g, i, r) == <<"opi", "ADD", r, "fp", ScratchX86(g, i)>>

gen_cast_to(g, from, to) ==
  CASE type_equal(from, to) -> g
    [] ~type_equal(from, to) /\ to.kind = "LDOUBLE" ->
         emit_call(Took(g, 1) ++ << Temp(g, 0, "di"), <<"mv", "si", "ax">> >>, Conversion(T, from, to))
           ++ << Temp(g, 0, "ax") >>
    [] ~type_equal(from, to) /\ to.kind # "LDOUBLE" /\ (type_is_floating(to) \/ type_is_floating(from)) ->
         emit_call(g ++ << <<"mv", "di", "ax">> >>, Conversion(T, from, to))
    [] ~type_equal(from, to) /\ ~type_is_floating(to) /\ ~type_is_floating(from) ->
         IF to.size \notin {1, 2, 4} THEN g
         ELSE g ++ << <<IF to.is_unsigned THEN "zext" ELSE "sext", "ax", "ax", to.size>> >>

(* di and si hold the operands; those of a long double are addresses, and the *)
(* result has an address too.                                                 *)
FloatingOp(g, op, type) ==
  IF type.kind # "LDOUBLE" THEN emit_call(g, Routine(T, op, type))
  ELSE emit_call(Took(g, 1) ++ << <<"mv", "dx", "si">>, <<"mv", "si", "di">>, Temp(g, 0, "di") >>,
                 Routine(T, op, type)) ++ << Temp(g, 0, "ax") >>

FloatingComparison(g, op, type) ==
  emit_call(g, Routine(T, op, type)) ++ << <<"sext", "ax", "ax", 4>>, <<"seti", op, "ax", "ax", 0>> >>

Division(unsigned) == IF unsigned THEN <<"idiv", "UDIV", "UMOD">> ELSE <<"idiv", "DIV", "MOD">>

(* ax op cx *)
IntegerOp(op, unsigned) ==
  CASE op \in {"ADD", "SUB", "MUL", "SHL", "BITAND", "BITOR", "BITXOR"} -> << <<"op", op, "ax", "ax", "cx">> >>
    [] op = "DIV" -> << Division(unsigned) >>
    [] op = "MOD" -> << Division(unsigned), <<"mv", "ax", "dx">> >>
    [] op = "SHR" -> << <<"op", IF unsigned THEN "SHR" ELSE "SAR", "ax", "ax", "cx">> >>
    [] op \in Comparisons -> << <<IF unsigned THEN "setu" ELSE "set", op, "ax", "ax", "cx">> >>

Scaled(r, type) == << <<"opi", "MUL", r, r, Step(type)>> >>

-----------------------------------------------------------------------------
RECURSIVE gen_expr(_, _), gen_lval(_, _)

gen_lval(g, e) ==
  CASE e.kind = "VAR" ->
         g ++ << IF e.sym.is_global THEN <<"li", "ax", e.sym.address>>
                 ELSE <<"opi", "ADD", "ax", "fp", e.sym.address>> >>
    [] e.kind = "DEREF"  -> gen_expr(g, e.operand)
    [] e.kind = "MEMBER" ->
         (IF e.is_arrow THEN gen_expr(g, e.target) ELSE gen_lval(g, e.target))
           ++ << <<"opi", "ADD", "ax", "ax", e.member.offset>> >>

(* A floating-point constant stands in memory under its label. *)
Literal(g, e) ==
  IF e.kind = "INT_LIT" THEN g ++ << <<"li", "ax", e.val>> >>
  ELSE gen_load(g ++ << <<"li", "ax", e.label>> >>, e.type)

Negation(g, e) ==
  LET v == gen_expr(g, e.operand)
  IN  CASE e.type.kind = "FLOAT"  -> v ++ << <<"opi", "BITXOR", "ax", "ax", Span(4) \div 2>>, <<"zext", "ax", "ax", 4>> >>
        [] e.type.kind = "DOUBLE" -> v ++ << <<"li", "cx", Span(8) \div 2>>, <<"op", "BITXOR", "ax", "ax", "cx">> >>
        [] e.type.kind = "LDOUBLE" ->
             emit_call(Took(v, 1) ++ << <<"mv", "si", "ax">>, Temp(v, 0, "di") >>, Routine(T, "NEG", e.type))
               ++ << Temp(v, 0, "ax") >>
        [] ~type_is_floating(e.type) -> v ++ << <<"neg", "ax", "ax">> >>

One(type) == FloatBits(1, type.size)

(* The sum of the long double under the address on the stack and one, made *)
(* with the temporaries from i on; g has taken them.                       *)
LongStep(g, old, i, e) ==
  emit_call(emit_call(g ++ << <<"li", "si", 1>>, Temp(old, i, "di") >>, Conversion(T, type_int, e.type))
              ++ << Temp(old, i, "dx"), <<"ld", "si", "sp", 0, 8, FALSE>>, Temp(old, i + 1, "di") >>,
            Routine(T, Stepping(e), e.type)) ++ << <<"pop", "cx">>, Temp(old, i + 1, "ax") >>

(* The address of the operand is on the stack. *)
PreStep(a, e) ==
  LET v == LoadField(gen_load(a, e.type), e.operand)
  IN  CASE e.type.kind \in {"FLOAT", "DOUBLE"} ->
             gen_store(emit_call(v ++ << <<"li", "si", One(e.type)>>, <<"mv", "di", "ax">> >>,
                                 Routine(T, Stepping(e), e.type)) ++ << <<"pop", "cx">> >>, e.type)
        [] e.type.kind = "LDOUBLE" ->
             gen_store(LongStep(Took(a, 2), a, 0, e), e.type) ++ << Temp(a, 1, "ax") >>
        [] ~type_is_floating(e.type) ->
             StoreField(v ++ << <<"opi", Stepping(e), "ax", "ax", Step(e.type)>> >>, e.operand, e.type)

PreIncrement(g, e) == PreStep(gen_lval(g, e.operand) ++ << <<"push", "ax">> >>, e)

PostStep(a, e) ==
  LET v == LoadField(gen_load(a, e.type), e.operand) ++ << <<"push", "ax">> >>
      address == << <<"ld", "cx", "sp", 8, 8, FALSE>> >>
      restore == << <<"pop", "ax">>, <<"opi", "ADD", "sp", "sp", 8>> >>
  IN  CASE e.type.kind \in {"FLOAT", "DOUBLE"} ->
             gen_store(emit_call(v ++ << <<"li", "si", One(e.type)>>, <<"mv", "di", "ax">> >>,
                                 Routine(T, Stepping(e), e.type)) ++ address, e.type) ++ restore
        [] e.type.kind = "LDOUBLE" ->
             LET saved == gen_store(Took(a, 3) ++ << <<"ld", "ax", "sp", 0, 8, FALSE>>, Temp(a, 0, "cx") >>, e.type)
             IN  gen_store(LongStep(saved, a, 1, e), e.type) ++ << Temp(a, 0, "ax") >>
        [] ~type_is_floating(e.type) ->
             LET stepped == v ++ << <<"opi", Stepping(e), "ax", "ax", Step(e.type)>> >>
             IN  (IF BitField(e.operand)
                    THEN gen_bitfield_store(stepped ++ (address \o << <<"push", "cx">> >>), e.operand.member)
                    ELSE gen_store(stepped ++ address, e.type)) ++ restore

PostIncrement(g, e) == PostStep(gen_lval(g, e.operand) ++ << <<"push", "ax">> >>, e)

Assignment(g, e) ==
  LET a == gen_lval(g, e.lhs) ++ << <<"push", "ax">>, <<"pushi", 0>> >>
      v == gen_cast_to(gen_expr(a, e.rhs), e.rhs.type, e.lhs.type) ++ << <<"opi", "ADD", "sp", "sp", 8>> >>
  IN  StoreField(v, e.lhs, e.type)

(* The old value is loaded, and the new one stored, with the type of the node. *)
CompoundAssignment(g, e) ==
  LET old == gen_load(gen_lval(g, e.lhs) ++ << <<"push", "ax">> >>, e.type)
      scale == IF e.op \in {"ADD", "SUB"} /\ Step(e.type) > 1 THEN Scaled("cx", e.type) ELSE << >>
  IN  IF type_is_floating(e.type)
        THEN LET v == gen_cast_to(gen_expr(old ++ << <<"push", "ax">> >>, e.rhs), e.rhs.type, e.type)
             IN  gen_store(FloatingOp(v ++ << <<"mv", "si", "ax">>, <<"pop", "di">> >>, e.op, e.type)
                             ++ << <<"pop", "cx">> >>, e.type)
        ELSE LET v == gen_expr(LoadField(old, e.lhs) ++ << <<"push", "ax">> >>, e.rhs)
             IN  StoreField(v ++ (<< <<"mv", "cx", "ax">>, <<"pop", "ax">> >> \o scale
                                    \o IntegerOp(e.op, e.type.is_unsigned)), e.lhs, e.type)

Logical(g, e) ==
  LET out  == g.label  end == g.label + 1
      jump == IF e.kind = "LOGAND" THEN "bz" ELSE "bnz"
      through == IF e.kind = "LOGAND" THEN 1 ELSE 0
      l == gen_expr(Labels(g, 2), e.lhs) ++ << <<jump, "ax", out>> >>
  IN  gen_expr(l, e.rhs)
        ++ << <<jump, "ax", out>>, <<"li", "ax", through>>, <<"jmp", end>>, <<"lab", out>>,
              <<"li", "ax", 1 - through>>, <<"lab", end>> >>

Choice(g, e) ==
  LET else == g.label  end == g.label + 1
      then == gen_expr(gen_expr(Labels(g, 2), e.cond) ++ << <<"bz", "ax", else>> >>, e.then_expr)
  IN  gen_expr(then ++ << <<"jmp", end>>, <<"lab", else>> >>, e.else_expr) ++ << <<"lab", end>> >>

FloatingBinary(g, e, common) ==
  LET l == gen_cast_to(gen_expr(g, e.lhs), e.lhs.type, common) ++ << <<"push", "ax">>, <<"pushi", 0>> >>
      r == gen_cast_to(gen_expr(l, e.rhs), e.rhs.type, common)
             ++ << <<"mv", "si", "ax">>, <<"opi", "ADD", "sp", "sp", 8>>, <<"pop", "di">> >>
  IN  IF e.kind \in Comparisons THEN FloatingComparison(r, e.kind, common) ELSE FloatingOp(r, e.kind, common)

IntegerBinary(g, e, common) ==
  LET pl == type_is_pointer(e.lhs.type)
      pr == type_is_pointer(e.rhs.type)
      Promote(h, type) == IF pl \/ pr THEN h ELSE gen_cast_to(h, type, common)
      unsigned == e.type.is_unsigned \/ e.lhs.type.is_unsigned \/ e.rhs.type.is_unsigned
      l == Promote(gen_expr(g, e.lhs), e.lhs.type) ++ << <<"push", "ax">>, <<"pushi", 0>> >>
      r == Promote(gen_expr(l, e.rhs), e.rhs.type)
             ++ << <<"mv", "cx", "ax">>, <<"opi", "ADD", "sp", "sp", 8>>, <<"pop", "ax">> >>
  IN  r ++ (IF e.kind \in {"ADD", "SUB"} /\ pl /\ ~pr THEN Scaled("cx", e.lhs.type)
            ELSE IF e.kind = "ADD" /\ pr /\ ~pl THEN Scaled("ax", e.rhs.type) ELSE << >>)
        ++ IntegerOp(e.kind, unsigned)
        ++ IF e.kind = "SUB" /\ pl /\ pr /\ Step(e.lhs.type) > 1
             THEN << <<"li", "cx", Step(e.lhs.type)>>, Division(FALSE) >> ELSE << >>

Binary(g, e) ==
  LET common == type_max(T, e.lhs.type, e.rhs.type)
  IN  IF type_is_floating(common) THEN FloatingBinary(g, e, common) ELSE IntegerBinary(g, e, common)

gen_expr(g, e) ==
  CASE e.kind \in {"INT_LIT", "FLOAT_LIT"} -> Literal(g, e)
    [] e.kind \in {"VAR", "MEMBER"}        -> LoadField(gen_load(gen_lval(g, e), e.type), e)
    [] e.kind = "ADDR"   -> gen_lval(g, e.operand)
    [] e.kind = "DEREF"  -> gen_load(gen_expr(g, e.operand), e.type)
    [] e.kind = "POS"    -> gen_expr(g, e.operand)
    [] e.kind = "NEG"    -> Negation(g, e)
    [] e.kind = "BITNOT" -> gen_expr(g, e.operand) ++ << <<"opi", "BITXOR", "ax", "ax", -1>> >>
    [] e.kind = "LOGNOT" -> gen_expr(g, e.operand) ++ << <<"seti", "EQ", "ax", "ax", 0>> >>
    [] e.kind = "CAST"   -> gen_cast_to(gen_expr(g, e.operand), e.operand.type, e.type)
    [] e.kind \in {"PRE_INC", "PRE_DEC"}   -> PreIncrement(g, e)
    [] e.kind \in {"POST_INC", "POST_DEC"} -> PostIncrement(g, e)
    [] e.kind = "ASSIGN"    -> Assignment(g, e)
    [] e.kind = "OP_ASSIGN" -> CompoundAssignment(g, e)
    [] e.kind = "COMMA"  -> gen_expr(gen_expr(g, e.lhs), e.rhs)
    [] e.kind \in Conjunctions -> Logical(g, e)
    [] e.kind = "COND"   -> Choice(g, e)
    [] e.kind \in Arithmetics \union Comparisons -> Binary(g, e)
=============================================================================
