------------------------------ MODULE GenI386 ------------------------------
(***************************************************************************)
(* Expressions in the code generator for i386 (gen_i386.c).  The value of  *)
(* an expression is left in ax; a struct, double or long double leaves its *)
(* address.  Arguments of the soft-float routines go over the stack.       *)
(***************************************************************************)
EXTENDS Emission

LOCAL T == "i386"
LOCAL W == WordBits(T)

ByAddress(type) == type.kind \in {"DOUBLE", "LDOUBLE"}

gen_load(g, type) ==
  IF Aggregate(type) \/ type.kind = "ARRAY" \/ ByAddress(type) THEN g
  ELSE g ++ << <<"ld", "ax", "ax", 0, type.size, ~type.is_unsigned>> >>

gen_store(g, type) ==
  g ++ << IF Aggregate(type) \/ type.size > 4 THEN <<"copy", "cx", "ax", type.size, "dx">>
          ELSE <<"st", "ax", "cx", 0, type.size>> >>

Extend(m) == << <<"opi", "SHL", "ax", "ax", W - (m.bit_offset + m.bit_width)>>,
                <<"opi", "SAR", "ax", "ax", W - m.bit_width>> >>

gen_bitfield_load(g, m) ==
  g ++ IF m.type.is_unsigned THEN << <<"opi", "SHR", "ax", "ax", m.bit_offset>>,
                                     <<"opi", "BITAND", "ax", "ax", FieldMask(m)>> >>
       ELSE Extend(m)

(* The address is on the stack, the value in ax. *)
gen_bitfield_store(g, m) ==
  g ++ (<< <<"opi", "BITAND", "ax", "ax", FieldMask(m)>>, <<"opi", "SHL", "ax", "ax", m.bit_offset>>,
           <<"mv", "dx", "ax">>, <<"pop", "cx">>, <<"ld", "ax", "cx", 0, m.type.size, FALSE>>,
           <<"opi", "BITAND", "ax", "ax", ClearMask(m)>>, <<"op", "BITOR", "ax", "ax", "dx">>,
           <<"st", "ax", "cx", 0, m.type.size>>, <<"mv", "ax", "dx">> >>
        \o IF m.type.is_unsigned THEN << <<"opi", "SHR", "ax", "ax", m.bit_offset>> >> ELSE Extend(m))

LoadField(g, e) == IF BitField(e) THEN gen_bitfield_load(g, e.member) ELSE g
(* Stores ax where the address on the stack points, and drops the address. *)
StoreField(g, lhs, type) ==
  IF BitField(lhs) THEN gen_bitfield_store(g, lhs.member)
  ELSE gen_store(g ++ << <<"pop", "cx">> >>, type)

PushTemp(g, i) == << <<"opi", "ADD", "ax", "fp", ScratchX86(g, i)>>, <<"push", "ax">> >>
\* Mutant: the address for the result is not counted.
DropOperands(words) == << <<"opi", "ADD", "sp", "sp", 4 * (IF words = 3 THEN 2 ELSE words)>> >>
Drop(words) == << <<"opi", "ADD", "sp", "sp", 4 * words>> >>
ToTemp(g, i) == << <<"opi", "ADD", "ax", "fp", ScratchX86(g, i)>> >>

(* A routine with one operand, in ax or at the address in ax. *)
UnaryCall(g, func, result) ==
  IF ByAddress(result)
    THEN Took(g, 1) ++ (<< <<"push", "ax">> >> \o PushTemp(g, 0) \o << func >> \o Drop(2) \o ToTemp(g, 0))
    ELSE g ++ (<< <<"push", "ax">>, func >> \o Drop(1))

gen_cast_to(g, from, to) ==
  CASE type_equal(from, to) -> g
    [] ~type_equal(from, to) /\ (type_is_floating(from) \/ type_is_floating(to)) ->
         UnaryCall(g, Conversion(T, from, to), to)
    [] ~type_equal(from, to) /\ ~type_is_floating(from) /\ ~type_is_floating(to) ->
         IF to.size \notin {1, 2} THEN g
         ELSE g ++ << <<IF to.is_unsigned THEN "zext" ELSE "sext", "ax", "ax", to.size>> >>

(* ax op cx *)
FloatingOp(g, op, type) ==
  LET operands == << <<"push", "cx">>, <<"push", "ax">> >>
  IN  IF ByAddress(type)
        THEN Took(g, 1) ++ (operands \o PushTemp(g, 0) \o << Routine(T, op, type) >> \o Drop(3) \o ToTemp(g, 0))
        ELSE g ++ (operands \o << Routine(T, op, type) >> \o Drop(2))

FloatingComparison(g, op, type) ==
  g ++ (<< <<"push", "cx">>, <<"push", "ax">>, Routine(T, op, type), <<"seti", op, "ax", "ax", 0>> >> \o Drop(2))

Division(unsigned) == IF unsigned THEN <<"idiv", "UDIV", "UMOD">> ELSE <<"idiv", "DIV", "MOD">>

IntegerOp(op, unsigned) ==
  CASE op \in {"ADD", "SUB", "MUL", "SHL", "BITAND", "BITOR", "BITXOR"} -> << <<"op", op, "ax", "ax", "cx">> >>
    [] op = "DIV" -> << Division(unsigned) >>
    [] op = "MOD" -> << Division(unsigned), <<"mv", "ax", "dx">> >>
    [] op = "SHR" -> << <<"op", IF unsigned THEN "SHR" ELSE "SAR", "ax", "ax", "cx">> >>
    [] op \in Comparisons -> << <<IF unsigned THEN "setu" ELSE "set", op, "ax", "ax", "cx">> >>

Scaled(r, type) == << <<"opi", "MUL", r, r, Step(type)>> >>

-----------------------------------------------------------------------------
RECURSIVE gen_expr(_, _), gen_lval(_, _)

gen_lval(g, e) ==
  CASE e.kind = "VAR" ->
         g ++ << IF e.sym.is_global THEN <<"li", "ax", e.sym.address>>
                 ELSE <<"opi", "ADD", "ax", "fp", e.sym.address>> >>
    [] e.kind = "DEREF"  -> gen_expr(g, e.operand)
    [] e.kind = "MEMBER" ->
         (IF e.is_arrow THEN gen_expr(g, e.target) ELSE gen_lval(g, e.target))
           ++ << <<"opi", "ADD", "ax", "ax", e.member.offset>> >>

(* A floating-point constant stands in memory under its label. *)
Literal(g, e) ==
  IF e.kind = "INT_LIT" THEN g ++ << <<"li", "ax", e.val>> >>
  ELSE gen_load(g ++ << <<"li", "ax", e.label>> >>, e.type)

Negation(g, e) ==
  LET v == gen_expr(g, e.operand)
  IN  CASE e.type.kind = "FLOAT" -> v ++ << <<"opi", "BITXOR", "ax", "ax", Span(4) \div 2>> >>
        [] ByAddress(e.type)     -> UnaryCall(v, Routine(T, "NEG", e.type), e.type)
        [] ~type_is_floating(e.type) -> v ++ << <<"neg", "ax", "ax">> >>

(* The i-th temporary becomes one; a double is written in two words. *)
StoreOne(g, i, type) ==
  IF type.kind = "DOUBLE"
    THEN << <<"sti", FloatBits(1, 8) % Span(4), ScratchX86(g, i)>>,
            <<"sti", FloatBits(1, 8) \div Span(4), ScratchX86(g, i) + 4>> >>
    ELSE << <<"pushi", 1>> >> \o PushTemp(g, i) \o << Conversion(T, type_int, type) >> \o Drop(2)

(* The sum of the number under the address on the stack and one, made with *)
(* the temporaries from i on; g has taken them.                            *)
StepInMemory(g, old, i, e) ==
  g ++ (StoreOne(old, i, e.type) \o PushTemp(old, i)
        \o << <<"ld", "ax", "sp", 4, 4, FALSE>>, <<"push", "ax">> >> \o PushTemp(old, i + 1)
        \o << Routine(T, Stepping(e), e.type) >> \o Drop(3) \o << <<"pop", "cx">> >> \o ToTemp(old, i + 1))

StepFloat(e) == << <<"pushi", FloatBits(1, 4)>>, <<"push", "ax">>, Routine(T, Stepping(e), e.type) >> \o Drop(2)

(* The address of the operand is on the stack. *)
PreStep(a, e) ==
  LET v == LoadField(gen_load(a, e.type), e.operand)
  IN  CASE e.type.kind = "FLOAT" ->
             gen_store(v ++ StepFloat(e) ++ << <<"pop", "cx">> >>, e.type)
        [] ByAddress(e.type) ->
             gen_store(StepInMemory(Took(a, 2), a, 0, e), e.type) ++ ToTemp(a, 1)
        [] ~type_is_floating(e.type) ->
             StoreField(v ++ << <<"opi", Stepping(e), "ax", "ax", Step(e.type)>> >>, e.operand, e.type)

PreIncrement(g, e) == PreStep(gen_lval(g, e.operand) ++ << <<"push", "ax">> >>, e)

PostStep(a, e) ==
  LET v == LoadField(gen_load(a, e.type), e.operand) ++ << <<"push", "ax">> >>
      address == << <<"ld", "cx", "sp", 4, 4, FALSE>> >>
      restore == << <<"pop", "ax">> >> \o Drop(1)
  IN  CASE e.type.kind = "FLOAT" -> gen_store(v ++ StepFloat(e) ++ address, e.type) ++ restore
        [] ByAddress(e.type) ->
             LET saved == gen_store(Took(a, 3) ++ << <<"ld", "ax", "sp", 0, 4, FALSE>>,
                                                     <<"opi", "ADD", "cx", "fp", ScratchX86(a, 0)>> >>, e.type)
             IN  gen_store(StepInMemory(saved, a, 1, e), e.type) ++ ToTemp(a, 0)
        [] ~type_is_floating(e.type) ->
             LET stepped == v ++ << <<"opi", Stepping(e), "ax", "ax", Step(e.type)>> >>
             IN  (IF BitField(e.operand)
                    THEN gen_bitfield_store(stepped ++ (address \o << <<"push", "cx">> >>), e.operand.member)
                    ELSE gen_store(stepped ++ address, e.type)) ++ restore

PostIncrement(g, e) == PostStep(gen_lval(g, e.operand) ++ << <<"push", "ax">> >>, e)

Assignment(g, e) ==
  StoreField(gen_cast_to(gen_expr(gen_lval(g, e.lhs) ++ << <<"push", "ax">> >>, e.rhs), e.rhs.type, e.lhs.type),
             e.lhs, e.type)

(* The old value is loaded, and the new one stored, with the type of the node. *)
CompoundAssignment(g, e) ==
  LET old == gen_load(gen_lval(g, e.lhs) ++ << <<"push", "ax">> >>, e.type)
      operands == << <<"mv", "cx", "ax">>, <<"pop", "ax">> >>
      scale == IF e.op \in {"ADD", "SUB"} /\ Step(e.type) > 1 THEN Scaled("cx", e.type) ELSE << >>
  IN  IF type_is_floating(e.type)
        THEN LET v == gen_cast_to(gen_expr(old ++ << <<"push", "ax">> >>, e.rhs), e.rhs.type, e.type)
             IN  gen_store(FloatingOp(v ++ operands, e.op, e.type) ++ << <<"pop", "cx">> >>, e.type)
        ELSE LET v == gen_expr(LoadField(old, e.lhs) ++ << <<"push", "ax">> >>, e.rhs)
             IN  StoreField(v ++ (operands \o scale \o IntegerOp(e.op, e.type.is_unsigned)), e.lhs, e.type)

Logical(g, e) ==
  LET out  == g.label  end == g.label + 1
      jump == IF e.kind = "LOGAND" THEN "bz" ELSE "bnz"
      through == IF e.kind = "LOGAND" THEN 1 ELSE 0
      l == gen_expr(Labels(g, 2), e.lhs) ++ << <<jump, "ax", out>> >>
  IN  gen_expr(l, e.rhs)
        ++ << <<jump, "ax", out>>, <<"li", "ax", through>>, <<"jmp", end>>, <<"lab", out>>,
              <<"li", "ax", 1 - through>>, <<"lab", end>> >>

Choice(g, e) ==
  LET else == g.label  end == g.label + 1
      then == gen_expr(gen_expr(Labels(g, 2), e.cond) ++ << <<"bz", "ax", else>> >>, e.then_expr)
  IN  gen_expr(then ++ << <<"jmp", end>>, <<"lab", else>> >>, e.else_expr) ++ << <<"lab", end>> >>

FloatingBinary(g, e, common) ==
  LET l == gen_cast_to(gen_expr(g, e.lhs), e.lhs.type, common) ++ << <<"push", "ax">> >>
      r == gen_cast_to(gen_expr(l, e.rhs), e.rhs.type, common) ++ << <<"mv", "cx", "ax">>, <<"pop", "ax">> >>
  IN  IF e.kind \in Comparisons THEN FloatingComparison(r, e.kind, common) ELSE FloatingOp(r, e.kind, common)

IntegerBinary(g, e) ==
  LET pl == type_is_pointer(e.lhs.type)
      pr == type_is_pointer(e.rhs.type)
      unsigned == e.type.is_unsigned \/ e.lhs.type.is_unsigned \/ e.rhs.type.is_unsigned
      r == gen_expr(gen_expr(g, e.lhs) ++ << <<"push", "ax">> >>, e.rhs) ++ << <<"mv", "cx", "ax">>, <<"pop", "ax">> >>
  IN  r ++ (IF e.kind \in {"ADD", "SUB"} /\ pl /\ ~pr THEN Scaled("cx", e.lhs.type)
            ELSE IF e.kind = "ADD" /\ pr /\ ~pl THEN Scaled("ax", e.rhs.type) ELSE << >>)
        ++ IntegerOp(e.kind, unsigned)
        ++ IF e.kind = "SUB" /\ pl /\ pr /\ Step(e.lhs.type) > 1
             THEN << <<"li", "cx", Step(e.lhs.type)>>, Division(FALSE) >> ELSE << >>

Binary(g, e) ==
  LET common == type_max(T, e.lhs.type, e.rhs.type)
  IN  IF type_is_floating(common) THEN FloatingBinary(g, e, common) ELSE IntegerBinary(g, e)

gen_expr(g, e) ==
  CASE e.kind \in {"INT_LIT", "FLOAT_LIT"} -> Literal(g, e)
    [] e.kind \in {"VAR", "MEMBER"}        -> LoadField(gen_load(gen_lval(g, e), e.type), e)
    [] e.kind = "ADDR"   -> gen_lval(g, e.operand)
    [] e.kind = "DEREF"  -> gen_load(gen_expr(g, e.operand), e.type)
    [] e.kind = "POS"    -> gen_expr(g, e.operand)
    [] e.kind = "NEG"    -> Negation(g, e)
    [] e.kind = "BITNOT" -> gen_expr(g, e.operand) ++ << <<"opi", "BITXOR", "ax", "ax", -1>> >>
    [] e.kind = "LOGNOT" -> gen_expr(g, e.operand) ++ << <<"seti", "EQ", "ax", "ax", 0>> >>
    [] e.kind = "CAST"   -> gen_cast_to(gen_expr(g, e.operand), e.operand.type, e.type)
    [] e.kind \in {"PRE_INC", "PRE_DEC"}   -> PreIncrement(g, e)
    [] e.kind \in {"POST_INC", "POST_DEC"} -> PostIncrement(g, e)
    [] e.kind = "ASSIGN"    -> Assignment(g, e)
    [] e.kind = "OP_ASSIGN" -> CompoundAssignment(g, e)
    [] e.kind = "COMMA"  -> gen_expr(gen_expr(g, e.lhs), e.rhs)
    [] e.kind \in Conjunctions -> Logical(g, e)
    [] e.kind = "COND"   -> Choice(g, e)
    [] e.kind \in Arithmetics \union Comparisons -> Binary(g, e)
=============================================================================
