------------------------------- MODULE CTypes -------------------------------
(***************************************************************************)
(* Types of C and the typed trees of expressions, as type.c and the        *)
(* constructors of parse.c make them.  A target is one of the three back   *)
(* ends; it decides the sizes of long and of pointers.                     *)
(***************************************************************************)
EXTENDS Integers, Sequences

Targets == {"x86_64", "i386", "rv32"}

-----------------------------------------------------------------------------
(* Types.  base is the empty sequence or the type pointed to, the element or *)
(* the result.                                                               *)

type_new(kind, size) == [kind |-> kind, size |-> size, is_unsigned |-> FALSE, base |-> << >>]
Unsigned(type) == [type EXCEPT !.is_unsigned = TRUE]

LongSize(t) == IF t = "x86_64" THEN 8 ELSE 4
PtrSize(t) == IF t = "x86_64" THEN 8 ELSE 4

type_char == type_new("CHAR", 1)
type_short == type_new("SHORT", 2)
type_int == type_new("INT", 4)
type_long(t) == type_new("LONG", LongSize(t))
type_uchar == Unsigned(type_char)
type_ushort == Unsigned(type_short)
type_uint == Unsigned(type_int)
type_ulong(t) == Unsigned(type_long(t))
type_float == type_new("FLOAT", 4)
type_double == type_new("DOUBLE", 8)
type_ldouble == type_new("LDOUBLE", 16)

type_pointer_to(t, base) == [type_new("PTR", PtrSize(t)) EXCEPT !.base = <<base>>]
type_array_of(base, len) == [type_new("ARRAY", base.size * len) EXCEPT !.base = <<base>>]

type_is_integer(type) == type.kind \in {"CHAR", "SHORT", "INT", "LONG", "ENUM"}
type_is_floating(type) == type.kind \in {"FLOAT", "DOUBLE", "LDOUBLE"}
type_is_pointer(type) == type.kind \in {"PTR", "ARRAY"}
Aggregate(type) == type.kind \in {"STRUCT", "UNION"}

RECURSIVE type_equal(_, _)
type_equal(a, b) ==
  /\ a.kind = b.kind
  /\ a.is_unsigned = b.is_unsigned
  /\ a.base = << >> \/ b.base = << >> \/ type_equal(a.base[1], b.base[1])

(* The type in which a binary operation is done. *)
type_max(t, a, b) ==
  LET Either(kind) == kind \in {a.kind, b.kind}
      unsigned == a.is_unsigned \/ b.is_unsigned
  IN  IF type_is_pointer(a) THEN a
      ELSE IF type_is_pointer(b) THEN b
      ELSE IF Either("LDOUBLE") THEN type_ldouble
      ELSE IF Either("DOUBLE") THEN type_double
      ELSE IF Either("FLOAT") THEN type_float
      ELSE IF Either("LONG") THEN IF unsigned THEN type_ulong(t) ELSE type_long(t)
      ELSE IF unsigned THEN type_uint ELSE type_int

-----------------------------------------------------------------------------
(* Trees.  A symbol has a name, a type and a place: the offset from the frame *)
(* pointer, or its address if it is global.                                   *)

Comparisons == {"EQ", "NE", "LT", "LE", "GT", "GE"}
Arithmetics == {"ADD", "SUB", "MUL", "DIV", "MOD", "SHL", "SHR", "BITAND", "BITXOR", "BITOR"}
Conjunctions == {"LOGAND", "LOGOR"}
Increments == {"PRE_INC", "PRE_DEC", "POST_INC", "POST_DEC"}

ast_int_lit(val, type) == [kind |-> "INT_LIT", type |-> type, val |-> val]
(* A floating-point constant stands in memory under its label. *)
ast_float_lit(val, type, label) == [kind |-> "FLOAT_LIT", type |-> type, val |-> val, label |-> label]
ast_var(sym) == [kind |-> "VAR", type |-> sym.type, sym |-> sym]

ast_unary(t, kind, operand) ==
  [kind |-> kind, operand |-> operand,
   type |-> CASE kind = "ADDR"   -> type_pointer_to(t, operand.type)
              [] kind = "DEREF"  -> operand.type.base[1]
              [] kind = "LOGNOT" -> type_int
              [] OTHER           -> operand.type]

(* A compound assignment op= is the kind "OP_ASSIGN" with the operation op. *)
BinaryType(t, kind, lhs, rhs) ==
  IF kind \in Comparisons \union Conjunctions THEN type_int
  ELSE IF kind = "ASSIGN" THEN lhs
  ELSE IF kind = "COMMA" THEN rhs
  ELSE IF type_is_pointer(lhs) /\ type_is_integer(rhs) THEN lhs
  ELSE IF type_is_pointer(lhs) /\ type_is_pointer(rhs) /\ kind = "SUB" THEN type_long(t)
  ELSE type_max(t, lhs, rhs)

ast_binary(t, kind, lhs, rhs) ==
  [kind |-> kind, type |-> BinaryType(t, kind, lhs.type, rhs.type), lhs |-> lhs, rhs |-> rhs]

OpAssign(t, op, lhs, rhs) ==
  [kind |-> "OP_ASSIGN", op |-> op, type |-> BinaryType(t, "OP_ASSIGN", lhs.type, rhs.type),
   lhs |-> lhs, rhs |-> rhs]

ast_cast(target, operand) == [kind |-> "CAST", type |-> target, operand |-> operand]

(* An assignment, or an argument, to or from a floating type is converted by *)
(* a cast of the parser, any other by the generator.                         *)
Converted(to, e) ==
  IF (type_is_floating(to) \/ type_is_floating(e.type)) /\ ~type_equal(to, e.type)
    THEN ast_cast(to, e) ELSE e

Assign(t, lhs, rhs) == ast_binary(t, "ASSIGN", lhs, Converted(lhs.type, rhs))

Conditional(t, cond, then_expr, else_expr) ==
  [kind |-> "COND", type |-> type_max(t, then_expr.type, else_expr.type), cond |-> cond,
   then_expr |-> then_expr, else_expr |-> else_expr]

Index(t, array, index) == ast_unary(t, "DEREF", ast_binary(t, "ADD", array, index))

(* A member has a type, an offset and, if bit_width is positive, a place of *)
(* bits in the unit of its type.                                            *)
ast_member(target, member, is_arrow) ==
  [kind |-> "MEMBER", type |-> member.type, target |-> target, member |-> member,
   is_arrow |-> is_arrow]

BitField(e) == e.kind = "MEMBER" /\ e.member.bit_width > 0

ast_call(func, result, args) == [kind |-> "CALL", type |-> result, func |-> func, args |-> args]
=============================================================================
