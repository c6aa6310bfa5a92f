------------------------------ MODULE Emission ------------------------------
(***************************************************************************)
(* The state of a generator of expression code and what the three of them  *)
(* share: the code so far, the next label and the next of the 8 scratch    *)
(* temporaries of the frame.                                               *)
(***************************************************************************)
EXTENDS Machine

CONSTANT StackSize  \* of the function the expression is in

Generator == [code |-> << >>, label |-> 1, slot |-> 0]

g ++ instructions == [g EXCEPT !.code = @ \o instructions]
Labels(g, n) == [g EXCEPT !.label = @ + n]

(* The i-th temporary that g hands out from now on, and g after n of them. *)
Slot(g, i) == (g.slot + i) % 8
TookNone(g, n) == g  \* Mutant: every call uses the same temporary.
Took(g, n) == [g EXCEPT !.slot = (@ + n) % 8]

(* Where the temporaries are: bytes below the frame pointer. *)
scratch_base == IF StackSize > 128 THEN StackSize - 128 + 16 ELSE 16
ScratchX86(g, i) == -(scratch_base + 16 * Slot(g, i))
ScratchRv32(g, i) == 8 - StackSize + 16 * Slot(g, i)

(* The step of ++ and of pointer arithmetic. *)
Step(type) == IF type.base # << >> THEN type.base[1].size ELSE 1

(* The format of a type in the names of the soft-float routines. *)
Format(t, type) ==
  CASE type.kind = "FLOAT"   -> "sf"
    [] type.kind = "DOUBLE"  -> "df"
    [] type.kind = "LDOUBLE" -> "tf"
    [] ~type_is_floating(type) /\ type.size = 8 -> IF type.is_unsigned THEN "udi" ELSE "di"
    [] ~type_is_floating(type) /\ type.size # 8 -> IF type.is_unsigned THEN "usi" ELSE "si"

Conversion(t, from, to) == <<"soft", "CONV", Format(t, from), Format(t, to)>>
Routine(t, op, type) == <<"soft", op, Format(t, type)>>

Stepping(e) == IF e.kind \in {"PRE_INC", "POST_INC"} THEN "ADD" ELSE "SUB"

(* A bit-field in its unit. *)
FieldMask(m) == 2 ^ m.bit_width - 1
\* Mutant: the mask that clears the field is not moved to its place.
ClearMaskUnshifted(m) == Span(m.type.size) - 1 - FieldMask(m)
ClearMask(m) == Span(m.type.size) - 1 - (FieldMask(m) * 2 ^ m.bit_offset)
=============================================================================
