---------------------------- MODULE StructLayout ----------------------------
(***************************************************************************)
(* The layout of a struct or union: the loop of parse_struct_union_body in *)
(* src/src/parse.c over the members of a body, one step per member.        *)
(*                                                                         *)
(* A type is its size and alignment in bytes; a member is its type, its    *)
(* byte offset and, for a bit-field, its place in the unit at that offset. *)
(* A body may name bit-fields of integer types, no wider than their type,  *)
(* as C90 asks.                                                            *)
(***************************************************************************)
EXTENDS Integers, Sequences

CONSTANTS
  Types,       \* the types of members: records with size, align, is_unsigned
  Widths,      \* the widths of bit-fields
  ByteBits,    \* 8
  MaxMembers   \* a bound on the length of a body

ASSUME TypesAssumption ==
  \A t \in Types : t.size \in Nat \ {0} /\ t.align \in Nat \ {0}
\* The alignments are powers of two: each divides those above it.
ASSUME AlignAssumption ==
  \A t, u \in Types : t.align <= u.align => u.align % t.align = 0
ASSUME WidthsAssumption == Widths \subseteq Nat
ASSUME ByteAssumption == ByteBits \in Nat \ {0}

\* The types of bit-fields: C90 has the integer types, and type_init aligns
\* each of those to its size.
BitTypes == {t \in Types : t.align = t.size}

VARIABLES
  st,          \* the struct type: is_union, members, size, align, is_complete
  current_offset,
  current_bit_offset,
  last_unit_size,
  last_unit_offset,
  max_align,
  parsed       \* the members that were parsed, those without a name included

layoutVars == <<st, current_offset, current_bit_offset, last_unit_size,
                last_unit_offset, max_align, parsed>>

\* (x + align - 1) & ~(align - 1), align being a power of two.
RoundUp(x, align) == (x + align - 1) - ((x + align - 1) % align)

LayoutInit ==
  /\ st \in {[is_union |-> u, members |-> << >>, size |-> 0, align |-> 1,
              is_complete |-> FALSE] : u \in BOOLEAN}
  /\ current_offset = 0 /\ current_bit_offset = 0
  /\ last_unit_size = 0 /\ last_unit_offset = 0
  /\ max_align = 1 /\ parsed = 0

Member(type, offset, bit_offset, bit_width) ==
  [type |-> type, offset |-> offset,
   bit_offset |-> bit_offset, bit_width |-> bit_width]

\* The member joins the list.
Listed(member) == st' = [st EXCEPT !.members = Append(@, member)]

Widened(align) == IF align > max_align THEN align ELSE max_align

More == ~st.is_complete /\ parsed < MaxMembers /\ parsed' = parsed + 1

UnionMember(type, width, named) ==
  /\ More /\ st.is_union /\ width <= type.size * ByteBits
  /\ IF named THEN Listed(Member(type, 0, 0, width)) ELSE UNCHANGED st
  /\ current_offset' = IF type.size > current_offset THEN type.size
                       ELSE current_offset
  /\ max_align' = Widened(type.align)
  /\ UNCHANGED <<current_bit_offset, last_unit_size, last_unit_offset>>

\* The offset behind the unit that is open, if one is.
Behind == IF current_bit_offset > 0 THEN last_unit_offset + last_unit_size
          ELSE current_offset

\* type : 0; closes the unit.
ZeroWidth ==
  /\ More /\ ~st.is_union
  /\ current_offset' = Behind
  /\ current_bit_offset' = 0
  /\ last_unit_size' = IF current_bit_offset > 0 THEN 0 ELSE last_unit_size
  /\ UNCHANGED <<st, last_unit_offset, max_align>>

\* Mutant: a unit that has bits left takes any field.
RoomAlways(type, width) == current_bit_offset > 0 /\ type.size = last_unit_size

Room(type, width) ==
  /\ current_bit_offset > 0
  /\ current_bit_offset + width <= type.size * ByteBits
  /\ type.size = last_unit_size

\* A bit-field that goes into the open unit.  One without a name takes its
\* place and is not listed.
NextBits(type, width, named) ==
  /\ More /\ ~st.is_union /\ width \in 1..type.size * ByteBits
  /\ Room(type, width)
  /\ IF named
     THEN Listed(Member(type, last_unit_offset, current_bit_offset, width))
     ELSE UNCHANGED st
  /\ current_bit_offset' = current_bit_offset + width
  /\ UNCHANGED <<current_offset, last_unit_size, last_unit_offset, max_align>>

\* A bit-field that opens a unit.
NewUnit(type, width, named) ==
  LET offset == RoundUp(Behind, type.align) IN
  /\ More /\ ~st.is_union /\ width \in 1..type.size * ByteBits
  /\ ~Room(type, width)
  /\ IF named THEN Listed(Member(type, offset, 0, width)) ELSE UNCHANGED st
  /\ last_unit_offset' = offset
  /\ last_unit_size' = type.size
  /\ current_bit_offset' = width
  /\ current_offset' = offset + type.size
  /\ max_align' = Widened(type.align)

PlainMember(type) ==
  LET offset == RoundUp(Behind, type.align) IN
  /\ More /\ ~st.is_union
  /\ Listed(Member(type, offset, 0, 0))
  /\ current_offset' = offset + type.size
  /\ current_bit_offset' = 0
  /\ last_unit_size' = IF current_bit_offset > 0 THEN 0 ELSE last_unit_size
  /\ max_align' = Widened(type.align)
  /\ UNCHANGED last_unit_offset

\* Mutant: the size is not padded to the alignment.
CloseUnpadded(end, align) == end

Padded(end, align) == RoundUp(end, align)

\* The closing brace.
EndBody ==
  /\ ~st.is_complete
  /\ st' = [st EXCEPT !.size = Padded(Behind, max_align), !.align = max_align,
                      !.is_complete = TRUE]
  /\ UNCHANGED <<current_offset, current_bit_offset, last_unit_size,
                 last_unit_offset, max_align, parsed>>

LayoutNext ==
  \/ ZeroWidth \/ EndBody
  \/ \E type \in Types : PlainMember(type) \/ UnionMember(type, 0, TRUE)
  \/ \E type \in BitTypes, width \in Widths, named \in BOOLEAN :
       \/ UnionMember(type, width, named /\ width > 0)
       \/ NextBits(type, width, named) \/ NewUnit(type, width, named)

LayoutSpec == LayoutInit /\ [][LayoutNext]_layoutVars

-----------------------------------------------------------------------------
(***************************************************************************)
(* Properties.                                                             *)
(***************************************************************************)
FirstBit(m) == m.offset * ByteBits + m.bit_offset
BitCount(m) == IF m.bit_width = 0 THEN m.type.size * ByteBits ELSE m.bit_width
EndBit(m)   == FirstBit(m) + BitCount(m)

\* The members of a struct follow each other and share no bit, and a
\* bit-field does not leave its unit: whatever mix of plain members,
\* bit-fields, unnamed ones and zero widths a body has.
MembersApart ==
  /\ ~st.is_union => \A i, j \in DOMAIN st.members :
       i < j => EndBit(st.members[i]) <= FirstBit(st.members[j])
  /\ \A i \in DOMAIN st.members :
       LET m == st.members[i] IN
       m.bit_offset + BitCount(m) <= m.type.size * ByteBits

\* A complete type holds all its members, whole units of bit-fields included
\* (stores rewrite the unit), each at an offset its type allows, also in the
\* second element of an array.
Placed ==
  st.is_complete =>
    /\ st.size % st.align = 0
    /\ \A i \in DOMAIN st.members :
         LET m == st.members[i] IN
         /\ m.offset + m.type.size <= st.size
         /\ m.offset % m.type.align = 0
         /\ st.align % m.type.align = 0
=============================================================================
