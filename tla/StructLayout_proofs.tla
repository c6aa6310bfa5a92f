------------------------ MODULE StructLayout_proofs -------------------------
(***************************************************************************)
(* Two theorems about the layout of a struct or union, for every set of    *)
(* types and widths, every size of a byte and bodies of every length.      *)
(*                                                                         *)
(* LayoutKeepsMembersApart: members share no bit.  LayoutInv says where    *)
(* the members end: before the next free bit, which is in the open unit of *)
(* bit-fields if there is one, and at the current offset otherwise.        *)
(*                                                                         *)
(* LayoutPlacesMembers: members are aligned and fit.  PlacedInv says that  *)
(* max_align is the alignment of a member or 1, so that it divides no less *)
(* than the members' own, and that whole units end before current_offset.  *)
(***************************************************************************)
EXTENDS StructLayout, TLAPS

MemberType == [type : Types, offset : Nat, bit_offset : Nat, bit_width : Nat]

StructType == [is_union : BOOLEAN, members : Seq(MemberType), size : Int,
               align : Int, is_complete : BOOLEAN]

LayoutTyped ==
  /\ st \in StructType /\ max_align \in Nat \ {0}
  /\ current_offset \in Nat /\ current_bit_offset \in Nat
  /\ last_unit_size \in Nat /\ last_unit_offset \in Nat

\* The first bit no member has.
FreeBit == IF current_bit_offset > 0
           THEN last_unit_offset * ByteBits + current_bit_offset
           ELSE current_offset * ByteBits

OpenUnit ==
  current_bit_offset > 0 =>
    /\ current_bit_offset <= last_unit_size * ByteBits
    /\ current_offset = last_unit_offset + last_unit_size

BelowFree ==
  ~st.is_union => \A i \in DOMAIN st.members : EndBit(st.members[i]) <= FreeBit

UnionHasNoUnit == st.is_union => current_bit_offset = 0

LayoutInv ==
  LayoutTyped /\ OpenUnit /\ UnionHasNoUnit /\ BelowFree /\ MembersApart

\* Rounding up to an alignment does not go down.
LEMMA RoundUpGrows ==
  ASSUME NEW x \in Nat, NEW a \in Nat \ {0}
  PROVE  RoundUp(x, a) \in Nat /\ RoundUp(x, a) >= x
<1>1. (x + a - 1) % a \in 0..a - 1
  OBVIOUS
<1> QED BY <1>1 DEF RoundUp

\* Of two numbers of bytes, the greater one has more bits.
LEMMA BitsMonotone ==
  ASSUME NEW x \in Nat, NEW y \in Nat, x <= y
  PROVE  x * ByteBits <= y * ByteBits
BY ByteAssumption

LEMMA BitsAdd ==
  ASSUME NEW x \in Nat, NEW y \in Nat
  PROVE  (x + y) * ByteBits = x * ByteBits + y * ByteBits
BY ByteAssumption

\* The free bit is not behind the open unit, which is where a new one starts.
LEMMA FreeBelowBehind ==
  ASSUME LayoutInv
  PROVE  Behind \in Nat /\ FreeBit \in Nat /\ FreeBit <= Behind * ByteBits
<1>1. CASE current_bit_offset > 0
  <2>1. /\ Behind = last_unit_offset + last_unit_size
        /\ FreeBit = last_unit_offset * ByteBits + current_bit_offset
        /\ current_bit_offset <= last_unit_size * ByteBits
    BY <1>1 DEF LayoutInv, OpenUnit, Behind, FreeBit
  <2>2. Behind * ByteBits
          = last_unit_offset * ByteBits + last_unit_size * ByteBits
    BY <2>1, BitsAdd DEF LayoutInv, LayoutTyped
  <2>3. /\ last_unit_offset \in Nat /\ last_unit_size \in Nat
        /\ current_bit_offset \in Nat /\ last_unit_offset * ByteBits \in Nat
        /\ last_unit_size * ByteBits \in Nat
    BY ByteAssumption DEF LayoutInv, LayoutTyped
  <2> QED BY <2>1, <2>2, <2>3
<1>2. CASE ~(current_bit_offset > 0)
  <2>1. Behind = current_offset /\ FreeBit = current_offset * ByteBits
    BY <1>2 DEF Behind, FreeBit
  <2>2. current_offset \in Nat /\ current_offset * ByteBits \in Nat
    BY ByteAssumption DEF LayoutInv, LayoutTyped
  <2> QED BY <2>1, <2>2
<1> QED BY <1>1, <1>2

LEMMA MemberBits ==
  ASSUME NEW k \in MemberType
  PROVE  FirstBit(k) \in Nat /\ BitCount(k) \in Nat /\ EndBit(k) \in Nat
<1>1. /\ k.offset \in Nat /\ k.bit_offset \in Nat /\ k.bit_width \in Nat
      /\ k.type.size \in Nat
  BY TypesAssumption DEF MemberType
<1>2. k.offset * ByteBits \in Nat /\ k.type.size * ByteBits \in Nat
  BY <1>1, ByteAssumption
<1>3. FirstBit(k) \in Nat /\ BitCount(k) \in Nat
  BY <1>1, <1>2 DEF FirstBit, BitCount
<1> QED BY <1>3 DEF EndBit

\* A member that starts behind the others and ends before the free bit.
LEMMA AppendApart ==
  ASSUME LayoutInv, ~st.is_union, NEW m \in MemberType,
         st' = [st EXCEPT !.members = Append(@, m)],
         FreeBit <= FirstBit(m), EndBit(m) <= FreeBit', FreeBit <= FreeBit',
         m.bit_offset + BitCount(m) <= m.type.size * ByteBits,
         FreeBit \in Nat, FreeBit' \in Nat
  PROVE  BelowFree' /\ MembersApart'
<1> DEFINE n == Len(st.members)
<1>1. /\ st.members \in Seq(MemberType) /\ n \in Nat
      /\ st'.members = Append(st.members, m)
      /\ st'.is_union = st.is_union
  BY DEF LayoutInv, LayoutTyped, StructType
<1>2. /\ DOMAIN st'.members = 1..n + 1
      /\ st'.members[n + 1] = m
      /\ \A i \in 1..n : st'.members[i] = st.members[i]
      /\ DOMAIN st.members = 1..n
  <2> HIDE DEF n
  <2>1. n = Len(st.members)
    BY DEF n
  <2>2. Len(Append(st.members, m)) = n + 1
    BY <1>1, <2>1
  <2>3. Append(st.members, m) \in Seq(MemberType)
    BY <1>1
  <2>4. Append(st.members, m)[n + 1] = m
    BY <1>1, <2>1
  <2>5. \A i \in 1..n : Append(st.members, m)[i] = st.members[i]
    BY <1>1, <2>1
  <2> QED BY <1>1, <2>1, <2>2, <2>3, <2>4, <2>5
<1>3. \A i \in 1..n : EndBit(st.members[i]) <= FreeBit
  BY <1>2 DEF LayoutInv, BelowFree
<1>4. \A k \in MemberType : EndBit(k) \in Int /\ FirstBit(k) \in Int
  BY MemberBits
<1>5. \A i \in 1..n : st.members[i] \in MemberType
  BY <1>1, <1>2
<1>6. BelowFree'
  <2> SUFFICES ASSUME NEW i \in 1..n + 1
               PROVE  EndBit(st'.members[i]) <= FreeBit'
    BY <1>2 DEF BelowFree, EndBit, FirstBit, BitCount
  <2>1. CASE i = n + 1
    BY <1>2, <2>1
  <2>2. CASE i \in 1..n
    BY <1>2, <1>3, <1>4, <1>5, <2>2
  <2> QED BY <2>1, <2>2, <1>1
<1>7. ASSUME NEW i \in 1..n + 1, NEW j \in 1..n + 1, i < j
      PROVE  EndBit(st'.members[i]) <= FirstBit(st'.members[j])
  <2>1. i \in 1..n
    BY <1>1, <1>7
  <2>2. CASE j = n + 1
    BY <1>2, <1>3, <1>4, <1>5, <2>1, <2>2
  <2>3. CASE j \in 1..n
    BY <1>2, <2>1, <2>3, <1>7 DEF LayoutInv, MembersApart
  <2> QED BY <2>2, <2>3, <1>1
<1>8. ASSUME NEW i \in 1..n + 1
      PROVE  st'.members[i].bit_offset + BitCount(st'.members[i])
               <= st'.members[i].type.size * ByteBits
  <2>1. CASE i = n + 1
    BY <1>2, <2>1
  <2>2. CASE i \in 1..n
    BY <1>2, <2>2 DEF LayoutInv, MembersApart
  <2> QED BY <2>1, <2>2, <1>1
<1> QED BY <1>2, <1>6, <1>7, <1>8
     DEF MembersApart, EndBit, FirstBit, BitCount

\* When the list stays and the free bit does not move back.
LEMMA SameListApart ==
  ASSUME LayoutInv, st'.members = st.members, st'.is_union = st.is_union,
         FreeBit \in Nat, FreeBit' \in Nat, FreeBit <= FreeBit'
  PROVE  BelowFree' /\ MembersApart'
<1>1. MembersApart'
  BY DEF LayoutInv, MembersApart, EndBit, FirstBit, BitCount
<1>2. \A k \in MemberType : EndBit(k) \in Int
  BY MemberBits
<1>3. \A i \in DOMAIN st.members : st.members[i] \in MemberType
  BY DEF LayoutInv, LayoutTyped, StructType
<1>4. BelowFree'
  BY <1>2, <1>3 DEF LayoutInv, BelowFree, EndBit, FirstBit, BitCount
<1> QED BY <1>1, <1>4

LEMMA AppendTyped ==
  ASSUME NEW s \in StructType, NEW m \in MemberType
  PROVE  [s EXCEPT !.members = Append(@, m)] \in StructType
<1>1. s.members \in Seq(MemberType)
  BY DEF StructType
<1>2. Append(s.members, m) \in Seq(MemberType)
  BY <1>1
<1>3. \A q \in Seq(MemberType) : [s EXCEPT !.members = q] \in StructType
  BY DEF StructType
<1> QED BY <1>2, <1>3

LEMMA WidenedTyped ==
  ASSUME LayoutTyped, NEW type \in Types
  PROVE  Widened(type.align) \in Nat \ {0}
BY TypesAssumption DEF LayoutTyped, Widened

-----------------------------------------------------------------------------
LEMMA ZeroWidthStep == LayoutInv /\ ZeroWidth => LayoutInv'
<1> SUFFICES ASSUME LayoutInv, ZeroWidth PROVE LayoutInv'
  OBVIOUS
<1>1. /\ current_offset' = Behind /\ current_bit_offset' = 0 /\ st' = st
      /\ last_unit_offset' = last_unit_offset /\ ~st.is_union
      /\ last_unit_size' \in Nat /\ max_align' = max_align
  BY DEF ZeroWidth, LayoutInv, LayoutTyped
<1>2. Behind \in Nat /\ FreeBit \in Nat /\ FreeBit <= Behind * ByteBits
  BY FreeBelowBehind
<1>3. FreeBit' = Behind * ByteBits /\ FreeBit' \in Nat
  BY <1>1, <1>2, ByteAssumption DEF FreeBit
<1>4. BelowFree' /\ MembersApart'
  BY <1>1, <1>2, <1>3, SameListApart
<1>5. LayoutTyped' /\ OpenUnit'
  BY <1>1, <1>2 DEF LayoutInv, LayoutTyped, OpenUnit
<1> QED BY <1>1, <1>4, <1>5 DEF LayoutInv, UnionHasNoUnit

LEMMA UnionStep ==
  ASSUME LayoutInv, NEW type \in Types, NEW width \in Nat,
         NEW named \in BOOLEAN, UnionMember(type, width, named)
  PROVE  LayoutInv'
<1> DEFINE m == Member(type, 0, 0, width)
<1>1. /\ st.is_union /\ width <= type.size * ByteBits
      /\ UNCHANGED <<current_bit_offset, last_unit_size, last_unit_offset>>
      /\ current_offset' \in Nat /\ max_align' \in Nat \ {0}
  BY TypesAssumption, WidenedTyped DEF UnionMember, LayoutInv, LayoutTyped
<1>2. m \in MemberType
  BY DEF MemberType, Member
<1>3. m.bit_offset + BitCount(m) <= m.type.size * ByteBits
  <2>1. type.size * ByteBits \in Nat
    BY ByteAssumption, TypesAssumption
  <2> QED BY <1>1, <2>1 DEF Member, BitCount
<1>4. CASE st' = [st EXCEPT !.members = Append(@, m)]
  <2> HIDE DEF m
  <2>1. /\ st.members \in Seq(MemberType)
        /\ st'.members = Append(st.members, m) /\ st'.is_union
    BY <1>1, <1>4 DEF LayoutInv, LayoutTyped, StructType
  <2>2. \A i \in DOMAIN Append(st.members, m) :
          \/ Append(st.members, m)[i] = m
          \/ /\ i \in DOMAIN st.members
             /\ Append(st.members, m)[i] = st.members[i]
    BY <1>2, <2>1
  <2>3. MembersApart'
    BY <1>3, <2>1, <2>2 DEF LayoutInv, MembersApart, BitCount
  <2>4. LayoutTyped'
    BY <1>1, <1>2, <1>4, AppendTyped DEF LayoutInv, LayoutTyped
  <2> QED BY <1>1, <2>1, <2>3, <2>4
       DEF LayoutInv, OpenUnit, UnionHasNoUnit, BelowFree
<1>5. CASE UNCHANGED st
  BY <1>1, <1>5
  DEF LayoutInv, LayoutTyped, OpenUnit, UnionHasNoUnit, BelowFree,
      MembersApart, BitCount
<1> QED BY <1>4, <1>5 DEF UnionMember, Listed

\* A bit-field takes the bits from the free one on.
LEMMA NextBitsStep ==
  ASSUME LayoutInv, NEW type \in Types, NEW width \in Nat,
         NEW named \in BOOLEAN, NextBits(type, width, named)
  PROVE  LayoutInv'
<1> DEFINE m == Member(type, last_unit_offset, current_bit_offset, width)
<1>1. /\ ~st.is_union /\ width >= 1 /\ current_bit_offset > 0
      /\ current_bit_offset + width <= type.size * ByteBits
      /\ type.size = last_unit_size
      /\ current_bit_offset' = current_bit_offset + width
      /\ UNCHANGED <<current_offset, last_unit_size, last_unit_offset,
                     max_align>>
  BY ByteAssumption, TypesAssumption DEF NextBits, Room
<1>2. /\ current_bit_offset \in Nat /\ last_unit_offset \in Nat
      /\ last_unit_offset * ByteBits \in Nat
  BY ByteAssumption DEF LayoutInv, LayoutTyped
<1>3. /\ FreeBit = last_unit_offset * ByteBits + current_bit_offset
      /\ FreeBit' = last_unit_offset * ByteBits + current_bit_offset + width
  BY <1>1, <1>2 DEF FreeBit
<1>4. FreeBit \in Nat /\ FreeBit' \in Nat /\ FreeBit <= FreeBit'
  BY <1>1, <1>2, <1>3
<1>5. m \in MemberType
  BY <1>2 DEF MemberType, Member
<1>6. /\ FirstBit(m) = FreeBit /\ EndBit(m) = FreeBit'
      /\ m.bit_offset + BitCount(m) <= m.type.size * ByteBits
  BY <1>1, <1>2, <1>3 DEF Member, FirstBit, EndBit, BitCount
<1>7. OpenUnit' /\ current_bit_offset' \in Nat
  BY <1>1, <1>2 DEF LayoutInv, OpenUnit
<1>8. CASE st' = [st EXCEPT !.members = Append(@, m)]
  <2> HIDE DEF m
  <2>1. BelowFree' /\ MembersApart'
    BY <1>1, <1>4, <1>5, <1>6, <1>8, AppendApart
  <2>2. LayoutTyped' /\ UnionHasNoUnit'
    <3>1. st' \in StructType /\ ~st'.is_union
      BY <1>1, <1>5, <1>8, AppendTyped DEF LayoutInv, LayoutTyped, StructType
    <3> QED BY <1>1, <1>7, <3>1 DEF LayoutInv, LayoutTyped, UnionHasNoUnit
  <2> QED BY <1>7, <2>1, <2>2 DEF LayoutInv
<1>9. CASE UNCHANGED st
  <2>1. BelowFree' /\ MembersApart'
    BY <1>4, <1>9, SameListApart
  <2>2. LayoutTyped' /\ UnionHasNoUnit'
    BY <1>1, <1>7, <1>9 DEF LayoutInv, LayoutTyped, UnionHasNoUnit
  <2> QED BY <1>7, <2>1, <2>2 DEF LayoutInv
<1> QED BY <1>8, <1>9 DEF NextBits, Listed

\* A member that starts behind the open unit, at an offset rounded up.
LEMMA BehindStep ==
  ASSUME LayoutInv, NEW type \in Types, NEW width \in Nat, ~st.is_union,
         width <= type.size * ByteBits,
         NEW offset, offset = RoundUp(Behind, type.align),
         \/ st' = [st EXCEPT !.members =
                     Append(@, Member(type, offset, 0, width))]
         \/ UNCHANGED st,
         current_offset' = offset + type.size,
         current_bit_offset' = width,
         last_unit_offset' \in Nat, last_unit_size' \in Nat,
         max_align' = Widened(type.align),
         width > 0 => last_unit_offset' = offset /\ last_unit_size' = type.size
  PROVE  LayoutInv'
<1> DEFINE m == Member(type, offset, 0, width)
<1>1. /\ Behind \in Nat /\ FreeBit \in Nat /\ FreeBit <= Behind * ByteBits
      /\ type.size \in Nat /\ type.align \in Nat \ {0}
  BY FreeBelowBehind, TypesAssumption
<1>2. offset \in Nat /\ Behind <= offset
  BY <1>1, RoundUpGrows
<1>3. /\ Behind * ByteBits <= offset * ByteBits
      /\ (offset + type.size) * ByteBits
           = offset * ByteBits + type.size * ByteBits
  BY <1>1, <1>2, BitsMonotone, BitsAdd
<1>4. /\ offset * ByteBits \in Nat /\ type.size * ByteBits \in Nat
      /\ Behind * ByteBits \in Nat
  BY <1>1, <1>2, ByteAssumption
<1>5. FreeBit' = offset * ByteBits
                   + (IF width = 0 THEN type.size * ByteBits ELSE width)
  BY <1>2, <1>3, <1>4 DEF FreeBit
<1>6. FreeBit' \in Nat /\ FreeBit <= FreeBit'
  BY <1>1, <1>3, <1>4, <1>5
<1>7. m \in MemberType
  BY <1>2 DEF MemberType, Member
<1>8. /\ FreeBit <= FirstBit(m) /\ EndBit(m) = FreeBit'
      /\ m.bit_offset + BitCount(m) <= m.type.size * ByteBits
  BY <1>1, <1>3, <1>4, <1>5 DEF Member, FirstBit, EndBit, BitCount
<1>9. OpenUnit' /\ current_offset' \in Nat
  BY <1>1, <1>2 DEF OpenUnit
<1>10. CASE st' = [st EXCEPT !.members = Append(@, m)]
  <2> HIDE DEF m
  <2>1. BelowFree' /\ MembersApart'
    BY <1>1, <1>6, <1>7, <1>8, <1>10, AppendApart
  <2>2. LayoutTyped' /\ UnionHasNoUnit'
    <3>1. st' \in StructType /\ ~st'.is_union
      BY <1>7, <1>10, AppendTyped DEF LayoutInv, LayoutTyped, StructType
    <3> QED BY <1>9, <3>1, WidenedTyped
         DEF LayoutInv, LayoutTyped, UnionHasNoUnit
  <2> QED BY <1>9, <2>1, <2>2 DEF LayoutInv
<1>11. CASE UNCHANGED st
  <2>1. BelowFree' /\ MembersApart'
    BY <1>1, <1>6, <1>11, SameListApart
  <2>2. LayoutTyped' /\ UnionHasNoUnit'
    BY <1>9, <1>11, WidenedTyped DEF LayoutInv, LayoutTyped, UnionHasNoUnit
  <2> QED BY <1>9, <2>1, <2>2 DEF LayoutInv
<1> QED BY <1>10, <1>11

LEMMA NewUnitStep ==
  ASSUME LayoutInv, NEW type \in Types, NEW width \in Nat,
         NEW named \in BOOLEAN, NewUnit(type, width, named)
  PROVE  LayoutInv'
<1>1. Behind \in Nat /\ type.size \in Nat /\ type.align \in Nat \ {0}
  BY FreeBelowBehind, TypesAssumption
<1>2. RoundUp(Behind, type.align) \in Nat
  BY <1>1, RoundUpGrows
<1>3. width <= type.size * ByteBits /\ ~st.is_union
  BY <1>1, ByteAssumption DEF NewUnit
<1> QED BY <1>1, <1>2, <1>3, BehindStep DEF NewUnit, Listed

LEMMA PlainStep ==
  ASSUME LayoutInv, NEW type \in Types, PlainMember(type)
  PROVE  LayoutInv'
<1>1. PICK width \in Nat : width = 0
  OBVIOUS
<1>2. width <= type.size * ByteBits
  BY <1>1, ByteAssumption, TypesAssumption
<1>3. last_unit_size' \in Nat /\ last_unit_offset' \in Nat
  BY DEF PlainMember, LayoutInv, LayoutTyped
<1>4. /\ ~st.is_union
      /\ st' = [st EXCEPT !.members = Append(@,
                  Member(type, RoundUp(Behind, type.align), 0, width))]
      /\ current_offset' = RoundUp(Behind, type.align) + type.size
      /\ current_bit_offset' = width /\ max_align' = Widened(type.align)
      /\ ~(width > 0)
  BY <1>1 DEF PlainMember, Listed
<1> QED BY <1>2, <1>3, <1>4, BehindStep

\* The members end before the next free bit, whatever the body.
LEMMA LayoutInvariant == LayoutSpec => []LayoutInv
<1>1. LayoutInit => LayoutInv
  <2> SUFFICES ASSUME LayoutInit PROVE LayoutInv
    OBVIOUS
  <2>1. st.members = << >> /\ current_bit_offset = 0
    BY DEF LayoutInit
  <2>2. LayoutTyped
    <3>1. st \in StructType
      <4>1. << >> \in Seq(MemberType)
        OBVIOUS
      <4>2. PICK u \in BOOLEAN :
              st = [is_union |-> u, members |-> << >>, size |-> 0, align |-> 1,
                    is_complete |-> FALSE]
        BY DEF LayoutInit
      <4> QED BY <4>1, <4>2 DEF StructType
    <3> QED BY <3>1 DEF LayoutInit, LayoutTyped
  <2> QED BY <2>1, <2>2
       DEF LayoutInv, OpenUnit, UnionHasNoUnit, BelowFree, MembersApart
<1>2. LayoutInv /\ [LayoutNext]_layoutVars => LayoutInv'
  <2> SUFFICES ASSUME LayoutInv, [LayoutNext]_layoutVars PROVE LayoutInv'
    OBVIOUS
  <2>1. CASE ZeroWidth
    BY <2>1, ZeroWidthStep
  <2>2. CASE EndBody
    <3>1. /\ st'.members = st.members /\ st'.is_union = st.is_union
          /\ FreeBit' = FreeBit
      BY <2>2 DEF EndBody, LayoutInv, LayoutTyped, FreeBit
    <3>2. Behind \in Nat /\ FreeBit \in Nat
      BY FreeBelowBehind
    <3>3. BelowFree' /\ MembersApart'
      BY <3>1, <3>2, SameListApart
    <3>4. Padded(Behind, max_align) \in Int /\ max_align \in Int
      BY <3>2, RoundUpGrows DEF Padded, LayoutInv, LayoutTyped
    <3>5. st' \in StructType
      BY <2>2, <3>4 DEF EndBody, LayoutInv, LayoutTyped, StructType
    <3> QED BY <2>2, <3>1, <3>3, <3>5
         DEF EndBody, LayoutInv, LayoutTyped, OpenUnit, UnionHasNoUnit
  <2>3. ASSUME NEW type \in Types, NEW width \in Nat, NEW named \in BOOLEAN,
               \/ PlainMember(type) \/ UnionMember(type, width, named)
               \/ NextBits(type, width, named) \/ NewUnit(type, width, named)
        PROVE  LayoutInv'
    BY <2>3, PlainStep, UnionStep, NextBitsStep, NewUnitStep
  <2>4. CASE UNCHANGED layoutVars
    BY <2>4 DEF layoutVars, LayoutInv, LayoutTyped, OpenUnit, UnionHasNoUnit,
                BelowFree, FreeBit, MembersApart, FirstBit, BitCount, EndBit
  <2> QED BY <2>1, <2>2, <2>3, <2>4, WidthsAssumption DEF LayoutNext, BitTypes
<1> QED BY <1>1, <1>2, PTL DEF LayoutSpec

\* Whatever members a struct has, of whatever types, widths and number: no
\* two of them share a bit, and no bit-field leaves its unit
\* (parse_struct_union_body).
THEOREM LayoutKeepsMembersApart == LayoutSpec => []MembersApart
<1>1. LayoutInv => MembersApart
  BY DEF LayoutInv
<1> QED BY <1>1, LayoutInvariant, PTL
-----------------------------------------------------------------------------
(***************************************************************************)
(* Where the members are placed.  PlacedInv follows the alignments: the    *)
(* open unit is aligned to its size, which is the alignment of every type  *)
(* that may join it, and max_align is the alignment of a member's type and *)
(* not below any other's.                                                  *)
(***************************************************************************)
MaxIsAlign == max_align = 1 \/ \E t \in Types : max_align = t.align

UnitAligned ==
  current_bit_offset > 0 =>
    /\ last_unit_size \in Nat \ {0} /\ last_unit_size <= max_align
    /\ last_unit_offset % last_unit_size = 0

MemberPlaced(m, offset, align) ==
  /\ m.offset + m.type.size <= offset
  /\ m.offset % m.type.align = 0
  /\ m.type.align <= align

SizePadded ==
  st.is_complete => /\ st.align = max_align
                    /\ st.size >= current_offset /\ st.size % st.align = 0

PlacedInv ==
  /\ MaxIsAlign /\ UnitAligned /\ SizePadded
  /\ \A i \in DOMAIN st.members :
       MemberPlaced(st.members[i], current_offset, max_align)

\* What is left when the remainder is taken off is a multiple.
LEMMA LessRemainder ==
  ASSUME NEW y \in Nat, NEW a \in Nat \ {0}
  PROVE  (y - (y % a)) % a = 0
<1> DEFINE q == y \div a
           r == y % a
<1>1. q \in Int /\ r \in Int /\ a * q \in Int
  OBVIOUS
<1>2. y = a * q + r
  OBVIOUS
<1> HIDE DEF q, r
<1>3. y - r = a * q /\ (a * q) % a = 0
  BY <1>1, <1>2
<1> QED BY <1>3 DEF r

LEMMA RoundUpAligned ==
  ASSUME NEW x \in Nat, NEW a \in Nat \ {0}
  PROVE  RoundUp(x, a) % a = 0
<1>1. x + a - 1 \in Nat
  OBVIOUS
<1> QED BY <1>1, LessRemainder DEF RoundUp

\* The offset behind the members is the current one, unit or no unit.
LEMMA BehindIsOffset ==
  ASSUME LayoutInv
  PROVE  Behind = current_offset /\ current_offset \in Nat
BY DEF LayoutInv, LayoutTyped, OpenUnit, Behind

\* A member joins those that are placed already.
LEMMA AppendPlaced ==
  ASSUME LayoutInv, PlacedInv, ~st.is_complete,
         current_offset' \in Nat, max_align' \in Nat,
         current_offset <= current_offset', max_align <= max_align',
         \/ UNCHANGED st
         \/ \E m \in MemberType :
              /\ st' = [st EXCEPT !.members = Append(@, m)]
              /\ MemberPlaced(m, current_offset', max_align')
  PROVE  /\ SizePadded'
         /\ \A i \in DOMAIN st'.members :
                 MemberPlaced(st'.members[i], current_offset', max_align')
<1>1. st.members \in Seq(MemberType) /\ max_align \in Nat /\ current_offset \in Nat
  BY DEF LayoutInv, LayoutTyped, StructType
<1>2. ASSUME NEW k \in MemberType, MemberPlaced(k, current_offset, max_align)
      PROVE  MemberPlaced(k, current_offset', max_align')
  <2>1. k.offset \in Nat /\ k.type.size \in Nat /\ k.type.align \in Nat
    BY TypesAssumption DEF MemberType
  <2> QED BY <1>1, <1>2, <2>1 DEF MemberPlaced
<1>3. \A i \in DOMAIN st.members :
        /\ st.members[i] \in MemberType
        /\ MemberPlaced(st.members[i], current_offset', max_align')
  BY <1>1, <1>2 DEF PlacedInv
<1>4. CASE UNCHANGED st
  BY <1>3, <1>4 DEF SizePadded
<1>5. ASSUME NEW m \in MemberType, st' = [st EXCEPT !.members = Append(@, m)],
             MemberPlaced(m, current_offset', max_align')
      PROVE  /\ SizePadded'
             /\ \A i \in DOMAIN st'.members :
                     MemberPlaced(st'.members[i], current_offset', max_align')
  <2>1. /\ st'.members = Append(st.members, m) /\ ~st'.is_complete
    BY <1>5 DEF LayoutInv, LayoutTyped, StructType
  <2>2. \A i \in DOMAIN Append(st.members, m) :
          \/ Append(st.members, m)[i] = m
          \/ /\ i \in DOMAIN st.members
             /\ Append(st.members, m)[i] = st.members[i]
    BY <1>1, <1>5
  <2>3. \A i \in DOMAIN st'.members :
          st'.members[i] = m \/ \E k \in DOMAIN st.members : st'.members[i] = st.members[k]
    BY <2>1, <2>2
  <2>4. \A i \in DOMAIN st'.members :
             MemberPlaced(st'.members[i], current_offset', max_align')
    BY <1>3, <1>5, <2>3 DEF MemberPlaced
  <2> QED BY <2>1, <2>4 DEF SizePadded
<1> QED BY <1>4, <1>5

\* The greatest alignment is a type's, and covers the type that came last.
LEMMA WidenedCovers ==
  ASSUME LayoutInv, PlacedInv, NEW type \in Types,
         max_align' = Widened(type.align)
  PROVE  /\ MaxIsAlign' /\ max_align' \in Nat
         /\ max_align <= max_align' /\ type.align <= max_align'
<1>1. max_align \in Nat /\ type.align \in Nat
  BY TypesAssumption DEF LayoutInv, LayoutTyped
<1> QED BY <1>1 DEF PlacedInv, MaxIsAlign, Widened

\* A plain member, or the first of a unit: its offset is rounded up.
LEMMA BehindPlaced ==
  ASSUME LayoutInv, PlacedInv, ~st.is_complete,
         NEW type \in Types, NEW width \in Nat, NEW offset,
         offset = RoundUp(Behind, type.align),
         \/ st' = [st EXCEPT !.members =
                     Append(@, Member(type, offset, 0, width))]
         \/ UNCHANGED st,
         current_offset' = offset + type.size,
         current_bit_offset' = width,
         max_align' = Widened(type.align),
         width > 0 => /\ last_unit_offset' = offset
                      /\ last_unit_size' = type.size /\ type \in BitTypes
  PROVE  PlacedInv'
<1> DEFINE m == Member(type, offset, 0, width)
<1>1. /\ type.size \in Nat \ {0} /\ type.align \in Nat \ {0}
      /\ Behind = current_offset /\ current_offset \in Nat
  BY BehindIsOffset, TypesAssumption
<1>2. offset \in Nat /\ offset >= current_offset /\ offset % type.align = 0
  BY <1>1, RoundUpGrows, RoundUpAligned
<1>3. /\ MaxIsAlign' /\ max_align' \in Nat
      /\ max_align <= max_align' /\ type.align <= max_align'
  BY WidenedCovers
<1>4. m \in MemberType /\ MemberPlaced(m, current_offset', max_align')
  BY <1>1, <1>2, <1>3 DEF MemberType, Member, MemberPlaced
<1>5. current_offset' \in Nat /\ current_offset <= current_offset'
  BY <1>1, <1>2
<1>6. UnitAligned'
  BY <1>1, <1>2, <1>3 DEF UnitAligned, BitTypes
<1>7. \/ UNCHANGED st
      \/ \E k \in MemberType :
           /\ st' = [st EXCEPT !.members = Append(@, k)]
           /\ MemberPlaced(k, current_offset', max_align')
  BY <1>4
<1> HIDE DEF m
<1>8. /\ SizePadded'
      /\ \A i \in DOMAIN st'.members :
              MemberPlaced(st'.members[i], current_offset', max_align')
  BY <1>3, <1>5, <1>7, AppendPlaced
<1> QED BY <1>3, <1>6, <1>8 DEF PlacedInv, MemberPlaced

\* A bit-field that joins the open unit is of a type of the unit's size.
LEMMA NextBitsPlaced ==
  ASSUME LayoutInv, PlacedInv, NEW type \in BitTypes, NEW width \in Nat,
         NEW named \in BOOLEAN, NextBits(type, width, named)
  PROVE  PlacedInv'
<1> DEFINE m == Member(type, last_unit_offset, current_bit_offset, width)
<1>1. /\ current_bit_offset > 0 /\ type.size = last_unit_size
      /\ type.align = type.size /\ ~st.is_complete
      /\ UNCHANGED <<current_offset, last_unit_size, last_unit_offset, max_align>>
      /\ type \in Types
  BY DEF NextBits, Room, More, BitTypes
<1>2. /\ current_offset = last_unit_offset + last_unit_size
      /\ last_unit_size \in Nat \ {0} /\ last_unit_size <= max_align
      /\ last_unit_offset % last_unit_size = 0
      /\ last_unit_offset \in Nat /\ current_offset \in Nat /\ max_align \in Nat
      /\ current_bit_offset \in Nat
  BY <1>1 DEF LayoutInv, LayoutTyped, OpenUnit, PlacedInv, UnitAligned
<1>3. m \in MemberType /\ MemberPlaced(m, current_offset', max_align')
  BY <1>1, <1>2 DEF MemberType, Member, MemberPlaced
<1>4. \/ UNCHANGED st
      \/ \E k \in MemberType :
           /\ st' = [st EXCEPT !.members = Append(@, k)]
           /\ MemberPlaced(k, current_offset', max_align')
  BY <1>3 DEF NextBits, Listed
<1> HIDE DEF m
<1>5. /\ SizePadded'
      /\ \A i \in DOMAIN st'.members :
              MemberPlaced(st'.members[i], current_offset', max_align')
  BY <1>1, <1>2, <1>4, AppendPlaced
<1>6. MaxIsAlign' /\ UnitAligned'
  BY <1>1, <1>2 DEF PlacedInv, MaxIsAlign, UnitAligned
<1> QED BY <1>5, <1>6 DEF PlacedInv, MemberPlaced

\* All the members of a union start at its first byte.
LEMMA UnionPlaced ==
  ASSUME LayoutInv, PlacedInv, NEW type \in Types, NEW width \in Nat,
         NEW named \in BOOLEAN, UnionMember(type, width, named)
  PROVE  PlacedInv'
<1> DEFINE m == Member(type, 0, 0, width)
<1>1. /\ type.size \in Nat \ {0} /\ type.align \in Nat \ {0}
      /\ current_offset \in Nat /\ ~st.is_complete /\ st.is_union
      /\ current_offset' = IF type.size > current_offset THEN type.size
                           ELSE current_offset
      /\ current_bit_offset' = current_bit_offset
      /\ current_bit_offset = 0
  BY TypesAssumption DEF UnionMember, More, LayoutInv, LayoutTyped, UnionHasNoUnit
<1>2. /\ current_offset' \in Nat /\ current_offset <= current_offset'
      /\ type.size <= current_offset'
  BY <1>1
<1>3. /\ MaxIsAlign' /\ max_align' \in Nat
      /\ max_align <= max_align' /\ type.align <= max_align'
  BY WidenedCovers DEF UnionMember
<1>4. m \in MemberType /\ MemberPlaced(m, current_offset', max_align')
  <2>1. 0 % type.align = 0
    BY <1>1
  <2> QED BY <1>1, <1>2, <1>3, <2>1 DEF MemberType, Member, MemberPlaced
<1>5. \/ UNCHANGED st
      \/ \E k \in MemberType :
           /\ st' = [st EXCEPT !.members = Append(@, k)]
           /\ MemberPlaced(k, current_offset', max_align')
  BY <1>4 DEF UnionMember, Listed
<1> HIDE DEF m
<1>6. /\ SizePadded'
      /\ \A i \in DOMAIN st'.members :
              MemberPlaced(st'.members[i], current_offset', max_align')
  BY <1>1, <1>2, <1>3, <1>5, AppendPlaced
<1> QED BY <1>1, <1>3, <1>6 DEF PlacedInv, UnitAligned, MemberPlaced

\* The closing brace pads the size, and the body is complete.
LEMMA EndPlaced ==
  ASSUME LayoutInv, PlacedInv, EndBody
  PROVE  PlacedInv'
<1>1. /\ Behind = current_offset /\ current_offset \in Nat
      /\ max_align \in Nat \ {0}
  BY BehindIsOffset DEF LayoutInv, LayoutTyped
<1>2. /\ Padded(Behind, max_align) >= current_offset
      /\ Padded(Behind, max_align) % max_align = 0
  BY <1>1, RoundUpGrows, RoundUpAligned DEF Padded
<1>3. /\ st'.members = st.members
      /\ st'.align = max_align /\ st'.size = Padded(Behind, max_align)
      /\ UNCHANGED <<current_offset, current_bit_offset, last_unit_size,
                     last_unit_offset, max_align>>
  BY DEF EndBody, LayoutInv, LayoutTyped, StructType
<1> QED BY <1>2, <1>3
     DEF PlacedInv, MaxIsAlign, UnitAligned, MemberPlaced, SizePadded

\* A complete struct or union, of whatever members, has each of them at an
\* offset its type allows and inside its size, whole units included, and its
\* size is a multiple of its alignment (parse_struct_union_body).
THEOREM LayoutPlacesMembers == LayoutSpec => []Placed
<1>1. LayoutInit => PlacedInv
  <2> SUFFICES ASSUME LayoutInit PROVE PlacedInv
    OBVIOUS
  <2>1. st.members = << >> /\ ~st.is_complete /\ current_bit_offset = 0 /\ max_align = 1
    BY DEF LayoutInit
  <2> QED BY <2>1 DEF PlacedInv, MaxIsAlign, UnitAligned, SizePadded
<1>2. LayoutInv /\ PlacedInv /\ [LayoutNext]_layoutVars => PlacedInv'
  <2> SUFFICES ASSUME LayoutInv, PlacedInv, [LayoutNext]_layoutVars
               PROVE  PlacedInv'
    OBVIOUS
  <2>1. CASE ZeroWidth
    <3>1. /\ current_offset' = Behind /\ current_bit_offset' = 0
          /\ UNCHANGED <<st, max_align>>
      BY <2>1 DEF ZeroWidth
    <3>2. Behind = current_offset
      BY BehindIsOffset
    <3> QED BY <3>1, <3>2
         DEF PlacedInv, MaxIsAlign, UnitAligned, MemberPlaced, SizePadded
  <2>2. CASE EndBody
    BY <2>2, EndPlaced
  <2>3. ASSUME NEW type \in Types, PlainMember(type)
        PROVE  PlacedInv'
    <3>1. PICK width \in Nat : width = 0
      OBVIOUS
    <3>2. /\ ~st.is_complete /\ ~(width > 0)
          /\ st' = [st EXCEPT !.members = Append(@,
                      Member(type, RoundUp(Behind, type.align), 0, width))]
          /\ current_offset' = RoundUp(Behind, type.align) + type.size
          /\ current_bit_offset' = width /\ max_align' = Widened(type.align)
      BY <2>3, <3>1 DEF PlainMember, More, Listed
    <3> QED BY <3>2, BehindPlaced
  <2>4. ASSUME NEW type \in Types, NEW width \in Nat, NEW named \in BOOLEAN,
               UnionMember(type, width, named)
        PROVE  PlacedInv'
    BY <2>4, UnionPlaced
  <2>5. ASSUME NEW type \in BitTypes, NEW width \in Nat, NEW named \in BOOLEAN,
               NextBits(type, width, named)
        PROVE  PlacedInv'
    BY <2>5, NextBitsPlaced
  <2>6. ASSUME NEW type \in BitTypes, NEW width \in Nat, NEW named \in BOOLEAN,
               NewUnit(type, width, named)
        PROVE  PlacedInv'
    <3>1. type \in Types
      BY DEF BitTypes
    <3> QED BY <2>6, <3>1, BehindPlaced DEF NewUnit, More, Listed
  <2>7. CASE UNCHANGED layoutVars
    BY <2>7 DEF layoutVars, PlacedInv, MaxIsAlign, UnitAligned, MemberPlaced,
                SizePadded
  <2> QED BY <2>1, <2>2, <2>3, <2>4, <2>5, <2>6, <2>7, WidthsAssumption
       DEF LayoutNext, BitTypes
<1>3. LayoutInv /\ PlacedInv => Placed
  <2> SUFFICES ASSUME LayoutInv, PlacedInv, st.is_complete,
                      NEW i \in DOMAIN st.members
               PROVE  LET m == st.members[i] IN
                      /\ m.offset + m.type.size <= st.size
                      /\ m.offset % m.type.align = 0
                      /\ st.align % m.type.align = 0
    BY DEF Placed, PlacedInv, SizePadded
  <2> DEFINE m == st.members[i]
  <2>1. /\ st.members \in Seq(MemberType)
        /\ current_offset \in Nat /\ st.size \in Int
    BY DEF LayoutInv, LayoutTyped, StructType
  <2>2. /\ m \in MemberType /\ m.type \in Types
        /\ m.offset \in Nat /\ m.type.size \in Nat /\ m.type.align \in Nat \ {0}
    <3>1. m \in MemberType
      BY <2>1
    <3> HIDE DEF m
    <3> QED BY <3>1, TypesAssumption DEF MemberType
  <2>3. /\ m.offset + m.type.size <= current_offset
        /\ m.offset % m.type.align = 0 /\ m.type.align <= max_align
        /\ st.align = max_align /\ st.size >= current_offset
    BY DEF PlacedInv, MemberPlaced, SizePadded
  <2> HIDE DEF m
  <2>4. max_align % m.type.align = 0
    <3>1. CASE max_align = 1
      <4>1. m.type.align = 1
        BY <2>2, <2>3, <3>1
      <4> QED BY <3>1, <4>1
    <3>2. CASE \E t \in Types : max_align = t.align
      BY <2>2, <2>3, <3>2, AlignAssumption
    <3> QED BY <3>1, <3>2 DEF PlacedInv, MaxIsAlign
  <2>5. m.offset + m.type.size <= st.size
    BY <2>1, <2>2, <2>3
  <2> QED BY <2>3, <2>4, <2>5 DEF m
<1> QED BY <1>1, <1>2, <1>3, LayoutInvariant, PTL DEF LayoutSpec
=============================================================================
