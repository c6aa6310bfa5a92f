---------------------------- MODULE Aggregates ------------------------------
(***************************************************************************)
(* An object of a struct or union type in the generated program: its       *)
(* static image (gen_global_init), its local initializer                   *)
(* (gen_local_initializer), and assignments, ++ and -- of its members, of  *)
(* which bit-fields rewrite a part of their unit (gen_bitfield_load and    *)
(* gen_bitfield_store of the three generators).  The type is the one       *)
(* StructLayout has built.                                                 *)
(*                                                                         *)
(* A register is the set of its bits that are one, and so is the object.   *)
(* The three generators issue the same sequence of operations on registers *)
(* of their own size; a target is that size and the size of an immediate   *)
(* operand, in bytes.                                                      *)
(***************************************************************************)
EXTENDS StructLayout, FiniteSetsExt

CONSTANTS
  Targets,     \* records with register and immediate
  Patterns,    \* the values of initializers and assignments
  MaxStores    \* a bound on the operations on an object

VARIABLES
  target,
  memory,      \* the bits of the object; before its definition, none
  length,      \* the bytes the definition took; 0 before it
  stores,
  known,       \* the members that have a value C90 defines
  expected,    \* that value
  result,      \* what the last operation on a bit-field left in the register
  answer       \* what C90 says that it is

object == <<memory, length, stores, known, expected, result, answer>>
vars == <<layoutVars, target, object>>

RegBits  == target.register * ByteBits
Register == 0..RegBits - 1

Low(n)    == {b \in Register : b < n}
Shl(r, k) == {b + k : b \in r} \cap Register
Shr(r, k) == {b - k : b \in r} \cap Register
Sar(r, k) == Shr(r, k) \cup IF RegBits - 1 \in r THEN Register \ Low(RegBits - k)
                            ELSE {}

\* The n low bits of r, with zeros or copies of the sign above.
Extended(r, n, is_unsigned) ==
  (r \cap Low(n)) \cup IF is_unsigned \/ n - 1 \notin r THEN {}
                       ELSE Register \ Low(n)

UnitBits(type) == Low(type.size * ByteBits)
At(type, offset) == {offset * ByteBits + b : b \in UnitBits(type)}

Load(mem, type, offset) ==
  Extended({b - offset * ByteBits : b \in mem \cap At(type, offset)},
           type.size * ByteBits, type.is_unsigned)

\* Mutant: the whole register is stored.
StoreWide(mem, type, offset, r) ==
  (mem \ At(type, offset)) \cup {offset * ByteBits + b : b \in r}

Store(mem, type, offset, r) ==
  (mem \ At(type, offset)) \cup
  {offset * ByteBits + b : b \in r \cap UnitBits(type)}

-----------------------------------------------------------------------------
(***************************************************************************)
(* Bit-fields.                                                             *)
(***************************************************************************)

\* (1UL << width) - 1, computed by the compiler: a shift by the width of the
\* register is undefined, and leaves 1 on the hosts it is built for.
Mask(width) == IF width < RegBits THEN Low(width) ELSE {}

\* andq takes an immediate operand only if its sign extends it.
Encodable(mask) ==
  LET sign == target.immediate * ByteBits - 1 IN
  \A b \in Register : b >= sign => (b \in mask <=> sign \in mask)

Assembles(m) == m.bit_width > 0 => Encodable(Mask(m.bit_width))

SignedField(m, r) ==
  LET sh == RegBits - (m.bit_offset + m.bit_width) IN
  Sar(Shl(r, sh), RegBits - m.bit_width)

FieldLoad(m, r) ==
  IF m.type.is_unsigned
  THEN Shr(r, m.bit_offset) \cap
       (IF m.bit_width < RegBits THEN Mask(m.bit_width) ELSE Register)
  ELSE SignedField(m, r)

NewBits(m, r) == Shl(r \cap Mask(m.bit_width), m.bit_offset)

\* Mutant: the bits of the old value stay.
NothingCleared(mem, m, r) ==
  Store(mem, m.type, m.offset,
        Load(mem, [m.type EXCEPT !.is_unsigned = TRUE], m.offset) \cup NewBits(m, r))

FieldStored(mem, m, r) ==
  LET old   == Load(mem, [m.type EXCEPT !.is_unsigned = TRUE], m.offset)
      clear == UnitBits(m.type) \ Shl(Mask(m.bit_width), m.bit_offset)
  IN Store(mem, m.type, m.offset, (old \cap clear) \cup NewBits(m, r))

\* Mutant: the value of the assignment is not extended again.
ResultUnextended(m, r) == Shr(NewBits(m, r), m.bit_offset)

FieldResult(m, r) ==
  IF m.type.is_unsigned THEN Shr(NewBits(m, r), m.bit_offset)
  ELSE SignedField(m, NewBits(m, r))

IsField(m) == m.bit_width > 0

Read(mem, m) ==
  LET r == Load(mem, m.type, m.offset) IN IF IsField(m) THEN FieldLoad(m, r) ELSE r

Write(mem, m, r) ==
  IF IsField(m) THEN FieldStored(mem, m, r) ELSE Store(mem, m.type, m.offset, r)

-----------------------------------------------------------------------------
(***************************************************************************)
(* Definitions.  The initializers are the first n of inits, a function     *)
(* from the members to registers.                                          *)
(***************************************************************************)
members == st.members

\* Mutant: the image of a struct ends with its last initializer.
NoTail(cur) == cur

Filled(cur) == IF cur < st.size THEN st.size ELSE cur

\* The directives from member i on; cur bytes have been emitted.  Bit-fields
\* of one unit are packed into one directive.
RECURSIVE Emit(_, _, _, _, _)
Emit(i, n, inits, mem, cur) ==
  IF i > n THEN [bits |-> mem, length |-> Filled(cur)]
  ELSE
    LET m    == members[i]
        at   == IF m.offset > cur THEN m.offset ELSE cur
        unit == {k \in i..n : \A j \in i..k : /\ IsField(members[j])
                                              /\ members[j].offset = m.offset}
        Cut(k) == IF members[k].bit_width < RegBits
                  THEN inits[k] \cap Low(members[k].bit_width) ELSE inits[k]
        packed == UNION {Shl(Cut(k), members[k].bit_offset) : k \in unit}
    IN IF IsField(m)
       THEN Emit(i + Cardinality(unit), n, inits,
                 Store(mem, m.type, at, packed), at + m.type.size)
       ELSE Emit(i + 1, n, inits,
                 Store(mem, m.type, at, inits[i]), at + m.type.size)

RECURSIVE LocalStores(_, _, _, _)
LocalStores(i, n, inits, mem) ==
  IF i > n THEN mem
  ELSE LocalStores(i + 1, n, inits, Write(mem, members[i], inits[i]))

\* What a member holds after r was assigned to it.
Held(m, r) == Extended(r, BitCount(m), m.type.is_unsigned)

\* A full register is out of the reach of Mask.
Full(m) == m.bit_width = RegBits

Initialized(n, inits) ==
  /\ st.is_complete /\ length = 0 /\ members # << >>
  /\ n \in 0..Len(members) /\ st.is_union => n = 0
  /\ expected' = [i \in DOMAIN members |-> Held(members[i], inits[i])]
  /\ UNCHANGED <<layoutVars, target, stores, result, answer>>

\* A static object; without initializers it goes to .bss.
DefineStatic(n, inits) ==
  LET image == IF n = 0 THEN [bits |-> {}, length |-> st.size]
               ELSE Emit(1, n, inits, {}, 0)
  IN /\ Initialized(n, [i \in DOMAIN members |-> IF i <= n THEN inits[i] ELSE {}])
     /\ memory' = image.bits /\ length' = image.length
     /\ known' = DOMAIN members

\* A local object, on whatever the stack held.
DefineLocal(n, inits, garbage) ==
  /\ Initialized(n, inits)
  /\ \A i \in 1..n : Assembles(members[i])
  /\ memory' = LocalStores(1, n, inits, garbage)
  /\ length' = st.size
  /\ known' = {i \in 1..n : ~Full(members[i])}

-----------------------------------------------------------------------------
(***************************************************************************)
(* Operations.                                                             *)
(***************************************************************************)
\* A value is stored in member i, and the expression has the value res.
Stored(i, r, value, res, ans) ==
  /\ length > 0 /\ stores < MaxStores /\ stores' = stores + 1
  /\ Assembles(members[i])
  /\ memory' = Write(memory, members[i], r)
  /\ expected' = [expected EXCEPT ![i] = value]
  /\ known' = IF Full(members[i]) THEN known \ {i}
              ELSE IF st.is_union THEN {i} ELSE known \cup {i}
  /\ IF IsField(members[i]) /\ ~Full(members[i])
     THEN result' = res /\ answer' = ans
     ELSE result' = {} /\ answer' = {}
  /\ UNCHANGED <<layoutVars, target, length>>

Assign(i, r) ==
  Stored(i, r, Held(members[i], r), FieldResult(members[i], r),
         Held(members[i], r))

Successor(r) ==
  IF r = Register THEN {}
  ELSE LET k == Min(Register \ r) IN {b \in r : b > k} \cup {k}

Predecessor(r) == Register \ Successor(Register \ r)

\* ++ and --, before or behind the member.
Step(i, inc, post) ==
  LET m    == members[i]
      Stepped(r) == IF inc THEN Successor(r) ELSE Predecessor(r)
      old  == Read(memory, m)
      new  == Stepped(old)
      held == Held(m, Stepped(expected[i]))
  IN /\ i \in known
     /\ Stored(i, new, held, IF post THEN old ELSE FieldResult(m, new),
               IF post THEN expected[i] ELSE held)

-----------------------------------------------------------------------------
Init ==
  /\ LayoutInit /\ target \in Targets
  /\ memory = {} /\ length = 0 /\ stores = 0
  /\ known = {} /\ expected = << >> /\ result = {} /\ answer = {}

\* Neighbours get a value and its complement, so that a bit that strays shows.
Alternate(v) == [i \in DOMAIN members |->
                   IF i % 2 = 1 THEN v \cap Register ELSE Register \ v]

Layout == LayoutNext /\ UNCHANGED <<target, object>>

Define ==
  \E v \in Patterns, n \in 0..Len(members) :
    \/ DefineStatic(n, Alternate(v))
    \/ \E garbage \in {{}, 0..st.size * ByteBits - 1} :
         DefineLocal(n, Alternate(v), garbage)

Operate ==
  \E i \in DOMAIN members :
    \/ \E v \in Patterns :
         Assign(i, v \cap Register) \/ Assign(i, Register \ v)
    \/ \E inc, post \in BOOLEAN : Step(i, inc, post)

Next == Layout \/ Define \/ Operate

Spec == Init /\ [][Next]_vars

-----------------------------------------------------------------------------
(***************************************************************************)
(* Properties.                                                             *)
(***************************************************************************)
TypeOK ==
  /\ memory \subseteq 0..length * ByteBits - 1 /\ length \in Nat
  /\ stores \in 0..MaxStores /\ known \subseteq DOMAIN members
  /\ result \subseteq Register /\ answer \subseteq Register

\* Every member that has a value reads it back, however it was given, and
\* whatever was since stored in the members next to it: initial values packed
\* into units, stores that rewrite a unit, and loads agree on every bit.
ValuesKept ==
  \A i \in known : Read(memory, members[i]) = expected[i]

\* The value of an assignment, ++ or -- of a bit-field is what the field has
\* kept of it (for the postfix operators: what it had).
FieldResults == result = answer

\* The definition of an object takes as many bytes as its type says, no
\* matter where its initializers end: the next object has its own bytes.
ImageSized == length > 0 => length = st.size
=============================================================================
