--------------------------- MODULE RvHeap_proofs ---------------------------
(***************************************************************************)
(* The allocator of the RV32I runtime is sound and keeps the promises of   *)
(* malloc, calloc, realloc and free, for every heap size, word size,       *)
(* alignment, number of pointers and set of requests that LayoutAssumption,*)
(* BreakAssumption, RequestAssumption, RoomAssumption and                  *)
(* AlignableAssumption allow.  The break may cross to the upper half of    *)
(* the addresses, which request_space takes for a failure: the memory it   *)
(* got there is lost, and the blocks after it stand behind a gap.          *)
(*                                                                         *)
(* HeapIsSound:  Spec => []HeapInv, the invariant the runs check.          *)
(* HeapAsInC90:  Spec => ImplementsContract, the refinement of             *)
(*               HeapContract.                                             *)
(*                                                                         *)
(* HeapInv says what the two lists are by walking them, which no step can  *)
(* be taken from.  The inductive invariant, HeldInv, says it of sets: some *)
(* set B of blocks stands in order below the break, without a gap until    *)
(* the break crosses (Tiled), some part S of it is on the free list, along *)
(* which a rank grows (OnFreeList), the flags say which blocks are in S,   *)
(* and B \ S are the blocks of the program's pointers, each large enough.  *)
(*                                                                         *)
(* The module goes up through the code:                                    *)
(*   words, alignment, induction on sets of naturals;                      *)
(*   lists: a walk along next pointers meets every member once;            *)
(*   headers: what each assignment to a heap changes, and what it leaves;  *)
(*   the free list under insert_free_block and remove_free_block;          *)
(*   the physical list under merging, split_block and request_space;       *)
(*   malloc, free, calloc and realloc: which blocks are in use after them, *)
(*   and that the bytes of all others are kept (Keeps);                    *)
(*   the program's calls, Init, Next and the two theorems.                 *)
(*                                                                         *)
(* In the lemmas h is the heap before a step and r, q or g the one after   *)
(* it; a lemma <Name>Gives says what operator <Name> yields, <Name>Sound   *)
(* that it keeps a sound heap sound.                                       *)
(***************************************************************************)
EXTENDS RvHeap, FiniteSetTheorems, WellFoundedInduction, TLAPS

\* A number that fits in a word is not changed by the arithmetic of size_t.
LEMMA WordIs ==
  ASSUME NEW x \in 0..WordMod - 1
  PROVE  Word(x) = x
  BY LayoutAssumption DEF Word

\* A multiple of Align.
Aligned(x) == \E k \in Int : x = k * Align

\* Multiples of Align, in the two ways to say it.
LEMMA AlignedMod ==
  ASSUME NEW x \in Nat
  PROVE  Aligned(x) <=> x % Align = 0
<1>1. ASSUME x % Align = 0 PROVE Aligned(x)
  BY <1>1, LayoutAssumption DEF Aligned
<1>2. ASSUME NEW k \in Int, x = k * Align PROVE x % Align = 0
  BY <1>2, LayoutAssumption
<1> QED BY <1>1, <1>2 DEF Aligned

\* Sums and differences of aligned numbers are aligned.
LEMMA AlignedSum ==
  ASSUME NEW x \in Int, NEW y \in Int, Aligned(x), Aligned(y)
  PROVE  Aligned(x + y) /\ Aligned(x - y)
<1>1. PICK k \in Int : x = k * Align
  BY DEF Aligned
<1>2. PICK j \in Int : y = j * Align
  BY DEF Aligned
<1>3. x + y = (k + j) * Align /\ x - y = (k - j) * Align
  BY <1>1, <1>2, LayoutAssumption
<1> QED BY <1>3 DEF Aligned

\* ALIGN_UP, when the sum does not wrap: the least multiple that is not less.
LEMMA RoundUpIs ==
  ASSUME NEW u \in Nat \ {0}, NEW x \in Nat, x + u - 1 < WordMod
  PROVE  /\ RoundUp(x, u) \in Nat /\ x <= RoundUp(x, u) /\ RoundUp(x, u) < x + u
         /\ \E k \in Nat : RoundUp(x, u) = k * u
<1>1. Word(x + u - 1) = x + u - 1
  <2>1. x + u - 1 \in 0..WordMod - 1
    BY LayoutAssumption
  <2> QED BY <2>1, WordIs
<1>2. PICK q \in Nat : q = (x + u - 1) \div u
  OBVIOUS
<1>3. q * u <= x + u - 1 /\ x + u - 1 < q * u + u
  BY <1>2
<1>4. RoundUp(x, u) = q * u
  BY <1>1, <1>2, Zenon DEF RoundUp
<1> QED BY <1>3, <1>4

-----------------------------------------------------------------------------
\* Induction on the naturals, for a set.
LEMMA Induction ==
  ASSUME NEW S \in SUBSET Nat, 0 \in S, \A n \in S : n + 1 \in S
  PROVE  S = Nat
<1> SUFFICES ASSUME Nat \ S # {} PROVE FALSE
  OBVIOUS
<1> DEFINE R == OpToRel(<, Nat)
<1>1. IsWellFoundedOn(R, Nat)
  BY NatLessThanWellFounded
<1>2. R = {p \in Nat \X Nat : p[1] < p[2]}
  BY DEF OpToRel
<1> HIDE DEF R
<1>3. PICK x \in Nat \ S : \A y \in Nat \ S : <<y, x>> \notin R
  BY <1>1, WFMin
<1>4. x # 0 /\ x - 1 \in Nat /\ x - 1 + 1 = x
  BY <1>3
<1>5. x - 1 \in S
  <2>1. <<x - 1, x>> \in Nat \X Nat /\ x - 1 < x
    BY <1>4
  <2>2. <<x - 1, x>> \in R
    BY <1>2, <2>1
  <2> QED BY <1>3, <1>4, <2>2
<1> QED BY <1>3, <1>4, <1>5

\* A set of naturals has a least member.
LEMMA Least ==
  ASSUME NEW T \in SUBSET Nat, T # {}
  PROVE  \E x \in T : \A y \in T : x <= y
<1> DEFINE R == OpToRel(<, Nat)
<1>1. IsWellFoundedOn(R, Nat)
  BY NatLessThanWellFounded
<1>2. R = {p \in Nat \X Nat : p[1] < p[2]}
  BY DEF OpToRel
<1> HIDE DEF R
<1>3. PICK x \in T : \A y \in T : <<y, x>> \notin R
  BY <1>1, WFMin
<1>4. ASSUME NEW y \in T PROVE x <= y
  <2>1. <<y, x>> \notin R
    BY <1>3
  <2>2. y < x => <<y, x>> \in R
    BY <1>2
  <2> QED BY <2>1, <2>2
<1> QED BY <1>4

\* A doubly linked list of the members of S, none twice: next and prev undo
\* each other, and rank grows along it.
IsList(S, head, next, prev, rank) ==
  /\ NULL \notin S
  /\ head # NULL => head \in S /\ prev[head] = NULL
  /\ \A x \in S : next[x] # NULL => next[x] \in S /\ prev[next[x]] = x
  /\ \A x \in S : prev[x] = NULL => x = head
  /\ \A x \in S : prev[x] # NULL => prev[x] \in S /\ next[prev[x]] = x
  /\ \A x \in S : rank[x] \in Nat
  /\ \A x \in S : prev[x] # NULL => rank[prev[x]] < rank[x]

\* at[k] is place k of the list.
Walks(at, S, head, next, n) ==
  /\ at[0] = head
  /\ \A k \in 1..n : /\ at[k - 1] = NULL => at[k] = NULL
                     /\ at[k - 1] \in S => at[k] = next[at[k - 1]]

\* A walk stays on the list.
LEMMA WalkStays ==
  ASSUME NEW S, NEW head, NEW next, NEW prev, NEW rank,
         IsList(S, head, next, prev, rank),
         NEW n \in Nat, NEW at, Walks(at, S, head, next, n)
  PROVE  \A k \in 0..n : at[k] \in S \cup {NULL}
<1> DEFINE K == {k \in Nat : k <= n => at[k] \in S \cup {NULL}}
<1>1. 0 \in K
  BY DEF IsList, Walks
<1>2. ASSUME NEW k \in K PROVE k + 1 \in K
  <2>1. SUFFICES ASSUME k + 1 <= n PROVE at[k + 1] \in S \cup {NULL}
    OBVIOUS
  <2>2. at[k] \in S \cup {NULL} /\ k + 1 \in 1..n /\ k + 1 - 1 = k
    BY <2>1
  <2>3. /\ at[k] = NULL => at[k + 1] = NULL
        /\ at[k] \in S => at[k + 1] = next[at[k]]
    BY <2>2 DEF Walks
  <2> QED BY <2>2, <2>3, Zenon DEF IsList
<1>3. K \in SUBSET Nat
  OBVIOUS
<1> HIDE DEF K
<1>4. K = Nat
  BY <1>1, <1>2, <1>3, Induction
<1> QED BY <1>4 DEF K

\* The rank grows along a walk, so that it meets no place twice.
LEMMA WalkGrows ==
  ASSUME NEW S, NEW head, NEW next, NEW prev, NEW rank,
         IsList(S, head, next, prev, rank),
         NEW n \in Nat, NEW at, Walks(at, S, head, next, n)
  PROVE  \A j, k \in 0..n : j < k /\ at[k] # NULL =>
           at[j] # NULL /\ rank[at[j]] < rank[at[k]]
<1>1. \A k \in 0..n : at[k] \in S \cup {NULL}
  BY WalkStays
<1>2. ASSUME NEW k \in 1..n, at[k] # NULL
      PROVE  at[k - 1] \in S /\ at[k] \in S /\ prev[at[k]] = at[k - 1]
             /\ rank[at[k - 1]] < rank[at[k]]
  <2>1. k - 1 \in 0..n /\ k \in 0..n
    OBVIOUS
  <2>2. at[k - 1] # NULL
    BY <1>2 DEF Walks
  <2>3. at[k - 1] \in S /\ at[k] \in S
    BY <1>1, <1>2, <2>1, <2>2
  <2>4. at[k] = next[at[k - 1]]
    BY <2>3 DEF Walks
  <2>5. prev[at[k]] = at[k - 1]
    BY <1>2, <2>3, <2>4, Zenon DEF IsList
  <2>6. rank[at[k - 1]] < rank[at[k]]
    <3>1. NULL \notin S
      BY DEF IsList
    <3>2. prev[at[k]] # NULL
      BY <2>3, <2>5, <3>1
    <3>3. rank[prev[at[k]]] < rank[at[k]]
      BY <2>3, <3>2, Zenon DEF IsList
    <3> QED BY <2>5, <3>3
  <2> QED BY <2>3, <2>5, <2>6
<1> DEFINE K == {k \in Nat : k <= n /\ at[k] # NULL =>
                    \A j \in 0..k - 1 : at[j] # NULL /\ rank[at[j]] < rank[at[k]]}
<1>3. 0 \in K
  OBVIOUS
<1>4. ASSUME NEW k \in K PROVE k + 1 \in K
  <2>1. SUFFICES ASSUME k + 1 <= n, at[k + 1] # NULL, NEW j \in 0..k
                 PROVE  at[j] # NULL /\ rank[at[j]] < rank[at[k + 1]]
    OBVIOUS
  <2>2. k + 1 \in 1..n /\ k + 1 - 1 = k /\ k \in 0..n /\ j \in 0..n
    BY <2>1
  <2>3. at[k] \in S /\ at[k + 1] \in S /\ rank[at[k]] < rank[at[k + 1]]
    BY <1>2, <2>1, <2>2
  <2>4. CASE j = k
    BY <2>3, <2>4 DEF IsList
  <2>5. CASE j # k
    <3>1. j \in 0..k - 1 /\ at[k] # NULL /\ k <= n
      BY <2>1, <2>2, <2>3, <2>5 DEF IsList
    <3>2. at[j] # NULL /\ rank[at[j]] < rank[at[k]]
      BY <3>1
    <3>3. at[j] \in S
      BY <1>1, <2>2, <3>2
    <3>4. rank[at[j]] \in Nat /\ rank[at[k]] \in Nat /\ rank[at[k + 1]] \in Nat
      BY <2>3, <3>3 DEF IsList
    <3> QED BY <2>3, <3>2, <3>4
  <2> QED BY <2>4, <2>5
<1>5. K \in SUBSET Nat
  OBVIOUS
<1> HIDE DEF K
<1>6. K = Nat
  BY <1>3, <1>4, <1>5, Induction
<1>7. SUFFICES ASSUME NEW j \in 0..n, NEW k \in 0..n, j < k, at[k] # NULL
               PROVE  at[j] # NULL /\ rank[at[j]] < rank[at[k]]
  OBVIOUS
<1>8. j \in 0..k - 1 /\ k \in Nat /\ k <= n
  BY <1>7
<1> QED BY <1>6, <1>7, <1>8 DEF K

\* A walk of as many steps as the list may have members meets all of them.
LEMMA WalkReaches ==
  ASSUME NEW S, NEW head, NEW next, NEW prev, NEW rank,
         IsList(S, head, next, prev, rank),
         NEW M, IsFiniteSet(M), S \subseteq M,
         NEW at, Walks(at, S, head, next, Cardinality(M)),
         NEW x \in S
  PROVE  \E k \in 0..Cardinality(M) : at[k] = x
<1>1. PICK n \in Nat : n = Cardinality(M)
  BY FS_CardinalityType
<1> DEFINE U == {y \in S : \A k \in 0..n : at[k] # y}
<1>2. SUFFICES ASSUME U # {} PROVE FALSE
  BY <1>1
<1>3. PICK y \in U : \A z \in U : rank[y] <= rank[z]
  <2> DEFINE T == {rank[z] : z \in U}
  <2>1. T \in SUBSET Nat /\ T # {}
    BY <1>2 DEF IsList
  <2> HIDE DEF T
  <2>2. PICK r \in T : \A q \in T : r <= q
    BY <2>1, Least
  <2> QED BY <2>2 DEF T
<1>4. y \in S /\ \A k \in 0..n : at[k] # y
  OBVIOUS
<1>5. Walks(at, S, head, next, n)
  BY <1>1
<1>6. prev[y] # NULL
  <2>1. at[0] = head /\ 0 \in 0..n
    BY <1>5 DEF Walks
  <2>2. y # head
    BY <1>4, <2>1
  <2> QED BY <1>4, <2>2 DEF IsList
<1>7. prev[y] \in S /\ next[prev[y]] = y /\ rank[prev[y]] < rank[y]
  BY <1>4, <1>6 DEF IsList
<1>8. prev[y] \notin U
  <2>1. rank[prev[y]] \in Nat /\ rank[y] \in Nat
    BY <1>4, <1>7 DEF IsList
  <2> QED BY <1>3, <1>7, <2>1
<1>9. PICK k \in 0..n : at[k] = prev[y]
  BY <1>7, <1>8
<1>10. k = n
  <2>1. SUFFICES ASSUME k # n PROVE FALSE
    OBVIOUS
  <2>2. k + 1 \in 1..n /\ k + 1 - 1 = k /\ k + 1 \in 0..n
    BY <2>1
  <2>3. at[k + 1] = next[at[k]]
    BY <1>5, <1>7, <1>9, <2>2 DEF Walks
  <2> QED BY <1>4, <1>7, <1>9, <2>2, <2>3
<1>11. at[n] # NULL
  BY <1>7, <1>9, <1>10 DEF IsList
<1>12. \A j, i \in 0..n : j < i /\ at[i] # NULL =>
         at[j] # NULL /\ rank[at[j]] < rank[at[i]]
  BY <1>5, WalkGrows
<1>13. \A j \in 0..n : at[j] \in S
  <2>1. \A j \in 0..n : at[j] \in S \cup {NULL}
    BY <1>5, WalkStays
  <2>2. ASSUME NEW j \in 0..n PROVE at[j] # NULL
    <3>1. n \in 0..n /\ (j < n \/ j = n)
      OBVIOUS
    <3> QED BY <1>11, <1>12, <3>1
  <2> QED BY <2>1, <2>2
<1> DEFINE f == [j \in 0..n |-> at[j]]
<1>14. f \in [0..n -> M]
  BY <1>13
<1>15. \A j, i \in 0..n : j # i => f[j] # f[i]
  <2>1. ASSUME NEW j \in 0..n, NEW i \in 0..n, j < i PROVE at[j] # at[i]
    <3>1. rank[at[j]] < rank[at[i]]
      BY <1>12, <1>13, <2>1 DEF IsList
    <3>2. rank[at[j]] \in Nat
      BY <1>13 DEF IsList
    <3> QED BY <3>1, <3>2
  <2>2. \A j, i \in 0..n : j < i \/ i < j \/ i = j
    OBVIOUS
  <2> QED BY <2>1, <2>2
<1>16. IsFiniteSet(0..n) /\ Cardinality(0..n) = n + 1
  BY FS_Interval
<1> HIDE DEF f
<1>17. \E j, i \in 0..n : j # i /\ f[j] = f[i]
  <2>1. Cardinality(M) < Cardinality(0..n)
    BY <1>1, <1>16
  <2> QED BY <1>14, <1>16, <2>1, FS_PigeonHole
<1> QED BY <1>15, <1>17

-----------------------------------------------------------------------------
\* The members of the header of block b, its end, and a byte of memory.
Size(h, b)     == h.mem[b].size
FreeFlag(h, b) == h.mem[b].is_free
NextPhys(h, b) == h.mem[b].next_phys
PrevPhys(h, b) == h.mem[b].prev_phys
NextFree(h, b) == h.mem[b].next_free
PrevFree(h, b) == h.mem[b].prev_free
EndAt(h, b)    == b + Hdr + Size(h, b)
ByteAt(h, a)   == IF a \in DOMAIN h.bytes THEN h.bytes[a] ELSE Junk

\* The record of a heap, and of a header.
Heap(mem, bytes, head, first, last, brk) ==
  [mem |-> mem, bytes |-> bytes, free_list_head |-> head,
   first_phys_block |-> first, last_phys_block |-> last, brk |-> brk]

\* The headers in memory, and the bytes.
MemTyped(mem) == /\ mem \in [DOMAIN mem -> BlockHeader]
                 /\ IsFiniteSet(DOMAIN mem) /\ NULL \notin DOMAIN mem

BytesTyped(bytes) == bytes = [a \in BrkStart..BrkLimit - 1 |-> bytes[a]]

\* The type of heap.
Typed(h) ==
  /\ h = Heap(h.mem, h.bytes, h.free_list_head, h.first_phys_block,
              h.last_phys_block, h.brk)
  /\ MemTyped(h.mem) /\ BytesTyped(h.bytes)

\* The members of the record.
LEMMA HeapMembers ==
  ASSUME NEW mem, NEW bytes, NEW head, NEW first, NEW last, NEW brk,
         NEW h, h = Heap(mem, bytes, head, first, last, brk)
  PROVE  /\ h.mem = mem /\ h.bytes = bytes /\ h.free_list_head = head
         /\ h.first_phys_block = first /\ h.last_phys_block = last /\ h.brk = brk
         /\ MemTyped(mem) /\ BytesTyped(bytes) => Typed(h)
  BY DEF Heap, Typed

\* A header that is replaced by another one.
LEMMA MemSet ==
  ASSUME NEW mem, MemTyped(mem), NEW b \in DOMAIN mem, NEW H \in BlockHeader,
         NEW m, m = [mem EXCEPT ![b] = H]
  PROVE  /\ MemTyped(m) /\ DOMAIN m = DOMAIN mem
         /\ \A x \in DOMAIN mem : m[x] = IF x = b THEN H ELSE mem[x]
<1>1. DOMAIN m = DOMAIN mem /\ m = [x \in DOMAIN mem |-> m[x]]
  OBVIOUS
<1>2. \A x \in DOMAIN mem : m[x] = IF x = b THEN H ELSE mem[x]
  OBVIOUS
<1>3. \A x \in DOMAIN mem : m[x] \in BlockHeader
  BY <1>2 DEF MemTyped
<1>4. m \in [DOMAIN mem -> BlockHeader]
  BY <1>1, <1>3, Zenon
<1> QED BY <1>1, <1>2, <1>4 DEF MemTyped


\* r is h with another header at b, whose members are given.
Wrote(h, r, b, size, is_free, next_phys, prev_phys, next_free, prev_free) ==
  /\ Typed(r) /\ DOMAIN r.mem = DOMAIN h.mem /\ r.bytes = h.bytes
  /\ r.brk = h.brk /\ r.first_phys_block = h.first_phys_block
  /\ Size(r, b) = size /\ FreeFlag(r, b) = is_free
  /\ NextPhys(r, b) = next_phys /\ PrevPhys(r, b) = prev_phys
  /\ NextFree(r, b) = next_free /\ PrevFree(r, b) = prev_free
  /\ \A x \in DOMAIN h.mem : x # b =>
       /\ Size(r, x) = Size(h, x) /\ FreeFlag(r, x) = FreeFlag(h, x)
       /\ NextPhys(r, x) = NextPhys(h, x) /\ PrevPhys(r, x) = PrevPhys(h, x)
       /\ NextFree(r, x) = NextFree(h, x) /\ PrevFree(r, x) = PrevFree(h, x)

\* The ends of the lists are the same.
SameHead(h, r) == r.free_list_head = h.free_list_head
SameLast(h, r) == r.last_phys_block = h.last_phys_block

\* h with header H at b.
Update(h, b, H, head, last) ==
  Heap([h.mem EXCEPT ![b] = H], h.bytes, head, h.first_phys_block, last, h.brk)

\* A heap with one header replaced, and the ends of the lists.
LEMMA UpdateGives ==
  ASSUME NEW h, Typed(h), NEW b \in DOMAIN h.mem, NEW H \in BlockHeader,
         NEW head, NEW last, NEW r, r = Update(h, b, H, head, last)
  PROVE  /\ Wrote(h, r, b, H.size, H.is_free, H.next_phys, H.prev_phys,
                  H.next_free, H.prev_free)
         /\ r.free_list_head = head /\ r.last_phys_block = last
<1>1. PICK m : m = [h.mem EXCEPT ![b] = H]
  OBVIOUS
<1>2. /\ MemTyped(m) /\ DOMAIN m = DOMAIN h.mem
      /\ \A x \in DOMAIN h.mem : m[x] = IF x = b THEN H ELSE h.mem[x]
  BY <1>1, MemSet DEF Typed
<1>3. r = Heap(m, h.bytes, head, h.first_phys_block, last, h.brk)
  BY <1>1, Zenon DEF Update
<1>4. /\ r.mem = m /\ r.bytes = h.bytes /\ r.free_list_head = head
      /\ r.first_phys_block = h.first_phys_block /\ r.last_phys_block = last
      /\ r.brk = h.brk /\ Typed(r)
  BY <1>2, <1>3, HeapMembers DEF Typed
<1>5. r.mem[b] = H /\ \A x \in DOMAIN h.mem : x # b => r.mem[x] = h.mem[x]
  BY <1>2, <1>4
<1> QED BY <1>2, <1>4, <1>5, Zenon
     DEF Wrote, Size, FreeFlag, NextPhys, PrevPhys, NextFree, PrevFree

\* The header of a heap.
LEMMA HeaderTyped ==
  ASSUME NEW h, Typed(h), NEW b \in DOMAIN h.mem
  PROVE  /\ h.mem[b] \in BlockHeader
         /\ Size(h, b) \in Nat /\ FreeFlag(h, b) \in BOOLEAN
         /\ NextPhys(h, b) \in Nat /\ PrevPhys(h, b) \in Nat
         /\ NextFree(h, b) \in Nat /\ PrevFree(h, b) \in Nat
<1>1. h.mem[b] \in BlockHeader
  BY DEF Typed, MemTyped
<1> QED BY <1>1 DEF BlockHeader, Size, FreeFlag, NextPhys, PrevPhys, NextFree, PrevFree

\* prev_free of one header.
LEMMA PrevFreeSet ==
  ASSUME NEW h, Typed(h), NEW b \in DOMAIN h.mem, NEW v \in Nat,
         NEW r, r = [h EXCEPT !.mem[b].prev_free = v]
  PROVE  /\ Wrote(h, r, b, Size(h, b), FreeFlag(h, b), NextPhys(h, b), PrevPhys(h, b),
                  NextFree(h, b), v)
         /\ SameHead(h, r) /\ SameLast(h, r)
<1>1. PICK H : H = [h.mem[b] EXCEPT !.prev_free = v]
  OBVIOUS
<1>2. /\ H \in BlockHeader
      /\ H.size = Size(h, b) /\ H.is_free = FreeFlag(h, b)
      /\ H.next_phys = NextPhys(h, b) /\ H.prev_phys = PrevPhys(h, b)
      /\ H.next_free = NextFree(h, b) /\ H.prev_free = v
  BY <1>1, HeaderTyped
     DEF BlockHeader, Size, FreeFlag, NextPhys, PrevPhys, NextFree, PrevFree, NULL
<1>3. r = Update(h, b, H, h.free_list_head, h.last_phys_block)
  BY <1>1 DEF Update, Heap, Typed
<1>4. /\ Wrote(h, r, b, H.size, H.is_free, H.next_phys, H.prev_phys,
               H.next_free, H.prev_free)
      /\ r.free_list_head = h.free_list_head /\ r.last_phys_block = h.last_phys_block
  BY <1>2, <1>3, UpdateGives
<1> QED BY <1>2, <1>4, Zenon DEF SameHead, SameLast

\* next_free of one header.
LEMMA NextFreeSet ==
  ASSUME NEW h, Typed(h), NEW b \in DOMAIN h.mem, NEW v \in Nat,
         NEW r, r = [h EXCEPT !.mem[b].next_free = v]
  PROVE  /\ Wrote(h, r, b, Size(h, b), FreeFlag(h, b), NextPhys(h, b), PrevPhys(h, b),
                  v, PrevFree(h, b))
         /\ SameHead(h, r) /\ SameLast(h, r)
<1>1. PICK H : H = [h.mem[b] EXCEPT !.next_free = v]
  OBVIOUS
<1>2. /\ H \in BlockHeader
      /\ H.size = Size(h, b) /\ H.is_free = FreeFlag(h, b)
      /\ H.next_phys = NextPhys(h, b) /\ H.prev_phys = PrevPhys(h, b)
      /\ H.next_free = v /\ H.prev_free = PrevFree(h, b)
  BY <1>1, HeaderTyped
     DEF BlockHeader, Size, FreeFlag, NextPhys, PrevPhys, NextFree, PrevFree, NULL
<1>3. r = Update(h, b, H, h.free_list_head, h.last_phys_block)
  BY <1>1 DEF Update, Heap, Typed
<1>4. /\ Wrote(h, r, b, H.size, H.is_free, H.next_phys, H.prev_phys,
               H.next_free, H.prev_free)
      /\ r.free_list_head = h.free_list_head /\ r.last_phys_block = h.last_phys_block
  BY <1>2, <1>3, UpdateGives
<1> QED BY <1>2, <1>4, Zenon DEF SameHead, SameLast

\* prev_phys of one header.
LEMMA PrevPhysSet ==
  ASSUME NEW h, Typed(h), NEW b \in DOMAIN h.mem, NEW v \in Nat,
         NEW r, r = [h EXCEPT !.mem[b].prev_phys = v]
  PROVE  /\ Wrote(h, r, b, Size(h, b), FreeFlag(h, b), NextPhys(h, b), v,
                  NextFree(h, b), PrevFree(h, b))
         /\ SameHead(h, r) /\ SameLast(h, r)
<1>1. PICK H : H = [h.mem[b] EXCEPT !.prev_phys = v]
  OBVIOUS
<1>2. /\ H \in BlockHeader
      /\ H.size = Size(h, b) /\ H.is_free = FreeFlag(h, b)
      /\ H.next_phys = NextPhys(h, b) /\ H.prev_phys = v
      /\ H.next_free = NextFree(h, b) /\ H.prev_free = PrevFree(h, b)
  BY <1>1, HeaderTyped
     DEF BlockHeader, Size, FreeFlag, NextPhys, PrevPhys, NextFree, PrevFree, NULL
<1>3. r = Update(h, b, H, h.free_list_head, h.last_phys_block)
  BY <1>1 DEF Update, Heap, Typed
<1>4. /\ Wrote(h, r, b, H.size, H.is_free, H.next_phys, H.prev_phys,
               H.next_free, H.prev_free)
      /\ r.free_list_head = h.free_list_head /\ r.last_phys_block = h.last_phys_block
  BY <1>2, <1>3, UpdateGives
<1> QED BY <1>2, <1>4, Zenon DEF SameHead, SameLast

\* next_phys of one header.
LEMMA NextPhysSet ==
  ASSUME NEW h, Typed(h), NEW b \in DOMAIN h.mem, NEW v \in Nat,
         NEW r, r = [h EXCEPT !.mem[b].next_phys = v]
  PROVE  /\ Wrote(h, r, b, Size(h, b), FreeFlag(h, b), v, PrevPhys(h, b),
                  NextFree(h, b), PrevFree(h, b))
         /\ SameHead(h, r) /\ SameLast(h, r)
<1>1. PICK H : H = [h.mem[b] EXCEPT !.next_phys = v]
  OBVIOUS
<1>2. /\ H \in BlockHeader
      /\ H.size = Size(h, b) /\ H.is_free = FreeFlag(h, b)
      /\ H.next_phys = v /\ H.prev_phys = PrevPhys(h, b)
      /\ H.next_free = NextFree(h, b) /\ H.prev_free = PrevFree(h, b)
  BY <1>1, HeaderTyped
     DEF BlockHeader, Size, FreeFlag, NextPhys, PrevPhys, NextFree, PrevFree, NULL
<1>3. r = Update(h, b, H, h.free_list_head, h.last_phys_block)
  BY <1>1 DEF Update, Heap, Typed
<1>4. /\ Wrote(h, r, b, H.size, H.is_free, H.next_phys, H.prev_phys,
               H.next_free, H.prev_free)
      /\ r.free_list_head = h.free_list_head /\ r.last_phys_block = h.last_phys_block
  BY <1>2, <1>3, UpdateGives
<1> QED BY <1>2, <1>4, Zenon DEF SameHead, SameLast

\* A member of the heap alone.
LEMMA HeadSet ==
  ASSUME NEW h, Typed(h), NEW v,
         NEW r, r = [h EXCEPT !.free_list_head = v]
  PROVE  /\ Typed(r) /\ r.mem = h.mem /\ r.bytes = h.bytes /\ r.brk = h.brk
         /\ r.free_list_head = v /\ r.first_phys_block = h.first_phys_block
         /\ r.last_phys_block = h.last_phys_block
<1>1. r = Heap(h.mem, h.bytes, v, h.first_phys_block, h.last_phys_block, h.brk)
  BY DEF Heap, Typed
<1>2. /\ Typed(r) /\ r.mem = h.mem /\ r.bytes = h.bytes /\ r.brk = h.brk
      /\ r.free_list_head = v /\ r.first_phys_block = h.first_phys_block
      /\ r.last_phys_block = h.last_phys_block
  BY <1>1, HeapMembers DEF Typed
<1> QED BY <1>2, Zenon

\* last_phys_block alone.
LEMMA LastSet ==
  ASSUME NEW h, Typed(h), NEW v,
         NEW r, r = [h EXCEPT !.last_phys_block = v]
  PROVE  /\ Typed(r) /\ r.mem = h.mem /\ r.bytes = h.bytes /\ r.brk = h.brk
         /\ r.free_list_head = h.free_list_head /\ r.last_phys_block = v
         /\ r.first_phys_block = h.first_phys_block
<1>1. r = Heap(h.mem, h.bytes, h.free_list_head, h.first_phys_block, v, h.brk)
  BY DEF Heap, Typed
<1>2. /\ Typed(r) /\ r.mem = h.mem /\ r.bytes = h.bytes /\ r.brk = h.brk
      /\ r.free_list_head = h.free_list_head /\ r.first_phys_block = h.first_phys_block
      /\ r.last_phys_block = v
  BY <1>1, HeapMembers DEF Typed
<1> QED BY <1>2, Zenon

\* A block becomes the head of the free list.
Push(h, b, v) ==
  [h EXCEPT !.mem[b] = [@ EXCEPT !.is_free = TRUE, !.next_free = v,
                                 !.prev_free = NULL],
            !.free_list_head = b]

\* The first half of insert_free_block.
LEMMA Pushed ==
  ASSUME NEW h, Typed(h), NEW b \in DOMAIN h.mem, NEW v \in Nat,
         NEW r, r = Push(h, b, v)
  PROVE  /\ Wrote(h, r, b, Size(h, b), TRUE, NextPhys(h, b), PrevPhys(h, b),
                  v, NULL)
         /\ r.free_list_head = b /\ SameLast(h, r)
<1>1. PICK H : H = [h.mem[b] EXCEPT !.is_free = TRUE, !.next_free = v,
                                    !.prev_free = NULL]
  OBVIOUS
<1>2. /\ H \in BlockHeader
      /\ H.size = Size(h, b) /\ H.is_free = TRUE
      /\ H.next_phys = NextPhys(h, b) /\ H.prev_phys = PrevPhys(h, b)
      /\ H.next_free = v /\ H.prev_free = NULL
  BY <1>1, HeaderTyped
     DEF BlockHeader, Size, FreeFlag, NextPhys, PrevPhys, NextFree, PrevFree, NULL
<1>3. r = [h EXCEPT !.mem[b] = H, !.free_list_head = b]
  BY <1>1, Zenon DEF Push
<1>4. r = Update(h, b, H, b, h.last_phys_block)
  BY <1>3 DEF Update, Heap, Typed
<1>5. /\ Wrote(h, r, b, H.size, H.is_free, H.next_phys, H.prev_phys,
               H.next_free, H.prev_free)
      /\ r.free_list_head = b /\ r.last_phys_block = h.last_phys_block
  BY <1>2, <1>4, UpdateGives
<1> QED BY <1>2, <1>5, Zenon DEF SameHead, SameLast

\* A block that is on no list.
LEMMA Unlinked ==
  ASSUME NEW h, Typed(h), NEW b \in DOMAIN h.mem,
         NEW r, r = [h EXCEPT !.mem[b] = [@ EXCEPT !.next_free = NULL,
                                               !.prev_free = NULL,
                                               !.is_free = FALSE]]
  PROVE  /\ Wrote(h, r, b, Size(h, b), FALSE, NextPhys(h, b), PrevPhys(h, b),
                  NULL, NULL)
         /\ SameHead(h, r) /\ SameLast(h, r)
<1>1. PICK H : H = [h.mem[b] EXCEPT !.next_free = NULL, !.prev_free = NULL,
                                    !.is_free = FALSE]
  OBVIOUS
<1>2. /\ H \in BlockHeader
      /\ H.size = Size(h, b) /\ H.is_free = FALSE
      /\ H.next_phys = NextPhys(h, b) /\ H.prev_phys = PrevPhys(h, b)
      /\ H.next_free = NULL /\ H.prev_free = NULL
  BY <1>1, HeaderTyped
     DEF BlockHeader, Size, FreeFlag, NextPhys, PrevPhys, NextFree, PrevFree, NULL
<1>3. r = [h EXCEPT !.mem[b] = H]
  BY <1>1, Zenon
<1>4. r = Update(h, b, H, h.free_list_head, h.last_phys_block)
  BY <1>3 DEF Update, Heap, Typed
<1>5. /\ Wrote(h, r, b, H.size, H.is_free, H.next_phys, H.prev_phys,
               H.next_free, H.prev_free)
      /\ r.free_list_head = h.free_list_head /\ r.last_phys_block = h.last_phys_block
  BY <1>2, <1>4, UpdateGives
<1> QED BY <1>2, <1>5, Zenon DEF SameHead, SameLast

\* A block with another size and another neighbour.
LEMMA Grown ==
  ASSUME NEW h, Typed(h), NEW b \in DOMAIN h.mem, NEW n \in Nat, NEW v \in Nat,
         NEW r, r = [h EXCEPT !.mem[b].size = n, !.mem[b].next_phys = v]
  PROVE  /\ Wrote(h, r, b, n, FreeFlag(h, b), v, PrevPhys(h, b),
                  NextFree(h, b), PrevFree(h, b))
         /\ SameHead(h, r) /\ SameLast(h, r)
<1>1. PICK H : H = [[h.mem[b] EXCEPT !.size = n] EXCEPT !.next_phys = v]
  OBVIOUS
<1>2. /\ H \in BlockHeader
      /\ H.size = n /\ H.is_free = FreeFlag(h, b)
      /\ H.next_phys = v /\ H.prev_phys = PrevPhys(h, b)
      /\ H.next_free = NextFree(h, b) /\ H.prev_free = PrevFree(h, b)
  BY <1>1, HeaderTyped
     DEF BlockHeader, Size, FreeFlag, NextPhys, PrevPhys, NextFree, PrevFree, NULL
<1>3. r = Update(h, b, H, h.free_list_head, h.last_phys_block)
  BY <1>1 DEF Update, Heap, Typed
<1>4. /\ Wrote(h, r, b, H.size, H.is_free, H.next_phys, H.prev_phys,
               H.next_free, H.prev_free)
      /\ r.free_list_head = h.free_list_head /\ r.last_phys_block = h.last_phys_block
  BY <1>2, <1>3, UpdateGives
<1> QED BY <1>2, <1>4, Zenon DEF SameHead, SameLast

\* The same, in the other order.
LEMMA Shrunk ==
  ASSUME NEW h, Typed(h), NEW b \in DOMAIN h.mem, NEW n \in Nat, NEW v \in Nat,
         NEW r, r = [h EXCEPT !.mem[b].next_phys = v, !.mem[b].size = n]
  PROVE  /\ Wrote(h, r, b, n, FreeFlag(h, b), v, PrevPhys(h, b),
                  NextFree(h, b), PrevFree(h, b))
         /\ SameHead(h, r) /\ SameLast(h, r)
<1>1. PICK H : H = [[h.mem[b] EXCEPT !.next_phys = v] EXCEPT !.size = n]
  OBVIOUS
<1>2. /\ H \in BlockHeader
      /\ H.size = n /\ H.is_free = FreeFlag(h, b)
      /\ H.next_phys = v /\ H.prev_phys = PrevPhys(h, b)
      /\ H.next_free = NextFree(h, b) /\ H.prev_free = PrevFree(h, b)
  BY <1>1, HeaderTyped
     DEF BlockHeader, Size, FreeFlag, NextPhys, PrevPhys, NextFree, PrevFree, NULL
<1>3. r = Update(h, b, H, h.free_list_head, h.last_phys_block)
  BY <1>1 DEF Update, Heap, Typed
<1>4. /\ Wrote(h, r, b, H.size, H.is_free, H.next_phys, H.prev_phys,
               H.next_free, H.prev_free)
      /\ r.free_list_head = h.free_list_head /\ r.last_phys_block = h.last_phys_block
  BY <1>2, <1>3, UpdateGives
<1> QED BY <1>2, <1>4, Zenon DEF SameHead, SameLast

-----------------------------------------------------------------------------
\* What the functions of the free list leave alone.
SamePhys(h, r) ==
  /\ Typed(r)
  /\ DOMAIN r.mem = DOMAIN h.mem /\ r.bytes = h.bytes /\ r.brk = h.brk
  /\ r.first_phys_block = h.first_phys_block
  /\ r.last_phys_block = h.last_phys_block
  /\ \A x \in DOMAIN h.mem : /\ Size(r, x) = Size(h, x)
                             /\ NextPhys(r, x) = NextPhys(h, x)
                             /\ PrevPhys(r, x) = PrevPhys(h, x)

\* What the other functions leave alone, of the blocks X.
SameFree(h, r, X) ==
  /\ r.free_list_head = h.free_list_head
  /\ \A x \in X :
       /\ FreeFlag(r, x) = FreeFlag(h, x)
       /\ NextFree(r, x) = NextFree(h, x) /\ PrevFree(r, x) = PrevFree(h, x)

\* insert_free_block.
Inserted(h, r, b, head) ==
  /\ SamePhys(h, r) /\ r.free_list_head = b
  /\ \A x \in DOMAIN h.mem :
       /\ FreeFlag(r, x) = IF x = b THEN TRUE ELSE FreeFlag(h, x)
       /\ NextFree(r, x) = IF x = b THEN head ELSE NextFree(h, x)
       /\ PrevFree(r, x) = IF x = b THEN NULL
                           ELSE IF x = head THEN b ELSE PrevFree(h, x)

\* insert_free_block changes the new head, and the back pointer of the old one.
LEMMA InsertGives ==
  ASSUME NEW h, Typed(h), NEW b \in DOMAIN h.mem, b \in Nat,
         NEW head \in Nat, head = h.free_list_head, head # b,
         head # NULL => head \in DOMAIN h.mem,
         NEW r, r = InsertFreeBlock(h, b)
  PROVE  Inserted(h, r, b, head)
<1>1. PICK p : p = Push(h, b, head)
  OBVIOUS
<1>2. /\ Wrote(h, p, b, Size(h, b), TRUE, NextPhys(h, b), PrevPhys(h, b), head, NULL)
      /\ p.free_list_head = b /\ SameLast(h, p)
  BY <1>1, Pushed
<1>3. r = IF head = NULL THEN p ELSE [p EXCEPT !.mem[head].prev_free = b]
  BY <1>1, Zenon DEF InsertFreeBlock, Push
<1>4. CASE head = NULL
  <2>1. r = p
    BY <1>3, <1>4, Zenon
  <2>2. NULL \notin DOMAIN h.mem
    BY DEF Typed, MemTyped
  <2> QED BY <1>2, <1>4, <2>1, <2>2 DEF Inserted, Wrote, SamePhys, SameLast
<1>5. CASE head # NULL
  <2>1. r = [p EXCEPT !.mem[head].prev_free = b]
    BY <1>3, <1>5, Zenon
  <2>2. Typed(p) /\ head \in DOMAIN p.mem
    BY <1>2, <1>5 DEF Wrote
  <2>3. /\ Wrote(p, r, head, Size(p, head), FreeFlag(p, head), NextPhys(p, head),
                 PrevPhys(p, head), NextFree(p, head), b)
        /\ SameHead(p, r) /\ SameLast(p, r)
    BY <2>1, <2>2, PrevFreeSet
  <2> QED BY <1>2, <1>5, <2>3 DEF Inserted, Wrote, SamePhys, SameHead, SameLast
<1> QED BY <1>4, <1>5

\* remove_free_block.
Removed(h, r, b, prev, next) ==
  /\ SamePhys(h, r)
  /\ r.free_list_head = IF prev = NULL THEN next ELSE h.free_list_head
  /\ \A x \in DOMAIN h.mem :
       /\ FreeFlag(r, x) = IF x = b THEN FALSE ELSE FreeFlag(h, x)
       /\ NextFree(r, x) = IF x = b THEN NULL
                           ELSE IF x = prev THEN next ELSE NextFree(h, x)
       /\ PrevFree(r, x) = IF x = b THEN NULL
                           ELSE IF x = next THEN prev ELSE PrevFree(h, x)

\* remove_free_block joins the neighbours of the block on the free list.
LEMMA RemoveGives ==
  ASSUME NEW h, Typed(h), NEW b \in DOMAIN h.mem,
         NEW prev \in Nat, prev = PrevFree(h, b), prev # b,
         prev # NULL => prev \in DOMAIN h.mem,
         NEW next \in Nat, next = NextFree(h, b), next # b,
         next # NULL => next \in DOMAIN h.mem,
         NEW r, r = RemoveFreeBlock(h, b)
  PROVE  Removed(h, r, b, prev, next)
<1>1. prev = h.mem[b].prev_free /\ next = h.mem[b].next_free
  BY DEF PrevFree, NextFree
<1>2. PICK ahead : ahead = IF prev = NULL THEN [h EXCEPT !.free_list_head = next]
                           ELSE [h EXCEPT !.mem[prev].next_free = next]
  OBVIOUS
<1>3. PICK behind : behind = IF next = NULL THEN ahead
                             ELSE [ahead EXCEPT !.mem[next].prev_free = prev]
  OBVIOUS
<1>4. r = [behind EXCEPT !.mem[b] = [@ EXCEPT !.next_free = NULL,
                                              !.prev_free = NULL,
                                              !.is_free = FALSE]]
  BY <1>1, <1>2, <1>3, Zenon DEF RemoveFreeBlock
<1>5. NULL \notin DOMAIN h.mem
  BY DEF Typed, MemTyped
<1>6. /\ SamePhys(h, ahead)
      /\ ahead.free_list_head = IF prev = NULL THEN next ELSE h.free_list_head
      /\ \A x \in DOMAIN h.mem :
           /\ FreeFlag(ahead, x) = FreeFlag(h, x)
           /\ NextFree(ahead, x) = IF x = prev THEN next ELSE NextFree(h, x)
           /\ PrevFree(ahead, x) = PrevFree(h, x)
  <2>1. CASE prev = NULL
    <3>1. ahead = [h EXCEPT !.free_list_head = next]
      BY <1>2, <2>1, Zenon
    <3>2. /\ Typed(ahead) /\ ahead.mem = h.mem /\ ahead.bytes = h.bytes
          /\ ahead.brk = h.brk /\ ahead.free_list_head = next
          /\ ahead.first_phys_block = h.first_phys_block
          /\ ahead.last_phys_block = h.last_phys_block
      BY <3>1, HeadSet
    <3> QED BY <1>5, <2>1, <3>2
         DEF SamePhys, Size, FreeFlag, NextPhys, PrevPhys, NextFree, PrevFree
  <2>2. CASE prev # NULL
    <3>1. ahead = [h EXCEPT !.mem[prev].next_free = next]
      BY <1>2, <2>2, Zenon
    <3>2. /\ Wrote(h, ahead, prev, Size(h, prev), FreeFlag(h, prev),
                   NextPhys(h, prev), PrevPhys(h, prev), next, PrevFree(h, prev))
          /\ SameHead(h, ahead) /\ SameLast(h, ahead)
      BY <2>2, <3>1, NextFreeSet
    <3> QED BY <2>2, <3>2 DEF Wrote, SamePhys, SameHead, SameLast
  <2> QED BY <2>1, <2>2
<1>7. /\ SamePhys(h, behind)
      /\ behind.free_list_head = ahead.free_list_head
      /\ \A x \in DOMAIN h.mem :
           /\ FreeFlag(behind, x) = FreeFlag(h, x)
           /\ NextFree(behind, x) = IF x = prev THEN next ELSE NextFree(h, x)
           /\ PrevFree(behind, x) = IF x = next THEN prev ELSE PrevFree(h, x)
  <2>1. CASE next = NULL
    <3>1. behind = ahead
      BY <1>3, <2>1, Zenon
    <3> QED BY <1>5, <1>6, <2>1, <3>1
  <2>2. CASE next # NULL
    <3>1. behind = [ahead EXCEPT !.mem[next].prev_free = prev]
      BY <1>3, <2>2, Zenon
    <3>2. Typed(ahead) /\ next \in DOMAIN ahead.mem
      BY <1>6, <2>2 DEF SamePhys
    <3>3. /\ Wrote(ahead, behind, next, Size(ahead, next), FreeFlag(ahead, next),
                   NextPhys(ahead, next), PrevPhys(ahead, next),
                   NextFree(ahead, next), prev)
          /\ SameHead(ahead, behind) /\ SameLast(ahead, behind)
      BY <3>1, <3>2, PrevFreeSet
    <3> QED BY <1>6, <2>2, <3>3 DEF Wrote, SamePhys, SameHead, SameLast
  <2> QED BY <2>1, <2>2
<1>8. Typed(behind) /\ b \in DOMAIN behind.mem
  BY <1>7 DEF SamePhys
<1>9. /\ Wrote(behind, r, b, Size(behind, b), FALSE, NextPhys(behind, b),
               PrevPhys(behind, b), NULL, NULL)
      /\ SameHead(behind, r) /\ SameLast(behind, r)
  BY <1>4, <1>8, Unlinked
<1> QED BY <1>6, <1>7, <1>9 DEF Removed, Wrote, SamePhys, SameHead, SameLast

\* first_phys_block and the break.
LEMMA FirstSet ==
  ASSUME NEW h, Typed(h), NEW v,
         NEW r, r = [h EXCEPT !.first_phys_block = v]
  PROVE  /\ Typed(r) /\ r.mem = h.mem /\ r.bytes = h.bytes /\ r.brk = h.brk
         /\ r.free_list_head = h.free_list_head /\ r.first_phys_block = v
         /\ r.last_phys_block = h.last_phys_block
<1>1. r = Heap(h.mem, h.bytes, h.free_list_head, v, h.last_phys_block, h.brk)
  BY DEF Heap, Typed
<1>2. /\ Typed(r) /\ r.mem = h.mem /\ r.bytes = h.bytes /\ r.brk = h.brk
      /\ r.free_list_head = h.free_list_head /\ r.first_phys_block = v
      /\ r.last_phys_block = h.last_phys_block
  BY <1>1, HeapMembers DEF Typed
<1> QED BY <1>2, Zenon

\* The break alone.
LEMMA BrkSet ==
  ASSUME NEW h, Typed(h), NEW v,
         NEW r, r = [h EXCEPT !.brk = v]
  PROVE  /\ Typed(r) /\ r.mem = h.mem /\ r.bytes = h.bytes /\ r.brk = v
         /\ r.free_list_head = h.free_list_head
         /\ r.first_phys_block = h.first_phys_block
         /\ r.last_phys_block = h.last_phys_block
<1>1. r = Heap(h.mem, h.bytes, h.free_list_head, h.first_phys_block,
               h.last_phys_block, v)
  BY DEF Heap, Typed
<1>2. /\ Typed(r) /\ r.mem = h.mem /\ r.bytes = h.bytes /\ r.brk = v
      /\ r.free_list_head = h.free_list_head
      /\ r.first_phys_block = h.first_phys_block
      /\ r.last_phys_block = h.last_phys_block
  BY <1>1, HeapMembers DEF Typed
<1> QED BY <1>2, Zenon

\* Merging a block into the one before it.
Absorbed(h, r, b, after, n) ==
  /\ Typed(r) /\ SameFree(h, r, DOMAIN h.mem)
  /\ DOMAIN r.mem = DOMAIN h.mem /\ r.bytes = h.bytes /\ r.brk = h.brk
  /\ r.first_phys_block = h.first_phys_block
  /\ r.last_phys_block = IF after = NULL THEN b ELSE h.last_phys_block
  /\ \A x \in DOMAIN h.mem :
       /\ Size(r, x) = IF x = b THEN n ELSE Size(h, x)
       /\ NextPhys(r, x) = IF x = b THEN after ELSE NextPhys(h, x)
       /\ PrevPhys(r, x) = IF x = after THEN b ELSE PrevPhys(h, x)

\* Merging changes the first block, and the back pointer of the one after both.
LEMMA AbsorbGives ==
  ASSUME NEW h, Typed(h), NEW b \in DOMAIN h.mem, b \in Nat,
         NEW next \in DOMAIN h.mem,
         NEW after \in Nat, after = NextPhys(h, next), after # b,
         after # NULL => after \in DOMAIN h.mem,
         NEW n \in Nat, n = Word(Size(h, b) + Hdr + Size(h, next)),
         NEW r, r = Absorb(h, b, next)
  PROVE  Absorbed(h, r, b, after, n)
<1>1. /\ after = h.mem[next].next_phys
      /\ n = Word(h.mem[b].size + Hdr + h.mem[next].size)
  BY DEF NextPhys, Size
<1>2. PICK grown : grown = [h EXCEPT !.mem[b].size = n, !.mem[b].next_phys = after]
  OBVIOUS
<1>3. r = IF after = NULL THEN [grown EXCEPT !.last_phys_block = b]
          ELSE [grown EXCEPT !.mem[after].prev_phys = b]
  BY <1>1, <1>2, Zenon DEF Absorb
<1>4. /\ Wrote(h, grown, b, n, FreeFlag(h, b), after, PrevPhys(h, b),
               NextFree(h, b), PrevFree(h, b))
      /\ SameHead(h, grown) /\ SameLast(h, grown)
  BY <1>2, Grown
<1>5. NULL \notin DOMAIN h.mem
  BY DEF Typed, MemTyped
<1>6. CASE after = NULL
  <2>1. r = [grown EXCEPT !.last_phys_block = b]
    BY <1>3, <1>6, Zenon
  <2>2. Typed(grown)
    BY <1>4 DEF Wrote
  <2>3. /\ Typed(r) /\ r.mem = grown.mem /\ r.bytes = grown.bytes
        /\ r.brk = grown.brk /\ r.free_list_head = grown.free_list_head
        /\ r.last_phys_block = b /\ r.first_phys_block = grown.first_phys_block
    BY <2>1, <2>2, LastSet
  <2> QED BY <1>4, <1>5, <1>6, <2>3
       DEF Absorbed, Wrote, SameFree, SameHead, Size, FreeFlag, NextPhys, PrevPhys,
           NextFree, PrevFree
<1>7. CASE after # NULL
  <2>1. r = [grown EXCEPT !.mem[after].prev_phys = b]
    BY <1>3, <1>7, Zenon
  <2>2. Typed(grown) /\ after \in DOMAIN grown.mem
    BY <1>4, <1>7 DEF Wrote
  <2>3. /\ Wrote(grown, r, after, Size(grown, after), FreeFlag(grown, after),
                 NextPhys(grown, after), b, NextFree(grown, after),
                 PrevFree(grown, after))
        /\ SameHead(grown, r) /\ SameLast(grown, r)
    BY <2>1, <2>2, PrevPhysSet
  <2> QED BY <1>4, <1>7, <2>3 DEF Absorbed, Wrote, SameFree, SameHead, SameLast
<1> QED BY <1>6, <1>7

-----------------------------------------------------------------------------
\* The bytes of memory from p on.
Stretch(p, n) == p..p + n - 1

\* A write to memory loses the headers it overlaps, and no others.
LEMMA WriteBytesGives ==
  ASSUME NEW h, Typed(h), NEW p, NEW n, NEW f, NEW r, r = WriteBytes(h, p, n, f)
  PROVE  /\ Typed(r) /\ r.brk = h.brk /\ r.free_list_head = h.free_list_head
         /\ r.first_phys_block = h.first_phys_block
         /\ r.last_phys_block = h.last_phys_block
         /\ DOMAIN r.mem = {b \in DOMAIN h.mem : b + Hdr <= p \/ p + n <= b}
         /\ \A b \in DOMAIN r.mem : r.mem[b] = h.mem[b]
         /\ \A a \in BrkStart..BrkLimit - 1 :
              ByteAt(r, a) = IF a \in Stretch(p, n) THEN f[a - p + 1] ELSE ByteAt(h, a)
<1>1. PICK kept : kept = {b \in DOMAIN h.mem : b + Hdr <= p \/ p + n <= b}
  OBVIOUS
<1>2. PICK mem : mem = [b \in kept |-> h.mem[b]]
  OBVIOUS
<1>3. PICK bytes : bytes = [a \in DOMAIN h.bytes |->
                              IF a \in p..p + n - 1 THEN f[a - p + 1] ELSE h.bytes[a]]
  OBVIOUS
<1>4. r = [h EXCEPT !.mem = mem, !.bytes = bytes]
  BY <1>1, <1>2, <1>3, Zenon DEF WriteBytes
<1>5. r = Heap(mem, bytes, h.free_list_head, h.first_phys_block,
               h.last_phys_block, h.brk)
  BY <1>4 DEF Typed, Heap
<1>6. DOMAIN h.bytes = BrkStart..BrkLimit - 1
  BY DEF Typed, BytesTyped
<1>7. BytesTyped(bytes) /\ DOMAIN bytes = DOMAIN h.bytes
  BY <1>3, <1>6 DEF BytesTyped
<1>8. MemTyped(mem) /\ DOMAIN mem = kept
  <2>1. kept \subseteq DOMAIN h.mem
    BY <1>1
  <2>2. IsFiniteSet(kept)
    BY <2>1, FS_Subset DEF Typed, MemTyped
  <2>3. mem \in [kept -> BlockHeader] /\ DOMAIN mem = kept
    BY <1>2, <2>1 DEF Typed, MemTyped
  <2> QED BY <2>1, <2>2, <2>3 DEF Typed, MemTyped
<1>9. /\ r.mem = mem /\ r.bytes = bytes /\ r.free_list_head = h.free_list_head
      /\ r.first_phys_block = h.first_phys_block
      /\ r.last_phys_block = h.last_phys_block /\ r.brk = h.brk /\ Typed(r)
  BY <1>5, <1>7, <1>8, HeapMembers
<1>10. \A a \in BrkStart..BrkLimit - 1 :
         ByteAt(r, a) = IF a \in Stretch(p, n) THEN f[a - p + 1] ELSE ByteAt(h, a)
  BY <1>3, <1>6, <1>7, <1>9, Zenon DEF ByteAt, Stretch
<1>11. \A b \in DOMAIN r.mem : r.mem[b] = h.mem[b]
  BY <1>2, <1>8, <1>9, Zenon
<1> QED BY <1>1, <1>8, <1>9, <1>10, <1>11, Zenon

\* A new header H at b.
HeaderWritten(h, r, b, H) ==
  /\ Typed(r) /\ r.brk = h.brk /\ r.free_list_head = h.free_list_head
  /\ r.first_phys_block = h.first_phys_block
  /\ r.last_phys_block = h.last_phys_block
  /\ DOMAIN r.mem = {x \in DOMAIN h.mem : x + Hdr <= b \/ b + Hdr <= x} \cup {b}
  /\ r.mem[b] = H
  /\ \A x \in DOMAIN r.mem : x # b => r.mem[x] = h.mem[x]
  /\ \A a \in BrkStart..BrkLimit - 1 :
       a \notin Stretch(b, Hdr) => ByteAt(r, a) = ByteAt(h, a)

\* A header that is written anew, over what was there.
LEMMA WriteHeaderGives ==
  ASSUME NEW h, Typed(h), NEW b, b # NULL, NEW H \in BlockHeader,
         NEW r, r = WriteHeader(h, b, H)
  PROVE  HeaderWritten(h, r, b, H)
<1>1. PICK f : f = [i \in 1..Hdr |-> Junk]
  OBVIOUS
<1>2. PICK c : c = WriteBytes(h, b, Hdr, f)
  OBVIOUS
<1>3. /\ Typed(c) /\ c.brk = h.brk /\ c.free_list_head = h.free_list_head
      /\ c.first_phys_block = h.first_phys_block
      /\ c.last_phys_block = h.last_phys_block
      /\ DOMAIN c.mem = {x \in DOMAIN h.mem : x + Hdr <= b \/ b + Hdr <= x}
      /\ \A x \in DOMAIN c.mem : c.mem[x] = h.mem[x]
      /\ \A a \in BrkStart..BrkLimit - 1 :
           ByteAt(c, a) = IF a \in Stretch(b, Hdr) THEN f[a - b + 1] ELSE ByteAt(h, a)
  BY <1>2, WriteBytesGives
<1>4. PICK mem : mem = [x \in DOMAIN c.mem \cup {b} |-> IF x = b THEN H ELSE c.mem[x]]
  OBVIOUS
<1>5. r = [c EXCEPT !.mem = mem]
  BY <1>1, <1>2, <1>4, Zenon DEF WriteHeader
<1>6. r = Heap(mem, c.bytes, c.free_list_head, c.first_phys_block,
               c.last_phys_block, c.brk)
  BY <1>3, <1>5 DEF Typed, Heap
<1>7. MemTyped(mem) /\ DOMAIN mem = DOMAIN c.mem \cup {b}
  <2>1. MemTyped(c.mem)
    BY <1>3 DEF Typed
  <2>2. IsFiniteSet(DOMAIN c.mem \cup {b})
    BY <2>1, FS_AddElement DEF MemTyped
  <2>3. mem \in [DOMAIN c.mem \cup {b} -> BlockHeader]
    BY <1>4, <2>1 DEF MemTyped
  <2>4. DOMAIN mem = DOMAIN c.mem \cup {b}
    BY <1>4
  <2> QED BY <2>1, <2>2, <2>3, <2>4 DEF MemTyped
<1>8. /\ r.mem = mem /\ r.bytes = c.bytes /\ r.free_list_head = c.free_list_head
      /\ r.first_phys_block = c.first_phys_block
      /\ r.last_phys_block = c.last_phys_block /\ r.brk = c.brk /\ Typed(r)
  BY <1>3, <1>6, <1>7, HeapMembers DEF Typed
<1>9. r.mem[b] = H /\ \A x \in DOMAIN r.mem : x # b => r.mem[x] = h.mem[x]
  BY <1>3, <1>4, <1>7, <1>8
<1>10. \A a \in BrkStart..BrkLimit - 1 :
         a \notin Stretch(b, Hdr) => ByteAt(r, a) = ByteAt(h, a)
  BY <1>3, <1>8, Zenon DEF ByteAt
<1> QED BY <1>3, <1>7, <1>8, <1>9, <1>10, Zenon DEF HeaderWritten

-----------------------------------------------------------------------------
(***************************************************************************)
(* The free list.                                                          *)
(***************************************************************************)
\* The blocks of S form the free list; rank grows along it.
Linked(h, S, rank) ==
  LET head == h.free_list_head IN
  /\ S \subseteq DOMAIN h.mem
  /\ head # NULL => head \in S /\ PrevFree(h, head) = NULL
  /\ \A x \in S : NextFree(h, x) # NULL =>
       NextFree(h, x) \in S /\ PrevFree(h, NextFree(h, x)) = x
  /\ \A x \in S : PrevFree(h, x) = NULL => x = head
  /\ \A x \in S : PrevFree(h, x) # NULL =>
       /\ PrevFree(h, x) \in S /\ NextFree(h, PrevFree(h, x)) = x
       /\ rank[PrevFree(h, x)] < rank[x]
  /\ \A x \in S : rank[x] \in Nat

OnFreeList(h, S) == \E rank : Linked(h, S, rank)

\* The flags of the blocks X say which of them are in S.
Flags(h, X, S) == \A x \in X : FreeFlag(h, x) <=> x \in S

\* insert_free_block puts the block on the free list: its rank is the lowest.
LEMMA InsertLinks ==
  ASSUME NEW h, Typed(h), NEW S, OnFreeList(h, S),
         NEW b \in DOMAIN h.mem, b \notin S, b \in Nat,
         h.free_list_head \in Nat,
         NEW X, Flags(h, X \ {b}, S), X \subseteq DOMAIN h.mem,
         NEW r, r = InsertFreeBlock(h, b)
  PROVE  SamePhys(h, r) /\ OnFreeList(r, S \cup {b}) /\ Flags(r, X, S \cup {b})
         /\ r.free_list_head = b
<1>1. PICK rank : Linked(h, S, rank)
  BY DEF OnFreeList
<1>2. PICK head \in Nat : head = h.free_list_head
  OBVIOUS
<1>3. /\ head # b /\ (head # NULL => head \in DOMAIN h.mem)
      /\ NULL \notin DOMAIN h.mem /\ S \subseteq DOMAIN h.mem
  BY <1>1, <1>2 DEF Linked, Typed, MemTyped
<1>4. /\ SamePhys(h, r) /\ r.free_list_head = b
      /\ \A x \in DOMAIN h.mem :
           /\ FreeFlag(r, x) = IF x = b THEN TRUE ELSE FreeFlag(h, x)
           /\ NextFree(r, x) = IF x = b THEN head ELSE NextFree(h, x)
           /\ PrevFree(r, x) = IF x = b THEN NULL
                               ELSE IF x = head THEN b ELSE PrevFree(h, x)
  <2>1. Inserted(h, r, b, head)
    BY <1>2, <1>3, InsertGives
  <2> QED BY <2>1 DEF Inserted
<1>5. PICK new : new = [x \in S \cup {b} |-> IF x = b THEN 0 ELSE rank[x] + 1]
  OBVIOUS
<1>6. Linked(r, S \cup {b}, new)
  <2>1. S \cup {b} \subseteq DOMAIN r.mem
    BY <1>3, <1>4 DEF SamePhys
  <2>2. \A x \in S \cup {b} : new[x] \in Nat
    BY <1>1, <1>5 DEF Linked
  <2>3. ASSUME NEW x \in S \cup {b}, NextFree(r, x) # NULL
        PROVE  NextFree(r, x) \in S \cup {b} /\ PrevFree(r, NextFree(r, x)) = x
    <3>1. CASE x = b
      BY <1>1, <1>2, <1>3, <1>4, <2>3, <3>1 DEF Linked
    <3>2. CASE x # b
      <4>1. NextFree(r, x) = NextFree(h, x) /\ x \in S
        BY <1>3, <1>4, <3>2
      <4>2. NextFree(h, x) \in S /\ PrevFree(h, NextFree(h, x)) = x
        BY <1>1, <2>3, <4>1 DEF Linked
      <4>3. NextFree(h, x) # head
        BY <1>1, <1>2, <1>3, <4>1, <4>2 DEF Linked
      <4> QED BY <1>3, <1>4, <4>1, <4>2, <4>3
    <3> QED BY <3>1, <3>2
  <2>4. ASSUME NEW x \in S \cup {b}, PrevFree(r, x) = NULL PROVE x = b
    <3>1. SUFFICES ASSUME x # b PROVE FALSE
      OBVIOUS
    <3>2. x # head /\ PrevFree(h, x) = NULL
      BY <1>3, <1>4, <2>4, <3>1
    <3> QED BY <1>1, <1>2, <3>1, <3>2 DEF Linked
  <2>5. ASSUME NEW x \in S \cup {b}, PrevFree(r, x) # NULL
        PROVE  /\ PrevFree(r, x) \in S \cup {b} /\ NextFree(r, PrevFree(r, x)) = x
               /\ new[PrevFree(r, x)] < new[x]
    <3>1. x # b /\ x \in S
      BY <1>3, <1>4, <2>5
    <3>2. CASE x = head
      <4>1. PrevFree(r, x) = b /\ NextFree(r, b) = x
        BY <1>3, <1>4, <3>1, <3>2
      <4>2. new[b] = 0 /\ new[x] = rank[x] + 1 /\ rank[x] \in Nat
        BY <1>1, <1>5, <3>1 DEF Linked
      <4> QED BY <4>1, <4>2
    <3>3. CASE x # head
      <4>1. PrevFree(r, x) = PrevFree(h, x)
        BY <1>3, <1>4, <3>1, <3>3
      <4>2. PICK y : y = PrevFree(h, x)
        OBVIOUS
      <4>3. y \in S /\ NextFree(h, y) = x /\ rank[y] < rank[x]
        BY <1>1, <2>5, <3>1, <4>1, <4>2 DEF Linked
      <4>4. NextFree(r, y) = x
        BY <1>3, <1>4, <4>3
      <4>5. /\ new[y] = rank[y] + 1 /\ new[x] = rank[x] + 1
            /\ rank[y] \in Nat /\ rank[x] \in Nat
        BY <1>1, <1>5, <3>1, <4>3 DEF Linked
      <4> QED BY <4>1, <4>2, <4>3, <4>4, <4>5
    <3> QED BY <3>2, <3>3
  <2>6. PrevFree(r, b) = NULL
    BY <1>4
  <2> QED BY <1>4, <2>1, <2>2, <2>3, <2>4, <2>5, <2>6 DEF Linked
<1>7. Flags(r, X, S \cup {b})
  BY <1>4 DEF Flags
<1> QED BY <1>4, <1>6, <1>7 DEF OnFreeList

\* remove_free_block takes the block off the free list and leaves the rest on it.
LEMMA RemoveUnlinks ==
  ASSUME NEW h, Typed(h), NEW S, OnFreeList(h, S), NEW b \in S,
         NEW X, Flags(h, X, S), X \subseteq DOMAIN h.mem,
         NEW r, r = RemoveFreeBlock(h, b)
  PROVE  SamePhys(h, r) /\ OnFreeList(r, S \ {b}) /\ Flags(r, X, S \ {b})
<1>1. PICK rank : Linked(h, S, rank)
  BY DEF OnFreeList
<1>2. /\ b \in DOMAIN h.mem /\ NULL \notin DOMAIN h.mem /\ S \subseteq DOMAIN h.mem
  BY <1>1 DEF Linked, Typed, MemTyped
<1>3. PICK prev \in Nat, next \in Nat : prev = PrevFree(h, b) /\ next = NextFree(h, b)
  BY <1>2, HeaderTyped
<1>4. /\ prev # NULL => prev \in S /\ NextFree(h, prev) = b /\ rank[prev] < rank[b]
      /\ next # NULL => next \in S /\ PrevFree(h, next) = b
      /\ rank[b] \in Nat /\ (prev = NULL => b = h.free_list_head)
  BY <1>1, <1>3 DEF Linked
<1>5. prev # b /\ next # b /\ (next # NULL => rank[b] < rank[next])
  <2>1. prev # b
    BY <1>2, <1>4
  <2>2. next # NULL => rank[b] < rank[next]
    BY <1>1, <1>2, <1>4 DEF Linked
  <2>3. next # b
    BY <1>2, <1>4, <2>2
  <2> QED BY <2>1, <2>2, <2>3
<1>6. /\ prev # NULL => prev \in DOMAIN h.mem
      /\ next # NULL => next \in DOMAIN h.mem
  BY <1>2, <1>4
<1>7. /\ SamePhys(h, r)
      /\ r.free_list_head = IF prev = NULL THEN next ELSE h.free_list_head
      /\ \A x \in DOMAIN h.mem :
           /\ FreeFlag(r, x) = IF x = b THEN FALSE ELSE FreeFlag(h, x)
           /\ NextFree(r, x) = IF x = b THEN NULL
                               ELSE IF x = prev THEN next ELSE NextFree(h, x)
           /\ PrevFree(r, x) = IF x = b THEN NULL
                               ELSE IF x = next THEN prev ELSE PrevFree(h, x)
  <2>1. Removed(h, r, b, prev, next)
    BY <1>2, <1>3, <1>5, <1>6, RemoveGives
  <2> QED BY <2>1 DEF Removed
<1>8. Linked(r, S \ {b}, rank)
  <2>1. S \ {b} \subseteq DOMAIN r.mem
    BY <1>2, <1>7 DEF SamePhys
  <2>2. \A x \in S \ {b} : rank[x] \in Nat
    BY <1>1 DEF Linked
  <2>3. ASSUME NEW x \in S \ {b}, NextFree(r, x) # NULL
        PROVE  NextFree(r, x) \in S \ {b} /\ PrevFree(r, NextFree(r, x)) = x
    <3>1. CASE x = prev
      <4>1. NextFree(r, x) = next
        BY <1>2, <1>7, <3>1
      <4> QED BY <1>2, <1>4, <1>5, <1>7, <2>3, <3>1, <4>1
    <3>2. CASE x # prev
      <4>1. NextFree(r, x) = NextFree(h, x)
        BY <1>2, <1>7, <3>2
      <4>2. PICK y : y = NextFree(h, x)
        OBVIOUS
      <4>3. y \in S /\ PrevFree(h, y) = x
        BY <1>1, <2>3, <4>1, <4>2 DEF Linked
      <4>4. y # b /\ y # next
        BY <1>2, <1>3, <1>4, <3>2, <4>3
      <4> QED BY <1>2, <1>7, <4>1, <4>2, <4>3, <4>4
    <3> QED BY <3>1, <3>2
  <2>4. ASSUME NEW x \in S \ {b}, PrevFree(r, x) = NULL PROVE x = r.free_list_head
    <3>1. CASE x = next
      BY <1>2, <1>7, <2>4, <3>1
    <3>2. CASE x # next
      <4>1. PrevFree(h, x) = NULL
        BY <1>2, <1>7, <2>4, <3>2
      <4>2. x = h.free_list_head
        BY <1>1, <4>1 DEF Linked
      <4> QED BY <1>4, <1>7, <4>2
    <3> QED BY <3>1, <3>2
  <2>5. ASSUME NEW x \in S \ {b}, PrevFree(r, x) # NULL
        PROVE  /\ PrevFree(r, x) \in S \ {b} /\ NextFree(r, PrevFree(r, x)) = x
               /\ rank[PrevFree(r, x)] < rank[x]
    <3>1. CASE x = next
      <4>1. PrevFree(r, x) = prev
        BY <1>2, <1>7, <3>1
      <4>2. prev \in S /\ prev # b /\ rank[prev] < rank[b] /\ rank[b] < rank[x]
        BY <1>2, <1>4, <1>5, <2>5, <3>1, <4>1
      <4>3. rank[prev] \in Nat /\ rank[b] \in Nat /\ rank[x] \in Nat
        BY <1>1, <4>2 DEF Linked
      <4>4. rank[prev] < rank[x]
        BY <4>2, <4>3
      <4>5. NextFree(r, prev) = x
        BY <1>2, <1>7, <3>1, <4>2
      <4> QED BY <4>1, <4>2, <4>4, <4>5
    <3>2. CASE x # next
      <4>1. PrevFree(r, x) = PrevFree(h, x)
        BY <1>2, <1>7, <3>2
      <4>2. PICK y : y = PrevFree(h, x)
        OBVIOUS
      <4>3. y \in S /\ NextFree(h, y) = x /\ rank[y] < rank[x]
        BY <1>1, <2>5, <4>1, <4>2 DEF Linked
      <4>4. y # b /\ y # prev
        BY <1>2, <1>3, <1>4, <3>2, <4>3
      <4> QED BY <1>2, <1>7, <4>1, <4>2, <4>3, <4>4
    <3> QED BY <3>1, <3>2
  <2>6. ASSUME r.free_list_head # NULL
        PROVE  r.free_list_head \in S \ {b} /\ PrevFree(r, r.free_list_head) = NULL
    <3>1. CASE prev = NULL
      BY <1>2, <1>4, <1>5, <1>7, <2>6, <3>1
    <3>2. CASE prev # NULL
      <4>1. PICK y : y = h.free_list_head
        OBVIOUS
      <4>2. y = r.free_list_head
        BY <1>7, <3>2, <4>1
      <4>3. y \in S /\ PrevFree(h, y) = NULL
        BY <1>1, <2>6, <4>1, <4>2 DEF Linked
      <4>4. y # b /\ y # next
        BY <1>2, <1>3, <1>4, <3>2, <4>3
      <4> QED BY <1>2, <1>7, <4>2, <4>3, <4>4
    <3> QED BY <3>1, <3>2
  <2> QED BY <2>1, <2>2, <2>3, <2>4, <2>5, <2>6 DEF Linked
<1>9. Flags(r, X, S \ {b})
  BY <1>7 DEF Flags
<1> QED BY <1>7, <1>8, <1>9 DEF OnFreeList

\* What is the same for the free list keeps it.
LEMMA SameFreeKeeps ==
  ASSUME NEW h, NEW r, NEW X, SameFree(h, r, X), NEW S, OnFreeList(h, S),
         S \subseteq X, X \subseteq DOMAIN r.mem, NEW Y, Flags(h, Y, S), Y \subseteq X
  PROVE  OnFreeList(r, S) /\ Flags(r, Y, S)
<1>1. PICK rank : Linked(h, S, rank)
  BY DEF OnFreeList
<1>2. /\ S \subseteq DOMAIN r.mem
      /\ \A x \in S : NextFree(r, x) = NextFree(h, x) /\ PrevFree(r, x) = PrevFree(h, x)
      /\ r.free_list_head = h.free_list_head
  BY <1>1 DEF Linked, SameFree
<1>3. Linked(r, S, rank)
  BY <1>1, <1>2 DEF Linked
<1>4. Flags(r, Y, S)
  BY DEF SameFree, Flags
<1> QED BY <1>3, <1>4 DEF OnFreeList

-----------------------------------------------------------------------------
(***************************************************************************)
(* The physical list.                                                      *)
(***************************************************************************)
\* Where the first block begins.
Start == RoundUp(BrkStart, Align)

\* The break has not crossed to the upper half of the addresses: until then the
\* blocks leave no gap.
Whole(h) == h.brk < Half \/ Half <= BrkStart

\* Block b has room among the blocks B.
Seated(h, B, b) ==
  /\ b \in Nat /\ Aligned(b) /\ Aligned(Size(h, b))
  /\ Start <= b /\ EndAt(h, b) <= h.brk
  /\ \A a \in B : a < b => EndAt(h, a) <= b

\* There is no block between b and next.
Adjacent(h, B, b, next) ==
  /\ next \in B /\ b < next
  /\ \A a \in B : b < a => next <= a
  /\ Whole(h) => EndAt(h, b) = next

\* There is no block behind b.
Outermost(h, B, b) ==
  /\ b = h.last_phys_block
  /\ \A a \in B : a <= b
  /\ Whole(h) => EndAt(h, b) = h.brk

\* The list goes on after b, and comes to b, as the memory does.
Ahead(h, B, b) ==
  /\ NextPhys(h, b) = NULL => Outermost(h, B, b)
  /\ NextPhys(h, b) # NULL => /\ Adjacent(h, B, b, NextPhys(h, b))
                              /\ PrevPhys(h, NextPhys(h, b)) = b

Behind(h, B, b) ==
  /\ PrevPhys(h, b) = NULL => b = h.first_phys_block
  /\ PrevPhys(h, b) # NULL => PrevPhys(h, b) \in B /\ NextPhys(h, PrevPhys(h, b)) = b

\* Block b has its place among the blocks B.
InPlace(h, B, b) == Seated(h, B, b) /\ Ahead(h, B, b) /\ Behind(h, B, b)

\* The blocks B fill the memory up to the break, in the order of the list, with
\* no gap as long as the break has not crossed.
Tiled(h, B) ==
  /\ Typed(h) /\ B \subseteq DOMAIN h.mem
  /\ h.brk \in BrkStart..BrkLimit
  /\ Aligned(h.brk) \/ (B = {} /\ h.brk = BrkStart)
  /\ B = {} => /\ h.first_phys_block = NULL /\ h.last_phys_block = NULL
               /\ Whole(h) => RoundUp(h.brk, Align) = Start
  /\ B # {} => /\ h.first_phys_block \in B /\ PrevPhys(h, h.first_phys_block) = NULL
               /\ Whole(h) => h.first_phys_block = Start
               /\ h.last_phys_block \in B /\ NextPhys(h, h.last_phys_block) = NULL
  /\ \A b \in B : InPlace(h, B, b)

\* What the numbers of a tiling are.
LEMMA TileNumbers ==
  ASSUME NEW h, NEW B, Tiled(h, B), NEW b \in B
  PROVE  /\ b \in Nat \ {0} /\ Size(h, b) \in Nat /\ EndAt(h, b) \in Nat
         /\ EndAt(h, b) = b + Hdr + Size(h, b) /\ b + Hdr <= EndAt(h, b)
         /\ b < EndAt(h, b) /\ EndAt(h, b) <= h.brk /\ h.brk <= BrkLimit
         /\ h.brk \in Nat /\ b \in DOMAIN h.mem
<1>1. b \in DOMAIN h.mem /\ InPlace(h, B, b) /\ h.brk \in BrkStart..BrkLimit
  BY DEF Tiled
<1>2. Size(h, b) \in Nat /\ b # NULL
  BY <1>1, HeaderTyped DEF Tiled, Typed, MemTyped
<1> QED BY <1>1, <1>2, LayoutAssumption, BreakAssumption DEF InPlace, Seated, EndAt, NULL

\* Headers that say the same of the blocks B make the same tiling.
LEMMA AlikeTiled ==
  ASSUME NEW h, NEW B, Tiled(h, B), NEW r, Typed(r), B \subseteq DOMAIN r.mem,
         r.brk = h.brk, r.first_phys_block = h.first_phys_block,
         r.last_phys_block = h.last_phys_block,
         \A x \in B : /\ Size(r, x) = Size(h, x) /\ NextPhys(r, x) = NextPhys(h, x)
                      /\ PrevPhys(r, x) = PrevPhys(h, x)
  PROVE  Tiled(r, B) /\ \A x \in B : EndAt(r, x) = EndAt(h, x)
<1>1. /\ Typed(r) /\ B \subseteq DOMAIN r.mem /\ r.brk = h.brk
      /\ r.first_phys_block = h.first_phys_block
      /\ r.last_phys_block = h.last_phys_block
      /\ \A x \in B : /\ Size(r, x) = Size(h, x) /\ NextPhys(r, x) = NextPhys(h, x)
                      /\ PrevPhys(r, x) = PrevPhys(h, x)
  OBVIOUS
<1>2. \A x \in B : EndAt(r, x) = EndAt(h, x)
  BY <1>1 DEF EndAt
<1>3. Whole(r) <=> Whole(h)
  BY <1>1 DEF Whole
<1>4. ASSUME NEW b \in B PROVE InPlace(r, B, b)
  <2>1. Seated(h, B, b) /\ Ahead(h, B, b) /\ Behind(h, B, b)
    BY DEF Tiled, InPlace
  <2>2. Seated(r, B, b)
    BY <1>1, <1>2, <2>1 DEF Seated
  <2>3. Ahead(r, B, b)
    <3>1. NextPhys(r, b) = NextPhys(h, b) /\ EndAt(r, b) = EndAt(h, b)
      BY <1>1, <1>2
    <3>2. CASE NextPhys(h, b) = NULL
      BY <1>1, <1>3, <2>1, <3>1, <3>2 DEF Ahead, Outermost
    <3>3. CASE NextPhys(h, b) # NULL
      <4>1. Adjacent(h, B, b, NextPhys(h, b)) /\ PrevPhys(h, NextPhys(h, b)) = b
        BY <2>1, <3>3 DEF Ahead
      <4>2. Adjacent(r, B, b, NextPhys(h, b))
        BY <1>3, <3>1, <4>1 DEF Adjacent
      <4>3. PrevPhys(r, NextPhys(h, b)) = b
        BY <1>1, <4>1 DEF Adjacent
      <4> QED BY <3>1, <3>3, <4>2, <4>3 DEF Ahead
    <3> QED BY <3>2, <3>3
  <2>4. Behind(r, B, b)
    BY <1>1, <2>1 DEF Behind
  <2> QED BY <2>2, <2>3, <2>4 DEF InPlace
<1>5. \A b \in B : InPlace(r, B, b)
  BY <1>4
<1>6. /\ Typed(r) /\ B \subseteq DOMAIN r.mem /\ r.brk \in BrkStart..BrkLimit
      /\ Aligned(r.brk) \/ (B = {} /\ r.brk = BrkStart)
  BY <1>1 DEF Tiled
<1>7. B = {} => /\ r.first_phys_block = NULL /\ r.last_phys_block = NULL
                /\ Whole(r) => RoundUp(r.brk, Align) = Start
  BY <1>1, <1>3 DEF Tiled
<1>8. B # {} => /\ r.first_phys_block \in B /\ PrevPhys(r, r.first_phys_block) = NULL
                /\ Whole(r) => r.first_phys_block = Start
                /\ r.last_phys_block \in B /\ NextPhys(r, r.last_phys_block) = NULL
  BY <1>1, <1>3 DEF Tiled
<1> QED BY <1>2, <1>5, <1>6, <1>7, <1>8 DEF Tiled

\* What leaves the physical list alone leaves the tiling alone.
LEMMA SamePhysTiled ==
  ASSUME NEW h, NEW B, Tiled(h, B), NEW r, SamePhys(h, r)
  PROVE  Tiled(r, B) /\ \A x \in B : EndAt(r, x) = EndAt(h, x)
<1>1. /\ Typed(r) /\ B \subseteq DOMAIN r.mem /\ r.brk = h.brk
      /\ r.first_phys_block = h.first_phys_block
      /\ r.last_phys_block = h.last_phys_block
      /\ \A x \in B : /\ Size(r, x) = Size(h, x) /\ NextPhys(r, x) = NextPhys(h, x)
                      /\ PrevPhys(r, x) = PrevPhys(h, x)
  BY DEF SamePhys, Tiled
<1> QED BY <1>1, AlikeTiled

\* Merging block b with the one after it.
Merged(h, r, B, b, next) ==
  /\ Tiled(r, B \ {next}) /\ SameFree(h, r, DOMAIN h.mem)
  /\ DOMAIN r.mem = DOMAIN h.mem /\ r.bytes = h.bytes /\ r.brk = h.brk
  /\ Size(r, b) = Size(h, b) + Hdr + Size(h, next)
  /\ \A x \in B \ {b} : Size(r, x) = Size(h, x)

\* The next block of the list is the next one in memory, and begins where the
\* other ends or behind that.
LEMMA NextInPlace ==
  ASSUME NEW h, NEW B, Tiled(h, B), NEW b \in B,
         NEW next, next = NextPhys(h, b), next # NULL
  PROVE  /\ next \in B /\ PrevPhys(h, next) = b /\ b < next
         /\ EndAt(h, b) <= next
         /\ Whole(h) => EndAt(h, b) = next
         /\ \A a \in B : b < a => next <= a
<1>1. InPlace(h, B, b)
  BY DEF Tiled
<1>2. Adjacent(h, B, b, next) /\ PrevPhys(h, next) = b
  BY <1>1 DEF InPlace, Ahead
<1>3. InPlace(h, B, next)
  BY <1>2 DEF Adjacent, Tiled
<1>4. EndAt(h, b) <= next
  BY <1>2, <1>3 DEF Adjacent, InPlace, Seated
<1> QED BY <1>2, <1>4 DEF Adjacent

\* Merging a block with the next one leaves a tiling without the next one.
LEMMA AbsorbTiles ==
  ASSUME NEW h, NEW B, Tiled(h, B), NEW b \in B,
         NEW next, next = NextPhys(h, b), next # NULL,
         NEW r, r = Absorb(h, b, next)
  PROVE  Merged(h, r, B, b, next)
<1>1. /\ next \in B /\ PrevPhys(h, next) = b /\ b < next
      /\ EndAt(h, b) <= next
      /\ Whole(h) => EndAt(h, b) = next
      /\ \A a \in B : b < a => next <= a
  BY NextInPlace
<1>2. /\ b \in Nat /\ b \in DOMAIN h.mem /\ Size(h, b) \in Nat
      /\ EndAt(h, b) = b + Hdr + Size(h, b) /\ b # NULL
      /\ next \in Nat /\ next \in DOMAIN h.mem /\ Size(h, next) \in Nat
      /\ EndAt(h, next) = next + Hdr + Size(h, next) /\ next < EndAt(h, next)
      /\ EndAt(h, next) <= h.brk /\ h.brk <= BrkLimit /\ h.brk \in Nat
      /\ EndAt(h, next) \in Nat
  BY <1>1, TileNumbers DEF NULL
<1>3. PICK end \in Nat : end = EndAt(h, b) + Hdr + Size(h, next)
  BY <1>2, LayoutAssumption
<1>4. PICK after : after = NextPhys(h, next)
  OBVIOUS
<1>5. /\ Seated(h, B, next) /\ Ahead(h, B, next)
      /\ Seated(h, B, b) /\ Behind(h, B, b)
  BY <1>1 DEF Tiled, InPlace
<1>6. /\ end <= EndAt(h, next) /\ b < end
      /\ Whole(h) => end = EndAt(h, next)
  <2>1. PICK first \in Nat : first = EndAt(h, b)
    BY <1>2, LayoutAssumption
  <2>2. /\ first <= next /\ b < first /\ end = first + Hdr + Size(h, next)
        /\ EndAt(h, next) = next + Hdr + Size(h, next) /\ Hdr \in Nat \ {0}
    BY <1>1, <1>2, <1>3, <2>1, LayoutAssumption
  <2>3. end <= EndAt(h, next) /\ b < end
    BY <1>2, <2>2
  <2>4. Whole(h) => first = next
    BY <1>1, <2>1
  <2> QED BY <1>2, <2>2, <2>3, <2>4
<1>7. /\ after \in Nat /\ after # b /\ after # next
      /\ after # NULL => /\ after \in DOMAIN h.mem /\ after \in B /\ next < after
                         /\ PrevPhys(h, after) = next
                         /\ Whole(h) => EndAt(h, next) = after
                         /\ \A a \in B : next < a => after <= a
      /\ after = NULL => Outermost(h, B, next)
  <2>1. CASE after = NULL
    BY <1>1, <1>2, <1>4, <1>5, <2>1 DEF Ahead, NULL
  <2>2. CASE after # NULL
    <3>1. Adjacent(h, B, next, after) /\ PrevPhys(h, after) = next
      BY <1>4, <1>5, <2>2 DEF Ahead
    <3>2. after \in B /\ next < after
      BY <3>1 DEF Adjacent
    <3>3. after \in Nat /\ after \in DOMAIN h.mem
      BY <3>2, TileNumbers
    <3> QED BY <1>1, <1>2, <2>2, <3>1, <3>2, <3>3 DEF Adjacent
  <2> QED BY <2>1, <2>2
<1>8. PICK n \in Nat : n = Word(Size(h, b) + Hdr + Size(h, next))
                       /\ n = Size(h, b) + Hdr + Size(h, next)
  <2>1. Size(h, b) + Hdr + Size(h, next) \in 0..WordMod - 1
    BY <1>2, <1>3, <1>6, LayoutAssumption, BreakAssumption
  <2> QED BY <2>1, WordIs
<1>9. Absorbed(h, r, b, after, n)
  BY <1>2, <1>4, <1>7, <1>8, AbsorbGives DEF Tiled
<1>10. PICK C : C = B \ {next}
  OBVIOUS
<1>11. /\ Typed(r) /\ SameFree(h, r, DOMAIN h.mem)
       /\ DOMAIN r.mem = DOMAIN h.mem /\ r.bytes = h.bytes /\ r.brk = h.brk
       /\ r.first_phys_block = h.first_phys_block
       /\ r.last_phys_block = IF after = NULL THEN b ELSE h.last_phys_block
       /\ \A x \in B :
            /\ Size(r, x) = IF x = b THEN n ELSE Size(h, x)
            /\ NextPhys(r, x) = IF x = b THEN after ELSE NextPhys(h, x)
            /\ PrevPhys(r, x) = IF x = after THEN b ELSE PrevPhys(h, x)
  BY <1>9 DEF Absorbed, Tiled
<1>12. EndAt(r, b) = end /\ \A x \in B : x # b => EndAt(r, x) = EndAt(h, x)
  BY <1>1, <1>2, <1>3, <1>8, <1>11, LayoutAssumption DEF EndAt
<1>12a. Whole(r) <=> Whole(h)
  BY <1>11 DEF Whole
<1>13. b \in C /\ next \notin C /\ (\A x \in C : x \in B /\ x # next)
  BY <1>1, <1>2, <1>10
<1>14. InPlace(r, C, b)
  <2>1. Aligned(Size(r, b))
    <3>1. Aligned(Size(h, b)) /\ Aligned(Size(h, next))
      BY <1>5 DEF Seated
    <3>2. Aligned(Hdr)
      BY AlignedMod, LayoutAssumption
    <3>3. Aligned(Size(h, b) + Hdr)
      BY <1>2, <3>1, <3>2, AlignedSum, LayoutAssumption
    <3>4. Aligned(Size(h, b) + Hdr + Size(h, next))
      BY <1>2, <3>1, <3>3, AlignedSum, LayoutAssumption
    <3> QED BY <1>8, <1>11, <3>4
  <2>2. \A a \in C : a < b => EndAt(r, a) <= b
    BY <1>2, <1>5, <1>12, <1>13 DEF Seated
  <2>3. EndAt(r, b) <= r.brk /\ Aligned(b) /\ Start <= b /\ b \in Nat
    BY <1>2, <1>3, <1>5, <1>6, <1>11, <1>12 DEF Seated
  <2>4. Seated(r, C, b)
    BY <2>1, <2>2, <2>3 DEF Seated
  <2>5. Ahead(r, C, b)
    <3>1. NextPhys(r, b) = after
      BY <1>11
    <3>2. ASSUME NEW a \in C, b < a PROVE next < a
      <4>1. a \in B /\ a # next /\ next <= a
        BY <1>1, <1>13, <3>2
      <4>2. a \in Nat
        BY <4>1, TileNumbers
      <4> QED BY <1>2, <4>1, <4>2
    <3>3. CASE after = NULL
      <4>1. \A a \in C : a <= b
        <5>1. ASSUME NEW a \in C PROVE a <= b
          <6>1. a <= next /\ a \in Nat
            BY <1>7, <1>13, <3>3, TileNumbers DEF Outermost
          <6> QED BY <1>2, <3>2, <6>1
        <5> QED BY <5>1
      <4>2. Whole(h) => EndAt(h, next) = h.brk
        BY <1>7, <3>3 DEF Outermost
      <4> QED BY <1>6, <1>11, <1>12, <1>12a, <3>1, <3>3, <4>1, <4>2 DEF Ahead, Outermost
    <3>4. CASE after # NULL
      <4>1. after \in C /\ b < after /\ PrevPhys(r, after) = b
        BY <1>1, <1>2, <1>7, <1>10, <1>11, <3>4
      <4>2. \A a \in C : b < a => after <= a
        BY <1>7, <1>13, <3>2, <3>4
      <4>3. Whole(r) => EndAt(r, b) = after
        BY <1>6, <1>7, <1>12, <1>12a, <3>4
      <4>4. Adjacent(r, C, b, after)
        BY <4>1, <4>2, <4>3 DEF Adjacent
      <4> QED BY <3>1, <3>4, <4>1, <4>4 DEF Ahead
    <3> QED BY <3>3, <3>4
  <2>6. Behind(r, C, b)
    <3>1. PICK y : y = PrevPhys(h, b)
      OBVIOUS
    <3>2. PrevPhys(r, b) = y /\ r.first_phys_block = h.first_phys_block
      BY <1>7, <1>11, <3>1
    <3>3. CASE y = NULL
      BY <1>5, <3>1, <3>2, <3>3 DEF Behind
    <3>4. CASE y # NULL
      <4>1. y \in B /\ NextPhys(h, y) = b
        BY <1>5, <3>1, <3>4 DEF Behind
      <4>2. y # next /\ y # b
        BY <1>1, <1>2, <1>4, <1>7, <4>1
      <4> QED BY <1>10, <1>11, <3>2, <3>4, <4>1, <4>2 DEF Behind
    <3> QED BY <3>3, <3>4
  <2> QED BY <2>4, <2>5, <2>6 DEF InPlace
<1>15. ASSUME NEW x \in C, x # b PROVE InPlace(r, C, x)
  <2>1. /\ Seated(h, B, x) /\ Ahead(h, B, x) /\ Behind(h, B, x)
        /\ x \in B /\ x # next /\ x \in Nat \ {0}
    BY <1>13, TileNumbers DEF Tiled, InPlace
  <2>2. EndAt(r, x) = EndAt(h, x) /\ Size(r, x) = Size(h, x)
        /\ NextPhys(r, x) = NextPhys(h, x)
    BY <1>11, <1>12, <1>15, <2>1
  <2>3. ASSUME NEW a \in C, a < x PROVE EndAt(r, a) <= x
    <3>1. CASE a # b
      BY <1>12, <1>13, <2>1, <2>3, <3>1 DEF Seated
    <3>2. CASE a = b
      <4>1. next <= x
        BY <1>1, <2>1, <2>3, <3>2
      <4>2. next < x
        BY <1>2, <2>1, <4>1
      <4>3. EndAt(h, next) <= x
        BY <1>1, <2>1, <4>2 DEF Seated
      <4> QED BY <1>2, <1>6, <1>12, <2>1, <3>2, <4>3
    <3> QED BY <3>1, <3>2
  <2>4. Seated(r, C, x)
    BY <1>11, <2>1, <2>2, <2>3 DEF Seated
  <2>5. Ahead(r, C, x)
    <3>1. PICK y : y = NextPhys(h, x)
      OBVIOUS
    <3>2. CASE y = NULL
      <4>1. Outermost(h, B, x)
        BY <2>1, <3>1, <3>2 DEF Ahead
      <4>2. after # NULL
        BY <1>7, <2>1, <4>1 DEF Outermost
      <4>3. Outermost(r, C, x)
        BY <1>11, <1>12a, <1>13, <2>2, <4>1, <4>2 DEF Outermost
      <4> QED BY <2>2, <3>1, <3>2, <4>3 DEF Ahead
    <3>3. CASE y # NULL
      <4>1. Adjacent(h, B, x, y) /\ PrevPhys(h, y) = x /\ y \in B
        BY <2>1, <3>1, <3>3 DEF Ahead, Adjacent
      <4>2. y # next /\ y # after
        BY <1>1, <1>7, <1>15, <2>1, <3>3, <4>1
      <4>3. Adjacent(r, C, x, y)
        BY <1>10, <1>12a, <1>13, <2>2, <4>1, <4>2 DEF Adjacent
      <4>4. PrevPhys(r, y) = x
        BY <1>11, <4>1, <4>2
      <4> QED BY <2>2, <3>1, <3>3, <4>3, <4>4 DEF Ahead
    <3> QED BY <3>2, <3>3
  <2>6. Behind(r, C, x)
    <3>1. CASE x = after
      BY <1>2, <1>11, <1>13, <2>1, <3>1 DEF Behind
    <3>2. CASE x # after
      <4>1. PICK y : y = PrevPhys(h, x)
        OBVIOUS
      <4>2. PrevPhys(r, x) = y
        BY <1>11, <2>1, <3>2, <4>1
      <4>3. CASE y = NULL
        BY <1>11, <2>1, <4>1, <4>2, <4>3 DEF Behind
      <4>4. CASE y # NULL
        <5>1. y \in B /\ NextPhys(h, y) = x
          BY <2>1, <4>1, <4>4 DEF Behind
        <5>2. y # next /\ y # b
          BY <1>4, <2>1, <3>2, <5>1
        <5> QED BY <1>10, <1>11, <4>2, <4>4, <5>1, <5>2 DEF Behind
      <4> QED BY <4>3, <4>4
    <3> QED BY <3>1, <3>2
  <2> QED BY <2>4, <2>5, <2>6 DEF InPlace
<1>16. Tiled(r, C)
  <2>1. B # {}
    OBVIOUS
  <2>2. /\ h.first_phys_block \in B /\ PrevPhys(h, h.first_phys_block) = NULL
        /\ Whole(h) => h.first_phys_block = Start
        /\ h.last_phys_block \in B /\ NextPhys(h, h.last_phys_block) = NULL
        /\ Aligned(h.brk) /\ h.brk \in BrkStart..BrkLimit
    BY <2>1 DEF Tiled
  <2>3. /\ r.first_phys_block \in C /\ PrevPhys(r, r.first_phys_block) = NULL
        /\ Whole(r) => r.first_phys_block = Start
    <3>1. h.first_phys_block # next
      BY <1>1, <1>2, <2>2
    <3>2. h.first_phys_block # after
      <4>1. next # NULL
        OBVIOUS
      <4>2. h.first_phys_block # NULL
        BY <2>2, TileNumbers DEF NULL
      <4> QED BY <1>7, <2>2, <4>1, <4>2
    <3> QED BY <1>10, <1>11, <1>12a, <2>2, <3>1, <3>2
  <2>4. r.last_phys_block \in C /\ NextPhys(r, r.last_phys_block) = NULL
    <3>1. CASE after = NULL
      BY <1>11, <1>13, <3>1
    <3>2. CASE after # NULL
      <4>1. h.last_phys_block # next /\ h.last_phys_block # b
        BY <1>4, <2>2, <3>2
      <4> QED BY <1>10, <1>11, <2>2, <3>2, <4>1
    <3> QED BY <3>1, <3>2
  <2>5. C # {} /\ C \subseteq DOMAIN r.mem /\ r.brk \in BrkStart..BrkLimit
    BY <1>10, <1>11, <1>13, <2>2 DEF Tiled
  <2>6. \A x \in C : InPlace(r, C, x)
    BY <1>14, <1>15
  <2> QED BY <1>11, <2>2, <2>3, <2>4, <2>5, <2>6 DEF Tiled
<1> QED BY <1>8, <1>10, <1>11, <1>16 DEF Merged

-----------------------------------------------------------------------------
(***************************************************************************)
(* A sound heap: the blocks B tile the memory, and those of S are the free *)
(* ones, on the free list.                                                 *)
(***************************************************************************)
Sound(h, B, S) ==
  Tiled(h, B) /\ S \subseteq B /\ OnFreeList(h, S) /\ Flags(h, B, S)

\* A block that is marked free and listed makes a sound heap.
LEMMA InsertSound ==
  ASSUME NEW h, NEW B, Tiled(h, B), NEW S \in SUBSET B, OnFreeList(h, S),
         NEW b \in B, b \notin S, Flags(h, B \ {b}, S),
         NEW r, r = InsertFreeBlock(h, b)
  PROVE  SamePhys(h, r) /\ Sound(r, B, S \cup {b}) /\ r.free_list_head = b
<1>1. Typed(h) /\ B \subseteq DOMAIN h.mem /\ b \in DOMAIN h.mem /\ b \in Nat
  BY TileNumbers DEF Tiled
<1>2. h.free_list_head \in Nat
  <2>1. PICK rank : Linked(h, S, rank)
    BY DEF OnFreeList
  <2>2. h.free_list_head = NULL \/ h.free_list_head \in B
    BY <2>1 DEF Linked
  <2> QED BY <2>2, TileNumbers DEF NULL
<1>3. /\ SamePhys(h, r) /\ OnFreeList(r, S \cup {b}) /\ Flags(r, B, S \cup {b})
      /\ r.free_list_head = b
  BY <1>1, <1>2, InsertLinks
<1>4. Tiled(r, B)
  BY <1>3, SamePhysTiled
<1> QED BY <1>3, <1>4 DEF Sound

\* A block that is taken off the list and marked used leaves a sound heap.
LEMMA RemoveSound ==
  ASSUME NEW h, NEW B, NEW S, Sound(h, B, S), NEW b \in S,
         NEW r, r = RemoveFreeBlock(h, b)
  PROVE  SamePhys(h, r) /\ Sound(r, B, S \ {b})
<1>1. Typed(h) /\ B \subseteq DOMAIN h.mem /\ Tiled(h, B)
      /\ OnFreeList(h, S) /\ Flags(h, B, S) /\ S \subseteq B
  BY DEF Sound, Tiled
<1>2. SamePhys(h, r) /\ OnFreeList(r, S \ {b}) /\ Flags(r, B, S \ {b})
  BY <1>1, RemoveUnlinks
<1>3. Tiled(r, B)
  BY <1>1, <1>2, SamePhysTiled
<1> QED BY <1>1, <1>2, <1>3 DEF Sound

\* Merging a block with one that is not on the free list leaves a sound heap.
LEMMA AbsorbSound ==
  ASSUME NEW h, NEW B, NEW S, Sound(h, B, S), NEW b \in B,
         NEW next, next = NextPhys(h, b), next # NULL, next \notin S,
         NEW r, r = Absorb(h, b, next)
  PROVE  Merged(h, r, B, b, next) /\ Sound(r, B \ {next}, S)
<1>1. Tiled(h, B) /\ OnFreeList(h, S) /\ Flags(h, B, S) /\ S \subseteq B
      /\ B \subseteq DOMAIN h.mem
  BY DEF Sound, Tiled
<1>2. Merged(h, r, B, b, next)
  BY <1>1, AbsorbTiles
<1>3. /\ Tiled(r, B \ {next}) /\ SameFree(h, r, DOMAIN h.mem)
      /\ DOMAIN r.mem = DOMAIN h.mem
  BY <1>2 DEF Merged
<1>4. S \subseteq B \ {next} /\ Flags(h, B \ {next}, S)
      /\ S \subseteq DOMAIN h.mem /\ B \ {next} \subseteq DOMAIN h.mem
  BY <1>1 DEF Flags
<1>5. OnFreeList(r, S) /\ Flags(r, B \ {next}, S)
  BY <1>1, <1>3, <1>4, SameFreeKeeps
<1> QED BY <1>2, <1>3, <1>4, <1>5 DEF Sound

-----------------------------------------------------------------------------
(***************************************************************************)
(* What the program uses: the blocks U, and the bytes in them.             *)
(***************************************************************************)
\* Both heaps have the first n bytes of block b.
Kept(h, r, b, n) == \A a \in Stretch(b + Hdr, n) : ByteAt(r, a) = ByteAt(h, a)

Keeps(h, r, U) == \A x \in U : Size(r, x) = Size(h, x) /\ Kept(h, r, x, Size(h, x))

\* The blocks in use are those of U.
Usable(h, U) == \E B, S : Sound(h, B, S) /\ U = B \ S

\* What two steps keep, both together keep.
LEMMA KeepsThrough ==
  ASSUME NEW h, NEW r, NEW q, NEW U, Keeps(h, r, U), Keeps(r, q, U)
  PROVE  Keeps(h, q, U)
BY DEF Keeps, Kept

\* The same of one block.
LEMMA KeptThrough ==
  ASSUME NEW h, NEW r, NEW q, NEW b, NEW n, Kept(h, r, b, n), Kept(r, q, b, n)
  PROVE  Kept(h, q, b, n)
BY DEF Kept

\* Heaps with the same bytes agree on every block.
LEMMA SameBytes ==
  ASSUME NEW h, NEW r, r.bytes = h.bytes
  PROVE  \A b, n : Kept(h, r, b, n)
BY Zenon DEF Kept, ByteAt

\* Two blocks in use are apart.
LEMMA UsedApart ==
  ASSUME NEW h, NEW U, Usable(h, U), NEW x \in U
  PROVE  /\ x \in Nat \ {0} /\ Size(h, x) \in Nat /\ Start <= x /\ Aligned(x)
         /\ Aligned(Size(h, x))
         /\ EndAt(h, x) = x + Hdr + Size(h, x) /\ EndAt(h, x) <= BrkLimit
         /\ \A y \in U : y < x => EndAt(h, y) <= x
<1>1. PICK B, S : Sound(h, B, S) /\ U = B \ S
  BY DEF Usable
<1>2. Tiled(h, B) /\ U \subseteq B
  BY <1>1 DEF Sound
<1>3. InPlace(h, B, x) /\ x \in B
  BY <1>2 DEF Tiled
<1>4. /\ x \in Nat \ {0} /\ Size(h, x) \in Nat
      /\ EndAt(h, x) = x + Hdr + Size(h, x) /\ EndAt(h, x) \in Nat
      /\ EndAt(h, x) <= h.brk /\ h.brk <= BrkLimit /\ h.brk \in Nat
  BY <1>2, <1>3, TileNumbers
<1>5. EndAt(h, x) <= BrkLimit
  BY <1>4, BreakAssumption
<1> QED BY <1>2, <1>3, <1>4, <1>5 DEF InPlace, Seated

\* Writing into a block disturbs no header.
Payload(h, b, p, n) ==
  p \in Nat /\ n \in Nat /\ b + Hdr <= p /\ p + n <= EndAt(h, b)

\* A write inside the payload of a block leaves the heap sound.
LEMMA WriteSound ==
  ASSUME NEW h, NEW B, NEW S, Sound(h, B, S), NEW b \in B,
         NEW p, NEW n, Payload(h, b, p, n), NEW f,
         NEW r, r = WriteBytes(h, p, n, f)
  PROVE  /\ Sound(r, B, S) /\ \A x \in B : Size(r, x) = Size(h, x)
         /\ \A a \in BrkStart..BrkLimit - 1 :
              ByteAt(r, a) = IF a \in Stretch(p, n) THEN f[a - p + 1] ELSE ByteAt(h, a)
<1>1. Tiled(h, B) /\ OnFreeList(h, S) /\ Flags(h, B, S) /\ S \subseteq B
      /\ B \subseteq DOMAIN h.mem /\ Typed(h)
  BY DEF Sound, Tiled
<1>2. /\ Typed(r) /\ r.brk = h.brk /\ r.free_list_head = h.free_list_head
      /\ r.first_phys_block = h.first_phys_block
      /\ r.last_phys_block = h.last_phys_block
      /\ DOMAIN r.mem = {x \in DOMAIN h.mem : x + Hdr <= p \/ p + n <= x}
      /\ \A x \in DOMAIN r.mem : r.mem[x] = h.mem[x]
      /\ \A a \in BrkStart..BrkLimit - 1 :
           ByteAt(r, a) = IF a \in Stretch(p, n) THEN f[a - p + 1] ELSE ByteAt(h, a)
  BY <1>1, WriteBytesGives
<1>3. ASSUME NEW x \in B PROVE x \in DOMAIN r.mem
  <2>1. /\ InPlace(h, B, x) /\ InPlace(h, B, b)
    BY <1>1 DEF Tiled
  <2>2. x \in Nat /\ b \in Nat /\ EndAt(h, x) \in Nat /\ EndAt(h, b) \in Nat
        /\ x + Hdr <= EndAt(h, x) /\ x \in DOMAIN h.mem
    BY <1>1, TileNumbers
  <2>3. x < b => EndAt(h, x) <= b
    BY <2>1 DEF InPlace, Seated
  <2>4. b < x => EndAt(h, b) <= x
    BY <2>1 DEF InPlace, Seated
  <2>5. x + Hdr <= p \/ p + n <= x
    BY <2>2, <2>3, <2>4, LayoutAssumption DEF Payload
  <2> QED BY <1>2, <2>2, <2>5
<1>4. \A x \in B : /\ Size(r, x) = Size(h, x) /\ NextPhys(r, x) = NextPhys(h, x)
                   /\ PrevPhys(r, x) = PrevPhys(h, x)
                   /\ NextFree(r, x) = NextFree(h, x)
                   /\ PrevFree(r, x) = PrevFree(h, x)
                   /\ FreeFlag(r, x) = FreeFlag(h, x)
  BY <1>2, <1>3, Zenon DEF Size, NextPhys, PrevPhys, NextFree, PrevFree, FreeFlag
<1>5. B \subseteq DOMAIN r.mem
  BY <1>3
<1>7. Tiled(r, B)
  BY <1>1, <1>2, <1>4, <1>5, AlikeTiled
<1>8. SameFree(h, r, B)
  BY <1>2, <1>4 DEF SameFree
<1>9. OnFreeList(r, S) /\ Flags(r, B, S)
  BY <1>1, <1>5, <1>8, SameFreeKeeps
<1> QED BY <1>1, <1>2, <1>4, <1>7, <1>9 DEF Sound

-----------------------------------------------------------------------------
(***************************************************************************)
(* split_block.                                                            *)
(***************************************************************************)
\* The headers after block b was cut in two at rem, before rem is listed.
CutAt(h, b, rem, size, n) ==
  LET after  == NextPhys(h, b)
      rest   == [size |-> n, is_free |-> TRUE,
                 next_phys |-> after, prev_phys |-> b,
                 next_free |-> NULL, prev_free |-> NULL]
      cut    == WriteHeader(h, rem, rest)
      linked == IF after = NULL THEN [cut EXCEPT !.last_phys_block = rem]
                ELSE [cut EXCEPT !.mem[after].prev_phys = rem]
  IN [linked EXCEPT !.mem[b].next_phys = rem, !.mem[b].size = size]

\* p is h with block b cut in two at rem, which is not listed yet.
Halved(h, p, B, b, rem, size, n) ==
  /\ Typed(p) /\ SameFree(h, p, B) /\ FreeFlag(p, rem) = TRUE
  /\ B \cup {rem} \subseteq DOMAIN p.mem /\ p.brk = h.brk
  /\ p.first_phys_block = h.first_phys_block
  /\ p.last_phys_block = IF NextPhys(h, b) = NULL THEN rem ELSE h.last_phys_block
  /\ Size(p, b) = size /\ Size(p, rem) = n
  /\ NextPhys(p, b) = rem /\ NextPhys(p, rem) = NextPhys(h, b)
  /\ PrevPhys(p, rem) = b
  /\ \A x \in B : /\ x # b => /\ Size(p, x) = Size(h, x)
                              /\ NextPhys(p, x) = NextPhys(h, x)
                  /\ PrevPhys(p, x) = IF x = NextPhys(h, b) THEN rem
                                      ELSE PrevPhys(h, x)
  /\ \A a \in BrkStart..BrkLimit - 1 :
       a \notin Stretch(rem, Hdr) => ByteAt(p, a) = ByteAt(h, a)

\* What split_block assigns: the header it writes is inside block b.
LEMMA CutHalves ==
  ASSUME NEW h, NEW B, Tiled(h, B), NEW b \in B, NEW size \in Nat, NEW n \in Nat,
         Size(h, b) = size + Hdr + n,
         NEW rem, rem = b + Hdr + size,
         NEW p, p = CutAt(h, b, rem, size, n)
  PROVE  rem \notin B /\ rem \in Nat /\ Halved(h, p, B, b, rem, size, n)
<1>1. /\ b \in Nat \ {0} /\ b \in DOMAIN h.mem /\ Typed(h)
      /\ EndAt(h, b) = b + Hdr + Size(h, b) /\ EndAt(h, b) \in Nat
      /\ EndAt(h, b) <= h.brk /\ Hdr \in Nat \ {0}
  BY TileNumbers, LayoutAssumption DEF Tiled
<1>2. /\ rem \in Nat \ {0} /\ b + Hdr <= rem /\ rem + Hdr <= EndAt(h, b) /\ b < rem
      /\ EndAt(h, b) = rem + Hdr + n
  BY <1>1
<1>3. PICK after \in Nat : after = NextPhys(h, b)
  BY <1>1, HeaderTyped
<1>4. after # NULL => after \in B /\ b < after /\ EndAt(h, b) <= after
  BY <1>3, NextInPlace
<1>5. ASSUME NEW x \in B
      PROVE  /\ x \in DOMAIN h.mem /\ x # rem
             /\ x + Hdr <= rem \/ rem + Hdr <= x
  <2>1. InPlace(h, B, x) /\ InPlace(h, B, b)
    BY DEF Tiled
  <2>2. x \in Nat /\ x \in DOMAIN h.mem /\ EndAt(h, x) \in Nat /\ x + Hdr <= EndAt(h, x)
    BY TileNumbers
  <2>3. (x < b => EndAt(h, x) <= b) /\ (b < x => EndAt(h, b) <= x)
    BY <2>1 DEF InPlace, Seated
  <2> QED BY <1>1, <1>2, <2>2, <2>3
<1>6. PICK rest : rest = [size |-> n, is_free |-> TRUE,
                          next_phys |-> after, prev_phys |-> b,
                          next_free |-> NULL, prev_free |-> NULL]
  OBVIOUS
<1>7. rest \in BlockHeader
  BY <1>1, <1>6 DEF BlockHeader, NULL
<1>8. PICK cut : cut = WriteHeader(h, rem, rest)
  OBVIOUS
<1>9. rem # NULL
  BY <1>2 DEF NULL
<1>10. /\ Typed(cut) /\ cut.brk = h.brk /\ cut.free_list_head = h.free_list_head
       /\ cut.first_phys_block = h.first_phys_block
       /\ cut.last_phys_block = h.last_phys_block
       /\ DOMAIN cut.mem = {x \in DOMAIN h.mem : x + Hdr <= rem \/ rem + Hdr <= x} \cup {rem}
       /\ cut.mem[rem] = rest
       /\ \A x \in DOMAIN cut.mem : x # rem => cut.mem[x] = h.mem[x]
       /\ \A a \in BrkStart..BrkLimit - 1 :
            a \notin Stretch(rem, Hdr) => ByteAt(cut, a) = ByteAt(h, a)
  <2>1. HeaderWritten(h, cut, rem, rest)
    BY <1>1, <1>7, <1>8, <1>9, WriteHeaderGives
  <2> QED BY <2>1, Zenon DEF HeaderWritten
<1>11. B \cup {rem} \subseteq DOMAIN cut.mem
  BY <1>5, <1>10
<1>12. \A x \in B : /\ Size(cut, x) = Size(h, x) /\ FreeFlag(cut, x) = FreeFlag(h, x)
                    /\ NextPhys(cut, x) = NextPhys(h, x)
                    /\ PrevPhys(cut, x) = PrevPhys(h, x)
                    /\ NextFree(cut, x) = NextFree(h, x)
                    /\ PrevFree(cut, x) = PrevFree(h, x)
  <2>1. \A x \in B : cut.mem[x] = h.mem[x]
    BY <1>5, <1>10, <1>11
  <2> QED BY <2>1, Zenon DEF Size, FreeFlag, NextPhys, PrevPhys, NextFree, PrevFree
<1>13. /\ Size(cut, rem) = n /\ FreeFlag(cut, rem) = TRUE
       /\ NextPhys(cut, rem) = after /\ PrevPhys(cut, rem) = b
  BY <1>6, <1>10 DEF Size, FreeFlag, NextPhys, PrevPhys
<1>14. PICK linked : linked = IF after = NULL THEN [cut EXCEPT !.last_phys_block = rem]
                              ELSE [cut EXCEPT !.mem[after].prev_phys = rem]
  OBVIOUS
<1>15. p = [linked EXCEPT !.mem[b].next_phys = rem, !.mem[b].size = size]
  BY <1>3, <1>6, <1>8, <1>14, Zenon DEF CutAt
<1>16. PICK A : A = B \cup {rem}
  OBVIOUS
<1>17. /\ Typed(linked) /\ DOMAIN linked.mem = DOMAIN cut.mem
       /\ linked.bytes = cut.bytes /\ linked.brk = cut.brk
       /\ linked.first_phys_block = cut.first_phys_block
       /\ linked.free_list_head = cut.free_list_head
       /\ linked.last_phys_block = IF after = NULL THEN rem ELSE cut.last_phys_block
       /\ \A x \in A :
            /\ Size(linked, x) = Size(cut, x) /\ FreeFlag(linked, x) = FreeFlag(cut, x)
            /\ NextPhys(linked, x) = NextPhys(cut, x)
            /\ PrevPhys(linked, x) = IF x = after THEN rem ELSE PrevPhys(cut, x)
            /\ NextFree(linked, x) = NextFree(cut, x)
            /\ PrevFree(linked, x) = PrevFree(cut, x)
  <2>1. CASE after = NULL
    <3>1. linked = [cut EXCEPT !.last_phys_block = rem]
      BY <1>14, <2>1, Zenon
    <3>2. /\ Typed(linked) /\ linked.mem = cut.mem /\ linked.bytes = cut.bytes
          /\ linked.brk = cut.brk /\ linked.free_list_head = cut.free_list_head
          /\ linked.last_phys_block = rem
          /\ linked.first_phys_block = cut.first_phys_block
      BY <1>10, <3>1, LastSet
    <3>3. \A x \in A : x # after
      BY <1>2, <1>16, <2>1, TileNumbers DEF NULL
    <3> QED BY <2>1, <3>2, <3>3
         DEF Size, FreeFlag, NextPhys, PrevPhys, NextFree, PrevFree
  <2>2. CASE after # NULL
    <3>1. linked = [cut EXCEPT !.mem[after].prev_phys = rem]
      BY <1>14, <2>2, Zenon
    <3>2. after \in DOMAIN cut.mem /\ rem \in Nat
      BY <1>2, <1>4, <1>11, <2>2
    <3>3. /\ Wrote(cut, linked, after, Size(cut, after), FreeFlag(cut, after),
                   NextPhys(cut, after), rem, NextFree(cut, after),
                   PrevFree(cut, after))
          /\ SameHead(cut, linked) /\ SameLast(cut, linked)
      BY <1>10, <3>1, <3>2, PrevPhysSet
    <3>4. A \subseteq DOMAIN cut.mem
      BY <1>11, <1>16
    <3> QED BY <2>2, <3>3, <3>4 DEF Wrote, SameHead, SameLast
  <2> QED BY <2>1, <2>2
<1>18. b \in DOMAIN linked.mem /\ rem \in Nat
  BY <1>2, <1>11, <1>17
<1>19. /\ Wrote(linked, p, b, size, FreeFlag(linked, b), rem, PrevPhys(linked, b),
                NextFree(linked, b), PrevFree(linked, b))
       /\ SameHead(linked, p) /\ SameLast(linked, p)
  <2>1. Typed(linked) /\ size \in Nat
    BY <1>17
  <2> QED BY <1>15, <1>18, <2>1, Shrunk
<1>20. /\ Typed(p) /\ DOMAIN p.mem = DOMAIN cut.mem
       /\ p.bytes = cut.bytes /\ p.brk = cut.brk
       /\ p.first_phys_block = cut.first_phys_block
       /\ p.free_list_head = cut.free_list_head
       /\ p.last_phys_block = IF after = NULL THEN rem ELSE cut.last_phys_block
       /\ \A x \in A :
            /\ Size(p, x) = IF x = b THEN size ELSE Size(cut, x)
            /\ FreeFlag(p, x) = FreeFlag(cut, x)
            /\ NextPhys(p, x) = IF x = b THEN rem ELSE NextPhys(cut, x)
            /\ PrevPhys(p, x) = IF x = after THEN rem ELSE PrevPhys(cut, x)
            /\ NextFree(p, x) = NextFree(cut, x)
            /\ PrevFree(p, x) = PrevFree(cut, x)
  <2>1. A \subseteq DOMAIN linked.mem /\ b \in A
    BY <1>11, <1>16, <1>17
  <2> QED BY <1>17, <1>19, <2>1 DEF Wrote, SameHead, SameLast
<1>21. rem # b /\ rem \notin B /\ rem # after
  BY <1>2, <1>4, <1>5, <1>9
<1>22. rem \in A /\ b \in A /\ (\A x \in B : x \in A /\ x # rem)
  BY <1>16, <1>21
<1>23. SameFree(h, p, B)
  BY <1>10, <1>12, <1>20, <1>22 DEF SameFree
<1>24. \A x \in B : /\ x # b => /\ Size(p, x) = Size(h, x)
                                /\ NextPhys(p, x) = NextPhys(h, x)
                    /\ PrevPhys(p, x) = IF x = after THEN rem ELSE PrevPhys(h, x)
  BY <1>12, <1>20, <1>22
<1>25. /\ FreeFlag(p, rem) = TRUE /\ Size(p, b) = size /\ Size(p, rem) = n
       /\ NextPhys(p, b) = rem /\ NextPhys(p, rem) = after
       /\ PrevPhys(p, rem) = b
  BY <1>13, <1>20, <1>21, <1>22
<1>26. \A a \in BrkStart..BrkLimit - 1 :
         a \notin Stretch(rem, Hdr) => ByteAt(p, a) = ByteAt(h, a)
  <2>1. \A a : ByteAt(p, a) = ByteAt(cut, a)
    BY <1>20, Zenon DEF ByteAt
  <2> QED BY <1>10, <2>1, Zenon
<1>27. Halved(h, p, B, b, rem, size, n)
  BY <1>3, <1>10, <1>11, <1>20, <1>23, <1>24, <1>25, <1>26, Zenon DEF Halved
<1> QED BY <1>2, <1>21, <1>27

\* The two halves take the place of the block in the tiling.
LEMMA HalvedTiles ==
  ASSUME NEW h, NEW B, Tiled(h, B), NEW b \in B, NEW size \in Nat, NEW n \in Nat,
         Size(h, b) = size + Hdr + n, Aligned(size),
         NEW rem, rem = b + Hdr + size, rem \notin B,
         NEW p, Halved(h, p, B, b, rem, size, n)
  PROVE  Tiled(p, B \cup {rem})
<1>1. /\ b \in Nat \ {0} /\ EndAt(h, b) = b + Hdr + Size(h, b) /\ EndAt(h, b) \in Nat
      /\ EndAt(h, b) <= h.brk /\ h.brk \in Nat /\ Hdr \in Nat \ {0}
      /\ Seated(h, B, b) /\ Ahead(h, B, b) /\ Behind(h, B, b)
  BY TileNumbers, LayoutAssumption DEF Tiled, InPlace
<1>2. PICK end \in Nat : end = EndAt(h, b)
  BY <1>1
<1>3. rem \in Nat \ {0} /\ b < rem /\ rem < end /\ end = rem + Hdr + n /\ end <= h.brk
  BY <1>1, <1>2
<1>4. PICK after : after = NextPhys(h, b)
  OBVIOUS
<1>5. /\ after = NULL => Outermost(h, B, b)
      /\ after # NULL => /\ after \in B /\ after \in Nat /\ PrevPhys(h, after) = b
                         /\ end <= after
                         /\ Whole(h) => end = after
                         /\ \A a \in B : b < a => after <= a
  <2>1. after # NULL => /\ after \in B /\ PrevPhys(h, after) = b /\ end <= after
                        /\ Whole(h) => end = after
                        /\ \A a \in B : b < a => after <= a
    BY <1>2, <1>4, NextInPlace
  <2> QED BY <1>1, <1>4, <2>1, TileNumbers DEF Ahead
<1>6. Whole(p) <=> Whole(h)
  BY DEF Halved, Whole
<1>7. PICK A : A = B \cup {rem}
  OBVIOUS
<1>8. /\ Typed(p) /\ A \subseteq DOMAIN p.mem /\ p.brk = h.brk
      /\ p.first_phys_block = h.first_phys_block
      /\ p.last_phys_block = IF after = NULL THEN rem ELSE h.last_phys_block
      /\ Size(p, b) = size /\ Size(p, rem) = n
      /\ NextPhys(p, b) = rem /\ NextPhys(p, rem) = after
      /\ PrevPhys(p, rem) = b
      /\ \A x \in B : /\ x # b => /\ Size(p, x) = Size(h, x)
                                  /\ NextPhys(p, x) = NextPhys(h, x)
                      /\ PrevPhys(p, x) = IF x = after THEN rem ELSE PrevPhys(h, x)
  BY <1>4, <1>7 DEF Halved
<1>9. EndAt(p, b) = rem /\ EndAt(p, rem) = end
      /\ \A x \in B : x # b => EndAt(p, x) = EndAt(h, x)
  BY <1>1, <1>3, <1>8 DEF EndAt
<1>10. \A x \in B : x \in Nat /\ (x <= b \/ end <= x)
  <2>1. ASSUME NEW x \in B PROVE x \in Nat /\ (x <= b \/ end <= x)
    <3>1. Seated(h, B, x)
      BY DEF Tiled, InPlace
    <3> QED BY <1>1, <1>2, <3>1 DEF Seated
  <2> QED BY <2>1
<1>11. Aligned(rem) /\ Aligned(n) /\ Start <= rem
  <2>1. Aligned(Hdr) /\ Aligned(b) /\ Aligned(Size(h, b)) /\ Start <= b
    BY <1>1, AlignedMod, LayoutAssumption DEF Seated
  <2>2. Aligned(b + Hdr)
    BY <1>1, <2>1, AlignedSum
  <2>3. Aligned(b + Hdr + size)
    BY <1>1, <2>2, AlignedSum
  <2>4. Aligned(size + Hdr)
    BY <1>1, <2>1, AlignedSum
  <2>5. Aligned(size + Hdr + n - (size + Hdr))
    BY <1>1, <2>1, <2>4, AlignedSum
  <2>6. size + Hdr + n - (size + Hdr) = n
    BY <1>1
  <2>7. Start \in Int
    <3>1. PICK u : u = Word(BrkStart + Align - 1) \div Align
      OBVIOUS
    <3>2. u \in Int
      BY <3>1, LayoutAssumption, BreakAssumption DEF Word
    <3>3. Start = u * Align
      BY <3>1, Zenon DEF Start, RoundUp
    <3> QED BY <3>2, <3>3, LayoutAssumption
  <2> QED BY <1>1, <1>3, <2>1, <2>3, <2>5, <2>6, <2>7
<1>12. InPlace(p, A, b)
  <2>1. \A a \in A : a < b => EndAt(p, a) <= b
    BY <1>1, <1>3, <1>7, <1>9 DEF Seated
  <2>2. b # after
    BY <1>1, <1>2, <1>3, <1>5 DEF NULL
  <2>3. Seated(p, A, b)
    <3>1. b \in Nat /\ Aligned(b) /\ Start <= b
      BY <1>1 DEF Seated
    <3>2. Aligned(Size(p, b)) /\ EndAt(p, b) <= p.brk
      BY <1>1, <1>3, <1>8, <1>9
    <3> QED BY <2>1, <3>1, <3>2 DEF Seated
  <2>4. Ahead(p, A, b)
    <3>1. \A a \in A : b < a => rem <= a
      BY <1>1, <1>3, <1>7, <1>10
    <3>2. Adjacent(p, A, b, rem)
      BY <1>3, <1>7, <1>9, <3>1 DEF Adjacent
    <3> QED BY <1>3, <1>8, <3>2 DEF Ahead, NULL
  <2>5. Behind(p, A, b)
    <3>1. PICK y : y = PrevPhys(h, b)
      OBVIOUS
    <3>2. PrevPhys(p, b) = y
      BY <1>8, <2>2, <3>1
    <3>3. CASE y = NULL
      BY <1>1, <1>8, <3>1, <3>2, <3>3 DEF Behind
    <3>4. CASE y # NULL
      <4>1. y \in B /\ NextPhys(h, y) = b
        BY <1>1, <3>1, <3>4 DEF Behind
      <4>2. y # b
        BY <1>4, <2>2, <4>1
      <4>3. y \in A /\ NextPhys(p, y) = b
        BY <1>7, <1>8, <4>1, <4>2
      <4> QED BY <3>2, <3>4, <4>3 DEF Behind
    <3> QED BY <3>3, <3>4
  <2> QED BY <2>3, <2>4, <2>5 DEF InPlace
<1>13. InPlace(p, A, rem)
  <2>1. ASSUME NEW a \in A, a < rem PROVE EndAt(p, a) <= rem
    <3>1. a \in B
      BY <1>3, <1>7, <2>1
    <3>2. CASE a = b
      BY <1>3, <1>9, <3>2
    <3>3. CASE a # b
      <4>1. a < b
        BY <1>1, <1>3, <1>10, <2>1, <3>1, <3>3
      <4>2. EndAt(h, a) <= b /\ EndAt(h, a) \in Nat
        BY <1>1, <3>1, <4>1, TileNumbers DEF Seated
      <4> QED BY <1>1, <1>3, <1>9, <3>1, <3>3, <4>2
    <3> QED BY <3>2, <3>3
  <2>2. Seated(p, A, rem)
    BY <1>3, <1>8, <1>9, <1>11, <2>1 DEF Seated
  <2>3. Ahead(p, A, rem)
    <3>1. CASE after = NULL
      <4>1. \A a \in A : a <= rem
        BY <1>1, <1>3, <1>5, <1>7, <1>10, <3>1 DEF Outermost
      <4>2. Whole(p) => end = p.brk
        BY <1>2, <1>5, <1>6, <1>8, <3>1 DEF Outermost
      <4>3. Outermost(p, A, rem)
        BY <1>8, <1>9, <3>1, <4>1, <4>2 DEF Outermost
      <4> QED BY <1>8, <3>1, <4>3 DEF Ahead
    <3>2. CASE after # NULL
      <4>1. after \in B /\ after \in Nat /\ rem < after /\ PrevPhys(p, after) = rem
        BY <1>3, <1>5, <1>8, <3>2
      <4>2. ASSUME NEW a \in A, rem < a PROVE after <= a
        <5>1. a \in B /\ b < a
          BY <1>1, <1>3, <1>7, <1>10, <4>2
        <5> QED BY <1>5, <3>2, <5>1
      <4>3. Whole(p) => end = after
        BY <1>5, <1>6, <3>2
      <4>4. Adjacent(p, A, rem, after)
        BY <1>7, <1>9, <4>1, <4>2, <4>3 DEF Adjacent
      <4> QED BY <1>8, <3>2, <4>1, <4>4 DEF Ahead
    <3> QED BY <3>1, <3>2
  <2>4. Behind(p, A, rem)
    <3>1. b \in A /\ b # NULL
      BY <1>1, <1>7 DEF NULL
    <3> QED BY <1>8, <3>1 DEF Behind
  <2> QED BY <2>2, <2>3, <2>4 DEF InPlace
<1>14. ASSUME NEW x \in B, x # b PROVE InPlace(p, A, x)
  <2>1. /\ Seated(h, B, x) /\ Ahead(h, B, x) /\ Behind(h, B, x)
        /\ x \in Nat \ {0} /\ x # rem
    BY TileNumbers DEF Tiled, InPlace
  <2>2. /\ EndAt(p, x) = EndAt(h, x) /\ Size(p, x) = Size(h, x)
        /\ NextPhys(p, x) = NextPhys(h, x)
    BY <1>8, <1>9, <1>14
  <2>3. ASSUME NEW a \in A, a < x PROVE EndAt(p, a) <= x
    <3>1. CASE a = rem \/ a = b
      <4>1. end <= x
        BY <1>1, <1>3, <1>10, <1>14, <2>1, <2>3, <3>1
      <4> QED BY <1>3, <1>9, <2>1, <3>1, <4>1
    <3>2. CASE a # rem /\ a # b
      BY <1>7, <1>9, <2>1, <2>3, <3>2 DEF Seated
    <3> QED BY <3>1, <3>2
  <2>4. Seated(p, A, x)
    BY <1>8, <2>1, <2>2, <2>3 DEF Seated
  <2>5. Ahead(p, A, x)
    <3>1. PICK y : y = NextPhys(h, x)
      OBVIOUS
    <3>2. CASE y = NULL
      <4>1. Outermost(h, B, x)
        BY <2>1, <3>1, <3>2 DEF Ahead
      <4>2. b < x
        BY <1>1, <1>14, <2>1, <4>1 DEF Outermost
      <4>3. after # NULL
        BY <1>1, <1>5, <2>1, <4>2 DEF Outermost
      <4>4. end <= x /\ rem < x
        BY <1>1, <1>3, <1>10, <2>1, <4>2
      <4>5. \A a \in A : a <= x
        BY <1>3, <1>7, <2>1, <4>1, <4>4 DEF Outermost
      <4>6. Outermost(p, A, x)
        BY <1>6, <1>8, <2>2, <4>1, <4>3, <4>5 DEF Outermost
      <4> QED BY <2>2, <3>1, <3>2, <4>6 DEF Ahead
    <3>3. CASE y # NULL
      <4>1. Adjacent(h, B, x, y) /\ PrevPhys(h, y) = x
        BY <2>1, <3>1, <3>3 DEF Ahead
      <4>2. y \in B /\ y \in Nat
        BY <1>10, <4>1 DEF Adjacent
      <4>3. y # after
        BY <1>5, <1>14, <3>3, <4>1
      <4>4. PrevPhys(p, y) = x
        BY <1>8, <4>1, <4>2, <4>3
      <4>5. ASSUME NEW a \in A, x < a PROVE y <= a
        <5>1. CASE a = rem
          <6>1. x < b
            BY <1>1, <1>3, <1>10, <1>14, <2>1, <4>5, <5>1
          <6>2. y <= b
            BY <4>1, <6>1 DEF Adjacent
          <6> QED BY <1>1, <1>3, <4>2, <5>1, <6>2
        <5>2. CASE a # rem
          BY <1>7, <4>1, <4>5, <5>2 DEF Adjacent
        <5> QED BY <5>1, <5>2
      <4>6. Adjacent(p, A, x, y)
        BY <1>6, <1>7, <2>2, <4>1, <4>5 DEF Adjacent
      <4> QED BY <2>2, <3>1, <3>3, <4>4, <4>6 DEF Ahead
    <3> QED BY <3>2, <3>3
  <2>6. Behind(p, A, x)
    <3>1. CASE x = after
      <4>1. rem \in A /\ rem # NULL /\ NextPhys(p, rem) = x /\ PrevPhys(p, x) = rem
        BY <1>3, <1>7, <1>8, <3>1 DEF NULL
      <4> QED BY <4>1 DEF Behind
    <3>2. CASE x # after
      <4>1. PICK y : y = PrevPhys(h, x)
        OBVIOUS
      <4>2. PrevPhys(p, x) = y
        BY <1>8, <3>2, <4>1
      <4>3. CASE y = NULL
        BY <1>8, <2>1, <4>1, <4>2, <4>3 DEF Behind
      <4>4. CASE y # NULL
        <5>1. y \in B /\ NextPhys(h, y) = x
          BY <2>1, <4>1, <4>4 DEF Behind
        <5>2. y # b
          BY <1>4, <3>2, <5>1
        <5>3. y \in A /\ NextPhys(p, y) = x
          BY <1>7, <1>8, <5>1, <5>2
        <5> QED BY <4>2, <4>4, <5>3 DEF Behind
      <4> QED BY <4>3, <4>4
    <3> QED BY <3>1, <3>2
  <2> QED BY <2>4, <2>5, <2>6 DEF InPlace
<1>15. Tiled(p, A)
  <2>1. /\ h.first_phys_block \in B /\ PrevPhys(h, h.first_phys_block) = NULL
        /\ Whole(h) => h.first_phys_block = Start
        /\ h.last_phys_block \in B /\ NextPhys(h, h.last_phys_block) = NULL
        /\ Aligned(h.brk) /\ h.brk \in BrkStart..BrkLimit
    BY DEF Tiled
  <2>2. p.first_phys_block \in A /\ PrevPhys(p, p.first_phys_block) = NULL
    <3>1. PICK y : y = h.first_phys_block
      OBVIOUS
    <3>2. y \in B /\ PrevPhys(h, y) = NULL /\ y # NULL
      BY <2>1, <3>1, TileNumbers DEF NULL
    <3>3. y # after
      BY <1>1, <1>5, <3>2 DEF NULL
    <3> QED BY <1>7, <1>8, <3>1, <3>2, <3>3
  <2>3. p.last_phys_block \in A /\ NextPhys(p, p.last_phys_block) = NULL
    <3>1. CASE after = NULL
      BY <1>7, <1>8, <3>1
    <3>2. CASE after # NULL
      <4>1. h.last_phys_block # b
        BY <1>4, <2>1, <3>2
      <4> QED BY <1>7, <1>8, <2>1, <3>2, <4>1
    <3> QED BY <3>1, <3>2
  <2>4. /\ A # {} /\ p.brk \in BrkStart..BrkLimit /\ Aligned(p.brk)
        /\ Whole(p) => p.first_phys_block = Start
    BY <1>6, <1>7, <1>8, <2>1
  <2>5. \A x \in A : InPlace(p, A, x)
    BY <1>7, <1>12, <1>13, <1>14
  <2> QED BY <1>8, <2>2, <2>3, <2>4, <2>5 DEF Tiled
<1> QED BY <1>7, <1>15

\* Block b, which is in use, keeps its first size bytes.
Fitted(h, r, b, size, U) ==
  /\ Usable(r, U) /\ Size(r, b) >= size
  /\ Kept(h, r, b, size) /\ Keeps(h, r, U \ {b})

\* split_block leaves the block in use, of the size asked for, with its bytes.
LEMMA SplitSound ==
  ASSUME NEW h, NEW B, NEW S, Sound(h, B, S), NEW b \in B \ S,
         NEW size \in Nat, Aligned(size), size <= Size(h, b),
         size + Hdr + Align < WordMod,
         NEW U, U = B \ S,
         NEW r, r = SplitBlock(h, b, size)
  PROVE  Fitted(h, r, b, size, U)
<1>1. Tiled(h, B) /\ S \subseteq B /\ OnFreeList(h, S) /\ Flags(h, B, S)
  BY DEF Sound
<1>2. /\ b \in Nat \ {0} /\ Size(h, b) \in Nat /\ EndAt(h, b) = b + Hdr + Size(h, b)
      /\ EndAt(h, b) <= h.brk /\ h.brk \in Nat /\ h.brk <= BrkLimit
      /\ Hdr \in Nat \ {0} /\ Align \in Nat \ {0} /\ WordMod \in Nat
      /\ BrkLimit \in Nat /\ BrkLimit < WordMod
  BY <1>1, TileNumbers, LayoutAssumption, BreakAssumption
<1>3. Word(size + Hdr + Align) = size + Hdr + Align
  <2>1. size + Hdr + Align \in 0..WordMod - 1
    BY <1>2
  <2> QED BY <2>1, WordIs
<1>4. CASE Size(h, b) < size + Hdr + Align
  <2>1. r = h
    <3>1. ~(h.mem[b].size >= Word(size + Hdr + Align))
      BY <1>2, <1>3, <1>4 DEF Size
    <3> QED BY <3>1, Zenon DEF SplitBlock
  <2>2. Usable(h, U)
    BY DEF Usable
  <2> QED BY <1>2, <2>1, <2>2 DEF Fitted, Kept, Keeps
<1>5. CASE Size(h, b) >= size + Hdr + Align
  <2>1. PICK rem \in Nat : rem = b + Hdr + size
    BY <1>2
  <2>2. PICK n \in Nat : n = Size(h, b) - size - Hdr
    BY <1>2, <1>5
  <2>3. Word(b + Hdr + size) = rem /\ Word(h.mem[b].size - size - Hdr) = n
    <3>1. rem \in 0..WordMod - 1 /\ n \in 0..WordMod - 1
      BY <1>2, <1>5, <2>1, <2>2
    <3> QED BY <2>1, <2>2, <3>1, WordIs DEF Size
  <2>4. PICK p : p = CutAt(h, b, rem, size, n)
    OBVIOUS
  <2>5. r = InsertFreeBlock(p, rem)
    <3>1. h.mem[b].size >= Word(size + Hdr + Align)
      BY <1>3, <1>5 DEF Size
    <3> QED BY <2>3, <2>4, <3>1, Zenon DEF SplitBlock, CutAt, NextPhys
  <2>6. Size(h, b) = size + Hdr + n
    BY <1>2, <2>2
  <2>7. rem \notin B /\ Halved(h, p, B, b, rem, size, n)
    BY <1>1, <2>1, <2>4, <2>6, CutHalves
  <2>8. PICK A : A = B \cup {rem}
    OBVIOUS
  <2>9. Tiled(p, A)
    BY <1>1, <2>1, <2>6, <2>7, <2>8, HalvedTiles
  <2>10. SameFree(h, p, B) /\ B \subseteq DOMAIN p.mem /\ rem \in DOMAIN p.mem
    BY <2>7 DEF Halved
  <2>11. OnFreeList(p, S) /\ Flags(p, B, S)
    BY <1>1, <2>10, SameFreeKeeps
  <2>12. A \ {rem} = B /\ S \in SUBSET A /\ rem \in A /\ rem \notin S
    BY <1>1, <2>7, <2>8
  <2>13. SamePhys(p, r) /\ Sound(r, A, S \cup {rem})
    BY <2>5, <2>9, <2>11, <2>12, InsertSound
  <2>14. U = A \ (S \cup {rem})
    BY <2>7, <2>8
  <2>15. Usable(r, U)
    BY <2>13, <2>14 DEF Usable
  <2>16. /\ Size(p, b) = size /\ \A x \in B : x # b => Size(p, x) = Size(h, x)
         /\ \A a \in BrkStart..BrkLimit - 1 :
              a \notin Stretch(rem, Hdr) => ByteAt(p, a) = ByteAt(h, a)
    BY <2>7 DEF Halved
  <2>17. /\ \A x \in A : Size(r, x) = Size(p, x)
         /\ \A a : ByteAt(r, a) = ByteAt(p, a)
    <3>1. A \subseteq DOMAIN p.mem
      BY <2>9 DEF Tiled
    <3>2. r.bytes = p.bytes /\ \A x \in A : Size(r, x) = Size(p, x)
      BY <2>13, <3>1 DEF SamePhys
    <3> QED BY <3>2, Zenon DEF ByteAt
  <2>18. ASSUME NEW x \in B, NEW m \in Nat, m <= Size(h, x), x = b => m <= size
         PROVE  Kept(h, r, x, m)
    <3>1. SUFFICES ASSUME NEW a \in Stretch(x + Hdr, m)
                   PROVE  a \in BrkStart..BrkLimit - 1 /\ a \notin Stretch(rem, Hdr)
      BY <2>16, <2>17 DEF Kept
    <3>2. /\ x \in Nat \ {0} /\ Size(h, x) \in Nat /\ EndAt(h, x) = x + Hdr + Size(h, x)
          /\ EndAt(h, x) <= h.brk /\ InPlace(h, B, x) /\ InPlace(h, B, b)
      BY <1>1, TileNumbers DEF Tiled
    <3>3. a \in Int /\ x + Hdr <= a /\ a < x + Hdr + m
      BY <1>2, <3>1, <3>2 DEF Stretch
    <3>4. BrkStart <= x
      <4>1. BrkStart <= Start /\ Start \in Nat
        <5>1. BrkStart + Align - 1 < WordMod
          BY <1>2, RoomAssumption, BreakAssumption, LayoutAssumption
        <5> QED BY <5>1, RoundUpIs, LayoutAssumption, BreakAssumption DEF Start
      <4> QED BY <3>2, <4>1, BreakAssumption DEF InPlace, Seated
    <3>5. a \in BrkStart..BrkLimit - 1
      BY <1>2, <2>18, <3>2, <3>3, <3>4, BreakAssumption
    <3>6. (x < b => EndAt(h, x) <= b) /\ (b < x => EndAt(h, b) <= x)
      BY <3>2 DEF InPlace, Seated
    <3>7. a \notin Stretch(rem, Hdr)
      <4>1. CASE x = b
        BY <1>2, <2>1, <2>18, <3>2, <3>3, <4>1 DEF Stretch
      <4>2. CASE x < b
        BY <1>2, <2>1, <2>18, <3>2, <3>3, <3>6, <4>2 DEF Stretch
      <4>3. CASE b < x
        BY <1>2, <1>5, <2>1, <2>18, <3>2, <3>3, <3>6, <4>3 DEF Stretch
      <4> QED BY <1>2, <3>2, <4>1, <4>2, <4>3
    <3> QED BY <3>5, <3>7
  <2>19. Kept(h, r, b, size)
    BY <2>18
  <2>20. Keeps(h, r, U \ {b})
    <3>1. ASSUME NEW x \in U \ {b}
          PROVE  Size(r, x) = Size(h, x) /\ Kept(h, r, x, Size(h, x))
      <4>1. x \in B /\ x # b /\ x \in A
        BY <2>8
      <4>2. Size(h, x) \in Nat
        BY <1>1, <4>1, TileNumbers
      <4> QED BY <2>16, <2>17, <2>18, <4>1, <4>2
    <3> QED BY <3>1 DEF Keeps
  <2>21. Size(r, b) >= size
    BY <2>8, <2>16, <2>17
  <2> QED BY <2>15, <2>19, <2>20, <2>21 DEF Fitted
<1> QED BY <1>2, <1>4, <1>5

-----------------------------------------------------------------------------
(***************************************************************************)
(* request_space.                                                          *)
(***************************************************************************)
\* A payload that leaves the arithmetic of the break room.
Room(m) == m \in Nat /\ Aligned(m) /\ BrkLimit + m + Align + Hdr + Page <= WordMod

\* r is h with another break.
Moved(h, r, brk) ==
  /\ Typed(r) /\ r.mem = h.mem /\ r.bytes = h.bytes /\ r.brk = brk
  /\ r.free_list_head = h.free_list_head
  /\ r.first_phys_block = h.first_phys_block
  /\ r.last_phys_block = h.last_phys_block

\* brk moves the break or does nothing.
LEMMA SysBrkGives ==
  ASSUME NEW h, Typed(h), NEW a, NEW r, r = SysBrk(h, a)
  PROVE  /\ a \in BrkStart..BrkLimit => Moved(h, r, a)
         /\ a \notin BrkStart..BrkLimit => r = h
<1>1. CASE a \in BrkStart..BrkLimit
  <2>1. r = [h EXCEPT !.brk = a]
    BY <1>1, Zenon DEF SysBrk
  <2> QED BY <1>1, <2>1, BrkSet DEF Moved
<1>2. CASE a \notin BrkStart..BrkLimit
  BY <1>2, Zenon DEF SysBrk
<1> QED BY <1>1, <1>2

\* What is rounded up is a multiple of Align.
LEMMA RoundUpAligned ==
  ASSUME NEW x \in Nat, x + Align - 1 < WordMod
  PROVE  /\ RoundUp(x, Align) \in Nat /\ Aligned(RoundUp(x, Align))
         /\ x <= RoundUp(x, Align) /\ RoundUp(x, Align) < x + Align
         /\ Aligned(x) => RoundUp(x, Align) = x
<1>1. /\ RoundUp(x, Align) \in Nat /\ x <= RoundUp(x, Align)
      /\ RoundUp(x, Align) < x + Align
      /\ \E k \in Nat : RoundUp(x, Align) = k * Align
  BY RoundUpIs, LayoutAssumption
<1>2. Aligned(RoundUp(x, Align))
  BY <1>1 DEF Aligned
<1>3. ASSUME Aligned(x) PROVE RoundUp(x, Align) = x
  <2>1. PICK k \in Int : x = k * Align
    BY <1>3 DEF Aligned
  <2>2. PICK q \in Nat : RoundUp(x, Align) = q * Align
    BY <1>1
  <2>3. PICK d \in Nat : d = q * Align - k * Align
    BY <1>1, <2>1, <2>2, LayoutAssumption
  <2>4. d = (q - k) * Align /\ 0 <= d /\ d < Align
    BY <1>1, <2>1, <2>2, <2>3, LayoutAssumption
  <2>5. q - k = 0
    BY <2>4, LayoutAssumption
  <2> QED BY <2>1, <2>2, <2>5
<1> QED BY <1>1, <1>2, <1>3

\* What is rounded up is the first multiple of Align there.
LEMMA RoundUpLeast ==
  ASSUME NEW x \in Nat, x + Align - 1 < WordMod, NEW y \in Nat, Aligned(y), x <= y
  PROVE  RoundUp(x, Align) <= y
<1>1. PICK q \in Nat : RoundUp(x, Align) = q * Align
  BY RoundUpIs, LayoutAssumption
<1>2. PICK k \in Int : y = k * Align
  BY DEF Aligned
<1>3. q * Align < k * Align + Align
  <2>1. RoundUp(x, Align) < x + Align
    BY RoundUpIs, LayoutAssumption
  <2>2. q * Align \in Int /\ k * Align \in Int
    BY LayoutAssumption
  <2> QED BY <1>1, <1>2, <2>1, <2>2, LayoutAssumption
<1>4. q <= k
  <2>1. (q - k) * Align < Align
    BY <1>3, LayoutAssumption
  <2> QED BY <2>1, LayoutAssumption
<1>5. 0 <= (k - q) * Align
  BY <1>4, LayoutAssumption
<1> QED BY <1>1, <1>2, <1>5, LayoutAssumption

\* As longs, words of one half compare as they do unsigned.
LEMMA SignedOrder ==
  ASSUME NEW x \in Nat, NEW y \in Nat, x <= y, y < WordMod
  PROVE  /\ ~(x < Half /\ Half <= y) => Signed(x) <= Signed(y)
         /\ Signed(y) <= Signed(x) => x = y \/ (x < Half /\ Half <= y)
<1>1. WordMod \in Nat /\ Half \in Int
  BY LayoutAssumption DEF Half
<1> QED BY <1>1 DEF Signed

\* The break where a new block goes.
LEMMA BreakRounds ==
  ASSUME NEW h, NEW B, Tiled(h, B), NEW b, b = RoundUp(h.brk, Align)
  PROVE  /\ b \in Nat /\ Aligned(b) /\ h.brk <= b /\ b < h.brk + Align /\ BrkStart <= b
         /\ h.brk \in Nat /\ h.brk <= BrkLimit /\ b # NULL /\ Start <= b
         /\ B # {} => b = h.brk
         /\ B = {} /\ Whole(h) => b = Start
         /\ b # h.brk => h.brk = BrkStart /\ b = Start
<1>1. h.brk \in Nat /\ BrkStart <= h.brk /\ h.brk <= BrkLimit /\ BrkStart > 0
  BY BreakAssumption DEF Tiled
<1>2. h.brk + Align - 1 < WordMod
  BY <1>1, RoomAssumption, BreakAssumption, LayoutAssumption
<1>3. /\ b \in Nat /\ Aligned(b) /\ h.brk <= b /\ b < h.brk + Align
      /\ Aligned(h.brk) => b = h.brk
  BY <1>1, <1>2, RoundUpAligned
<1>4. BrkStart <= b /\ b # NULL
  BY <1>1, <1>3, BreakAssumption DEF NULL
<1>5. Start <= b
  BY <1>1, <1>2, <1>3, <1>4, RoundUpLeast, BreakAssumption, LayoutAssumption DEF Start
<1>6. b # h.brk => h.brk = BrkStart /\ b = Start
  BY <1>3 DEF Tiled, Start
<1>7. B # {} => b = h.brk
  BY <1>3 DEF Tiled
<1>8. B = {} /\ Whole(h) => b = Start
  BY DEF Tiled
<1> QED BY <1>1, <1>3, <1>4, <1>5, <1>6, <1>7, <1>8

\* The break may move on from the blocks when it crosses, and to the next
\* multiple of Align.
LEMMA MovedTiles ==
  ASSUME NEW h, NEW B, Tiled(h, B), NEW b, b = RoundUp(h.brk, Align),
         NEW brk \in Nat, Aligned(brk), b <= brk, brk <= BrkLimit,
         NEW r, Moved(h, r, brk), Whole(r) => brk = b
  PROVE  Tiled(r, B)
<1>1. /\ b \in Nat /\ Aligned(b) /\ h.brk <= b /\ b < h.brk + Align /\ BrkStart <= b
      /\ h.brk \in Nat /\ h.brk <= BrkLimit
      /\ B # {} => b = h.brk
      /\ B = {} /\ Whole(h) => b = Start
  BY BreakRounds
<1>2. Whole(r) => Whole(h)
  BY <1>1, BreakAssumption, LayoutAssumption DEF Moved, Whole, Half
<1>3. /\ Typed(r) /\ B \subseteq DOMAIN r.mem /\ r.brk = brk
      /\ r.first_phys_block = h.first_phys_block
      /\ r.last_phys_block = h.last_phys_block
      /\ \A x : /\ Size(r, x) = Size(h, x) /\ NextPhys(r, x) = NextPhys(h, x)
                /\ PrevPhys(r, x) = PrevPhys(h, x) /\ EndAt(r, x) = EndAt(h, x)
  BY DEF Tiled, Moved, Size, NextPhys, PrevPhys, EndAt
<1>4. r.brk \in BrkStart..BrkLimit
  BY <1>1, <1>3, BreakAssumption
<1>5. CASE B = {}
  <2>1. ASSUME Whole(r) PROVE RoundUp(r.brk, Align) = Start
    <3>1. brk = b /\ b = Start
      BY <1>1, <1>2, <1>5, <2>1
    <3>2. b + Align - 1 < WordMod
      BY <1>1, <3>1, RoomAssumption, BreakAssumption, LayoutAssumption
    <3> QED BY <1>1, <1>3, <3>1, <3>2, RoundUpAligned
  <2> QED BY <1>3, <1>4, <1>5, <2>1 DEF Tiled
<1>6. CASE B # {}
  <2>1. Whole(r) => r.brk = h.brk
    BY <1>1, <1>3, <1>6
  <2>2. ASSUME NEW x \in B PROVE InPlace(r, B, x)
    <3>1. Seated(h, B, x) /\ Ahead(h, B, x) /\ Behind(h, B, x)
      BY DEF Tiled, InPlace
    <3>2. EndAt(h, x) \in Nat /\ EndAt(h, x) <= r.brk
      BY <1>1, <1>3, TileNumbers
    <3>3. Seated(r, B, x)
      BY <1>3, <3>1, <3>2 DEF Seated
    <3>4. Ahead(r, B, x)
      <4>1. CASE NextPhys(h, x) = NULL
        BY <1>2, <1>3, <2>1, <3>1, <4>1 DEF Ahead, Outermost
      <4>2. CASE NextPhys(h, x) # NULL
        BY <1>2, <1>3, <3>1, <4>2 DEF Ahead, Adjacent
      <4> QED BY <4>1, <4>2
    <3>5. Behind(r, B, x)
      BY <1>3, <3>1 DEF Behind
    <3> QED BY <3>3, <3>4, <3>5 DEF InPlace
  <2>3. /\ h.first_phys_block \in B /\ PrevPhys(h, h.first_phys_block) = NULL
        /\ Whole(h) => h.first_phys_block = Start
        /\ h.last_phys_block \in B /\ NextPhys(h, h.last_phys_block) = NULL
    BY <1>6 DEF Tiled
  <2> QED BY <1>2, <1>3, <1>4, <1>6, <2>2, <2>3 DEF Tiled
<1> QED BY <1>5, <1>6

\* The headers with a new block of m bytes and its header at the break b.
Chain(h, last, b, m) ==
  LET header  == [size |-> m, is_free |-> TRUE,
                  next_phys |-> NULL, prev_phys |-> last,
                  next_free |-> NULL, prev_free |-> NULL]
      written == [WriteHeader(h, b, header) EXCEPT !.last_phys_block = b]
  IN IF last = NULL THEN [written EXCEPT !.first_phys_block = b]
     ELSE [written EXCEPT !.mem[last].next_phys = b]

\* p is h with a last block b of m bytes, which is not listed yet.
Chained(h, p, B, b, m) ==
  /\ Typed(p) /\ SameFree(h, p, B) /\ FreeFlag(p, b) = TRUE
  /\ B \cup {b} \subseteq DOMAIN p.mem /\ p.brk = h.brk
  /\ p.first_phys_block = IF h.last_phys_block = NULL THEN b ELSE h.first_phys_block
  /\ p.last_phys_block = b
  /\ Size(p, b) = m /\ NextPhys(p, b) = NULL /\ PrevPhys(p, b) = h.last_phys_block
  /\ \A x \in B : /\ Size(p, x) = Size(h, x) /\ PrevPhys(p, x) = PrevPhys(h, x)
                  /\ NextPhys(p, x) = IF x = h.last_phys_block THEN b
                                      ELSE NextPhys(h, x)
  /\ \A a \in BrkStart..BrkLimit - 1 :
       a \notin Stretch(b, Hdr) => ByteAt(p, a) = ByteAt(h, a)

\* What request_space assigns when it appends a block.
LEMMA ChainGives ==
  ASSUME NEW h, Typed(h), NEW B \in SUBSET DOMAIN h.mem, NEW b \in Nat \ {0}, b \notin B,
         \A x \in B : x + Hdr <= b,
         NEW last \in Nat, last = h.last_phys_block, last # NULL => last \in B,
         NEW m \in Nat, NEW p, p = Chain(h, last, b, m)
  PROVE  Chained(h, p, B, b, m)
<1>1. PICK header : header = [size |-> m, is_free |-> TRUE,
                              next_phys |-> NULL, prev_phys |-> last,
                              next_free |-> NULL, prev_free |-> NULL]
  OBVIOUS
<1>2. header \in BlockHeader /\ b # NULL
  BY <1>1 DEF BlockHeader, NULL
<1>3. PICK put : put = WriteHeader(h, b, header)
  OBVIOUS
<1>4. HeaderWritten(h, put, b, header)
  BY <1>2, <1>3, WriteHeaderGives
<1>5. PICK A : A = B \cup {b}
  OBVIOUS
<1>6. /\ Typed(put) /\ put.brk = h.brk /\ put.free_list_head = h.free_list_head
      /\ put.first_phys_block = h.first_phys_block
      /\ A \subseteq DOMAIN put.mem /\ put.mem[b] = header
      /\ \A x \in B : put.mem[x] = h.mem[x]
      /\ \A a \in BrkStart..BrkLimit - 1 :
           a \notin Stretch(b, Hdr) => ByteAt(put, a) = ByteAt(h, a)
  BY <1>4, <1>5 DEF HeaderWritten
<1>7. PICK written : written = [put EXCEPT !.last_phys_block = b]
  OBVIOUS
<1>8. /\ Typed(written) /\ written.mem = put.mem /\ written.bytes = put.bytes
      /\ written.brk = put.brk /\ written.last_phys_block = b
      /\ written.free_list_head = put.free_list_head
      /\ written.first_phys_block = put.first_phys_block
  BY <1>6, <1>7, LastSet
<1>9. p = IF last = NULL THEN [written EXCEPT !.first_phys_block = b]
          ELSE [written EXCEPT !.mem[last].next_phys = b]
  BY <1>1, <1>3, <1>7, Zenon DEF Chain
<1>10. \A x \in B : /\ Size(put, x) = Size(h, x) /\ FreeFlag(put, x) = FreeFlag(h, x)
                    /\ NextPhys(put, x) = NextPhys(h, x)
                    /\ PrevPhys(put, x) = PrevPhys(h, x)
                    /\ NextFree(put, x) = NextFree(h, x)
                    /\ PrevFree(put, x) = PrevFree(h, x)
  BY <1>6, Zenon DEF Size, FreeFlag, NextPhys, PrevPhys, NextFree, PrevFree
<1>11. /\ Size(put, b) = m /\ FreeFlag(put, b) = TRUE
       /\ NextPhys(put, b) = NULL /\ PrevPhys(put, b) = last
  BY <1>1, <1>6 DEF Size, FreeFlag, NextPhys, PrevPhys
<1>12. \A x : /\ Size(written, x) = Size(put, x) /\ FreeFlag(written, x) = FreeFlag(put, x)
              /\ NextPhys(written, x) = NextPhys(put, x)
              /\ PrevPhys(written, x) = PrevPhys(put, x)
              /\ NextFree(written, x) = NextFree(put, x)
              /\ PrevFree(written, x) = PrevFree(put, x)
  BY <1>8, Zenon DEF Size, FreeFlag, NextPhys, PrevPhys, NextFree, PrevFree
<1>13. NULL \notin B
  BY DEF Typed, MemTyped
<1>14. /\ Typed(p) /\ DOMAIN p.mem = DOMAIN put.mem /\ p.bytes = put.bytes
       /\ p.brk = put.brk /\ p.free_list_head = put.free_list_head
       /\ p.last_phys_block = b
       /\ p.first_phys_block = IF last = NULL THEN b ELSE put.first_phys_block
       /\ \A x \in A :
            /\ Size(p, x) = Size(put, x) /\ FreeFlag(p, x) = FreeFlag(put, x)
            /\ NextPhys(p, x) = IF x = last THEN b ELSE NextPhys(put, x)
            /\ PrevPhys(p, x) = PrevPhys(put, x)
            /\ NextFree(p, x) = NextFree(put, x)
            /\ PrevFree(p, x) = PrevFree(put, x)
  <2>1. CASE last = NULL
    <3>1. p = [written EXCEPT !.first_phys_block = b]
      BY <1>9, <2>1, Zenon
    <3>2. /\ Typed(p) /\ p.mem = written.mem /\ p.bytes = written.bytes
          /\ p.brk = written.brk /\ p.free_list_head = written.free_list_head
          /\ p.first_phys_block = b /\ p.last_phys_block = written.last_phys_block
      BY <1>8, <3>1, FirstSet
    <3>3. \A x \in A : x # last
      BY <1>2, <1>5, <1>13, <2>1
    <3> QED BY <1>8, <2>1, <3>2, <3>3
         DEF Size, FreeFlag, NextPhys, PrevPhys, NextFree, PrevFree
  <2>2. CASE last # NULL
    <3>1. p = [written EXCEPT !.mem[last].next_phys = b]
      BY <1>9, <2>2, Zenon
    <3>2. last \in DOMAIN written.mem /\ A \subseteq DOMAIN written.mem
      BY <1>5, <1>6, <1>8, <2>2
    <3>3. /\ Wrote(written, p, last, Size(written, last), FreeFlag(written, last), b,
                   PrevPhys(written, last), NextFree(written, last),
                   PrevFree(written, last))
          /\ SameHead(written, p) /\ SameLast(written, p)
      BY <1>8, <3>1, <3>2, NextPhysSet
    <3> QED BY <1>8, <1>12, <2>2, <3>2, <3>3 DEF Wrote, SameHead, SameLast
  <2> QED BY <2>1, <2>2
<1>15. b \in A /\ b # last /\ (\A x \in B : x \in A)
  BY <1>2, <1>5
<1>16. SameFree(h, p, B)
  BY <1>6, <1>10, <1>14, <1>15 DEF SameFree
<1>17. \A x \in B : /\ Size(p, x) = Size(h, x) /\ PrevPhys(p, x) = PrevPhys(h, x)
                    /\ NextPhys(p, x) = IF x = last THEN b ELSE NextPhys(h, x)
  BY <1>10, <1>14, <1>15
<1>18. /\ FreeFlag(p, b) = TRUE /\ Size(p, b) = m /\ NextPhys(p, b) = NULL
       /\ PrevPhys(p, b) = last
  BY <1>11, <1>14, <1>15
<1>19. \A a \in BrkStart..BrkLimit - 1 :
         a \notin Stretch(b, Hdr) => ByteAt(p, a) = ByteAt(h, a)
  <2>1. \A a : ByteAt(p, a) = ByteAt(put, a)
    BY <1>14, Zenon DEF ByteAt
  <2> QED BY <1>6, <2>1, Zenon
<1> QED BY <1>5, <1>6, <1>14, <1>16, <1>17, <1>18, <1>19, Zenon DEF Chained

\* The new block takes its place behind the others.
LEMMA ChainedTiles ==
  ASSUME NEW h, NEW B, Tiled(h, B), NEW b, b = RoundUp(h.brk, Align),
         NEW m \in Nat, Aligned(m), b + Hdr + m <= BrkLimit,
         NEW moved, Moved(h, moved, b + Hdr + m),
         NEW p, Chained(moved, p, B, b, m)
  PROVE  Tiled(p, B \cup {b})
<1>1. /\ b \in Nat /\ Aligned(b) /\ h.brk <= b /\ BrkStart <= b /\ b # NULL
      /\ h.brk \in Nat /\ Start <= b
      /\ B # {} => b = h.brk
      /\ B = {} /\ Whole(h) => b = Start
  BY BreakRounds
<1>2. PICK new \in Nat : new = b + Hdr + m
  BY <1>1, LayoutAssumption
<1>3. new \in BrkStart..BrkLimit /\ b < new
  BY <1>1, <1>2, LayoutAssumption, BreakAssumption
<1>4. PICK A : A = B \cup {b}
  OBVIOUS
<1>5. PICK last : last = h.last_phys_block
  OBVIOUS
<1>6. /\ B = {} => last = NULL /\ h.first_phys_block = NULL
      /\ B # {} => /\ last \in B /\ NextPhys(h, last) = NULL
                   /\ h.first_phys_block \in B
                   /\ PrevPhys(h, h.first_phys_block) = NULL
                   /\ Whole(h) => h.first_phys_block = Start
  BY <1>5 DEF Tiled
<1>7. \A x \in B : /\ x \in Nat \ {0} /\ x < EndAt(h, x) /\ EndAt(h, x) <= h.brk
                   /\ EndAt(h, x) \in Nat /\ x # b /\ x < b
                   /\ Seated(h, B, x) /\ Ahead(h, B, x) /\ Behind(h, B, x)
  BY <1>1, TileNumbers DEF Tiled, InPlace
<1>8. B # {} => last # NULL
  BY <1>6, <1>7 DEF NULL
<1>9. /\ Typed(p) /\ A \subseteq DOMAIN p.mem /\ p.brk = new
      /\ p.first_phys_block = IF last = NULL THEN b ELSE h.first_phys_block
      /\ p.last_phys_block = b
      /\ Size(p, b) = m /\ NextPhys(p, b) = NULL /\ PrevPhys(p, b) = last
      /\ \A x \in B : /\ Size(p, x) = Size(h, x) /\ PrevPhys(p, x) = PrevPhys(h, x)
                      /\ NextPhys(p, x) = IF x = last THEN b ELSE NextPhys(h, x)
  BY <1>2, <1>4, <1>5 DEF Chained, Moved, Size, NextPhys, PrevPhys
<1>10. EndAt(p, b) = new /\ \A x \in B : EndAt(p, x) = EndAt(h, x)
  BY <1>2, <1>9 DEF EndAt
<1>11. Whole(p) => Whole(h)
  BY <1>1, <1>3, <1>9, BreakAssumption, LayoutAssumption DEF Whole, Half
<1>12. InPlace(p, A, b)
  <2>1. \A a \in A : a < b => EndAt(p, a) <= b
    BY <1>1, <1>4, <1>7, <1>10
  <2>2. Seated(p, A, b)
    BY <1>1, <1>9, <1>10, <2>1 DEF Seated
  <2>3. \A a \in A : a <= b
    BY <1>1, <1>4, <1>7
  <2>4. Outermost(p, A, b)
    BY <1>9, <1>10, <2>3 DEF Outermost
  <2>5. Ahead(p, A, b)
    BY <1>9, <2>4 DEF Ahead
  <2>6. Behind(p, A, b)
    BY <1>4, <1>6, <1>9 DEF Behind
  <2> QED BY <2>2, <2>5, <2>6 DEF InPlace
<1>13. ASSUME NEW x \in B PROVE InPlace(p, A, x)
  <2>1. /\ B # {} /\ x \in Nat \ {0} /\ x < b /\ last # NULL
        /\ Seated(h, B, x) /\ Ahead(h, B, x) /\ Behind(h, B, x)
    BY <1>7, <1>8
  <2>2. \A a \in A : a < x => EndAt(p, a) <= x
    <3>1. ASSUME NEW a \in A, a < x PROVE EndAt(p, a) <= x
      <4>1. a \in B
        BY <1>1, <1>4, <2>1, <3>1
      <4> QED BY <1>10, <2>1, <3>1, <4>1 DEF Seated
    <3> QED BY <3>1
  <2>3. EndAt(h, x) <= new
    BY <1>1, <1>3, <1>7
  <2>4. Seated(p, A, x)
    BY <1>9, <1>10, <2>1, <2>2, <2>3 DEF Seated
  <2>5. Ahead(p, A, x)
    <3>1. CASE x = last
      <4>1. Outermost(h, B, x)
        BY <1>6, <2>1, <3>1 DEF Ahead
      <4>2. \A a \in A : x < a => b <= a
        BY <1>1, <1>4, <1>7, <4>1 DEF Outermost
      <4>3. Whole(p) => EndAt(p, x) = b
        BY <1>1, <1>10, <1>11, <2>1, <4>1 DEF Outermost
      <4>4. Adjacent(p, A, x, b)
        BY <1>4, <2>1, <4>2, <4>3 DEF Adjacent
      <4> QED BY <1>1, <1>9, <3>1, <4>4 DEF Ahead
    <3>2. CASE x # last
      <4>1. PICK y : y = NextPhys(h, x)
        OBVIOUS
      <4>2. y # NULL
        BY <1>5, <2>1, <3>2, <4>1 DEF Ahead, Outermost
      <4>3. Adjacent(h, B, x, y) /\ PrevPhys(h, y) = x
        BY <2>1, <4>1, <4>2 DEF Ahead
      <4>4. y \in B /\ y < b /\ \A a \in A : x < a => y <= a
        BY <1>1, <1>4, <1>7, <4>3 DEF Adjacent
      <4>5. Adjacent(p, A, x, y)
        BY <1>4, <1>10, <1>11, <4>3, <4>4 DEF Adjacent
      <4> QED BY <1>9, <3>2, <4>1, <4>2, <4>3, <4>4, <4>5 DEF Ahead
    <3> QED BY <3>1, <3>2
  <2>6. Behind(p, A, x)
    <3>1. PICK y : y = PrevPhys(h, x)
      OBVIOUS
    <3>2. CASE y = NULL
      BY <1>9, <2>1, <3>1, <3>2 DEF Behind
    <3>3. CASE y # NULL
      <4>1. y \in B /\ NextPhys(h, y) = x
        BY <2>1, <3>1, <3>3 DEF Behind
      <4>2. y # last
        BY <1>6, <2>1, <4>1 DEF NULL
      <4> QED BY <1>4, <1>9, <3>1, <3>3, <4>1, <4>2 DEF Behind
    <3> QED BY <3>2, <3>3
  <2> QED BY <2>4, <2>5, <2>6 DEF InPlace
<1>14. Tiled(p, A)
  <2>1. Aligned(new)
    <3>1. Aligned(Hdr)
      BY AlignedMod, LayoutAssumption
    <3>2. Aligned(b + Hdr)
      BY <1>1, <3>1, AlignedSum, LayoutAssumption
    <3>3. Aligned(b + Hdr + m)
      BY <1>1, <3>2, AlignedSum, LayoutAssumption
    <3> QED BY <1>2, <3>3
  <2>2. /\ p.first_phys_block \in A /\ PrevPhys(p, p.first_phys_block) = NULL
        /\ Whole(p) => p.first_phys_block = Start
    <3>1. CASE B = {}
      BY <1>1, <1>4, <1>6, <1>9, <1>11, <3>1
    <3>2. CASE B # {}
      BY <1>4, <1>6, <1>8, <1>9, <1>11, <3>2
    <3> QED BY <3>1, <3>2
  <2>3. \A x \in A : InPlace(p, A, x)
    BY <1>4, <1>12, <1>13
  <2>4. A # {} /\ b \in A
    BY <1>4
  <2> QED BY <1>3, <1>9, <2>1, <2>2, <2>3, <2>4 DEF Tiled
<1> QED BY <1>4, <1>14

\* The allocator has a free block b of at least m bytes, and U in use.
Offers(h, b, m, U) ==
  \E B, S : Sound(h, B, S) /\ U = B \ S /\ b \in S /\ Size(h, b) >= m

\* The chunk the heap grows by.
LEMMA ChunkFits ==
  ASSUME NEW needed, Room(needed),
         NEW total, total = Word(needed + Hdr),
         NEW chunk, chunk = IF total > Chunk THEN RoundUp(total, Page) ELSE Chunk
  PROVE  /\ chunk \in Nat /\ Aligned(chunk) /\ needed + Hdr <= chunk /\ Hdr < chunk
         /\ BrkLimit + Align + chunk <= WordMod
<1>1. /\ needed \in Nat /\ Hdr \in Nat \ {0} /\ Align \in Nat \ {0}
      /\ Page \in Nat \ {0} /\ Chunk \in Nat \ {0} /\ WordMod \in Nat /\ BrkLimit \in Nat
      /\ BrkLimit + needed + Align + Hdr + Page <= WordMod
      /\ Hdr < Chunk /\ BrkLimit + Align + Chunk <= WordMod
  BY LayoutAssumption, BreakAssumption, RoomAssumption DEF Room
<1>2. total = needed + Hdr
  <2>1. needed + Hdr \in 0..WordMod - 1
    BY <1>1
  <2> QED BY <2>1, WordIs
<1>3. CASE total > Chunk
  <2>1. total \in Nat /\ total + Page - 1 < WordMod
    BY <1>1, <1>2
  <2>2. PICK k \in Nat : RoundUp(total, Page) = k * Page
    BY <1>1, <2>1, RoundUpIs
  <2>3. RoundUp(total, Page) \in Nat /\ total <= RoundUp(total, Page)
        /\ RoundUp(total, Page) < total + Page
    BY <1>1, <2>1, RoundUpIs
  <2>4. chunk = RoundUp(total, Page)
    BY <1>3, Zenon
  <2>5. PICK j \in Int : Page = j * Align
    BY <1>1, AlignedMod, LayoutAssumption DEF Aligned
  <2>6. k * Page = (k * j) * Align
    BY <1>1, <2>5
  <2>7. Aligned(chunk)
    BY <2>2, <2>4, <2>6 DEF Aligned
  <2> QED BY <1>1, <1>2, <1>3, <2>3, <2>4, <2>7
<1>4. CASE ~(total > Chunk)
  <2>1. chunk = Chunk
    BY <1>4, Zenon
  <2>2. Aligned(Chunk)
    BY <1>1, AlignedMod, LayoutAssumption
  <2> QED BY <1>1, <1>2, <1>4, <2>1, <2>2
<1> QED BY <1>3, <1>4

\* A block was found for m bytes, or none.
Found(h, new, b, m, U) ==
  /\ Keeps(h, new, U)
  /\ b = NULL => Usable(new, U)
  /\ b # NULL => Offers(new, b, m, U)

\* The heap whose break did not move to a new chunk, or crossed.
LEMMA RefusedSound ==
  ASSUME NEW h, NEW B, NEW S, Sound(h, B, S), NEW b, b = RoundUp(h.brk, Align),
         NEW brk \in Nat, Aligned(brk), b <= brk, brk <= BrkLimit,
         NEW r, r = h \/ Moved(h, r, brk),
         r # h => (Whole(r) => brk = b)
  PROVE  Sound(r, B, S) /\ Keeps(h, r, B)
<1>1. CASE r = h
  BY <1>1 DEF Keeps, Kept
<1>2. CASE r # h
  <2>1. Tiled(h, B) /\ S \subseteq B /\ OnFreeList(h, S) /\ Flags(h, B, S)
        /\ B \subseteq DOMAIN h.mem
    BY DEF Sound, Tiled
  <2>2. Tiled(r, B)
    BY <1>2, <2>1, MovedTiles
  <2>3. r.mem = h.mem /\ r.bytes = h.bytes /\ r.free_list_head = h.free_list_head
    BY <1>2 DEF Moved
  <2>4. SameFree(h, r, B) /\ B \subseteq DOMAIN r.mem
    BY <2>1, <2>3 DEF SameFree, FreeFlag, NextFree, PrevFree
  <2>5. OnFreeList(r, S) /\ Flags(r, B, S)
    BY <2>1, <2>4, SameFreeKeeps
  <2>6. Keeps(h, r, B)
    BY <2>3, Zenon DEF Keeps, Kept, Size, ByteAt
  <2> QED BY <2>1, <2>2, <2>5, <2>6 DEF Sound
<1> QED BY <1>1, <1>2

\* What is kept of some blocks is kept of fewer.
LEMMA KeepsSome ==
  ASSUME NEW h, NEW r, NEW U, Keeps(h, r, U), NEW V, V \subseteq U
  PROVE  Keeps(h, r, V)
BY DEF Keeps

\* Bytes outside the blocks: only those from the address from on may differ.
LEMMA BelowKept ==
  ASSUME NEW h, NEW B, Tiled(h, B), NEW r, NEW from \in Nat, NEW U, U \subseteq B,
         \A x \in U : EndAt(h, x) <= from /\ Size(r, x) = Size(h, x),
         \A a \in BrkStart..BrkLimit - 1 : a < from => ByteAt(r, a) = ByteAt(h, a)
  PROVE  Keeps(h, r, U)
<1>1. ASSUME NEW x \in U, NEW a \in Stretch(x + Hdr, Size(h, x))
      PROVE  ByteAt(r, a) = ByteAt(h, a)
  <2>1. /\ x \in Nat \ {0} /\ Size(h, x) \in Nat /\ EndAt(h, x) = x + Hdr + Size(h, x)
        /\ EndAt(h, x) <= h.brk /\ h.brk \in Nat /\ h.brk <= BrkLimit
        /\ Start <= x /\ EndAt(h, x) <= from /\ EndAt(h, x) \in Nat
    BY TileNumbers DEF Tiled, InPlace, Seated
  <2>2. BrkStart <= Start /\ Start \in Nat /\ Hdr \in Nat /\ BrkStart \in Nat
        /\ BrkLimit \in Nat
    <3>1. BrkStart + Align - 1 < WordMod
      BY RoomAssumption, BreakAssumption, LayoutAssumption
    <3> QED BY <3>1, RoundUpIs, LayoutAssumption, BreakAssumption DEF Start
  <2>3. a \in Int /\ x + Hdr <= a /\ a < x + Hdr + Size(h, x)
    BY <2>1, <2>2 DEF Stretch
  <2> QED BY <2>1, <2>2, <2>3
<1> QED BY <1>1 DEF Keeps, Kept

\* request_space from the place where the break is read, and from where it
\* is moved.
Request(h, last, moved, b, chunk) ==
  LET listed == InsertFreeBlock(Chain(moved, last, b, chunk - Hdr), b)
  IN IF Signed(moved.brk) <= Signed(b) THEN [heap |-> moved, block |-> NULL]
     ELSE IF last # NULL /\ h.mem[last].is_free
     THEN [heap |-> Absorb(RemoveFreeBlock(listed, b), last, b), block |-> last]
     ELSE [heap |-> listed, block |-> b]

Asked(h, last, b, chunk) ==
  LET aligned == IF b # h.brk THEN SysBrk(h, b) ELSE h
      moved   == SysBrk(aligned, Word(b + chunk))
  IN Request(h, last, moved, b, chunk)

\* request_space yields a free block that is large enough, or none, and keeps the
\* blocks in use.
LEMMA RequestFinds ==
  ASSUME NEW h, NEW B, NEW S, Sound(h, B, S), NEW needed, Room(needed),
         NEW U, U = B \ S,
         NEW q, q = RequestSpace(h, needed)
  PROVE  Found(h, q.heap, q.block, needed, U)
<1>1. Tiled(h, B) /\ S \subseteq B /\ OnFreeList(h, S) /\ Flags(h, B, S)
      /\ B \subseteq DOMAIN h.mem /\ Typed(h)
  BY DEF Sound, Tiled
<1>2. PICK total : total = Word(needed + Hdr)
  OBVIOUS
<1>3. PICK chunk : chunk = IF total > Chunk THEN RoundUp(total, Page) ELSE Chunk
  OBVIOUS
<1>4. /\ chunk \in Nat /\ Aligned(chunk) /\ needed + Hdr <= chunk /\ Hdr < chunk
      /\ BrkLimit + Align + chunk <= WordMod /\ needed \in Nat
  BY <1>2, <1>3, ChunkFits DEF Room
<1>5. PICK b : b = RoundUp(h.brk, Align)
  OBVIOUS
<1>6. /\ b \in Nat /\ Aligned(b) /\ h.brk <= b /\ b < h.brk + Align /\ BrkStart <= b
      /\ h.brk \in Nat /\ h.brk <= BrkLimit /\ b # NULL
      /\ B # {} => b = h.brk
      /\ b # h.brk => h.brk = BrkStart /\ b = Start
  BY <1>1, <1>5, BreakRounds
<1>7. PICK new \in Nat : new = b + chunk
  BY <1>4, <1>6
<1>8. Word(b + chunk) = new
  <2>1. new \in 0..WordMod - 1
    BY <1>4, <1>6, <1>7, LayoutAssumption, BreakAssumption
  <2> QED BY <1>7, <2>1, WordIs
<1>9. PICK aligned : aligned = IF b # h.brk THEN SysBrk(h, b) ELSE h
  OBVIOUS
<1>10. PICK moved : moved = SysBrk(aligned, new)
  OBVIOUS
<1>11. PICK last : last = h.last_phys_block
  OBVIOUS
<1>12. PICK p : p = Chain(moved, last, b, chunk - Hdr)
  OBVIOUS
<1>13. PICK listed : listed = InsertFreeBlock(p, b)
  OBVIOUS
<1>14. moved.last_phys_block = last
  <2>1. aligned.last_phys_block = last /\ Typed(aligned)
    <3>1. CASE b # h.brk
      <4>1. aligned = SysBrk(h, b)
        BY <1>9, <3>1, Zenon
      <4> QED BY <1>1, <1>11, <4>1, SysBrkGives DEF Moved
    <3>2. CASE b = h.brk
      <4>1. aligned = h
        BY <1>9, <3>2, Zenon
      <4> QED BY <1>1, <1>11, <4>1
    <3> QED BY <3>1, <3>2
  <2> QED BY <1>10, <2>1, SysBrkGives DEF Moved
<1>15. q = IF Signed(moved.brk) <= Signed(b) THEN [heap |-> moved, block |-> NULL]
           ELSE IF last # NULL /\ h.mem[last].is_free
           THEN [heap |-> Absorb(RemoveFreeBlock(listed, b), last, b), block |-> last]
           ELSE [heap |-> listed, block |-> b]
  <2>1. q = Asked(h, last, b, chunk)
    BY <1>2, <1>3, <1>5, <1>11, Zenon DEF RequestSpace, Asked, Request, Chain
  <2>2. q = Request(h, last, moved, b, chunk)
    BY <1>8, <1>9, <1>10, <2>1, Zenon DEF Asked
  <2> QED BY <1>12, <1>13, <2>2, Zenon DEF Request
<1>16. \/ aligned = h /\ (b = h.brk \/ b > BrkLimit)
       \/ b <= BrkLimit /\ Moved(h, aligned, b)
  <2>1. CASE b # h.brk
    <3>1. aligned = SysBrk(h, b)
      BY <1>9, <2>1, Zenon
    <3>2. b \in BrkStart..BrkLimit <=> b <= BrkLimit
      BY <1>6, BreakAssumption
    <3>3. CASE b <= BrkLimit
      BY <1>1, <3>1, <3>2, <3>3, SysBrkGives
    <3>4. CASE ~(b <= BrkLimit)
      <4>1. aligned = h
        BY <1>1, <3>1, <3>2, <3>4, SysBrkGives
      <4> QED BY <1>6, <3>4, <4>1, BreakAssumption
    <3> QED BY <3>3, <3>4
  <2>2. CASE b = h.brk
    BY <1>9, <2>2, Zenon
  <2> QED BY <2>1, <2>2
<1>17. Aligned(new) /\ h.brk <= b /\ b < new /\ new < WordMod
  <2>1. new < WordMod
    BY <1>4, <1>6, <1>7, LayoutAssumption, BreakAssumption
  <2> QED BY <1>4, <1>6, <1>7, <2>1, AlignedSum, LayoutAssumption
<1>18. ASSUME q = [heap |-> moved, block |-> NULL], Sound(moved, B, S), Keeps(h, moved, B)
       PROVE  Found(h, q.heap, q.block, needed, U)
  <2>1. q.heap = moved /\ q.block = NULL
    BY <1>18
  <2>2. Usable(moved, U) /\ Keeps(h, moved, U)
    <3>1. U \subseteq B
      OBVIOUS
    <3> QED BY <1>18, <3>1, KeepsSome DEF Usable
  <2> QED BY <2>1, <2>2 DEF Found
<1>19. CASE new > BrkLimit
  <2>1. moved = aligned
    <3>1. new \notin BrkStart..BrkLimit /\ Typed(aligned)
      BY <1>1, <1>7, <1>16, <1>19, BreakAssumption DEF Moved
    <3> QED BY <1>10, <3>1, SysBrkGives
  <2>2. Signed(moved.brk) <= Signed(b)
    <3>1. CASE moved.brk = b
      BY <3>1, LayoutAssumption, <1>6 DEF Signed
    <3>2. CASE moved.brk # b
      <4>1. moved.brk = h.brk /\ b # h.brk /\ b > BrkLimit
        BY <1>16, <2>1, <3>2 DEF Moved
      <4>2. ~(h.brk < Half /\ Half <= b)
        BY <1>6, <4>1, AlignableAssumption, BreakAssumption DEF Start
      <4> QED BY <1>6, <1>17, <4>1, <4>2, SignedOrder, LayoutAssumption
    <3> QED BY <3>1, <3>2
  <2>3. q = [heap |-> moved, block |-> NULL]
    BY <1>15, <2>2, Zenon
  <2>4. Sound(moved, B, S) /\ Keeps(h, moved, B)
    <3>1. CASE aligned = h
      BY <2>1, <3>1 DEF Keeps, Kept
    <3>2. CASE b <= BrkLimit /\ Moved(h, aligned, b)
      BY <1>5, <1>6, <2>1, <3>2, RefusedSound
    <3> QED BY <1>16, <3>1, <3>2
  <2> QED BY <1>18, <2>3, <2>4
<1>20. ASSUME new <= BrkLimit
       PROVE  Moved(h, moved, new) /\ b <= BrkLimit
  <2>1. b <= BrkLimit /\ new \in BrkStart..BrkLimit
    BY <1>6, <1>17, <1>20, BreakAssumption
  <2>2. Typed(aligned)
    BY <1>1, <1>16 DEF Moved
  <2>3. Moved(aligned, moved, new)
    BY <1>10, <2>1, <2>2, SysBrkGives
  <2> QED BY <1>16, <2>1, <2>3 DEF Moved
<1>21. CASE new <= BrkLimit /\ Signed(new) <= Signed(b)
  <2>1. Moved(h, moved, new)
    BY <1>20, <1>21
  <2>2. q = [heap |-> moved, block |-> NULL]
    <3>1. Signed(moved.brk) <= Signed(b)
      BY <1>21, <2>1 DEF Moved
    <3> QED BY <1>15, <3>1, Zenon
  <2>3. b < Half /\ Half <= new
    BY <1>6, <1>17, <1>21, SignedOrder
  <2>4. ~Whole(moved)
    BY <1>6, <2>1, <2>3, BreakAssumption, LayoutAssumption DEF Moved, Whole, Half
  <2>5. Sound(moved, B, S) /\ Keeps(h, moved, B)
    BY <1>5, <1>6, <1>17, <1>21, <2>1, <2>4, RefusedSound
  <2> QED BY <1>18, <2>2, <2>5
<1>22. CASE new <= BrkLimit /\ ~(Signed(new) <= Signed(b))
  <2>1. b <= BrkLimit /\ new \in BrkStart..BrkLimit /\ b < new
    BY <1>6, <1>17, <1>20, <1>22, BreakAssumption
  <2>2. Moved(h, moved, new)
    BY <1>20, <1>22
  <2>3. moved.brk = new /\ ~(Signed(moved.brk) <= Signed(b))
    BY <1>22, <2>2 DEF Moved
  <2>4. PICK m \in Nat : m = chunk - Hdr
    BY <1>4, LayoutAssumption
  <2>5. /\ b + Hdr + m = new /\ needed <= m /\ Hdr + m = chunk
    BY <1>4, <1>6, <1>7, <2>4, LayoutAssumption
  <2>6. Aligned(m)
    <3>1. Aligned(Hdr)
      BY AlignedMod, LayoutAssumption
    <3> QED BY <1>4, <2>4, <3>1, AlignedSum, LayoutAssumption
  <2>7. \A x \in B : /\ x \in Nat \ {0} /\ x < EndAt(h, x) /\ EndAt(h, x) <= b
                     /\ EndAt(h, x) \in Nat /\ x # b /\ x + Hdr <= b
    BY <1>1, <1>6, TileNumbers, LayoutAssumption
  <2>8. last \in Nat /\ (last # NULL => last \in B)
        /\ (B # {} => last \in B) /\ (B = {} => last = NULL)
    BY <1>1, <1>11, <2>7 DEF Tiled, NULL
  <2>9. Chained(moved, p, B, b, m)
    <3>1. /\ Typed(moved) /\ B \in SUBSET DOMAIN moved.mem /\ b \in Nat \ {0}
          /\ b \notin B /\ \A x \in B : x + Hdr <= b
      BY <1>1, <1>6, <2>2, <2>7 DEF Moved, NULL
    <3>2. p = Chain(moved, last, b, m)
      BY <1>12, <2>4
    <3> QED BY <1>14, <2>8, <3>1, <3>2, ChainGives
  <2>10. PICK A : A = B \cup {b}
    OBVIOUS
  <2>11. Tiled(p, A)
    <3>1. Moved(h, moved, b + Hdr + m) /\ b + Hdr + m <= BrkLimit
      BY <2>1, <2>2, <2>5
    <3> QED BY <1>1, <1>5, <2>6, <2>9, <2>10, <3>1, ChainedTiles
  <2>12. OnFreeList(p, S) /\ Flags(p, B, S)
    <3>1. SameFree(h, p, B)
      BY <2>2, <2>9 DEF Chained, Moved, SameFree, FreeFlag, NextFree, PrevFree
    <3>2. B \subseteq DOMAIN p.mem
      BY <2>9 DEF Chained
    <3> QED BY <1>1, <3>1, <3>2, SameFreeKeeps
  <2>13. S \in SUBSET A /\ b \in A /\ b \notin S /\ A \ {b} = B
    BY <1>1, <2>7, <2>10
  <2>14. SamePhys(p, listed) /\ Sound(listed, A, S \cup {b})
    BY <1>13, <2>11, <2>12, <2>13, InsertSound
  <2>15. /\ \A x \in B : Size(p, x) = Size(h, x)
         /\ Size(p, b) = m /\ NextPhys(p, b) = NULL
         /\ last # NULL => NextPhys(p, last) = b
         /\ \A a \in BrkStart..BrkLimit - 1 :
              a \notin Stretch(b, Hdr) => ByteAt(p, a) = ByteAt(h, a)
    <3>1. /\ \A x \in B : Size(moved, x) = Size(h, x)
          /\ \A a : ByteAt(moved, a) = ByteAt(h, a)
      BY <2>2, Zenon DEF Moved, Size, ByteAt
    <3> QED BY <1>14, <2>8, <2>9, <3>1 DEF Chained
  <2>16. /\ \A x \in A : Size(listed, x) = Size(p, x) /\ NextPhys(listed, x) = NextPhys(p, x)
         /\ listed.bytes = p.bytes
    <3>1. A \subseteq DOMAIN p.mem
      BY <2>11 DEF Tiled
    <3> QED BY <2>14, <3>1 DEF SamePhys
  <2>17. \A a \in BrkStart..BrkLimit - 1 :
           a < b => ByteAt(listed, a) = ByteAt(h, a)
    <3>1. \A a : ByteAt(listed, a) = ByteAt(p, a)
      BY <2>16, Zenon DEF ByteAt
    <3>2. \A a \in BrkStart..BrkLimit - 1 : a < b => a \notin Stretch(b, Hdr)
      BY <1>6, LayoutAssumption DEF Stretch
    <3> QED BY <2>15, <3>1, <3>2
  <2>18. CASE ~(last # NULL /\ h.mem[last].is_free)
    <3>1. q = [heap |-> listed, block |-> b]
      BY <1>15, <2>3, <2>18, Zenon
    <3>2. q.heap = listed /\ q.block = b
      BY <3>1
    <3>3. U = A \ (S \cup {b}) /\ b \in S \cup {b} /\ Size(listed, b) >= needed
      BY <1>4, <2>5, <2>10, <2>13, <2>15, <2>16
    <3>4. Offers(listed, b, needed, U)
      BY <2>14, <3>3 DEF Offers
    <3>5. Keeps(h, listed, U)
      <4>1. U \subseteq B /\ \A x \in U : EndAt(h, x) <= b /\ Size(listed, x) = Size(h, x)
        BY <2>7, <2>10, <2>15, <2>16
      <4> QED BY <1>1, <1>6, <2>17, <4>1, BelowKept
    <3> QED BY <1>6, <3>2, <3>4, <3>5 DEF Found
  <2>19. CASE last # NULL /\ h.mem[last].is_free
    <3>1. PICK cleared : cleared = RemoveFreeBlock(listed, b)
      OBVIOUS
    <3>2. PICK r : r = Absorb(cleared, last, b)
      OBVIOUS
    <3>3. q = [heap |-> r, block |-> last]
      BY <1>15, <2>3, <2>19, <3>1, <3>2, Zenon
    <3>4. q.heap = r /\ q.block = last
      BY <3>3
    <3>5. last \in B /\ last \in S
      BY <1>1, <2>8, <2>19 DEF Flags, FreeFlag
    <3>6. (S \cup {b}) \ {b} = S /\ A \ {b} = B /\ last \in A /\ b \in S \cup {b}
          /\ b \in A /\ last # b
      BY <2>7, <2>10, <2>13, <3>5
    <3>7. SamePhys(listed, cleared) /\ Sound(cleared, A, S)
      BY <2>14, <3>1, <3>6, RemoveSound
    <3>8. /\ \A x \in A : Size(cleared, x) = Size(p, x) /\ NextPhys(cleared, x) = NextPhys(p, x)
          /\ cleared.bytes = listed.bytes
      <4>1. A \subseteq DOMAIN listed.mem
        BY <2>14 DEF Sound, Tiled
      <4> QED BY <2>16, <3>7, <4>1 DEF SamePhys
    <3>9. NextPhys(cleared, last) = b
      BY <2>15, <2>19, <3>6, <3>8
    <3>10. Merged(cleared, r, A, last, b) /\ Sound(r, B, S)
      BY <1>6, <2>13, <3>2, <3>6, <3>7, <3>9, AbsorbSound
    <3>11. /\ Size(r, last) = Size(cleared, last) + Hdr + Size(cleared, b)
           /\ r.bytes = cleared.bytes
           /\ \A x \in B : x # last => Size(r, x) = Size(h, x)
      BY <2>10, <2>15, <3>8, <3>10 DEF Merged
    <3>12. Size(r, last) >= needed
      <4>1. Size(cleared, last) = Size(h, last) /\ Size(cleared, b) = m
        BY <2>15, <3>5, <3>6, <3>8
      <4>2. Size(h, last) \in Nat
        BY <1>1, <3>5, TileNumbers
      <4> QED BY <1>4, <2>5, <3>11, <4>1, <4>2, LayoutAssumption
    <3>13. Offers(r, last, needed, U)
      BY <3>5, <3>10, <3>12 DEF Offers
    <3>14. Keeps(h, r, U)
      <4>1. U \subseteq B /\ \A x \in U : EndAt(h, x) <= b /\ Size(r, x) = Size(h, x)
        BY <2>7, <3>5, <3>11
      <4>2. \A a : ByteAt(r, a) = ByteAt(listed, a)
        BY <3>8, <3>11, Zenon DEF ByteAt
      <4>3. \A a \in BrkStart..BrkLimit - 1 : a < b => ByteAt(r, a) = ByteAt(h, a)
        BY <2>17, <4>2
      <4> QED BY <1>1, <1>6, <4>1, <4>3, BelowKept
    <3> QED BY <2>19, <3>4, <3>13, <3>14 DEF Found
  <2> QED BY <2>18, <2>19
<1>23. new > BrkLimit \/ new <= BrkLimit
  BY <1>7, BreakAssumption
<1> QED BY <1>19, <1>21, <1>22, <1>23

-----------------------------------------------------------------------------
(***************************************************************************)
(* Walks along the lists of a heap.                                        *)
(***************************************************************************)
\* at meets the members of S, each once, and prev leads back.
Covers(at, n, S, prev) ==
  /\ \A k \in 0..n : at[k] \in S \cup {NULL}
  /\ \A x \in S : \E k \in 0..n : at[k] = x
  /\ \A j, k \in 0..n : at[j] # NULL /\ at[j] = at[k] => j = k
  /\ \A k \in 0..n : at[k] # NULL =>
       prev[at[k]] = IF k = 0 THEN NULL ELSE at[k - 1]

\* A walk along a list of no more than n members meets each of them once.
LEMMA WalkCovers ==
  ASSUME NEW S, NEW head, NEW next, NEW prev, NEW rank,
         IsList(S, head, next, prev, rank),
         NEW M, IsFiniteSet(M), S \subseteq M,
         NEW n, n = Cardinality(M),
         NEW at, Walks(at, S, head, next, n)
  PROVE  Covers(at, n, S, prev)
<1>1. n \in Nat
  BY FS_CardinalityType
<1>2. \A k \in 0..n : at[k] \in S \cup {NULL}
  BY <1>1, WalkStays
<1>3. \A x \in S : \E k \in 0..n : at[k] = x
  BY WalkReaches
<1>4. \A j, k \in 0..n : j < k /\ at[k] # NULL =>
        at[j] # NULL /\ rank[at[j]] < rank[at[k]]
  BY <1>1, WalkGrows
<1>5. ASSUME NEW j \in 0..n, NEW k \in 0..n, at[j] # NULL, at[j] = at[k] PROVE j = k
  <2>1. at[j] \in S /\ rank[at[j]] \in Nat
    BY <1>2, <1>5 DEF IsList
  <2>2. ~(j < k) /\ ~(k < j)
    BY <1>4, <1>5, <2>1
  <2> QED BY <2>2
<1>6. ASSUME NEW k \in 0..n, at[k] # NULL
      PROVE  prev[at[k]] = IF k = 0 THEN NULL ELSE at[k - 1]
  <2>1. CASE k = 0
    BY <1>6, <2>1 DEF IsList, Walks
  <2>2. CASE k # 0
    <3>1. k \in 1..n /\ k - 1 \in 0..n /\ k - 1 < k
      BY <1>1, <2>2
    <3>2. at[k - 1] # NULL
      BY <1>4, <1>6, <3>1
    <3>3. at[k - 1] \in S
      BY <1>2, <3>1, <3>2
    <3>4. at[k] = next[at[k - 1]]
      BY <3>1, <3>3 DEF Walks
    <3>5. prev[at[k]] = at[k - 1]
      BY <1>6, <3>3, <3>4, Zenon DEF IsList
    <3> QED BY <2>2, <3>5
  <2> QED BY <2>1, <2>2
<1> QED BY <1>2, <1>3, <1>5, <1>6 DEF Covers

\* The place behind x on the free list or on the physical one.
Follow(h, list, x) ==
  IF x = NULL THEN NULL
  ELSE IF list = "free" THEN h.mem[x].next_free ELSE h.mem[x].next_phys

IsWalk(at, h, list, head, n) ==
  at = [k \in 0..n |-> IF k = 0 THEN head ELSE Follow(h, list, at[k - 1])]

\* The recursive function of a walk exists, for every length.
LEMMA WalkExists ==
  ASSUME NEW h, NEW list, NEW head, NEW m \in Nat
  PROVE  \E at : IsWalk(at, h, list, head, m)
<1> DEFINE S == {n \in Nat : \E at : IsWalk(at, h, list, head, n)}
<1>1. 0 \in S
  <2> DEFINE g == [k \in 0..0 |-> head]
  <2>1. \A k \in 0..0 : k = 0
    OBVIOUS
  <2>2. g = [k \in 0..0 |-> IF k = 0 THEN head ELSE Follow(h, list, g[k - 1])]
    BY <2>1, Zenon
  <2>3. IsWalk(g, h, list, head, 0)
    BY <2>2, Zenon DEF IsWalk
  <2>4. \E at : IsWalk(at, h, list, head, 0)
    BY <2>3
  <2> QED BY <2>4
<1>2. ASSUME NEW n \in S PROVE n + 1 \in S
  <2>1. n \in Nat /\ n + 1 \in Nat
    OBVIOUS
  <2>2. PICK at : IsWalk(at, h, list, head, n)
    OBVIOUS
  <2> DEFINE end == Follow(h, list, at[n])
             g   == [k \in 0..n + 1 |-> IF k = n + 1 THEN end ELSE at[k]]
  <2>3. \A k \in 0..n + 1 :
          g[k] = IF k = 0 THEN head ELSE Follow(h, list, g[k - 1])
    <3> SUFFICES ASSUME NEW k \in 0..n + 1
                 PROVE  g[k] = IF k = 0 THEN head ELSE Follow(h, list, g[k - 1])
      OBVIOUS
    <3>1. CASE k = n + 1
      <4>1. k # 0 /\ k - 1 = n /\ n \in 0..n + 1 /\ n # n + 1
        BY <2>1, <3>1
      <4>2. g[k] = end
        BY <3>1
      <4>3. g[k - 1] = at[n]
        BY <4>1
      <4> HIDE DEF g
      <4> QED BY <3>1, <4>1, <4>2, <4>3, Zenon
    <3>2. CASE k # n + 1
      <4>1. k \in 0..n
        BY <2>1, <3>2
      <4>2. g[k] = at[k]
        BY <3>2
      <4>3. at[k] = IF k = 0 THEN head ELSE Follow(h, list, at[k - 1])
        BY <2>2, <4>1, Zenon DEF IsWalk
      <4>4. k # 0 => g[k - 1] = at[k - 1]
        <5>1. k # 0 => k - 1 \in 0..n + 1 /\ k - 1 # n + 1
          BY <2>1, <4>1
        <5> QED BY <5>1, Zenon
      <4> HIDE DEF g
      <4> QED BY <4>2, <4>3, <4>4, Zenon
    <3> QED BY <3>1, <3>2
  <2>4. IsWalk(g, h, list, head, n + 1)
    <3>1. g = [k \in 0..n + 1 |-> g[k]]
      OBVIOUS
    <3> HIDE DEF g
    <3> QED BY <2>3, <3>1, Zenon DEF IsWalk
  <2>5. \E x : IsWalk(x, h, list, head, n + 1)
    BY <2>4
  <2> QED BY <2>1, <2>5
<1>3. S \in SUBSET Nat
  OBVIOUS
<1> HIDE DEF S
<1>4. S = Nat
  BY <1>1, <1>2, <1>3, Induction
<1> QED BY <1>4 DEF S

\* The functions of the model are walks.
LEMMA ListsWalk ==
  ASSUME NEW h, Typed(h), NEW n, n = Cardinality(DOMAIN h.mem)
  PROVE  /\ n \in Nat
         /\ IsWalk(FreeList(h), h, "free", h.free_list_head, n)
         /\ IsWalk(PhysList(h), h, "phys", h.first_phys_block, n)
<1>1. n \in Nat
  BY FS_CardinalityType DEF Typed, MemTyped
<1>2. IsWalk(FreeList(h), h, "free", h.free_list_head, n)
  <2> DEFINE at[k \in 0..Cardinality(DOMAIN h.mem)] ==
               IF k = 0 THEN h.free_list_head
               ELSE IF at[k - 1] = NULL THEN NULL ELSE h.mem[at[k - 1]].next_free
  <2>1. FreeList(h) = at
    BY Zenon DEF FreeList
  <2>2. at = CHOOSE a : IsWalk(a, h, "free", h.free_list_head, n)
    BY Zenon DEF IsWalk, Follow
  <2> HIDE DEF at
  <2>3. IsWalk(at, h, "free", h.free_list_head, n)
    BY <1>1, <2>2, WalkExists, Zenon
  <2> QED BY <2>1, <2>3
<1>3. IsWalk(PhysList(h), h, "phys", h.first_phys_block, n)
  <2> DEFINE at[k \in 0..Cardinality(DOMAIN h.mem)] ==
               IF k = 0 THEN h.first_phys_block
               ELSE IF at[k - 1] = NULL THEN NULL ELSE h.mem[at[k - 1]].next_phys
  <2>1. PhysList(h) = at
    BY Zenon DEF PhysList
  <2>2. at = CHOOSE a : IsWalk(a, h, "phys", h.first_phys_block, n)
    BY Zenon DEF IsWalk, Follow
  <2> HIDE DEF at
  <2>3. IsWalk(at, h, "phys", h.first_phys_block, n)
    BY <1>1, <2>2, WalkExists, Zenon
  <2> QED BY <2>1, <2>3
<1> QED BY <1>1, <1>2, <1>3

\* FreeList meets each free block once, in the order of prev_free.
LEMMA FreeListCovers ==
  ASSUME NEW h, Typed(h), NEW S, OnFreeList(h, S),
         NEW n, n = Cardinality(DOMAIN h.mem),
         NEW at, at = FreeList(h),
         NEW prev, prev = [x \in S |-> PrevFree(h, x)]
  PROVE  n \in Nat /\ DOMAIN at = 0..n /\ Covers(at, n, S, prev)
<1>1. PICK rank : Linked(h, S, rank)
  BY DEF OnFreeList
<1>2. PICK next : next = [x \in S |-> NextFree(h, x)]
  OBVIOUS
<1>3. PICK head : head = h.free_list_head
  OBVIOUS
<1>4. NULL \notin S /\ S \subseteq DOMAIN h.mem /\ IsFiniteSet(DOMAIN h.mem)
  BY <1>1 DEF Linked, Typed, MemTyped
<1>5. IsList(S, head, next, prev, rank)
  BY <1>1, <1>2, <1>3, <1>4 DEF IsList, Linked
<1>6. n \in Nat /\ IsWalk(at, h, "free", head, n)
  BY <1>3, ListsWalk
<1>7. Walks(at, S, head, next, n)
  <2>1. \A k \in 0..n : at[k] = IF k = 0 THEN head ELSE Follow(h, "free", at[k - 1])
    BY <1>6, Zenon DEF IsWalk
  <2>2. at[0] = head
    BY <1>6, <2>1
  <2>3. ASSUME NEW k \in 1..n
        PROVE  /\ at[k - 1] = NULL => at[k] = NULL
               /\ at[k - 1] \in S => at[k] = next[at[k - 1]]
    <3>1. at[k] = Follow(h, "free", at[k - 1])
      <4>1. k \in 0..n /\ k # 0
        BY <1>6
      <4> QED BY <2>1, <4>1, Zenon
    <3>2. at[k - 1] = NULL => at[k] = NULL
      BY <3>1, Zenon DEF Follow
    <3>3. ASSUME at[k - 1] \in S PROVE at[k] = next[at[k - 1]]
      <4>1. at[k] = NextFree(h, at[k - 1])
        BY <1>4, <3>1, <3>3, Zenon DEF Follow, NextFree
      <4> QED BY <1>2, <3>3, <4>1, Zenon
    <3> QED BY <3>2, <3>3
  <2> QED BY <2>2, <2>3 DEF Walks
<1>8. Covers(at, n, S, prev)
  BY <1>4, <1>5, <1>7, WalkCovers
<1>9. DOMAIN at = 0..n
  BY <1>6, Zenon DEF IsWalk
<1> QED BY <1>6, <1>8, <1>9

\* PhysList meets each block of the tiling once, in the order of prev_phys.
LEMMA PhysListCovers ==
  ASSUME NEW h, NEW B, Tiled(h, B),
         NEW n, n = Cardinality(DOMAIN h.mem),
         NEW at, at = PhysList(h),
         NEW prev, prev = [x \in B |-> PrevPhys(h, x)]
  PROVE  n \in Nat /\ DOMAIN at = 0..n /\ Covers(at, n, B, prev)
<1>1. PICK rank : rank = [x \in B |-> x]
  OBVIOUS
<1>2. PICK next : next = [x \in B |-> NextPhys(h, x)]
  OBVIOUS
<1>3. PICK head : head = h.first_phys_block
  OBVIOUS
<1>4. /\ NULL \notin B /\ B \subseteq DOMAIN h.mem /\ IsFiniteSet(DOMAIN h.mem)
      /\ Typed(h)
  BY DEF Tiled, Typed, MemTyped
<1>5. \A x \in B : /\ InPlace(h, B, x) /\ x \in Nat \ {0} /\ x < EndAt(h, x)
                   /\ EndAt(h, x) \in Nat
  BY TileNumbers DEF Tiled
<1>6. IsList(B, head, next, prev, rank)
  <2>1. head # NULL => head \in B /\ PrevPhys(h, head) = NULL
    BY <1>3 DEF Tiled
  <2>2. head # NULL => prev[head] = NULL
    BY <2>1
  <2>3. ASSUME NEW x \in B, next[x] # NULL PROVE next[x] \in B /\ prev[next[x]] = x
    BY <1>2, <2>3, NextInPlace
  <2>4. ASSUME NEW x \in B, prev[x] = NULL PROVE x = head
    BY <1>3, <1>5, <2>4 DEF InPlace, Behind
  <2>5. ASSUME NEW x \in B, prev[x] # NULL
        PROVE  prev[x] \in B /\ next[prev[x]] = x /\ rank[prev[x]] < rank[x]
    <3>1. PICK y : y = PrevPhys(h, x)
      OBVIOUS
    <3>2. y \in B /\ NextPhys(h, y) = x /\ prev[x] = y /\ x # NULL
      BY <1>5, <2>5, <3>1 DEF InPlace, Behind, NULL
    <3>3. y < x
      BY <3>2, NextInPlace
    <3> QED BY <1>1, <1>2, <3>2, <3>3
  <2>6. \A x \in B : rank[x] \in Nat
    BY <1>1, <1>5
  <2> QED BY <1>4, <2>1, <2>2, <2>3, <2>4, <2>5, <2>6, Zenon DEF IsList
<1>7. n \in Nat /\ IsWalk(at, h, "phys", head, n)
  BY <1>3, <1>4, ListsWalk
<1>8. Walks(at, B, head, next, n)
  <2>1. \A k \in 0..n : at[k] = IF k = 0 THEN head ELSE Follow(h, "phys", at[k - 1])
    BY <1>7, Zenon DEF IsWalk
  <2>2. at[0] = head
    BY <1>7, <2>1
  <2>3. ASSUME NEW k \in 1..n
        PROVE  /\ at[k - 1] = NULL => at[k] = NULL
               /\ at[k - 1] \in B => at[k] = next[at[k - 1]]
    <3>1. at[k] = Follow(h, "phys", at[k - 1])
      <4>1. k \in 0..n /\ k # 0
        BY <1>7
      <4> QED BY <2>1, <4>1, Zenon
    <3>2. at[k - 1] = NULL => at[k] = NULL
      BY <3>1, Zenon DEF Follow
    <3>3. ASSUME at[k - 1] \in B PROVE at[k] = next[at[k - 1]]
      <4>1. at[k] = NextPhys(h, at[k - 1])
        BY <1>4, <3>1, <3>3, Zenon DEF Follow, NextPhys
      <4> QED BY <1>2, <3>3, <4>1, Zenon
    <3> QED BY <3>2, <3>3
  <2> QED BY <2>2, <2>3 DEF Walks
<1>9. Covers(at, n, B, prev)
  BY <1>4, <1>6, <1>8, WalkCovers
<1>10. DOMAIN at = 0..n
  BY <1>7, Zenon DEF IsWalk
<1> QED BY <1>7, <1>9, <1>10

\* malloc's search.
LEMMA FirstFitFinds ==
  ASSUME NEW h, NEW B, NEW S, Sound(h, B, S), NEW m, NEW U, U = B \ S,
         NEW b, b = FirstFit(h, m), b # NULL
  PROVE  Offers(h, b, m, U)
<1>1. Typed(h) /\ OnFreeList(h, S)
  BY DEF Sound, Tiled
<1> DEFINE at   == FreeList(h)
           fits == {k \in DOMAIN at : at[k] # NULL /\ h.mem[at[k]].size >= m}
           k    == CHOOSE k \in fits : \A j \in fits : k <= j
<1>2. b = IF fits = {} THEN NULL ELSE at[k]
  BY Zenon DEF FirstFit
<1>3. PICK n : n = Cardinality(DOMAIN h.mem)
  OBVIOUS
<1>4. PICK prev : prev = [x \in S |-> PrevFree(h, x)]
  OBVIOUS
<1>5. n \in Nat /\ DOMAIN at = 0..n /\ Covers(at, n, S, prev)
  BY <1>1, <1>3, <1>4, FreeListCovers
<1> HIDE DEF at
<1>6. /\ fits \in SUBSET Nat
      /\ \A i \in fits : i \in 0..n /\ at[i] # NULL /\ h.mem[at[i]].size >= m
  BY <1>5
<1> HIDE DEF fits
<1>7. k \in fits
  <2>1. fits # {}
    BY <1>2
  <2>2. \E x \in fits : \A y \in fits : x <= y
    BY <1>6, <2>1, Least
  <2> QED BY <2>2, Zenon
<1> HIDE DEF k
<1>8. b = at[k]
  BY <1>2, <1>7
<1>9. b \in S /\ Size(h, b) >= m
  BY <1>5, <1>6, <1>7, <1>8 DEF Covers, Size
<1> QED BY <1>9 DEF Offers

-----------------------------------------------------------------------------
(***************************************************************************)
(* The library functions.                                                  *)
(***************************************************************************)
\* A request that leaves the arithmetic room: RoomAssumption says it of every
\* request of the program.
Fits(n) == n \in Nat /\ BrkLimit + n + 2 * Align + Hdr + Page <= WordMod

\* A request that fits still fits when it is rounded up.
LEMMA RoundedRoom ==
  ASSUME NEW n, Fits(n), NEW m, m = RoundUp(n, Align)
  PROVE  Room(m) /\ m >= n /\ m + Hdr + Align < WordMod
<1>1. /\ n \in Nat /\ Hdr \in Nat \ {0} /\ Align \in Nat \ {0} /\ Page \in Nat \ {0}
      /\ WordMod \in Nat /\ BrkLimit \in Nat \ {0}
      /\ BrkLimit + n + 2 * Align + Hdr + Page <= WordMod
  BY LayoutAssumption, BreakAssumption DEF Fits
<1>2. n + Align - 1 < WordMod
  BY <1>1
<1>3. m \in Nat /\ Aligned(m) /\ n <= m /\ m < n + Align
  BY <1>1, <1>2, RoundUpAligned
<1> QED BY <1>1, <1>3 DEF Room

\* What changes only flags and the free list keeps every block.
LEMMA SamePhysKeeps ==
  ASSUME NEW h, NEW r, SamePhys(h, r), NEW U, U \subseteq DOMAIN h.mem
  PROVE  Keeps(h, r, U)
<1>1. r.bytes = h.bytes /\ \A x \in U : Size(r, x) = Size(h, x)
  BY DEF SamePhys
<1>2. \A a : ByteAt(r, a) = ByteAt(h, a)
  BY <1>1, Zenon DEF ByteAt
<1> QED BY <1>1, <1>2 DEF Keeps, Kept

\* malloc returned p for a request of n bytes, or NULL.
Allocated(h, new, p, n, U) ==
  /\ Keeps(h, new, U)
  /\ p = NULL => Usable(new, U)
  /\ p # NULL => /\ n # 0 /\ p - Hdr \notin U /\ Usable(new, U \cup {p - Hdr})
                 /\ p - Hdr + Hdr = p /\ Size(new, p - Hdr) >= n

\* A heap and a pointer.
Result(q) == q = [heap |-> q.heap, ptr |-> q.ptr]

\* malloc yields a new block in use, or NULL, and keeps the others.
LEMMA MallocAllocates ==
  ASSUME NEW h, NEW U, Usable(h, U), NEW n, Fits(n),
         NEW q, q = Malloc(h, n)
  PROVE  Allocated(h, q.heap, q.ptr, n, U) /\ Result(q)
<1>1. PICK m : m = RoundUp(n, Align)
  OBVIOUS
<1>2. Room(m) /\ m >= n /\ m + Hdr + Align < WordMod /\ m \in Nat /\ Aligned(m)
      /\ n \in Nat
  BY <1>1, RoundedRoom DEF Room, Fits
<1>3. PICK B, S : Sound(h, B, S) /\ U = B \ S
  BY DEF Usable
<1>4. PICK fit : fit = FirstFit(h, m)
  OBVIOUS
<1>5. PICK found : found = IF fit # NULL THEN [heap |-> h, block |-> fit]
                           ELSE RequestSpace(h, m)
  OBVIOUS
<1>6. PICK g : g = found.heap
  OBVIOUS
<1>7. PICK b : b = found.block
  OBVIOUS
<1>8. PICK cleared : cleared = RemoveFreeBlock(g, b)
  OBVIOUS
<1>9. PICK r : r = SplitBlock(cleared, b, m)
  OBVIOUS
<1>10. q = IF n = 0 THEN [heap |-> h, ptr |-> NULL]
           ELSE IF b = NULL THEN [heap |-> g, ptr |-> NULL]
           ELSE [heap |-> r, ptr |-> b + Hdr]
  BY <1>1, <1>4, <1>5, <1>6, <1>7, <1>8, <1>9, Zenon DEF Malloc
<1>11. Keeps(h, h, U)
  BY DEF Keeps, Kept
<1>12. Found(h, g, b, m, U)
  <2>1. CASE fit # NULL
    <3>1. found = [heap |-> h, block |-> fit]
      BY <1>5, <2>1, Zenon
    <3>2. g = h /\ b = fit
      BY <1>6, <1>7, <3>1
    <3>3. Offers(h, fit, m, U)
      BY <1>3, <1>4, <2>1, FirstFitFinds
    <3> QED BY <1>11, <2>1, <3>2, <3>3 DEF Found
  <2>2. CASE fit = NULL
    <3>1. found = RequestSpace(h, m)
      BY <1>5, <2>2, Zenon
    <3> QED BY <1>2, <1>3, <1>6, <1>7, <3>1, RequestFinds
  <2> QED BY <2>1, <2>2
<1>13. CASE n = 0
  <2>1. q = [heap |-> h, ptr |-> NULL]
    BY <1>10, <1>13, Zenon
  <2>2. q.heap = h /\ q.ptr = NULL /\ Result(q)
    BY <2>1 DEF Result
  <2> QED BY <1>11, <2>2 DEF Allocated
<1>14. CASE n # 0 /\ b = NULL
  <2>1. q = [heap |-> g, ptr |-> NULL]
    BY <1>10, <1>14, Zenon
  <2>2. q.heap = g /\ q.ptr = NULL /\ Result(q)
    BY <2>1 DEF Result
  <2> QED BY <1>12, <1>14, <2>2 DEF Allocated, Found
<1>15. CASE n # 0 /\ b # NULL
  <2>1. q = [heap |-> r, ptr |-> b + Hdr]
    BY <1>10, <1>15, Zenon
  <2>2. q.heap = r /\ q.ptr = b + Hdr /\ Result(q)
    BY <2>1 DEF Result
  <2>3. Keeps(h, g, U) /\ Offers(g, b, m, U)
    BY <1>12, <1>15 DEF Found
  <2>4. PICK C, F : Sound(g, C, F) /\ U = C \ F /\ b \in F /\ Size(g, b) >= m
    BY <2>3 DEF Offers
  <2>5. SamePhys(g, cleared) /\ Sound(cleared, C, F \ {b})
    BY <1>8, <2>4, RemoveSound
  <2>6. F \subseteq C /\ C \subseteq DOMAIN g.mem /\ b \in C /\ b \in Nat \ {0}
        /\ b \in DOMAIN g.mem
    BY <2>4, TileNumbers DEF Sound, Tiled
  <2>7. Size(cleared, b) >= m
    BY <2>4, <2>5, <2>6 DEF SamePhys
  <2>8. Size(cleared, b) \in Nat
    BY <2>5, <2>6, TileNumbers DEF Sound
  <2>9. PICK V : V = C \ (F \ {b})
    OBVIOUS
  <2>10. V = U \cup {b} /\ b \notin U /\ V \ {b} = U /\ b \in C \ (F \ {b})
    BY <2>4, <2>6, <2>9
  <2>11. Fitted(cleared, r, b, m, V)
    <3>1. m <= Size(cleared, b)
      BY <1>2, <2>7, <2>8
    <3> QED BY <1>2, <1>9, <2>5, <2>9, <2>10, <3>1, SplitSound
  <2>12. Usable(r, U \cup {b}) /\ Size(r, b) >= m /\ Keeps(cleared, r, U)
    BY <2>10, <2>11 DEF Fitted
  <2>13. Keeps(g, cleared, U)
    <3>1. U \subseteq DOMAIN g.mem
      BY <2>4, <2>6
    <3> QED BY <2>5, <3>1, SamePhysKeeps
  <2>14. Keeps(h, r, U)
    BY <2>3, <2>12, <2>13, KeepsThrough
  <2>15. q.ptr - Hdr = b /\ q.ptr # NULL /\ q.ptr - Hdr + Hdr = q.ptr
    BY <2>2, <2>6, LayoutAssumption DEF NULL
  <2>16. Size(r, b) >= n
    <3>1. b \in U \cup {b}
      OBVIOUS
    <3>2. Size(r, b) \in Nat
      BY <2>12, <3>1, UsedApart
    <3> QED BY <1>2, <2>12, <3>2
  <2> QED BY <1>15, <2>2, <2>10, <2>12, <2>14, <2>15, <2>16 DEF Allocated
<1> QED BY <1>13, <1>14, <1>15

\* free(p) of a block in use.
LEMMA FreeFrees ==
  ASSUME NEW h, NEW U, Usable(h, U), NEW b \in U, NEW p, p = b + Hdr,
         NEW q, q = Free(h, p)
  PROVE  Usable(q, U \ {b}) /\ Keeps(h, q, U \ {b})
<1>1. PICK B, S : Sound(h, B, S) /\ U = B \ S
  BY DEF Usable
<1>2. Tiled(h, B) /\ S \subseteq B /\ OnFreeList(h, S) /\ Flags(h, B, S)
      /\ B \subseteq DOMAIN h.mem /\ b \in B /\ b \notin S
  BY <1>1 DEF Sound, Tiled
<1>3. b \in Nat \ {0} /\ b \in DOMAIN h.mem /\ p - Hdr = b /\ p # NULL
  BY <1>2, TileNumbers, LayoutAssumption DEF NULL
<1>4. ~h.mem[b].is_free
  BY <1>2 DEF Flags, FreeFlag
<1>5. PICK V : V = U \ {b}
  OBVIOUS
<1>6. PICK listed : listed = InsertFreeBlock(h, b)
  OBVIOUS
<1>7. PICK next : next = NextPhys(h, b)
  OBVIOUS
<1>8. PICK joined : joined = IF IsFree(listed, next)
                             THEN Absorb(RemoveFreeBlock(listed, next), b, next)
                             ELSE listed
  OBVIOUS
<1>9. PICK prev : prev = PrevPhys(joined, b)
  OBVIOUS
<1>10. q = IF IsFree(joined, prev)
           THEN Absorb(RemoveFreeBlock(joined, b), prev, b) ELSE joined
  <2>1. q = IF p = NULL \/ b \notin DOMAIN h.mem THEN h
            ELSE IF h.mem[b].is_free THEN h
            ELSE IF IsFree(joined, prev)
                 THEN Absorb(RemoveFreeBlock(joined, b), prev, b) ELSE joined
    BY <1>3, <1>6, <1>7, <1>8, <1>9, Zenon DEF Free, NextPhys, PrevPhys
  <2> QED BY <1>3, <1>4, <2>1, Zenon
<1>11. SamePhys(h, listed) /\ Sound(listed, B, S \cup {b})
  <2>1. Flags(h, B \ {b}, S) /\ S \in SUBSET B
    BY <1>2 DEF Flags
  <2> QED BY <1>2, <1>6, <2>1, InsertSound
<1>12. V \subseteq B /\ V = B \ (S \cup {b}) /\ V \subseteq DOMAIN h.mem /\ b \notin V
  BY <1>1, <1>2, <1>5
<1>13. Keeps(h, listed, V)
  BY <1>11, <1>12, SamePhysKeeps
<1>14. PICK C, F : /\ Sound(joined, C, F) /\ b \in F /\ V = C \ F
                   /\ Keeps(h, joined, V)
  <2>1. CASE ~IsFree(listed, next)
    <3>1. joined = listed
      BY <1>8, <2>1, Zenon
    <3>2. b \in S \cup {b}
      OBVIOUS
    <3> QED BY <1>11, <1>12, <1>13, <3>1, <3>2
  <2>2. CASE IsFree(listed, next)
    <3>1. PICK cleared : cleared = RemoveFreeBlock(listed, next)
      OBVIOUS
    <3>2. joined = Absorb(cleared, b, next)
      BY <1>8, <2>2, <3>1, Zenon
    <3>3. next # NULL /\ FreeFlag(listed, next)
      BY <2>2 DEF IsFree, FreeFlag
    <3>4. next \in B /\ b < next
      BY <1>2, <1>7, <3>3, NextInPlace
    <3>5. next # b
      BY <1>3, <3>4
    <3>6. next \in S \cup {b}
      BY <1>11, <3>3, <3>4 DEF Sound, Flags
    <3>7. SamePhys(listed, cleared) /\ Sound(cleared, B, (S \cup {b}) \ {next})
      BY <1>11, <3>1, <3>6, RemoveSound
    <3>8. PICK F : F = (S \cup {b}) \ {next}
      OBVIOUS
    <3>9. next = NextPhys(cleared, b)
      BY <1>3, <1>7, <1>11, <3>7 DEF SamePhys
    <3>10. next \notin F /\ b \in F
      BY <3>5, <3>8
    <3>11. Merged(cleared, joined, B, b, next) /\ Sound(joined, B \ {next}, F)
      BY <1>2, <3>2, <3>3, <3>7, <3>8, <3>9, <3>10, AbsorbSound
    <3>12. V = (B \ {next}) \ F
      BY <1>12, <3>6, <3>8
    <3>13. Keeps(listed, cleared, V)
      <4>1. V \subseteq DOMAIN listed.mem
        BY <1>11, <1>12 DEF SamePhys
      <4> QED BY <3>7, <4>1, SamePhysKeeps
    <3>14. Keeps(cleared, joined, V)
      <4>1. joined.bytes = cleared.bytes /\ \A x \in V : Size(joined, x) = Size(cleared, x)
        BY <1>12, <3>11 DEF Merged
      <4> QED BY <4>1, SameBytes DEF Keeps
    <3>15. Keeps(h, joined, V)
      BY <1>13, <3>13, <3>14, KeepsThrough
    <3> QED BY <3>10, <3>11, <3>12, <3>15
  <2> QED BY <2>1, <2>2
<1>15. F \subseteq C /\ Tiled(joined, C) /\ C \subseteq DOMAIN joined.mem /\ b \in C
       /\ InPlace(joined, C, b) /\ b \in DOMAIN joined.mem
  BY <1>14 DEF Sound, Tiled
<1>16. CASE ~IsFree(joined, prev)
  <2>1. q = joined
    BY <1>10, <1>16, Zenon
  <2> QED BY <1>5, <1>14, <2>1 DEF Usable
<1>17. CASE IsFree(joined, prev)
  <2>1. PICK cleared : cleared = RemoveFreeBlock(joined, b)
    OBVIOUS
  <2>2. q = Absorb(cleared, prev, b)
    BY <1>10, <1>17, <2>1, Zenon
  <2>3. prev # NULL /\ FreeFlag(joined, prev)
    BY <1>17 DEF IsFree, FreeFlag
  <2>4. prev \in C /\ NextPhys(joined, prev) = b /\ b # NULL
    BY <1>9, <1>15, <2>3, TileNumbers DEF InPlace, Behind, NULL
  <2>5. prev \in Nat /\ b \in Nat /\ prev < b
    BY <1>15, <2>4, NextInPlace, TileNumbers
  <2>6. NextPhys(joined, prev) = b /\ prev # b
    BY <2>4, <2>5
  <2>7. prev \in F
    BY <1>14, <2>3, <2>4 DEF Sound, Flags
  <2>8. SamePhys(joined, cleared) /\ Sound(cleared, C, F \ {b})
    BY <1>14, <2>1, RemoveSound
  <2>9. b = NextPhys(cleared, prev) /\ b # NULL /\ b \notin F \ {b}
    BY <1>3, <1>15, <2>4, <2>6, <2>8 DEF SamePhys, NULL
  <2>10. Merged(cleared, q, C, prev, b) /\ Sound(q, C \ {b}, F \ {b})
    BY <2>2, <2>4, <2>8, <2>9, AbsorbSound
  <2>11. V = (C \ {b}) \ (F \ {b})
    BY <1>14
  <2>12. V \subseteq C /\ prev \notin V /\ V \subseteq DOMAIN joined.mem
    BY <1>14, <1>15, <2>7
  <2>13. Keeps(joined, cleared, V)
    BY <2>8, <2>12, SamePhysKeeps
  <2>14. Keeps(cleared, q, V)
    <3>1. q.bytes = cleared.bytes /\ \A x \in V : Size(q, x) = Size(cleared, x)
      BY <2>10, <2>12 DEF Merged
    <3> QED BY <3>1, SameBytes DEF Keeps
  <2>15. Keeps(h, q, V)
    BY <1>14, <2>13, <2>14, KeepsThrough
  <2> QED BY <1>5, <2>10, <2>11, <2>15 DEF Usable
<1> QED BY <1>16, <1>17

\* The program or the library wrote f[1], ..., f[n] at p, in block b.
Written(h, r, b, p, n, f, U) ==
  /\ Usable(r, U) /\ \A x \in U : Size(r, x) = Size(h, x)
  /\ Keeps(h, r, U \ {b})
  /\ \A i \in 1..n : ByteAt(r, p + i - 1) = f[i]
  /\ \A a \in Stretch(b + Hdr, Size(h, b)) :
       a \notin Stretch(p, n) => ByteAt(r, a) = ByteAt(h, a)

\* The addresses of the payload of a block in use.
LEMMA UsedBytes ==
  ASSUME NEW h, NEW U, Usable(h, U), NEW x \in U
  PROVE  \A a \in Stretch(x + Hdr, Size(h, x)) : a \in BrkStart..BrkLimit - 1
<1>1. /\ x \in Nat \ {0} /\ Size(h, x) \in Nat /\ Start <= x
      /\ EndAt(h, x) = x + Hdr + Size(h, x) /\ EndAt(h, x) <= BrkLimit
  BY UsedApart
<1>2. BrkStart <= Start /\ Start \in Nat /\ Hdr \in Nat /\ BrkStart \in Nat
      /\ BrkLimit \in Nat
  <2>1. BrkStart + Align - 1 < WordMod
    BY RoomAssumption, BreakAssumption, LayoutAssumption
  <2> QED BY <2>1, RoundUpIs, LayoutAssumption, BreakAssumption DEF Start
<1> QED BY <1>1, <1>2 DEF Stretch

\* What a write into a block in use changes.
LEMMA WriteWrites ==
  ASSUME NEW h, NEW U, Usable(h, U), NEW b \in U,
         NEW p \in Nat, NEW n \in Nat, b + Hdr <= p, p + n <= EndAt(h, b),
         NEW f, NEW r, r = WriteBytes(h, p, n, f)
  PROVE  Written(h, r, b, p, n, f, U)
<1>1. PICK B, S : Sound(h, B, S) /\ U = B \ S
  BY DEF Usable
<1>2. b \in B /\ Payload(h, b, p, n) /\ U \subseteq B
  BY <1>1 DEF Payload
<1>3. /\ Sound(r, B, S) /\ \A x \in B : Size(r, x) = Size(h, x)
      /\ \A a \in BrkStart..BrkLimit - 1 :
           ByteAt(r, a) = IF a \in Stretch(p, n) THEN f[a - p + 1] ELSE ByteAt(h, a)
  BY <1>1, <1>2, WriteSound
<1>4. Usable(r, U)
  BY <1>1, <1>3 DEF Usable
<1>5. /\ b \in Nat \ {0} /\ Size(h, b) \in Nat /\ EndAt(h, b) = b + Hdr + Size(h, b)
      /\ Hdr \in Nat \ {0}
  BY UsedApart, LayoutAssumption
<1>6. ASSUME NEW x \in U, x # b, NEW a \in Stretch(x + Hdr, Size(h, x))
      PROVE  ByteAt(r, a) = ByteAt(h, a)
  <2>1. a \in BrkStart..BrkLimit - 1
    BY UsedBytes
  <2>2. /\ x \in Nat \ {0} /\ Size(h, x) \in Nat /\ EndAt(h, x) = x + Hdr + Size(h, x)
        /\ b < x => EndAt(h, b) <= x
    BY UsedApart
  <2>3. x < b => EndAt(h, x) <= b
    BY UsedApart
  <2>4. a \notin Stretch(p, n)
    BY <1>5, <1>6, <2>2, <2>3 DEF Stretch
  <2> QED BY <1>3, <2>1, <2>4
<1>7. Keeps(h, r, U \ {b})
  BY <1>2, <1>3, <1>6 DEF Keeps, Kept
<1>8. ASSUME NEW i \in 1..n PROVE ByteAt(r, p + i - 1) = f[i]
  <2>1. PICK a \in Int : a = p + i - 1
    OBVIOUS
  <2>2. a \in Stretch(p, n) /\ a - p + 1 = i /\ a \in Stretch(b + Hdr, Size(h, b))
    BY <1>5, <2>1 DEF Stretch
  <2>3. a \in BrkStart..BrkLimit - 1
    BY <2>2, UsedBytes
  <2>4. ByteAt(r, a) = f[a - p + 1]
    BY <1>3, <2>2, <2>3
  <2> QED BY <2>1, <2>2, <2>4
<1>9. ASSUME NEW a \in Stretch(b + Hdr, Size(h, b)), a \notin Stretch(p, n)
      PROVE  ByteAt(r, a) = ByteAt(h, a)
  <2>1. a \in BrkStart..BrkLimit - 1
    BY UsedBytes
  <2> QED BY <1>3, <1>9, <2>1
<1> QED BY <1>2, <1>3, <1>4, <1>7, <1>8, <1>9 DEF Written

\* The test of calloc: the product was not cut to a word.
LEMMA ProductWhole ==
  ASSUME NEW nmemb \in 0..WordMod - 1, NEW size \in 0..WordMod - 1,
         NEW total, total = Word(nmemb * size),
         nmemb = 0 \/ total \div nmemb = size
  PROVE  total = nmemb * size /\ nmemb * size < WordMod
<1>1. WordMod \in Nat \ {0}
  BY LayoutAssumption
<1>2. PICK k \in Nat : k = nmemb * size
  BY <1>1
<1>3. total \in 0..WordMod - 1 /\ total <= k
  BY <1>1, <1>2 DEF Word
<1>4. CASE nmemb = 0
  <2>1. k = 0
    BY <1>1, <1>2, <1>4
  <2> QED BY <1>1, <1>2, <1>3, <2>1
<1>5. CASE nmemb # 0
  <2>1. PICK q \in Int : q = total \div nmemb
    BY <1>1, <1>3, <1>5
  <2>2. q * nmemb <= total
    BY <1>1, <1>3, <1>5, <2>1
  <2>3. q = size
    BY <1>5, <2>1
  <2>4. q * nmemb = k
    BY <1>1, <1>2, <2>3
  <2> QED BY <1>1, <1>2, <1>3, <2>2, <2>4
<1> QED BY <1>4, <1>5

Zeroed(new, p, n) == p # NULL => \A i \in 1..n : ByteAt(new, p + i - 1) = ZeroByte

\* calloc yields what malloc yields for the product, zeroed.
LEMMA CallocAllocates ==
  ASSUME NEW h, NEW U, Usable(h, U),
         NEW nmemb \in 0..WordMod - 1, NEW size \in 0..WordMod - 1,
         NEW n, n = nmemb * size, n < WordMod => Fits(n),
         NEW q, q = Calloc(h, nmemb, size)
  PROVE  Allocated(h, q.heap, q.ptr, n, U) /\ Zeroed(q.heap, q.ptr, n)
<1>1. PICK total : total = Word(nmemb * size)
  OBVIOUS
<1>2. PICK a : a = Malloc(h, total)
  OBVIOUS
<1>3. q = IF nmemb # 0 /\ total \div nmemb # size THEN [heap |-> h, ptr |-> NULL]
          ELSE IF a.ptr = NULL THEN a
          ELSE [a EXCEPT !.heap = ZeroFill(@, a.ptr, total)]
  BY <1>1, <1>2, Zenon DEF Calloc
<1>4. Keeps(h, h, U)
  BY DEF Keeps, Kept
<1>5. CASE nmemb # 0 /\ total \div nmemb # size
  <2>1. q = [heap |-> h, ptr |-> NULL]
    BY <1>3, <1>5, Zenon
  <2>2. q.heap = h /\ q.ptr = NULL
    BY <2>1
  <2> QED BY <1>4, <2>2 DEF Allocated, Zeroed
<1>6. CASE ~(nmemb # 0 /\ total \div nmemb # size)
  <2>1. total = n /\ n < WordMod
    BY <1>1, <1>6, ProductWhole
  <2>2. Fits(n) /\ n \in Nat
    BY <2>1 DEF Fits
  <2>3. Allocated(h, a.heap, a.ptr, n, U) /\ Result(a)
    BY <1>2, <2>1, <2>2, MallocAllocates
  <2>4. CASE a.ptr = NULL
    <3>1. q = a
      BY <1>3, <1>6, <2>4, Zenon
    <3> QED BY <2>3, <2>4, <3>1 DEF Zeroed
  <2>5. CASE a.ptr # NULL
    <3>1. PICK p : p = a.ptr
      OBVIOUS
    <3>2. PICK g : g = a.heap
      OBVIOUS
    <3>3. PICK f : f = [i \in 1..n |-> ZeroByte]
      OBVIOUS
    <3>4. PICK r : r = WriteBytes(g, p, n, f)
      OBVIOUS
    <3>5. q = [a EXCEPT !.heap = ZeroFill(@, a.ptr, total)]
      BY <1>3, <1>6, <2>5, Zenon
    <3>6. q = [heap |-> ZeroFill(g, p, n), ptr |-> p]
      <4>1. PICK z : z = ZeroFill(a.heap, a.ptr, total)
        OBVIOUS
      <4>2. q = [a EXCEPT !.heap = z]
        BY <3>5, <4>1, Zenon
      <4>3. q = [heap |-> z, ptr |-> a.ptr]
        BY <2>3, <4>2 DEF Result
      <4> QED BY <2>1, <3>1, <3>2, <4>1, <4>3, Zenon
    <3>7. ZeroFill(g, p, n) = r
      BY <3>3, <3>4, Zenon DEF ZeroFill
    <3>8. q.heap = r /\ q.ptr = p
      BY <3>6, <3>7
    <3>9. PICK b : b = p - Hdr
      OBVIOUS
    <3>10. /\ Keeps(h, g, U) /\ p # NULL /\ n # 0 /\ b \notin U
           /\ Usable(g, U \cup {b}) /\ b + Hdr = p /\ Size(g, b) >= n
      BY <2>3, <2>5, <3>1, <3>2, <3>9 DEF Allocated
    <3>11. b \in U \cup {b} /\ (U \cup {b}) \ {b} = U
      BY <3>10
    <3>12. b \in Nat \ {0} /\ Size(g, b) \in Nat /\ EndAt(g, b) = b + Hdr + Size(g, b)
      BY <3>10, <3>11, UsedApart
    <3>13. p \in Nat /\ b + Hdr <= p /\ p + n <= EndAt(g, b)
      BY <2>2, <3>10, <3>12, LayoutAssumption
    <3>14. Written(g, r, b, p, n, f, U \cup {b})
      BY <2>2, <3>4, <3>10, <3>11, <3>13, WriteWrites
    <3>15. /\ Usable(r, U \cup {b}) /\ Size(r, b) >= n /\ Keeps(g, r, U)
           /\ \A i \in 1..n : ByteAt(r, p + i - 1) = ZeroByte
      BY <3>3, <3>10, <3>11, <3>14 DEF Written
    <3>16. Keeps(h, r, U)
      BY <3>10, <3>15, KeepsThrough
    <3> QED BY <3>8, <3>9, <3>10, <3>15, <3>16 DEF Allocated, Zeroed
  <2> QED BY <2>4, <2>5
<1> QED BY <1>5, <1>6

-----------------------------------------------------------------------------
(***************************************************************************)
(* realloc.                                                                *)
(***************************************************************************)
\* The block b in use became the block c, of n bytes or more.
Resized(h, r, b, c, n, U) ==
  /\ c \notin U \ {b} /\ Usable(r, (U \ {b}) \cup {c}) /\ Size(r, c) >= n
  /\ Keeps(h, r, U \ {b})
  /\ c # b => EndAt(h, b) <= c \/ c + Hdr + n <= b
  /\ \A i \in 1..n : i <= Size(h, b) =>
       ByteAt(r, c + Hdr + i - 1) = ByteAt(h, b + Hdr + i - 1)

\* A block that stays where it is.
LEMMA FittedResizes ==
  ASSUME NEW h, NEW U, NEW b \in U, b \in Nat, NEW r, NEW m \in Nat,
         Fitted(h, r, b, m, U), NEW n \in Nat, n <= m
  PROVE  Resized(h, r, b, b, n, U)
<1>1. /\ Usable(r, U) /\ Size(r, b) >= m /\ Kept(h, r, b, m)
      /\ Keeps(h, r, U \ {b})
  BY DEF Fitted
<1>2. Size(r, b) \in Nat
  BY <1>1, UsedApart
<1>3. ASSUME NEW i \in 1..n
      PROVE  ByteAt(r, b + Hdr + i - 1) = ByteAt(h, b + Hdr + i - 1)
  <2>1. b + Hdr + i - 1 \in Stretch(b + Hdr, m)
    BY LayoutAssumption DEF Stretch
  <2> QED BY <1>1, <2>1 DEF Kept
<1>4. (U \ {b}) \cup {b} = U /\ b \notin U \ {b}
  OBVIOUS
<1>5. Usable(r, (U \ {b}) \cup {b})
  BY <1>1, <1>4, Zenon
<1>6. Size(r, b) >= n
  BY <1>1, <1>2
<1> QED BY <1>1, <1>3, <1>4, <1>5, <1>6, Zenon DEF Resized

\* A block that takes in the free one after it.
LEMMA GrowSound ==
  ASSUME NEW h, NEW U, Usable(h, U), NEW b \in U, NEW m \in Nat, Aligned(m),
         m + Hdr + Align < WordMod,
         NEW next, next = NextPhys(h, b), IsFree(h, next),
         Word(Size(h, b) + Hdr + Size(h, next)) >= m,
         NEW r, r = SplitBlock(Absorb(RemoveFreeBlock(h, next), b, next), b, m)
  PROVE  Fitted(h, r, b, m, U)
<1>1. PICK B, S : Sound(h, B, S) /\ U = B \ S
  BY DEF Usable
<1>2. /\ Tiled(h, B) /\ S \subseteq B /\ Flags(h, B, S) /\ B \subseteq DOMAIN h.mem
      /\ b \in B /\ b \notin S
  BY <1>1 DEF Sound, Tiled
<1>3. next # NULL /\ FreeFlag(h, next)
  BY DEF IsFree, FreeFlag
<1>4. next \in B /\ b < next /\ EndAt(h, b) <= next
  BY <1>2, <1>3, NextInPlace
<1>5. next \in S
  BY <1>2, <1>3, <1>4 DEF Flags
<1>6. /\ b \in Nat \ {0} /\ Size(h, b) \in Nat /\ EndAt(h, b) = b + Hdr + Size(h, b)
      /\ next \in Nat /\ Size(h, next) \in Nat /\ EndAt(h, next) <= h.brk
      /\ EndAt(h, next) = next + Hdr + Size(h, next)
      /\ h.brk <= BrkLimit /\ h.brk \in Nat
  BY <1>2, <1>4, TileNumbers
<1>7. PICK clear : clear = RemoveFreeBlock(h, next)
  OBVIOUS
<1>8. PICK wide : wide = Absorb(clear, b, next)
  OBVIOUS
<1>9. SamePhys(h, clear) /\ Sound(clear, B, S \ {next})
  BY <1>1, <1>5, <1>7, RemoveSound
<1>10. /\ next = NextPhys(clear, b) /\ Size(clear, b) = Size(h, b)
       /\ Size(clear, next) = Size(h, next)
  BY <1>2, <1>4, <1>9 DEF SamePhys
<1>11. Merged(clear, wide, B, b, next) /\ Sound(wide, B \ {next}, S \ {next})
  BY <1>2, <1>3, <1>8, <1>9, <1>10, AbsorbSound
<1>12. Size(wide, b) = Size(h, b) + Hdr + Size(h, next)
  BY <1>10, <1>11 DEF Merged
<1>13. m <= Size(wide, b)
  <2>1. Size(h, b) + Hdr + Size(h, next) \in 0..WordMod - 1
    BY <1>4, <1>6, LayoutAssumption, BreakAssumption
  <2>2. Word(Size(h, b) + Hdr + Size(h, next)) = Size(h, b) + Hdr + Size(h, next)
    BY <2>1, WordIs
  <2> QED BY <1>12, <2>1, <2>2
<1>14. U = (B \ {next}) \ (S \ {next}) /\ b \in (B \ {next}) \ (S \ {next})
  BY <1>1, <1>2, <1>5
<1>15. Fitted(wide, r, b, m, U)
  <2>1. r = SplitBlock(wide, b, m)
    BY <1>7, <1>8
  <2> QED BY <1>11, <1>13, <1>14, <2>1, SplitSound
<1>16. /\ Usable(r, U) /\ Size(r, b) >= m /\ Kept(wide, r, b, m)
       /\ Keeps(wide, r, U \ {b})
  BY <1>15 DEF Fitted
<1>17. wide.bytes = h.bytes
  BY <1>9, <1>11 DEF SamePhys, Merged
<1>18. Kept(h, r, b, m)
  <2>1. Kept(h, wide, b, m)
    BY <1>17, SameBytes
  <2> QED BY <1>16, <2>1, KeptThrough
<1>19. Keeps(h, wide, U \ {b})
  <2>1. ASSUME NEW x \in U \ {b} PROVE Size(wide, x) = Size(h, x)
    <3>1. x \in B \ {b} /\ x \in DOMAIN h.mem
      BY <1>1, <1>2
    <3> QED BY <1>9, <1>11, <3>1 DEF SamePhys, Merged
  <2> QED BY <1>17, <2>1, SameBytes DEF Keeps
<1>20. Keeps(h, r, U \ {b})
  BY <1>16, <1>19, KeepsThrough
<1> QED BY <1>16, <1>18, <1>20 DEF Fitted

\* A block whose contents go to another one.
LEMMA MoveResizes ==
  ASSUME NEW h, NEW U, Usable(h, U), NEW b \in U, NEW p, p = b + Hdr,
         NEW n, Fits(n), NEW g, NEW to, Allocated(h, g, to, n, U), to # NULL,
         NEW k, k = CopySize(Size(h, b), n),
         NEW r, r = Free(WriteBytes(g, to, k, BytesAt(g, p, k)), p)
  PROVE  Resized(h, r, b, to - Hdr, n, U) /\ to - Hdr + Hdr = to
<1>1. PICK c : c = to - Hdr
  OBVIOUS
<1>2. /\ Keeps(h, g, U) /\ c \notin U /\ Usable(g, U \cup {c}) /\ c + Hdr = to
      /\ Size(g, c) >= n /\ n # 0
  BY <1>1 DEF Allocated
<1>3. /\ b \in Nat \ {0} /\ Size(h, b) \in Nat /\ n \in Nat /\ k \in Nat
      /\ k <= n /\ k <= Size(h, b) /\ Hdr \in Nat
      /\ \A i \in 1..n : i <= Size(h, b) => i <= k
  BY UsedApart, LayoutAssumption DEF CopySize, Fits
<1>4. /\ c \in Nat \ {0} /\ Size(g, c) \in Nat /\ EndAt(g, c) = c + Hdr + Size(g, c)
  <2>1. c \in U \cup {c}
    OBVIOUS
  <2> QED BY <1>2, <2>1, UsedApart
<1>5. PICK f : f = BytesAt(g, p, k)
  OBVIOUS
<1>6. PICK w : w = WriteBytes(g, to, k, f)
  OBVIOUS
<1>7. Written(g, w, c, to, k, f, U \cup {c})
  <2>1. c \in U \cup {c} /\ to \in Nat /\ c + Hdr <= to /\ to + k <= EndAt(g, c)
    BY <1>2, <1>3, <1>4
  <2> QED BY <1>2, <1>3, <1>6, <2>1, WriteWrites
<1>8. /\ Usable(w, U \cup {c}) /\ Size(w, c) = Size(g, c) /\ Keeps(g, w, U)
      /\ \A i \in 1..k : ByteAt(w, to + i - 1) = f[i]
  <2>1. (U \cup {c}) \ {c} = U
    BY <1>2
  <2> QED BY <1>7, <2>1 DEF Written
<1>9. r = Free(w, p)
  BY <1>5, <1>6, Zenon
<1>10. Usable(r, (U \cup {c}) \ {b}) /\ Keeps(w, r, (U \cup {c}) \ {b})
  BY <1>8, <1>9, FreeFrees
<1>11. (U \cup {c}) \ {b} = (U \ {b}) \cup {c}
  BY <1>2
<1>12. /\ Usable(r, (U \ {b}) \cup {c}) /\ Keeps(w, r, U \ {b})
       /\ Size(r, c) = Size(w, c) /\ Kept(w, r, c, Size(w, c))
  <2>1. Keeps(w, r, (U \ {b}) \cup {c})
    BY <1>10, <1>11
  <2> QED BY <1>10, <1>11, <2>1 DEF Keeps
<1>13. Keeps(h, r, U \ {b})
  <2>1. Keeps(h, g, U \ {b}) /\ Keeps(g, w, U \ {b})
    BY <1>2, <1>8 DEF Keeps
  <2>2. Keeps(h, w, U \ {b})
    BY <2>1, KeepsThrough
  <2> QED BY <1>12, <2>2, KeepsThrough
<1>14. ASSUME NEW i \in 1..n, i <= Size(h, b)
       PROVE  ByteAt(r, c + Hdr + i - 1) = ByteAt(h, b + Hdr + i - 1)
  <2>1. i \in 1..k
    BY <1>3, <1>14
  <2>2. c + Hdr + i - 1 \in Stretch(c + Hdr, Size(w, c))
    BY <1>2, <1>3, <1>4, <1>8, <2>1 DEF Stretch
  <2>3. ByteAt(r, c + Hdr + i - 1) = ByteAt(w, c + Hdr + i - 1)
    BY <1>12, <2>2 DEF Kept
  <2>4. ByteAt(w, to + i - 1) = ByteAt(g, p + i - 1)
    <3>1. f[i] = ByteAt(g, p + i - 1)
      BY <1>5, <2>1 DEF BytesAt, ByteAt
    <3> QED BY <1>8, <2>1, <3>1
  <2>5. p + i - 1 \in Stretch(b + Hdr, Size(h, b))
    BY <1>3, <1>14, <2>1 DEF Stretch
  <2>6. ByteAt(g, p + i - 1) = ByteAt(h, p + i - 1)
    BY <1>2, <2>5 DEF Keeps, Kept
  <2> QED BY <1>2, <2>3, <2>4, <2>6
<1>15. Size(r, c) >= n
  BY <1>2, <1>8, <1>12
<1>16. c # b => EndAt(h, b) <= c \/ c + Hdr + n <= b
  <2>1. /\ b < c => EndAt(g, b) <= c
        /\ c < b => EndAt(g, c) <= b
        /\ EndAt(g, b) = b + Hdr + Size(g, b)
    <3>1. b \in U \cup {c} /\ c \in U \cup {c}
      OBVIOUS
    <3> QED BY <1>2, <3>1, UsedApart
  <2>2. Size(g, b) = Size(h, b)
    BY <1>2 DEF Keeps
  <2> QED BY <1>2, <1>3, <1>4, <2>1, <2>2 DEF EndAt
<1>17. c \notin U \ {b}
  BY <1>2
<1> QED BY <1>1, <1>2, <1>12, <1>13, <1>14, <1>15, <1>16, <1>17, Zenon DEF Resized

\* What realloc does with a block in use.
Resize(h, a, b, p, n, m) ==
  LET next == NextPhys(h, b)
      k    == CopySize(Size(h, b), n)
  IN IF Size(h, b) >= m THEN [heap |-> SplitBlock(h, b, m), ptr |-> p]
     ELSE IF IsFree(h, next) /\ Word(Size(h, b) + Hdr + Size(h, next)) >= m
     THEN [heap |-> SplitBlock(Absorb(RemoveFreeBlock(h, next), b, next), b, m),
           ptr |-> p]
     ELSE IF a.ptr = NULL THEN a
     ELSE [heap |-> Free(WriteBytes(a.heap, a.ptr, k, BytesAt(a.heap, p, k)), p),
           ptr  |-> a.ptr]

\* The cases of realloc for a block with a header.
LEMMA ReallocIs ==
  ASSUME NEW h, NEW p, p # NULL, NEW n,
         NEW b, b = p - Hdr, b \in DOMAIN h.mem
  PROVE  /\ n = 0 => Realloc(h, p, n) = [heap |-> Free(h, p), ptr |-> NULL]
         /\ n # 0 => Realloc(h, p, n)
                       = Resize(h, Malloc(h, n), b, p, n, RoundUp(n, Align))
<1>1. ASSUME n = 0
      PROVE  Realloc(h, p, n) = [heap |-> Free(h, p), ptr |-> NULL]
  BY <1>1, SMT DEF Realloc
<1>2. ASSUME n # 0
      PROVE  Realloc(h, p, n) = Resize(h, Malloc(h, n), b, p, n, RoundUp(n, Align))
  BY <1>2, SMT DEF Realloc, Resize, Size, NextPhys
<1> QED BY <1>1, <1>2

\* realloc(p, n) of a block in use.
Reallocated(h, r, to, b, n, U) ==
  /\ to = NULL => Usable(r, U) /\ Keeps(h, r, U)
  /\ to # NULL => Resized(h, r, b, to - Hdr, n, U) /\ to - Hdr + Hdr = to

\* realloc keeps the bytes that fit, in the same place or in another one, or it
\* returns NULL and keeps the block.
LEMMA ReallocGives ==
  ASSUME NEW h, NEW U, Usable(h, U), NEW b \in U, NEW p, p = b + Hdr,
         NEW n, Fits(n), n # 0, NEW q, q = Realloc(h, p, n)
  PROVE  Reallocated(h, q.heap, q.ptr, b, n, U)
<1>1. PICK B, S : Sound(h, B, S) /\ U = B \ S
  BY DEF Usable
<1>2. b \in DOMAIN h.mem /\ b \in B
  BY <1>1 DEF Sound, Tiled
<1>3. b \in Nat \ {0} /\ Size(h, b) \in Nat /\ Hdr \in Nat
  BY UsedApart, LayoutAssumption
<1>4. p # NULL /\ b = p - Hdr
  BY <1>3 DEF NULL
<1>5. PICK m : m = RoundUp(n, Align)
  OBVIOUS
<1>6. m \in Nat /\ Aligned(m) /\ n <= m /\ m + Hdr + Align < WordMod /\ n \in Nat
  <2>1. Room(m) /\ m >= n /\ m + Hdr + Align < WordMod
    BY <1>5, RoundedRoom
  <2> QED BY <2>1 DEF Room, Fits
<1>7. PICK a : a = Malloc(h, n)
  OBVIOUS
<1>8. q = Resize(h, a, b, p, n, m)
  BY <1>2, <1>4, <1>5, <1>7, ReallocIs
<1>9. PICK next : next = NextPhys(h, b)
  OBVIOUS
<1>10. PICK k : k = CopySize(Size(h, b), n)
  OBVIOUS
<1>11. CASE Size(h, b) >= m
  <2>1. PICK r : r = SplitBlock(h, b, m)
    OBVIOUS
  <2>2. q = [heap |-> r, ptr |-> p]
    BY <1>8, <1>11, <2>1, Zenon DEF Resize
  <2>3. q.heap = r /\ q.ptr = p
    BY <2>2
  <2>4. Fitted(h, r, b, m, U)
    BY <1>1, <1>3, <1>6, <1>11, <2>1, SplitSound
  <2>5. Resized(h, r, b, b, n, U)
    BY <1>3, <1>6, <2>4, FittedResizes
  <2>6. p - Hdr + Hdr = p
    BY <1>3
  <2> QED BY <1>4, <2>3, <2>5, <2>6 DEF Reallocated
<1>12. CASE ~(Size(h, b) >= m) /\ IsFree(h, next)
            /\ Word(Size(h, b) + Hdr + Size(h, next)) >= m
  <2>1. PICK r : r = SplitBlock(Absorb(RemoveFreeBlock(h, next), b, next), b, m)
    OBVIOUS
  <2>2. q = [heap |-> r, ptr |-> p]
    BY <1>8, <1>9, <1>12, <2>1, Zenon DEF Resize
  <2>3. q.heap = r /\ q.ptr = p
    BY <2>2
  <2>4. Fitted(h, r, b, m, U)
    BY <1>6, <1>9, <1>12, <2>1, GrowSound
  <2>5. Resized(h, r, b, b, n, U)
    BY <1>3, <1>6, <2>4, FittedResizes
  <2>6. p - Hdr + Hdr = p
    BY <1>3
  <2> QED BY <1>4, <2>3, <2>5, <2>6 DEF Reallocated
<1>13. CASE ~(Size(h, b) >= m)
            /\ ~(IsFree(h, next) /\ Word(Size(h, b) + Hdr + Size(h, next)) >= m)
  <2>1. PICK r : r = Free(WriteBytes(a.heap, a.ptr, k, BytesAt(a.heap, p, k)), p)
    OBVIOUS
  <2>2. q = IF a.ptr = NULL THEN a ELSE [heap |-> r, ptr |-> a.ptr]
    BY <1>8, <1>9, <1>10, <1>13, <2>1, Zenon DEF Resize
  <2>3. Allocated(h, a.heap, a.ptr, n, U)
    BY <1>7, MallocAllocates
  <2>4. CASE a.ptr = NULL
    <3>1. q = a
      BY <2>2, <2>4, Zenon
    <3> QED BY <2>3, <2>4, <3>1 DEF Allocated, Reallocated
  <2>5. CASE a.ptr # NULL
    <3>1. q = [heap |-> r, ptr |-> a.ptr]
      BY <2>2, <2>5, Zenon
    <3>2. q.heap = r /\ q.ptr = a.ptr
      BY <3>1
    <3>3. Resized(h, r, b, a.ptr - Hdr, n, U) /\ a.ptr - Hdr + Hdr = a.ptr
      BY <1>10, <2>1, <2>3, <2>5, MoveResizes
    <3> QED BY <2>5, <3>2, <3>3 DEF Reallocated
  <2> QED BY <2>4, <2>5
<1> QED BY <1>11, <1>12, <1>13

\* What the program gives back loses its marks.
LEMMA ForgetGives ==
  ASSUME NEW h, NEW U, Usable(h, U), NEW p, NEW n, NEW r, r = Forget(h, p, n)
  PROVE  /\ Usable(r, U) /\ \A x : Size(r, x) = Size(h, x)
         /\ \A a : a \notin Stretch(p, n) => ByteAt(r, a) = ByteAt(h, a)
<1>1. PICK B, S : Sound(h, B, S) /\ U = B \ S
  BY DEF Usable
<1>2. Tiled(h, B) /\ OnFreeList(h, S) /\ Flags(h, B, S) /\ S \subseteq B
      /\ B \subseteq DOMAIN h.mem /\ Typed(h)
  BY <1>1 DEF Sound, Tiled
<1>3. PICK bytes : bytes = [a \in DOMAIN h.bytes |->
                              IF a \in p..p + n - 1 THEN Junk ELSE h.bytes[a]]
  OBVIOUS
<1>4. r = [h EXCEPT !.bytes = bytes]
  BY <1>3 DEF Forget
<1>5. r = Heap(h.mem, bytes, h.free_list_head, h.first_phys_block,
               h.last_phys_block, h.brk)
  BY <1>2, <1>4 DEF Typed, Heap
<1>6. BytesTyped(bytes)
  <2>1. DOMAIN h.bytes = BrkStart..BrkLimit - 1
    BY <1>2 DEF Typed, BytesTyped
  <2> QED BY <1>3, <2>1 DEF BytesTyped
<1>7. /\ r.mem = h.mem /\ r.bytes = bytes /\ r.free_list_head = h.free_list_head
      /\ r.first_phys_block = h.first_phys_block
      /\ r.last_phys_block = h.last_phys_block /\ r.brk = h.brk /\ Typed(r)
  BY <1>2, <1>5, <1>6, HeapMembers DEF Typed
<1>8. \A x : /\ Size(r, x) = Size(h, x) /\ NextPhys(r, x) = NextPhys(h, x)
             /\ PrevPhys(r, x) = PrevPhys(h, x) /\ NextFree(r, x) = NextFree(h, x)
             /\ PrevFree(r, x) = PrevFree(h, x) /\ FreeFlag(r, x) = FreeFlag(h, x)
  BY <1>7, Zenon DEF Size, NextPhys, PrevPhys, NextFree, PrevFree, FreeFlag
<1>9. \A x : EndAt(r, x) = EndAt(h, x)
  BY <1>8 DEF EndAt
<1>10. Tiled(r, B)
  <2>1. B \subseteq DOMAIN r.mem
    BY <1>2, <1>7
  <2> QED BY <1>2, <1>7, <1>8, <2>1, AlikeTiled
<1>11. OnFreeList(r, S) /\ Flags(r, B, S)
  <2>1. SameFree(h, r, B) /\ B \subseteq DOMAIN r.mem
    BY <1>2, <1>7, <1>8 DEF SameFree
  <2> QED BY <1>2, <2>1, SameFreeKeeps
<1>12. Usable(r, U)
  BY <1>1, <1>2, <1>10, <1>11 DEF Usable, Sound
<1>13. ASSUME NEW a, a \notin Stretch(p, n) PROVE ByteAt(r, a) = ByteAt(h, a)
  <2>1. DOMAIN bytes = DOMAIN h.bytes
    BY <1>3
  <2>2. a \in DOMAIN bytes => bytes[a] = h.bytes[a]
    BY <1>3, <1>13 DEF Stretch
  <2> QED BY <1>7, <2>1, <2>2 DEF ByteAt
<1> QED BY <1>8, <1>12, <1>13

\* What lay in block b of h is not in the blocks V, which both heaps have.
LEMMA ForgetKeeps ==
  ASSUME NEW h, NEW U, Usable(h, U), NEW b \in U,
         NEW p \in Nat, NEW n \in Nat, b + Hdr <= p, p + n <= EndAt(h, b),
         NEW V \in SUBSET (U \ {b}), NEW g, NEW W, Usable(g, W), Keeps(h, g, V),
         NEW r, r = Forget(g, p, n)
  PROVE  Usable(r, W) /\ Keeps(h, r, V)
<1>1. /\ Usable(r, W) /\ \A x : Size(r, x) = Size(g, x)
      /\ \A a : a \notin Stretch(p, n) => ByteAt(r, a) = ByteAt(g, a)
  BY ForgetGives
<1>2. ASSUME NEW x \in V, NEW a \in Stretch(x + Hdr, Size(h, x))
      PROVE  ByteAt(r, a) = ByteAt(h, a)
  <2>1. x \in U /\ x # b
    OBVIOUS
  <2>2. /\ x \in Nat \ {0} /\ Size(h, x) \in Nat /\ EndAt(h, x) = x + Hdr + Size(h, x)
        /\ b \in Nat /\ EndAt(h, b) = b + Hdr + Size(h, b) /\ Size(h, b) \in Nat
        /\ (b < x => EndAt(h, b) <= x) /\ (x < b => EndAt(h, x) <= b)
    BY <2>1, UsedApart
  <2>3. a \notin Stretch(p, n)
    BY <2>1, <2>2, LayoutAssumption DEF Stretch
  <2>4. ByteAt(g, a) = ByteAt(h, a)
    BY DEF Keeps, Kept
  <2> QED BY <1>1, <2>3, <2>4
<1>3. \A x \in V : Size(r, x) = Size(h, x)
  BY <1>1 DEF Keeps
<1> QED BY <1>1, <1>2, <1>3 DEF Keeps, Kept

-----------------------------------------------------------------------------
(***************************************************************************)
(* The program's pointers.                                                 *)
(***************************************************************************)
\* The block of pointer s, and whether it has one.
BlockOf(sl, s) == sl[s].ptr - Hdr

Held(sl, s) == sl[s] # Nothing

\* The blocks of the other pointers, and of all.
OthersOf(sl, s) == {BlockOf(sl, t) : t \in {u \in Slot : u # s /\ Held(sl, u)}}

UsedBy(sl) == {BlockOf(sl, t) : t \in {u \in Slot : Held(sl, u)}}

\* Pointer s is to a block that is large enough.
Points(h, sl, s) ==
  /\ sl[s].size > 0 /\ sl[s].ptr # NULL
  /\ Size(h, BlockOf(sl, s)) >= sl[s].size

\* The inductive invariant: the heap can be used, and the blocks in use are
\* those of the program's pointers, one each.
HeldInv(h, sl) ==
  /\ sl \in [Slot -> [ptr : Nat, size : Nat]]
  /\ Usable(h, UsedBy(sl))
  /\ \A s \in Slot : Held(sl, s) => Points(h, sl, s)
  /\ \A s, t \in Slot : Held(sl, s) /\ Held(sl, t) /\ sl[s].ptr = sl[t].ptr => s = t

\* The bytes of every pointer: data of the contract.
Contents(h, sl) == [s \in Slot |-> BytesAt(h, sl[s].ptr, sl[s].size)]

\* The blocks of the other pointers are those in use but for that of s.
LEMMA OthersAre ==
  ASSUME NEW h, NEW sl, HeldInv(h, sl), NEW s \in Slot
  PROVE  /\ Held(sl, s) => /\ OthersOf(sl, s) = UsedBy(sl) \ {BlockOf(sl, s)}
                           /\ BlockOf(sl, s) \in UsedBy(sl)
         /\ ~Held(sl, s) => OthersOf(sl, s) = UsedBy(sl)
<1>1. \A t \in Slot : sl[t].ptr \in Nat /\ Hdr \in Nat
  BY LayoutAssumption DEF HeldInv
<1>2. ASSUME Held(sl, s)
      PROVE  /\ OthersOf(sl, s) = UsedBy(sl) \ {BlockOf(sl, s)}
             /\ BlockOf(sl, s) \in UsedBy(sl)
  <2>1. ASSUME NEW t \in Slot, Held(sl, t), BlockOf(sl, t) = BlockOf(sl, s)
        PROVE  t = s
    <3>1. sl[t].ptr = sl[s].ptr
      BY <1>1, <2>1 DEF BlockOf
    <3> QED BY <1>2, <2>1, <3>1 DEF HeldInv
  <2> QED BY <1>2, <2>1 DEF OthersOf, UsedBy
<1>3. ASSUME ~Held(sl, s) PROVE OthersOf(sl, s) = UsedBy(sl)
  BY <1>3 DEF OthersOf, UsedBy
<1> QED BY <1>2, <1>3

\* The bytes of a pointer, when the heap keeps its block.
LEMMA ContentsStay ==
  ASSUME NEW h, NEW sl, HeldInv(h, sl), NEW s \in Slot, Held(sl, s),
         NEW r, NEW U, Keeps(h, r, U), BlockOf(sl, s) \in U
  PROVE  /\ Points(r, sl, s)
         /\ BytesAt(r, sl[s].ptr, sl[s].size) = BytesAt(h, sl[s].ptr, sl[s].size)
<1>1. PICK b : b = BlockOf(sl, s)
  OBVIOUS
<1>2. PICK p \in Nat : p = sl[s].ptr
  BY DEF HeldInv
<1>3. PICK n \in Nat : n = sl[s].size
  BY DEF HeldInv
<1>4. /\ Points(h, sl, s) /\ b \in UsedBy(sl) /\ Usable(h, UsedBy(sl))
      /\ b + Hdr = p
  BY <1>1, <1>2, OthersAre, LayoutAssumption DEF HeldInv, BlockOf
<1>5. Size(h, b) \in Nat /\ n <= Size(h, b) /\ b \in Nat
  BY <1>1, <1>3, <1>4, UsedApart DEF Points
<1>6. Size(r, b) = Size(h, b) /\ Kept(h, r, b, Size(h, b))
  BY <1>1 DEF Keeps
<1>7. ASSUME NEW i \in 1..n PROVE ByteAt(r, p + i - 1) = ByteAt(h, p + i - 1)
  <2>1. p + i - 1 \in Stretch(b + Hdr, Size(h, b))
    BY <1>4, <1>5 DEF Stretch
  <2> QED BY <1>6, <2>1 DEF Kept
<1>8. BytesAt(r, p, n) = BytesAt(h, p, n)
  <2>1. \A g : BytesAt(g, p, n) = [i \in 1..n |-> ByteAt(g, p + i - 1)]
    BY DEF BytesAt, ByteAt
  <2> QED BY <1>7, <2>1
<1> QED BY <1>1, <1>2, <1>3, <1>4, <1>6, <1>8 DEF Points

\* A step that leaves the pointers alone.
LEMMA NothingMoves ==
  ASSUME NEW h, NEW sl, HeldInv(h, sl), NEW r, Usable(r, UsedBy(sl)),
         Keeps(h, r, UsedBy(sl))
  PROVE  HeldInv(r, sl) /\ Contents(r, sl) = Contents(h, sl)
<1>1. ASSUME NEW s \in Slot
      PROVE  /\ Held(sl, s) => Points(r, sl, s)
             /\ BytesAt(r, sl[s].ptr, sl[s].size) = BytesAt(h, sl[s].ptr, sl[s].size)
  <2>1. CASE Held(sl, s)
    <3>1. BlockOf(sl, s) \in UsedBy(sl)
      BY <2>1, OthersAre
    <3> QED BY <2>1, <3>1, ContentsStay
  <2>2. CASE ~Held(sl, s)
    <3>1. sl[s].size = 0
      BY <2>2 DEF Held, Nothing
    <3> QED BY <2>2, <3>1 DEF BytesAt
  <2> QED BY <2>1, <2>2
<1>2. HeldInv(r, sl)
  BY <1>1 DEF HeldInv
<1> QED BY <1>1, <1>2 DEF Contents

\* Pointer s was set to c + Hdr, a block for n bytes that are bytes[1..n].
Gained(h, sl, s, p, n, bytes, r, new) ==
  /\ new = [sl EXCEPT ![s] = [ptr |-> p, size |-> n]]
  /\ HeldInv(r, new)
  /\ p # NULL /\ p % Align = 0 /\ p \in BrkStart..BrkLimit /\ n > 0
  /\ \A t \in Slot \ {s} : Held(sl, t) =>
       p + n <= sl[t].ptr \/ sl[t].ptr + sl[t].size <= p
  /\ Contents(r, new) = [Contents(h, sl) EXCEPT ![s] = bytes]

\* A step that gives pointer s a block in use, apart from all others.
LEMMA PointerSet ==
  ASSUME NEW h, NEW sl, HeldInv(h, sl), NEW s \in Slot,
         NEW c, NEW n \in Nat, n > 0, NEW p, p = c + Hdr,
         NEW r, Usable(r, OthersOf(sl, s) \cup {c}), c \notin OthersOf(sl, s),
         Size(r, c) >= n, Keeps(h, r, OthersOf(sl, s)),
         NEW bytes, bytes = [i \in 1..n |-> bytes[i]],
         \A i \in 1..n : ByteAt(r, p + i - 1) = bytes[i],
         NEW new, new = [sl EXCEPT ![s] = [ptr |-> p, size |-> n]]
  PROVE  Gained(h, sl, s, p, n, bytes, r, new)
<1>1. PICK V : V = OthersOf(sl, s)
  OBVIOUS
<1>2. /\ c \in Nat \ {0} /\ Size(r, c) \in Nat /\ Start <= c /\ Aligned(c)
      /\ EndAt(r, c) = c + Hdr + Size(r, c) /\ EndAt(r, c) <= BrkLimit
      /\ \A y \in V : y < c => EndAt(r, y) <= c
      /\ \A y \in V : c < y => EndAt(r, c) <= y
      /\ \A y \in V : EndAt(r, y) = y + Hdr + Size(r, y) /\ y \in Nat \ {0}
                      /\ Size(r, y) \in Nat
  BY <1>1, UsedApart
<1>3. p \in Nat /\ p # NULL /\ p - Hdr = c /\ Hdr \in Nat \ {0} /\ Align \in Nat \ {0}
      /\ BrkLimit \in Nat /\ BrkStart \in Nat
  BY <1>2, LayoutAssumption, BreakAssumption DEF NULL
<1>4. p \in BrkStart..BrkLimit
  <2>1. BrkStart + Align - 1 < WordMod
    BY RoomAssumption, BreakAssumption, LayoutAssumption
  <2>2. BrkStart <= Start /\ Start \in Nat
    BY <2>1, RoundUpIs, LayoutAssumption, BreakAssumption DEF Start
  <2> QED BY <1>2, <1>3, <2>2
<1>5. p % Align = 0
  <2>1. Aligned(Hdr)
    BY <1>3, AlignedMod, LayoutAssumption
  <2>2. Aligned(p)
    BY <1>2, <1>3, <2>1, AlignedSum
  <2> QED BY <1>3, <2>2, AlignedMod
<1>6. sl \in [Slot -> [ptr : Nat, size : Nat]]
  BY DEF HeldInv
<1>7. /\ new \in [Slot -> [ptr : Nat, size : Nat]]
      /\ new[s].ptr = p /\ new[s].size = n /\ Held(new, s) /\ BlockOf(new, s) = c
      /\ \A t \in Slot : t # s => new[t] = sl[t]
  BY <1>3, <1>6 DEF Held, Nothing, BlockOf
<1>8. ASSUME NEW t \in Slot, t # s, Held(sl, t)
      PROVE  /\ BlockOf(sl, t) \in V /\ BlockOf(sl, t) + Hdr = sl[t].ptr
             /\ Points(r, sl, t) /\ sl[t].ptr \in Nat /\ sl[t].size \in Nat
             /\ BytesAt(r, sl[t].ptr, sl[t].size) = BytesAt(h, sl[t].ptr, sl[t].size)
  <2>1. BlockOf(sl, t) \in V
    BY <1>1, <1>8 DEF OthersOf
  <2>2. sl[t].ptr \in Nat /\ sl[t].size \in Nat
    BY <1>6
  <2>3. BlockOf(sl, t) + Hdr = sl[t].ptr
    BY <1>3, <2>2 DEF BlockOf
  <2> QED BY <1>1, <1>8, <2>1, <2>2, <2>3, ContentsStay
<1>9. ASSUME NEW t \in Slot, t # s, Held(sl, t)
      PROVE  /\ p # sl[t].ptr
             /\ p + n <= sl[t].ptr \/ sl[t].ptr + sl[t].size <= p
  <2>1. PICK y : y = BlockOf(sl, t)
    OBVIOUS
  <2>2. /\ y \in V /\ y + Hdr = sl[t].ptr /\ Size(r, y) >= sl[t].size
        /\ sl[t].size \in Nat
    BY <1>8, <1>9, <2>1 DEF Points
  <2>3. /\ y \in Nat \ {0} /\ EndAt(r, y) = y + Hdr + Size(r, y) /\ Size(r, y) \in Nat
        /\ (y < c => EndAt(r, y) <= c) /\ (c < y => EndAt(r, c) <= y)
    BY <1>2, <2>2
  <2>4. y # c
    BY <1>1, <2>2
  <2>5. PICK q \in Nat, k \in Nat : q = sl[t].ptr /\ k = sl[t].size
    BY <1>8, <1>9
  <2>6. y + Hdr = q /\ k <= Size(r, y)
    BY <2>2, <2>5
  <2>7. EndAt(r, c) = c + Hdr + Size(r, c) /\ Size(r, c) \in Nat /\ c \in Nat
        /\ Hdr \in Nat \ {0} /\ p = c + Hdr
    BY <1>2, <1>3
  <2>8. CASE y < c
    <3>1. EndAt(r, y) <= c
      BY <2>3, <2>8
    <3>2. q + k <= c
      BY <2>3, <2>6, <2>7, <3>1
    <3> QED BY <2>5, <2>7, <3>2
  <2>9. CASE c < y
    <3>1. EndAt(r, c) <= y
      BY <2>3, <2>9
    <3>2. p + n <= y
      BY <2>3, <2>7, <3>1
    <3> QED BY <2>3, <2>5, <2>6, <2>7, <3>2
  <2> QED BY <2>3, <2>4, <2>7, <2>8, <2>9
<1>10. UsedBy(new) = V \cup {c}
  <2>1. \A t \in Slot : t # s =>
          /\ Held(new, t) <=> Held(sl, t)
          /\ BlockOf(new, t) = BlockOf(sl, t)
    BY <1>7 DEF Held, BlockOf
  <2> QED BY <1>1, <1>7, <2>1 DEF UsedBy, OthersOf
<1>11. Points(r, new, s)
  BY <1>3, <1>7 DEF Points
<1>12. \A t \in Slot : Held(new, t) => Points(r, new, t)
  BY <1>7, <1>8, <1>11 DEF Points, Held, BlockOf
<1>13. \A t, u \in Slot : Held(new, t) /\ Held(new, u) /\ new[t].ptr = new[u].ptr => t = u
  <2>1. \A t \in Slot : t # s /\ Held(new, t) => new[t].ptr # p
    BY <1>7, <1>9 DEF Held
  <2>2. \A t, u \in Slot : t # s /\ u # s /\ Held(new, t) /\ Held(new, u)
                           /\ new[t].ptr = new[u].ptr => t = u
    BY <1>7 DEF Held, HeldInv
  <2> QED BY <1>7, <2>1, <2>2
<1>14. HeldInv(r, new)
  BY <1>1, <1>7, <1>10, <1>12, <1>13 DEF HeldInv
<1>15. Contents(r, new) = [Contents(h, sl) EXCEPT ![s] = bytes]
  <2>1. BytesAt(r, new[s].ptr, new[s].size) = bytes
    <3>1. BytesAt(r, p, n) = [i \in 1..n |-> ByteAt(r, p + i - 1)]
      BY DEF BytesAt, ByteAt
    <3>2. [i \in 1..n |-> ByteAt(r, p + i - 1)] = [i \in 1..n |-> bytes[i]]
      OBVIOUS
    <3> QED BY <1>7, <3>1, <3>2
  <2>2. ASSUME NEW t \in Slot, t # s
        PROVE  BytesAt(r, new[t].ptr, new[t].size) = BytesAt(h, sl[t].ptr, sl[t].size)
    <3>1. CASE Held(sl, t)
      BY <1>7, <1>8, <2>2, <3>1
    <3>2. CASE ~Held(sl, t)
      <4>1. sl[t].size = 0
        BY <3>2 DEF Held, Nothing
      <4> QED BY <1>7, <2>2, <4>1 DEF BytesAt
    <3> QED BY <3>1, <3>2
  <2> QED BY <2>1, <2>2 DEF Contents
<1> QED BY <1>3, <1>4, <1>5, <1>9, <1>14, <1>15 DEF Gained

\* Pointer s was given up.
Lost(h, sl, s, r, new) ==
  /\ new = [sl EXCEPT ![s] = Nothing] /\ HeldInv(r, new)
  /\ Contents(r, new) = [Contents(h, sl) EXCEPT ![s] = << >>]

\* A step that frees the block of pointer s.
LEMMA PointerCleared ==
  ASSUME NEW h, NEW sl, HeldInv(h, sl), NEW s \in Slot,
         NEW r, Usable(r, OthersOf(sl, s)), Keeps(h, r, OthersOf(sl, s)),
         NEW new, new = [sl EXCEPT ![s] = Nothing]
  PROVE  Lost(h, sl, s, r, new)
<1>1. sl \in [Slot -> [ptr : Nat, size : Nat]]
  BY DEF HeldInv
<1>2. /\ new \in [Slot -> [ptr : Nat, size : Nat]]
      /\ ~Held(new, s) /\ new[s].size = 0
      /\ \A t \in Slot : t # s => new[t] = sl[t]
  BY <1>1 DEF Held, Nothing, NULL
<1>3. UsedBy(new) = OthersOf(sl, s)
  <2>1. \A t \in Slot : t # s =>
          /\ Held(new, t) <=> Held(sl, t)
          /\ BlockOf(new, t) = BlockOf(sl, t)
    BY <1>2 DEF Held, BlockOf
  <2> QED BY <1>2, <2>1 DEF UsedBy, OthersOf
<1>4. ASSUME NEW t \in Slot, t # s, Held(sl, t)
      PROVE  /\ Points(r, sl, t)
             /\ BytesAt(r, sl[t].ptr, sl[t].size) = BytesAt(h, sl[t].ptr, sl[t].size)
  <2>1. BlockOf(sl, t) \in OthersOf(sl, s)
    BY <1>4 DEF OthersOf
  <2> QED BY <1>4, <2>1, ContentsStay
<1>5. \A t \in Slot : Held(new, t) => Points(r, new, t)
  BY <1>2, <1>4 DEF Points, Held, BlockOf
<1>6. \A t, u \in Slot : Held(new, t) /\ Held(new, u) /\ new[t].ptr = new[u].ptr => t = u
  BY <1>2 DEF Held, HeldInv
<1>7. HeldInv(r, new)
  BY <1>2, <1>3, <1>5, <1>6 DEF HeldInv
<1>8. Contents(r, new) = [Contents(h, sl) EXCEPT ![s] = << >>]
  <2>1. BytesAt(r, new[s].ptr, new[s].size) = << >>
    BY <1>2 DEF BytesAt
  <2>2. ASSUME NEW t \in Slot, t # s
        PROVE  BytesAt(r, new[t].ptr, new[t].size) = BytesAt(h, sl[t].ptr, sl[t].size)
    <3>1. CASE Held(sl, t)
      BY <1>2, <1>4, <2>2, <3>1
    <3>2. CASE ~Held(sl, t)
      <4>1. sl[t].size = 0
        BY <3>2 DEF Held, Nothing
      <4> QED BY <1>2, <2>2, <4>1 DEF BytesAt
    <3> QED BY <3>1, <3>2
  <2> QED BY <2>1, <2>2 DEF Contents
<1> QED BY <1>7, <1>8 DEF Lost

-----------------------------------------------------------------------------
(***************************************************************************)
(* The calls of the program.                                               *)
(***************************************************************************)
\* RoomAssumption, for the requests there are.
LEMMA RequestsFit ==
  /\ \A n \in Sizes \cup ResizeTo : Fits(n)
  /\ \A a \in Arrays : /\ a[1] \in 0..WordMod - 1 /\ a[2] \in 0..WordMod - 1
                       /\ a[1] * a[2] < WordMod => Fits(a[1] * a[2])
<1>1. ASSUME NEW n \in Sizes \cup ResizeTo PROVE Fits(n)
  <2>1. n \in 0..WordMod - 1
    BY RequestAssumption
  <2>2. n \in Nat /\ n < WordMod
    BY <2>1, LayoutAssumption
  <2> QED BY <2>2, RoomAssumption DEF Fits
<1>2. ASSUME NEW a \in Arrays
      PROVE  /\ a[1] \in 0..WordMod - 1 /\ a[2] \in 0..WordMod - 1
             /\ a[1] * a[2] < WordMod => Fits(a[1] * a[2])
  <2>1. a[1] \in 0..WordMod - 1 /\ a[2] \in 0..WordMod - 1
    BY RequestAssumption
  <2>2. PICK n : n = a[1] * a[2]
    OBVIOUS
  <2>3. n \in Nat
    <3>1. a[1] \in Nat /\ a[2] \in Nat
      BY <2>1, LayoutAssumption
    <3> QED BY <2>2, <3>1
  <2>4. n \in Sizes \cup ResizeTo \cup {x[1] * x[2] : x \in Arrays}
    BY <2>2, Zenon
  <2>5. n < WordMod => Fits(n)
    BY <2>3, <2>4, RoomAssumption DEF Fits
  <2> QED BY <2>1, <2>2, <2>5
<1> QED BY <1>1, <1>2

\* The program's marks, from byte from + 1 on.
Filled(g, r, s, p, c, from, n, W) ==
  /\ Usable(r, W) /\ Size(r, c) = Size(g, c) /\ Keeps(g, r, W \ {c})
  /\ \A i \in 1..n : ByteAt(r, p + i - 1)
                       = IF i <= from THEN ByteAt(g, p + i - 1) ELSE Mark(s, i)

\* The program writes its marks in its own block.
LEMMA FillGives ==
  ASSUME NEW g, NEW W, Usable(g, W), NEW c \in W, NEW p, p = c + Hdr,
         NEW n \in Nat, n <= Size(g, c), NEW from \in 0..n, NEW s,
         NEW r, r = Fill(g, s, p, from, n)
  PROVE  Filled(g, r, s, p, c, from, n, W)
<1>1. PICK f : f = [i \in 1..n - from |-> Mark(s, from + i)]
  OBVIOUS
<1>2. PICK to : to = p + from
  OBVIOUS
<1>3. PICK k \in Nat : k = n - from
  OBVIOUS
<1>4. /\ c \in Nat \ {0} /\ Size(g, c) \in Nat /\ EndAt(g, c) = c + Hdr + Size(g, c)
      /\ Hdr \in Nat
  BY UsedApart, LayoutAssumption
<1>5. p \in Nat /\ to \in Nat /\ c + Hdr <= to /\ to + k <= EndAt(g, c)
  BY <1>2, <1>3, <1>4
<1>6. r = WriteBytes(g, to, k, f)
  BY <1>1, <1>2, <1>3, Zenon DEF Fill
<1>7. Written(g, r, c, to, k, f, W)
  BY <1>5, <1>6, WriteWrites
<1>8. /\ Usable(r, W) /\ Size(r, c) = Size(g, c) /\ Keeps(g, r, W \ {c})
      /\ \A j \in 1..k : ByteAt(r, to + j - 1) = f[j]
      /\ \A a \in Stretch(c + Hdr, Size(g, c)) :
           a \notin Stretch(to, k) => ByteAt(r, a) = ByteAt(g, a)
  BY <1>7 DEF Written
<1>9. ASSUME NEW i \in 1..n
      PROVE  ByteAt(r, p + i - 1)
               = IF i <= from THEN ByteAt(g, p + i - 1) ELSE Mark(s, i)
  <2>1. CASE i <= from
    <3>1. PICK a \in Int : a = p + i - 1
      BY <1>5
    <3>2. a \in Stretch(c + Hdr, Size(g, c)) /\ a \notin Stretch(to, k)
      BY <1>2, <1>4, <1>5, <2>1, <3>1 DEF Stretch
    <3> QED BY <1>8, <2>1, <3>1, <3>2
  <2>2. CASE ~(i <= from)
    <3>1. PICK j \in 1..k : j = i - from
      BY <1>3, <2>2
    <3>2. ByteAt(r, to + j - 1) = f[j]
      BY <1>8
    <3>3. to + j - 1 = p + i - 1 /\ from + j = i
      BY <1>2, <1>5, <3>1
    <3>4. f[j] = Mark(s, from + j)
      BY <1>1, <1>3
    <3>5. ByteAt(r, p + i - 1) = Mark(s, i)
      BY <3>2, <3>3, <3>4, Zenon
    <3> QED BY <2>2, <3>5, Zenon
  <2> QED BY <2>1, <2>2
<1> QED BY <1>8, <1>9 DEF Filled

\* The heap changed, but nothing the program can tell.
Stays(h, sl, r) == HeldInv(r, sl) /\ Contents(r, sl) = Contents(h, sl)

Marked(s, n) == [i \in 1..n |-> Mark(s, i)]

\* A pointer to n bytes.
Block(p, n) == [ptr |-> p, size |-> n]

\* malloc, for a pointer that is free.
LEMMA MallocCalled ==
  ASSUME NEW h, NEW sl, HeldInv(h, sl), NEW s \in Slot, sl[s] = Nothing,
         NEW n \in Sizes \cup ResizeTo, NEW q, q = Malloc(h, n)
  PROVE  /\ q.ptr = NULL => Stays(h, sl, q.heap)
         /\ q.ptr # NULL =>
              Gained(h, sl, s, q.ptr, n, Marked(s, n), Fill(q.heap, s, q.ptr, 0, n),
                     [sl EXCEPT ![s] = Block(q.ptr, n)])
<1>1. PICK U : U = UsedBy(sl)
  OBVIOUS
<1>2. Usable(h, U) /\ U = OthersOf(sl, s)
  BY <1>1, OthersAre DEF HeldInv, Held
<1>3. Fits(n) /\ n \in Nat
  BY RequestsFit DEF Fits
<1>4. PICK g : g = q.heap
  OBVIOUS
<1>5. PICK p : p = q.ptr
  OBVIOUS
<1>6. Allocated(h, g, p, n, U)
  BY <1>2, <1>3, <1>4, <1>5, MallocAllocates
<1>7. ASSUME p = NULL PROVE Stays(h, sl, g)
  BY <1>1, <1>6, <1>7, NothingMoves DEF Allocated, Stays
<1>8. ASSUME p # NULL
      PROVE  Gained(h, sl, s, p, n, Marked(s, n), Fill(g, s, p, 0, n),
                    [sl EXCEPT ![s] = Block(p, n)])
  <2>1. PICK c : c = p - Hdr
    OBVIOUS
  <2>2. /\ Keeps(h, g, U) /\ n # 0 /\ c \notin U /\ Usable(g, U \cup {c})
        /\ c + Hdr = p /\ Size(g, c) >= n
    BY <1>6, <1>8, <2>1 DEF Allocated
  <2>3. PICK r : r = Fill(g, s, p, 0, n)
    OBVIOUS
  <2>4. c \in U \cup {c} /\ (U \cup {c}) \ {c} = U
    BY <2>2
  <2>5. Size(g, c) \in Nat
    BY <2>2, <2>4, UsedApart
  <2>6. Filled(g, r, s, p, c, 0, n, U \cup {c})
    <3>1. 0 \in 0..n /\ n <= Size(g, c)
      BY <1>3, <2>2, <2>5
    <3> QED BY <1>3, <2>2, <2>3, <2>4, <3>1, FillGives
  <2>7. /\ Usable(r, U \cup {c}) /\ Size(r, c) >= n /\ Keeps(g, r, U)
        /\ \A i \in 1..n : ByteAt(r, p + i - 1)
                             = IF i <= 0 THEN ByteAt(g, p + i - 1) ELSE Mark(s, i)
    BY <2>2, <2>4, <2>6 DEF Filled
  <2>8. Keeps(h, r, U)
    BY <2>2, <2>7, KeepsThrough
  <2>9. \A i \in 1..n : ByteAt(r, p + i - 1) = Marked(s, n)[i]
    BY <2>7 DEF Marked
  <2>10. Marked(s, n) = [i \in 1..n |-> Marked(s, n)[i]]
    BY DEF Marked
  <2>11. n > 0
    BY <1>3, <2>2
  <2>12. PICK new : new = [sl EXCEPT ![s] = [ptr |-> p, size |-> n]]
    OBVIOUS
  <2>13. Gained(h, sl, s, p, n, Marked(s, n), r, new)
    BY <1>2, <1>3, <2>2, <2>7, <2>8, <2>9, <2>10, <2>11, <2>12, PointerSet
  <2> QED BY <2>3, <2>12, <2>13, Zenon DEF Block
<1> QED BY <1>4, <1>5, <1>7, <1>8

\* calloc, for a pointer that is free.
LEMMA CallocCalled ==
  ASSUME NEW h, NEW sl, HeldInv(h, sl), NEW s \in Slot, sl[s] = Nothing,
         NEW a \in Arrays, NEW n, n = a[1] * a[2], NEW q, q = Calloc(h, a[1], a[2])
  PROVE  /\ q.ptr = NULL => Stays(h, sl, q.heap)
         /\ q.ptr # NULL =>
              Gained(h, sl, s, q.ptr, n, [i \in 1..n |-> ZeroByte], q.heap,
                     [sl EXCEPT ![s] = Block(q.ptr, n)])
<1>1. PICK U : U = UsedBy(sl)
  OBVIOUS
<1>2. Usable(h, U) /\ U = OthersOf(sl, s)
  BY <1>1, OthersAre DEF HeldInv, Held
<1>3. /\ a[1] \in 0..WordMod - 1 /\ a[2] \in 0..WordMod - 1
      /\ n < WordMod => Fits(n)
  BY RequestsFit
<1>4. n \in Nat
  <2>1. a[1] \in Nat /\ a[2] \in Nat
    BY <1>3, LayoutAssumption
  <2> QED BY <2>1
<1>5. PICK g : g = q.heap
  OBVIOUS
<1>6. PICK p : p = q.ptr
  OBVIOUS
<1>7. Allocated(h, g, p, n, U) /\ Zeroed(g, p, n)
  BY <1>2, <1>3, <1>5, <1>6, CallocAllocates
<1>8. ASSUME p = NULL PROVE Stays(h, sl, g)
  BY <1>1, <1>7, <1>8, NothingMoves DEF Allocated, Stays
<1>9. ASSUME p # NULL
      PROVE  Gained(h, sl, s, p, n, [i \in 1..n |-> ZeroByte], g,
                    [sl EXCEPT ![s] = Block(p, n)])
  <2>1. PICK c : c = p - Hdr
    OBVIOUS
  <2>2. /\ Keeps(h, g, U) /\ n # 0 /\ c \notin U /\ Usable(g, U \cup {c})
        /\ c + Hdr = p /\ Size(g, c) >= n
        /\ \A i \in 1..n : ByteAt(g, p + i - 1) = ZeroByte
    BY <1>7, <1>9, <2>1 DEF Allocated, Zeroed
  <2>3. PICK bytes : bytes = [i \in 1..n |-> ZeroByte]
    OBVIOUS
  <2>4. \A i \in 1..n : ByteAt(g, p + i - 1) = bytes[i]
    BY <2>2, <2>3
  <2>5. bytes = [i \in 1..n |-> bytes[i]]
    BY <2>3
  <2>6. n > 0
    BY <1>4, <2>2
  <2>7. PICK new : new = [sl EXCEPT ![s] = [ptr |-> p, size |-> n]]
    OBVIOUS
  <2>8. Gained(h, sl, s, p, n, bytes, g, new)
    BY <1>2, <1>4, <2>2, <2>4, <2>5, <2>6, <2>7, PointerSet
  <2> QED BY <2>3, <2>7, <2>8, Zenon DEF Block
<1> QED BY <1>5, <1>6, <1>8, <1>9

\* free, for a pointer to a block.
LEMMA FreeCalled ==
  ASSUME NEW h, NEW sl, HeldInv(h, sl), NEW s \in Slot, sl[s] # Nothing,
         NEW r, r = Forget(Free(h, sl[s].ptr), sl[s].ptr, sl[s].size)
  PROVE  Lost(h, sl, s, r, [sl EXCEPT ![s] = Nothing])
<1>1. PICK U : U = UsedBy(sl)
  OBVIOUS
<1>2. PICK V : V = OthersOf(sl, s)
  OBVIOUS
<1>3. PICK b : b = BlockOf(sl, s)
  OBVIOUS
<1>4. /\ Usable(h, U) /\ V = U \ {b} /\ b \in U /\ Held(sl, s)
  BY <1>1, <1>2, <1>3, OthersAre DEF HeldInv, Held
<1>5. PICK p \in Nat, n \in Nat : p = sl[s].ptr /\ n = sl[s].size
  BY DEF HeldInv
<1>6. p = b + Hdr /\ Size(h, b) >= n /\ p + n <= EndAt(h, b) /\ b + Hdr <= p
  <2>1. Size(h, b) >= n
    BY <1>3, <1>4, <1>5 DEF HeldInv, Points
  <2>2. Size(h, b) \in Nat /\ EndAt(h, b) = b + Hdr + Size(h, b) /\ b \in Nat
    BY <1>4, UsedApart
  <2> QED BY <1>3, <1>5, <2>1, <2>2, LayoutAssumption DEF BlockOf
<1>7. PICK q : q = Free(h, p)
  OBVIOUS
<1>8. Usable(q, V) /\ Keeps(h, q, V)
  BY <1>4, <1>6, <1>7, FreeFrees
<1>9. r = Forget(q, p, n)
  BY <1>5, <1>7, Zenon
<1>10. Usable(r, V) /\ Keeps(h, r, V)
  <2>1. V \in SUBSET (U \ {b})
    BY <1>4
  <2> QED BY <1>4, <1>6, <1>8, <1>9, <2>1, ForgetKeeps
<1> QED BY <1>2, <1>10, PointerCleared

\* realloc of a block to nothing.
LEMMA ReallocFrees ==
  ASSUME NEW h, NEW sl, HeldInv(h, sl), NEW s \in Slot, sl[s] # Nothing,
         NEW q, q = Realloc(h, sl[s].ptr, 0),
         NEW r, r = Forget(q.heap, sl[s].ptr, sl[s].size)
  PROVE  Lost(h, sl, s, r, [sl EXCEPT ![s] = Nothing])
<1>1. PICK p : p = sl[s].ptr
  OBVIOUS
<1>2. PICK b : b = p - Hdr
  OBVIOUS
<1>3. b \in DOMAIN h.mem /\ p # NULL
  <2>1. Held(sl, s) /\ b = BlockOf(sl, s)
    BY <1>1, <1>2 DEF Held, BlockOf
  <2>2. b \in UsedBy(sl) /\ Usable(h, UsedBy(sl)) /\ p # NULL
    BY <1>1, <2>1, OthersAre DEF HeldInv, Points
  <2>3. UsedBy(sl) \subseteq DOMAIN h.mem
    BY <2>2 DEF Usable, Sound, Tiled
  <2> QED BY <2>2, <2>3
<1>4. q = [heap |-> Free(h, p), ptr |-> NULL]
  BY <1>1, <1>2, <1>3, ReallocIs
<1>5. r = Forget(Free(h, sl[s].ptr), sl[s].ptr, sl[s].size)
  BY <1>1, <1>4
<1> QED BY <1>5, FreeCalled

\* Forgetting nothing.
LEMMA ForgetNone ==
  ASSUME NEW h, Typed(h), NEW p \in Nat
  PROVE  Forget(h, p, 0) = h
<1>1. PICK bytes : bytes = [a \in DOMAIN h.bytes |->
                              IF a \in p..p + 0 - 1 THEN Junk ELSE h.bytes[a]]
  OBVIOUS
<1>2. p..p + 0 - 1 = {}
  OBVIOUS
<1>3. bytes = [a \in DOMAIN h.bytes |-> h.bytes[a]]
  BY <1>1, <1>2
<1>4. h.bytes = [a \in DOMAIN h.bytes |-> h.bytes[a]]
  BY DEF Typed, BytesTyped
<1>5. Forget(h, p, 0) = [h EXCEPT !.bytes = bytes]
  BY <1>1 DEF Forget
<1>6. Forget(h, p, 0) = [h EXCEPT !.bytes = h.bytes]
  BY <1>3, <1>4, <1>5
<1> QED BY <1>6 DEF Typed, Heap

\* The number of bytes realloc keeps.
Common(sl, s, n) == IF sl[s].size < n THEN sl[s].size ELSE n

\* What the program does with the block it got from realloc.
Refilled(h, sl, s, n, g, p) ==
  LET old  == sl[s]
      same == Common(sl, s, n)
      lost == IF p = old.ptr THEN same ELSE 0
  IN Fill(Forget(g, old.ptr + lost, old.size - lost), s, p, same, n)

\* realloc of the null pointer.
LEMMA ReallocFirst ==
  ASSUME NEW h, NEW sl, HeldInv(h, sl), NEW s \in Slot, sl[s] = Nothing,
         NEW n \in ResizeTo, NEW q, q = Realloc(h, sl[s].ptr, n)
  PROVE  /\ q.ptr = NULL => Stays(h, sl, q.heap)
         /\ q.ptr # NULL =>
              Gained(h, sl, s, q.ptr, n, Marked(s, n),
                     Refilled(h, sl, s, n, q.heap, q.ptr),
                     [sl EXCEPT ![s] = Block(q.ptr, n)])
<1>1. sl[s].ptr = NULL /\ sl[s].size = 0
  BY DEF Nothing
<1>2. q = Malloc(h, n)
  BY <1>1, Zenon DEF Realloc
<1>3. n \in Sizes \cup ResizeTo
  OBVIOUS
<1>4. /\ q.ptr = NULL => Stays(h, sl, q.heap)
      /\ q.ptr # NULL =>
           Gained(h, sl, s, q.ptr, n, Marked(s, n), Fill(q.heap, s, q.ptr, 0, n),
                  [sl EXCEPT ![s] = Block(q.ptr, n)])
  BY <1>2, <1>3, MallocCalled
<1>5. Refilled(h, sl, s, n, q.heap, q.ptr) = Fill(q.heap, s, q.ptr, 0, n)
  <2>1. n \in Nat
    BY RequestsFit DEF Fits
  <2>2. Common(sl, s, n) = 0
    BY <1>1, <2>1 DEF Common
  <2>3. Typed(q.heap)
    <3>1. Fits(n) /\ Usable(h, UsedBy(sl))
      BY RequestsFit DEF HeldInv
    <3>2. Allocated(h, q.heap, q.ptr, n, UsedBy(sl))
      BY <1>2, <3>1, MallocAllocates
    <3>3. \E U : Usable(q.heap, U)
      BY <3>2 DEF Allocated
    <3> QED BY <3>3 DEF Usable, Sound, Tiled
  <2>4. Forget(q.heap, 0, 0) = q.heap
    BY <2>3, ForgetNone
  <2>5. \A x : (IF x THEN 0 ELSE 0) = 0
    OBVIOUS
  <2>6. Refilled(h, sl, s, n, q.heap, q.ptr) = Fill(Forget(q.heap, 0, 0), s, q.ptr, 0, n)
    BY <1>1, <2>2 DEF Refilled, NULL
  <2> QED BY <2>4, <2>6
<1> QED BY <1>4, <1>5

\* The bytes of pointer s after realloc.
Resumed(h, sl, s, n) ==
  [i \in 1..n |-> IF i <= sl[s].size THEN Contents(h, sl)[s][i] ELSE Mark(s, i)]

\* realloc of a block to another size.
LEMMA ReallocAgain ==
  ASSUME NEW h, NEW sl, HeldInv(h, sl), NEW s \in Slot, sl[s] # Nothing,
         NEW n \in ResizeTo, n # 0, NEW q, q = Realloc(h, sl[s].ptr, n)
  PROVE  /\ q.ptr = NULL => Stays(h, sl, q.heap)
         /\ q.ptr # NULL =>
              Gained(h, sl, s, q.ptr, n, Resumed(h, sl, s, n),
                     Refilled(h, sl, s, n, q.heap, q.ptr),
                     [sl EXCEPT ![s] = Block(q.ptr, n)])
<1>1. PICK U : U = UsedBy(sl)
  OBVIOUS
<1>2. PICK V : V = OthersOf(sl, s)
  OBVIOUS
<1>3. PICK b : b = BlockOf(sl, s)
  OBVIOUS
<1>4. /\ Usable(h, U) /\ V = U \ {b} /\ b \in U /\ Held(sl, s)
  BY <1>1, <1>2, <1>3, OthersAre DEF HeldInv, Held
<1>5. PICK old \in Nat, have \in Nat : old = sl[s].ptr /\ have = sl[s].size
  BY DEF HeldInv
<1>6. /\ b \in Nat \ {0} /\ Size(h, b) \in Nat /\ EndAt(h, b) = b + Hdr + Size(h, b)
      /\ old = b + Hdr /\ have <= Size(h, b) /\ Hdr \in Nat
  <2>1. Size(h, b) >= have
    BY <1>3, <1>4, <1>5 DEF HeldInv, Points
  <2>2. /\ b \in Nat \ {0} /\ Size(h, b) \in Nat
        /\ EndAt(h, b) = b + Hdr + Size(h, b)
    BY <1>4, UsedApart
  <2> QED BY <1>3, <1>5, <2>1, <2>2, LayoutAssumption DEF BlockOf
<1>7. Fits(n) /\ n \in Nat /\ n > 0
  BY RequestsFit DEF Fits
<1>8. PICK g : g = q.heap
  OBVIOUS
<1>9. PICK p : p = q.ptr
  OBVIOUS
<1>10. Reallocated(h, g, p, b, n, U)
  <2>1. q = Realloc(h, old, n)
    BY <1>5
  <2> QED BY <1>4, <1>6, <1>7, <1>8, <1>9, <2>1, ReallocGives
<1>11. ASSUME p = NULL PROVE Stays(h, sl, g)
  BY <1>1, <1>10, <1>11, NothingMoves DEF Reallocated, Stays
<1>12. ASSUME p # NULL
       PROVE  Gained(h, sl, s, p, n, Resumed(h, sl, s, n),
                     Refilled(h, sl, s, n, g, p), [sl EXCEPT ![s] = Block(p, n)])
  <2>1. PICK c : c = p - Hdr
    OBVIOUS
  <2>2. PICK W : W = V \cup {c}
    OBVIOUS
  <2>3. /\ c \notin V /\ Usable(g, W) /\ Size(g, c) >= n /\ Keeps(h, g, V)
        /\ c # b => EndAt(h, b) <= c \/ c + Hdr + n <= b
        /\ \A i \in 1..n : i <= Size(h, b) =>
             ByteAt(g, c + Hdr + i - 1) = ByteAt(h, b + Hdr + i - 1)
        /\ c + Hdr = p
    <3>1. Resized(h, g, b, c, n, U) /\ c + Hdr = p
      BY <1>10, <1>12, <2>1 DEF Reallocated
    <3> QED BY <1>4, <2>2, <3>1 DEF Resized
  <2>4. c \in W /\ W \ {c} = V /\ c \in Nat \ {0} /\ Size(g, c) \in Nat
    <3>1. c \in W
      BY <2>2
    <3> QED BY <2>2, <2>3, <3>1, UsedApart
  <2>5. PICK same \in Nat : same = Common(sl, s, n) /\ same <= have /\ same <= n
                            /\ (same < n => same = have)
    BY <1>5, <1>7 DEF Common
  <2>6. PICK lost \in Nat : /\ lost = IF p = old THEN same ELSE 0
                            /\ lost <= have
    BY <2>5
  <2>7. PICK f : f = Forget(g, old + lost, have - lost)
    OBVIOUS
  <2>8. PICK r : r = Fill(f, s, p, same, n)
    OBVIOUS
  <2>9. r = Refilled(h, sl, s, n, g, p)
    BY <1>5, <2>5, <2>6, <2>7, <2>8, Zenon DEF Refilled
  <2>10. Usable(f, W) /\ Keeps(h, f, V) /\ Size(f, c) = Size(g, c)
    <3>1. lost <= have
      BY <2>6, Zenon
    <3>2. PICK at \in Nat, k \in Nat : at = old + lost /\ k = have - lost
      BY <3>1
    <3>3. b + Hdr <= at /\ at + k <= EndAt(h, b)
      BY <1>6, <2>6, <3>2
    <3>4. f = Forget(g, at, k) /\ V \in SUBSET (U \ {b})
      BY <1>4, <2>7, <3>2
    <3>5. Usable(g, W) /\ Keeps(h, g, V) /\ Usable(h, U) /\ b \in U
      BY <1>4, <2>3
    <3>6. Usable(f, W) /\ Keeps(h, f, V)
      BY <3>3, <3>4, <3>5, ForgetKeeps
    <3>7. Size(f, c) = Size(g, c)
      BY <3>4, <3>5, ForgetGives
    <3> QED BY <3>6, <3>7
  <2>11. ASSUME NEW i \in 1..same
         PROVE  ByteAt(f, p + i - 1) = ByteAt(h, old + i - 1)
    <3>1. p + i - 1 \notin Stretch(old + lost, have - lost)
      <4>1. CASE p = old
        <5>1. lost = same
          BY <2>6, <4>1, Zenon
        <5> QED BY <4>1, <5>1 DEF Stretch
      <4>2. CASE p # old
        <5>1. lost = 0
          BY <2>6, <4>2, Zenon
        <5>2. c # b
          BY <1>6, <2>3, <4>2
        <5>3. EndAt(h, b) <= c \/ c + Hdr + n <= b
          BY <2>3, <5>2
        <5> QED BY <1>6, <1>7, <2>3, <2>4, <2>5, <5>1, <5>3 DEF Stretch
      <4> QED BY <4>1, <4>2
    <3>2. ByteAt(f, p + i - 1) = ByteAt(g, p + i - 1)
      BY <2>3, <2>7, <3>1, ForgetGives
    <3>3. i \in 1..n /\ i <= Size(h, b)
      BY <1>6, <1>7, <2>5
    <3>4. ByteAt(g, p + i - 1) = ByteAt(h, old + i - 1)
      BY <1>6, <2>3, <3>3
    <3> QED BY <3>2, <3>4
  <2>12. Filled(f, r, s, p, c, same, n, W)
    <3>1. same \in 0..n /\ n <= Size(f, c) /\ p = c + Hdr
      BY <1>7, <2>3, <2>4, <2>5, <2>10
    <3> QED BY <1>7, <2>4, <2>8, <2>10, <3>1, FillGives
  <2>13. /\ Usable(r, W) /\ Size(r, c) >= n /\ Keeps(f, r, V)
         /\ \A i \in 1..n : ByteAt(r, p + i - 1)
                              = IF i <= same THEN ByteAt(f, p + i - 1) ELSE Mark(s, i)
    BY <2>3, <2>4, <2>10, <2>12 DEF Filled
  <2>14. Keeps(h, r, V)
    BY <2>10, <2>13, KeepsThrough
  <2>15. PICK bytes : bytes = Resumed(h, sl, s, n)
    OBVIOUS
  <2>16. ASSUME NEW i \in 1..n
         PROVE  ByteAt(r, p + i - 1) = bytes[i]
    <3>1. bytes[i] = IF i <= have THEN BytesAt(h, old, have)[i] ELSE Mark(s, i)
      BY <1>5, <2>15 DEF Resumed, Contents
    <3>2. CASE i <= same
      <4>1. i \in 1..same /\ i \in 1..have /\ i <= have
        BY <1>5, <1>7, <2>5, <3>2
      <4>2. BytesAt(h, old, have)[i] = ByteAt(h, old + i - 1)
        BY <4>1 DEF BytesAt, ByteAt
      <4>3. ByteAt(f, p + i - 1) = ByteAt(h, old + i - 1)
        BY <2>11, <4>1
      <4>4. ByteAt(r, p + i - 1) = ByteAt(f, p + i - 1)
        BY <2>13, <3>2
      <4>5. bytes[i] = BytesAt(h, old, have)[i]
        BY <3>1, <4>1
      <4> QED BY <4>2, <4>3, <4>4, <4>5
    <3>3. CASE ~(i <= same)
      <4>1. ~(i <= have)
        BY <1>7, <2>5, <3>3
      <4>2. bytes[i] = Mark(s, i)
        BY <3>1, <4>1, Zenon
      <4>3. ByteAt(r, p + i - 1) = Mark(s, i)
        BY <2>13, <3>3
      <4> QED BY <4>2, <4>3
    <3> QED BY <3>2, <3>3
  <2>17. bytes = [i \in 1..n |-> bytes[i]]
    BY <2>15 DEF Resumed
  <2>18. PICK new : new = [sl EXCEPT ![s] = [ptr |-> p, size |-> n]]
    OBVIOUS
  <2>19. Gained(h, sl, s, p, n, bytes, r, new)
    BY <1>2, <1>7, <2>2, <2>3, <2>13, <2>14, <2>16, <2>17, <2>18, PointerSet
  <2> QED BY <2>9, <2>15, <2>18, <2>19, Zenon DEF Block
<1> QED BY <1>8, <1>9, <1>11, <1>12

-----------------------------------------------------------------------------
(***************************************************************************)
(* The specification.                                                      *)
(***************************************************************************)
\* The heap at the start: no blocks, an empty list.
LEMMA EmptyUsable ==
  ASSUME NEW mem, MemTyped(mem), NEW bytes, BytesTyped(bytes),
         NEW h, h = Heap(mem, bytes, NULL, NULL, NULL, BrkStart)
  PROVE  Usable(h, {})
<1>1. /\ h.mem = mem /\ h.free_list_head = NULL /\ h.first_phys_block = NULL
      /\ h.last_phys_block = NULL /\ h.brk = BrkStart /\ Typed(h)
  BY HeapMembers
<1>2. Tiled(h, {})
  BY <1>1, BreakAssumption DEF Tiled, Start
<1>3. OnFreeList(h, {})
  BY <1>1 DEF OnFreeList, Linked
<1>4. Sound(h, {}, {})
  BY <1>2, <1>3 DEF Sound, Flags
<1> QED BY <1>4 DEF Usable

\* The heap of Init is that one.
LEMMA InitUsable ==
  ASSUME NEW h,
         h = [mem |-> << >>, bytes |-> [a \in BrkStart..BrkLimit - 1 |-> Junk],
              free_list_head |-> NULL, first_phys_block |-> NULL,
              last_phys_block |-> NULL, brk |-> BrkStart]
  PROVE  Usable(h, {})
<1>1. PICK mem : mem = << >>
  OBVIOUS
<1>2. PICK bytes : bytes = [a \in BrkStart..BrkLimit - 1 |-> Junk]
  OBVIOUS
<1>3. h = Heap(mem, bytes, NULL, NULL, NULL, BrkStart)
  BY <1>1, <1>2, Zenon DEF Heap
<1>4. MemTyped(mem)
  <2>1. DOMAIN mem = {} /\ mem \in [DOMAIN mem -> BlockHeader]
    BY <1>1
  <2>2. IsFiniteSet(DOMAIN mem)
    BY <2>1, FS_EmptySet
  <2> QED BY <2>1, <2>2 DEF MemTyped
<1>5. BytesTyped(bytes)
  BY <1>2 DEF BytesTyped
<1> QED BY <1>3, <1>4, <1>5, EmptyUsable, Zenon

\* The inductive invariant holds at the start.
LEMMA InitHeld ==
  ASSUME Init
  PROVE  HeldInv(heap, slots) /\ Contents(heap, slots) = [s \in Slot |-> << >>]
<1>1. slots = [s \in Slot |-> Nothing]
  BY DEF Init
<1>2. \A s \in Slot : slots[s] = Nothing
  BY <1>1
<1>3. slots \in [Slot -> [ptr : Nat, size : Nat]]
  BY <1>1 DEF Nothing, NULL
<1>4. UsedBy(slots) = {}
  BY <1>2 DEF UsedBy, Held
<1>5. Usable(heap, {})
  BY InitUsable DEF Init
<1>6. HeldInv(heap, slots)
  BY <1>2, <1>3, <1>4, <1>5 DEF HeldInv, Held
<1>7. ASSUME NEW s \in Slot PROVE BytesAt(heap, slots[s].ptr, slots[s].size) = << >>
  <2>1. slots[s].size = 0
    BY <1>2 DEF Nothing
  <2> QED BY <2>1 DEF BytesAt
<1> QED BY <1>6, <1>7 DEF Contents

\* What a step of the program does, in the words of the contract.
Requests == Sizes \cup ResizeTo

Outcome(h, sl, r, new) ==
  \/ new = sl /\ Stays(h, sl, r)
  \/ \E s \in Slot : sl[s] # Nothing /\ Lost(h, sl, s, r, new)
  \/ \E s \in Slot, n \in Requests : sl[s] = Nothing /\
       Gained(h, sl, s, new[s].ptr, n, Marked(s, n), r, new)
  \/ \E s \in Slot, a \in Arrays : sl[s] = Nothing /\
       Gained(h, sl, s, new[s].ptr, a[1] * a[2],
              [i \in 1..a[1] * a[2] |-> ZeroByte], r, new)
  \/ \E s \in Slot, n \in Requests : sl[s] # Nothing /\
       Gained(h, sl, s, new[s].ptr, n, Resumed(h, sl, s, n), r, new)

\* The new pointer, in the new slots.
LEMMA PointerIs ==
  ASSUME NEW h, NEW sl, HeldInv(h, sl), NEW s \in Slot, NEW p, NEW n,
         NEW new, new = [sl EXCEPT ![s] = Block(p, n)]
  PROVE  new[s].ptr = p
<1>1. DOMAIN sl = Slot
  BY DEF HeldInv
<1>2. new[s] = [ptr |-> p, size |-> n]
  BY <1>1 DEF Block
<1> QED BY <1>2

\* A call of malloc.
LEMMA MallocSteps ==
  ASSUME HeldInv(heap, slots), NEW s \in Slot, CallMalloc(s)
  PROVE  Outcome(heap, slots, heap', slots')
<1>1. slots[s] = Nothing
  BY DEF CallMalloc
<1>2. PICK n \in Sizes : \E q \in {Malloc(heap, n)} :
        IF q.ptr = NULL THEN heap' = q.heap /\ UNCHANGED slots
        ELSE /\ heap' = Fill(q.heap, s, q.ptr, 0, n)
             /\ slots' = [slots EXCEPT ![s] = [ptr |-> q.ptr, size |-> n]]
  BY DEF CallMalloc
<1>3. PICK q \in {Malloc(heap, n)} :
        IF q.ptr = NULL THEN heap' = q.heap /\ UNCHANGED slots
        ELSE /\ heap' = Fill(q.heap, s, q.ptr, 0, n)
             /\ slots' = [slots EXCEPT ![s] = [ptr |-> q.ptr, size |-> n]]
  BY <1>2
<1>4. n \in Sizes \cup ResizeTo /\ q = Malloc(heap, n)
  OBVIOUS
<1>5. /\ q.ptr = NULL => Stays(heap, slots, q.heap)
      /\ q.ptr # NULL =>
           Gained(heap, slots, s, q.ptr, n, Marked(s, n),
                  Fill(q.heap, s, q.ptr, 0, n),
                  [slots EXCEPT ![s] = Block(q.ptr, n)])
  BY <1>1, <1>4, MallocCalled
<1>6. CASE q.ptr = NULL
  <2>1. heap' = q.heap /\ slots' = slots
    BY <1>3, <1>6
  <2>2. slots' = slots /\ Stays(heap, slots, heap')
    BY <1>5, <1>6, <2>1
  <2> QED BY <2>2 DEF Outcome
<1>7. CASE q.ptr # NULL
  <2>1. /\ heap' = Fill(q.heap, s, q.ptr, 0, n)
        /\ slots' = [slots EXCEPT ![s] = Block(q.ptr, n)]
    BY <1>3, <1>7 DEF Block
  <2>2. slots'[s].ptr = q.ptr
    BY <2>1, PointerIs
  <2>3. Gained(heap, slots, s, slots'[s].ptr, n, Marked(s, n), heap', slots')
    BY <1>5, <1>7, <2>1, <2>2, Zenon
  <2> QED BY <1>1, <1>4, <2>3 DEF Outcome, Requests
<1> QED BY <1>6, <1>7

\* A call of calloc.
LEMMA CallocSteps ==
  ASSUME HeldInv(heap, slots), NEW s \in Slot, CallCalloc(s)
  PROVE  Outcome(heap, slots, heap', slots')
<1>1. slots[s] = Nothing
  BY DEF CallCalloc
<1>2. PICK a \in Arrays : \E q \in {Calloc(heap, a[1], a[2])} :
        /\ heap' = q.heap
        /\ slots' = IF q.ptr = NULL THEN slots
                    ELSE [slots EXCEPT ![s] = [ptr |-> q.ptr, size |-> a[1] * a[2]]]
  BY DEF CallCalloc
<1>3. PICK q \in {Calloc(heap, a[1], a[2])} :
        /\ heap' = q.heap
        /\ slots' = IF q.ptr = NULL THEN slots
                    ELSE [slots EXCEPT ![s] = [ptr |-> q.ptr, size |-> a[1] * a[2]]]
  BY <1>2
<1>4. PICK n : n = a[1] * a[2]
  OBVIOUS
<1>5. q = Calloc(heap, a[1], a[2])
  OBVIOUS
<1>6. /\ q.ptr = NULL => Stays(heap, slots, q.heap)
      /\ q.ptr # NULL =>
           Gained(heap, slots, s, q.ptr, n, [i \in 1..n |-> ZeroByte], q.heap,
                  [slots EXCEPT ![s] = Block(q.ptr, n)])
  BY <1>1, <1>4, <1>5, CallocCalled
<1>7. CASE q.ptr = NULL
  <2>1. heap' = q.heap /\ slots' = slots
    BY <1>3, <1>7
  <2>2. slots' = slots /\ Stays(heap, slots, heap')
    BY <1>6, <1>7, <2>1
  <2> QED BY <2>2 DEF Outcome
<1>8. CASE q.ptr # NULL
  <2>1. heap' = q.heap /\ slots' = [slots EXCEPT ![s] = Block(q.ptr, n)]
    BY <1>3, <1>4, <1>8 DEF Block
  <2>2. slots'[s].ptr = q.ptr
    BY <2>1, PointerIs
  <2>3. Gained(heap, slots, s, slots'[s].ptr, n, [i \in 1..n |-> ZeroByte],
               heap', slots')
    BY <1>6, <1>8, <2>1, <2>2, Zenon
  <2>4. Gained(heap, slots, s, slots'[s].ptr, a[1] * a[2],
               [i \in 1..a[1] * a[2] |-> ZeroByte], heap', slots')
    BY <1>4, <2>3, Zenon
  <2> QED BY <1>1, <2>4 DEF Outcome
<1> QED BY <1>7, <1>8

\* A call of free.
LEMMA FreeSteps ==
  ASSUME HeldInv(heap, slots), NEW s \in Slot, CallFree(s)
  PROVE  Outcome(heap, slots, heap', slots')
<1>1. /\ slots[s] # Nothing
      /\ heap' = Forget(Free(heap, slots[s].ptr), slots[s].ptr, slots[s].size)
      /\ slots' = [slots EXCEPT ![s] = Nothing]
  BY DEF CallFree
<1>2. Lost(heap, slots, s, heap', slots')
  <2>1. Lost(heap, slots, s, heap', [slots EXCEPT ![s] = Nothing])
    BY <1>1, FreeCalled
  <2> QED BY <1>1, <2>1
<1> QED BY <1>1, <1>2 DEF Outcome

\* A call of realloc: of the null pointer, to nothing, or to another size.
LEMMA ReallocSteps ==
  ASSUME HeldInv(heap, slots), NEW s \in Slot, CallRealloc(s)
  PROVE  Outcome(heap, slots, heap', slots')
<1>1. PICK n \in ResizeTo : \E q \in {Realloc(heap, slots[s].ptr, n)} :
        IF n = 0 /\ slots[s] # Nothing
        THEN /\ heap' = Forget(q.heap, slots[s].ptr, slots[s].size)
             /\ slots' = [slots EXCEPT ![s] = Nothing]
        ELSE IF q.ptr = NULL THEN heap' = q.heap /\ UNCHANGED slots
        ELSE /\ heap' = Refilled(heap, slots, s, n, q.heap, q.ptr)
             /\ slots' = [slots EXCEPT ![s] = [ptr |-> q.ptr, size |-> n]]
  BY Zenon DEF CallRealloc, Refilled, Common
<1>2. PICK q \in {Realloc(heap, slots[s].ptr, n)} :
        IF n = 0 /\ slots[s] # Nothing
        THEN /\ heap' = Forget(q.heap, slots[s].ptr, slots[s].size)
             /\ slots' = [slots EXCEPT ![s] = Nothing]
        ELSE IF q.ptr = NULL THEN heap' = q.heap /\ UNCHANGED slots
        ELSE /\ heap' = Refilled(heap, slots, s, n, q.heap, q.ptr)
             /\ slots' = [slots EXCEPT ![s] = [ptr |-> q.ptr, size |-> n]]
  BY <1>1
<1>3. q = Realloc(heap, slots[s].ptr, n) /\ n \in Requests
  BY DEF Requests
<1>4. CASE n = 0 /\ slots[s] # Nothing
  <2>1. /\ heap' = Forget(q.heap, slots[s].ptr, slots[s].size)
        /\ slots' = [slots EXCEPT ![s] = Nothing]
    BY <1>2, <1>4
  <2>2. q = Realloc(heap, slots[s].ptr, 0)
    BY <1>3, <1>4
  <2>3. Lost(heap, slots, s, heap', [slots EXCEPT ![s] = Nothing])
    BY <1>4, <2>1, <2>2, ReallocFrees
  <2>4. Lost(heap, slots, s, heap', slots')
    BY <2>1, <2>3
  <2> QED BY <1>4, <2>4 DEF Outcome
<1>5. CASE ~(n = 0 /\ slots[s] # Nothing)
  <2>1. IF q.ptr = NULL THEN heap' = q.heap /\ slots' = slots
        ELSE /\ heap' = Refilled(heap, slots, s, n, q.heap, q.ptr)
             /\ slots' = [slots EXCEPT ![s] = Block(q.ptr, n)]
    BY <1>2, <1>5, Zenon DEF Block
  <2>2. PICK bytes : bytes = IF slots[s] = Nothing THEN Marked(s, n)
                             ELSE Resumed(heap, slots, s, n)
    OBVIOUS
  <2>3. /\ q.ptr = NULL => Stays(heap, slots, q.heap)
        /\ q.ptr # NULL =>
             Gained(heap, slots, s, q.ptr, n, bytes,
                    Refilled(heap, slots, s, n, q.heap, q.ptr),
                    [slots EXCEPT ![s] = Block(q.ptr, n)])
    <3>1. CASE slots[s] = Nothing
      BY <1>3, <2>2, <3>1, ReallocFirst
    <3>2. CASE slots[s] # Nothing
      BY <1>3, <1>5, <2>2, <3>2, ReallocAgain
    <3> QED BY <3>1, <3>2
  <2>4. CASE q.ptr = NULL
    <3>1. slots' = slots /\ Stays(heap, slots, heap')
      BY <2>1, <2>3, <2>4
    <3> QED BY <3>1 DEF Outcome
  <2>5. CASE q.ptr # NULL
    <3>1. /\ heap' = Refilled(heap, slots, s, n, q.heap, q.ptr)
          /\ slots' = [slots EXCEPT ![s] = Block(q.ptr, n)]
      BY <2>1, <2>5
    <3>2. slots'[s].ptr = q.ptr
      BY <3>1, PointerIs
    <3>3. Gained(heap, slots, s, slots'[s].ptr, n, bytes, heap', slots')
      BY <2>3, <2>5, <3>1, <3>2, Zenon
    <3>4. CASE slots[s] = Nothing
      <4>1. Gained(heap, slots, s, slots'[s].ptr, n, Marked(s, n), heap', slots')
        BY <2>2, <3>3, <3>4, Zenon
      <4> QED BY <1>3, <3>4, <4>1 DEF Outcome
    <3>5. CASE slots[s] # Nothing
      <4>1. Gained(heap, slots, s, slots'[s].ptr, n, Resumed(heap, slots, s, n),
                   heap', slots')
        BY <2>2, <3>3, <3>5, Zenon
      <4> QED BY <1>3, <3>5, <4>1 DEF Outcome
    <3> QED BY <3>4, <3>5
  <2> QED BY <2>4, <2>5
<1> QED BY <1>4, <1>5

\* Every step of the program.
LEMMA NextGives ==
  ASSUME HeldInv(heap, slots), Next
  PROVE  Outcome(heap, slots, heap', slots')
<1>1. PICK s \in Slot : CallMalloc(s) \/ CallCalloc(s) \/ CallFree(s) \/ CallRealloc(s)
  BY DEF Next
<1>2. CASE CallMalloc(s)
  BY <1>2, MallocSteps
<1>3. CASE CallCalloc(s)
  BY <1>3, CallocSteps
<1>4. CASE CallFree(s)
  BY <1>4, FreeSteps
<1>5. CASE CallRealloc(s)
  BY <1>5, ReallocSteps
<1> QED BY <1>1, <1>2, <1>3, <1>4, <1>5

\* The inductive invariant holds after each outcome.
LEMMA OutcomeHeld ==
  ASSUME NEW h, NEW sl, NEW r, NEW new, Outcome(h, sl, r, new)
  PROVE  HeldInv(r, new)
BY DEF Outcome, Stays, Lost, Gained

\* In every reachable state the heap can be used, and what is not free is what
\* the program holds.
THEOREM HeldAlways == Spec => []HeldInv(heap, slots)
<1>1. Init => HeldInv(heap, slots)
  BY InitHeld
<1>2. HeldInv(heap, slots) /\ [Next]_vars => HeldInv(heap, slots)'
  <2> SUFFICES ASSUME HeldInv(heap, slots), [Next]_vars PROVE HeldInv(heap', slots')
    OBVIOUS
  <2>1. CASE Next
    BY <2>1, NextGives, OutcomeHeld
  <2>2. CASE UNCHANGED vars
    <3>1. heap' = heap /\ slots' = slots
      BY <2>2 DEF vars
    <3> QED BY <3>1
  <2> QED BY <2>1, <2>2
<1> QED BY <1>1, <1>2, PTL DEF Spec

-----------------------------------------------------------------------------
\* HeapInv of a heap that can be used.
LEMMA UsableTiles ==
  ASSUME NEW B, NEW S, Sound(heap, B, S)
  PROVE  Blocks = B /\ Tiling /\ FreeListExact
<1>1. /\ Tiled(heap, B) /\ S \subseteq B /\ OnFreeList(heap, S) /\ Flags(heap, B, S)
      /\ Typed(heap)
  BY DEF Sound, Tiled
<1>2. Blocks = B
  <2>1. PICK at : at = PhysList(heap)
    OBVIOUS
  <2>2. PICK n : n = Cardinality(DOMAIN heap.mem)
    OBVIOUS
  <2>3. PICK prev : prev = [x \in B |-> PrevPhys(heap, x)]
    OBVIOUS
  <2>4. n \in Nat /\ DOMAIN at = 0..n /\ Covers(at, n, B, prev)
    BY <1>1, <2>1, <2>2, <2>3, PhysListCovers
  <2>5. Blocks = {at[k] : k \in DOMAIN at} \ {NULL}
    BY <2>1, Zenon DEF Blocks
  <2>6. NULL \notin B
    BY <1>1, TileNumbers DEF NULL
  <2>7. B \subseteq {at[k] : k \in 0..n} /\ \A k \in 0..n : at[k] = NULL \/ at[k] \in B
    BY <2>4 DEF Covers
  <2> QED BY <2>4, <2>5, <2>6, <2>7
<1>3. Tiling
  <2>1. Blocks = {} => heap.last_phys_block = NULL
    BY <1>1, <1>2 DEF Tiled
  <2>2. Crossed <=> ~Whole(heap)
    BY <1>1, BreakAssumption, LayoutAssumption DEF Crossed, Whole, Half, Tiled
  <2>3. Blocks # {} =>
          /\ RoundUp(BrkStart, Align) <= heap.first_phys_block
          /\ ~Crossed => heap.first_phys_block = RoundUp(BrkStart, Align)
          /\ heap.mem[heap.first_phys_block].prev_phys = NULL
    <3>1. PICK b : b = heap.first_phys_block
      OBVIOUS
    <3>2. ASSUME B # {}
          PROVE  b \in B /\ PrevPhys(heap, b) = NULL /\ (Whole(heap) => b = Start)
      BY <1>1, <3>1, <3>2 DEF Tiled
    <3>3. B # {} => Start <= b
      BY <1>1, <3>2 DEF Tiled, InPlace, Seated
    <3> QED BY <1>2, <2>2, <3>1, <3>2, <3>3 DEF Start, PrevPhys
  <2>4. ASSUME NEW b \in Blocks, NEW next, next = heap.mem[b].next_phys,
               NEW limit, limit = IF next = NULL THEN heap.brk ELSE next
        PROVE  /\ EndOf(b) <= limit /\ (~Crossed => EndOf(b) = limit)
               /\ IF next = NULL THEN b = heap.last_phys_block
                  ELSE heap.mem[next].prev_phys = b
    <3>1. /\ b \in B /\ Ahead(heap, B, b) /\ EndAt(heap, b) <= heap.brk
          /\ next = NextPhys(heap, b) /\ EndOf(b) = EndAt(heap, b)
      BY <1>1, <1>2, <2>4 DEF Tiled, InPlace, Seated, EndOf, EndAt, Size, NextPhys
    <3>2. CASE next = NULL
      BY <2>2, <2>4, <3>1, <3>2 DEF Ahead, Outermost
    <3>3. CASE next # NULL
      <4>1. /\ EndAt(heap, b) <= next /\ PrevPhys(heap, next) = b
            /\ Whole(heap) => EndAt(heap, b) = next
        BY <1>1, <3>1, <3>3, NextInPlace
      <4> QED BY <2>2, <2>4, <3>1, <3>3, <4>1 DEF PrevPhys
    <3> QED BY <3>2, <3>3
  <2>5. \A b \in Blocks :
          LET next  == heap.mem[b].next_phys
              limit == IF next = NULL THEN heap.brk ELSE next
          IN /\ EndOf(b) <= limit /\ (~Crossed => EndOf(b) = limit)
             /\ IF next = NULL THEN b = heap.last_phys_block
                ELSE heap.mem[next].prev_phys = b
    BY <2>4
  <2> QED BY <2>1, <2>3, <2>5 DEF Tiling
<1>4. FreeListExact
  <2>1. PICK at : at = FreeList(heap)
    OBVIOUS
  <2>2. PICK n : n = Cardinality(DOMAIN heap.mem)
    OBVIOUS
  <2>3. PICK prev : prev = [x \in S |-> PrevFree(heap, x)]
    OBVIOUS
  <2>4. n \in Nat /\ DOMAIN at = 0..n /\ Covers(at, n, S, prev)
    BY <1>1, <2>1, <2>2, <2>3, FreeListCovers
  <2>5. PICK parts : parts = {k \in DOMAIN at : at[k] # NULL}
    OBVIOUS
  <2>6. NULL \notin S
    BY <1>1, TileNumbers DEF NULL
  <2>7. {at[k] : k \in parts} = {b \in Blocks : heap.mem[b].is_free}
    <3>1. {at[k] : k \in parts} = S
      BY <2>4, <2>5, <2>6 DEF Covers
    <3>2. {b \in Blocks : heap.mem[b].is_free} = S
      BY <1>1, <1>2 DEF Flags, FreeFlag
    <3> QED BY <3>1, <3>2
  <2>8. \A j, k \in parts : at[j] = at[k] => j = k
    BY <2>4, <2>5 DEF Covers
  <2>9. ASSUME NEW k \in parts
        PROVE  heap.mem[at[k]].prev_free = IF k = 0 THEN NULL ELSE at[k - 1]
    <3>1. at[k] \in S /\ k \in 0..n /\ prev[at[k]] = IF k = 0 THEN NULL ELSE at[k - 1]
      BY <2>4, <2>5 DEF Covers
    <3>2. prev[at[k]] = heap.mem[at[k]].prev_free
      BY <2>3, <3>1 DEF PrevFree
    <3> QED BY <3>1, <3>2
  <2>10. \A k \in parts :
           heap.mem[at[k]].prev_free = IF k = 0 THEN NULL ELSE at[k - 1]
    BY <2>9
  <2> QED BY <2>1, <2>5, <2>7, <2>8, <2>10, SMT DEF FreeListExact
<1> QED BY <1>2, <1>3, <1>4

\* The invariant of the runs follows from the inductive one.
LEMMA HeldSound ==
  ASSUME HeldInv(heap, slots)
  PROVE  HeapInv
<1>1. PICK B, S : Sound(heap, B, S) /\ UsedBy(slots) = B \ S
  BY DEF HeldInv, Usable
<1>2. Blocks = B /\ Tiling /\ FreeListExact
  BY <1>1, UsableTiles
<1>3. \A s \in Slot : slots[s] # Nothing => Points(heap, slots, s)
  BY DEF HeldInv, Held
<1>4. RequestMet
  BY <1>3 DEF RequestMet, Points, Size, BlockOf
<1>5. {b \in Blocks : ~heap.mem[b].is_free}
        = {slots[s].ptr - Hdr : s \in {t \in Slot : slots[t] # Nothing}}
  <2>1. {b \in Blocks : ~heap.mem[b].is_free} = B \ S
    BY <1>1, <1>2 DEF Sound, Flags, FreeFlag
  <2>2. {slots[s].ptr - Hdr : s \in {t \in Slot : slots[t] # Nothing}} = UsedBy(slots)
    BY Zenon DEF UsedBy, Held, BlockOf
  <2> QED BY <1>1, <2>1, <2>2
<1>6. \A s, t \in Slot :
        slots[s] # Nothing /\ slots[s].ptr = slots[t].ptr => s = t
  <2>1. ASSUME NEW s \in Slot, NEW t \in Slot, slots[s] # Nothing,
               slots[s].ptr = slots[t].ptr
        PROVE  s = t
    <3>1. slots[s].ptr # NULL
      BY <1>3, <2>1 DEF Points
    <3>2. slots[t] # Nothing
      BY <2>1, <3>1 DEF Nothing
    <3> QED BY <2>1, <3>2 DEF HeldInv, Held
  <2> QED BY <2>1
<1> QED BY <1>2, <1>4, <1>5, <1>6 DEF HeapInv, Owned

\* The lists and flags of the allocator are exact, whatever mix of calls the
\* program makes and however far the break moves: the blocks stand in order and
\* apart, and without a gap up to the break as long as it has not crossed to the
\* negative longs, the free list meets every free block once, and the blocks not
\* free are those in use.
THEOREM HeapIsSound == Spec => []HeapInv
<1>1. HeldInv(heap, slots) => HeapInv
  BY HeldSound
<1> QED BY <1>1, HeldAlways, PTL

-----------------------------------------------------------------------------
(***************************************************************************)
(* The contract of the library.                                            *)
(***************************************************************************)
\* Every outcome is a step of the contract, or none that it can see.
LEMMA OutcomeAllowed ==
  ASSUME HeldInv(heap, slots), Outcome(heap, slots, heap', slots'),
         Contents(heap, slots)
           = [s \in Slot |-> BytesAt(heap, slots[s].ptr, slots[s].size)],
         Contents(heap', slots')
           = [s \in Slot |-> BytesAt(heap', slots'[s].ptr, slots'[s].size)]
  PROVE  [Contract!Next]_<<slots, [s \in Slot |-> BytesAt(heap, slots[s].ptr,
                                                          slots[s].size)]>>
<1> DEFINE data == [s \in Slot |-> BytesAt(heap, slots[s].ptr, slots[s].size)]
<1>1. data = Contents(heap, slots) /\ data' = Contents(heap', slots')
  OBVIOUS
<1>2. DOMAIN slots = Slot /\ Contract!Nothing = Nothing
  BY DEF HeldInv, Nothing, Contract!Nothing, NULL, Contract!NULL
<1> HIDE DEF data
<1>3. CASE slots' = slots /\ Stays(heap, slots, heap')
  <2>1. data' = data
    BY <1>1, <1>3 DEF Stays
  <2> QED BY <1>3, <2>1 DEF data
<1>4. ASSUME NEW s \in Slot, slots[s] # Nothing, Lost(heap, slots, s, heap', slots')
      PROVE  Contract!Next
  <2>1. slots' = [slots EXCEPT ![s] = Nothing] /\ data' = [data EXCEPT ![s] = << >>]
    BY <1>1, <1>4 DEF Lost
  <2>2. Contract!Free(s)
    BY <1>2, <1>4, <2>1 DEF Contract!Free, data
  <2> QED BY <2>2 DEF Contract!Next
<1>5. ASSUME NEW s \in Slot, NEW n, NEW bytes, NEW p, p = slots'[s].ptr,
             Gained(heap, slots, s, p, n, bytes, heap', slots')
      PROVE  /\ Contract!Hold(s, p, n, bytes) /\ p \in BrkStart..BrkLimit /\ n > 0
             /\ slots'[s].size = n
  <2>1. /\ slots' = [slots EXCEPT ![s] = [ptr |-> p, size |-> n]]
        /\ data' = [data EXCEPT ![s] = bytes]
        /\ p # NULL /\ p % Align = 0 /\ p \in BrkStart..BrkLimit /\ n > 0
        /\ \A t \in Slot \ {s} : slots[t] # Nothing =>
             p + n <= slots[t].ptr \/ slots[t].ptr + slots[t].size <= p
    BY <1>1, <1>5, Zenon DEF Gained, Held
  <2>2. Contract!Fresh(s, p, n)
    BY <1>2, <2>1 DEF Contract!Fresh, Contract!Disjoint, Contract!NULL, NULL
  <2>3. Contract!Hold(s, p, n, bytes)
    BY <2>1, <2>2 DEF Contract!Hold, data
  <2>4. slots'[s].size = n
    BY <1>2, <2>1
  <2> QED BY <2>1, <2>3, <2>4
<1>6. ASSUME NEW s \in Slot, NEW n \in Requests, slots[s] = Nothing,
             Gained(heap, slots, s, slots'[s].ptr, n, Marked(s, n), heap', slots')
      PROVE  Contract!Next
  <2>1. PICK p : p = slots'[s].ptr
    OBVIOUS
  <2>2. /\ Contract!Hold(s, p, n, Marked(s, n)) /\ p \in BrkStart..BrkLimit /\ n > 0
        /\ slots'[s].size = n
    BY <1>5, <1>6, <2>1
  <2>3. Contract!Marks(s, n) = Marked(s, n)
    BY DEF Contract!Marks, Contract!Mark, Marked, Mark
  <2>4. Contract!Malloc(s, p, n)
    BY <1>2, <1>6, <2>2, <2>3 DEF Contract!Malloc
  <2> QED BY <2>1, <2>2, <2>4 DEF Contract!Next, Requests
<1>7. ASSUME NEW s \in Slot, NEW a \in Arrays, slots[s] = Nothing,
             Gained(heap, slots, s, slots'[s].ptr, a[1] * a[2],
                    [i \in 1..a[1] * a[2] |-> ZeroByte], heap', slots')
      PROVE  Contract!Next
  <2>1. PICK p : p = slots'[s].ptr
    OBVIOUS
  <2>2. PICK n : n = a[1] * a[2]
    OBVIOUS
  <2>3. PICK zeros : zeros = [i \in 1..n |-> ZeroByte]
    OBVIOUS
  <2>4. Gained(heap, slots, s, p, n, zeros, heap', slots')
    BY <1>7, <2>1, <2>2, <2>3, Zenon
  <2>5. /\ Contract!Hold(s, p, n, zeros) /\ p \in BrkStart..BrkLimit /\ n > 0
        /\ slots'[s].size = n
    BY <1>5, <2>1, <2>4
  <2>6. Contract!Zeros(n) = zeros
    BY <2>3 DEF Contract!Zeros, Contract!ZeroByte, ZeroByte
  <2>7. Contract!Calloc(s, p, n)
    BY <1>2, <1>7, <2>5, <2>6 DEF Contract!Calloc
  <2> QED BY <2>1, <2>2, <2>5, <2>7 DEF Contract!Next
<1>8. ASSUME NEW s \in Slot, NEW n \in Requests, slots[s] # Nothing,
             Gained(heap, slots, s, slots'[s].ptr, n, Resumed(heap, slots, s, n),
                    heap', slots')
      PROVE  Contract!Next
  <2>1. PICK p : p = slots'[s].ptr
    OBVIOUS
  <2>2. PICK bytes : bytes = Resumed(heap, slots, s, n)
    OBVIOUS
  <2>3. Gained(heap, slots, s, p, n, bytes, heap', slots')
    BY <1>8, <2>1, <2>2, Zenon
  <2>4. /\ Contract!Hold(s, p, n, bytes) /\ p \in BrkStart..BrkLimit /\ n > 0
        /\ slots'[s].size = n
    BY <1>5, <2>1, <2>3
  <2>5. bytes = [i \in 1..n |-> IF i <= slots[s].size THEN data[s][i]
                                ELSE Contract!Mark(s, i)]
    BY <1>1, <2>2 DEF Resumed, Contract!Mark, Mark
  <2>6. Contract!Realloc(s, p, n)
    BY <1>2, <1>8, <2>4, <2>5 DEF Contract!Realloc, data
  <2> QED BY <2>1, <2>4, <2>6 DEF Contract!Next, Requests
<1> QED BY <1>3, <1>4, <1>6, <1>7, <1>8 DEF Outcome, data

\* The allocator implements the contract of ISO C90: what malloc, calloc and
\* realloc return is aligned, large enough and apart from every other live
\* block, and a block keeps its bytes until it is freed.
THEOREM HeapAsInC90 == Spec => ImplementsContract
<1> DEFINE data == [s \in Slot |-> BytesAt(heap, slots[s].ptr, slots[s].size)]
<1>1. Init => Contract!Init
  <2> SUFFICES ASSUME Init PROVE Contract!Init
    OBVIOUS
  <2>1. Contents(heap, slots) = [s \in Slot |-> << >>]
    BY InitHeld
  <2>2. slots = [s \in Slot |-> Nothing]
    BY DEF Init
  <2> QED BY <2>1, <2>2
       DEF Contract!Init, Contract!Nothing, Contract!NULL, Nothing, NULL, Contents
<1>2. HeldInv(heap, slots) /\ [Next]_vars => [Contract!Next]_<<slots, data>>
  <2> SUFFICES ASSUME HeldInv(heap, slots), [Next]_vars
               PROVE  [Contract!Next]_<<slots, data>>
    OBVIOUS
  <2>1. CASE Next
    <3>1. Outcome(heap, slots, heap', slots')
      BY <2>1, NextGives
    <3> QED BY <3>1, OutcomeAllowed DEF Contents
  <2>2. CASE UNCHANGED vars
    <3>1. heap' = heap /\ slots' = slots
      BY <2>2 DEF vars
    <3> QED BY <3>1
  <2> QED BY <2>1, <2>2
<1> QED BY <1>1, <1>2, HeldAlways, PTL DEF Spec, ImplementsContract, Contract!Spec
=============================================================================
