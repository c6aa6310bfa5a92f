------------------------------- MODULE RvHeap -------------------------------
(***************************************************************************)
(* The allocator of the RV32I runtime: malloc, calloc, realloc and free in *)
(* src/src/runtime_rv32.c, over the brk system call.                       *)
(*                                                                         *)
(* The state of the allocator is one record, heap: its four static         *)
(* variables, the headers that stand in memory, the bytes, and the break   *)
(* the kernel keeps.  The functions of the C code that work on the lists   *)
(* are operators from a heap to a heap; a call of the library by the       *)
(* program is an action.                                                   *)
(*                                                                         *)
(* Addresses and sizes are bytes of a smaller machine: a word holds        *)
(* 0..WordMod - 1, where WordMod stands for 2^32; Align stands for 16, Hdr *)
(* for sizeof(BlockHeader) = 32, Chunk for 65536 and Page for 4096.  All   *)
(* size_t arithmetic is modulo WordMod, as in C.                           *)
(*                                                                         *)
(* A header is valid (magic = BLOCK_MAGIC) as long as nothing else was     *)
(* written over it: a block that is merged into another leaves its header  *)
(* behind, as in the code.                                                 *)
(***************************************************************************)
EXTENDS Integers, Sequences, FiniteSets

CONSTANTS
  Align, Hdr, Chunk, Page, WordMod,
  BrkStart,      \* the break when the program starts
  BrkLimit,      \* the highest break the kernel grants
  Slot,          \* the pointer variables of the program
  Sizes,         \* the sizes it passes to malloc
  ResizeTo,      \* the sizes it passes to realloc
  Arrays         \* the pairs <<nmemb, size>> it passes to calloc

ASSUME LayoutAssumption ==
  /\ Align \in Nat \ {0} /\ Hdr \in Nat \ {0} /\ Chunk \in Nat \ {0}
  /\ Page \in Nat \ {0} /\ WordMod \in Nat \ {0}
  /\ Hdr % Align = 0 /\ Chunk % Align = 0 /\ Page % Align = 0
  /\ WordMod % Page = 0 /\ Chunk > Hdr
ASSUME BreakAssumption ==
  /\ BrkStart \in 1..WordMod - 1 /\ BrkLimit \in BrkStart..WordMod - 1
ASSUME RequestAssumption ==
  /\ Sizes \subseteq 0..WordMod - 1 /\ ResizeTo \subseteq 0..WordMod - 1
  /\ Arrays \subseteq (0..WordMod - 1) \X (0..WordMod - 1)
\* No request is so near the end of the address space that rounding it up, or
\* adding it to the break, leaves the word.  The code does not test for that.
ASSUME RoomAssumption ==
  /\ BrkLimit + Align + Chunk <= WordMod
  /\ \A n \in Sizes \cup ResizeTo \cup {a[1] * a[2] : a \in Arrays} :
       n < WordMod => BrkLimit + n + 2 * Align + Hdr + Page <= WordMod

VARIABLES
  heap,    \* the allocator's state, the bytes of memory, and the break
  slots    \* what the program holds: slots[s] is a block or Nothing

vars == <<heap, slots>>

NULL    == 0
Nothing == [ptr |-> NULL, size |-> 0]

Word(x) == x % WordMod
RoundUp(x, unit) == (Word(x + unit - 1) \div unit) * unit

\* A word as a long: the upper half of the addresses is negative.
Half == WordMod \div 2
Signed(x) == IF x < Half THEN x ELSE x - WordMod

\* The kernel keeps whole pages: where the break starts it can be aligned.
ASSUME AlignableAssumption ==
  BrkStart < Half /\ Half <= RoundUp(BrkStart, Align)
    => RoundUp(BrkStart, Align) <= BrkLimit

\* What a byte holds: a mark of the program, the zero of calloc, or anything.
Mark(s, i) == <<s, i>>
ZeroByte   == <<"zero", 0>>
Junk       == <<"junk", 0>>

BlockHeader == [size : Nat, is_free : BOOLEAN,
                next_phys : Nat, prev_phys : Nat,
                next_free : Nat, prev_free : Nat]

Init ==
  /\ heap = [mem |-> << >>, bytes |-> [a \in BrkStart..BrkLimit - 1 |-> Junk],
             free_list_head |-> NULL, first_phys_block |-> NULL,
             last_phys_block |-> NULL, brk |-> BrkStart]
  /\ slots = [s \in Slot |-> Nothing]

-----------------------------------------------------------------------------
(***************************************************************************)
(* Memory.                                                                 *)
(***************************************************************************)
\* The n bytes at p become f[1], ..., f[n]; headers they overlap are lost.
WriteBytes(h, p, n, f) ==
  LET kept == {b \in DOMAIN h.mem : b + Hdr <= p \/ p + n <= b}
  IN [h EXCEPT !.mem = [b \in kept |-> h.mem[b]],
               !.bytes = [a \in DOMAIN h.bytes |->
                            IF a \in p..p + n - 1 THEN f[a - p + 1] ELSE @[a]]]

WriteHeader(h, b, header) ==
  LET cleared == WriteBytes(h, b, Hdr, [i \in 1..Hdr |-> Junk])
  IN [cleared EXCEPT !.mem = [x \in DOMAIN @ \cup {b} |->
                                IF x = b THEN header ELSE @[x]]]

\* The brk system call: the break moves there or stays where it is.
SysBrk(h, a) == IF a \in BrkStart..BrkLimit THEN [h EXCEPT !.brk = a] ELSE h

-----------------------------------------------------------------------------
(***************************************************************************)
(* The lists.                                                              *)
(***************************************************************************)
\* Mutant: the block that was the head does not learn of the new one.
InsertOneWay(h, b) ==
  [h EXCEPT !.mem[b] = [@ EXCEPT !.is_free = TRUE, !.prev_free = NULL,
                                 !.next_free = h.free_list_head],
            !.free_list_head = b]

InsertFreeBlock(h, b) ==
  LET head   == h.free_list_head
      pushed == [h EXCEPT !.mem[b] = [@ EXCEPT !.is_free = TRUE,
                                               !.next_free = head,
                                               !.prev_free = NULL],
                          !.free_list_head = b]
  IN IF head = NULL THEN pushed
     ELSE [pushed EXCEPT !.mem[head].prev_free = b]

RemoveFreeBlock(h, b) ==
  LET prev == h.mem[b].prev_free
      next == h.mem[b].next_free
      ahead  == IF prev = NULL THEN [h EXCEPT !.free_list_head = next]
                ELSE [h EXCEPT !.mem[prev].next_free = next]
      behind == IF next = NULL THEN ahead
                ELSE [ahead EXCEPT !.mem[next].prev_free = prev]
  IN [behind EXCEPT !.mem[b] = [@ EXCEPT !.next_free = NULL,
                                         !.prev_free = NULL,
                                         !.is_free = FALSE]]

\* Mutant: last_phys_block still points to the block that is gone.
AbsorbKeepsLast(h, b, next) ==
  LET after == h.mem[next].next_phys
      grown == [h EXCEPT !.mem[b].size = Word(@ + Hdr + h.mem[next].size),
                         !.mem[b].next_phys = after]
  IN IF after = NULL THEN grown ELSE [grown EXCEPT !.mem[after].prev_phys = b]

\* The four places that merge block next into the block b before it.
Absorb(h, b, next) ==
  LET after == h.mem[next].next_phys
      grown == [h EXCEPT !.mem[b].size = Word(@ + Hdr + h.mem[next].size),
                         !.mem[b].next_phys = after]
  IN IF after = NULL THEN [grown EXCEPT !.last_phys_block = b]
     ELSE [grown EXCEPT !.mem[after].prev_phys = b]

\* Block b keeps size bytes if the rest can be a block of its own.
SplitBlock(h, b, size) ==
  LET block == h.mem[b]
      rem   == Word(b + Hdr + size)
      rest  == [size |-> Word(block.size - size - Hdr), is_free |-> TRUE,
                next_phys |-> block.next_phys, prev_phys |-> b,
                next_free |-> NULL, prev_free |-> NULL]
      cut    == WriteHeader(h, rem, rest)
      linked == IF block.next_phys = NULL
                THEN [cut EXCEPT !.last_phys_block = rem]
                ELSE [cut EXCEPT !.mem[block.next_phys].prev_phys = rem]
  IN IF block.size >= Word(size + Hdr + Align)
     THEN InsertFreeBlock([linked EXCEPT !.mem[b].next_phys = rem,
                                         !.mem[b].size = size], rem)
     ELSE h

\* Grow the heap.  The breaks are compared as longs: when the break does not
\* move, and also when it moves to the upper half, no block is found.
RequestSpace(h, needed) ==
  LET total   == Word(needed + Hdr)
      chunk   == IF total > Chunk THEN RoundUp(total, Page) ELSE Chunk
      b       == RoundUp(h.brk, Align)
      aligned == IF b # h.brk THEN SysBrk(h, b) ELSE h
      moved   == SysBrk(aligned, Word(b + chunk))
      last    == h.last_phys_block
      header  == [size |-> chunk - Hdr, is_free |-> TRUE,
                  next_phys |-> NULL, prev_phys |-> last,
                  next_free |-> NULL, prev_free |-> NULL]
      written == [WriteHeader(moved, b, header) EXCEPT !.last_phys_block = b]
      chained == IF last = NULL THEN [written EXCEPT !.first_phys_block = b]
                 ELSE [written EXCEPT !.mem[last].next_phys = b]
      listed  == InsertFreeBlock(chained, b)
  IN IF Signed(moved.brk) <= Signed(b) THEN [heap |-> moved, block |-> NULL]
     ELSE IF last # NULL /\ h.mem[last].is_free
     THEN [heap |-> Absorb(RemoveFreeBlock(listed, b), last, b), block |-> last]
     ELSE [heap |-> listed, block |-> b]

-----------------------------------------------------------------------------
(***************************************************************************)
(* The library functions: each yields the heap and the pointer it returns. *)
(***************************************************************************)
\* The places of the free list, from its head on.
FreeList(h) ==
  LET at[k \in 0..Cardinality(DOMAIN h.mem)] ==
        IF k = 0 THEN h.free_list_head
        ELSE IF at[k - 1] = NULL THEN NULL ELSE h.mem[at[k - 1]].next_free
  IN at

FirstFit(h, size) ==
  LET at   == FreeList(h)
      fits == {k \in DOMAIN at : at[k] # NULL /\ h.mem[at[k]].size >= size}
  IN IF fits = {} THEN NULL
     ELSE at[CHOOSE k \in fits : \A j \in fits : k <= j]

Malloc(h, size) ==
  LET aligned_size == RoundUp(size, Align)
      fit   == FirstFit(h, aligned_size)
      found == IF fit # NULL THEN [heap |-> h, block |-> fit]
               ELSE RequestSpace(h, aligned_size)
      b     == found.block
  IN IF size = 0 THEN [heap |-> h, ptr |-> NULL]
     ELSE IF b = NULL THEN [heap |-> found.heap, ptr |-> NULL]
     ELSE [heap |-> SplitBlock(RemoveFreeBlock(found.heap, b), b, aligned_size),
           ptr  |-> b + Hdr]

\* Is there a block b, and is it free?
IsFree(h, b) == b # NULL /\ h.mem[b].is_free

\* Mutant: a freed block is merged with the next block only.
FreeForwardOnly(h, p) ==
  LET b      == p - Hdr
      listed == InsertFreeBlock(h, b)
      next   == h.mem[b].next_phys
  IN IF p = NULL \/ b \notin DOMAIN h.mem THEN h
     ELSE IF h.mem[b].is_free THEN h
     ELSE IF IsFree(listed, next)
          THEN Absorb(RemoveFreeBlock(listed, next), b, next) ELSE listed

Free(h, p) ==
  LET b      == p - Hdr
      listed == InsertFreeBlock(h, b)
      next   == h.mem[b].next_phys
      joined == IF IsFree(listed, next)
                THEN Absorb(RemoveFreeBlock(listed, next), b, next) ELSE listed
      prev   == joined.mem[b].prev_phys
  IN IF p = NULL \/ b \notin DOMAIN h.mem THEN h
     ELSE IF h.mem[b].is_free THEN h
     ELSE IF IsFree(joined, prev)
          THEN Absorb(RemoveFreeBlock(joined, b), prev, b) ELSE joined

\* Zero n bytes at p.
ZeroFill(h, p, n) == WriteBytes(h, p, n, [i \in 1..n |-> ZeroByte])

\* Mutant: size bytes are zeroed, not nmemb times as many.
CallocOneMember(h, nmemb, size) ==
  LET allocated == Malloc(h, Word(nmemb * size))
  IN IF allocated.ptr = NULL THEN allocated
     ELSE [allocated EXCEPT !.heap = ZeroFill(@, allocated.ptr, size)]

Calloc(h, nmemb, size) ==
  LET total     == Word(nmemb * size)
      allocated == Malloc(h, total)
  IN IF nmemb # 0 /\ total \div nmemb # size THEN [heap |-> h, ptr |-> NULL]
     ELSE IF allocated.ptr = NULL THEN allocated
     ELSE [allocated EXCEPT !.heap = ZeroFill(@, allocated.ptr, total)]

\* The bytes of memory at p, as a sequence of n.
BytesAt(h, p, n) ==
  [i \in 1..n |-> IF p + i - 1 \in DOMAIN h.bytes THEN h.bytes[p + i - 1]
                  ELSE Junk]

\* Mutant: the last byte is not copied.
CopySizeShort(have, size) == (IF have < size THEN have ELSE size) - 1

CopySize(have, size) == IF have < size THEN have ELSE size

Realloc(h, p, size) ==
  LET aligned_size == RoundUp(size, Align)
      b       == p - Hdr
      have    == h.mem[b].size
      next    == h.mem[b].next_phys
      room    == Word(have + Hdr + h.mem[next].size)
      moved   == Malloc(h, size)
      copied(n) == WriteBytes(moved.heap, moved.ptr, n,
                              BytesAt(moved.heap, p, n))
  IN CASE p = NULL -> Malloc(h, size)
       [] p # NULL /\ size = 0 -> [heap |-> Free(h, p), ptr |-> NULL]
       [] p # NULL /\ size # 0 /\ b \notin DOMAIN h.mem ->
            IF moved.ptr = NULL THEN moved
            ELSE [moved EXCEPT !.heap = copied(size)]
       [] OTHER ->
            IF have >= aligned_size
            THEN [heap |-> SplitBlock(h, b, aligned_size), ptr |-> p]
            ELSE IF IsFree(h, next) /\ room >= aligned_size
            THEN [heap |-> SplitBlock(Absorb(RemoveFreeBlock(h, next), b, next),
                                      b, aligned_size),
                  ptr |-> p]
            ELSE IF moved.ptr = NULL THEN moved
            ELSE [heap |-> Free(copied(CopySize(have, size)), p),
                  ptr  |-> moved.ptr]

-----------------------------------------------------------------------------
(***************************************************************************)
(* The program.  It fills what it gets from malloc and realloc with its    *)
(* marks, up to the size it asked for, and uses a block until it frees it. *)
(***************************************************************************)
Fill(h, s, p, from, to) ==
  WriteBytes(h, p + from, to - from,
             [i \in 1..to - from |-> Mark(s, from + i)])

\* What the program wrote does not matter once it gave the bytes back.
Forget(h, p, n) ==
  [h EXCEPT !.bytes = [a \in DOMAIN @ |->
                         IF a \in p..p + n - 1 THEN Junk ELSE @[a]]]

CallMalloc(s) ==
  /\ slots[s] = Nothing
  /\ \E size \in Sizes : \E r \in {Malloc(heap, size)} :
       IF r.ptr = NULL THEN heap' = r.heap /\ UNCHANGED slots
       ELSE /\ heap' = Fill(r.heap, s, r.ptr, 0, size)
            /\ slots' = [slots EXCEPT ![s] = [ptr |-> r.ptr, size |-> size]]

CallCalloc(s) ==
  /\ slots[s] = Nothing
  /\ \E a \in Arrays : \E r \in {Calloc(heap, a[1], a[2])} :
       /\ heap' = r.heap
       /\ slots' = IF r.ptr = NULL THEN slots
                   ELSE [slots EXCEPT ![s] =
                           [ptr |-> r.ptr, size |-> a[1] * a[2]]]

CallFree(s) ==
  /\ slots[s] # Nothing
  /\ heap' = Forget(Free(heap, slots[s].ptr), slots[s].ptr, slots[s].size)
  /\ slots' = [slots EXCEPT ![s] = Nothing]

\* The bytes that fit in both sizes are kept; the program fills the others.
CallRealloc(s) ==
  \E size \in ResizeTo : \E r \in {Realloc(heap, slots[s].ptr, size)} :
    LET old  == slots[s]
        same == IF old.size < size THEN old.size ELSE size
        lost == IF r.ptr = old.ptr THEN same ELSE 0
    IN IF size = 0 /\ old # Nothing
       THEN /\ heap' = Forget(r.heap, old.ptr, old.size)
            /\ slots' = [slots EXCEPT ![s] = Nothing]
       ELSE IF r.ptr = NULL THEN heap' = r.heap /\ UNCHANGED slots
       ELSE /\ heap' = Fill(Forget(r.heap, old.ptr + lost, old.size - lost),
                            s, r.ptr, same, size)
            /\ slots' = [slots EXCEPT ![s] = [ptr |-> r.ptr, size |-> size]]

Next == \E s \in Slot :
          CallMalloc(s) \/ CallCalloc(s) \/ CallFree(s) \/ CallRealloc(s)

Spec == Init /\ [][Next]_vars

-----------------------------------------------------------------------------
(***************************************************************************)
(* Properties.                                                             *)
(***************************************************************************)
PhysList(h) ==
  LET at[k \in 0..Cardinality(DOMAIN h.mem)] ==
        IF k = 0 THEN h.first_phys_block
        ELSE IF at[k - 1] = NULL THEN NULL ELSE h.mem[at[k - 1]].next_phys
  IN at

Blocks == {PhysList(heap)[k] : k \in DOMAIN PhysList(heap)} \ {NULL}

EndOf(b) == b + Hdr + heap.mem[b].size

\* The break went from the lower half of the addresses to the upper one.
Crossed == BrkStart < Half /\ Half <= heap.brk

\* The physical list is a tiling of the memory between the first block and
\* the break: every block ends where the next one starts, both ways, and the
\* last one, which last_phys_block points to, ends at the break.  Once the
\* break has crossed to negative longs, memory may be lost between two blocks,
\* but they stay in order and apart.
Tiling ==
  /\ Blocks = {} => heap.last_phys_block = NULL
  /\ Blocks # {} =>
       /\ RoundUp(BrkStart, Align) <= heap.first_phys_block
       /\ ~Crossed => heap.first_phys_block = RoundUp(BrkStart, Align)
       /\ heap.mem[heap.first_phys_block].prev_phys = NULL
  /\ \A b \in Blocks :
       LET next  == heap.mem[b].next_phys
           limit == IF next = NULL THEN heap.brk ELSE next
       IN /\ EndOf(b) <= limit /\ (~Crossed => EndOf(b) = limit)
          /\ IF next = NULL THEN b = heap.last_phys_block
             ELSE heap.mem[next].prev_phys = b

\* The free list meets every free block of the tiling once and nothing else,
\* and its backward pointers undo its forward ones: no block is lost to
\* malloc, and none is on the list while the program has it.
FreeListExact ==
  LET at    == FreeList(heap)
      parts == {k \in DOMAIN at : at[k] # NULL}
  IN /\ {at[k] : k \in parts} = {b \in Blocks : heap.mem[b].is_free}
     /\ \A j, k \in parts : at[j] = at[k] => j = k
     /\ \A k \in parts : heap.mem[at[k]].prev_free
                           = IF k = 0 THEN NULL ELSE at[k - 1]

\* A call that does not return NULL returns a block as large as the request.
RequestMet ==
  \A s \in Slot : slots[s] # Nothing =>
    heap.mem[slots[s].ptr - Hdr].size >= slots[s].size

\* The blocks that are not free are those the program holds, one for each
\* pointer, and each is large enough.
Owned ==
  /\ {b \in Blocks : ~heap.mem[b].is_free}
       = {slots[s].ptr - Hdr : s \in {t \in Slot : slots[t] # Nothing}}
  /\ \A s, t \in Slot :
       slots[s] # Nothing /\ slots[s].ptr = slots[t].ptr => s = t
  /\ RequestMet

HeapInv == Tiling /\ FreeListExact /\ Owned

\* "Full Coalescing": two free blocks are never neighbours.
FullyCoalesced ==
  \A b \in Blocks : heap.mem[b].is_free =>
    ~IsFree(heap, heap.mem[b].next_phys)

\* The allocator keeps the promises of malloc to the program, whatever mix of
\* calls it makes: blocks do not overlap and keep their contents.
Contract == INSTANCE HeapContract
  WITH Sizes <- Sizes \cup ResizeTo,
       Addr  <- BrkStart..BrkLimit,
       data  <- [s \in Slot |-> BytesAt(heap, slots[s].ptr, slots[s].size)]
ImplementsContract == Contract!Spec
=============================================================================
