---------------------------- MODULE HeapContract ----------------------------
(***************************************************************************)
(* What malloc, calloc, realloc and free promise their caller, with no     *)
(* word of headers, lists or the break: a block is an aligned stretch of   *)
(* addresses that overlaps no other live block, it holds what was asked    *)
(* for, and it keeps what the caller wrote there until the caller frees it *)
(* (ISO C90, 4.10.3).  RvHeap is shown to implement this module.           *)
(*                                                                         *)
(* The caller has one variable per member of Slot.  It fills every byte it *)
(* gets from malloc and realloc with a mark of its own.                    *)
(***************************************************************************)
EXTENDS Naturals, Sequences

CONSTANTS Slot, Sizes, Arrays, Addr, Align

VARIABLES
  slots,   \* slots[s]: the block the caller holds in s, or Nothing
  data     \* data[s]: the bytes of that block

NULL    == 0
Nothing == [ptr |-> NULL, size |-> 0]

\* The byte the caller writes at place i of the block in slot s.
Mark(s, i) == <<s, i>>
ZeroByte   == <<"zero", 0>>

Marks(s, n) == [i \in 1..n |-> Mark(s, i)]
Zeros(n)    == [i \in 1..n |-> ZeroByte]

Disjoint(p, n, q, m) == p + n <= q \/ q + m <= p

\* A block that malloc may hand out while slot s is not in use.
Fresh(s, p, n) ==
  /\ p # NULL /\ p % Align = 0
  /\ \A t \in Slot \ {s} :
       slots[t] # Nothing => Disjoint(p, n, slots[t].ptr, slots[t].size)

Hold(s, p, n, bytes) ==
  /\ slots' = [slots EXCEPT ![s] = [ptr |-> p, size |-> n]]
  /\ Fresh(s, p, n)
  /\ data' = [data EXCEPT ![s] = bytes]

Init == /\ slots = [s \in Slot |-> Nothing]
        /\ data = [s \in Slot |-> << >>]

Malloc(s, p, n) == slots[s] = Nothing /\ n > 0 /\ Hold(s, p, n, Marks(s, n))

Calloc(s, p, n) == slots[s] = Nothing /\ n > 0 /\ Hold(s, p, n, Zeros(n))

\* The block may move; the bytes that fit in the new size are those it had.
Realloc(s, p, n) ==
  /\ slots[s] # Nothing /\ n > 0
  /\ Hold(s, p, n, [i \in 1..n |-> IF i <= slots[s].size THEN data[s][i]
                                   ELSE Mark(s, i)])

Free(s) == /\ slots[s] # Nothing
           /\ slots' = [slots EXCEPT ![s] = Nothing]
           /\ data' = [data EXCEPT ![s] = << >>]

\* The caller learns the address of a block when the call returns.
Next ==
  \E s \in Slot :
    LET p == slots'[s].ptr
        n == slots'[s].size
    IN \/ Free(s)
       \/ p \in Addr /\ n \in Sizes /\ (Malloc(s, p, n) \/ Realloc(s, p, n))
       \/ p \in Addr /\ (\E a \in Arrays : n = a[1] * a[2]) /\ Calloc(s, p, n)

Spec == Init /\ [][Next]_<<slots, data>>
=============================================================================
