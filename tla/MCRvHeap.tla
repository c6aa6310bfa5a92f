------------------------------ MODULE MCRvHeap ------------------------------
(***************************************************************************)
(* RvHeap on a heap of a few dozen bytes: headers of 4 bytes, blocks of at *)
(* least 2, and chunks that hold four of the smallest blocks.  One program *)
(* calls malloc and calloc for sizes around the limits of the code, the    *)
(* other one resizes blocks of one size; both free what they like.         *)
(***************************************************************************)
EXTENDS RvHeap, TLC

VARIABLE program   \* "mallocs" or "resizes"

\* One array of two members; one of none; one whose size is not a word.
MCArrays == {<<2, 3>>, <<0, 1>>, <<64, 2>>}

AllSizes  == {0, 2, 5, 22}
NewSizes  == {0, 2, 9}

MCInit == Init /\ program \in {"mallocs", "resizes"}

\* The blocks of the second program start with two bytes.
MCNext ==
  /\ \/ /\ program = "mallocs"
        /\ \E s \in Slot :
             CallMalloc(s) \/ CallCalloc(s) \/ CallFree(s)
     \/ /\ program = "resizes"
        /\ \E s \in Slot :
             CallMalloc(s) \/ CallFree(s) \/ CallRealloc(s)
        /\ \A s \in Slot : slots'[s].size \in {2} \cup NewSizes
  /\ UNCHANGED program

MCSpec == MCInit /\ [][MCNext]_<<vars, program>>

\* Only realloc splits a block off that stands before a free one.
Coalesced == program = "mallocs" => FullyCoalesced

\* Headers that no list reaches any more are not read again.
View == <<[heap EXCEPT !.mem = [b \in Blocks |-> @[b]]], slots, program>>

Symmetry == Permutations(Slot)
=============================================================================
