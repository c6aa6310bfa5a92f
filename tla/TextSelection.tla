--------------------------- MODULE TextSelection ---------------------------
(***************************************************************************)
(* What conditional inclusion promises, with no stack and no flags: the    *)
(* lines of a translation unit are read one after the other, and a line    *)
(* that is not itself a conditional directive is obeyed exactly when, in   *)
(* every group that encloses it, its branch is the first one whose         *)
(* condition holds (ISO C90, 3.8.1).  The groups are found by counting     *)
(* #if's against #endif's in the lines read so far.                        *)
(*                                                                         *)
(* The preprocessor of src/src/cpp.c is shown to implement this module by  *)
(* CppConditionals.                                                        *)
(***************************************************************************)
EXTENDS Naturals, Sequences, FiniteSets

CONSTANT File

VARIABLES
  hist,     \* the lines read so far, in order, each with its fate
  status    \* "run" while lines are read, then how the reading ended

Opening     == {"if", "ifdef", "ifndef"}
Alternative == {"elif", "else"}
Closing     == {"endif"}
Conditional == Opening \cup Alternative \cup Closing
Ordinary    == {"define", "undef", "include", "text", "other"}

Entry == [op : Conditional \cup Ordinary,   \* the line's directive, or text
          file : File,                      \* the file it stands in
          truth : BOOLEAN,                  \* its condition, where it was read
          kept : BOOLEAN]                   \* it was emitted or obeyed

(***************************************************************************)
(* The nesting of a history h.                                             *)
(***************************************************************************)
Depth(h, i) ==   \* groups open after line i
  Cardinality({k \in 1..i : h[k].op \in Opening})
    - Cardinality({k \in 1..i : h[k].op \in Closing})

\* No line of j..i closes the group that line j opens.
OpenThrough(h, j, i) == \A k \in j..i : Depth(h, k) >= Depth(h, j)

Enclosing(h, i) ==
  {j \in 1..i - 1 : h[j].op \in Opening /\ OpenThrough(h, j, i)}

\* The directives that start a branch of the group of line j, up to line i.
Branches(h, j, i) ==
  {j} \cup {k \in j + 1..i : /\ h[k].op \in Alternative
                             /\ Depth(h, k) = Depth(h, j)
                             /\ OpenThrough(h, j, k)}

InSelectedBranch(h, j, i) ==
  \E b \in Branches(h, j, i) :
    /\ h[b].truth
    /\ \A c \in Branches(h, j, i) \ {b} : c < b /\ ~h[c].truth

Selected(h, i) == \A j \in Enclosing(h, i) : InSelectedBranch(h, j, i)

-----------------------------------------------------------------------------
Init == hist = << >> /\ status = "run"

\* A directive that continues or ends a group needs one.
Legal(op) == op \in Alternative \cup Closing => Depth(hist, Len(hist)) > 0

ReadLine ==
  \E line \in Entry :
    /\ status = "run"
    /\ hist' = Append(hist, line)
    /\ Legal(line.op)
    /\ line.kept <=> (line.op \in Conditional \/ Selected(hist', Len(hist')))
    /\ UNCHANGED status

Stop == /\ status = "run"
        /\ status' \in {"done", "error", "overflow"}
        /\ UNCHANGED hist

Next == ReadLine \/ Stop

Spec == Init /\ [][Next]_<<hist, status>>
=============================================================================
