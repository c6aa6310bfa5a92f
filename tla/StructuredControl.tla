------------------------- MODULE StructuredControl -------------------------
(***************************************************************************)
(* What the statements of C90 (3.6) mean: which expression is evaluated    *)
(* after which, with no labels, no jumps and no stacks.  A function is a   *)
(* tree of statements; where control goes when a statement ends is told by *)
(* the statements around it.                                               *)
(*                                                                         *)
(* The code of src/src/parse.c and src/src/gen.c is shown to implement     *)
(* this module by Statements.                                              *)
(***************************************************************************)
EXTENDS Naturals, Sequences, FiniteSets

CONSTANT Values   \* what an expression can yield

VARIABLES
  ast,   \* the statements, each with its kind, its parent and its kids
  at,    \* the expression that is evaluated next, or Idle, Done, Silent
  acc    \* the value of the last one

Loops == {"while", "do", "for"}

\* Places in a function: in front of a statement, behind it, or at one of the
\* expressions it has of its own.
Enter(n)    == [node |-> n, part |-> "enter"]
After(n)    == [node |-> n, part |-> "after"]
Expr(n, e)  == [node |-> n, part |-> e]
Idle   == [node |-> 0, part |-> "idle"]
Done   == [node |-> 0, part |-> "done"]
Silent == [node |-> 0, part |-> "silent"]  \* a loop that evaluates nothing

\* The statements around statement n.
Above(n) ==
  LET up[a \in 0..Len(ast)] ==
        IF a = 0 THEN {} ELSE {a} \cup up[ast[a].parent]
  IN up[ast[n].parent]

\* The innermost of them that is of one of the kinds.
Nearest(n, kinds) ==
  LET around == {a \in Above(n) : ast[a].kind \in kinds}
  IN IF around = {} THEN 0 ELSE CHOOSE a \in around : \A b \in around : b <= a

\* The label that goto n names: labels belong to the function.
Labelled(n) ==
  CHOOSE l \in 1..Len(ast) :
    /\ ast[l].kind = "label" /\ ast[l].name = ast[n].name
    /\ Nearest(l, {"func"}) = Nearest(n, {"func"})

-----------------------------------------------------------------------------
\* The test in front of the body of a for, and where a loop goes on.
Test(n)  == IF "cond" \in ast[n].parts THEN Expr(n, "cond")
            ELSE Enter(ast[n].kids[1])
Again(n) == IF ast[n].kind # "for" THEN Expr(n, "cond")
            ELSE IF "step" \in ast[n].parts THEN Expr(n, "step") ELSE Test(n)

Begin(n) ==
  LET node == ast[n]
      first == IF node.kids = << >> THEN After(n) ELSE Enter(node.kids[1])
  IN CASE node.kind \in {"expr", "decl"} -> Expr(n, "expr")
       [] node.kind = "return" ->
            IF "expr" \in node.parts THEN Expr(n, "expr") ELSE Done
       [] node.kind = "break"    -> After(Nearest(n, Loops \cup {"switch"}))
       [] node.kind = "continue" -> Again(Nearest(n, Loops))
       [] node.kind = "goto"     -> Enter(Labelled(n))
       [] node.kind \in {"if", "while", "switch"} -> Expr(n, "cond")
       [] node.kind = "for" ->
            IF "init" \in node.parts THEN Expr(n, "init") ELSE Test(n)
       [] OTHER -> first

Follow(n) ==
  LET up == ast[n].parent
      siblings == ast[up].kids
      place == CHOOSE k \in 1..Len(siblings) : siblings[k] = n
  IN IF up = 0 THEN Done
     ELSE IF ast[up].kind = "block" /\ place < Len(siblings)
     THEN Enter(siblings[place + 1])
     ELSE IF ast[up].kind \in Loops THEN Again(up)
     ELSE After(up)

\* From place p on, through places that evaluate nothing, to an expression.
Stop(p) ==
  LET walk[q \in [node : Nat, part : STRING], left \in Nat] ==
        IF q.part \notin {"enter", "after"} THEN q
        ELSE IF left = 0 THEN Silent
        ELSE walk[IF q.part = "enter" THEN Begin(q.node) ELSE Follow(q.node),
                  left - 1]
  IN walk[p, 2 * Len(ast) + 1]

\* The case or default of switch n that value v selects.
Selected(n, v) ==
  LET mine(kind) == {c \in 1..Len(ast) : /\ ast[c].kind = kind
                                         /\ Nearest(c, {"switch"}) = n}
      fits == {c \in mine("case") : ast[c].val = v}
  IN IF fits # {} THEN fits ELSE mine("default")

\* Where control goes when expression e has yielded v.
Outcome(e, v) ==
  LET n == e.node
      node == ast[n]
  IN CASE e.part \in {"init", "step"} -> Test(n)
       [] e.part = "expr" -> IF node.kind = "return" THEN Done ELSE After(n)
       [] e.part = "cond" /\ node.kind = "switch" ->
            IF Selected(n, v) = {} THEN After(n)
            ELSE Enter(CHOOSE c \in Selected(n, v) : TRUE)
       [] e.part = "cond" /\ node.kind # "switch" ->
            IF v # 0 THEN Enter(node.kids[1])
            ELSE IF Len(node.kids) = 2 THEN Enter(node.kids[2]) ELSE After(n)

-----------------------------------------------------------------------------
Init == at = Idle /\ acc = 0

\* The function has been read and is called.
Start == /\ at = Idle /\ at' # Idle
         /\ \E f \in 1..Len(ast) : /\ ast[f].kind = "func"
                                   /\ at' = Stop(Enter(f))
         /\ UNCHANGED <<ast, acc>>

Reading == at = Idle /\ UNCHANGED <<at, acc>>

Evaluate == /\ at \notin {Idle, Done, Silent}
            /\ \E v \in Values : acc' = v /\ at' = Stop(Outcome(at, v))
            /\ UNCHANGED ast

Next == Reading \/ Start \/ Evaluate

Spec == Init /\ [][Next]_<<ast, at, acc>>
=============================================================================
