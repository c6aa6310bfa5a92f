--------------------------- MODULE MCStatements ---------------------------
(***************************************************************************)
(* The compiler's statements on every program of a few statements, and on  *)
(* longer ones of fewer kinds.                                             *)
(***************************************************************************)
EXTENDS Statements

Each == {"expr", "decl", "break", "continue", "return", "goto", "label", "if",
         "while", "do", "for", "switch", "case", "default"}

\* Programs of one function with any statements; loops and switches that are
\* left from inside; several functions.
MCBounds == {
  [kinds |-> Each, nodes |-> 5, functions |-> 1, statics |-> 0],
  [kinds |-> {"while", "switch", "case", "break", "continue"},
   nodes |-> 8, functions |-> 1, statics |-> 0],
  [kinds |-> {"switch", "case", "default", "break"},
   nodes |-> 8, functions |-> 1, statics |-> 0],
  [kinds |-> {"if", "do", "for", "continue"},
   nodes |-> 6, functions |-> 1, statics |-> 0],
  [kinds |-> {"if", "goto", "label", "return"},
   nodes |-> 6, functions |-> 2, statics |-> 1] }

MCNames == <<{"a", "b"}, {"c"}>>

\* Both functions of a file have a label "out".
SharedBounds == {
  [kinds |-> {"goto", "label", "expr"}, nodes |-> 8, functions |-> 2,
   statics |-> 0] }
SharedNames == <<{"out"}, {"out"}>>
=============================================================================
