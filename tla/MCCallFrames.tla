---------------------------- MODULE MCCallFrames ----------------------------
(***************************************************************************)
(* CallFrames on functions whose arguments reach past the registers: up to *)
(* eight ints, then up to two arguments of any kind, as parameters or as   *)
(* variable arguments; one call of a small function anywhere on the way.   *)
(* For some of the lists an operand waits for a call, or the function      *)
(* initializes a bit-field.                                                *)
(***************************************************************************)
EXTENDS CallFrames

Ints == 0..8
Tails == UNION {[1..n -> Kinds] : n \in 0..2}

Arguments(n, tail) == [i \in 1..n |-> "int"] \o tail

Function(kinds, named, is_varargs) ==
  [params |-> SubSeq(kinds, 1, named), is_varargs |-> is_varargs, locals |-> 2]

Plain(kinds) == [f |-> Function(kinds, Len(kinds), FALSE), kinds |-> kinds]
Variadic(kinds, named) == [f |-> Function(kinds, named, TRUE), kinds |-> kinds]

\* A char is promoted before it is passed as a variable argument.
Promoted(kinds, named) == \A i \in named + 1..Len(kinds) : kinds[i] # "char"

Lists == {Arguments(n, tail) : n \in Ints, tail \in Tails}

MCOuter ==
  {Plain(kinds) : kinds \in Lists}
  \cup {Variadic(c[1], c[2]) :
          c \in {d \in Lists \X (1..3) : d[2] <= Len(d[1]) /\ Promoted(d[1], d[2])}}

MCInner == {Plain(<<"wide", "int">>), Variadic(<<"int", "double", "int">>, 1)}

\* A second call is made on the way for some of the lists.
Nesting == {Arguments(n, tail) : n \in {1, 4, 7}, tail \in {<<"double">>, <<"trio">>, <<"char">>}}

MCNext ==
  /\ Next
  /\ calls' # << >> /\ calls'[1].kinds \notin Nesting =>
       made' = 1 /\ calls'[1].operands = 0 /\ calls'[1].lost = 0

MCSpec == Init /\ [][MCNext]_vars
=============================================================================
