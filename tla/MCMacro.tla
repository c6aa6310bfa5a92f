------------------------------ MODULE MCMacro ------------------------------
(***************************************************************************)
(* Macro expansion on every balanced text of a few tokens, with tables     *)
(* that use each of the features of a macro body.                          *)
(***************************************************************************)
EXTENDS IfExpressions

A == <<"A">>
B == <<"B">>
F == <<"f">>
G == <<"g">>
X == <<"x">>
Y == <<"y">>

id(n) == Ident(n)
one == Number(<<"1">>)
two == Number(<<"2">>)
lp == Punct("(")
rp == Punct(")")
comma == Punct(",")
hash == Punct("#")
paste == Punct("##")

Obj(body)    == DefineObject(body)
Fn(ps, body) == DefineFunction([k \in 1..Len(ps) |-> Ident(ps[k])], body)

\* Chains of objects, a name that stands for itself, calls made by bodies,
\* both operands of ##, # and plain use of one argument, a call whose name
\* comes from an object, a pasted name that is a macro.
Plain == {
  (A :> Obj(<<id(B), one>>) @@ B :> Obj(<<one>>)
     @@ F :> Fn(<<X>>, <<id(X), id(A)>>)),
  (A :> Obj(<<id(A)>>) @@ F :> Fn(<<X>>, <<id(F), lp, id(X), rp, id(A)>>)),
  (A :> Obj(<<id(F)>>) @@ F :> Fn(<<X>>, <<hash, id(X), id(X)>>)),
  (A :> Obj(<<one>>) @@ <<"A", "1">> :> Obj(<<id(B)>>)
     @@ F :> Fn(<<X>>, <<id(X), paste, one, id(X)>>)),
  (A :> Obj(<<id(A), one>>) @@ F :> Fn(<<X>>, <<id(A), lp, id(X), rp>>)) }

Balanced(s) ==
  /\ \A i \in 1..Len(s) : ParenDepth(s, i) >= 0
  /\ Count(s, Len(s), "(") = Count(s, Len(s), ")")

Words(alphabet, n) == {s \in BoundedSeq(alphabet, n) : Balanced(s)}

PlainTexts == Words({id(A), id(F), lp, rp}, 7)

\* Calls with two parameters: the commas of an object, of inner parentheses.
TwoParams == {
  (A :> Obj(<<one, comma, one>>) @@ F :> Fn(<<X, Y>>, <<id(Y), id(X)>>)),
  (A :> Obj(<<id(B)>>) @@ F :> Fn(<<X, Y>>, <<id(X), paste, id(Y), id(Y)>>)
     @@ <<"A", "A">> :> Obj(<<one>>)),
  (A :> Obj(<<one>>) @@ F :> Fn(<<X, Y>>, <<hash, id(Y), id(F), id(X)>>)) }

CallTexts == {t \in {<<id(F), lp>> \o w : w \in
                       BoundedSeq({id(A), lp, rp, comma}, 6)} : Balanced(t)}

\* Conditions: A holds an operator, f calls g with A, and B is no macro.
Conditions == {
  (A :> Obj(<<one, Punct("-"), two>>)
     @@ F :> Fn(<<X>>, <<id(X), Punct("*"), id(G), lp, id(A), rp>>)
     @@ G :> Fn(<<X>>, <<lp, id(X), Punct("<"), two, rp>>)) }

Operands == {<<two>>, <<id(A)>>, <<id(B)>>, <<id(F), lp, id(A), rp>>,
             <<lp, id(A), rp>>, <<[id(A) EXCEPT !.kind = "defined"]>>,
             <<id(F)>>, <<Punct("-"), id(A)>>,
             <<Punct("!"), id(G), lp, one, rp>>}

Binary(ops, a, b, c) ==
  {x \o <<Punct(p)>> \o y \o <<Punct(q)>> \o z :
     p \in ops, q \in ops, x \in a, y \in b, z \in c}

Final == {<<id(A)>>, <<id(F), lp, id(A), rp>>, <<lp, id(A), rp>>}

Nested == <<one, Punct("?"), id(A), Punct(":"), two>>

ConditionTexts ==
  Binary(Operators, {<<two>>}, {<<id(A)>>}, {<<id(B)>>, <<one>>})
  \cup Binary({"-", "<"}, Operands, Operands, Final)
  \cup Binary({"/", "<<", "&&", "||"}, {<<id(B)>>}, Operands, Final)
  \cup {x \o <<Punct("?")>> \o y \o <<Punct(":")>> \o z :
          x \in Operands, y \in Final \cup {Nested}, z \in Final \cup {Nested}}

MCPrograms == (Plain \X PlainTexts) \cup (TwoParams \X CallTexts)
              \cup (Conditions \X ConditionTexts)

\* #define A B, #define B A, and the text A.
MutualPrograms == {<<A :> Obj(<<id(B)>>) @@ B :> Obj(<<id(A)>>), <<id(A)>> >>}
=============================================================================
