--------------------------- MODULE IfExpressions ----------------------------
(***************************************************************************)
(* The expressions of #if and #elif: eval_cpp_expr and the functions below *)
(* it in src/src/cpp.c, which expand macros while they parse, against the  *)
(* grammar of C90 (6.8.1) on the text that cpp_process makes of the same   *)
(* tokens.                                                                 *)
(*                                                                         *)
(* An expression is the text of MacroExpand.  There "defined" and its name *)
(* are one token of kind defined, which the text loop passes on; the       *)
(* evaluator gets the two tokens.  Numbers are small: the width of a long  *)
(* is left out, and a shift by MaxShift or more has no value.              *)
(***************************************************************************)
EXTENDS MacroReplacement, Integers

MaxShift == 16

Levels == <<{"||"}, {"&&"}, {"|"}, {"^"}, {"&"}, {"==", "!="},
            {"<", ">", "<=", ">="}, {"<<", ">>"}, {"+", "-"}, {"*", "/", "%"}>>
Operators == UNION {Levels[l] : l \in DOMAIN Levels}

Digit == "0" :> 0 @@ "1" :> 1 @@ "2" :> 2 @@ "3" :> 3
NumberValue(t) == FoldLeft(LAMBDA n, d : 10 * n + Digit[d], 0, t.str)

Truth(p) == IF p THEN 1 ELSE 0

RECURSIVE And(_, _)
And(a, b) == IF a = 0 \/ b = 0 THEN 0 ELSE IF a = -1 THEN b ELSE IF b = -1 THEN a
             ELSE 2 * And(a \div 2, b \div 2) + (a % 2) * (b % 2)

\* Division toward zero.
Quotient(a, b) ==
  LET abs(n) == IF n < 0 THEN -n ELSE n
      q == abs(a) \div abs(b)
  IN IF (a < 0) = (b < 0) THEN q ELSE -q

Shifts(n) == n \in 0..MaxShift - 1

Apply(op, a, b) ==
  CASE op = "||" -> Truth(a # 0 \/ b # 0)
    [] op = "&&" -> Truth(a # 0 /\ b # 0)
    [] op = "|"  -> a + b - And(a, b)
    [] op = "^"  -> a + b - 2 * And(a, b)
    [] op = "&"  -> And(a, b)
    [] op = "==" -> Truth(a = b)
    [] op = "!=" -> Truth(a # b)
    [] op = "<"  -> Truth(a < b)
    [] op = ">"  -> Truth(a > b)
    [] op = "<=" -> Truth(a <= b)
    [] op = ">=" -> Truth(a >= b)
    [] op = "<<" -> IF Shifts(b) THEN a * 2 ^ b ELSE 0
    [] op = ">>" -> IF Shifts(b) THEN a \div 2 ^ b ELSE 0
    [] op = "+"  -> a + b
    [] op = "-"  -> a - b
    [] op = "*"  -> a * b
    [] op = "/"  -> IF b = 0 THEN 0 ELSE Quotient(a, b)
    [] op = "%"  -> IF b = 0 THEN 0 ELSE a - b * Quotient(a, b)

Unary(op, a) == CASE op = "!" -> Truth(a = 0) [] op = "~" -> -a - 1
                  [] op = "-" -> -a           [] op = "+" -> a
Unaries == {"!", "~", "-", "+"}

-----------------------------------------------------------------------------
(***************************************************************************)
(* The evaluator: a value and the tokens that were not taken.              *)
(***************************************************************************)
Taken(val, rest) == [val |-> val, rest |-> rest]

KindOf(ts) == KindAt(ts, 1)

\* expand_token_vector, the loop of MacroExpand as one step.
RECURSIVE Expanded(_)
Expanded(ts) ==
  LET t == Head(ts)
      s == SubSeq(ts, 3, Len(ts))
      args == CollectArgs(s)
      macro == Replaceable(t)
  IN IF ts = << >> THEN << >>
     ELSE IF macro /\ ~macros[t.str].is_function_like
     THEN Expanded(ExpandMacro(t.str, << >>, << >>) \o Tail(ts))
     ELSE IF macro /\ KindAt(ts, 2) = "("
     THEN Expanded(ExpandMacro(t.str, args,
                     [k \in DOMAIN args |-> Expanded(args[k])]) \o AfterCall(s))
     ELSE <<t>> \o Expanded(Tail(ts))

\* The tokens that the macro name at the head of ts leaves; nothing if the
\* head is not replaced.
Spliced(ts) ==
  LET t == Head(ts)
      s == SubSeq(ts, 3, Len(ts))
      args == CollectArgs(s)
  IN IF ~Replaceable(t) THEN [result |-> << >>, rest |-> Tail(ts)]
     ELSE IF ~macros[t.str].is_function_like
     THEN [result |-> ExpandMacro(t.str, << >>, << >>), rest |-> Tail(ts)]
     ELSE IF KindAt(ts, 2) = "("
     THEN [result |-> ExpandMacro(t.str, args,
                        [k \in DOMAIN args |-> Expanded(args[k])]),
           rest |-> AfterCall(s)]
     ELSE [result |-> << >>, rest |-> Tail(ts)]

\* defined NAME and defined ( NAME )
EvalDefined(ts) ==
  LET paren == KindAt(ts, 2) = "("
      name  == IF paren THEN 3 ELSE 2
      close == IF paren /\ KindAt(ts, name + 1) = ")" THEN name + 1 ELSE name
  IN Taken(Truth(ts[name].str \in DOMAIN macros), SubSeq(ts, close + 1, Len(ts)))

RECURSIVE EvalPrimary(_), EvalLevel(_, _), EvalLoop(_, _), EvalCond(_)

EvalPrimary(ts) ==
  LET kind == KindOf(ts)
      splice == Spliced(ts)
      inner == EvalCond(Tail(ts))
      operand == EvalPrimary(Tail(ts))
  IN CASE ts = << >> -> Taken(0, ts)
       [] kind = "number" -> Taken(NumberValue(Head(ts)), Tail(ts))
       [] kind = "(" -> Taken(inner.val, IF KindOf(inner.rest) = ")"
                                         THEN Tail(inner.rest) ELSE inner.rest)
       [] kind \in Unaries -> Taken(Unary(kind, operand.val), operand.rest)
       [] kind = "ident" /\ Head(ts).str = <<"defined">> -> EvalDefined(ts)
       [] kind = "ident" /\ Head(ts).str # <<"defined">> ->
            IF splice.result = << >> THEN Taken(0, splice.rest)
            ELSE EvalPrimary(splice.result \o splice.rest)
       [] OTHER -> Taken(0, Tail(ts))

\* Mutant: the operators of a level associate to the right.
LoopToTheRight(l, left) ==
  LET op == KindOf(left.rest)
      right == EvalLevel(l, Tail(left.rest))
  IN IF op \in Levels[l] THEN Taken(Apply(op, left.val, right.val), right.rest)
     ELSE left

\* The while loops of eval_cpp_mul to eval_cpp_lor.
EvalLoop(l, left) ==
  LET op == KindOf(left.rest)
      right == EvalLevel(l + 1, Tail(left.rest))
  IN IF op \in Levels[l]
     THEN EvalLoop(l, Taken(Apply(op, left.val, right.val), right.rest))
     ELSE left

EvalLevel(l, ts) ==
  IF l > Len(Levels) THEN EvalPrimary(ts) ELSE EvalLoop(l, EvalLevel(l + 1, ts))

EvalCond(ts) ==
  LET cond == EvalLevel(1, ts)
      then == EvalCond(Tail(cond.rest))
      else == EvalCond(IF KindOf(then.rest) = ":" THEN Tail(then.rest)
                       ELSE then.rest)
  IN IF KindOf(cond.rest) = "?"
     THEN Taken(IF cond.val # 0 THEN then.val ELSE else.val, else.rest)
     ELSE cond

-----------------------------------------------------------------------------
(***************************************************************************)
(* The value C90 gives to tokens without macros: <<value>>, or << >> where *)
(* it gives none.                                                          *)
(***************************************************************************)
Outer(ts, i) == Count(ts, i - 1, "(") = Count(ts, i - 1, ")")

EndsOperand(t) == t.kind \in {"number", "ident", "defined", ")"}

Binaries(ts, ops) == {i \in 2..Len(ts) - 1 : /\ ts[i].kind \in ops /\ Outer(ts, i)
                                             /\ EndsOperand(ts[i - 1])}

Least(S)    == CHOOSE x \in S : \A y \in S : x <= y
Greatest(S) == CHOOSE x \in S : \A y \in S : x >= y

\* The colon of the question mark at q.
ColonOf(ts, q) ==
  Least({c \in q..Len(ts) : /\ ts[c].kind = ":" /\ Outer(ts, c)
                            /\ Count(ts, c, ":") = Count(ts, c, "?")})

HasValue(op, a, b) ==
  /\ op \in {"/", "%"} => b # 0
  /\ op \in {"<<", ">>"} => a >= 0 /\ Shifts(b)

RECURSIVE C90Value(_)
C90Value(ts) ==
  LET questions == Binaries(ts, {"?"})
      levels == {l \in DOMAIN Levels : Binaries(ts, Levels[l]) # {}}
      q == Least(questions)
      c == ColonOf(ts, q)
      i == Greatest(Binaries(ts, Levels[Least(levels)]))
      op == ts[i].kind
      cond == C90Value(SubSeq(ts, 1, q - 1))
      left == C90Value(SubSeq(ts, 1, i - 1))
      right == C90Value(SubSeq(ts, i + 1, Len(ts)))
      inner == C90Value(Tail(ts))
  IN CASE questions # {} ->
            IF cond = << >> THEN << >>
            ELSE IF cond[1] # 0 THEN C90Value(SubSeq(ts, q + 1, c - 1))
            ELSE C90Value(SubSeq(ts, c + 1, Len(ts)))
       [] questions = {} /\ levels # {} ->
            IF left = << >> THEN << >>
            ELSE IF op = "||" /\ left[1] # 0 THEN <<1>>
            ELSE IF op = "&&" /\ left[1] = 0 THEN <<0>>
            ELSE IF right = << >> \/ ~HasValue(op, left[1], right[1]) THEN << >>
            ELSE <<Apply(op, left[1], right[1])>>
       [] questions = {} /\ levels = {} ->
            CASE KindOf(ts) \in Unaries ->
                   IF inner = << >> THEN << >>
                   ELSE <<Unary(KindOf(ts), inner[1])>>
              [] KindOf(ts) = "(" /\ Last(ts).kind = ")" ->
                   C90Value(Front(Tail(ts)))
              [] Len(ts) = 1 /\ KindOf(ts) = "number" -> <<NumberValue(ts[1])>>
              [] Len(ts) = 1 /\ KindOf(ts) = "ident" -> <<0>>
              [] Len(ts) = 1 /\ KindOf(ts) = "defined" ->
                   <<Truth(ts[1].str \in DOMAIN macros)>>
              [] OTHER -> << >>

-----------------------------------------------------------------------------
\* The tokens of the line, "defined" being two of them.
Directive(ts) ==
  FlattenSeq([k \in DOMAIN ts |->
    IF ts[k].kind = "defined" THEN <<Ident(<<"defined">>), Ident(ts[k].str)>>
    ELSE <<ts[k]>>])

\* What a next line may start with that is not taken for the expression.
NextLines == {<< >>, <<Punct("#"), Ident(<<"else">>)>>, <<Ident(<<"A">>), Punct("=")>>,
              <<Number(<<"1">>)>>}

\* No macro and no argument is empty.  (Where the code finds nothing in the
\* place of a macro it takes a zero.)
Solid ==
  /\ \A name \in DOMAIN macros : macros[name].body # << >>
  /\ \A i \in 1..Len(input) - 1 :
       ~(input[i].kind \in {"(", ","} /\ input[i + 1].kind \in {")", ","})

\* A condition that C90 gives a value has that value: parsing while expanding
\* comes to the same as expanding the line and then parsing it, whatever
\* macros hold operators, parentheses, other macros or calls.  The evaluation
\* ends with the line, although line ends are no tokens, where the next line
\* starts with no operator (cpp.c:907).
ConditionsRight ==
  Finished /\ Solid =>
    LET value == C90Value(Top.out)
    IN value # << >> =>
         \A next \in NextLines :
           EvalCond(Directive(input) \o next) = Taken(value[1], next)
=============================================================================
