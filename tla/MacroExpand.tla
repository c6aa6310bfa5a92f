---------------------------- MODULE MacroExpand ----------------------------
(***************************************************************************)
(* Macro expansion in src/src/cpp.c: what cpp_process does with the tokens *)
(* of the text lines, expand_token_vector with those of an argument, and   *)
(* expand_macro with one call of a macro.                                  *)
(*                                                                         *)
(* The three functions call each other: expand_macro runs the arguments    *)
(* through expand_token_vector, which calls expand_macro.  Here frames is  *)
(* the C call stack.  The first frame is cpp_process, every other one is   *)
(* an expand_token_vector at work on an argument; the expand_macro that    *)
(* waits for it is the pending call of the frame below.  A turn of one of  *)
(* the two loops is an action.                                             *)
(*                                                                         *)
(* A token is its kind, its spelling and its hide set.  A punctuator has   *)
(* no str: its kind is its spelling.  The spelling of the others is a      *)
(* sequence of atoms, so that pasting and stringification are              *)
(* concatenations.                                                         *)
(*                                                                         *)
(* Abstracted: directives between the lines (CppConditionals), __FILE__    *)
(* and __LINE__, and what the lexer makes of pasted spellings that do not  *)
(* form one identifier or number.  A text holds no # of its own.           *)
(***************************************************************************)
EXTENDS Naturals, Sequences, FiniteSets, SequencesExt

CONSTANT
  Programs   \* pairs of a macro table, a function from names, and a text, a
             \* sequence of tokens with empty hide sets

Punct(kind)   == [kind |-> kind, str |-> << >>, hideset |-> {}]
Ident(name)   == [kind |-> "ident", str |-> name, hideset |-> {}]
Number(text)  == [kind |-> "number", str |-> text, hideset |-> {}]
Literal(text) == [kind |-> "string", str |-> text, hideset |-> {}]
Token == [kind : STRING, str : Seq(STRING), hideset : SUBSET Seq(STRING)]

\* #define name body
DefineObject(body) ==
  [is_function_like |-> FALSE, params |-> << >>, body |-> body]

\* #define name(list) body; the tokens of the list that have a str are names.
DefineFunction(list, body) ==
  LET named == SelectSeq(list, LAMBDA t : t.str # << >>)
  IN [is_function_like |-> TRUE, body |-> body,
      params |-> [j \in 1..Len(named) |-> named[j].str]]

VARIABLES
  macros,  \* cpp->macros
  input,   \* the tokens of the text
  frames   \* the loops at work, the running one last

vars == <<macros, input, frames>>

NoCall == [name |-> << >>, args |-> << >>, expanded |-> << >>]

\* rest: the tokens from cur on; out: those delivered; call: expand_macro.
Frame(tokens) == [rest |-> tokens, out |-> << >>, call |-> NoCall]

Init == /\ \E program \in Programs :
             macros = program[1] /\ input = program[2]
        /\ frames = <<Frame(input)>>

Top == frames[Len(frames)]
SetTop(frame) == frames' = [frames EXCEPT ![Len(frames)] = frame]

-----------------------------------------------------------------------------
(***************************************************************************)
(* expand_macro.                                                           *)
(***************************************************************************)
\* The places in m.params of the parameters that token t names.
ParamsNamed(m, t) ==
  {j \in 1..Len(m.params) : t.str # << >> /\ m.params[j] = t.str}
IsParam(m, t) == m.is_function_like /\ ParamsNamed(m, t) # {}
ParamIndex(m, t) ==
  CHOOSE j \in ParamsNamed(m, t) : \A k \in ParamsNamed(m, t) : j <= k

\* The spelling the code gives a token: that of a literal has no quotes.
Spelling(t) == IF t.str # << >> THEN t.str ELSE <<t.kind>>

Argument(args, j) == IF j <= Len(args) THEN args[j] ELSE << >>

\* #param: the spellings of the raw argument, with a space between them.
Stringify(arg) ==
  Literal(FlattenSeq([k \in 1..Len(arg) |->
            (IF k > 1 THEN <<" ">> ELSE << >>) \o Spelling(arg[k])]))

KindAt(body, i) == IF i \in 1..Len(body) THEN body[i].kind ELSE "none"
Stringifies(m, i) ==
  KindAt(m.body, i) = "#" /\ i < Len(m.body) /\ IsParam(m, m.body[i + 1])
\* Mutant: an operand of ## is expanded like any other.
BesidePasteNever(body, i) == FALSE

BesidePaste(body, i) == "##" \in {KindAt(body, i - 1), KindAt(body, i + 1)}

\* What stands for token i of the body of m in a call of m.
Substitute(m, i, args, expanded) ==
  LET t == m.body[i]
      j == ParamIndex(m, t)
  IN IF i > 1 /\ Stringifies(m, i - 1) THEN << >>
     ELSE IF Stringifies(m, i)
     THEN <<Stringify(Argument(args, ParamIndex(m, m.body[i + 1])))>>
     ELSE IF ~IsParam(m, t) THEN <<t>>
     ELSE Argument(IF BesidePaste(m.body, i) THEN args ELSE expanded, j)

\* The token the lexer reads off the two spellings; its hide set is new.
Pasted(left, right) ==
  [kind |-> left.kind, str |-> Spelling(left) \o Spelling(right),
   hideset |-> {}]

\* The ## of the substituted body, from left to right: done is the result so
\* far, ts what is still to come.
Paste(tokens) ==
  LET paste[done \in Seq(Token), ts \in Seq(Token)] ==
        IF ts = << >> THEN done
        ELSE IF Head(ts).kind # "##"
        THEN paste[Append(done, Head(ts)), Tail(ts)]
        ELSE IF done = << >> \/ Len(ts) = 1 THEN paste[done, Tail(ts)]
        ELSE paste[Append(Front(done), Pasted(Last(done), ts[2])),
                   SubSeq(ts, 3, Len(ts))]
  IN paste[<< >>, tokens]

\* Mutant: nothing is tagged.
TagNone(name, tokens) == tokens

\* The name of the macro joins the hide set of every token of the result.
Tag(name, tokens) ==
  [i \in 1..Len(tokens) |-> [tokens[i] EXCEPT !.hideset = @ \cup {name}]]

ExpandMacro(name, args, expanded) ==
  LET m == macros[name]
  IN Tag(name, Paste(FlattenSeq(
       [i \in 1..Len(m.body) |-> Substitute(m, i, args, expanded)])))

-----------------------------------------------------------------------------
(***************************************************************************)
(* The arguments of a call: s is what follows the opening parenthesis.     *)
(***************************************************************************)
Count(s, n, kind) == Cardinality({k \in 1..n : s[k].kind = kind})
ParenDepth(s, i)  == Count(s, i - 1, "(") - Count(s, i - 1, ")")

Closing(s) == {i \in 1..Len(s) : /\ s[i].kind = ")"
                                 /\ ParenDepth(s, i) = 0}

\* The place of the ) that closes the call, or the end of the tokens.
CallEnd(s) == IF Closing(s) = {} THEN Len(s) + 1
              ELSE CHOOSE i \in Closing(s) : \A k \in Closing(s) : i <= k

Commas(s) == {i \in 1..CallEnd(s) - 1 : /\ s[i].kind = ","
                                        /\ ParenDepth(s, i) = 0}

\* The arguments; the last one is lost if the call is not closed.
CollectArgs(s) ==
  LET ends == SetToSortSeq(Commas(s) \cup (Closing(s) \cap {CallEnd(s)}), <)
  IN [k \in 1..Len(ends) |->
        SubSeq(s, IF k = 1 THEN 1 ELSE ends[k - 1] + 1, ends[k] - 1)]

AfterCall(s) == SubSeq(s, CallEnd(s) + 1, Len(s))

-----------------------------------------------------------------------------
(***************************************************************************)
(* The loops.                                                              *)
(***************************************************************************)
\* Running: the top loop has a token and waits for no expand_macro.
Running == Top.call = NoCall /\ Top.rest # << >>

\* The token names a macro that its hide set does not forbid.
Replaceable(t) ==
  t.kind = "ident" /\ t.str \in DOMAIN macros /\ t.str \notin t.hideset

ObjectCall == /\ Replaceable(Head(Top.rest))
              /\ ~macros[Head(Top.rest).str].is_function_like
FunctionCall == /\ Replaceable(Head(Top.rest))
                /\ macros[Head(Top.rest).str].is_function_like
                /\ KindAt(Top.rest, 2) = "("

Emit ==
  /\ Running /\ ~ObjectCall /\ ~FunctionCall
  /\ SetTop([Top EXCEPT !.out = Append(@, Head(Top.rest)), !.rest = Tail(@)])
  /\ UNCHANGED <<macros, input>>

\* cpp_process delivers a macro that stands for its own name at once.
ReplaceObject ==
  /\ Running /\ ObjectCall
  /\ LET name == Head(Top.rest).str IN
     \E expansion \in {ExpandMacro(name, << >>, << >>)} :
        IF Len(frames) = 1 /\ Len(expansion) = 1 /\ expansion[1].str = name
        THEN SetTop([Top EXCEPT !.out = @ \o expansion, !.rest = Tail(@)])
        ELSE SetTop([Top EXCEPT !.rest = expansion \o Tail(@)])
  /\ UNCHANGED <<macros, input>>

\* A call of a function-like macro: its arguments are taken off the text.
Call ==
  /\ Running /\ FunctionCall
  /\ LET s == SubSeq(Top.rest, 3, Len(Top.rest))
     IN SetTop([Top EXCEPT !.rest = AfterCall(s),
                           !.call = [name |-> Head(Top.rest).str,
                                     args |-> CollectArgs(s),
                                     expanded |-> << >>]])
  /\ UNCHANGED <<macros, input>>

\* expand_macro expands the next argument by itself.
ExpandArgument ==
  LET k == Len(Top.call.expanded) + 1 IN
  /\ Top.call # NoCall /\ k <= Len(Top.call.args)
  /\ frames' = Append(frames, Frame(Top.call.args[k]))
  /\ UNCHANGED <<macros, input>>

\* The argument is done: expand_token_vector returns.
ArgumentDone ==
  LET below == Len(frames) - 1 IN
  /\ below > 0 /\ Top.rest = << >> /\ Top.call = NoCall
  /\ frames' = [SubSeq(frames, 1, below) EXCEPT
                  ![below].call.expanded = Append(@, Top.out)]
  /\ UNCHANGED <<macros, input>>

\* All arguments are expanded: the result is scanned with the text behind.
ReplaceCall ==
  LET call == Top.call IN
  /\ call # NoCall /\ Len(call.expanded) = Len(call.args)
  /\ SetTop([Top EXCEPT
       !.rest = ExpandMacro(call.name, call.args, call.expanded) \o @,
       !.call = NoCall])
  /\ UNCHANGED <<macros, input>>

Finished == Len(frames) = 1 /\ Top.rest = << >> /\ Top.call = NoCall
Ended == Finished /\ UNCHANGED vars

Process == \/ Emit \/ ReplaceObject \/ Call
           \/ ExpandArgument \/ ArgumentDone \/ ReplaceCall

Next == Process \/ Ended

Spec     == Init /\ [][Next]_vars
FairSpec == Spec /\ WF_vars(Process)

-----------------------------------------------------------------------------
(***************************************************************************)
(* Properties.                                                             *)
(***************************************************************************)
\* The loop of cpp_process ends: macros that stand for themselves, alone or
\* in their own arguments, are not expanded for ever.
Terminates == <>Finished
=============================================================================
