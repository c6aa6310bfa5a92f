-------------------------- MODULE MacroReplacement --------------------------
(***************************************************************************)
(* What C90 (6.8.3) asks of macro replacement, as the recursive algorithm  *)
(* of the committee's paper (X3J11/86-196): Replaced(ts) is the text that  *)
(* ts stands for.  It is a definition on sequences of tokens, with none of *)
(* the loops and frames of MacroExpand, and yields Undefined where C90     *)
(* does not say what a text means.                                         *)
(***************************************************************************)
EXTENDS MacroExpand

Undefined == Punct("undefined")

\* A literal is spelled with its quotes.
CSpelling(t) ==
  IF t.kind = "string" THEN <<"quote">> \o t.str \o <<"quote">> ELSE Spelling(t)

CString(arg) ==
  Literal(FlattenSeq([k \in 1..Len(arg) |->
            (IF k > 1 THEN <<" ">> ELSE << >>) \o CSpelling(arg[k])]))

\* Two sequences joined at their ends by a ## between them.
Glue(left, right) ==
  LET l == Last(left)
      r == Head(right)
      joined == [kind |-> l.kind, str |-> CSpelling(l) \o CSpelling(r),
                 hideset |-> l.hideset \cap r.hideset]
  IN IF left = << >> \/ right = << >> THEN <<Undefined>>
     ELSE Append(Front(left), joined) \o Tail(right)

\* The depth of parentheses before place i of a text that follows a "(".
Open(ts, i) == 1 + Cardinality({k \in 1..i - 1 : ts[k].kind = "("})
                 - Cardinality({k \in 1..i - 1 : ts[k].kind = ")"})
ClosingAt(ts) ==
  LET at == {i \in 1..Len(ts) : ts[i].kind = ")" /\ Open(ts, i) = 1}
  IN IF at = {} THEN 0 ELSE CHOOSE i \in at : \A k \in at : i <= k

\* The arguments between "(" and the ")" at place last.
RECURSIVE ArgumentsFrom(_, _, _)
ArgumentsFrom(ts, from, last) ==
  LET ends == {i \in from..last : /\ Open(ts, i) = 1
                                  /\ i = last \/ ts[i].kind = ","}
      end  == CHOOSE i \in ends : \A k \in ends : i <= k
  IN IF from > last THEN << >>
     ELSE <<SubSeq(ts, from, end - 1)>> \o ArgumentsFrom(ts, end + 1, last)

RECURSIVE Replaced(_), Substituted(_, _, _, _)

\* The rest of the body, with arg[p] for the parameter p, behind done.
Substituted(body, ps, arg, done) ==
  LET names(t) == t.kind = "ident" /\ t.str \in ps
      t == Head(body)
      u == body[2]
      two == Len(body) > 1
      behind == SubSeq(body, 3, Len(body))
  IN IF body = << >> THEN done
     ELSE IF two /\ t.kind = "#" /\ names(u)
     THEN Substituted(behind, ps, arg, Append(done, CString(arg[u.str])))
     ELSE IF two /\ t.kind = "##"
     THEN Substituted(behind, ps, arg,
                      Glue(done, IF names(u) THEN arg[u.str] ELSE <<u>>))
     ELSE IF names(t)
     THEN Substituted(Tail(body), ps, arg,
            done \o IF two /\ u.kind = "##" THEN arg[t.str]
                    ELSE Replaced(arg[t.str]))
     ELSE Substituted(Tail(body), ps, arg, Append(done, t))

Hidden(ts, names) ==
  [i \in 1..Len(ts) |-> [ts[i] EXCEPT !.hideset = @ \cup names]]

Replaced(ts) ==
  LET t    == Head(ts)
      m    == macros[t.str]
      s    == SubSeq(ts, 3, Len(ts))
      args == ArgumentsFrom(s, 1, ClosingAt(s))
      arg  == [p \in ToSet(m.params) |->
                 args[CHOOSE j \in 1..Len(args) : m.params[j] = p]]
      names == {t.str} \cup (t.hideset \cap s[ClosingAt(s)].hideset)
  IN IF ts = << >> THEN << >>
     ELSE IF t.kind # "ident" \/ t.str \notin DOMAIN macros
     THEN <<t>> \o Replaced(Tail(ts))
     ELSE IF t.str \in t.hideset THEN <<t>> \o Replaced(Tail(ts))
     ELSE IF ~m.is_function_like
     THEN Replaced(Hidden(Substituted(m.body, {}, << >>, << >>),
                          {t.str} \cup t.hideset) \o Tail(ts))
     ELSE IF KindAt(ts, 2) # "(" THEN <<t>> \o Replaced(Tail(ts))
     ELSE IF \/ ClosingAt(s) = 0
             \/ Len(args) # Len(m.params) \/ << >> \in ToSet(args)
     THEN <<Undefined>>
     ELSE Replaced(Hidden(Substituted(m.body, ToSet(m.params), arg, << >>),
                          names) \o SubSeq(s, ClosingAt(s) + 1, Len(s)))

Visible(ts) == [i \in 1..Len(ts) |-> [ts[i] EXCEPT !.hideset = {}]]

\* When the loop is done and C90 says what the text means, the tokens it
\* delivered are those.
AgreesWithC90 ==
  LET meant == Replaced(input)
  IN Finished => Undefined \in ToSet(Visible(meant))
                 \/ Visible(Top.out) = Visible(meant)
=============================================================================
