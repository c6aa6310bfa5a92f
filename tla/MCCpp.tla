------------------------------- MODULE MCCpp -------------------------------
(***************************************************************************)
(* CppConditionals on three kinds of programs, each with the lines that    *)
(* make its question hard:                                                 *)
(*   groups    one file: all the nestings of groups, with a macro that is  *)
(*             defined and undefined on the way;                           *)
(*   includes  a main file and a header that may open, close or turn its   *)
(*             includer's groups, include itself, or include nothing;      *)
(*   guards    any main file and two guarded headers that include each     *)
(*             other, like the headers of include/riscv32.                 *)
(***************************************************************************)
EXTENDS CppConditionals, SequencesExt

Groups == {Naming("if", "A"), Naming("ifndef", "A"), Naming("elif", "A"),
           Bare("else"), Bare("endif"), Define("A", "one"), Naming("undef", "A")}

Includes == {Naming("ifdef", "A"), Bare("else"), Bare("endif"),
             Define("A", "zero"), Bare("text"),
             IncludeOf("head"), IncludeOf("gone")}

Guards == {Naming("if", "A"), Naming("ifdef", "B"), Bare("else"),
           Bare("endif"), Bare("text"), IncludeOf("a.h"), IncludeOf("b.h")}

MCLines == Groups \cup Includes \cup Guards

Header(guard, other) ==
  <<Naming("ifndef", guard), Define(guard, "one"), Bare("text"),
    IncludeOf(other), Bare("endif"), EndOfFile>>

MCFirstLines ==
  [f \in File |-> CASE f = "a.h" -> Header("A", "b.h")
                    [] f = "b.h" -> Header("B", "a.h")
                    [] OTHER -> << >>]

\* The lines of the main file and of the header, their ends excluded.
Written(t) == SelectSeq(t["main"] \o t["head"], LAMBDA ln : ln.op # "eof")

\* A program of one kind, with at most so many lines.
Keeps(lines, most) == /\ ToSet(Written(text')) \subseteq lines
                      /\ Len(Written(text')) <= most

OneKind == Keeps(Groups, 6) \/ Keeps(Includes, 5) \/ Keeps(Guards, 5)

MCProcess == Process /\ OneKind

MCNext == MCProcess \/ Ended

MCSpec == Init /\ [][MCNext]_vars /\ WF_vars(MCProcess)
=============================================================================
