-------------------------- MODULE CppConditionals --------------------------
(***************************************************************************)
(* Conditional inclusion, #define/#undef and #include: the directive loop  *)
(* of cpp_process in src/src/cpp.c.                                        *)
(*                                                                         *)
(* cpp_process is one loop over the lines of one file that calls itself    *)
(* for every #include.  All the activations share the macro table and one  *)
(* stack of CondStates.  Here frames is the C call stack of cpp_process,   *)
(* cond_stack and macros are the fields of the Preprocessor, and every     *)
(* turn of the loop (a directive line, or a line of text) is an action.    *)
(*                                                                         *)
(* The files are discovered as they are read: text[f] is what has been     *)
(* read of f, a line that was not read yet is any member of Lines, and a   *)
(* file that is read again reads the same.                                 *)
(*                                                                         *)
(* Abstracted: the tokens of a text line and their macro expansion         *)
(* (MacroExpand); the expression of #if, of which only its value for one   *)
(* macro matters here.  A line of text starts with a token that cannot     *)
(* continue an expression, and every file ends with a newline.             *)
(***************************************************************************)
EXTENDS Naturals, Sequences, FiniteSets

CONSTANTS
  File,        \* file names
  Existing,    \* those resolve_include_path finds
  Main,        \* the file given to the compiler
  Name,        \* macro names
  Lines,       \* the lines a file may hold
  FirstLines,  \* FirstLines[f]: the lines file f is known to start with
  MaxLines,    \* bound: lines read from all the files, ends of file excluded
  MaxDepth     \* bound: activations of cpp_process the C stack has room for

Conditional == {"if", "ifdef", "ifndef", "elif", "else", "endif"}
Ordinary    == {"define", "undef", "include", "text", "other"}

\* A macro as #if and #ifdef see it.
Value == {"undef", "zero", "one"}

Line == [op : Conditional \cup Ordinary \cup {"eof"},
         name : Name, val : Value, file : File]

ASSUME FileAssumption  == Existing \subseteq File /\ Main \in File
ASSUME NameAssumption  == Name # {}
ASSUME LineAssumption  == /\ Lines \subseteq Line
                          /\ \A ln \in Lines : ln.op # "eof"
ASSUME FirstAssumption == FirstLines \in [File -> Seq(Line)]
ASSUME BoundAssumption == MaxLines \in Nat /\ MaxDepth \in Nat \ {0}

\* The lines, with the fields a line does not use filled in.
AnyName == CHOOSE n \in Name : TRUE
Bare(op)       == [op |-> op, name |-> AnyName, val |-> "undef", file |-> Main]
Naming(op, n)  == [Bare(op) EXCEPT !.name = n]
Define(n, v)   == [Bare("define") EXCEPT !.name = n, !.val = v]
IncludeOf(f)   == [Bare("include") EXCEPT !.file = f]
EndOfFile      == Bare("eof")

VARIABLES
  text,        \* text[f]: the lines of file f read so far
  frames,      \* the activations of cpp_process, the running one last
  cond_stack,  \* cpp->cond_stack
  macros,      \* cpp->macros
  status,      \* "run", or how the program ended
  hist         \* history: the lines read, in order, each with its fate

vars == <<text, frames, cond_stack, macros, status, hist>>

CondState == [active : BOOLEAN, parent_active : BOOLEAN, branch_taken : BOOLEAN]

Frame == [file : File, pc : Nat \ {0}]

Entry == [op : Conditional \cup Ordinary, file : File,
          truth : BOOLEAN, kept : BOOLEAN]

TypeOK ==
  /\ text \in [File -> Seq(Line)]
  /\ frames \in Seq(Frame)
  /\ cond_stack \in Seq(CondState)
  /\ macros \in [Name -> Value]
  /\ status \in {"run", "done", "error", "overflow"}
  /\ hist \in Seq(Entry)
  /\ status = "run" => frames # << >>

Init ==
  /\ text = FirstLines
  /\ frames = <<[file |-> Main, pc |-> 1]>>
  /\ cond_stack = << >>
  /\ macros = [n \in Name |-> "undef"]
  /\ status = "run"
  /\ hist = << >>

-----------------------------------------------------------------------------
TopFrame == frames[Len(frames)]
TopCond  == cond_stack[Len(cond_stack)]

(***************************************************************************)
(* Reading.  Offered is the set of lines the running activation may find   *)
(* at its place in its file; Read(ln) fixes that it found ln.              *)
(***************************************************************************)
LinesRead ==
  Cardinality({p \in File \X (1..MaxLines) :
                 /\ p[2] \in DOMAIN text[p[1]]
                 /\ text[p[1]][p[2]].op # "eof"})

Offered ==
  LET known == text[TopFrame.file]
  IN IF TopFrame.pc \in DOMAIN known THEN {known[TopFrame.pc]}
     ELSE {EndOfFile} \cup (IF LinesRead < MaxLines THEN Lines ELSE {})

Read(ln) ==
  IF TopFrame.pc \in DOMAIN text[TopFrame.file]
  THEN UNCHANGED text
  ELSE text' = [text EXCEPT ![TopFrame.file] = Append(@, ln)]

\* The loop goes on with the next line.
NextLine ==
  frames' = [frames EXCEPT ![Len(frames)].pc = @ + 1]

Record(ln, truth, kept) ==
  hist' = Append(hist, [op |-> ln.op, file |-> TopFrame.file,
                        truth |-> truth, kept |-> kept])

\* Mutant: only the outermost group is looked at.
OutermostActive == cond_stack # << >> => cond_stack[1].active

\* is_cond_active: every group on the stack, not just the innermost one.
IsCondActive == \A i \in 1..Len(cond_stack) : cond_stack[i].active

\* What the condition of a directive says of the macros as they are now.
Truth(ln) == CASE ln.op \in {"if", "elif"} -> macros[ln.name] = "one"
               [] ln.op = "ifdef"          -> macros[ln.name] # "undef"
               [] ln.op = "ifndef"         -> macros[ln.name] = "undef"
               [] OTHER                    -> TRUE

-----------------------------------------------------------------------------
(***************************************************************************)
(* One action per case of the loop.                                        *)
(***************************************************************************)
\* #if, #ifdef and #ifndef push a CondState, also inside a dead group.
If(ln) ==
  LET parent_act == IsCondActive
      taken      == parent_act /\ Truth(ln)
  IN /\ ln.op \in {"if", "ifdef", "ifndef"}
     /\ cond_stack' = Append(cond_stack,
                             [active        |-> taken,
                              parent_active |-> parent_act,
                              branch_taken  |-> taken])
     /\ Read(ln) /\ NextLine
     /\ Record(ln, Truth(ln), TRUE)
     /\ UNCHANGED <<macros, status>>

\* Mutant: #else of a dead group does not look at parent_active.
BranchInDeadText(top, holds) ==
  IF ~top.branch_taken /\ holds
  THEN [top EXCEPT !.active = TRUE, !.branch_taken = TRUE]
  ELSE [top EXCEPT !.active = FALSE]

\* Mutant: #elif forgets to set branch_taken.
BranchUnmarked(top, holds) ==
  IF top.parent_active /\ ~top.branch_taken /\ holds
  THEN [top EXCEPT !.active = TRUE]
  ELSE [top EXCEPT !.active = FALSE]

\* #elif and #else reopen the innermost group if no branch was taken yet.
Branch(top, holds) ==
  IF top.parent_active /\ ~top.branch_taken /\ holds
  THEN [top EXCEPT !.active = TRUE, !.branch_taken = TRUE]
  ELSE [top EXCEPT !.active = FALSE]

Else(ln) ==
  /\ ln.op \in {"elif", "else"}
  /\ cond_stack # << >>
  /\ cond_stack' = [cond_stack EXCEPT ![Len(cond_stack)] = Branch(@, Truth(ln))]
  /\ Read(ln) /\ NextLine
  /\ Record(ln, Truth(ln), TRUE)
  /\ UNCHANGED <<macros, status>>

Pop == SubSeq(cond_stack, 1, Len(cond_stack) - 1)

Endif(ln) ==
  /\ ln.op = "endif"
  /\ cond_stack # << >>
  /\ cond_stack' = Pop
  /\ Read(ln) /\ NextLine
  /\ Record(ln, TRUE, TRUE)
  /\ UNCHANGED <<macros, status>>

\* #elif, #else or #endif with no group at all: c90_error, exit(1).
Misplaced(ln) ==
  /\ ln.op \in {"elif", "else", "endif"}
  /\ cond_stack = << >>
  /\ status' = "error"
  /\ Read(ln)
  /\ UNCHANGED <<frames, cond_stack, macros, hist>>

\* Any other line of a dead group is passed over.
Skip(ln) ==
  /\ ln.op \in Ordinary
  /\ ~IsCondActive
  /\ Read(ln) /\ NextLine
  /\ Record(ln, TRUE, FALSE)
  /\ UNCHANGED <<cond_stack, macros, status>>

\* Mutant: #define builds the macro and never enters it in the map.
ObeyForgetful(ln) ==
  /\ ln.op \in Ordinary \ {"include"}
  /\ IsCondActive
  /\ Read(ln) /\ NextLine
  /\ Record(ln, TRUE, TRUE)
  /\ UNCHANGED <<macros, cond_stack, status>>

\* #define, #undef (map_put of NULL), unknown directives and text.
Obey(ln) ==
  /\ ln.op \in Ordinary \ {"include"}
  /\ IsCondActive
  /\ macros' = CASE ln.op = "define" -> [macros EXCEPT ![ln.name] = ln.val]
                 [] ln.op = "undef"  -> [macros EXCEPT ![ln.name] = "undef"]
                 [] OTHER            -> macros
  /\ Read(ln) /\ NextLine
  /\ Record(ln, TRUE, TRUE)
  /\ UNCHANGED <<cond_stack, status>>

\* #include calls cpp_process on the header, with the same cond_stack.
Include(ln) ==
  /\ ln.op = "include" /\ IsCondActive
  /\ ln.file \in Existing
  /\ Len(frames) < MaxDepth
  /\ frames' = Append([frames EXCEPT ![Len(frames)].pc = @ + 1],
                      [file |-> ln.file, pc |-> 1])
  /\ Read(ln)
  /\ Record(ln, TRUE, TRUE)
  /\ UNCHANGED <<cond_stack, macros, status>>

IncludeMissing(ln) ==
  /\ ln.op = "include" /\ IsCondActive
  /\ ln.file \notin Existing
  /\ status' = "error"
  /\ Read(ln)
  /\ UNCHANGED <<frames, cond_stack, macros, hist>>

\* Nothing in the code limits the nesting: the C stack does.
IncludeOverflow(ln) ==
  /\ ln.op = "include" /\ IsCondActive
  /\ ln.file \in Existing
  /\ Len(frames) = MaxDepth
  /\ status' = "overflow"
  /\ Read(ln)
  /\ UNCHANGED <<frames, cond_stack, macros, hist>>

\* Mutants: the end of the main file is not noticed; TOK_EOF is not noticed.
ReturnRuns(ln) ==
  /\ ln.op = "eof"
  /\ frames' = SubSeq(frames, 1, Len(frames) - 1)
  /\ Read(ln)
  /\ UNCHANGED <<cond_stack, macros, hist, status>>

ReturnStays(ln) ==
  /\ ln.op = "eof"
  /\ Read(ln)
  /\ UNCHANGED <<frames, cond_stack, macros, hist, status>>

\* TOK_EOF: cpp_process returns, whatever groups are still open.
Return(ln) ==
  /\ ln.op = "eof"
  /\ frames' = SubSeq(frames, 1, Len(frames) - 1)
  /\ status' = IF Len(frames) = 1 THEN "done" ELSE "run"
  /\ Read(ln)
  /\ UNCHANGED <<cond_stack, macros, hist>>

Step(ln) == \/ If(ln) \/ Else(ln) \/ Endif(ln) \/ Misplaced(ln)
            \/ Skip(ln) \/ Obey(ln)
            \/ Include(ln) \/ IncludeMissing(ln) \/ IncludeOverflow(ln)
            \/ Return(ln)

Process == status = "run" /\ \E ln \in Offered : Step(ln)

\* The program has ended.
Ended == status # "run" /\ UNCHANGED vars

Next == Process \/ Ended

Spec == Init /\ [][Next]_vars

\* One thread, which keeps running.
FairSpec == Spec /\ WF_vars(Process)

-----------------------------------------------------------------------------
(***************************************************************************)
(* Properties.                                                             *)
(***************************************************************************)

\* parent_active, computed when the #if was met, still says whether all the
\* enclosing groups are active: nothing reopens or closes an outer group
\* while an inner one is open.
ParentsAgree ==
  \A i \in 1..Len(cond_stack) :
    cond_stack[i].parent_active <=> \A j \in 1..i - 1 : cond_stack[j].active

\* An active branch was taken, and only groups in live text take a branch.
TakenInLiveText ==
  \A i \in 1..Len(cond_stack) :
    /\ cond_stack[i].active => cond_stack[i].branch_taken
    /\ cond_stack[i].branch_taken => cond_stack[i].parent_active

\* The flags of the whole stack, which is_cond_active tests, and those of the
\* innermost group, which #elif and #else test, never disagree.
CondInv == ParentsAgree /\ TakenInLiveText

\* The stack of flags obeys and drops exactly the lines that the rule of
\* "the first branch whose condition holds" obeys and drops, whatever the
\* nesting and however the macros change between the branches.
Standard == INSTANCE TextSelection
ImplementsStandard == Standard!Spec

\* A header with an include guard: all of it in one #ifndef that it defines.
Guarded == {f \in File : LET t == FirstLines[f] IN
              /\ Len(t) > 3
              /\ t[1].op = "ifndef" /\ t[2].op = "define"
              /\ t[1].name = t[2].name
              /\ t[Len(t) - 1].op = "endif" /\ t[Len(t)].op = "eof"}

\* A guarded header contributes its text at most once to a translation unit,
\* however often and from wherever it is included, even by itself.
GuardedOnce ==
  \A f \in Guarded : \A i, j \in 1..Len(hist) :
    /\ hist[i].file = f /\ hist[i].op = "text" /\ hist[i].kept
    /\ hist[j].file = f /\ hist[j].op = "text" /\ hist[j].kept
    /\ FirstLines[f][3].op = "text"
    => i = j

\* Headers that include each other end thanks to their guards: if all the
\* headers read have one, the calls of cpp_process never nest deeper than one
\* activation per header, one more for a header met again while it is being
\* read, and the main file.
NestingEnds ==
  status = "overflow" =>
    \E i \in 1..Len(hist) : hist[i].file \notin Guarded \cup {Main}

\* The preprocessor always comes to an end, with a result or an error.
Terminates == <>(status # "run")
=============================================================================
