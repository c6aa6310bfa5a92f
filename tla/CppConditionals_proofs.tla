----------------------- MODULE CppConditionals_proofs -----------------------
(***************************************************************************)
(* Proofs about CppConditionals, for all files, macro names, lines and     *)
(* bounds: type correctness, the agreement of the flags on the stack       *)
(* (CondInv), and what it means for is_cond_active.                        *)
(***************************************************************************)
EXTENDS CppConditionals, SequenceTheorems, TLAPS

\* Taking the last element off a sequence: what pops a group or a call does.
LEMMA ShorterByOne ==
  ASSUME NEW S, NEW s \in Seq(S), s # << >>
  PROVE  /\ SubSeq(s, 1, Len(s) - 1) \in Seq(S)
         /\ Len(SubSeq(s, 1, Len(s) - 1)) = Len(s) - 1
         /\ \A i \in 1..Len(s) - 1 : SubSeq(s, 1, Len(s) - 1)[i] = s[i]
<1>1. Len(s) \in Nat \ {0}
  OBVIOUS
<1>2. \A i \in 1..Len(s) - 1 : s[i] \in S
  BY <1>1
<1> DEFINE m == 1
           n == Len(s) - 1
<1>3. m \in Int /\ n \in Int /\ \A i \in m..n : s[i] \in S
  BY <1>1, <1>2
<1> HIDE DEF m, n
<1>4. /\ SubSeq(s, m, n) \in Seq(S)
      /\ Len(SubSeq(s, m, n)) = IF m <= n THEN n - m + 1 ELSE 0
      /\ \A i \in 1..n - m + 1 : SubSeq(s, m, n)[i] = s[m + i - 1]
  BY <1>3, SubSeqProperties
<1>5. n - m + 1 = Len(s) - 1 /\ \A i \in 1..Len(s) - 1 : m + i - 1 = i
  BY <1>1 DEF m, n
<1>6. /\ SubSeq(s, m, n) \in Seq(S)
      /\ Len(SubSeq(s, m, n)) = Len(s) - 1
      /\ \A i \in 1..Len(s) - 1 : SubSeq(s, m, n)[i] = s[i]
  <2>1. Len(SubSeq(s, m, n)) = Len(s) - 1
    BY <1>1, <1>4, <1>5 DEF m, n
  <2>2. QED
    BY <1>4, <1>5, <2>1
<1>7. QED
  BY <1>6, Zenon DEF m, n

\* The fields that the lines of text and EndOfFile need to be Lines.
LEMMA EndOfFileIsLine == EndOfFile \in Line
<1>1. AnyName \in Name
  BY NameAssumption DEF AnyName
<1>2. QED
  BY <1>1, FileAssumption DEF EndOfFile, Bare, Line, Value

\* Whatever the running activation finds at its place is a Line.
LEMMA OfferedLine ==
  ASSUME TypeOK, status = "run", NEW ln \in Offered
  PROVE  /\ TopFrame \in Frame
         /\ ln \in Line
<1>1. Len(frames) \in 1..Len(frames) /\ TopFrame \in Frame
  BY DEF TypeOK, TopFrame
<1>2. TopFrame.file \in File
  BY <1>1 DEF Frame
<1>3. CASE TopFrame.pc \in DOMAIN text[TopFrame.file]
  <2>1. text[TopFrame.file] \in Seq(Line)
    BY <1>2 DEF TypeOK
  <2>2. ln = text[TopFrame.file][TopFrame.pc]
    BY <1>3 DEF Offered
  <2>3. QED
    BY <1>1, <1>3, <2>1, <2>2
<1>4. CASE TopFrame.pc \notin DOMAIN text[TopFrame.file]
  <2>1. ln = EndOfFile \/ ln \in Lines
    BY <1>4 DEF Offered
  <2>2. QED
    BY <1>1, <2>1, EndOfFileIsLine, LineAssumption
<1>5. QED
  BY <1>3, <1>4

\* Reading keeps the files sequences of lines.
LEMMA ReadType ==
  ASSUME TypeOK, TopFrame \in Frame, NEW ln \in Line, Read(ln)
  PROVE  text' \in [File -> Seq(Line)]
<1>1. text \in [File -> Seq(Line)] /\ TopFrame.file \in File
  BY DEF TypeOK, Frame
<1>2. CASE UNCHANGED text
  BY <1>1, <1>2
<1>3. CASE text' = [text EXCEPT ![TopFrame.file] = Append(@, ln)]
  <2>1. Append(text[TopFrame.file], ln) \in Seq(Line)
    BY <1>1
  <2>2. QED
    BY <1>1, <1>3, <2>1
<1>4. QED
  BY <1>2, <1>3 DEF Read

\* Going on with the next line keeps the frames what they are.
LEMMA NextLineType ==
  ASSUME TypeOK, frames # << >>
  PROVE  LET next == [frames EXCEPT ![Len(frames)].pc = @ + 1]
         IN next \in Seq(Frame) /\ next # << >> /\ Len(next) = Len(frames)
<1> DEFINE next == [frames EXCEPT ![Len(frames)].pc = @ + 1]
<1>1. frames \in Seq(Frame) /\ Len(frames) \in 1..Len(frames)
  BY DEF TypeOK
<1>2. frames[Len(frames)] \in Frame
  BY <1>1
<1>3. [frames[Len(frames)] EXCEPT !.pc = @ + 1] \in Frame
  BY <1>2 DEF Frame
<1>4. next = [frames EXCEPT ![Len(frames)] =
                [frames[Len(frames)] EXCEPT !.pc = @ + 1]]
  BY <1>1
<1>5. QED
  BY <1>1, <1>3, <1>4

\* A step records an entry of the history.
LEMMA RecordType ==
  ASSUME TypeOK, TopFrame \in Frame, NEW ln \in Line, ln.op # "eof",
         NEW truth \in BOOLEAN, NEW kept \in BOOLEAN, Record(ln, truth, kept)
  PROVE  hist' \in Seq(Entry)
<1>1. [op |-> ln.op, file |-> TopFrame.file, truth |-> truth, kept |-> kept]
        \in Entry
  BY DEF Line, Frame, Entry
<1>2. QED
  BY <1>1 DEF TypeOK, Record

LEMMA TruthType == ASSUME NEW ln PROVE Truth(ln) \in BOOLEAN
  BY DEF Truth

LEMMA IsCondActiveType == IsCondActive \in BOOLEAN
  BY DEF IsCondActive

-----------------------------------------------------------------------------
(***************************************************************************)
(* Type correctness.                                                       *)
(***************************************************************************)
LEMMA InitType == Init => TypeOK
<1> SUFFICES ASSUME Init PROVE TypeOK
  OBVIOUS
<1>1. [file |-> Main, pc |-> 1] \in Frame
  BY FileAssumption DEF Frame
<1>2. QED
  BY <1>1, FirstAssumption DEF Init, TypeOK, Value

\* Every case of the loop keeps the types.
LEMMA StepType ==
  ASSUME TypeOK, status = "run", NEW ln \in Offered, Step(ln)
  PROVE  TypeOK'
<1>1. TopFrame \in Frame /\ ln \in Line /\ frames # << >>
  BY OfferedLine DEF TypeOK
<1>2. Read(ln) => text' \in [File -> Seq(Line)]
  BY <1>1, ReadType
<1>3. NextLine => frames' \in Seq(Frame) /\ frames' # << >>
  BY <1>1, NextLineType DEF NextLine
<1>4. CASE If(ln)
  <2>1. hist' \in Seq(Entry)
    BY <1>1, <1>4, RecordType, TruthType DEF If
  <2>2. [active |-> IsCondActive /\ Truth(ln), parent_active |-> IsCondActive,
         branch_taken |-> IsCondActive /\ Truth(ln)] \in CondState
    BY TruthType, IsCondActiveType DEF CondState
  <2>3. cond_stack' \in Seq(CondState)
    BY <1>4, <2>2 DEF If, TypeOK
  <2>4. QED
    BY <1>2, <1>3, <1>4, <2>1, <2>3 DEF If, TypeOK
<1>5. CASE Else(ln)
  <2>1. hist' \in Seq(Entry)
    BY <1>1, <1>5, RecordType, TruthType DEF Else
  <2>2. cond_stack[Len(cond_stack)] \in CondState
    BY <1>5 DEF Else, TypeOK
  <2>3. Branch(cond_stack[Len(cond_stack)], Truth(ln)) \in CondState
    BY <2>2 DEF Branch, CondState
  <2>4. cond_stack' \in Seq(CondState)
    BY <1>5, <2>3 DEF Else, TypeOK
  <2>5. QED
    BY <1>2, <1>3, <1>5, <2>1, <2>4 DEF Else, TypeOK
<1>6. CASE Endif(ln)
  <2>1. hist' \in Seq(Entry)
    BY <1>1, <1>6, RecordType DEF Endif
  <2>2. cond_stack' \in Seq(CondState)
    BY <1>6 DEF Endif, Pop, TypeOK
  <2>3. QED
    BY <1>2, <1>3, <1>6, <2>1, <2>2 DEF Endif, TypeOK
<1>7. CASE Misplaced(ln)
  BY <1>2, <1>7 DEF Misplaced, TypeOK
<1>8. CASE Skip(ln)
  <2>1. hist' \in Seq(Entry)
    BY <1>1, <1>8, RecordType DEF Skip, Ordinary
  <2>2. QED
    BY <1>2, <1>3, <1>8, <2>1 DEF Skip, TypeOK
<1>9. CASE Obey(ln)
  <2>1. hist' \in Seq(Entry)
    BY <1>1, <1>9, RecordType DEF Obey, Ordinary
  <2>2. macros' \in [Name -> Value]
    BY <1>1, <1>9 DEF Obey, TypeOK, Line, Value
  <2>3. QED
    BY <1>2, <1>3, <1>9, <2>1, <2>2 DEF Obey, TypeOK
<1>10. CASE Include(ln)
  <2>1. hist' \in Seq(Entry)
    BY <1>1, <1>10, RecordType DEF Include
  <2>2. [file |-> ln.file, pc |-> 1] \in Frame
    BY <1>1 DEF Frame, Line, TypeOK
  <2>3. frames' \in Seq(Frame) /\ frames' # << >>
    BY <1>1, <1>10, <2>2, NextLineType DEF Include
  <2>4. QED
    BY <1>2, <1>10, <2>1, <2>3 DEF Include, TypeOK
<1>11. CASE IncludeMissing(ln)
  BY <1>2, <1>11 DEF IncludeMissing, TypeOK
<1>12. CASE IncludeOverflow(ln)
  BY <1>2, <1>12 DEF IncludeOverflow, TypeOK
<1>13. CASE Return(ln)
  <2>1. frames \in Seq(Frame) /\ Len(frames) \in Nat \ {0}
    BY <1>1 DEF TypeOK
  <2>2. /\ frames' \in Seq(Frame)
        /\ Len(frames') = Len(frames) - 1
    BY <1>1, <1>13, <2>1, ShorterByOne DEF Return
  <2>3. Len(frames) # 1 => frames' # << >>
    BY <2>1, <2>2
  <2>4. QED
    BY <1>2, <1>13, <2>2, <2>3 DEF Return, TypeOK
<1>14. QED
  BY <1>4, <1>5, <1>6, <1>7, <1>8, <1>9, <1>10, <1>11, <1>12, <1>13 DEF Step

\* The variables of the preprocessor keep their types, for every input.
THEOREM TypeCorrect == Spec => []TypeOK
<1>1. TypeOK /\ [Next]_vars => TypeOK'
  <2> SUFFICES ASSUME TypeOK, [Next]_vars PROVE TypeOK'
    OBVIOUS
  <2>1. CASE Process
    BY <2>1, StepType DEF Process
  <2>2. CASE UNCHANGED vars
    BY <2>2 DEF vars, TypeOK
  <2>3. QED
    BY <2>1, <2>2 DEF Next, Ended
<1>2. QED
  BY InitType, <1>1, PTL DEF Spec

-----------------------------------------------------------------------------
(***************************************************************************)
(* The flags on the stack.                                                 *)
(***************************************************************************)

\* On the empty stack there is nothing to disagree about.
LEMMA InitCondInv == Init => CondInv
  BY DEF Init, CondInv, ParentsAgree, TakenInLiveText

\* #if: the new group's parent_active is is_cond_active of the groups below.
LEMMA IfKeepsCondInv ==
  ASSUME TypeOK, CondInv, NEW ln, If(ln)
  PROVE  CondInv'
<1> DEFINE n     == Len(cond_stack)
           taken == IsCondActive /\ Truth(ln)
           cs    == [active |-> taken, parent_active |-> IsCondActive,
                     branch_taken |-> taken]
<1>1. cs \in CondState
  BY TruthType, IsCondActiveType DEF CondState
<1>2. /\ cond_stack \in Seq(CondState)
      /\ n \in Nat
      /\ cond_stack' = Append(cond_stack, cs)
  BY DEF If, TypeOK
<1>3. /\ Len(cond_stack') = n + 1
      /\ \A i \in 1..n : cond_stack'[i] = cond_stack[i]
      /\ cond_stack'[n + 1] = cs
  BY <1>1, <1>2, AppendProperties
<1>4. /\ cs.active <=> taken
      /\ cs.parent_active <=> IsCondActive
      /\ cs.branch_taken <=> taken
  OBVIOUS
<1> HIDE DEF cs
<1>5. ParentsAgree'
  <2> SUFFICES ASSUME NEW i \in 1..n + 1
               PROVE  cond_stack'[i].parent_active
                        <=> \A j \in 1..i - 1 : cond_stack'[j].active
    BY <1>3 DEF ParentsAgree
  <2>1. CASE i \in 1..n
    <3>1. \A j \in 1..i - 1 : cond_stack'[j].active <=> cond_stack[j].active
      BY <1>2, <1>3, <2>1
    <3>2. QED
      BY <1>3, <2>1, <3>1 DEF CondInv, ParentsAgree
  <2>2. CASE i = n + 1
    <3>1. IsCondActive <=> \A j \in 1..n : cond_stack'[j].active
      BY <1>3 DEF IsCondActive
    <3>2. i - 1 = n
      BY <1>2, <2>2
    <3>3. QED
      BY <1>3, <1>4, <2>2, <3>1, <3>2
  <2>3. QED
    BY <1>2, <2>1, <2>2
<1>6. TakenInLiveText'
  <2> SUFFICES ASSUME NEW i \in 1..n + 1
               PROVE  /\ cond_stack'[i].active => cond_stack'[i].branch_taken
                      /\ cond_stack'[i].branch_taken
                           => cond_stack'[i].parent_active
    BY <1>3 DEF TakenInLiveText
  <2>1. CASE i \in 1..n
    BY <1>3, <2>1 DEF CondInv, TakenInLiveText
  <2>2. CASE i = n + 1
    BY <1>3, <1>4, <2>2
  <2>3. QED
    BY <1>2, <2>1, <2>2
<1>7. QED
  BY <1>5, <1>6 DEF CondInv

\* #elif and #else: only the active flag of the innermost group changes that
\* a parent_active depends on, and no group is inside the innermost one.
LEMMA ElseKeepsCondInv ==
  ASSUME TypeOK, CondInv, NEW ln, Else(ln)
  PROVE  CondInv'
<1> DEFINE n   == Len(cond_stack)
           top == cond_stack[n]
           cs  == Branch(top, Truth(ln))
<1>1. /\ cond_stack \in Seq(CondState)
      /\ n \in Nat \ {0}
      /\ cond_stack' = [cond_stack EXCEPT ![n] = cs]
  BY DEF Else, TypeOK
<1>2. top \in CondState
  BY <1>1
<1>3. cs \in CondState /\ (cs.parent_active <=> top.parent_active)
  BY <1>2 DEF Branch, CondState
<1>4. /\ cs.active => cs.branch_taken
      /\ cs.branch_taken => cs.parent_active
  <2>1. top.branch_taken => top.parent_active
    BY <1>1 DEF CondInv, TakenInLiveText
  <2>2. QED
    BY <1>2, <2>1 DEF Branch, CondState
<1> HIDE DEF cs
<1>5. /\ Len(cond_stack') = n
      /\ \A i \in 1..n - 1 : cond_stack'[i] = cond_stack[i]
      /\ cond_stack'[n] = cs
  BY <1>1, <1>3, ExceptSeq
<1>6. ParentsAgree'
  <2> SUFFICES ASSUME NEW i \in 1..n
               PROVE  cond_stack'[i].parent_active
                        <=> \A j \in 1..i - 1 : cond_stack'[j].active
    BY <1>5 DEF ParentsAgree
  <2>1. 1..i - 1 \subseteq 1..n - 1 /\ (i # n => i \in 1..n - 1)
    BY <1>1
  <2>2. cond_stack'[i].parent_active <=> cond_stack[i].parent_active
    BY <1>3, <1>5, <2>1, Zenon
  <2>3. \A j \in 1..i - 1 : cond_stack'[j] = cond_stack[j]
    BY <1>5, <2>1, Zenon
  <2>4. cond_stack[i].parent_active <=> \A j \in 1..i - 1 : cond_stack[j].active
    BY DEF CondInv, ParentsAgree
  <2>5. QED
    BY <2>2, <2>3, <2>4, Zenon
<1>7. TakenInLiveText'
  <2> SUFFICES ASSUME NEW i \in 1..n
               PROVE  /\ cond_stack'[i].active => cond_stack'[i].branch_taken
                      /\ cond_stack'[i].branch_taken
                           => cond_stack'[i].parent_active
    BY <1>5 DEF TakenInLiveText
  <2>1. CASE i = n
    BY <1>4, <1>5, <2>1
  <2>2. CASE i \in 1..n - 1
    BY <1>1, <1>5, <2>2 DEF CondInv, TakenInLiveText
  <2>3. QED
    BY <1>1, <2>1, <2>2
<1>8. QED
  BY <1>6, <1>7 DEF CondInv

\* #endif: the groups that remain are what they were.
LEMMA EndifKeepsCondInv ==
  ASSUME TypeOK, CondInv, NEW ln, Endif(ln)
  PROVE  CondInv'
<1> DEFINE n == Len(cond_stack)
<1>1. /\ n \in Nat \ {0}
      /\ Len(cond_stack') = n - 1
      /\ \A i \in 1..n - 1 : cond_stack'[i] = cond_stack[i]
  BY ShorterByOne DEF Endif, Pop, TypeOK
<1>2. ParentsAgree'
  <2> SUFFICES ASSUME NEW i \in 1..n - 1
               PROVE  cond_stack'[i].parent_active
                        <=> \A j \in 1..i - 1 : cond_stack'[j].active
    BY <1>1 DEF ParentsAgree
  <2>1. 1..i - 1 \subseteq 1..n - 1 /\ i \in 1..n
    BY <1>1
  <2>2. \A j \in 1..i - 1 : cond_stack'[j] = cond_stack[j]
    BY <1>1, <2>1, Zenon
  <2>3. cond_stack[i].parent_active <=> \A j \in 1..i - 1 : cond_stack[j].active
    BY <2>1 DEF CondInv, ParentsAgree
  <2>4. QED
    BY <1>1, <2>2, <2>3, Zenon
<1>3. TakenInLiveText'
  BY <1>1 DEF CondInv, TakenInLiveText
<1>4. QED
  BY <1>2, <1>3 DEF CondInv

\* The flags of the stack agree with each other after every step, whatever
\* the files, the macros and the nesting.
THEOREM FlagsAgree == Spec => []CondInv
<1>1. TypeOK /\ CondInv /\ [Next]_vars => CondInv'
  <2> SUFFICES ASSUME TypeOK, CondInv, [Next]_vars PROVE CondInv'
    OBVIOUS
  <2>1. UNCHANGED cond_stack => CondInv'
    BY DEF CondInv, ParentsAgree, TakenInLiveText
  <2>2. CASE Process
    <3> PICK ln \in Offered : Step(ln)
      BY <2>2 DEF Process
    <3>1. CASE If(ln)
      BY <3>1, IfKeepsCondInv
    <3>2. CASE Else(ln)
      BY <3>2, ElseKeepsCondInv
    <3>3. CASE Endif(ln)
      BY <3>3, EndifKeepsCondInv
    <3>4. CASE \/ Misplaced(ln) \/ Skip(ln) \/ Obey(ln) \/ Include(ln)
               \/ IncludeMissing(ln) \/ IncludeOverflow(ln) \/ Return(ln)
      BY <2>1, <3>4 DEF Misplaced, Skip, Obey, Include, IncludeMissing,
                        IncludeOverflow, Return
    <3>5. QED
      BY <3>1, <3>2, <3>3, <3>4 DEF Step
  <2>3. CASE UNCHANGED vars
    BY <2>1, <2>3 DEF vars
  <2>4. QED
    BY <2>2, <2>3 DEF Next, Ended
<1>2. QED
  BY InitCondInv, TypeCorrect, <1>1, PTL DEF Spec

\* is_cond_active, which looks at the whole stack, could look at the innermost
\* group alone: what #elif and #else decide from and what text is kept by are
\* the same thing.
THEOREM TopDecides ==
  ASSUME TypeOK, CondInv, cond_stack # << >>
  PROVE  IsCondActive <=> TopCond.active
<1> DEFINE n == Len(cond_stack)
<1>1. n \in Nat \ {0}
  BY DEF TypeOK
<1>2. TopCond.active => \A j \in 1..n - 1 : cond_stack[j].active
  BY <1>1 DEF CondInv, ParentsAgree, TakenInLiveText, TopCond
<1>3. QED
  BY <1>1, <1>2 DEF IsCondActive, TopCond
=============================================================================
