--------------------------- MODULE Driver_proofs ---------------------------
(***************************************************************************)
(* Proofs about Driver, for any number of jobs, any names and any amount   *)
(* of text: jobs whose files are pairwise different deliver their own      *)
(* translations and remove their temporary files.                          *)
(***************************************************************************)
EXTENDS Driver, SequenceTheorems, TLAPS

\* The conjuncts of JobInv that are about one job.
Local(j) == Unopened(j) /\ OwnText(j) /\ Complete(j) /\ OwnMade(j)

\* A piece written behind the last one makes the text one piece longer.
LEMMA WriteAtEnd ==
  ASSUME NEW j \in Job, NEW n \in Nat
  PROVE  WriteAt([k \in 1..n |-> Piece(j, k)], n + 1, Piece(j, n + 1))
           = [k \in 1..n + 1 |-> Piece(j, k)]
<1> DEFINE text == [k \in 1..n |-> Piece(j, k)]
<1>1. Len(text) = n /\ \A k \in 1..n : text[k] = Piece(j, k)
  <2>1. text \in Seq({Piece(j, k) : k \in 1..n})
    OBVIOUS
  <2>2. QED
    BY <2>1
<1>2. \A k \in 1..n + 1 : k = n + 1 \/ k <= n
  OBVIOUS
<1> HIDE DEF text
<1>3. QED
  BY <1>1, <1>2 DEF WriteAt, text

\* What a flush leaves in a file is a text.
LEMMA WriteAtType ==
  ASSUME NEW text \in Text, NEW k \in Nat \ {0}, NEW x \in (Job \cup {"hole"}) \X Nat
  PROVE  WriteAt(text, k, x) \in Text
<1> DEFINE n == IF k > Len(text) THEN k ELSE Len(text)
           e(i) == IF i = k THEN x ELSE IF i <= Len(text) THEN text[i] ELSE Hole
<1>1. n \in Nat
  BY DEF Text
<1>2. \A i \in 1..n : e(i) \in (Job \cup {"hole"}) \X Nat
  BY DEF Text, Hole
<1>3. [i \in 1..n |-> e(i)] \in Seq((Job \cup {"hole"}) \X Nat)
  BY <1>1, <1>2
<1>4. QED
  BY <1>3 DEF WriteAt, Text

-----------------------------------------------------------------------------
(***************************************************************************)
(* JobInv is inductive.                                                    *)
(***************************************************************************)
LEMMA InitJobInv == Init => JobInv
<1> SUFFICES ASSUME Init PROVE JobInv
  OBVIOUS
<1>1. TypeOK
  BY PieceAssumption DEF Init, TypeOK, Place, Text
<1>2. DOMAIN dir = {}
  BY DEF Init
<1>3. \A j \in Job : Unopened(j) /\ OwnText(j) /\ Complete(j) /\ OwnMade(j)
  BY <1>2 DEF Init, Unopened, OwnText, Complete, OwnMade, Exists, Opened, Closed
<1>4. StreamsApart /\ TempGone
  BY <1>2 DEF Init, StreamsApart, TempGone, At, Opened
<1>5. QED
  BY <1>1, <1>3, <1>4 DEF JobInv

\* Steps that touch no file: they change the place of one job, and its status.
LEMMA QuietStep ==
  ASSUME JobInv, NEW j \in Job, SameFiles,
         NEW place \in Place, Goto(j, place),
         status' = status \/ \E s \in {"0", "1"} : status' = [status EXCEPT ![j] = s],
         place \in Opened => pc[j] \in Opened,
         place \in {"front", "open"} => pc[j] \in {"front", "open"},
         place \in Closed => emitted[j] = Pieces /\ NeedCleanup(j),
         place = "cleanup" => status'[j] # "0",
         place = "exit" /\ NeedCleanup(j) => emitted[j] # Pieces
  PROVE  JobInv'
<1>1. TypeOK'
  BY DEF JobInv, TypeOK, SameFiles, Goto
<1>2. \A i \in Job : pc'[i] = (IF i = j THEN place ELSE pc[i])
  BY DEF JobInv, TypeOK, Goto
<1>3. \A i \in Job : i # j => status'[i] = status[i]
  BY DEF JobInv, TypeOK
<1>4. UNCHANGED <<stream, emitted, offset, dir, disk>>
  BY DEF SameFiles
<1>5. ASSUME NEW i \in Job PROVE Local(i)'
  <2>1. Unopened(i) /\ OwnText(i) /\ Complete(i) /\ OwnMade(i)
    BY DEF JobInv
  <2>2. Unopened(i)'
    BY <1>2, <1>4, <2>1 DEF Unopened, Exists
  <2>3. OwnText(i)'
    BY <1>2, <1>4, <2>1 DEF OwnText, Exists, Flushed
  <2>4. Complete(i)'
    BY <1>2, <1>4, <2>1 DEF Complete, NeedCleanup
  <2>5. OwnMade(i)'
    <3>1. \A k \in Job : pc'[k] \in Opened => pc[k] \in Opened
      BY <1>2
    <3>2. QED
      BY <1>2, <1>3, <1>4, <2>1, <3>1 DEF OwnMade, Flushed, Exists, Content
  <2>6. QED
    BY <2>2, <2>3, <2>4, <2>5 DEF Local
<1>6. StreamsApart'
  BY <1>2, <1>4 DEF JobInv, StreamsApart
<1>7. TempGone'
  BY <1>2, <1>4 DEF JobInv, TempGone, At, Exists, NeedCleanup
<1>8. QED
  BY <1>1, <1>5, <1>6, <1>7 DEF JobInv, Local

\* fopen: the path is new, for no other job has it, and so is the inode.
LEMMA OpenStep ==
  ASSUME FilesApart, JobInv, NEW j \in Job, Open(j)
  PROVE  JobInv'
<1>1. /\ TypeOK /\ pc[j] = "open"
      /\ ~Exists(AsmFile(j)) /\ emitted[j] = 0 /\ offset[j] = 0
  BY DEF JobInv, TypeOK, Open, At, Unopened
<1> DEFINE new == Len(disk) + 1
<1>2. /\ disk' = Append(disk, << >>) /\ Len(disk') = new
      /\ dir' = With(dir, AsmFile(j), Len(disk'))
      /\ stream' = [stream EXCEPT ![j] = Len(disk')]
  BY <1>1 DEF Open, TypeOK
<1>3. /\ << >> \in Text /\ disk' \in Seq(Text) /\ new \in Nat
      /\ disk'[new] = << >> /\ \A i \in 1..Len(disk) : disk'[i] = disk[i]
  BY <1>1, <1>2 DEF TypeOK, Text
<1>4. \A i \in Job : pc'[i] = (IF i = j THEN "generate" ELSE pc[i])
  BY <1>1 DEF Open, Goto, TypeOK
<1>5. /\ \A i \in Job : stream'[i] = (IF i = j THEN new ELSE stream[i])
      /\ AsmFile(j) \in DOMAIN dir' /\ dir'[AsmFile(j)] = new
  BY <1>1, <1>2 DEF TypeOK, With
<1>5a. ASSUME NEW i \in Job, i # j
       PROVE  /\ AsmFile(i) \in DOMAIN dir' <=> AsmFile(i) \in DOMAIN dir
              /\ AsmFile(i) \in DOMAIN dir => dir'[AsmFile(i)] = dir[AsmFile(i)]
  <2>1. AsmFile(i) # AsmFile(j)
    BY <1>5a DEF FilesApart
  <2>2. QED
    BY <1>2, <2>1 DEF With
<1>6. UNCHANGED <<status, emitted, offset>>
  BY DEF Open
<1>7. TypeOK'
  BY <1>1, <1>2, <1>3, <1>6 DEF TypeOK, Open, Goto, Place
<1>8. ASSUME NEW i \in Job PROVE Local(i)'
  <2>1. Unopened(i) /\ OwnText(i) /\ Complete(i) /\ OwnMade(i)
    BY DEF JobInv
  <2>2. i # j => /\ AsmFile(i) \in DOMAIN dir' <=> AsmFile(i) \in DOMAIN dir
                 /\ AsmFile(i) \in DOMAIN dir => dir'[AsmFile(i)] = dir[AsmFile(i)]
    BY <1>5a
  <2>3. Unopened(i)'
    BY <1>4, <1>6, <2>1, <2>2 DEF Unopened, Exists
  <2>4. OwnText(i)'
    <3>1. CASE i = j
      <4>1. disk'[stream'[j]] = [k \in 1..emitted'[j] |-> Piece(j, k)]
        BY <1>1, <1>3, <1>5, <1>6
      <4>2. QED
        BY <1>1, <1>2, <1>3, <1>5, <1>6, <3>1, <4>1 DEF OwnText, Exists
    <3>2. CASE i # j
      <4>1. pc[i] \in Opened => disk'[stream[i]] = disk[stream[i]] /\ stream[i] \in 1..new
        BY <1>3, <2>1, Len(disk) \in Nat DEF OwnText
      <4>2. QED
        BY <1>2, <1>4, <1>5, <1>6, <2>1, <2>2, <3>2, <4>1
           DEF OwnText, Exists, Flushed
    <3>3. QED
      BY <3>1, <3>2
  <2>5. Complete(i)'
    BY <1>4, <1>6, <2>1 DEF Complete, Closed, NeedCleanup
  <2>6. OwnMade(i)'
    <3> SUFFICES ASSUME pc[i] = "cleanup", status[i] = "0", Flushed(i)
                 PROVE  OwnMade(i)'
      BY <1>4, <1>6 DEF OwnMade, Flushed
    <3> DEFINE path == OutFile(i)
    <3>1. /\ path \in DOMAIN dir /\ dir[path] \in 1..Len(disk)
          /\ disk[dir[path]] = Assembly(i)
          /\ \A k \in Job : pc[k] \in Opened => stream[k] # dir[path]
      BY <2>1 DEF OwnMade, Exists, Content
    <3>2. path # AsmFile(j)
      BY <2>1 DEF FilesApart, Complete, Closed
    <3>3. path \in DOMAIN dir' /\ dir'[path] = dir[path]
      BY <1>2, <3>1, <3>2 DEF With
    <3>4. /\ dir[path] \in 1..Len(disk') /\ dir[path] # new
          /\ disk'[dir[path]] = Assembly(i)
      BY <1>1, <1>2, <1>3, <3>1 DEF TypeOK
    <3>5. \A k \in Job : pc'[k] \in Opened => stream'[k] # dir[path]
      BY <1>4, <1>5, <3>1, <3>4
    <3>6. QED
      BY <3>3, <3>4, <3>5 DEF OwnMade, Exists, Content
  <2>7. QED
    BY <2>3, <2>4, <2>5, <2>6 DEF Local
<1>9. StreamsApart'
  <2>1. \A i \in Job : pc[i] \in Opened => stream[i] # new
    <3>1. \A i \in Job : pc[i] \in Opened => stream[i] \in 1..Len(disk)
      BY DEF JobInv, OwnText
    <3>2. Len(disk) \in Nat
      BY <1>1 DEF TypeOK
    <3>3. QED
      BY <3>1, <3>2
  <2>2. QED
    BY <1>4, <1>5, <2>1 DEF JobInv, StreamsApart
<1>10. TempGone'
  <2> SUFFICES ASSUME NEW i \in Job, pc'[i] = "exit", NeedCleanup(i),
                      emitted'[i] = Pieces
               PROVE  AsmFile(i) \notin DOMAIN dir'
    BY DEF TempGone, At, Exists, NeedCleanup
  <2>1. i # j /\ pc[i] = "exit" /\ emitted[i] = Pieces
    BY <1>4, <1>6
  <2>2. AsmFile(i) \notin DOMAIN dir
    BY <2>1 DEF JobInv, TempGone, At, Exists
  <2>3. QED
    BY <1>5a, <2>1, <2>2
<1>11. QED
  BY <1>7, <1>8, <1>9, <1>10 DEF JobInv, Local

\* A flush goes to the inode of job j alone, behind what is there.
LEMMA EmitStep ==
  ASSUME JobInv, NEW j \in Job, Emit(j)
  PROVE  JobInv'
<1> DEFINE n == emitted[j] + 1
           k == offset[j] + 1
           x == Piece(j, n)
<1>1. /\ TypeOK /\ OwnText(j) /\ pc[j] = "generate" /\ pc[j] \in Opened
      /\ stream[j] \in 1..Len(disk) /\ offset[j] <= emitted[j]
      /\ n \in 1..Pieces /\ k \in Nat \ {0}
  <2>1. TypeOK /\ OwnText(j) /\ pc[j] = "generate" /\ emitted[j] < Pieces
    BY DEF JobInv, Emit, At
  <2>2. n \in 1..Pieces /\ k \in Nat \ {0}
    BY <2>1, PieceAssumption DEF TypeOK
  <2>3. QED
    BY <2>1, <2>2 DEF OwnText, Opened
<1>2. /\ emitted' = [emitted EXCEPT ![j] = n]
      /\ \/ /\ disk' = [disk EXCEPT ![stream[j]] = WriteAt(@, k, x)]
            /\ offset' = [offset EXCEPT ![j] = k]
         \/ UNCHANGED <<offset, disk>>
  BY <1>1 DEF Emit, TypeOK
<1>3. UNCHANGED <<pc, status, stream, dir>>
  BY DEF Emit
<1>4. disk[stream[j]] \in Text /\ x \in (Job \cup {"hole"}) \X Nat
  BY <1>1 DEF TypeOK, Piece
<1>5. WriteAt(disk[stream[j]], k, x) \in Text
  BY <1>1, <1>4, WriteAtType
<1>6. /\ disk' \in Seq(Text) /\ Len(disk') = Len(disk)
      /\ \A i \in 1..Len(disk) : i # stream[j] => disk'[i] = disk[i]
  <2> DEFINE text == WriteAt(disk[stream[j]], k, x)
  <2>1. /\ [disk EXCEPT ![stream[j]] = text] \in Seq(Text)
        /\ Len([disk EXCEPT ![stream[j]] = text]) = Len(disk)
        /\ \A i \in 1..Len(disk) : i # stream[j] =>
             [disk EXCEPT ![stream[j]] = text][i] = disk[i]
    BY <1>1, <1>5, ExceptSeq DEF TypeOK
  <2>2. disk' = [disk EXCEPT ![stream[j]] = text] \/ disk' = disk
    BY <1>2
  <2> HIDE DEF text
  <2>3. QED
    BY <1>1, <2>1, <2>2 DEF TypeOK
<1>7. TypeOK'
  <2> HIDE DEF n, k, x
  <2>1. n \in 0..Pieces /\ k \in Nat
    BY <1>1
  <2>2. emitted' \in [Job -> 0..Pieces]
    BY <1>1, <1>2, <2>1 DEF TypeOK
  <2>3. offset' \in [Job -> Nat]
    BY <1>1, <1>2, <2>1 DEF TypeOK
  <2>4. QED
    BY <1>1, <1>3, <1>6, <2>2, <2>3 DEF TypeOK
<1>8. OwnText(j)'
  <2>1. offset'[j] <= emitted'[j]
    BY <1>1, <1>2 DEF TypeOK
  <2>2. ASSUME Flushed(j)' PROVE disk'[stream[j]] = [l \in 1..n |-> Piece(j, l)]
    <3>1. offset[j] = emitted[j] /\ disk'[stream[j]] = WriteAt(disk[stream[j]], k, x)
      BY <1>1, <1>2, <2>2 DEF TypeOK, Flushed
    <3>2. disk[stream[j]] = [l \in 1..emitted[j] |-> Piece(j, l)]
      BY <1>1, <3>1 DEF OwnText, Flushed
    <3>3. QED
      BY <1>1, <3>1, <3>2, WriteAtEnd DEF TypeOK
  <2>3. emitted'[j] = n
    BY <1>1, <1>2 DEF TypeOK
  <2>4. QED
    BY <1>1, <1>3, <1>6, <2>1, <2>2, <2>3 DEF OwnText, Exists
<1>9. ASSUME NEW i \in Job PROVE Local(i)'
  <2>1. Unopened(i) /\ OwnText(i) /\ Complete(i) /\ OwnMade(i)
    BY DEF JobInv
  <2>2. i # j => emitted'[i] = emitted[i] /\ offset'[i] = offset[i]
    BY <1>1, <1>2 DEF TypeOK
  <2>3. Unopened(i)'
    BY <1>1, <1>3, <2>1, <2>2 DEF Unopened, Exists
  <2>4. OwnText(i)'
    <3>1. i # j /\ pc[i] \in Opened => disk'[stream[i]] = disk[stream[i]]
      BY <1>1, <1>6, <2>1 DEF JobInv, StreamsApart, OwnText
    <3>2. QED
      BY <1>3, <1>6, <1>8, <2>1, <2>2, <3>1 DEF OwnText, Exists, Flushed
  <2>5. Complete(i)'
    BY <1>1, <1>3, <2>1, <2>2 DEF Complete, Closed, NeedCleanup
  <2>6. OwnMade(i)'
    <3> SUFFICES ASSUME pc[i] = "cleanup", status[i] = "0", Flushed(i)'
                 PROVE  OwnMade(i)'
      BY <1>3 DEF OwnMade
    <3>1. i # j /\ Flushed(i)
      BY <1>1, <2>2 DEF Flushed
    <3>2. /\ Exists(OutFile(i)) /\ dir[OutFile(i)] \in 1..Len(disk)
          /\ disk[dir[OutFile(i)]] = Assembly(i)
          /\ \A l \in Job : pc[l] \in Opened => stream[l] # dir[OutFile(i)]
      BY <2>1, <3>1 DEF OwnMade, Content
    <3>3. disk'[dir[OutFile(i)]] = Assembly(i)
      BY <1>1, <1>6, <3>2
    <3>4. QED
      BY <1>3, <1>6, <3>2, <3>3 DEF OwnMade, Exists, Content
  <2>7. QED
    BY <2>3, <2>4, <2>5, <2>6 DEF Local
<1>10. StreamsApart'
  BY <1>3 DEF JobInv, StreamsApart
<1>11. TempGone'
  <2>1. \A i \in Job : i # j => emitted'[i] = emitted[i]
    BY <1>1, <1>2 DEF TypeOK
  <2>2. QED
    BY <1>1, <1>3, <2>1 DEF JobInv, TempGone, At, Exists, NeedCleanup
<1>12. QED
  BY <1>7, <1>9, <1>10, <1>11 DEF JobInv, Local

\* clang reads the text of job j, for the path still leads to it, and its output
\* is a new inode under a path that is nobody else's.
LEMMA ClangSucceedsStep ==
  ASSUME FilesApart, JobInv, NEW j \in Job, ClangSucceeds(j)
  PROVE  JobInv'
<1>1. /\ TypeOK /\ pc[j] \in Closed /\ pc[j] \in Opened /\ pc[j] # "cleanup"
      /\ OwnText(j) /\ Complete(j) /\ emitted[j] = Pieces /\ NeedCleanup(j)
  BY DEF JobInv, ClangSucceeds, Opened, Closed, Complete
<1> DEFINE new == Len(disk) + 1
<1>2. /\ disk' = Append(disk, disk[stream[j]]) /\ Len(disk') = new /\ new \in Nat
      /\ disk' \in Seq(Text) /\ disk'[new] = disk[stream[j]]
      /\ \A i \in 1..Len(disk) : disk'[i] = disk[i]
      /\ dir' = With(dir, OutFile(j), new)
      /\ UNCHANGED <<stream, emitted, offset>>
  <2>1. /\ disk' = Append(disk, disk[stream[j]]) /\ dir' = With(dir, OutFile(j), Len(disk'))
        /\ UNCHANGED <<stream, emitted, offset>>
    BY <1>1 DEF ClangSucceeds, OwnText, Content
  <2>2. disk[stream[j]] \in Text /\ disk \in Seq(Text)
    BY <1>1 DEF TypeOK, OwnText
  <2>3. QED
    BY <2>1, <2>2
<1>3. /\ \A i \in Job : pc'[i] = (IF i = j THEN "cleanup" ELSE pc[i])
      /\ \A i \in Job : i # j => status'[i] = status[i]
  BY <1>1 DEF ClangSucceeds, Goto, TypeOK
<1>4. TypeOK'
  BY <1>1, <1>2 DEF TypeOK, ClangSucceeds, Goto, Place
<1>5. OutFile(j) \in DOMAIN dir' /\ dir'[OutFile(j)] = new
  BY <1>2 DEF With
<1>6. ASSUME NEW i \in Job
      PROVE  /\ AsmFile(i) \in DOMAIN dir' <=> AsmFile(i) \in DOMAIN dir
             /\ AsmFile(i) \in DOMAIN dir => dir'[AsmFile(i)] = dir[AsmFile(i)]
  <2>1. AsmFile(i) # OutFile(j)
    BY <1>1 DEF FilesApart
  <2>2. QED
    BY <1>2, <2>1 DEF With
<1>7. \A i \in Job : pc[i] \in Opened => stream[i] \in 1..Len(disk)
  BY DEF JobInv, OwnText
<1>8. OwnMade(j)'
  <2>1. Flushed(j) => disk[stream[j]] = Assembly(j)
    BY <1>1 DEF OwnText, Assembly
  <2>2. \A i \in Job : pc'[i] \in Opened => stream[i] # new
    <3>1. \A i \in Job : pc'[i] \in Opened => pc[i] \in Opened
      BY <1>1, <1>3
    <3>2. Len(disk) \in Nat
      BY <1>1 DEF TypeOK
    <3>3. QED
      BY <1>7, <3>1, <3>2
  <2>3. new \in 1..Len(disk')
    BY <1>1, <1>2 DEF TypeOK
  <2>4. QED
    BY <1>2, <1>5, <2>1, <2>2, <2>3 DEF OwnMade, Flushed, Exists, Content
<1>9. ASSUME NEW i \in Job PROVE Local(i)'
  <2>1. Unopened(i) /\ OwnText(i) /\ Complete(i) /\ OwnMade(i)
    BY DEF JobInv
  <2>2. Unopened(i)'
    BY <1>1, <1>2, <1>3, <1>6, <2>1 DEF Unopened, Exists
  <2>3. OwnText(i)'
    <3>1. pc'[i] \in Opened => pc[i] \in Opened
      BY <1>1, <1>3
    <3>2. pc[i] \in Opened => /\ stream[i] \in 1..Len(disk')
                              /\ disk'[stream[i]] = disk[stream[i]]
      BY <1>1, <1>2, <1>7 DEF TypeOK
    <3>3. QED
      BY <1>2, <1>6, <2>1, <3>1, <3>2 DEF OwnText, Exists, Flushed
  <2>4. Complete(i)'
    BY <1>1, <1>2, <1>3, <2>1 DEF Complete, NeedCleanup
  <2>5. OwnMade(i)'
    <3>1. CASE i = j
      BY <1>8, <3>1
    <3>2. CASE i # j /\ pc[i] = "cleanup" /\ status[i] = "0" /\ Flushed(i)
      <4>1. OutFile(i) # OutFile(j)
        BY <1>1, <2>1, <3>2 DEF FilesApart, Complete, Closed
      <4>2. /\ OutFile(i) \in DOMAIN dir /\ dir[OutFile(i)] \in 1..Len(disk)
            /\ disk[dir[OutFile(i)]] = Assembly(i)
            /\ \A l \in Job : pc[l] \in Opened => stream[l] # dir[OutFile(i)]
        BY <2>1, <3>2 DEF OwnMade, Exists, Content
      <4>3. OutFile(i) \in DOMAIN dir' /\ dir'[OutFile(i)] = dir[OutFile(i)]
        BY <1>2, <4>1, <4>2 DEF With
      <4>4. /\ dir[OutFile(i)] \in 1..Len(disk')
            /\ disk'[dir[OutFile(i)]] = Assembly(i)
        BY <1>1, <1>2, <4>2 DEF TypeOK
      <4>5. \A l \in Job : pc'[l] \in Opened => stream'[l] # dir[OutFile(i)]
        BY <1>1, <1>2, <1>3, <4>2
      <4>6. QED
        BY <4>3, <4>4, <4>5 DEF OwnMade, Exists, Content
    <3>3. CASE i # j /\ ~(pc[i] = "cleanup" /\ status[i] = "0" /\ Flushed(i))
      BY <1>2, <1>3, <3>3 DEF OwnMade, Flushed
    <3>4. QED
      BY <3>1, <3>2, <3>3
  <2>6. QED
    BY <2>2, <2>3, <2>4, <2>5 DEF Local
<1>10. StreamsApart'
  BY <1>1, <1>2, <1>3 DEF JobInv, StreamsApart
<1>11. TempGone'
  BY <1>2, <1>3, <1>6 DEF JobInv, TempGone, At, Exists, NeedCleanup
<1>12. QED
  BY <1>4, <1>9, <1>10, <1>11 DEF JobInv, Local

\* remove takes away the path of job j, which no other job has.
LEMMA CleanupStep ==
  ASSUME FilesApart, JobInv, NEW j \in Job, Cleanup(j)
  PROVE  JobInv'
<1>1. TypeOK /\ pc[j] = "cleanup" /\ NeedCleanup(j)
  BY DEF JobInv, Cleanup, At, Complete, Closed
<1>2. /\ dir' = Without(dir, AsmFile(j))
      /\ UNCHANGED <<status, stream, emitted, offset, disk>>
  BY <1>1 DEF Cleanup
<1>3. \A i \in Job : pc'[i] = (IF i = j THEN "exit" ELSE pc[i])
  BY <1>1 DEF Cleanup, Goto, TypeOK
<1>4. TypeOK'
  BY <1>1, <1>2 DEF TypeOK, Cleanup, Goto, Place
<1>5. ASSUME NEW i \in Job, i # j
      PROVE  /\ AsmFile(i) \in DOMAIN dir' <=> AsmFile(i) \in DOMAIN dir
             /\ AsmFile(i) \in DOMAIN dir => dir'[AsmFile(i)] = dir[AsmFile(i)]
  <2>1. AsmFile(i) # AsmFile(j)
    BY <1>5 DEF FilesApart
  <2>2. QED
    BY <1>2, <2>1 DEF Without
<1>6. ASSUME NEW i \in Job PROVE Local(i)'
  <2>1. Unopened(i) /\ OwnText(i) /\ Complete(i) /\ OwnMade(i)
    BY DEF JobInv
  <2>2. Unopened(i)'
    BY <1>2, <1>3, <1>5, <2>1 DEF Unopened, Exists
  <2>3. OwnText(i)'
    <3>1. pc'[i] \in Opened => i # j /\ pc[i] \in Opened
      BY <1>3 DEF Opened
    <3>2. QED
      BY <1>2, <1>5, <2>1, <3>1 DEF OwnText, Exists, Flushed
  <2>4. Complete(i)'
    BY <1>2, <1>3, <2>1 DEF Complete, Closed, NeedCleanup
  <2>5. OwnMade(i)'
    <3> SUFFICES ASSUME i # j, pc[i] = "cleanup", status[i] = "0", Flushed(i)
                 PROVE  OwnMade(i)'
      BY <1>2, <1>3 DEF OwnMade, Flushed
    <3>1. OutFile(i) # AsmFile(j)
      BY <2>1 DEF FilesApart, Complete, Closed
    <3>2. OutFile(i) \in DOMAIN dir => OutFile(i) \in DOMAIN dir'
                                       /\ dir'[OutFile(i)] = dir[OutFile(i)]
      BY <1>2, <3>1 DEF Without
    <3>3. \A k \in Job : pc'[k] \in Opened => pc[k] \in Opened
      BY <1>3 DEF Opened
    <3>4. QED
      BY <1>2, <2>1, <3>2, <3>3 DEF OwnMade, Exists, Content
  <2>6. QED
    BY <2>2, <2>3, <2>4, <2>5 DEF Local
<1>7. StreamsApart'
  BY <1>2, <1>3 DEF JobInv, StreamsApart, Opened
<1>8. TempGone'
  <2> SUFFICES ASSUME NEW i \in Job, pc'[i] = "exit", NeedCleanup(i),
                      emitted'[i] = Pieces
               PROVE  AsmFile(i) \notin DOMAIN dir'
    BY DEF TempGone, At, Exists, NeedCleanup
  <2>1. CASE i = j
    BY <1>2, <2>1 DEF Without
  <2>2. CASE i # j
    <3>1. AsmFile(i) \notin DOMAIN dir
      BY <1>2, <1>3, <2>2 DEF JobInv, TempGone, At, Exists
    <3>2. QED
      BY <1>5, <2>2, <3>1
  <2>3. QED
    BY <2>1, <2>2
<1>9. QED
  BY <1>4, <1>6, <1>7, <1>8 DEF JobInv, Local

\* The other steps are quiet.
LEMMA StepJobInv ==
  ASSUME FilesApart, JobInv, NEW j \in Job, Step(j)
  PROVE  JobInv'
<1>1. /\ TypeOK /\ pc[j] \in Place /\ Complete(j)
      /\ pc[j] \in {"front", "open"} => emitted[j] # Pieces
  BY PieceAssumption DEF JobInv, TypeOK, Unopened
<1>2. CASE FrontEnd(j)
  <2>1. CASE Goto(j, "open") /\ UNCHANGED status
    BY <1>2, <2>1, QuietStep DEF FrontEnd, At, Place, Opened, Closed
  <2>2. CASE Exit(j, "1")
    BY <1>1, <1>2, <2>2, QuietStep DEF FrontEnd, Exit, At, Place, Opened, Closed
  <2>3. QED
    BY <1>2, <2>1, <2>2 DEF FrontEnd
<1>3. CASE OpenFails(j)
  BY <1>1, <1>3, QuietStep DEF OpenFails, Exit, At, Place, Opened, Closed
<1>4. CASE GenerateFails(j)
  <2>1. emitted[j] # Pieces
    BY <1>1, <1>4, PieceAssumption DEF TypeOK, GenerateFails
  <2>2. QED
    BY <1>1, <1>4, <2>1, QuietStep
       DEF GenerateFails, Exit, At, Place, Opened, Closed
<1>5. CASE Close(j)
  <2>1. CASE Mode[j] = "S"
    BY <1>1, <1>5, <2>1, QuietStep
       DEF Close, Exit, At, Place, Opened, Closed, NeedCleanup
  <2>2. CASE Mode[j] # "S"
    BY <1>1, <1>5, <2>2, QuietStep
       DEF Close, At, Place, Opened, Closed, NeedCleanup
  <2>3. QED
    BY <2>1, <2>2
<1>6. CASE ClangFails(j)
  <2>1. emitted[j] = Pieces /\ NeedCleanup(j) /\ pc[j] \in Opened
    BY <1>1, <1>6 DEF ClangFails, Complete, Opened, Closed
  <2>2. CASE Goto(j, "again") /\ UNCHANGED status
    BY <1>6, <2>1, <2>2, QuietStep DEF ClangFails, Place, Opened, Closed
  <2>3. CASE Goto(j, "cleanup") /\ status' = [status EXCEPT ![j] = "1"]
    <3>1. status'[j] # "0"
      BY <1>1, <2>3 DEF TypeOK
    <3>2. QED
      BY <1>6, <2>1, <2>3, <3>1, QuietStep DEF ClangFails, Place, Opened, Closed
  <2>4. QED
    BY <1>6, <2>2, <2>3 DEF ClangFails
<1>7. CASE Open(j)
  BY <1>7, OpenStep
<1>8. CASE Emit(j)
  BY <1>8, EmitStep
<1>9. CASE ClangSucceeds(j)
  BY <1>9, ClangSucceedsStep
<1>10. CASE Cleanup(j)
  BY <1>10, CleanupStep
<1>11. QED
  BY <1>2, <1>3, <1>4, <1>5, <1>6, <1>7, <1>8, <1>9, <1>10 DEF Step

LEMMA NextJobInv ==
  ASSUME FilesApart, JobInv, [Next]_vars
  PROVE  JobInv'
<1>1. CASE UNCHANGED vars
  BY <1>1 DEF vars, JobInv, TypeOK, StreamsApart, TempGone, Unopened, OwnText,
              Complete, OwnMade, At, Exists, Content, Flushed, NeedCleanup
<1>2. CASE \E j \in Job : Step(j)
  BY <1>2, StepJobInv
<1>3. QED
  BY <1>1, <1>2 DEF Next, Ended

\* Jobs whose files are pairwise different keep to their own paths, inodes
\* and outputs: JobInv holds in every reachable state of main's processes.
THEOREM FilesKept == ASSUME FilesApart PROVE Spec => []JobInv
<1>1. QED
  BY InitJobInv, NextJobInv, PTL DEF Spec

\* On every path of main after clang, the temporary file is removed.
THEOREM TempRemoved == ASSUME FilesApart PROVE Spec => []TempGone
<1>1. JobInv => TempGone
  BY DEF JobInv
<1>2. QED
  BY <1>1, FilesKept, PTL

\* A step to the end with status 0 is the close of -S or the clean-up.
LEMMA EndsOwn ==
  ASSUME FilesApart, JobInv, [Next]_vars, NEW j \in Job, ~At(j, "exit"), At(j, "exit")',
         status'[j] = "0", Flushed(j)
  PROVE  Delivered(j)' = Assembly(j)
<1>1. TypeOK /\ OwnText(j) /\ Complete(j) /\ OwnMade(j)
  BY DEF JobInv
<1>2. PICK i \in Job : Step(i)
  BY DEF Next, Ended, vars, At
<1>3. i = j
  BY <1>1, <1>2
     DEF Step, TypeOK, At, Goto, Exit, FrontEnd, OpenFails, Open, Emit,
         GenerateFails, Close, ClangSucceeds, ClangFails, Cleanup
<1>4. \/ Close(j) /\ Mode[j] = "S" /\ SameFiles
      \/ Cleanup(j) /\ UNCHANGED <<status, disk>>
  BY <1>1, <1>2, <1>3
     DEF Step, TypeOK, At, Goto, Exit, FrontEnd, OpenFails, Open, Emit,
         GenerateFails, Close, ClangSucceeds, ClangFails, Cleanup
<1>5. CASE Close(j) /\ Mode[j] = "S" /\ SameFiles
  <2>1. /\ Exists(AsmFile(j)) /\ dir[AsmFile(j)] = stream[j]
        /\ disk[stream[j]] = Assembly(j)
    BY <1>1, <1>5 DEF OwnText, Close, At, Opened, Assembly
  <2>2. Exists(AsmFile(j))' /\ Content(AsmFile(j))' = Assembly(j)
    BY <1>5, <2>1 DEF SameFiles, Exists, Content
  <2>3. QED
    BY <1>5, <2>2 DEF Delivered
<1>6. CASE Cleanup(j) /\ UNCHANGED <<status, disk>>
  <2>1. /\ pc[j] = "cleanup" /\ status[j] = "0" /\ NeedCleanup(j)
        /\ dir' = Without(dir, AsmFile(j))
    BY <1>1, <1>6 DEF Cleanup, At, Complete, Closed
  <2>2. OutFile(j) # AsmFile(j)
    BY <2>1 DEF FilesApart
  <2>3. Exists(OutFile(j)) /\ Content(OutFile(j)) = Assembly(j)
    BY <1>1, <2>1 DEF OwnMade
  <2>4. Exists(OutFile(j))' /\ Content(OutFile(j))' = Assembly(j)
    BY <1>6, <2>1, <2>2, <2>3 DEF Exists, Content, Without
  <2>5. QED
    BY <2>1, <2>4 DEF Delivered, NeedCleanup
<1>7. QED
  BY <1>4, <1>5, <1>6

\* Status 0 of a compiler whose files are its own, and whose writes succeeded,
\* means that its output is the whole of its own translation, whatever the
\* other compilers do and wherever they are.
THEOREM DeliversOwn == ASSUME FilesApart PROVE Spec => OwnOutput
<1>1. JobInv /\ [Next]_vars =>
        \A j \in Job :
          ~At(j, "exit") /\ At(j, "exit")' /\ status'[j] = "0" /\ Flushed(j)
            => Delivered(j)' = Assembly(j)
  BY EndsOwn
<1>2. QED
  BY <1>1, FilesKept, PTL DEF Spec, OwnOutput
=============================================================================
