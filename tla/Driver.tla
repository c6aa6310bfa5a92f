------------------------------- MODULE Driver -------------------------------
(***************************************************************************)
(* The compiler driver: main in src/src/main.c, for the modes that write   *)
(* assembly text.  Several compilers run at once, as under make -j; they   *)
(* share nothing but the file system.                                      *)
(*                                                                         *)
(* A path leads to an inode.  fopen(path, "w") empties the inode the path  *)
(* leads to or makes a new one; the stream writes to that inode wherever   *)
(* the path leads later; remove takes the path away; clang reads what the  *)
(* path leads to when it runs, and makes a new file under the name of its  *)
(* output.  The assembly text of a job is Pieces pieces, one for each      *)
(* flush of its stream, which writes at the offset of the stream; an       *)
(* output of clang is the pieces it was made from.                         *)
(*                                                                         *)
(* Abstracted: the text itself; the front end, which either succeeds or    *)
(* exits; clang, which fails or writes its output in one step.  Inputs are *)
(* in the current directory.                                               *)
(***************************************************************************)
EXTENDS Naturals, Sequences, SequencesExt

CONSTANTS
  Job,          \* the compiler processes
  Mode,         \* Mode[j]: "S" for -S, "c" for -c, "exe" for neither
  Input,        \* Input[j]: its input file
  Output,       \* Output[j]: the argument of -o, or None
  Retrying,     \* the jobs of a compiler that links a second time (not RV32I)
  Pieces        \* pieces of assembly text

\* A file name is the sequence of its parts between dots.
None == << >>

ASSUME JobAssumption ==
  /\ Mode \in [Job -> {"S", "c", "exe"}] /\ Retrying \subseteq Job
  /\ Input \in [Job -> Seq(STRING) \ {None}]
  /\ Output \in [Job -> Seq(STRING)]
ASSUME PieceAssumption == Pieces \in Nat \ {0}

VARIABLES
  pc,       \* pc[j]: the place of job j in main
  status,   \* status[j]: its exit status, or that it is going to have
  stream,   \* stream[j]: the inode asm_out writes to
  emitted,  \* emitted[j]: how many pieces the code generator made
  offset,   \* offset[j]: how many of them asm_out wrote, its file offset
  dir,      \* the inodes by their paths
  disk      \* disk[i]: the pieces in inode i

vars == <<pc, status, stream, emitted, offset, dir, disk>>

-----------------------------------------------------------------------------
(***************************************************************************)
(* The names of the files.                                                 *)
(***************************************************************************)
ReplaceExtension(name, ext) ==
  (IF Len(name) > 1 THEN Front(name) ELSE name) \o ext

\* Mutant: the temporary file is named like the output of -S.
AsmFileShared(j) ==
  IF Mode[j] = "S" /\ Output[j] # None THEN Output[j]
  ELSE ReplaceExtension(Input[j], <<"s">>)

AsmFile(j) == IF Mode[j] # "S" THEN ReplaceExtension(Input[j], <<"tmp", "s">>)
              ELSE IF Output[j] # None THEN Output[j]
              ELSE ReplaceExtension(Input[j], <<"s">>)

NeedCleanup(j) == Mode[j] # "S"

OutFile(j) == IF Output[j] # None THEN Output[j]
              ELSE IF Mode[j] = "c" THEN ReplaceExtension(Input[j], <<"o">>)
              ELSE <<"a", "out">>

-----------------------------------------------------------------------------
(***************************************************************************)
(* The file system.                                                        *)
(***************************************************************************)
Piece(j, k) == <<j, k>>
Hole        == <<"hole", 0>>
Assembly(j) == [k \in 1..Pieces |-> Piece(j, k)]

Exists(path) == path \in DOMAIN dir
Content(path) == disk[dir[path]]

\* pieces with x written at place k.
WriteAt(pieces, k, x) ==
  [i \in 1..(IF k > Len(pieces) THEN k ELSE Len(pieces)) |->
     IF i = k THEN x ELSE IF i <= Len(pieces) THEN pieces[i] ELSE Hole]

Without(f, x) == [y \in DOMAIN f \ {x} |-> f[y]]
With(f, x, v) == [y \in DOMAIN f \cup {x} |-> IF y = x THEN v ELSE f[y]]

-----------------------------------------------------------------------------
Init == /\ pc = [j \in Job |-> "front"]
        /\ status = [j \in Job |-> "none"]
        /\ stream = [j \in Job |-> 0]
        /\ offset = [j \in Job |-> 0]
        /\ emitted = [j \in Job |-> 0]
        /\ dir = << >> /\ disk = << >>

At(j, place) == pc[j] = place
Goto(j, place) == pc' = [pc EXCEPT ![j] = place]
Exit(j, s) == Goto(j, "exit") /\ status' = [status EXCEPT ![j] = s]
SameFiles == UNCHANGED <<stream, emitted, offset, dir, disk>>

\* cpp_process and parser_parse succeed, or an error exits.
FrontEnd(j) ==
  /\ At(j, "front")
  /\ \/ Goto(j, "open") /\ UNCHANGED status
     \/ Exit(j, "1")
  /\ SameFiles

OpenFails(j) == At(j, "open") /\ Exit(j, "1") /\ SameFiles

Open(j) ==
  LET path == AsmFile(j) IN
  /\ At(j, "open")
  /\ IF Exists(path)
     THEN /\ disk' = [disk EXCEPT ![dir[path]] = << >>]
          /\ stream' = [stream EXCEPT ![j] = dir[path]]
          /\ UNCHANGED dir
     ELSE /\ disk' = Append(disk, << >>)
          /\ dir' = With(dir, path, Len(disk'))
          /\ stream' = [stream EXCEPT ![j] = Len(disk')]
  /\ Goto(j, "generate")
  /\ UNCHANGED <<status, emitted, offset>>

\* A flush.  On a full disk it fails, its text is lost, and nobody looks.
Emit(j) ==
  LET k == offset[j] + 1 IN
  /\ At(j, "generate") /\ emitted[j] < Pieces
  /\ emitted' = [emitted EXCEPT ![j] = @ + 1]
  /\ \/ /\ disk' = [disk EXCEPT
                      ![stream[j]] = WriteAt(@, k, Piece(j, emitted'[j]))]
        /\ offset' = [offset EXCEPT ![j] = k]
     \/ UNCHANGED <<offset, disk>>
  /\ UNCHANGED <<pc, status, stream, dir>>

\* c90_error in the code generator: the process ends where it is.
GenerateFails(j) ==
  At(j, "generate") /\ emitted[j] < Pieces /\ Exit(j, "1") /\ SameFiles

\* Mutant: the stream is closed when clang has come and gone.
CloseUnflushed(j) ==
  /\ At(j, "generate") /\ emitted[j] = Pieces - 1
  /\ IF Mode[j] = "S" THEN Exit(j, "0")
     ELSE Goto(j, "clang") /\ UNCHANGED status
  /\ SameFiles

\* fclose; -S is done.
Close(j) ==
  /\ At(j, "generate") /\ emitted[j] = Pieces
  /\ IF Mode[j] = "S" THEN Exit(j, "0")
     ELSE Goto(j, "clang") /\ UNCHANGED status
  /\ SameFiles

\* system(cmd) yields 0: clang made its output from what it found.
ClangSucceeds(j) ==
  /\ pc[j] \in {"clang", "again"} /\ Exists(AsmFile(j))
  /\ disk' = Append(disk, Content(AsmFile(j)))
  /\ dir' = With(dir, OutFile(j), Len(disk'))
  /\ Goto(j, "cleanup") /\ status' = [status EXCEPT ![j] = "0"]
  /\ UNCHANGED <<stream, emitted, offset>>

\* Mutant: the driver goes on until the second attempt succeeds.
ClangFailsForEver(j) ==
  /\ pc[j] \in {"clang", "again"}
  /\ IF Mode[j] = "exe" /\ j \in Retrying
     THEN Goto(j, IF pc[j] = "clang" THEN "again" ELSE "clang")
          /\ UNCHANGED status
     ELSE Goto(j, "cleanup") /\ status' = [status EXCEPT ![j] = "1"]
  /\ SameFiles

\* Mutant: the error path of the second attempt forgets the temporary file.
ClangFailsDirty(j) ==
  /\ pc[j] \in {"clang", "again"}
  /\ IF Mode[j] = "exe" /\ At(j, "clang") /\ j \in Retrying
     THEN Goto(j, "again") /\ UNCHANGED status
     ELSE Exit(j, "1")
  /\ SameFiles

\* It does not: linking is tried once more, without -no-pie.
ClangFails(j) ==
  /\ pc[j] \in {"clang", "again"}
  /\ IF Mode[j] = "exe" /\ At(j, "clang") /\ j \in Retrying
     THEN Goto(j, "again") /\ UNCHANGED status
     ELSE Goto(j, "cleanup") /\ status' = [status EXCEPT ![j] = "1"]
  /\ SameFiles

\* remove(asm_file), and the return from main.
Cleanup(j) ==
  /\ At(j, "cleanup")
  /\ dir' = IF NeedCleanup(j) THEN Without(dir, AsmFile(j)) ELSE dir
  /\ Goto(j, "exit")
  /\ UNCHANGED <<status, stream, emitted, offset, disk>>

Step(j) == \/ FrontEnd(j) \/ OpenFails(j) \/ Open(j)
           \/ Emit(j) \/ GenerateFails(j) \/ Close(j)
           \/ ClangSucceeds(j) \/ ClangFails(j) \/ Cleanup(j)

Ended == (\A j \in Job : At(j, "exit")) /\ UNCHANGED vars

Next == (\E j \in Job : Step(j)) \/ Ended

Spec     == Init /\ [][Next]_vars
FairSpec == Spec /\ \A j \in Job : WF_vars(Step(j))

-----------------------------------------------------------------------------
(***************************************************************************)
(* Properties.                                                             *)
(***************************************************************************)
\* What job j delivers to the user.
Delivered(j) ==
  LET path == IF Mode[j] = "S" THEN AsmFile(j) ELSE OutFile(j)
  IN IF Exists(path) THEN Content(path) ELSE << >>

\* No write of job j failed.
Flushed(j) == offset[j] = emitted[j]

\* A job that ends with status 0, and none of whose writes failed, leaves as
\* it ends the whole of its own translation in its output, whatever the other
\* jobs do.
OwnOutput ==
  [][\A j \in Job :
       ~At(j, "exit") /\ At(j, "exit")' /\ status'[j] = "0" /\ Flushed(j)
         => Delivered(j)' = Assembly(j)]_vars

\* Once a job came as far as clang, its temporary file is gone when it ends,
\* on every path.  (After an error in the code generator it stays.)
TempGone ==
  \A j \in Job : /\ At(j, "exit") /\ NeedCleanup(j) /\ emitted[j] = Pieces
                 => ~Exists(AsmFile(j))

\* Every compiler ends, whatever fails.
Terminates == <>(\A j \in Job : At(j, "exit"))

-----------------------------------------------------------------------------
(***************************************************************************)
(* Why OwnOutput and TempGone hold for jobs whose files are their own.     *)
(***************************************************************************)
\* No two jobs write to one assembly file, no two have clang make one output,
\* and no output of clang is an assembly file: not that of another job, and not
\* that of its own (ccia -c -o x.tmp.s x.c removes its output and exits with 0).
FilesApart ==
  \A i, j \in Job :
    /\ i # j => AsmFile(i) # AsmFile(j)
    /\ i # j /\ NeedCleanup(i) /\ NeedCleanup(j) => OutFile(i) # OutFile(j)
    /\ NeedCleanup(i) => OutFile(i) # AsmFile(j)

Place   == {"front", "open", "generate", "clang", "again", "cleanup", "exit"}
Opened  == {"generate", "clang", "again", "cleanup"}
Closed  == {"clang", "again", "cleanup"}
Text    == Seq((Job \cup {"hole"}) \X Nat)

TypeOK == /\ pc \in [Job -> Place]
          /\ status \in [Job -> {"none", "0", "1"}]
          /\ stream \in [Job -> Nat]
          /\ emitted \in [Job -> 0..Pieces]
          /\ offset \in [Job -> Nat]
          /\ disk \in Seq(Text)

\* A job that has not opened its file finds none, and wrote nothing.
Unopened(j) == pc[j] \in {"front", "open"} =>
  ~Exists(AsmFile(j)) /\ emitted[j] = 0 /\ offset[j] = 0

\* From the opening to the removal, the path of a job leads to the inode it
\* writes to, and there stands what it has written.
OwnText(j) == pc[j] \in Opened =>
  /\ Exists(AsmFile(j)) /\ dir[AsmFile(j)] = stream[j]
  /\ stream[j] \in 1..Len(disk)
  /\ offset[j] <= emitted[j]
  /\ Flushed(j) => disk[stream[j]] = [k \in 1..emitted[j] |-> Piece(j, k)]

\* clang runs when the text is complete, and never for -S.
Complete(j) == pc[j] \in Closed => emitted[j] = Pieces /\ NeedCleanup(j)

\* The output that clang made stays until the job ends, and no stream writes
\* to it.
OwnMade(j) == pc[j] = "cleanup" /\ status[j] = "0" /\ Flushed(j) =>
  /\ Exists(OutFile(j)) /\ dir[OutFile(j)] \in 1..Len(disk)
  /\ Content(OutFile(j)) = Assembly(j)
  /\ \A i \in Job : pc[i] \in Opened => stream[i] # dir[OutFile(j)]

\* No two jobs write to one inode.
StreamsApart ==
  \A i, j \in Job : pc[i] \in Opened /\ pc[j] \in Opened /\ i # j
                     => stream[i] # stream[j]

\* Every job keeps to its own path, inode and output until it ends.
JobInv == /\ TypeOK
          /\ \A j \in Job : Unopened(j) /\ OwnText(j) /\ Complete(j) /\ OwnMade(j)
          /\ StreamsApart
          /\ TempGone
=============================================================================
