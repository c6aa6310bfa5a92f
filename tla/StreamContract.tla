--------------------------- MODULE StreamContract ---------------------------
(***************************************************************************)
(* What ISO C90 (4.9) promises of a stream, with no word of descriptors or *)
(* system calls: a file, a position in it, at most one character that was  *)
(* pushed back, an end-of-file and an error indicator.  RvStdio is shown   *)
(* to implement this module.                                               *)
(*                                                                         *)
(* The program sees the last call and its answer; the actions below say    *)
(* which answers and which next states are right.                          *)
(***************************************************************************)
EXTENDS Integers, Sequences

CONSTANTS Path, Pipe, Terminal, Slot, Std, Typed, NewLine, ZeroByte, MaxLen

VARIABLES
  files,     \* the bytes of the files that exist, and of the pipe
  streams,   \* streams[s]: where stream s is, or Closed
  answer     \* the last call, what it moved and what it returned

vars == <<files, streams, answer>>

Closed == [path |-> "none", append |-> FALSE, access |-> "none", pos |-> 0,
           back |-> << >>, eof |-> FALSE, error |-> FALSE]

At(path, access, append) ==
  [Closed EXCEPT !.path = path, !.access = access, !.append = append]

Init ==
  /\ \E ps \in SUBSET Path :
       files = [p \in ps \cup {Pipe} |-> IF p = Pipe THEN Typed ELSE << >>]
  /\ streams = [s \in Slot \cup Std |->
                  IF s \in Slot THEN Closed
                  ELSE IF s = "stdin" THEN At(Pipe, "r", FALSE)
                  ELSE At(Terminal, "w", FALSE)]
  /\ answer = [call |-> "none", stream |-> "stdin", asked |-> 0, size |-> 1,
               bytes |-> << >>, value |-> 0]

Least(a, b) == IF a < b THEN a ELSE b

\* The bytes that are left to read.
Pending(st) ==
  IF st.access = "w" THEN st.back
  ELSE st.back \o SubSeq(files[st.path], st.pos + 1, Len(files[st.path]))

\* The stream after n of them.
After(st, n) == IF n = 0 THEN st
                ELSE [st EXCEPT !.pos = @ + n - Len(st.back), !.back = << >>]

\* Only the stream moves, to st.
Becomes(s, st) == streams' = [streams EXCEPT ![s] = st] /\ UNCHANGED files

-----------------------------------------------------------------------------
\* Input returns the bytes that come next.  It stops early when a read fails,
\* and the error is marked; at the end of the file; or on a pipe that has no
\* more for now.  The end is marked when nothing could be read, and never
\* while there is something left.
Input(s, stopped) ==
  LET st    == streams[s]
      got   == answer'.bytes
      after == After(st, Len(got))
      error == streams'[s].error /\ ~st.error
      eof   == streams'[s].eof
  IN /\ Len(got) <= answer'.asked
     /\ got = SubSeq(Pending(st), 1, Len(got))
     /\ Becomes(s, [after EXCEPT !.eof = eof, !.error = streams'[s].error])
     /\ st.error => streams'[s].error
     /\ st.eof => eof
     /\ eof /\ ~st.eof => Pending(after) = << >>
     /\ got = << >> /\ answer'.asked > 0 => eof \/ streams'[s].error
     /\ Len(got) < answer'.asked /\ ~stopped /\ st.path # Pipe =>
          Pending(after) = << >> \/ streams'[s].error

Fread(s) == /\ answer'.call = "fread"
            /\ Input(s, FALSE)
            /\ answer'.asked > 0 =>
                 answer'.value = Len(answer'.bytes) \div answer'.size

Fgetc(s) == /\ answer'.call = "fgetc"
            /\ Input(s, FALSE)
            /\ answer'.value = -1 <=> answer'.bytes = << >>

\* A line ends with its newline.
Fgets(s) ==
  LET got  == answer'.bytes
      line == Len(got) > 0 /\ got[Len(got)] = NewLine
  IN /\ answer'.call = "fgets"
     /\ Input(s, line)
     /\ \A i \in 1..Len(got) - 1 : got[i] # NewLine
     /\ answer'.value = -1 <=> got = << >> /\ answer'.asked > 0

Ungetc(s) == /\ answer'.call = "ungetc"
             /\ Becomes(s, [streams[s] EXCEPT !.back = answer'.bytes,
                                              !.eof = FALSE])

\* The contents old with the given bytes from offset at on.
Overlay(old, at, bytes) ==
  LET gap == [i \in 1..at - Len(old) |-> ZeroByte]
  IN SubSeq(old \o gap, 1, at) \o bytes
       \o SubSeq(old, at + Len(bytes) + 1, Len(old))

\* Output puts the bytes at the position, or at the end of the file in append
\* mode.  It is short only when the file is full, or fails with the error
\* marked.
Output(s) ==
  LET st    == streams[s]
      bytes == answer'.bytes
      at    == IF st.append THEN Len(files[st.path]) ELSE st.pos
      n     == Len(bytes)
      file  == st.path \in Path /\ n > 0
  IN /\ streams' = [streams EXCEPT ![s] =
                      [st EXCEPT !.pos = IF file THEN at + n ELSE @,
                                 !.error = streams'[s].error]]
     /\ st.error => streams'[s].error
     /\ files' = IF file THEN [files EXCEPT ![st.path] = Overlay(@, at, bytes)]
                 ELSE files
     /\ n < answer'.asked =>
          streams'[s].error \/ (st.path \in Path /\ at + n = MaxLen)

Fwrite(s) == /\ answer'.call = "fwrite"
             /\ Output(s)
             /\ answer'.asked > 0 =>
                  answer'.value = Len(answer'.bytes) \div answer'.size

Fputs(s) == /\ answer'.call = "fputs"
            /\ Output(s)
            /\ answer'.value = 0 <=> Len(answer'.bytes) = answer'.asked

\* A stream that can be positioned goes where it was told to, and the end is
\* no longer marked; a call that fails leaves it where it is.
Fseek(s) ==
  LET st   == streams[s]
      from == CASE answer'.bytes[1] = "SEEK_SET" -> 0
                [] answer'.bytes[1] = "SEEK_CUR" -> st.pos
                [] answer'.bytes[1] = "SEEK_END" -> Len(files[st.path])
  IN /\ answer'.call = "fseek"
     /\ IF answer'.value = 0
        THEN /\ st.path \in Path /\ from + answer'.asked >= 0
             /\ Becomes(s, [st EXCEPT !.pos = from + answer'.asked,
                                      !.eof = FALSE])
        ELSE /\ st.path \in Path => from + answer'.asked < 0
             /\ Becomes(s, [st EXCEPT !.error = streams'[s].error])

Ftell(s) == /\ answer'.call = "ftell"
            /\ answer'.value = IF streams[s].path \in Path THEN streams[s].pos
                               ELSE -1
            /\ Becomes(s, [streams[s] EXCEPT !.error = streams'[s].error])

\* An open that fails may have created or cut the file.
Fopen(s) ==
  LET path == answer'.bytes[1]
      mode == answer'.bytes[2]
      cut  == [p \in DOMAIN files \cup {path} |->
                 IF p = path THEN << >> ELSE files[p]]
      made == mode \in {"w", "w+"}
                \/ (mode \in {"a", "a+"} /\ path \notin DOMAIN files)
      access == CASE mode = "r" -> "r"
                  [] mode \in {"w", "a"} -> "w"
                  [] mode \in {"r+", "w+", "a+"} -> "rw"
  IN /\ answer'.call = "fopen"
     /\ IF answer'.value = 0
        THEN /\ path \in DOMAIN files \/ made
             /\ streams' = [streams EXCEPT ![s] =
                              At(path, access, mode \in {"a", "a+"})]
             /\ files' = IF made THEN cut ELSE files
        ELSE /\ UNCHANGED streams
             /\ files' = files \/ (made /\ files' = cut)

Fclose(s) == answer'.call = "fclose" /\ Becomes(s, Closed)

Remove ==
  LET path == answer'.bytes[1] IN
  /\ answer'.call = "remove"
  /\ files' = [p \in DOMAIN files \ {path} |-> files[p]]
  /\ UNCHANGED streams

\* A call on a stream that was closed does nothing to the other ones.
Idle(s) == streams[s] = Closed /\ UNCHANGED <<files, streams>>

Next ==
  \/ Remove
  \/ \E s \in Slot \cup Std :
       /\ s = answer'.stream
       /\ \/ streams[s] = Closed /\ (Fopen(s) \/ Idle(s))
          \/ /\ streams[s] # Closed
             /\ \/ Fread(s) \/ Fgetc(s) \/ Fgets(s) \/ Ungetc(s)
                \/ Fwrite(s) \/ Fputs(s) \/ Fseek(s) \/ Ftell(s) \/ Fclose(s)

Spec == Init /\ [][Next]_vars
=============================================================================
