------------------------------ MODULE RvStdio -------------------------------
(***************************************************************************)
(* The streams of the RV32I runtime in src/src/runtime_rv32.c, over the    *)
(* system calls of the kernel: fopen, fclose, remove, ungetc, fgetc,       *)
(* fread, fgets, fwrite, fputs, fseek and ftell.  There is no buffer: a    *)
(* stream is a descriptor, two indicators and a place for one character    *)
(* that ungetc pushed back, so every call is one or more system calls.     *)
(*                                                                         *)
(* The kernel (external) keeps the files and the table of open             *)
(* descriptors.  stdin is a pipe, whose reads may be short; stdout is a    *)
(* terminal, which takes every write and keeps nothing.  A file holds at   *)
(* most MaxLen bytes: a write that meets the limit is short, the next one  *)
(* fails.                                                                  *)
(***************************************************************************)
EXTENDS Integers, Sequences

CONSTANTS
  Path,      \* the files the program names
  Pipe, Terminal,   \* what stdin and stdout are connected to
  Slot,      \* the FILE * variables of the program
  Std,       \* those of stdin and stdout, which are static
  Typed,     \* the bytes that come through the pipe
  Strings,   \* what the program writes
  Modes,     \* the modes it opens files with
  Counts,    \* the pairs <<size, nmemb>> it passes to fread and fwrite
  LineSizes, \* the sizes it passes to fgets
  Offsets,   \* the offsets it passes to fseek
  Pushed,    \* the characters it passes to ungetc
  Byte, NewLine, ZeroByte,
  MaxLen, MaxFd

stdin  == "stdin"
stdout == "stdout"
Stream == Slot \cup Std

ASSUME StdAssumption ==
  /\ Std = {stdin, stdout} /\ Slot \cap Std = {}
  /\ Pipe \notin Path /\ Terminal \notin Path /\ Pipe # Terminal
\* The modes with no "w+" and "a+", which fopen opens for writing only.
ASSUME ModeAssumption == Modes \subseteq {"r", "r+", "w", "a"}
ASSUME BoundAssumption ==
  /\ MaxLen \in Nat /\ MaxFd \in Nat \ {0}
  /\ Typed \in Seq(Byte) /\ Strings \subseteq Seq(Byte)
  /\ {NewLine, ZeroByte} \cup Pushed \subseteq Byte
  /\ Counts \subseteq Nat \X Nat /\ LineSizes \subseteq Nat \ {0}
  /\ Offsets \subseteq Int

VARIABLES
  files,   \* the bytes of the files that exist, and of the pipe
  open,    \* the kernel's open descriptors
  fd,      \* fd[s]: the descriptor of stream s, or NoFd
  flags,   \* flags[s]: the other members of its FILE
  answer   \* the last call of the program and what it returned

vars == <<files, open, fd, flags, answer>>

NoFd == -1

Fresh == [eof |-> FALSE, error |-> FALSE,
          has_ungetc |-> FALSE, ungetc_char |-> ZeroByte]

\* A call on stream s for n bytes, in members of size bytes, that moved the
\* given bytes and returned the value.
Answer(call, s, n, size, bytes, value) ==
  [call |-> call, stream |-> s, asked |-> n, size |-> size,
   bytes |-> bytes, value |-> value]

\* A call may be made on a static FILE even when it was closed.
Held(s) == s \in Std \/ fd[s] # NoFd

Description(path, access, append) ==
  [path |-> path, access |-> access, append |-> append, offset |-> 0]

Init ==
  /\ files \in {[p \in ps \cup {Pipe} |-> IF p = Pipe THEN Typed ELSE << >>] :
                  ps \in SUBSET Path}
  /\ open = [d \in {0, 1} |-> IF d = 0 THEN Description(Pipe, "r", FALSE)
                              ELSE Description(Terminal, "w", FALSE)]
  /\ fd = [s \in Stream |-> IF s = stdin THEN 0
                            ELSE IF s = stdout THEN 1 ELSE NoFd]
  /\ flags = [s \in Stream |-> Fresh]
  /\ answer = Answer("none", stdin, 0, 1, << >>, 0)

-----------------------------------------------------------------------------
(***************************************************************************)
(* System calls.                                                           *)
(***************************************************************************)
Lesser(a, b)  == IF a < b THEN a ELSE b
Greater(a, b) == IF a < b THEN b ELSE a

Failed == [ret |-> -1, bytes |-> << >>]

\* How the kernel answers a read: with all there is, with less, not at all.
Moods == {"whole", "short", "fails"}

\* n > 0 bytes of descriptor d, from offset o on.
SysRead(d, o, n, mood) ==
  LET source == files[open[d].path]
      some   == IF mood = "short" /\ open[d].path = Pipe THEN 1 ELSE n
      bytes  == SubSeq(source, o + 1, Lesser(o + some, Len(source)))
  IN IF d \notin DOMAIN open THEN Failed
     ELSE IF open[d].access = "w" \/ mood = "fails" THEN Failed
     ELSE [ret |-> Len(bytes), bytes |-> bytes]

\* The contents old with the given bytes from offset at on.
Overlaid(old, at, bytes) ==
  [i \in 1..Greater(Len(old), at + Len(bytes)) |->
     IF i \in at + 1..at + Len(bytes) THEN bytes[i - at]
     ELSE IF i <= Len(old) THEN old[i] ELSE ZeroByte]

\* What a write of the bytes returns, and the offset it starts at.
SysWrite(d, bytes) ==
  LET to == open[d]
      at == IF to.append THEN Len(files[to.path]) ELSE to.offset
      n  == Lesser(Len(bytes), MaxLen - at)
  IN IF d \notin DOMAIN open THEN [ret |-> -1, at |-> 0]
     ELSE IF to.access = "r" THEN [ret |-> -1, at |-> 0]
     ELSE IF to.path = Terminal THEN [ret |-> Len(bytes), at |-> 0]
     ELSE IF n <= 0 THEN [ret |-> -1, at |-> 0]
     ELSE [ret |-> n, at |-> at]

\* The offset after an lseek, or -1.
SysLseek(d, offset, whence) ==
  LET base == CASE whence = "SEEK_SET" -> 0
                [] whence = "SEEK_CUR" -> open[d].offset
                [] whence = "SEEK_END" -> Len(files[open[d].path])
  IN IF d \notin DOMAIN open THEN -1
     ELSE IF open[d].path \notin Path \/ base + offset < 0 THEN -1
     ELSE base + offset

-----------------------------------------------------------------------------
(***************************************************************************)
(* Input.  A stream's flags f and the offset o of its descriptor give the  *)
(* flags, the offset and the bytes after the call.                         *)
(***************************************************************************)
\* Mutant: the character that was pushed back stays.
FreadKeepsPushed(s, f, o, total, mood) ==
  LET pushed == IF f.has_ungetc THEN <<f.ungetc_char>> ELSE << >>
      r      == IF total = Len(pushed) THEN [ret |-> 1, bytes |-> << >>]
                ELSE SysRead(fd[s], o, total - Len(pushed), mood)
  IN IF total = 0 THEN [f |-> f, o |-> o, bytes |-> << >>]
     ELSE [f     |-> [f EXCEPT !.error = @ \/ r.ret < 0,
                               !.eof   = @ \/ r.ret = 0],
           o     |-> o + Len(r.bytes),
           bytes |-> pushed \o r.bytes]

\* One character from ungetc and one read for the others, if there are any.
Fread(s, f, o, total, mood) ==
  LET pushed == IF f.has_ungetc THEN <<f.ungetc_char>> ELSE << >>
      r      == IF total = Len(pushed) THEN [ret |-> 1, bytes |-> << >>]
                ELSE SysRead(fd[s], o, total - Len(pushed), mood)
  IN IF total = 0 THEN [f |-> f, o |-> o, bytes |-> << >>]
     ELSE [f     |-> [f EXCEPT !.has_ungetc = FALSE,
                               !.error = @ \/ r.ret < 0,
                               !.eof   = @ \/ r.ret = 0],
           o     |-> o + Len(r.bytes),
           bytes |-> pushed \o r.bytes]

Fgetc(s, f, o, mood) ==
  IF f.has_ungetc
  THEN [f |-> [f EXCEPT !.has_ungetc = FALSE], o |-> o,
        bytes |-> <<f.ungetc_char>>]
  ELSE Fread(s, f, o, 1, mood)

\* fgetc until size - 1 characters, a newline, or nothing more; the read for
\* character number bad fails.
Fgets(s, f, o, size, bad) ==
  LET after[i \in 0..size - 1] ==
        IF i = 0 THEN [f |-> f, o |-> o, bytes |-> << >>, stop |-> FALSE]
        ELSE LET so_far == after[i - 1]
                 c == Fgetc(s, so_far.f, so_far.o,
                            IF i = bad THEN "fails" ELSE "whole")
             IN IF so_far.stop THEN so_far
                ELSE [f |-> c.f, o |-> c.o, bytes |-> so_far.bytes \o c.bytes,
                      stop |-> c.bytes \in {<< >>, <<NewLine>>}]
  IN after[size - 1]

Offset(s) == IF fd[s] \in DOMAIN open THEN open[fd[s]].offset ELSE 0

\* Descriptor d, if it is open, moves to offset o.
Moved(d, o) == [e \in DOMAIN open |->
                  IF e = d THEN [open[e] EXCEPT !.offset = o] ELSE open[e]]

Took(s, r) ==
  /\ flags' = [flags EXCEPT ![s] = r.f]
  /\ open' = Moved(fd[s], r.o)
  /\ UNCHANGED <<files, fd>>

CallFread(s) ==
  /\ Held(s)
  /\ \E count \in Counts, mood \in Moods :
       LET total == count[1] * count[2]
           r     == Fread(s, flags[s], Offset(s), total, mood)
       IN /\ Took(s, r)
          /\ answer' = Answer("fread", s, total, count[1], r.bytes,
                              IF total = 0 THEN 0
                              ELSE Len(r.bytes) \div count[1])

\* The value is the character, or -1.
CallFgetc(s) ==
  /\ Held(s)
  /\ \E mood \in Moods :
       LET r == Fgetc(s, flags[s], Offset(s), mood)
       IN Took(s, r) /\ answer' = Answer("fgetc", s, 1, 1, r.bytes,
                                         IF r.bytes = << >> THEN -1 ELSE 0)

\* The value is the string, or -1 for NULL.
CallFgets(s) ==
  /\ Held(s)
  /\ \E size \in LineSizes : \E bad \in 0..size - 1 :
       LET r == Fgets(s, flags[s], Offset(s), size, bad)
       IN Took(s, r) /\ answer' = Answer("fgets", s, size - 1, 1, r.bytes,
                                         IF size > 1 /\ r.bytes = << >>
                                         THEN -1 ELSE 0)

\* C90 promises room for one character.
CallUngetc(s) ==
  /\ Held(s) /\ ~flags[s].has_ungetc
  /\ \E c \in Pushed :
       /\ flags' = [flags EXCEPT ![s] = [@ EXCEPT !.ungetc_char = c,
                                                  !.has_ungetc = TRUE,
                                                  !.eof = FALSE]]
       /\ answer' = Answer("ungetc", s, 0, 1, <<c>>, 0)
  /\ UNCHANGED <<files, open, fd>>

-----------------------------------------------------------------------------
(***************************************************************************)
(* Output and positions.  The program does neither while a character is    *)
(* pushed back: C90 forbids the output, and the positions are wrong then   *)
(* (README, section 5).                                                    *)
(***************************************************************************)
\* fwrite of the bytes; the call returns value[n] if n of them were written.
Put(s, call, size, bytes, value) ==
  LET r     == IF bytes = << >> THEN [ret |-> 0, at |-> 0]
               ELSE SysWrite(fd[s], bytes)
      path  == open[fd[s]].path
      wrote == r.ret > 0 /\ path # Terminal
      count == IF r.ret < 0 THEN 0 ELSE r.ret
  IN /\ Held(s) /\ ~flags[s].has_ungetc
     /\ flags' = [flags EXCEPT ![s].error = @ \/ r.ret < 0]
     /\ files' = IF wrote
                 THEN [files EXCEPT ![path] =
                         Overlaid(@, r.at, SubSeq(bytes, 1, r.ret))]
                 ELSE files
     /\ open' = IF wrote THEN Moved(fd[s], r.at + r.ret) ELSE open
     /\ answer' = Answer(call, s, Len(bytes), size, SubSeq(bytes, 1, count),
                         value[count])
     /\ UNCHANGED fd

CallFwrite(s) ==
  \E bytes \in Strings, count \in Counts :
    LET members == [n \in 0 .. Len(bytes) |-> IF n = 0 THEN 0 ELSE n \div count[1]]
    IN /\ Len(bytes) = count[1] * count[2]
       /\ Put(s, "fwrite", count[1], bytes, members)

\* fputc is fputs of one character.
CallFputs(s) ==
  \E bytes \in Strings :
    LET all == [n \in 0 .. Len(bytes) |-> IF n = Len(bytes) THEN 0 ELSE -1]
    IN Put(s, "fputs", 1, bytes, all)

CallFseek(s) ==
  /\ Held(s) /\ ~flags[s].has_ungetc
  /\ \E offset \in Offsets, whence \in {"SEEK_SET", "SEEK_CUR", "SEEK_END"} :
       LET to == SysLseek(fd[s], offset, whence) IN
       /\ to <= MaxLen
       /\ flags' = [flags EXCEPT ![s] =
                      IF to < 0 THEN [@ EXCEPT !.error = TRUE]
                      ELSE [@ EXCEPT !.eof = FALSE]]
       /\ open' = IF to < 0 THEN open ELSE Moved(fd[s], to)
       /\ answer' = Answer("fseek", s, offset, 1, <<whence>>,
                           IF to < 0 THEN -1 ELSE 0)
  /\ UNCHANGED <<files, fd>>

CallFtell(s) ==
  /\ Held(s) /\ ~flags[s].has_ungetc
  /\ LET at == SysLseek(fd[s], 0, "SEEK_CUR") IN
       /\ flags' = [flags EXCEPT ![s].error = @ \/ at < 0]
       /\ answer' = Answer("ftell", s, 0, 1, << >>, at)
  /\ UNCHANGED <<files, open, fd>>

-----------------------------------------------------------------------------
(***************************************************************************)
(* Opening, closing and removing.                                          *)
(***************************************************************************)
\* The open flags of a mode.
Access(mode) == IF mode \in {"w", "w+", "a", "a+"} THEN "w"
                ELSE IF mode = "r+" THEN "rw" ELSE "r"
Creates(mode)   == mode \in {"w", "w+", "a", "a+"}
Truncates(mode) == mode \in {"w", "w+"}
Appends(mode)   == mode \in {"a", "a+"}

\* openat takes the lowest descriptor that is free.  When malloc fails, the
\* descriptor is closed again; a file that was created or cut stays so.
CallFopen(s) ==
  /\ s \in Slot /\ fd[s] = NoFd
  /\ \E path \in Path, mode \in Modes, memory \in BOOLEAN :
       LET free == 0..MaxFd \ DOMAIN open
           opened(d) ==
             /\ files' = IF path \notin DOMAIN files \/ Truncates(mode)
                         THEN [p \in DOMAIN files \cup {path} |->
                                 IF p = path THEN << >> ELSE files[p]]
                         ELSE files
             /\ IF memory
                THEN /\ fd' = [fd EXCEPT ![s] = d]
                     /\ open' = [e \in DOMAIN open \cup {d} |->
                                   IF e = d
                                   THEN Description(path, Access(mode),
                                                    Appends(mode))
                                   ELSE open[e]]
                     /\ answer' = Answer("fopen", s, 0, 1, <<path, mode>>, 0)
                ELSE /\ UNCHANGED <<fd, open>>
                     /\ answer' = Answer("fopen", s, 0, 1, <<path, mode>>, -1)
       IN IF free = {} \/ (path \notin DOMAIN files /\ ~Creates(mode))
          THEN /\ answer' = Answer("fopen", s, 0, 1, <<path, mode>>, -1)
               /\ UNCHANGED <<files, open, fd>>
          ELSE \E d \in free : (\A e \in free : d <= e) /\ opened(d)
  /\ flags' = [flags EXCEPT ![s] = Fresh]

Closed(d) == [e \in DOMAIN open \ {d} |-> open[e]]

\* Mutant: the static FILE keeps the number of its descriptor.
FcloseKeepsFd(s) ==
  /\ Held(s)
  /\ open' = Closed(fd[s])
  /\ fd' = IF s \in Std THEN fd ELSE [fd EXCEPT ![s] = NoFd]
  /\ flags' = IF s \in Std THEN flags ELSE [flags EXCEPT ![s] = Fresh]
  /\ answer' = Answer("fclose", s, 0, 1, << >>, 0)
  /\ UNCHANGED files

CallFclose(s) ==
  /\ Held(s)
  /\ open' = Closed(fd[s])
  /\ fd' = [fd EXCEPT ![s] = NoFd]
  /\ flags' = IF s \in Std THEN flags ELSE [flags EXCEPT ![s] = Fresh]
  /\ answer' = Answer("fclose", s, 0, 1, << >>, 0)
  /\ UNCHANGED files

\* What becomes of the streams of a removed file is the kernel's business:
\* the program removes files it has closed.
CallRemove ==
  /\ \E path \in Path :
       /\ \A d \in DOMAIN open : open[d].path # path
       /\ files' = [p \in DOMAIN files \ {path} |-> files[p]]
       /\ answer' = Answer("remove", stdin, 0, 1, <<path>>,
                           IF path \in DOMAIN files THEN 0 ELSE -1)
  /\ UNCHANGED <<open, fd, flags>>

Next ==
  \/ CallRemove
  \/ \E s \in Stream :
       \/ CallFopen(s) \/ CallFclose(s)
       \/ CallFread(s) \/ CallFgetc(s) \/ CallFgets(s) \/ CallUngetc(s)
       \/ CallFwrite(s) \/ CallFputs(s) \/ CallFseek(s) \/ CallFtell(s)

Spec == Init /\ [][Next]_vars

-----------------------------------------------------------------------------
(***************************************************************************)
(* Properties.                                                             *)
(***************************************************************************)
Descriptors == {fd[s] : s \in {t \in Stream : fd[t] # NoFd}}

\* The descriptors that are open are those of the streams the program holds,
\* and no two streams share one: no failure of fopen leaves a descriptor
\* behind, and closing stdin or stdout twice does not close a file that got
\* its number in between.
DescriptorsOwned ==
  /\ DOMAIN open = Descriptors
  /\ \A s, t \in Stream : fd[s] # NoFd /\ fd[s] = fd[t] => s = t

\* A stream as the program sees it: the descriptor and its description gone.
StreamOf(s) ==
  IF fd[s] \in DOMAIN open
  THEN [path |-> open[fd[s]].path, append |-> open[fd[s]].append,
        access |-> open[fd[s]].access, pos |-> open[fd[s]].offset,
        back  |-> IF flags[s].has_ungetc THEN <<flags[s].ungetc_char>>
                  ELSE << >>,
        eof   |-> flags[s].eof, error |-> flags[s].error]
  ELSE [path |-> "none", append |-> FALSE, access |-> "none", pos |-> 0,
        back |-> << >>, eof |-> FALSE, error |-> FALSE]

Streams == [s \in Stream |-> StreamOf(s)]

\* The streams are those of C90: whatever mix of calls the program makes, on
\* one stream or on several of one file, each byte is read once and in order,
\* a pushed-back character comes first, and the indicators, the positions and
\* the results of the calls agree with what was moved.
Contract == INSTANCE StreamContract WITH streams <- Streams
ImplementsContract == Contract!Spec
=============================================================================
