--------------------------- MODULE RvStdio_proofs ---------------------------
(***************************************************************************)
(* Two theorems about the streams of the RV32I runtime, for every number   *)
(* of pointers, files and descriptors, and every program.                  *)
(*                                                                         *)
(* DescriptorsAlwaysOwned: no two streams share a descriptor and none is   *)
(* left behind.  DescriptorsOwned is inductive with the type of fd, since  *)
(* only fopen and fclose change the table.                                 *)
(*                                                                         *)
(* StreamsAsInC90: the calls implement StreamContract.  The invariant,     *)
(* StdioInv, adds the types of the kernel's tables to the first one, and   *)
(* there is a lemma <Call>Implements for each call: its step is the        *)
(* contract's step of that name, or an idle one on a closed stream.        *)
(***************************************************************************)
EXTENDS RvStdio, SequenceTheorems, WellFoundedInduction, TLAPS

FdTyped == fd \in [Stream -> Int]

OwnedInv == FdTyped /\ DescriptorsOwned

\* What a step that opens and closes nothing leaves alone.
SameDescriptors == UNCHANGED fd /\ DOMAIN open' = DOMAIN open

\* The streams and their table agree as long as neither changes.
LEMMA SameKeepsOwned == OwnedInv /\ SameDescriptors => OwnedInv'
  BY DEF OwnedInv, FdTyped, DescriptorsOwned, Descriptors, SameDescriptors

\* An offset is not a descriptor.
LEMMA MovedKeepsDomain == \A d, o : DOMAIN Moved(d, o) = DOMAIN open
  BY DEF Moved

\* No call that reads changes the table.
LEMMA InputSame ==
  ASSUME NEW s \in Stream,
         CallFread(s) \/ CallFgetc(s) \/ CallFgets(s) \/ CallUngetc(s)
  PROVE  SameDescriptors
<1>1. \A r : Took(s, r) => SameDescriptors
  BY MovedKeepsDomain DEF Took, SameDescriptors
<1>2. CASE CallFread(s)
  BY <1>1, <1>2 DEF CallFread
<1>3. CASE CallFgetc(s)
  BY <1>1, <1>3 DEF CallFgetc
<1>4. CASE CallFgets(s)
  BY <1>1, <1>4 DEF CallFgets
<1>5. CASE CallUngetc(s)
  BY <1>5 DEF CallUngetc, SameDescriptors
<1> QED BY <1>2, <1>3, <1>4, <1>5

\* Nor does one that writes, positions or tells.
LEMMA OutputSame ==
  ASSUME NEW s \in Stream,
         CallFwrite(s) \/ CallFputs(s) \/ CallFseek(s) \/ CallFtell(s)
  PROVE  SameDescriptors
<1>1. \A call, size, bytes, value :
         Put(s, call, size, bytes, value) => SameDescriptors
  BY MovedKeepsDomain DEF Put, SameDescriptors
<1>2. CASE CallFwrite(s)
  BY <1>1, <1>2 DEF CallFwrite
<1>3. CASE CallFputs(s)
  BY <1>1, <1>3 DEF CallFputs
<1>4. CASE CallFseek(s)
  BY <1>4, MovedKeepsDomain DEF CallFseek, SameDescriptors
<1>5. CASE CallFtell(s)
  BY <1>5 DEF CallFtell, SameDescriptors
<1> QED BY <1>2, <1>3, <1>4, <1>5

\* A stream that is opened gets a descriptor no stream has.
LEMMA FopenKeepsOwned ==
  ASSUME NEW s \in Stream, OwnedInv, CallFopen(s)
  PROVE  OwnedInv'
<1>1. CASE SameDescriptors
  BY <1>1, SameKeepsOwned
<1>2. CASE ~SameDescriptors
  <2>1. PICK d \in 0..MaxFd \ DOMAIN open :
          fd' = [fd EXCEPT ![s] = d] /\ DOMAIN open' = DOMAIN open \cup {d}
    BY <1>2 DEF CallFopen, SameDescriptors
  <2>2. d \in Int /\ d # NoFd /\ fd[s] = NoFd
    BY <2>1, BoundAssumption DEF CallFopen, NoFd
  <2>3. FdTyped'
    BY <2>1, <2>2 DEF OwnedInv, FdTyped
  <2>4. Descriptors' = Descriptors \cup {d}
    BY <2>1, <2>2 DEF OwnedInv, FdTyped, Descriptors
  <2>5. \A t \in Stream : fd[t] # NoFd => fd[t] # d
    BY <2>1 DEF OwnedInv, DescriptorsOwned, Descriptors
  <2> QED BY <2>1, <2>2, <2>3, <2>4, <2>5
       DEF OwnedInv, FdTyped, DescriptorsOwned
<1> QED BY <1>1, <1>2

\* A stream that is closed takes its descriptor with it, if it has one.
LEMMA FcloseKeepsOwned ==
  ASSUME NEW s \in Stream, OwnedInv, CallFclose(s)
  PROVE  OwnedInv'
<1>1. DOMAIN open' = DOMAIN open \ {fd[s]} /\ fd' = [fd EXCEPT ![s] = NoFd]
  BY DEF CallFclose, Closed
<1>2. FdTyped'
  BY <1>1 DEF OwnedInv, FdTyped, NoFd
<1>3. Descriptors' = Descriptors \ {fd[s]}
  BY <1>1 DEF OwnedInv, FdTyped, DescriptorsOwned, Descriptors
<1> QED BY <1>1, <1>2, <1>3 DEF OwnedInv, FdTyped, DescriptorsOwned

\* The program starts with stdin on descriptor 0 and stdout on 1.
LEMMA DescriptorsAtStart ==
  ASSUME Init
  PROVE  OwnedInv
<1>1. fd = [s \in Stream |-> IF s = stdin THEN 0
                             ELSE IF s = stdout THEN 1 ELSE NoFd]
  BY DEF Init
<1>2. stdin \in Stream /\ stdout \in Stream /\ stdin # stdout
  BY StdAssumption DEF Stream, stdin, stdout
<1>3. DOMAIN open = {0, 1}
  BY DEF Init
<1>4. fd[stdin] = 0 /\ fd[stdout] = 1
  BY <1>1, <1>2
<1>5. Descriptors = {0, 1}
  BY <1>1, <1>2, <1>4 DEF Descriptors, NoFd
<1>6. FdTyped
  BY <1>1 DEF FdTyped, NoFd
<1> QED BY <1>1, <1>3, <1>5, <1>6 DEF OwnedInv, DescriptorsOwned, NoFd

\* Whatever the program calls, in whatever order, and whichever of the calls
\* fail: the open descriptors are those of its streams, one each (fopen and
\* fclose).
THEOREM DescriptorsAlwaysOwned == Spec => []DescriptorsOwned
<1>1. Init => OwnedInv
  BY DescriptorsAtStart
<1>2. OwnedInv /\ [Next]_vars => OwnedInv'
  <2> SUFFICES ASSUME OwnedInv, [Next]_vars PROVE OwnedInv'
    OBVIOUS
  <2>1. CASE CallRemove
    BY <2>1, SameKeepsOwned DEF CallRemove, SameDescriptors
  <2>2. CASE \E s \in Stream : CallFopen(s)
    BY <2>2, FopenKeepsOwned
  <2>3. CASE \E s \in Stream : CallFclose(s)
    BY <2>3, FcloseKeepsOwned
  <2>4. CASE \E s \in Stream : \/ CallFread(s) \/ CallFgetc(s)
                               \/ CallFgets(s) \/ CallUngetc(s)
    BY <2>4, InputSame, SameKeepsOwned
  <2>5. CASE \E s \in Stream : \/ CallFwrite(s) \/ CallFputs(s)
                               \/ CallFseek(s) \/ CallFtell(s)
    BY <2>5, OutputSame, SameKeepsOwned
  <2>6. CASE UNCHANGED vars
    BY <2>6, SameKeepsOwned DEF vars, SameDescriptors
  <2> QED BY <2>1, <2>2, <2>3, <2>4, <2>5, <2>6 DEF Next
<1>3. OwnedInv => DescriptorsOwned
  BY DEF OwnedInv
<1> QED BY <1>1, <1>2, <1>3, PTL DEF Spec

-----------------------------------------------------------------------------
(***************************************************************************)
(* The refinement of StreamContract.  KernelTyped is what the calls keep   *)
(* of the kernel's tables; with OwnedInv it makes StreamOf a function of   *)
(* the descriptor of one stream and of its flags alone.                    *)
(***************************************************************************)
Flag == [eof : BOOLEAN, error : BOOLEAN, has_ungetc : BOOLEAN,
         ungetc_char : Byte]

DescriptionSet == [path : Path \cup {Pipe, Terminal}, access : {"r", "w", "rw"},
                   append : BOOLEAN, offset : Nat]

FilesTyped ==
  /\ files \in [DOMAIN files -> Seq(Byte)]
  /\ Pipe \in DOMAIN files /\ DOMAIN files \subseteq Path \cup {Pipe}

OpenTyped ==
  /\ open \in [DOMAIN open -> DescriptionSet]
  /\ \A d \in DOMAIN open :
       /\ open[d].path \in DOMAIN files \cup {Terminal}
       /\ open[d].path = Terminal => open[d].access = "w"
       /\ open[d].path = Pipe => open[d].access = "r"

\* The members of a stream that is closed do not matter.
FlagsTyped ==
  /\ flags = [s \in Stream |-> flags[s]]
  /\ \A s \in Stream : fd[s] \in DOMAIN open => flags[s] \in Flag

KernelTyped == FilesTyped /\ OpenTyped /\ FlagsTyped

StdioInv == OwnedInv /\ KernelTyped

\* The member of a FILE for the character that was pushed back.
Back(f) == IF f.has_ungetc THEN <<f.ungetc_char>> ELSE << >>

\* An open stream, with its description d, offset o and flags f.
Seen(d, o, f) == [path |-> d.path, append |-> d.append, access |-> d.access,
                  pos |-> o, back |-> Back(f), eof |-> f.eof, error |-> f.error]

\* What the program sees of an open stream.
LEMMA StreamOpen ==
  ASSUME NEW s \in Stream, fd[s] \in DOMAIN open
  PROVE  Streams[s] = Seen(open[fd[s]], open[fd[s]].offset, flags[s])
  BY DEF Streams, StreamOf, Seen, Back

\* A stream with no descriptor is the contract's closed stream.
LEMMA StreamClosed ==
  ASSUME NEW s \in Stream, fd[s] \notin DOMAIN open
  PROVE  Streams[s] = Contract!Closed
  BY DEF Streams, StreamOf, Contract!Closed

\* An open stream is not a closed one.
LEMMA OpenIsNotClosed ==
  ASSUME StdioInv, NEW s \in Stream, fd[s] \in DOMAIN open
  PROVE  Streams[s] # Contract!Closed
<1>1. open[fd[s]].access # "none"
  BY DEF StdioInv, KernelTyped, OpenTyped, DescriptionSet
<1>2. \A d, o, f : Seen(d, o, f).access = d.access
  BY DEF Seen
<1>3. Streams[s].access # "none"
  <2>1. Streams[s] = Seen(open[fd[s]], open[fd[s]].offset, flags[s])
    BY StreamOpen
  <2> QED BY <1>1, <1>2, <2>1
<1>4. Contract!Closed.access = "none"
  BY DEF Contract!Closed
<1> QED BY <1>3, <1>4

\* A call that moves one stream moves no other: the descriptors are apart.
LEMMA OneMoves ==
  ASSUME StdioInv, NEW s \in Stream, fd[s] \in DOMAIN open, UNCHANGED fd,
         NEW g \in Flag, flags' = [flags EXCEPT ![s] = g],
         NEW o \in Nat, open' = Moved(fd[s], o),
         FilesTyped', DOMAIN files' = DOMAIN files
  PROVE  /\ Streams' = [Streams EXCEPT ![s] = Seen(open[fd[s]], o, g)]
         /\ StdioInv'
<1>1. /\ DOMAIN open' = DOMAIN open
      /\ \A d \in DOMAIN open : d # fd[s] => open'[d] = open[d]
      /\ open'[fd[s]] = [open[fd[s]] EXCEPT !.offset = o]
  BY DEF Moved
<1>2. open[fd[s]] \in DescriptionSet
  BY DEF StdioInv, KernelTyped, OpenTyped
<1>3. /\ open'[fd[s]].path = open[fd[s]].path
      /\ open'[fd[s]].append = open[fd[s]].append
      /\ open'[fd[s]].access = open[fd[s]].access
      /\ open'[fd[s]].offset = o
      /\ open'[fd[s]] \in DescriptionSet
  BY <1>1, <1>2 DEF DescriptionSet
<1>4. /\ flags'[s] = g /\ FlagsTyped'
      /\ \A t \in Stream : t # s => flags'[t] = flags[t]
  BY <1>1 DEF StdioInv, KernelTyped, FlagsTyped
<1>5. StreamOf(s)' = Seen(open[fd[s]], o, g)
  BY <1>1, <1>3, <1>4 DEF StreamOf, Seen, Back
<1>6. ASSUME NEW t \in Stream, t # s PROVE StreamOf(t)' = StreamOf(t)
  <2>1. fd[t] \in DOMAIN open => fd[t] # fd[s]
    BY <1>6 DEF StdioInv, OwnedInv, FdTyped, DescriptorsOwned, Descriptors
  <2> QED BY <1>1, <1>4, <1>6, <2>1 DEF StreamOf
<1>7. Streams' = [Streams EXCEPT ![s] = Seen(open[fd[s]], o, g)]
  BY <1>5, <1>6 DEF Streams
<1>8. OpenTyped'
  <2>1. \A d \in DOMAIN open' :
          /\ open'[d] \in DescriptionSet
          /\ open'[d].path = open[d].path /\ open'[d].access = open[d].access
    BY <1>1, <1>3 DEF StdioInv, KernelTyped, OpenTyped
  <2>2. open' = [d \in DOMAIN open' |-> open'[d]]
    BY DEF Moved
  <2> QED BY <1>1, <2>1, <2>2 DEF StdioInv, KernelTyped, OpenTyped
<1>9. OwnedInv'
  BY <1>1, SameKeepsOwned DEF StdioInv, SameDescriptors
<1> QED BY <1>4, <1>7, <1>8, <1>9 DEF StdioInv, KernelTyped

\* A call on a stream that is not open moves none.
LEMMA NoneMoves ==
  ASSUME StdioInv, NEW s \in Stream, fd[s] \notin DOMAIN open,
         UNCHANGED <<fd, files>>,
         NEW g, flags' = [flags EXCEPT ![s] = g],
         open' = [d \in DOMAIN open |-> open[d]] \/ UNCHANGED open
  PROVE  Streams' = Streams /\ StdioInv'
<1>1. UNCHANGED open
  BY DEF StdioInv, KernelTyped, OpenTyped
<1>2. /\ FlagsTyped'
      /\ \A t \in Stream : t # s => flags'[t] = flags[t]
  BY <1>1 DEF StdioInv, KernelTyped, FlagsTyped
<1>3. Streams' = Streams
  BY <1>1, <1>2 DEF Streams, StreamOf
<1>4. OwnedInv'
  BY <1>1, SameKeepsOwned DEF StdioInv, SameDescriptors
<1> QED BY <1>1, <1>2, <1>3, <1>4 DEF StdioInv, KernelTyped, OpenTyped, FilesTyped

\* A descriptor that stays at its offset does not move.
LEMMA MovedNowhere ==
  ASSUME StdioInv, NEW d \in DOMAIN open
  PROVE  open = Moved(d, open[d].offset)
<1>1. open = [e \in DOMAIN open |-> open[e]] /\ open[d] \in DescriptionSet
  BY DEF StdioInv, KernelTyped, OpenTyped
<1>2. [open[d] EXCEPT !.offset = open[d].offset] = open[d]
  BY <1>1 DEF DescriptionSet
<1>3. \A e \in DOMAIN open :
        (IF e = d THEN [open[e] EXCEPT !.offset = open[d].offset] ELSE open[e])
          = open[e]
  BY <1>2
<1>4. Moved(d, open[d].offset) = [e \in DOMAIN open |-> open[e]]
  BY <1>3 DEF Moved
<1> QED BY <1>1, <1>4

-----------------------------------------------------------------------------
(***************************************************************************)
(* Input.                                                                  *)
(***************************************************************************)
\* The bytes of a stream with the description d that are left to read.
Rest(d, o) == IF d.access = "w" THEN << >>
              ELSE SubSeq(files[d.path], o + 1, Len(files[d.path]))
Left(d, o, f) == Back(f) \o Rest(d, o)

\* What a call that found the stream at <<o, f>> and moved the bytes of r may
\* leave: the bytes are those that came next, and the indicators only rise.
Reads(d, o, f, r) ==
  /\ r.f \in Flag /\ r.o \in Nat /\ r.bytes \in Seq(Byte)
  /\ Left(d, o, f) = r.bytes \o Left(d, r.o, r.f)
  /\ r.bytes = << >> => r.o = o /\ Back(r.f) = Back(f)
  /\ r.bytes # << >> => /\ Back(r.f) = << >>
                        /\ r.o = o + Len(r.bytes) - Len(Back(f))
  /\ f.error => r.f.error
  /\ f.eof => r.f.eof
  /\ r.f.eof /\ ~f.eof => Left(d, r.o, r.f) = << >>

\* A FILE has room for one character, a byte.
LEMMA BackType ==
  ASSUME NEW f \in Flag
  PROVE  Back(f) \in Seq(Byte) /\ Len(Back(f)) \in {0, 1}
  BY DEF Back, Flag

\* The bytes behind an offset are bytes of the file.
LEMMA RestType ==
  ASSUME StdioInv, NEW d \in DescriptionSet,
         d.access # "w" => d.path \in DOMAIN files, NEW o \in Nat
  PROVE  Rest(d, o) \in Seq(Byte)
<1>1. CASE d.access = "w"
  BY <1>1 DEF Rest
<1>2. CASE d.access # "w"
  <2>1. files[d.path] \in Seq(Byte)
    BY <1>2 DEF StdioInv, KernelTyped, FilesTyped
  <2>2. SubSeq(files[d.path], o + 1, Len(files[d.path])) \in Seq(Byte)
    <3> DEFINE m == o + 1
               n == Len(files[d.path])
    <3>1. m \in Int /\ n \in Int /\ \A i \in m..n : files[d.path][i] \in Byte
      BY <2>1
    <3> HIDE DEF m, n
    <3>2. SubSeq(files[d.path], m, n) \in Seq(Byte)
      BY <3>1, SubSeqProperties
    <3> QED BY <3>2 DEF m, n
  <2> QED BY <1>2, <2>2 DEF Rest
<1> QED BY <1>1, <1>2

\* A part of a sequence that starts behind o.
LEMMA PartOf ==
  ASSUME NEW q \in Seq(Byte), NEW o \in Nat, NEW e \in Nat, o <= e, e <= Len(q)
  PROVE  /\ SubSeq(q, o + 1, e) \in Seq(Byte)
         /\ Len(SubSeq(q, o + 1, e)) = e - o
         /\ SubSeq(q, o + 1, Len(q))
              = SubSeq(q, o + 1, e) \o SubSeq(q, e + 1, Len(q))
<1> DEFINE L == Len(q)
           m == o + 1
<1>1. /\ L \in Nat /\ m \in Int /\ e \in Int
      /\ \A i \in m..e : q[i] \in Byte
      /\ m \in 1..L + 1 /\ e \in m - 1..L /\ L \in e..L
  OBVIOUS
<1>5. (IF m <= e THEN e - m + 1 ELSE 0) = e - o
  OBVIOUS
<1> HIDE DEF m
<1>2. /\ SubSeq(q, m, e) \in Seq(Byte)
      /\ Len(SubSeq(q, m, e)) = IF m <= e THEN e - m + 1 ELSE 0
  BY <1>1, SubSeqProperties
<1>3. SubSeq(q, m, L) = SubSeq(q, m, e) \o SubSeq(q, e + 1, L)
  BY <1>1, ConcatAdjacentSubSeq
<1> HIDE DEF L
<1>4. Len(SubSeq(q, m, e)) = e - o
  <2>1. PICK n : n = Len(SubSeq(q, m, e))
    OBVIOUS
  <2>2. n = IF m <= e THEN e - m + 1 ELSE 0
    BY <1>2, <2>1, Zenon
  <2>3. n = e - o
    BY <1>5, <2>2
  <2> QED BY <2>1, <2>3, Zenon
<1> QED BY <1>2, <1>3, <1>4, Zenon DEF m, L

\* The n bytes behind an offset come before the others.
LEMMA RestSplits ==
  ASSUME NEW q \in Seq(Byte), NEW o \in Nat, NEW n \in Nat
  PROVE  LET bytes == SubSeq(q, o + 1, Lesser(o + n, Len(q)))
             rest  == SubSeq(q, o + Len(bytes) + 1, Len(q))
         IN /\ bytes \in Seq(Byte) /\ Len(bytes) <= n
            /\ SubSeq(q, o + 1, Len(q)) = bytes \o rest
            /\ Len(bytes) < n => rest = << >>
<1>1. /\ Len(q) \in Nat /\ Lesser(o + n, Len(q)) \in Nat
      /\ Lesser(o + n, Len(q)) <= Len(q)
      /\ Lesser(o + n, Len(q)) <= o + n
      /\ o < Len(q) => o <= Lesser(o + n, Len(q))
      /\ Lesser(o + n, Len(q)) < o + n => Lesser(o + n, Len(q)) = Len(q)
  BY DEF Lesser
<1>2. PICK e \in Nat : e = Lesser(o + n, Len(q))
  BY <1>1
<1>3. PICK L \in Nat : L = Len(q)
  BY <1>1
<1>4. PICK bytes : bytes = SubSeq(q, o + 1, e)
  OBVIOUS
<1>5. /\ e <= L /\ e <= o + n /\ (o < L => o <= e) /\ (e < o + n => e = L)
  BY <1>1, <1>2, <1>3
<1>6. /\ bytes \in Seq(Byte) /\ Len(bytes) <= n
      /\ SubSeq(q, o + 1, L) = bytes \o SubSeq(q, o + Len(bytes) + 1, L)
      /\ Len(bytes) < n => SubSeq(q, o + Len(bytes) + 1, L) = << >>
  <2>1. CASE o < L
    <3>1. /\ SubSeq(q, o + 1, e) \in Seq(Byte)
          /\ Len(SubSeq(q, o + 1, e)) = e - o
          /\ SubSeq(q, o + 1, L) = SubSeq(q, o + 1, e) \o SubSeq(q, e + 1, L)
      BY <1>3, <1>5, <2>1, PartOf
    <3>2. Len(bytes) = e - o /\ bytes \in Seq(Byte)
      BY <1>4, <3>1, Zenon
    <3>3. /\ o + Len(bytes) + 1 = e + 1 /\ Len(bytes) <= n
          /\ Len(bytes) < n => e = L
      BY <1>5, <2>1, <3>2
    <3>4. SubSeq(q, L + 1, L) = << >>
      BY SubSeqEmpty
    <3> QED BY <1>4, <3>1, <3>2, <3>3, <3>4, Zenon
  <2>2. CASE ~(o < L)
    <3>1. L < o + 1 /\ e < o + 1
      BY <1>5, <2>2
    <3>2. SubSeq(q, o + 1, e) = << >> /\ SubSeq(q, o + 1, L) = << >>
      BY <3>1, SubSeqEmpty
    <3>3. bytes = << >>
      BY <1>4, <3>2, Zenon
    <3>4. Len(<< >>) = 0 /\ o + Len(<< >>) + 1 = o + 1 /\ 0 <= n
          /\ << >> \in Seq(Byte)
      OBVIOUS
    <3>5. << >> = << >> \o << >>
      BY <3>4, ConcatEmptySeq
    <3> QED BY <3>2, <3>3, <3>4, <3>5, Zenon
  <2> QED BY <2>1, <2>2
<1> QED BY <1>2, <1>3, <1>4, <1>6, Zenon

\* What y gives of n bytes that are asked for behind offset o: the bytes that
\* come next, and the end only at the end.
ReadGives(d, o, n, y) ==
  LET rest == Rest(d, o + Len(y.bytes))
  IN /\ y.bytes \in Seq(Byte) /\ Len(y.bytes) <= n
     /\ y.ret \in Int
     /\ y.ret < 0 => y.bytes = << >>
     /\ n > 0 /\ y.ret >= 0 => y.ret = Len(y.bytes)
     /\ Rest(d, o) = y.bytes \o rest
     /\ y.ret = 0 => rest = << >>
     /\ Len(y.bytes) < n /\ d.path # Pipe => y.ret < 0 \/ rest = << >>

\* A read of the kernel does.
LEMMA SysReadReads ==
  ASSUME StdioInv, NEW d \in DOMAIN open, NEW o \in Nat, NEW n \in Nat \ {0},
         NEW mood
  PROVE  ReadGives(open[d], o, n, SysRead(d, o, n, mood))
<1> DEFINE r == SysRead(d, o, n, mood)
<1>1. /\ open[d] \in DescriptionSet
      /\ open[d].access # "w" => open[d].path \in DOMAIN files
  BY DEF StdioInv, KernelTyped, OpenTyped
<1>2. CASE open[d].access = "w" \/ mood = "fails"
  <2>1. r = [ret |-> -1, bytes |-> << >>]
    BY <1>2 DEF SysRead, Failed
  <2>2. r.ret = -1 /\ r.bytes = << >> /\ Len(r.bytes) = 0
    BY <2>1
  <2> HIDE DEF r
  <2>3. Rest(open[d], o) \in Seq(Byte) /\ o + Len(r.bytes) = o
    BY <1>1, <2>2, RestType
  <2>4. Rest(open[d], o) = r.bytes \o Rest(open[d], o + Len(r.bytes))
    BY <2>2, <2>3, ConcatEmptySeq
  <2>5. r.bytes \in Seq(Byte) /\ r.ret < 0 /\ r.ret \in Int /\ Len(r.bytes) <= n
        /\ ~(r.ret >= 0) /\ r.ret # 0
    BY <2>2
  <2> QED BY <2>2, <2>4, <2>5 DEF r, ReadGives
<1>3. CASE open[d].access # "w" /\ mood # "fails"
  <2> DEFINE q    == files[open[d].path]
             some == IF mood = "short" /\ open[d].path = Pipe THEN 1 ELSE n
             got  == SubSeq(q, o + 1, Lesser(o + some, Len(q)))
             rest == SubSeq(q, o + Len(got) + 1, Len(q))
  <2>1. q \in Seq(Byte)
    BY <1>1, <1>3 DEF StdioInv, KernelTyped, FilesTyped
  <2>2. some \in Nat \ {0} /\ some <= n /\ (open[d].path # Pipe => some = n)
    OBVIOUS
  <2> HIDE DEF some
  <2>3. /\ got \in Seq(Byte) /\ Len(got) <= some
        /\ SubSeq(q, o + 1, Len(q)) = got \o rest
        /\ Len(got) < some => rest = << >>
    BY <2>1, <2>2, RestSplits
  <2>4. r = [ret |-> Len(got), bytes |-> got]
    BY <1>3 DEF SysRead, some
  <2> HIDE DEF r, got
  <2>5. /\ Rest(open[d], o) = SubSeq(q, o + 1, Len(q))
        /\ Rest(open[d], o + Len(got)) = rest
    BY <1>3 DEF Rest
  <2> HIDE DEF rest, q
  <2>6. r.ret = Len(got) /\ r.bytes = got
    BY <2>4
  <2>7. Len(got) \in Nat
    BY <2>3
  <2>8. /\ Len(got) <= n /\ ~(Len(got) < 0)
        /\ Len(got) = 0 => Len(got) < some
        /\ Len(got) < n /\ open[d].path # Pipe => Len(got) < some
    BY <2>2, <2>3, <2>7
  <2>9. Rest(open[d], o) = got \o Rest(open[d], o + Len(got))
    BY <2>3, <2>5
  <2>10. PICK gone : gone = Rest(open[d], o + Len(got))
    OBVIOUS
  <2>11. /\ r.bytes \in Seq(Byte) /\ Len(r.bytes) <= n
         /\ r.ret \in Int
         /\ r.ret < 0 => r.bytes = << >>
         /\ r.ret >= 0 => r.ret = Len(r.bytes)
         /\ Rest(open[d], o) = r.bytes \o gone
         /\ r.ret = 0 => gone = << >>
         /\ Len(r.bytes) < n /\ open[d].path # Pipe => r.ret < 0 \/ gone = << >>
    <3>1. gone = rest
      BY <2>5, <2>10
    <3>2. Rest(open[d], o) = r.bytes \o gone
      BY <2>6, <2>9, <2>10
    <3>3. r.ret = 0 => gone = << >>
      BY <2>3, <2>6, <2>8, <3>1
    <3>4. Len(r.bytes) < n /\ open[d].path # Pipe => gone = << >>
      BY <2>3, <2>6, <2>8, <3>1
    <3>5. r.ret \in Int /\ ~(r.ret < 0)
      BY <2>6, <2>7, <2>8
    <3> QED BY <2>3, <2>6, <2>8, <3>2, <3>3, <3>4, <3>5, Zenon
  <2>12. gone = Rest(open[d], o + Len(r.bytes))
    BY <2>6, <2>10
  <2> QED BY <2>11, <2>12, Zenon DEF r, ReadGives
<1> QED BY <1>2, <1>3

\* What else is asked of a call that reads total bytes.
ReadsAll(d, r, total) ==
  /\ Len(r.bytes) <= total
  /\ r.bytes = << >> /\ total > 0 => r.f.eof \/ r.f.error
  /\ Len(r.bytes) < total /\ d.path # Pipe =>
       Left(d, r.o, r.f) = << >> \/ r.f.error

\* Sequences of bytes are put together in either order.
LEMMA Regroup ==
  \A x, y, z \in Seq(Byte) : x \o (y \o z) = (x \o y) \o z
<1>1. ASSUME NEW x \in Seq(Byte), NEW y \in Seq(Byte), NEW z \in Seq(Byte)
      PROVE  (x \o y) \o z = x \o (y \o z)
  BY ConcatAssociative
<1> QED BY <1>1

\* r is what the character that was pushed back and a read y of k bytes leave.
ReadBy(d, o, f, total, k, y, r) ==
  /\ total = k + Len(Back(f)) /\ total # 0
  /\ ReadGives(d, o, k, y) /\ (k = 0 => y.ret = 1)
  /\ \A i \in Nat : Rest(d, i) \in Seq(Byte)
  /\ r = [f |-> [f EXCEPT !.has_ungetc = FALSE,
                          !.error = @ \/ y.ret < 0,
                          !.eof   = @ \/ y.ret = 0],
          o |-> o + Len(y.bytes), bytes |-> Back(f) \o y.bytes]

\* What fread, and so fgetc, may do to a stream.
LEMMA OneRead ==
  ASSUME NEW d, NEW o \in Nat, NEW f \in Flag, NEW total \in Nat,
         NEW k \in Nat, NEW y, NEW r, ReadBy(d, o, f, total, k, y, r)
  PROVE  Reads(d, o, f, r) /\ ReadsAll(d, r, total)
<1>1. PICK back \in Seq(Byte) : back = Back(f)
  BY BackType
<1>2. PICK nb \in {0, 1} : nb = Len(back)
  BY <1>1, BackType
<1>3. PICK b \in Seq(Byte) : b = y.bytes
  BY DEF ReadBy, ReadGives
<1>4. PICK n \in Nat : n = Len(b)
  OBVIOUS
<1>5. PICK p \in Nat : p = o + n
  OBVIOUS
<1>6. PICK rest \in Seq(Byte) : rest = Rest(d, p)
  BY DEF ReadBy
<1>7. PICK all \in Seq(Byte) : all = back \o b /\ Len(all) = nb + n
  BY <1>2, <1>4, ConcatProperties
<1>8. PICK ret \in Int : ret = y.ret
  BY DEF ReadBy, ReadGives
<1>9. /\ n <= k
      /\ ret < 0 => b = << >>
      /\ k > 0 /\ ret >= 0 => ret = n
      /\ Rest(d, o) = b \o rest
      /\ ret = 0 => rest = << >>
      /\ n < k /\ d.path # Pipe => ret < 0 \/ rest = << >>
  BY <1>3, <1>4, <1>5, <1>6, <1>8, Zenon DEF ReadBy, ReadGives
<1>10. k = 0 => ret = 1
  BY <1>8, Zenon DEF ReadBy
<1>11. PICK g : g = [f EXCEPT !.has_ungetc = FALSE,
                               !.error = @ \/ ret < 0,
                               !.eof   = @ \/ ret = 0]
  OBVIOUS
<1>12. /\ g \in Flag /\ ~g.has_ungetc
       /\ g.error <=> f.error \/ ret < 0
       /\ g.eof <=> f.eof \/ ret = 0
  BY <1>11 DEF Flag
<1>13. r = [f |-> g, o |-> p, bytes |-> all]
  BY <1>1, <1>3, <1>4, <1>5, <1>7, <1>8, <1>11, Zenon DEF ReadBy
<1>14. r.f = g /\ r.o = p /\ r.bytes = all
  BY <1>13
<1>15. total = k + nb /\ total # 0
  BY <1>1, <1>2, Zenon DEF ReadBy
<1>16. Back(g) = << >>
  BY <1>12 DEF Back
<1>17. Left(d, p, g) = rest
  BY <1>6, <1>16, ConcatEmptySeq DEF Left
<1>18. Left(d, o, f) = all \o rest
  <2>1. Left(d, o, f) = back \o (b \o rest)
    BY <1>1, <1>9, Zenon DEF Left
  <2>2. back \o (b \o rest) = (back \o b) \o rest
    BY Regroup
  <2> QED BY <1>7, <2>1, <2>2, Zenon
<1>19. PICK m \in Nat : m = nb + n
  OBVIOUS
<1>20. /\ all = << >> <=> m = 0
       /\ Len(all) = m
       /\ back = << >> <=> nb = 0
  BY <1>2, <1>7, <1>19
<1>21. /\ m = 0 => nb = 0 /\ p = o
       /\ p = o + m - nb
       /\ m <= total
       /\ m = 0 => ret < 0 \/ ret = 0
       /\ m < total => n < k
  BY <1>5, <1>9, <1>10, <1>15, <1>19
<1>22. Reads(d, o, f, r)
  <2>1. r.f \in Flag /\ r.o \in Nat /\ r.bytes \in Seq(Byte)
    BY <1>12, <1>14
  <2>2. Left(d, o, f) = r.bytes \o Left(d, r.o, r.f)
    BY <1>14, <1>17, <1>18, Zenon
  <2>3. r.bytes = << >> => r.o = o /\ Back(r.f) = Back(f)
    BY <1>1, <1>14, <1>16, <1>20, <1>21, Zenon
  <2>4. Back(r.f) = << >> /\ r.o = o + Len(r.bytes) - Len(Back(f))
    BY <1>1, <1>2, <1>14, <1>16, <1>20, <1>21, Zenon
  <2>5. r.f.eof /\ ~f.eof => Left(d, r.o, r.f) = << >>
    BY <1>9, <1>12, <1>14, <1>17, Zenon
  <2>6. (f.error => r.f.error) /\ (f.eof => r.f.eof)
    BY <1>12, <1>14
  <2> QED BY <2>1, <2>2, <2>3, <2>4, <2>5, <2>6, Zenon DEF Reads
<1>23. ReadsAll(d, r, total)
  <2>1. Len(r.bytes) <= total
    BY <1>14, <1>20, <1>21, Zenon
  <2>2. r.bytes = << >> => r.f.eof \/ r.f.error
    BY <1>12, <1>14, <1>20, <1>21, Zenon
  <2>3. Len(r.bytes) < total /\ d.path # Pipe =>
          Left(d, r.o, r.f) = << >> \/ r.f.error
    BY <1>9, <1>12, <1>14, <1>17, <1>20, <1>21, Zenon
  <2> QED BY <2>1, <2>2, <2>3, Zenon DEF ReadsAll
<1> QED BY <1>22, <1>23

\* fread: the character that was pushed back, then one read.
LEMMA FreadReads ==
  ASSUME StdioInv, NEW s \in Stream, fd[s] \in DOMAIN open,
         NEW f \in Flag, NEW o \in Nat, NEW total \in Nat, NEW mood
  PROVE  LET r == Fread(s, f, o, total, mood)
         IN Reads(open[fd[s]], o, f, r) /\ ReadsAll(open[fd[s]], r, total)
<1>1. PICK d \in DescriptionSet : d = open[fd[s]]
  BY DEF StdioInv, KernelTyped, OpenTyped
<1>2. \A i \in Nat : Rest(d, i) \in Seq(Byte)
  <2>1. d.access # "w" => d.path \in DOMAIN files
    BY <1>1 DEF StdioInv, KernelTyped, OpenTyped
  <2> QED BY <2>1, RestType
<1>3. Back(f) \in Seq(Byte) /\ Len(Back(f)) \in {0, 1}
  BY BackType
<1>4. PICK nb \in {0, 1} : nb = Len(Back(f))
  BY <1>3
<1>5. PICK r : r = Fread(s, f, o, total, mood)
  OBVIOUS
<1>6. CASE total = 0
  <2>1. r = [f |-> f, o |-> o, bytes |-> << >>]
    BY <1>5, <1>6 DEF Fread
  <2>2. r.f = f /\ r.o = o /\ r.bytes = << >> /\ Len(r.bytes) = 0
    BY <2>1
  <2>3. Left(d, o, f) \in Seq(Byte)
    BY <1>2, <1>3, ConcatProperties DEF Left
  <2>4. Left(d, o, f) = r.bytes \o Left(d, r.o, r.f)
    BY <2>2, <2>3, ConcatEmptySeq
  <2>5. Reads(d, o, f, r)
    BY <2>2, <2>4 DEF Reads
  <2>6. ReadsAll(d, r, total)
    BY <1>6, <2>2 DEF ReadsAll
  <2> QED BY <1>1, <1>5, <2>5, <2>6
<1>7. CASE total # 0
  <2>1. PICK k \in Nat : k = total - nb /\ total = k + nb
    BY <1>7
  <2>2. PICK y : y = IF total = nb THEN [ret |-> 1, bytes |-> << >>]
                     ELSE SysRead(fd[s], o, k, mood)
    OBVIOUS
  <2>3. ReadGives(d, o, k, y) /\ (k = 0 => y.ret = 1)
    <3>1. CASE total = nb
      <4>1. y.ret = 1 /\ y.bytes = << >> /\ k = 0
        BY <2>1, <2>2, <3>1
      <4>2. PICK n : n = Len(y.bytes)
        OBVIOUS
      <4>3. n = 0 /\ o + n = o
        BY <4>1, <4>2
      <4>4. Rest(d, o) = y.bytes \o Rest(d, o + n)
        BY <1>2, <4>1, <4>3, ConcatEmptySeq
      <4>5. y.bytes \in Seq(Byte)
        BY <4>1
      <4> QED BY <4>1, <4>2, <4>3, <4>4, <4>5 DEF ReadGives
    <3>2. CASE total # nb
      <4>1. k \in Nat \ {0}
        BY <2>1, <3>2
      <4>2. y = SysRead(fd[s], o, k, mood)
        BY <2>2, <3>2
      <4> QED BY <1>1, <4>1, <4>2, SysReadReads
    <3> QED BY <3>1, <3>2
  <2>5. r = [f |-> [f EXCEPT !.has_ungetc = FALSE,
                             !.error = @ \/ y.ret < 0,
                             !.eof   = @ \/ y.ret = 0],
             o |-> o + Len(y.bytes), bytes |-> Back(f) \o y.bytes]
    <3>1. y = IF total = Len(Back(f)) THEN [ret |-> 1, bytes |-> << >>]
              ELSE SysRead(fd[s], o, total - Len(Back(f)), mood)
      BY <1>4, <2>1, <2>2, Zenon
    <3> QED BY <1>5, <1>7, <3>1, Zenon DEF Fread, Back
  <2>6. total = k + Len(Back(f)) /\ total # 0
    BY <1>4, <1>7, <2>1
  <2>7. Reads(d, o, f, r) /\ ReadsAll(d, r, total)
    BY <1>2, <2>1, <2>3, <2>5, <2>6, OneRead, Zenon DEF ReadBy
  <2> QED BY <1>1, <1>5, <2>7
<1> QED BY <1>6, <1>7

\* fgetc: the character that was pushed back, or one read.
LEMMA FgetcReads ==
  ASSUME StdioInv, NEW s \in Stream, fd[s] \in DOMAIN open,
         NEW f \in Flag, NEW o \in Nat, NEW mood
  PROVE  LET r == Fgetc(s, f, o, mood)
         IN Reads(open[fd[s]], o, f, r) /\ ReadsAll(open[fd[s]], r, 1)
<1>1. CASE ~f.has_ungetc
  <2>1. Fgetc(s, f, o, mood) = Fread(s, f, o, 1, mood)
    BY <1>1 DEF Fgetc
  <2> QED BY <2>1, FreadReads
<1>2. CASE f.has_ungetc
  <2>1. PICK d : d = open[fd[s]]
    OBVIOUS
  <2>2. PICK g : g = [f EXCEPT !.has_ungetc = FALSE]
    OBVIOUS
  <2>3. g \in Flag /\ ~g.has_ungetc /\ g.eof = f.eof /\ g.error = f.error
    BY <2>2 DEF Flag
  <2>4. PICK c \in Byte : c = f.ungetc_char
    BY DEF Flag
  <2>5. PICK r : r = Fgetc(s, f, o, mood)
    OBVIOUS
  <2>6. r = [f |-> g, o |-> o, bytes |-> <<c>>]
    BY <1>2, <2>2, <2>4, <2>5, Zenon DEF Fgetc
  <2>7. r.f = g /\ r.o = o /\ r.bytes = <<c>>
    BY <2>6
  <2>8. /\ <<c>> \in Seq(Byte) /\ <<c>> # << >> /\ Len(<<c>>) = 1
        /\ o = o + 1 - 1 /\ 1 <= 1 /\ ~(1 < 1)
    BY <2>4
  <2>9. Back(f) = <<c>> /\ Back(g) = << >>
    BY <1>2, <2>3, <2>4 DEF Back
  <2>10. Rest(d, o) \in Seq(Byte)
    <3>1. d \in DescriptionSet /\ (d.access # "w" => d.path \in DOMAIN files)
      BY <2>1 DEF StdioInv, KernelTyped, OpenTyped
    <3> QED BY <3>1, RestType
  <2>11. Left(d, o, g) = Rest(d, o)
    BY <2>9, <2>10, ConcatEmptySeq DEF Left
  <2>12. Left(d, o, f) = r.bytes \o Left(d, r.o, r.f)
    BY <2>7, <2>9, <2>11, Zenon DEF Left
  <2>13. Reads(d, o, f, r)
    BY <2>3, <2>7, <2>8, <2>9, <2>12, Zenon DEF Reads
  <2>14. ReadsAll(d, r, 1)
    BY <2>7, <2>8, Zenon DEF ReadsAll
  <2> QED BY <2>1, <2>5, <2>13, <2>14
<1> QED BY <1>1, <1>2

\* What follows nothing is nothing.
LEMMA NothingLeft ==
  ASSUME NEW x \in Seq(Byte), NEW y \in Seq(Byte), x \o y = << >>
  PROVE  x = << >> /\ y = << >>
<1>1. Len(x) + Len(y) = 0
  <2>1. Len(x \o y) = Len(x) + Len(y)
    BY ConcatProperties
  <2>2. Len(x \o y) = 0
    OBVIOUS
  <2> QED BY <2>1, <2>2, Zenon
<1>2. Len(x) = 0 /\ Len(y) = 0
  BY <1>1
<1> QED BY <1>2

\* One input call after another is an input call.
LEMMA ReadsThen ==
  ASSUME NEW d, NEW o \in Nat, NEW f \in Flag, NEW r, NEW c,
         Reads(d, o, f, r), Reads(d, r.o, r.f, c),
         Left(d, c.o, c.f) \in Seq(Byte)
  PROVE  Reads(d, o, f, [f |-> c.f, o |-> c.o, bytes |-> r.bytes \o c.bytes])
<1>1. PICK x \in Seq(Byte) : x = r.bytes
  BY Zenon DEF Reads
<1>2. PICK y \in Seq(Byte) : y = c.bytes
  BY Zenon DEF Reads
<1>3. PICK z \in Seq(Byte) : z = Left(d, c.o, c.f)
  BY Zenon
<1>4. PICK xy \in Seq(Byte) : xy = x \o y /\ Len(xy) = Len(x) + Len(y)
  BY ConcatProperties
<1>5. PICK a : a = [f |-> c.f, o |-> c.o, bytes |-> xy]
  OBVIOUS
<1>6. a.f = c.f /\ a.o = c.o /\ a.bytes = xy
  BY <1>5
<1>7. Left(d, o, f) = xy \o z
  <2>1. Left(d, o, f) = x \o (y \o z)
    BY <1>1, <1>2, <1>3, Zenon DEF Reads
  <2> QED BY <1>4, <2>1, Regroup
<1>8. PICK p, q \in Nat : p = r.o /\ q = c.o
  BY Zenon DEF Reads
<1>9. PICK lf, lr \in Nat : lf = Len(Back(f)) /\ lr = Len(Back(r.f))
  <2>1. r.f \in Flag
    BY Zenon DEF Reads
  <2>2. Len(Back(f)) \in Nat /\ Len(Back(r.f)) \in Nat
    BY <2>1, BackType
  <2> QED BY <2>2
<1>10. PICK m, n \in Nat : m = Len(x) /\ n = Len(y)
  OBVIOUS
<1>11. /\ x = << >> <=> m = 0
       /\ y = << >> <=> n = 0
       /\ xy = << >> <=> m + n = 0
       /\ Len(xy) = m + n
  BY <1>4, <1>10
<1>12. /\ x = << >> => p = o /\ Back(r.f) = Back(f) /\ lr = lf
       /\ x # << >> => Back(r.f) = << >> /\ p = o + m - lf
       /\ y = << >> => q = p /\ Back(c.f) = Back(r.f)
       /\ y # << >> => Back(c.f) = << >> /\ q = p + n - lr
  BY <1>1, <1>2, <1>8, <1>9, <1>10, Zenon DEF Reads
<1>13. x # << >> => lr = 0
  BY <1>9, <1>12
<1>14. /\ xy = << >> => q = o
       /\ xy # << >> => q = o + (m + n) - lf
  BY <1>11, <1>12, <1>13
<1>15. /\ xy = << >> => Back(c.f) = Back(f)
       /\ xy # << >> => Back(c.f) = << >>
  BY <1>11, <1>12
<1>16. /\ f.error => c.f.error
       /\ f.eof => c.f.eof
  BY Zenon DEF Reads
<1>17. c.f.eof /\ ~f.eof => z = << >>
  <2>1. CASE r.f.eof
    <3>1. c.f.eof /\ ~f.eof => y \o z = << >>
      BY <1>2, <1>3, <2>1, Zenon DEF Reads
    <3> QED BY <3>1, NothingLeft
  <2>2. CASE ~r.f.eof
    BY <1>3, <2>2, Zenon DEF Reads
  <2> QED BY <2>1, <2>2
<1>18. c.f \in Flag
  BY Zenon DEF Reads
<1>19. Reads(d, o, f, a)
  <2>1. a.f \in Flag /\ a.o \in Nat /\ a.bytes \in Seq(Byte)
    BY <1>6, <1>8, <1>18
  <2>2. Left(d, o, f) = a.bytes \o Left(d, a.o, a.f)
    BY <1>3, <1>6, <1>7, Zenon
  <2>3. a.bytes = << >> => a.o = o /\ Back(a.f) = Back(f)
    BY <1>6, <1>8, <1>14, <1>15
  <2>4. a.bytes # << >> => /\ Back(a.f) = << >>
                           /\ a.o = o + Len(a.bytes) - Len(Back(f))
    BY <1>6, <1>8, <1>9, <1>11, <1>14, <1>15, Zenon
  <2>5. /\ f.error => a.f.error
        /\ f.eof => a.f.eof
        /\ a.f.eof /\ ~f.eof => Left(d, a.o, a.f) = << >>
    BY <1>3, <1>6, <1>16, <1>17, Zenon
  <2> QED BY <2>1, <2>2, <2>3, <2>4, <2>5, Zenon DEF Reads
<1> QED BY <1>1, <1>2, <1>4, <1>5, <1>19, Zenon

-----------------------------------------------------------------------------
(***************************************************************************)
(* fgets, whose loop is a recursive function: it exists for every size,    *)
(* and what it gives after i characters is an input call that has not met  *)
(* a newline but at its end.                                               *)
(***************************************************************************)
\* Nat is the only set of naturals that has 0 and is closed under successor.
LEMMA Induction ==
  ASSUME NEW S \in SUBSET Nat, 0 \in S, \A n \in S : n + 1 \in S
  PROVE  S = Nat
<1> SUFFICES ASSUME Nat \ S # {} PROVE FALSE
  OBVIOUS
<1> DEFINE R == OpToRel(<, Nat)
<1>1. IsWellFoundedOn(R, Nat)
  BY NatLessThanWellFounded
<1>2. R = {p \in Nat \X Nat : p[1] < p[2]}
  BY DEF OpToRel
<1> HIDE DEF R
<1>3. PICK x \in Nat \ S : \A y \in Nat \ S : <<y, x>> \notin R
  BY <1>1, WFMin
<1>4. x # 0 /\ x - 1 \in Nat /\ x - 1 + 1 = x
  BY <1>3
<1>5. x - 1 \in S
  <2>1. <<x - 1, x>> \in Nat \X Nat /\ x - 1 < x
    BY <1>4
  <2>2. <<x - 1, x>> \in R
    BY <1>2, <2>1
  <2> QED BY <1>3, <1>4, <2>2
<1> QED BY <1>3, <1>4, <1>5

\* One more character, number i, after those of a.
OneMore(s, a, i, bad) ==
  LET c == Fgetc(s, a.f, a.o, IF i = bad THEN "fails" ELSE "whole")
  IN IF a.stop THEN a
     ELSE [f |-> c.f, o |-> c.o, bytes |-> a.bytes \o c.bytes,
           stop |-> c.bytes \in {<< >>, <<NewLine>>}]

None(f, o) == [f |-> f, o |-> o, bytes |-> << >>, stop |-> FALSE]

\* g gives what the loop has after each number of characters up to m.
Loop(s, f, o, m, bad, g) ==
  g = [i \in 0..m |-> IF i = 0 THEN None(f, o)
                      ELSE OneMore(s, g[i - 1], i, bad)]

\* The passes of fgets' loop exist, however many they are.
LEMMA LoopExists ==
  ASSUME NEW s, NEW f, NEW o, NEW bad, NEW m \in Nat
  PROVE  \E g : Loop(s, f, o, m, bad, g)
<1> DEFINE S == {n \in Nat : \E g : Loop(s, f, o, n, bad, g)}
<1>1. 0 \in S
  <2> DEFINE g == [i \in 0..0 |-> None(f, o)]
  <2>1. \A i \in 0..0 : i = 0
    OBVIOUS
  <2>2. g = [i \in 0..0 |-> IF i = 0 THEN None(f, o)
                            ELSE OneMore(s, g[i - 1], i, bad)]
    BY <2>1, Zenon
  <2>3. Loop(s, f, o, 0, bad, g)
    BY <2>2, Zenon DEF Loop
  <2>4. \E h : Loop(s, f, o, 0, bad, h)
    BY <2>3
  <2> QED BY <2>4
<1>2. ASSUME NEW n \in S PROVE n + 1 \in S
  <2>1. n \in Nat /\ n + 1 \in Nat
    OBVIOUS
  <2>2. PICK g : Loop(s, f, o, n, bad, g)
    OBVIOUS
  <2> DEFINE last == OneMore(s, g[n], n + 1, bad)
             h    == [i \in 0..n + 1 |-> IF i = n + 1 THEN last ELSE g[i]]
  <2>3. \A i \in 0..n + 1 :
          h[i] = IF i = 0 THEN None(f, o) ELSE OneMore(s, h[i - 1], i, bad)
    <3> SUFFICES ASSUME NEW i \in 0..n + 1
                 PROVE  h[i] = IF i = 0 THEN None(f, o)
                               ELSE OneMore(s, h[i - 1], i, bad)
      OBVIOUS
    <3>1. CASE i = n + 1
      <4>1. i # 0 /\ i - 1 = n /\ n \in 0..n + 1 /\ n # n + 1
        BY <2>1, <3>1
      <4>2. h[i] = last
        BY <3>1
      <4>3. h[i - 1] = g[n]
        BY <4>1
      <4> HIDE DEF h
      <4> QED BY <3>1, <4>1, <4>2, <4>3, Zenon
    <3>2. CASE i # n + 1
      <4>1. i \in 0..n
        BY <2>1, <3>2
      <4>2. h[i] = g[i]
        BY <3>2
      <4>3. g[i] = IF i = 0 THEN None(f, o) ELSE OneMore(s, g[i - 1], i, bad)
        BY <2>2, <4>1, Zenon DEF Loop
      <4>4. i # 0 => h[i - 1] = g[i - 1]
        <5>1. i # 0 => i - 1 \in 0..n + 1 /\ i - 1 # n + 1
          BY <2>1, <4>1
        <5> QED BY <5>1, Zenon
      <4> HIDE DEF h
      <4> QED BY <4>2, <4>3, <4>4, Zenon
    <3> QED BY <3>1, <3>2
  <2>4. Loop(s, f, o, n + 1, bad, h)
    <3>1. h = [i \in 0..n + 1 |-> h[i]]
      OBVIOUS
    <3> HIDE DEF h
    <3> QED BY <2>3, <3>1, Zenon DEF Loop
  <2>5. \E x : Loop(s, f, o, n + 1, bad, x)
    BY <2>4
  <2> QED BY <2>1, <2>5
<1>3. S \in SUBSET Nat
  OBVIOUS
<1> HIDE DEF S
<1>4. S = Nat
  BY <1>1, <1>2, <1>3, Induction
<1> QED BY <1>4 DEF S

\* fgets returns what its loop has after size - 1 characters.
LEMMA FgetsLoops ==
  ASSUME NEW s, NEW f, NEW o, NEW bad, NEW size \in Nat \ {0}
  PROVE  \E g : /\ Loop(s, f, o, size - 1, bad, g)
                /\ Fgets(s, f, o, size, bad) = g[size - 1]
<1> DEFINE after[i \in 0..size - 1] ==
        IF i = 0 THEN [f |-> f, o |-> o, bytes |-> << >>, stop |-> FALSE]
        ELSE LET so_far == after[i - 1]
                 c == Fgetc(s, so_far.f, so_far.o,
                            IF i = bad THEN "fails" ELSE "whole")
             IN IF so_far.stop THEN so_far
                ELSE [f |-> c.f, o |-> c.o, bytes |-> so_far.bytes \o c.bytes,
                      stop |-> c.bytes \in {<< >>, <<NewLine>>}]
<1>1. Fgets(s, f, o, size, bad) = after[size - 1]
  BY Zenon DEF Fgets
<1>2. size - 1 \in Nat
  OBVIOUS
<1>3. after = CHOOSE g : Loop(s, f, o, size - 1, bad, g)
  BY Zenon DEF Loop, None, OneMore
<1> HIDE DEF after
<1>4. Loop(s, f, o, size - 1, bad, after)
  BY <1>2, <1>3, LoopExists, Zenon
<1> QED BY <1>1, <1>4

\* What the loop has after i characters: it goes on as long as each of them
\* was read and none was a newline.
NoLine(bytes) == \A i \in 1..Len(bytes) : bytes[i] # NewLine
Line(bytes) == /\ Len(bytes) > 0 /\ bytes[Len(bytes)] = NewLine
               /\ \A i \in 1..Len(bytes) - 1 : bytes[i] # NewLine

Starved(d, r) ==
  /\ r.f.eof \/ r.f.error
  /\ d.path # Pipe => Left(d, r.o, r.f) = << >> \/ r.f.error

Looped(d, o, f, a, i) ==
  /\ Reads(d, o, f, a) /\ Len(a.bytes) <= i
  /\ a.stop \in BOOLEAN
  /\ ~a.stop => Len(a.bytes) = i /\ NoLine(a.bytes)
  /\ a.stop => Line(a.bytes) \/ (NoLine(a.bytes) /\ Starved(d, a))

\* A call that moves nothing.
LEMMA NothingRead ==
  ASSUME NEW d, NEW o \in Nat, NEW f \in Flag, NEW r,
         r.f = f, r.o = o, r.bytes = << >>, Left(d, o, f) \in Seq(Byte)
  PROVE  Reads(d, o, f, r)
<1>1. Left(d, o, f) = r.bytes \o Left(d, r.o, r.f)
  BY ConcatEmptySeq
<1> QED BY <1>1 DEF Reads

\* One more byte b behind a line that has no newline yet.
LEMMA LineGrows ==
  ASSUME NEW x \in Seq(Byte), NoLine(x), NEW b \in Byte, NEW xb, xb = x \o <<b>>
  PROVE  /\ Len(xb) = Len(x) + 1
         /\ b = NewLine => Line(xb)
         /\ b # NewLine => NoLine(xb)
<1>1. /\ xb \in Seq(Byte) /\ Len(xb) = Len(x) + 1
      /\ \A i \in 1..Len(x) : xb[i] = x[i]
      /\ xb[Len(x) + 1] = b
  OBVIOUS
<1>2. PICK n \in Nat : n = Len(x)
  OBVIOUS
<1>3. /\ \A i \in 1..n : xb[i] # NewLine
      /\ xb[n + 1] = b /\ Len(xb) = n + 1
  BY <1>1, <1>2 DEF NoLine
<1>4. PICK m : m = n + 1
  OBVIOUS
<1>5. m > 0 /\ m - 1 = n /\ (\A i \in 1..m : i = m \/ i \in 1..n)
  BY <1>4
<1>6. /\ \A i \in 1..m - 1 : xb[i] # NewLine
      /\ xb[m] = b /\ Len(xb) = m
  BY <1>3, <1>4, <1>5, Zenon
<1>7. b = NewLine => Line(xb)
  BY <1>5, <1>6, Zenon DEF Line
<1>8. b # NewLine => NoLine(xb)
  BY <1>3, <1>5, <1>6, Zenon DEF NoLine
<1> QED BY <1>1, <1>7, <1>8

\* At most one byte, and not none.
LEMMA OneByte ==
  ASSUME NEW q \in Seq(Byte), q # << >>, Len(q) <= 1
  PROVE  \E b \in Byte : q = <<b>>
<1>1. PICK n \in Nat : n = Len(q) /\ (n = 0 => q = << >>)
  OBVIOUS
<1>2. n = 1
  BY <1>1
<1>3. Len(q) = 1
  BY <1>1, <1>2
<1>4. q[1] \in Byte /\ q = <<q[1]>>
  BY <1>3
<1> QED BY <1>4

\* The loop goes on from what it has.
LEMMA LoopStep ==
  ASSUME StdioInv, NEW s \in Stream, fd[s] \in DOMAIN open,
         NEW f \in Flag, NEW o \in Nat, NEW i \in Nat, NEW bad,
         NEW a, Looped(open[fd[s]], o, f, a, i)
  PROVE  Looped(open[fd[s]], o, f, OneMore(s, a, i + 1, bad), i + 1)
<1>1. PICK d : d = open[fd[s]]
  OBVIOUS
<1>2. CASE a.stop
  <2>1. OneMore(s, a, i + 1, bad) = a
    BY <1>2, Zenon DEF OneMore
  <2>2. PICK n \in Nat : n = Len(a.bytes)
    <3>1. a.bytes \in Seq(Byte)
      BY Zenon DEF Looped, Reads
    <3> QED BY <3>1
  <2>3. n <= i
    BY <2>2, Zenon DEF Looped
  <2>4. n <= i + 1
    BY <2>3
  <2> QED BY <1>2, <2>1, <2>2, <2>4, Zenon DEF Looped
<1>3. CASE ~a.stop
  <2>1. PICK mood : mood = IF i + 1 = bad THEN "fails" ELSE "whole"
    OBVIOUS
  <2>2. PICK c : c = Fgetc(s, a.f, a.o, mood)
    OBVIOUS
  <2>3. PICK z : z = OneMore(s, a, i + 1, bad)
    OBVIOUS
  <2>4. z = [f |-> c.f, o |-> c.o, bytes |-> a.bytes \o c.bytes,
             stop |-> c.bytes \in {<< >>, <<NewLine>>}]
    BY <1>3, <2>1, <2>2, <2>3, Zenon DEF OneMore
  <2>5. z.f = c.f /\ z.o = c.o /\ z.bytes = a.bytes \o c.bytes
        /\ z.stop = (c.bytes \in {<< >>, <<NewLine>>})
    BY <2>4
  <2>6. a.f \in Flag /\ a.o \in Nat /\ a.bytes \in Seq(Byte)
    BY Zenon DEF Looped, Reads
  <2>7. Reads(d, a.o, a.f, c) /\ ReadsAll(d, c, 1)
    BY <1>1, <2>2, <2>6, FgetcReads
  <2>8. c.f \in Flag /\ c.o \in Nat /\ c.bytes \in Seq(Byte)
    BY <2>7, Zenon DEF Reads
  <2>9. Left(d, c.o, c.f) \in Seq(Byte)
    <3>1. d \in DescriptionSet /\ (d.access # "w" => d.path \in DOMAIN files)
      BY <1>1 DEF StdioInv, KernelTyped, OpenTyped
    <3>2. Rest(d, c.o) \in Seq(Byte) /\ Back(c.f) \in Seq(Byte)
      BY <2>8, <3>1, RestType, BackType
    <3> QED BY <3>2, ConcatProperties DEF Left
  <2>10. Reads(d, o, f, z)
    <3>1. Reads(d, o, f, a)
      BY <1>1, Zenon DEF Looped
    <3>2. Reads(d, o, f, [f |-> c.f, o |-> c.o, bytes |-> a.bytes \o c.bytes])
      BY <2>7, <2>9, <3>1, ReadsThen
    <3>3. PICK y : y = [f |-> c.f, o |-> c.o, bytes |-> a.bytes \o c.bytes]
      OBVIOUS
    <3>4. y.f = z.f /\ y.o = z.o /\ y.bytes = z.bytes
      BY <2>5, <3>3
    <3> QED BY <3>2, <3>3, <3>4, Zenon DEF Reads
  <2>11. Len(a.bytes) = i /\ NoLine(a.bytes)
    BY <1>3, Zenon DEF Looped
  <2>12. CASE c.bytes = << >>
    <3>1. z.bytes = a.bytes
      BY <2>5, <2>6, <2>12, ConcatEmptySeq
    <3>2. z.stop = TRUE
      BY <2>5, <2>12
    <3>3. PICK n \in Nat : n = Len(c.bytes)
      BY <2>8
    <3>4. n = 0
      BY <2>12, <3>3
    <3>5. n < 1 /\ 1 > 0 /\ i <= i + 1
      BY <3>4
    <3>6. Starved(d, z)
      BY <2>5, <2>7, <2>12, <3>3, <3>5, Zenon DEF ReadsAll, Starved
    <3> QED BY <1>1, <2>3, <2>10, <2>11, <3>1, <3>2, <3>5, <3>6, Zenon
         DEF Looped
  <2>13. CASE c.bytes # << >>
    <3>1. PICK b \in Byte : c.bytes = <<b>>
      <4>1. Len(c.bytes) <= 1
        BY <2>7, Zenon DEF ReadsAll
      <4>2. PICK q \in Seq(Byte) : q = c.bytes
        BY <2>8
      <4>3. q # << >> /\ Len(q) <= 1
        BY <2>13, <4>1, <4>2, Zenon
      <4>4. \E b \in Byte : q = <<b>>
        BY <4>3, OneByte
      <4> QED BY <4>2, <4>4
    <3>2. z.stop = (b = NewLine)
      <4>1. <<b>> # << >> /\ (<<b>> = <<NewLine>> <=> b = NewLine)
        OBVIOUS
      <4>2. z.stop <=> b = NewLine
        BY <2>5, <3>1, <4>1
      <4>3. z.stop \in BOOLEAN
        BY <2>5
      <4> QED BY <4>2, <4>3
    <3>3. PICK zb : zb = a.bytes \o <<b>>
      OBVIOUS
    <3>4. /\ Len(zb) = Len(a.bytes) + 1
          /\ b = NewLine => Line(zb)
          /\ b # NewLine => NoLine(zb)
      BY <2>6, <2>11, <3>3, LineGrows
    <3>5. Len(zb) = i + 1 /\ i + 1 <= i + 1
      BY <2>11, <3>4
    <3>6. z.bytes = zb
      BY <2>5, <3>1, <3>3
    <3>7. z.stop \in BOOLEAN /\ (z.stop => b = NewLine) /\ (~z.stop => b # NewLine)
      BY <3>2
    <3> QED BY <1>1, <2>3, <2>10, <3>4, <3>5, <3>6, <3>7, Zenon DEF Looped
  <2> QED BY <2>12, <2>13
<1> QED BY <1>2, <1>3

\* fgets returns a line, or what there was of one.
LEMMA FgetsReads ==
  ASSUME StdioInv, NEW s \in Stream, fd[s] \in DOMAIN open,
         NEW f \in Flag, NEW o \in Nat, NEW size \in Nat \ {0}, NEW bad
  PROVE  Looped(open[fd[s]], o, f, Fgets(s, f, o, size, bad), size - 1)
<1>1. PICK d : d = open[fd[s]]
  OBVIOUS
<1>2. PICK m \in Nat : m = size - 1
  OBVIOUS
<1>3. PICK g : Loop(s, f, o, m, bad, g) /\ Fgets(s, f, o, size, bad) = g[m]
  BY <1>2, FgetsLoops
<1>4. /\ g[0] = None(f, o)
      /\ \A i \in 1..m : g[i] = OneMore(s, g[i - 1], i, bad)
  <2>1. 0 \in 0..m /\ (\A i \in 1..m : i \in 0..m /\ i # 0)
    OBVIOUS
  <2> QED BY <1>3, <2>1, Zenon DEF Loop
<1> DEFINE S == {i \in Nat : i <= m => Looped(d, o, f, g[i], i)}
<1>5. 0 \in S
  <2>1. PICK r : r = None(f, o)
    OBVIOUS
  <2>2. r.f = f /\ r.o = o /\ r.bytes = << >> /\ r.stop = FALSE
        /\ Len(r.bytes) = 0
    BY <2>1 DEF None
  <2>3. Left(d, o, f) \in Seq(Byte)
    <3>1. d \in DescriptionSet /\ (d.access # "w" => d.path \in DOMAIN files)
      BY <1>1 DEF StdioInv, KernelTyped, OpenTyped
    <3>2. Rest(d, o) \in Seq(Byte) /\ Back(f) \in Seq(Byte)
      BY <3>1, RestType, BackType
    <3> QED BY <3>2, ConcatProperties DEF Left
  <2>4. Reads(d, o, f, r)
    BY <2>2, <2>3, NothingRead
  <2>5. NoLine(r.bytes)
    BY <2>2 DEF NoLine
  <2>6. 0 <= 0 /\ 0 \in Nat
    OBVIOUS
  <2>7. Looped(d, o, f, r, 0)
    BY <2>2, <2>4, <2>5, <2>6, Zenon DEF Looped
  <2> QED BY <1>4, <2>1, <2>6, <2>7, Zenon
<1>6. ASSUME NEW i \in S PROVE i + 1 \in S
  <2>1. i \in Nat /\ i + 1 \in Nat
    OBVIOUS
  <2>2. ASSUME i + 1 <= m PROVE Looped(d, o, f, g[i + 1], i + 1)
    <3>1. i <= m /\ i + 1 \in 1..m /\ i + 1 - 1 = i
      BY <2>1, <2>2
    <3>2. Looped(d, o, f, g[i], i)
      BY <1>6, <3>1
    <3>3. g[i + 1] = OneMore(s, g[i], i + 1, bad)
      <4>1. PICK j \in 1..m : j = i + 1 /\ j - 1 = i
        BY <3>1
      <4>2. g[j] = OneMore(s, g[j - 1], j, bad)
        BY <1>4
      <4> QED BY <4>1, <4>2, Zenon
    <3> QED BY <1>1, <2>1, <3>2, <3>3, LoopStep
  <2> QED BY <2>1, <2>2
<1>7. S \in SUBSET Nat
  OBVIOUS
<1> HIDE DEF S
<1>8. S = Nat
  BY <1>5, <1>6, <1>7, Induction
<1>9. m \in S /\ m <= m
  BY <1>8
<1>10. Looped(d, o, f, g[m], m)
  BY <1>9 DEF S
<1> QED BY <1>1, <1>2, <1>3, <1>10

-----------------------------------------------------------------------------
(***************************************************************************)
(* The calls for input are those of the contract.                          *)
(***************************************************************************)
\* The description of an open stream is one of the kernel's.
LEMMA OpenDescription ==
  ASSUME StdioInv, NEW s \in Stream, fd[s] \in DOMAIN open
  PROVE  /\ open[fd[s]] \in DescriptionSet
         /\ open[fd[s]].access # "w" => open[fd[s]].path \in DOMAIN files
         /\ open[fd[s]].path # Terminal => open[fd[s]].path \in DOMAIN files
  BY DEF StdioInv, KernelTyped, OpenTyped

\* What the contract calls pending is what is left.
LEMMA PendingIsLeft ==
  ASSUME NEW d, NEW o, NEW f \in Flag
  PROVE  Contract!Pending(Seen(d, o, f)) = Left(d, o, f)
<1>1. PICK st : st = Seen(d, o, f)
  OBVIOUS
<1>2. /\ st.access = d.access /\ st.back = Back(f)
      /\ st.path = d.path /\ st.pos = o
  BY <1>1 DEF Seen
<1>3. CASE d.access = "w"
  <2>1. Left(d, o, f) = Back(f) \o << >>
    BY <1>3, Zenon DEF Left, Rest
  <2>2. Back(f) \o << >> = Back(f)
    BY BackType, ConcatEmptySeq
  <2> QED BY <1>1, <1>2, <1>3, <2>1, <2>2, Zenon DEF Contract!Pending
<1>4. CASE d.access # "w"
  BY <1>1, <1>2, <1>4, Zenon DEF Contract!Pending, Left, Rest
<1> QED BY <1>3, <1>4

\* The bytes in front of the others.
LEMMA FrontOf ==
  ASSUME NEW x \in Seq(Byte), NEW y \in Seq(Byte)
  PROVE  x = SubSeq(x \o y, 1, Len(x))
<1>1. PICK n \in Nat : n = Len(x)
  OBVIOUS
<1>2. PICK z \in Seq(Byte) : z = x \o y
  BY ConcatProperties
<1>3. Len(z) = n + Len(y) /\ \A i \in 1..n : z[i] = x[i]
  BY <1>1, <1>2
<1>4. n <= Len(z)
  BY <1>3
<1>5. PICK q : q = SubSeq(z, 1, n)
  OBVIOUS
<1>6. q \in Seq(Byte) /\ Len(q) = n /\ \A i \in 1..n : q[i] = z[i]
  BY <1>3, <1>4, <1>5
<1>7. q = x
  BY <1>1, <1>3, <1>6, SeqEqual
<1> QED BY <1>1, <1>2, <1>5, <1>7, Zenon

\* The stream st with the indicators of f.
Marked(st, f) == [st EXCEPT !.eof = f.eof, !.error = f.error]

\* A stream after the input of the bytes of r.
LEMMA AfterIsSeen ==
  ASSUME NEW d, NEW o \in Nat, NEW f \in Flag, NEW r, Reads(d, o, f, r),
         NEW y, y = Contract!After(Seen(d, o, f), Len(r.bytes))
  PROVE  /\ Marked(y, r.f) = Seen(d, r.o, r.f)
         /\ Contract!Pending(y) = Left(d, r.o, r.f)
<1>1. PICK x \in Seq(Byte) : x = r.bytes
  BY Zenon DEF Reads
<1>2. PICK n \in Nat : n = Len(x)
  OBVIOUS
<1>3. n = 0 <=> x = << >>
  BY <1>2
<1>4. PICK g \in Flag : g = r.f
  BY Zenon DEF Reads
<1>5. PICK p \in Nat : p = r.o
  BY Zenon DEF Reads
<1>6. PICK lb \in Nat : lb = Len(Back(f))
  BY BackType
<1>7. PICK back : back = Back(g)
  OBVIOUS
<1>8. PICK st : st = Seen(d, o, f)
  OBVIOUS
<1>9. PICK after : after = Contract!After(st, n)
  OBVIOUS
<1>10. /\ n = 0 => p = o /\ back = Back(f)
       /\ n # 0 => back = << >> /\ p = o + n - lb
  BY <1>1, <1>2, <1>3, <1>4, <1>5, <1>6, <1>7, Zenon DEF Reads
<1>11. st = [path |-> d.path, append |-> d.append, access |-> d.access,
             pos |-> o, back |-> Back(f), eof |-> f.eof, error |-> f.error]
  BY <1>8, Zenon DEF Seen
<1>12. after = [path |-> d.path, append |-> d.append, access |-> d.access,
                pos |-> p, back |-> back, eof |-> f.eof, error |-> f.error]
  <2>1. CASE n = 0
    BY <1>9, <1>10, <1>11, <2>1, Zenon DEF Contract!After
  <2>2. CASE n # 0
    <3>1. after = [st EXCEPT !.pos = st.pos + n - Len(st.back), !.back = << >>]
      BY <1>9, <2>2, Zenon DEF Contract!After
    <3>2. st.pos = o /\ st.back = Back(f)
      BY <1>11
    <3>3. after = [st EXCEPT !.pos = p, !.back = back]
      BY <1>6, <1>10, <2>2, <3>1, <3>2, Zenon
    <3> QED BY <1>11, <3>3
  <2> QED BY <2>1, <2>2
<1>13. Marked(after, g) = Seen(d, p, g)
  <2>1. PICK z : z = [after EXCEPT !.eof = g.eof, !.error = g.error]
    OBVIOUS
  <2>2. z = [path |-> d.path, append |-> d.append, access |-> d.access,
             pos |-> p, back |-> back, eof |-> g.eof, error |-> g.error]
    BY <1>12, <2>1
  <2> QED BY <1>7, <2>1, <2>2, Zenon DEF Seen, Marked
<1>14. Contract!Pending(after) = Left(d, p, g)
  <2>1. /\ after.access = d.access /\ after.back = back
        /\ after.path = d.path /\ after.pos = p
    BY <1>12
  <2>2. PICK sg : sg = Seen(d, p, g)
    OBVIOUS
  <2>3. /\ sg.access = d.access /\ sg.back = back
        /\ sg.path = d.path /\ sg.pos = p
    BY <1>7, <2>2 DEF Seen
  <2>4. Contract!Pending(after) = Contract!Pending(sg)
    BY <2>1, <2>3, Zenon DEF Contract!Pending
  <2> QED BY <2>2, <2>4, PendingIsLeft, Zenon
<1> QED BY <1>1, <1>2, <1>4, <1>5, <1>8, <1>9, <1>13, <1>14, Zenon

\* A call that takes what r has from an open stream.
LEMMA InputImplements ==
  ASSUME StdioInv, NEW s \in Stream, fd[s] \in DOMAIN open,
         NEW r, Took(s, r), NEW asked \in Nat, NEW stopped \in BOOLEAN,
         Reads(open[fd[s]], open[fd[s]].offset, flags[s], r),
         answer'.asked = asked, answer'.bytes = r.bytes,
         Len(r.bytes) <= asked,
         r.bytes = << >> /\ asked > 0 => r.f.eof \/ r.f.error,
         Len(r.bytes) < asked /\ ~stopped /\ open[fd[s]].path # Pipe =>
           Left(open[fd[s]], r.o, r.f) = << >> \/ r.f.error
  PROVE  Contract!Input(s, stopped) /\ StdioInv'
<1>1. PICK d \in DescriptionSet : d = open[fd[s]]
  BY OpenDescription
<1>2. PICK o \in Nat : o = d.offset
  BY DEF DescriptionSet
<1>3. PICK f \in Flag : f = flags[s]
  BY DEF StdioInv, KernelTyped, FlagsTyped
<1>4. Reads(d, o, f, r)
  BY <1>1, <1>2, <1>3, Zenon
<1>5. PICK x \in Seq(Byte) : x = r.bytes
  BY <1>4, Zenon DEF Reads
<1>6. PICK g \in Flag : g = r.f
  BY <1>4, Zenon DEF Reads
<1>7. PICK p \in Nat : p = r.o
  BY <1>4, Zenon DEF Reads
<1>8. /\ UNCHANGED <<fd, files>>
      /\ flags' = [flags EXCEPT ![s] = g]
      /\ open' = Moved(fd[s], p)
  BY <1>6, <1>7 DEF Took
<1>9. FilesTyped' /\ DOMAIN files' = DOMAIN files
  BY <1>8 DEF StdioInv, KernelTyped, FilesTyped
<1>10. PICK new : new = Seen(d, p, g)
  OBVIOUS
<1>11. Streams' = [Streams EXCEPT ![s] = new] /\ StdioInv'
  BY <1>1, <1>8, <1>9, <1>10, OneMoves
<1>12. PICK st : st = Streams[s]
  OBVIOUS
<1>13. st = Seen(d, o, f)
  BY <1>1, <1>2, <1>3, <1>12, StreamOpen
<1>14. Streams'[s] = new
  <2>1. Streams = [t \in Stream |-> Streams[t]]
    BY DEF Streams
  <2> QED BY <1>11, <2>1
<1>15. new.eof = g.eof /\ new.error = g.error /\ st.path = d.path
       /\ st.eof = f.eof /\ st.error = f.error
  BY <1>10, <1>13 DEF Seen
<1>16. PICK after : after = Contract!After(st, Len(x))
  OBVIOUS
<1>17. /\ Marked(after, g) = new
       /\ Contract!Pending(after) = Left(d, p, g)
  <2>1. after = Contract!After(Seen(d, o, f), Len(r.bytes))
    BY <1>5, <1>13, <1>16, Zenon
  <2>2. /\ Marked(after, r.f) = Seen(d, r.o, r.f)
        /\ Contract!Pending(after) = Left(d, r.o, r.f)
    BY <1>4, <2>1, AfterIsSeen
  <2> QED BY <1>6, <1>7, <1>10, <2>2, Zenon
<1>18. Contract!Pending(st) = x \o Left(d, p, g)
  BY <1>4, <1>5, <1>6, <1>7, <1>13, PendingIsLeft, Zenon DEF Reads
<1>19. Left(d, p, g) \in Seq(Byte)
  <2>1. d.access # "w" => d.path \in DOMAIN files
    BY <1>1, OpenDescription
  <2>2. Rest(d, p) \in Seq(Byte) /\ Back(g) \in Seq(Byte)
    BY <2>1, RestType, BackType
  <2> QED BY <2>2, ConcatProperties DEF Left
<1>20. x = SubSeq(Contract!Pending(st), 1, Len(x))
  BY <1>18, <1>19, FrontOf
<1>21. /\ f.error => g.error
       /\ f.eof => g.eof
       /\ g.eof /\ ~f.eof => Left(d, p, g) = << >>
  BY <1>4, <1>6, <1>7, Zenon DEF Reads
<1>22. Contract!Becomes(s, Marked(after, g))
  BY <1>8, <1>11, <1>17 DEF Contract!Becomes
<1>23. Contract!Input(s, stopped)
  BY <1>1, <1>5, <1>6, <1>7, <1>12, <1>14, <1>15, <1>16, <1>17, <1>20, <1>21,
     <1>22, Zenon DEF Contract!Input, Marked
<1> QED BY <1>11, <1>23

\* A call that takes something from a stream that is closed.
LEMMA InputIdle ==
  ASSUME StdioInv, NEW s \in Stream, fd[s] \notin DOMAIN open,
         NEW r, Took(s, r)
  PROVE  Contract!Idle(s) /\ StdioInv'
<1>1. UNCHANGED <<fd, files>>
  BY DEF Took
<1>2. PICK g : g = r.f
  OBVIOUS
<1>3. flags' = [flags EXCEPT ![s] = g]
  BY <1>2, Zenon DEF Took
<1>4. open' = [e \in DOMAIN open |-> open[e]]
  <2>1. \A e \in DOMAIN open : e # fd[s]
    OBVIOUS
  <2>2. open' = Moved(fd[s], r.o)
    BY DEF Took
  <2> QED BY <2>1, <2>2 DEF Moved
<1>5. Streams' = Streams /\ StdioInv'
  BY <1>1, <1>3, <1>4, NoneMoves
<1>6. Streams[s] = Contract!Closed
  BY StreamClosed
<1> QED BY <1>1, <1>5, <1>6 DEF Contract!Idle

\* A step of the contract on stream s.
StreamStep(s) ==
  /\ s = answer'.stream
  /\ \/ Streams[s] = Contract!Closed /\ (Contract!Fopen(s) \/ Contract!Idle(s))
     \/ /\ Streams[s] # Contract!Closed
        /\ \/ Contract!Fread(s) \/ Contract!Fgetc(s) \/ Contract!Fgets(s)
           \/ Contract!Ungetc(s) \/ Contract!Fwrite(s) \/ Contract!Fputs(s)
           \/ Contract!Fseek(s) \/ Contract!Ftell(s) \/ Contract!Fclose(s)

\* What is asked of every call on a stream.
Implements(s) == StreamStep(s) /\ StdioInv'

\* A call on a closed stream is a step of the contract.
LEMMA IdleStep ==
  ASSUME NEW s \in Stream, answer'.stream = s, Contract!Idle(s), StdioInv'
  PROVE  Implements(s)
  BY Zenon DEF Implements, StreamStep, Contract!Idle

\* fread.
LEMMA FreadImplements ==
  ASSUME StdioInv, NEW s \in Stream, CallFread(s)
  PROVE  Implements(s)
<1>1. PICK count \in Counts, mood \in Moods :
        LET total == count[1] * count[2]
            r     == Fread(s, flags[s], Offset(s), total, mood)
        IN /\ Took(s, r)
           /\ answer' = Answer("fread", s, total, count[1], r.bytes,
                               IF total = 0 THEN 0
                               ELSE Len(r.bytes) \div count[1])
  BY Zenon DEF CallFread
<1>2. count[1] \in Nat /\ count[2] \in Nat
  BY BoundAssumption
<1>3. PICK total \in Nat : total = count[1] * count[2]
  BY <1>2
<1>4. PICK r : r = Fread(s, flags[s], Offset(s), total, mood)
  OBVIOUS
<1>5. Took(s, r)
  BY <1>1, <1>3, <1>4, Zenon
<1>6. answer' = [call |-> "fread", stream |-> s, asked |-> total,
                 size |-> count[1], bytes |-> r.bytes,
                 value |-> IF total = 0 THEN 0 ELSE Len(r.bytes) \div count[1]]
  BY <1>1, <1>3, <1>4, Zenon DEF Answer
<1>7. /\ answer'.call = "fread" /\ answer'.stream = s /\ answer'.asked = total
      /\ answer'.size = count[1] /\ answer'.bytes = r.bytes
      /\ answer'.value = IF total = 0 THEN 0 ELSE Len(r.bytes) \div count[1]
  BY <1>6
<1>8. CASE fd[s] \notin DOMAIN open
  BY <1>5, <1>7, <1>8, InputIdle, IdleStep
<1>9. CASE fd[s] \in DOMAIN open
  <2>1. PICK d \in DescriptionSet : d = open[fd[s]]
    BY <1>9, OpenDescription
  <2>2. PICK o \in Nat : o = d.offset
    BY DEF DescriptionSet
  <2>3. PICK f \in Flag : f = flags[s]
    BY <1>9 DEF StdioInv, KernelTyped, FlagsTyped
  <2>4. r = Fread(s, f, o, total, mood)
    BY <1>4, <1>9, <2>1, <2>2, <2>3, Zenon DEF Offset
  <2>5. Reads(d, o, f, r) /\ ReadsAll(d, r, total)
    BY <1>9, <2>1, <2>4, FreadReads
  <2>6. /\ Len(r.bytes) <= total
        /\ r.bytes = << >> /\ total > 0 => r.f.eof \/ r.f.error
        /\ Len(r.bytes) < total /\ ~FALSE /\ d.path # Pipe =>
             Left(d, r.o, r.f) = << >> \/ r.f.error
    BY <2>5, Zenon DEF ReadsAll
  <2>7. Contract!Input(s, FALSE) /\ StdioInv'
    BY <1>5, <1>7, <1>9, <2>1, <2>2, <2>3, <2>5, <2>6, InputImplements
  <2>8. Streams[s] # Contract!Closed
    BY <1>9, OpenIsNotClosed
  <2>9. answer'.asked > 0 =>
          answer'.value = Len(answer'.bytes) \div answer'.size
    <3>1. answer'.asked > 0 => ~(total = 0)
      BY <1>7
    <3> QED BY <1>7, <3>1, Zenon
  <2>10. Contract!Fread(s)
    BY <1>7, <2>7, <2>9, Zenon DEF Contract!Fread
  <2> QED BY <1>7, <2>7, <2>8, <2>10, Zenon DEF Implements, StreamStep
<1> QED BY <1>8, <1>9

\* fgetc.
LEMMA FgetcImplements ==
  ASSUME StdioInv, NEW s \in Stream, CallFgetc(s)
  PROVE  Implements(s)
<1>1. PICK mood \in Moods :
        LET r == Fgetc(s, flags[s], Offset(s), mood)
        IN Took(s, r) /\ answer' = Answer("fgetc", s, 1, 1, r.bytes,
                                          IF r.bytes = << >> THEN -1 ELSE 0)
  BY Zenon DEF CallFgetc
<1>2. PICK r : r = Fgetc(s, flags[s], Offset(s), mood)
  OBVIOUS
<1>3. Took(s, r)
  BY <1>1, <1>2, Zenon
<1>4. answer' = [call |-> "fgetc", stream |-> s, asked |-> 1, size |-> 1,
                 bytes |-> r.bytes, value |-> IF r.bytes = << >> THEN -1 ELSE 0]
  BY <1>1, <1>2, Zenon DEF Answer
<1>5. /\ answer'.call = "fgetc" /\ answer'.stream = s /\ answer'.asked = 1
      /\ answer'.bytes = r.bytes
      /\ answer'.value = IF r.bytes = << >> THEN -1 ELSE 0
  BY <1>4
<1>6. CASE fd[s] \notin DOMAIN open
  BY <1>3, <1>5, <1>6, InputIdle, IdleStep
<1>7. CASE fd[s] \in DOMAIN open
  <2>1. PICK d \in DescriptionSet : d = open[fd[s]]
    BY <1>7, OpenDescription
  <2>2. PICK o \in Nat : o = d.offset
    BY DEF DescriptionSet
  <2>3. PICK f \in Flag : f = flags[s]
    BY <1>7 DEF StdioInv, KernelTyped, FlagsTyped
  <2>4. r = Fgetc(s, f, o, mood)
    BY <1>2, <1>7, <2>1, <2>2, <2>3, Zenon DEF Offset
  <2>5. Reads(d, o, f, r) /\ ReadsAll(d, r, 1)
    BY <1>7, <2>1, <2>4, FgetcReads
  <2>6. /\ Len(r.bytes) <= 1
        /\ r.bytes = << >> /\ 1 > 0 => r.f.eof \/ r.f.error
        /\ Len(r.bytes) < 1 /\ ~FALSE /\ d.path # Pipe =>
             Left(d, r.o, r.f) = << >> \/ r.f.error
    BY <2>5, Zenon DEF ReadsAll
  <2>7. Contract!Input(s, FALSE) /\ StdioInv'
    BY <1>3, <1>5, <1>7, <2>1, <2>2, <2>3, <2>5, <2>6, InputImplements
  <2>8. Streams[s] # Contract!Closed
    BY <1>7, OpenIsNotClosed
  <2>9. answer'.value = -1 <=> answer'.bytes = << >>
    <3>1. 0 # -1
      OBVIOUS
    <3> QED BY <1>5, <3>1, Zenon
  <2>10. Contract!Fgetc(s)
    BY <1>5, <2>7, <2>9, Zenon DEF Contract!Fgetc
  <2> QED BY <1>5, <2>7, <2>8, <2>10, Zenon DEF Implements, StreamStep
<1> QED BY <1>6, <1>7

\* fgets.
LEMMA FgetsImplements ==
  ASSUME StdioInv, NEW s \in Stream, CallFgets(s)
  PROVE  Implements(s)
<1>1. PICK size \in LineSizes : \E bad \in 0..size - 1 :
        LET r == Fgets(s, flags[s], Offset(s), size, bad)
        IN Took(s, r) /\ answer' = Answer("fgets", s, size - 1, 1, r.bytes,
                                          IF size > 1 /\ r.bytes = << >>
                                          THEN -1 ELSE 0)
  BY Zenon DEF CallFgets
<1>2. PICK bad \in 0..size - 1 :
        LET r == Fgets(s, flags[s], Offset(s), size, bad)
        IN Took(s, r) /\ answer' = Answer("fgets", s, size - 1, 1, r.bytes,
                                          IF size > 1 /\ r.bytes = << >>
                                          THEN -1 ELSE 0)
  BY <1>1, Zenon
<1>3. size \in Nat \ {0}
  BY BoundAssumption
<1>4. PICK n \in Nat : n = size - 1 /\ (size > 1 <=> n > 0)
  BY <1>3
<1>5. PICK r : r = Fgets(s, flags[s], Offset(s), size, bad)
  OBVIOUS
<1>6. Took(s, r)
  BY <1>2, <1>5, Zenon
<1>7. answer' = [call |-> "fgets", stream |-> s, asked |-> n, size |-> 1,
                 bytes |-> r.bytes,
                 value |-> IF size > 1 /\ r.bytes = << >> THEN -1 ELSE 0]
  BY <1>2, <1>4, <1>5, Zenon DEF Answer
<1>8. /\ answer'.call = "fgets" /\ answer'.stream = s /\ answer'.asked = n
      /\ answer'.bytes = r.bytes
      /\ answer'.value = IF size > 1 /\ r.bytes = << >> THEN -1 ELSE 0
  BY <1>7
<1>9. CASE fd[s] \notin DOMAIN open
  BY <1>6, <1>8, <1>9, InputIdle, IdleStep
<1>10. CASE fd[s] \in DOMAIN open
  <2>1. PICK d \in DescriptionSet : d = open[fd[s]]
    BY <1>10, OpenDescription
  <2>2. PICK o \in Nat : o = d.offset
    BY DEF DescriptionSet
  <2>3. PICK f \in Flag : f = flags[s]
    BY <1>10 DEF StdioInv, KernelTyped, FlagsTyped
  <2>4. r = Fgets(s, f, o, size, bad)
    BY <1>5, <1>10, <2>1, <2>2, <2>3, Zenon DEF Offset
  <2>5. Looped(d, o, f, r, n)
    BY <1>3, <1>4, <1>10, <2>1, <2>4, FgetsReads
  <2>6. PICK x \in Seq(Byte) : x = r.bytes
    BY <2>5, Zenon DEF Looped, Reads
  <2>7. PICK m \in Nat : m = Len(x) /\ (x = << >> <=> m = 0)
    OBVIOUS
  <2>8. PICK line \in BOOLEAN : line <=> m > 0 /\ x[m] = NewLine
    OBVIOUS
  <2>9. \A i \in 1..m - 1 : x[i] # NewLine
    <3>1. \A i \in 1..m - 1 : i \in 1..m
      OBVIOUS
    <3>2. NoLine(x) \/ Line(x)
      BY <2>5, <2>6, Zenon DEF Looped
    <3> QED BY <2>7, <3>1, <3>2, Zenon DEF NoLine, Line
  <2>10. /\ m <= n
         /\ m < n => r.stop
         /\ r.stop => line \/ Starved(d, r)
    <3>1. /\ m <= n
          /\ ~r.stop => m = n
          /\ r.stop => Line(x) \/ Starved(d, r)
      BY <2>5, <2>6, <2>7, Zenon DEF Looped
    <3>2. Line(x) => line
      BY <2>7, <2>8, Zenon DEF Line
    <3>3. m = n => ~(m < n)
      OBVIOUS
    <3> QED BY <3>1, <3>2, <3>3, Zenon
  <2>11. m = 0 => ~line
    BY <2>8
  <2>12. r.bytes = << >> /\ n > 0 => r.f.eof \/ r.f.error
    <3>1. m = 0 /\ n > 0 => m < n
      OBVIOUS
    <3> QED BY <2>6, <2>7, <2>10, <2>11, <3>1, Zenon DEF Starved
  <2>13. Len(r.bytes) < n /\ ~line /\ d.path # Pipe =>
             Left(d, r.o, r.f) = << >> \/ r.f.error
    BY <2>6, <2>7, <2>10, Zenon DEF Starved
  <2>14. Reads(d, o, f, r)
    BY <2>5, Zenon DEF Looped
  <2>15. Len(r.bytes) <= n
    BY <2>6, <2>7, <2>10
  <2>16. Contract!Input(s, line) /\ StdioInv'
    BY <1>6, <1>8, <1>10, <2>1, <2>2, <2>3, <2>12, <2>13, <2>14, <2>15,
       InputImplements
  <2>17. Streams[s] # Contract!Closed
    BY <1>10, OpenIsNotClosed
  <2>18. answer'.value = -1 <=> answer'.bytes = << >> /\ answer'.asked > 0
    <3>1. 0 # -1
      OBVIOUS
    <3> QED BY <1>4, <1>8, <3>1, Zenon
  <2>19. Contract!Fgets(s)
    <3>1. line = (m > 0 /\ x[m] = NewLine)
      BY <2>8, Zenon
    <3>2. Contract!Input(s, m > 0 /\ x[m] = NewLine)
      BY <2>16, <3>1, Zenon
    <3> QED BY <1>8, <2>6, <2>7, <2>9, <2>18, <3>2, Zenon DEF Contract!Fgets
  <2> QED BY <1>8, <2>16, <2>17, <2>19, Zenon DEF Implements, StreamStep
<1> QED BY <1>9, <1>10

\* ungetc.
LEMMA UngetcImplements ==
  ASSUME StdioInv, NEW s \in Stream, CallUngetc(s)
  PROVE  Implements(s)
<1>1. PICK c \in Pushed :
        /\ flags' = [flags EXCEPT ![s] = [@ EXCEPT !.ungetc_char = c,
                                                   !.has_ungetc = TRUE,
                                                   !.eof = FALSE]]
        /\ answer' = Answer("ungetc", s, 0, 1, <<c>>, 0)
  BY Zenon DEF CallUngetc
<1>2. UNCHANGED <<files, open, fd>>
  BY DEF CallUngetc
<1>3. PICK g : g = [flags[s] EXCEPT !.ungetc_char = c, !.has_ungetc = TRUE,
                                    !.eof = FALSE]
  OBVIOUS
<1>4. flags' = [flags EXCEPT ![s] = g]
  BY <1>1, <1>3, Zenon
<1>5. answer'.call = "ungetc" /\ answer'.stream = s /\ answer'.bytes = <<c>>
  BY <1>1 DEF Answer
<1>6. CASE fd[s] \notin DOMAIN open
  <2>1. Streams' = Streams /\ StdioInv'
    BY <1>2, <1>4, <1>6, NoneMoves
  <2>2. Streams[s] = Contract!Closed
    BY <1>6, StreamClosed
  <2>3. Contract!Idle(s)
    BY <1>2, <2>1, <2>2 DEF Contract!Idle
  <2> QED BY <1>5, <2>1, <2>3, IdleStep
<1>7. CASE fd[s] \in DOMAIN open
  <2>1. PICK d \in DescriptionSet : d = open[fd[s]]
    BY <1>7, OpenDescription
  <2>2. PICK o \in Nat : o = d.offset
    BY DEF DescriptionSet
  <2>3. PICK f \in Flag : f = flags[s]
    BY <1>7 DEF StdioInv, KernelTyped, FlagsTyped
  <2>4. c \in Byte
    BY BoundAssumption
  <2>5. /\ g \in Flag /\ g.has_ungetc /\ g.ungetc_char = c
        /\ g.eof = FALSE /\ g.error = f.error
    BY <1>3, <2>3, <2>4 DEF Flag
  <2>6. open' = Moved(fd[s], o)
    BY <1>2, <1>7, <2>1, <2>2, MovedNowhere
  <2>7. FilesTyped' /\ DOMAIN files' = DOMAIN files
    BY <1>2 DEF StdioInv, KernelTyped, FilesTyped
  <2>8. Streams' = [Streams EXCEPT ![s] = Seen(d, o, g)] /\ StdioInv'
    BY <1>2, <1>4, <1>7, <2>1, <2>5, <2>6, <2>7, OneMoves
  <2>9. PICK st : st = Streams[s]
    OBVIOUS
  <2>10. st = Seen(d, o, f)
    BY <1>7, <2>1, <2>2, <2>3, <2>9, StreamOpen
  <2>11. PICK z : z = [st EXCEPT !.back = <<c>>, !.eof = FALSE]
    OBVIOUS
  <2>12. z = Seen(d, o, g)
    <3>1. Back(g) = <<c>>
      BY <2>5 DEF Back
    <3>2. Seen(d, o, g)
            = [path |-> d.path, append |-> d.append, access |-> d.access,
               pos |-> o, back |-> <<c>>, eof |-> FALSE, error |-> f.error]
      BY <2>5, <3>1, Zenon DEF Seen
    <3>3. z = [path |-> d.path, append |-> d.append, access |-> d.access,
               pos |-> o, back |-> <<c>>, eof |-> FALSE, error |-> f.error]
      BY <2>10, <2>11 DEF Seen
    <3> QED BY <3>2, <3>3, Zenon
  <2>13. Contract!Ungetc(s)
    <3>1. Contract!Becomes(s, z)
      BY <1>2, <2>8, <2>12 DEF Contract!Becomes
    <3> QED BY <1>5, <2>9, <2>11, <3>1, Zenon DEF Contract!Ungetc
  <2>14. Streams[s] # Contract!Closed
    BY <1>7, OpenIsNotClosed
  <2> QED BY <1>5, <2>8, <2>13, <2>14, Zenon DEF Implements, StreamStep
<1> QED BY <1>6, <1>7

-----------------------------------------------------------------------------
(***************************************************************************)
(* Output.                                                                 *)
(***************************************************************************)
\* new is old, of L bytes, with the n bytes b from offset at on, byte by byte.
BytewiseOverlaid(old, at, b, L, n, new) ==
  /\ new \in Seq(Byte) /\ Len(new) = Greater(L, at + n)
  /\ \A i \in 1..Len(new) :
       new[i] = IF i \in at + 1..at + n THEN b[i - at]
                ELSE IF i <= L THEN old[i] ELSE ZeroByte

\* A file whose bytes from an offset on are replaced.
LEMMA OverlaidBytes ==
  ASSUME NEW old \in Seq(Byte), NEW at \in Nat, NEW b \in Seq(Byte),
         NEW L \in Nat, L = Len(old), NEW n \in Nat, n = Len(b),
         NEW new, new = Overlaid(old, at, b)
  PROVE  BytewiseOverlaid(old, at, b, L, n, new)
<1>1. PICK m \in Nat : m = Greater(L, at + n)
  BY DEF Greater
<1>2. new = [i \in 1..m |-> IF i \in at + 1..at + n THEN b[i - at]
                            ELSE IF i <= L THEN old[i] ELSE ZeroByte]
  BY <1>1, Zenon DEF Overlaid
<1>3. ASSUME NEW i \in 1..m
      PROVE  (IF i \in at + 1..at + n THEN b[i - at]
              ELSE IF i <= L THEN old[i] ELSE ZeroByte) \in Byte
  <2>1. CASE i \in at + 1..at + n
    <3>1. i - at \in 1..n
      BY <2>1
    <3>2. b[i - at] \in Byte
      BY <3>1
    <3> QED BY <2>1, <3>2
  <2>2. CASE i \notin at + 1..at + n /\ i <= L
    <3>1. i \in 1..L
      BY <2>2
    <3>2. old[i] \in Byte
      BY <3>1
    <3> QED BY <2>2, <3>2
  <2>3. CASE i \notin at + 1..at + n /\ ~(i <= L)
    BY <2>3, BoundAssumption
  <2> QED BY <2>1, <2>2, <2>3
<1>4. new \in [1..m -> Byte]
  BY <1>2, <1>3
<1>5. new \in Seq(Byte) /\ Len(new) = m
  BY <1>4
<1> QED BY <1>1, <1>2, <1>5 DEF BytewiseOverlaid

\* Two sequences of bytes put together.
LEMMA Joined ==
  ASSUME NEW x \in Seq(Byte), NEW y \in Seq(Byte), NEW m \in Nat, m = Len(x),
         NEW n \in Nat, n = Len(y)
  PROVE  /\ x \o y \in Seq(Byte) /\ Len(x \o y) = m + n
         /\ \A i \in 1..m + n : (x \o y)[i] = IF i <= m THEN x[i] ELSE y[i - m]
<1>1. PICK z : z = x \o y
  OBVIOUS
<1>2. z \in Seq(Byte) /\ Len(z) = m + n
  BY <1>1, ConcatProperties
<1>3. ASSUME NEW i \in 1..m + n PROVE z[i] = IF i <= m THEN x[i] ELSE y[i - m]
  BY <1>1, ConcatProperties
<1> QED BY <1>1, <1>2, <1>3

\* The bytes from number m to number e of a sequence.
LEMMA Cut ==
  ASSUME NEW q \in Seq(Byte), NEW m \in Nat, NEW e \in Nat, e <= Len(q), m <= e
  PROVE  /\ SubSeq(q, m + 1, e) \in Seq(Byte) /\ Len(SubSeq(q, m + 1, e)) = e - m
         /\ \A i \in 1..e - m : SubSeq(q, m + 1, e)[i] = q[m + i]
<1>1. PICK s \in Nat : s = m + 1
  OBVIOUS
<1>2. \A i \in s..e : q[i] \in Byte
  BY <1>1
<1>3. /\ SubSeq(q, s, e) \in Seq(Byte)
      /\ Len(SubSeq(q, s, e)) = IF s <= e THEN e - s + 1 ELSE 0
      /\ \A i \in 1..e - s + 1 : SubSeq(q, s, e)[i] = q[s + i - 1]
  BY <1>2, SubSeqProperties
<1>4. PICK p : p = SubSeq(q, s, e)
  OBVIOUS
<1>5. PICK n : n = Len(p)
  OBVIOUS
<1>6. n = IF s <= e THEN e - s + 1 ELSE 0
  BY <1>3, <1>4, <1>5, Zenon
<1>7. n = e - m
  BY <1>1, <1>6
<1>8. ASSUME NEW i \in 1..e - m PROVE p[i] = q[m + i]
  <2>1. i \in 1..e - s + 1 /\ s + i - 1 = m + i
    BY <1>1
  <2> QED BY <1>3, <1>4, <2>1, Zenon
<1> QED BY <1>1, <1>3, <1>4, <1>5, <1>7, <1>8, Zenon

\* The bytes in front of an offset, with zeros where the file has none.
Zeros(n) == [i \in 1..n |-> ZeroByte]
Padded(old, at) == SubSeq(old \o Zeros(at - Len(old)), 1, at)

\* Its bytes: the old ones, then zeros.
LEMMA PaddedBytes ==
  ASSUME NEW old \in Seq(Byte), NEW at \in Nat, NEW L \in Nat, L = Len(old)
  PROVE  /\ Padded(old, at) \in Seq(Byte) /\ Len(Padded(old, at)) = at
         /\ \A i \in 1..at :
              Padded(old, at)[i] = IF i <= L THEN old[i] ELSE ZeroByte
<1>1. PICK k : k = IF L < at THEN at - L ELSE 0
  OBVIOUS
<1>2. k \in Nat /\ 1..at - L = 1..k /\ at <= L + k
  BY <1>1
<1>3. PICK gap : gap = Zeros(at - L)
  OBVIOUS
<1>4. gap = [i \in 1..k |-> ZeroByte]
  BY <1>2, <1>3, Zenon DEF Zeros
<1>5. gap \in Seq(Byte)
  <2>1. gap \in [1..k -> Byte]
    BY <1>4, BoundAssumption
  <2> QED BY <1>2, <2>1
<1>6. Len(gap) = k
  BY <1>2, <1>4
<1>7. \A i \in 1..k : gap[i] = ZeroByte
  BY <1>4
<1>8. PICK q : q = old \o gap
  OBVIOUS
<1>9. /\ q \in Seq(Byte) /\ Len(q) = L + k
      /\ \A i \in 1..L + k : q[i] = IF i <= L THEN old[i] ELSE gap[i - L]
  <2>1. k = Len(gap) /\ k \in Nat
    BY <1>2, <1>6
  <2> QED BY <1>5, <1>8, <2>1, Joined
<1>10. PICK p : p = SubSeq(q, 1, at)
  OBVIOUS
<1>11. /\ p \in Seq(Byte) /\ Len(p) = at
       /\ \A i \in 1..at : p[i] = q[i]
  <2>1. at <= Len(q) /\ 0 <= at /\ 0 \in Nat
    BY <1>2, <1>9
  <2>2. /\ SubSeq(q, 0 + 1, at) \in Seq(Byte)
        /\ Len(SubSeq(q, 0 + 1, at)) = at - 0
        /\ \A i \in 1..at - 0 : SubSeq(q, 0 + 1, at)[i] = q[0 + i]
    BY <1>9, <2>1, Cut
  <2>3. 0 + 1 = 1 /\ at - 0 = at /\ (\A i \in 1..at : 0 + i = i)
    OBVIOUS
  <2> QED BY <1>10, <2>2, <2>3, Zenon
<1>12. ASSUME NEW i \in 1..at
       PROVE  p[i] = IF i <= L THEN old[i] ELSE ZeroByte
  <2>1. i \in 1..L + k /\ (~(i <= L) => i - L \in 1..k)
    BY <1>1, <1>2
  <2> QED BY <1>7, <1>9, <1>11, <2>1, Zenon
<1>13. p = Padded(old, at)
  BY <1>3, <1>8, <1>10, Zenon DEF Padded
<1> QED BY <1>11, <1>12, <1>13

\* The kernel's write is the contract's overlay.
LEMMA OverlaySame ==
  ASSUME NEW old \in Seq(Byte), NEW at \in Nat, NEW b \in Seq(Byte)
  PROVE  Contract!Overlay(old, at, b) = Overlaid(old, at, b)
<1>1. PICK L \in Nat : L = Len(old)
  OBVIOUS
<1>2. PICK n \in Nat : n = Len(b)
  OBVIOUS
<1>3. PICK p : p = Padded(old, at)
  OBVIOUS
<1>4. /\ p \in Seq(Byte) /\ Len(p) = at
      /\ \A i \in 1..at : p[i] = IF i <= L THEN old[i] ELSE ZeroByte
  BY <1>1, <1>3, PaddedBytes
<1>5. PICK e \in Nat : e = at + n
  OBVIOUS
<1>6. PICK t : t = SubSeq(old, e + 1, L)
  OBVIOUS
<1>7. PICK k : k = IF e < L THEN L - e ELSE 0
  OBVIOUS
<1>8. k \in Nat
  BY <1>7
<1>9. /\ t \in Seq(Byte) /\ Len(t) = k
      /\ \A i \in 1..k : t[i] = old[e + i]
  <2>1. CASE e < L
    <3>1. e <= L /\ L <= Len(old) /\ k = L - e
      BY <1>1, <1>7, <2>1
    <3>2. /\ SubSeq(old, e + 1, L) \in Seq(Byte)
          /\ Len(SubSeq(old, e + 1, L)) = L - e
          /\ \A i \in 1..L - e : SubSeq(old, e + 1, L)[i] = old[e + i]
      BY <3>1, Cut
    <3> QED BY <1>6, <3>1, <3>2, Zenon
  <2>2. CASE ~(e < L)
    <3>1. L < e + 1 /\ k = 0 /\ 1..0 = {}
      BY <1>7, <2>2
    <3>2. SubSeq(old, e + 1, L) = << >>
      BY <3>1, SubSeqEmpty
    <3>3. << >> \in Seq(Byte) /\ Len(<< >>) = 0
      OBVIOUS
    <3> QED BY <1>6, <3>1, <3>2, <3>3, Zenon
  <2> QED BY <2>1, <2>2
<1>10. PICK pb : pb = p \o b
  OBVIOUS
<1>11. /\ pb \in Seq(Byte) /\ Len(pb) = e
       /\ \A i \in 1..e : pb[i] = IF i <= at THEN p[i] ELSE b[i - at]
  <2>1. p \in Seq(Byte) /\ at = Len(p)
    BY <1>4
  <2>2. /\ p \o b \in Seq(Byte) /\ Len(p \o b) = at + n
        /\ \A i \in 1..at + n :
             (p \o b)[i] = IF i <= at THEN p[i] ELSE b[i - at]
    BY <1>2, <2>1, Joined
  <2> QED BY <1>5, <1>10, <2>2, Zenon
<1>12. PICK x : x = pb \o t
  OBVIOUS
<1>13. PICK m : m = e + k
  OBVIOUS
<1>14. /\ x \in Seq(Byte) /\ Len(x) = m
       /\ \A i \in 1..m : x[i] = IF i <= e THEN pb[i] ELSE t[i - e]
  <2>1. pb \in Seq(Byte) /\ t \in Seq(Byte) /\ k = Len(t) /\ e = Len(pb)
    BY <1>9, <1>11
  <2>2. /\ pb \o t \in Seq(Byte) /\ Len(pb \o t) = e + k
        /\ \A i \in 1..e + k :
             (pb \o t)[i] = IF i <= e THEN pb[i] ELSE t[i - e]
    BY <1>8, <2>1, Joined
  <2> QED BY <1>12, <1>13, <2>2, Zenon
<1>15. Contract!Overlay(old, at, b) = x
  BY <1>1, <1>2, <1>3, <1>5, <1>6, <1>10, <1>12, Zenon DEF Contract!Overlay, Padded, Zeros
<1>16. PICK new : new = Overlaid(old, at, b)
  OBVIOUS
<1>17. m = Greater(L, e)
  BY <1>5, <1>7, <1>13 DEF Greater
<1>18. /\ new \in Seq(Byte) /\ Len(new) = m
       /\ \A i \in 1..m : new[i] = IF i \in at + 1..e THEN b[i - at]
                                   ELSE IF i <= L THEN old[i] ELSE ZeroByte
  <2>1. /\ new \in Seq(Byte) /\ Len(new) = Greater(L, at + n)
        /\ \A i \in 1..Len(new) :
             new[i] = IF i \in at + 1..at + n THEN b[i - at]
                      ELSE IF i <= L THEN old[i] ELSE ZeroByte
    <3>1. \A y : y = Overlaid(old, at, b) =>
                 BytewiseOverlaid(old, at, b, L, n, y)
      BY <1>1, <1>2, OverlaidBytes
    <3> QED BY <1>16, <3>1, Zenon DEF BytewiseOverlaid
  <2> QED BY <1>5, <1>17, <2>1, Zenon
<1>19. ASSUME NEW i \in 1..m PROVE x[i] = new[i]
  <2>1. i \in Nat /\ i > 0
    BY <1>5, <1>13
  <2>2. CASE i <= at
    <3>1. i <= e /\ i \in 1..e /\ i \in 1..at /\ i \notin at + 1..e
      BY <1>5, <2>1, <2>2
    <3> QED BY <1>4, <1>11, <1>14, <1>18, <2>2, <3>1, Zenon
  <2>3. CASE ~(i <= at) /\ i <= e
    <3>1. i \in 1..e /\ i \in at + 1..e
      BY <1>5, <2>1, <2>3
    <3> QED BY <1>11, <1>14, <1>18, <2>3, <3>1, Zenon
  <2>4. CASE ~(i <= e)
    <3>1. i \notin at + 1..e /\ i - e \in 1..k /\ e + (i - e) = i /\ i <= L
      BY <1>5, <1>7, <1>13, <2>1, <2>4
    <3>2. PICK j \in 1..k : j = i - e /\ e + j = i
      BY <3>1
    <3> QED BY <1>9, <1>14, <1>18, <2>4, <3>1, <3>2, Zenon
  <2> QED BY <1>5, <2>1, <2>2, <2>3, <2>4
<1>20. x = new
  BY <1>14, <1>18, <1>19, SeqEqual
<1> QED BY <1>15, <1>16, <1>20

\* The first n bytes.
LEMMA Prefix ==
  ASSUME NEW q \in Seq(Byte), NEW n \in Nat, n <= Len(q)
  PROVE  SubSeq(q, 1, n) \in Seq(Byte) /\ Len(SubSeq(q, 1, n)) = n
<1>1. 0 <= n /\ 0 \in Nat
  OBVIOUS
<1>2. SubSeq(q, 0 + 1, n) \in Seq(Byte) /\ Len(SubSeq(q, 0 + 1, n)) = n - 0
  BY <1>1, Cut
<1>3. 0 + 1 = 1 /\ n - 0 = n
  OBVIOUS
<1> QED BY <1>2, <1>3, Zenon

\* Where a write on descriptor d starts.
WritesAt(d) ==
  IF open[d].append THEN Len(files[open[d].path]) ELSE open[d].offset

\* What a write of n > 0 bytes returns.
LEMMA WriteGives ==
  ASSUME StdioInv, NEW d \in DOMAIN open, NEW bytes \in Seq(Byte),
         NEW n \in Nat, n = Len(bytes), bytes # << >>,
         NEW r, r = SysWrite(d, bytes)
  PROVE  /\ r.ret \in Int /\ r.ret <= n /\ r.ret # 0
         /\ r.ret > 0 /\ open[d].path = Terminal => r.ret = n
         /\ r.ret > 0 /\ open[d].path # Terminal =>
              /\ open[d].path \in Path /\ open[d].path \in DOMAIN files
              /\ WritesAt(d) \in Nat /\ r.at = WritesAt(d)
              /\ r.ret < n => r.at + r.ret = MaxLen
<1>1. PICK to \in DescriptionSet : to = open[d]
  BY DEF StdioInv, KernelTyped, OpenTyped
<1>2. /\ to.path # Terminal => to.path \in DOMAIN files
      /\ to.path = Pipe => to.access = "r"
      /\ to.path \in Path \cup {Pipe, Terminal}
      /\ to.offset \in Nat
  BY <1>1 DEF StdioInv, KernelTyped, OpenTyped, DescriptionSet
<1>3. PICK at : at = WritesAt(d)
  OBVIOUS
<1>4. PICK m : m = Lesser(n, MaxLen - at)
  OBVIOUS
<1>5. r = IF to.access = "r" THEN [ret |-> -1, at |-> 0]
          ELSE IF to.path = Terminal THEN [ret |-> n, at |-> 0]
          ELSE IF m <= 0 THEN [ret |-> -1, at |-> 0]
          ELSE [ret |-> m, at |-> at]
  BY <1>1, <1>3, <1>4, Zenon DEF SysWrite, WritesAt
<1>6. n > 0
  <2>1. n # 0
    OBVIOUS
  <2> QED BY <2>1
<1>7. CASE to.access = "r"
  <2>1. r.ret = -1
    BY <1>5, <1>7
  <2> QED BY <1>6, <2>1
<1>8. CASE to.access # "r" /\ to.path = Terminal
  <2>1. r.ret = n
    BY <1>5, <1>8
  <2> QED BY <1>1, <1>6, <1>8, <2>1
<1>9. CASE to.access # "r" /\ to.path # Terminal
  <2>1. to.path \in Path /\ to.path \in DOMAIN files
    BY <1>2, <1>9
  <2>2. at \in Nat
    <3>1. Len(files[to.path]) \in Nat
      BY <2>1 DEF StdioInv, KernelTyped, FilesTyped
    <3> QED BY <1>1, <1>2, <1>3, <3>1 DEF WritesAt
  <2>3. CASE m <= 0
    <3>1. r.ret = -1
      BY <1>5, <1>9, <2>3
    <3> QED BY <1>6, <3>1
  <2>4. CASE ~(m <= 0)
    <3>1. r.ret = m /\ r.at = at
      BY <1>5, <1>9, <2>4
    <3>2. m \in Int /\ m <= n /\ m # 0 /\ (m < n => at + m = MaxLen)
      BY <1>4, <2>2, <2>4, BoundAssumption DEF Lesser
    <3> QED BY <1>1, <1>3, <1>9, <2>1, <2>2, <3>1, <3>2, Zenon
  <2> QED BY <2>3, <2>4
<1> QED BY <1>7, <1>8, <1>9

\* What fwrite, fputs and fputc have in common.
PutAnswers(s, call, size, bytes, value) ==
  /\ answer'.call = call /\ answer'.stream = s
  /\ answer'.asked = Len(bytes) /\ answer'.size = size
  /\ \E n \in 0..Len(bytes) : /\ Len(answer'.bytes) = n
                              /\ answer'.value = value[n]

\* One member of a FILE that is set, both ways to write it.
LEMMA FlagSet ==
  ASSUME NEW s, NEW e, NEW g, g = [flags[s] EXCEPT !.error = e]
  PROVE  [flags EXCEPT ![s].error = e] = [flags EXCEPT ![s] = g]
  OBVIOUS

\* Output on an open stream.
LEMMA PutOpen ==
  ASSUME StdioInv, NEW s \in Stream, fd[s] \in DOMAIN open,
         NEW call, NEW size, NEW bytes \in Seq(Byte), NEW value,
         Put(s, call, size, bytes, value)
  PROVE  /\ Contract!Output(s) /\ StdioInv'
         /\ PutAnswers(s, call, size, bytes, value)
<1>1. PICK d \in DescriptionSet : d = open[fd[s]]
  BY OpenDescription
<1>2. PICK o \in Nat : o = d.offset
  BY DEF DescriptionSet
<1>3. PICK f \in Flag : f = flags[s]
  BY DEF StdioInv, KernelTyped, FlagsTyped
<1>4. PICK N \in Nat : N = Len(bytes)
  OBVIOUS
<1>5. PICK r : r = IF bytes = << >> THEN [ret |-> 0, at |-> 0]
                   ELSE SysWrite(fd[s], bytes)
  OBVIOUS
<1>6. PICK wrote : wrote = (r.ret > 0 /\ d.path # Terminal)
  OBVIOUS
<1>7. PICK count : count = IF r.ret < 0 THEN 0 ELSE r.ret
  OBVIOUS
<1>8. /\ ~f.has_ungetc
      /\ flags' = [flags EXCEPT ![s].error = @ \/ r.ret < 0]
      /\ files' = IF wrote
                  THEN [files EXCEPT ![d.path] =
                          Overlaid(@, r.at, SubSeq(bytes, 1, r.ret))]
                  ELSE files
      /\ open' = IF wrote THEN Moved(fd[s], r.at + r.ret) ELSE open
      /\ answer' = Answer(call, s, N, size, SubSeq(bytes, 1, count),
                          value[count])
      /\ UNCHANGED fd
  BY <1>1, <1>3, <1>4, <1>5, <1>6, <1>7, Zenon DEF Put
<1>9. PICK at : at = WritesAt(fd[s])
  OBVIOUS
<1>10. /\ r.ret \in Int /\ r.ret <= N
       /\ bytes # << >> => r.ret # 0
       /\ bytes = << >> => r.ret = 0 /\ N = 0
       /\ r.ret > 0 /\ d.path = Terminal => r.ret = N
       /\ r.ret > 0 /\ d.path # Terminal =>
            /\ d.path \in Path /\ d.path \in DOMAIN files
            /\ at \in Nat /\ r.at = at
            /\ r.ret < N => r.at + r.ret = MaxLen
  <2>1. CASE bytes = << >>
    <3>1. r.ret = 0 /\ N = 0
      BY <1>4, <1>5, <2>1
    <3> QED BY <2>1, <3>1
  <2>2. CASE bytes # << >>
    <3>1. r = SysWrite(fd[s], bytes)
      BY <1>5, <2>2
    <3> QED BY <1>1, <1>4, <1>9, <2>2, <3>1, WriteGives
  <2> QED BY <2>1, <2>2
<1>11. PICK ret \in Int : ret = r.ret
  BY <1>10
<1>12. count \in Nat /\ count <= N
       /\ (ret > 0 => count = ret) /\ (ret <= 0 => count = 0)
  BY <1>7, <1>10, <1>11
<1>13. PICK got : got = SubSeq(bytes, 1, count)
  OBVIOUS
<1>14. got \in Seq(Byte) /\ Len(got) = count
  BY <1>4, <1>12, <1>13, Prefix
<1>15. /\ answer'.call = call /\ answer'.stream = s /\ answer'.asked = N
       /\ answer'.size = size /\ answer'.bytes = got
       /\ answer'.value = value[count]
  BY <1>8, <1>13 DEF Answer
<1>16. PutAnswers(s, call, size, bytes, value)
  <2>1. count \in 0..N
    BY <1>12
  <2> QED BY <1>4, <1>14, <1>15, <2>1, Zenon DEF PutAnswers
<1>17. PICK g : g = [flags[s] EXCEPT !.error = @ \/ r.ret < 0]
  OBVIOUS
<1>18. /\ g \in Flag /\ g.eof = f.eof /\ g.has_ungetc = f.has_ungetc
       /\ g.error <=> f.error \/ ret < 0
  BY <1>3, <1>11, <1>17 DEF Flag
<1>19. flags' = [flags EXCEPT ![s] = g]
  BY <1>3, <1>8, <1>17, FlagSet
<1>20. PICK p : p = IF wrote THEN at + ret ELSE o
  OBVIOUS
<1>21. wrote <=> d.path \in Path /\ count > 0
  <2>1. Terminal \notin Path
    BY StdAssumption
  <2>2. ret > 0 => count > 0
    BY <1>12
  <2>3. count > 0 => ret > 0
    BY <1>12
  <2> QED BY <1>6, <1>10, <1>11, <2>1, <2>2, <2>3, Zenon
<1>22. p \in Nat /\ open' = Moved(fd[s], p)
  <2>1. CASE wrote
    <3>1. at \in Nat /\ r.at = at /\ ret > 0
      BY <1>6, <1>10, <1>11, <2>1, Zenon
    <3>2. at + ret \in Nat
      BY <3>1
    <3> QED BY <1>8, <1>11, <1>20, <2>1, <3>1, <3>2, Zenon
  <2>2. CASE ~wrote
    <3>1. open = Moved(fd[s], o)
      BY <1>1, <1>2, MovedNowhere
    <3> QED BY <1>8, <1>20, <2>2, <3>1, Zenon
  <2> QED BY <2>1, <2>2
<1>23. /\ files' = IF wrote
                   THEN [files EXCEPT ![d.path] =
                           Contract!Overlay(files[d.path], at, got)]
                   ELSE files
       /\ FilesTyped' /\ DOMAIN files' = DOMAIN files
  <2>1. CASE wrote
    <3>1. /\ at \in Nat /\ r.at = at /\ ret = count
          /\ d.path \in DOMAIN files
      BY <1>6, <1>10, <1>11, <1>12, <2>1, Zenon
    <3>2. PICK old \in Seq(Byte) : old = files[d.path]
      BY <3>1 DEF StdioInv, KernelTyped, FilesTyped
    <3>3. PICK new : new = Overlaid(old, at, got)
      OBVIOUS
    <3>4. new \in Seq(Byte)
      <4>1. PICK L, n : L = Len(old) /\ n = Len(got)
        OBVIOUS
      <4>2. L \in Nat /\ n \in Nat /\ got \in Seq(Byte)
        BY <1>14, <4>1
      <4>3. BytewiseOverlaid(old, at, got, L, n, new)
        BY <3>1, <3>3, <4>1, <4>2, OverlaidBytes
      <4> QED BY <4>3, Zenon DEF BytewiseOverlaid
    <3>5. new = Contract!Overlay(old, at, got)
      BY <1>14, <3>1, <3>3, OverlaySame
    <3>6. files' = [files EXCEPT ![d.path] = new]
      BY <1>8, <1>11, <1>13, <2>1, <3>1, <3>2, <3>3, Zenon
    <3>7. FilesTyped' /\ DOMAIN files' = DOMAIN files
      BY <3>1, <3>4, <3>6 DEF StdioInv, KernelTyped, FilesTyped
    <3> QED BY <2>1, <3>2, <3>5, <3>6, <3>7, Zenon
  <2>2. CASE ~wrote
    <3>1. files' = files
      BY <1>8, <2>2
    <3> QED BY <2>2, <3>1 DEF StdioInv, KernelTyped, FilesTyped
  <2> QED BY <2>1, <2>2
<1>24. PICK new : new = Seen(d, p, g)
  OBVIOUS
<1>25. Streams' = [Streams EXCEPT ![s] = new] /\ StdioInv'
  <2>1. g \in Flag /\ p \in Nat
    BY <1>18, <1>22
  <2>2. FilesTyped' /\ DOMAIN files' = DOMAIN files /\ UNCHANGED fd
    BY <1>8, <1>23, Zenon
  <2>3. open' = Moved(fd[s], p)
    BY <1>22
  <2>4. Streams' = [Streams EXCEPT ![s] = Seen(open[fd[s]], p, g)] /\ StdioInv'
    BY <1>19, <2>1, <2>2, <2>3, OneMoves
  <2> QED BY <1>1, <1>24, <2>4, Zenon
<1>26. PICK st : st = Streams[s]
  OBVIOUS
<1>27. st = Seen(d, o, f)
  BY <1>1, <1>2, <1>3, <1>26, StreamOpen
<1>28. /\ st.path = d.path /\ st.append = d.append /\ st.pos = o
       /\ st.error = f.error
  BY <1>27 DEF Seen
<1>29. Streams'[s] = new
  <2>1. Streams = [t \in Stream |-> Streams[t]]
    BY DEF Streams
  <2> QED BY <1>25, <2>1
<1>30. new.error = g.error
  BY <1>24 DEF Seen
<1>31. PICK file : file = (st.path \in Path /\ count > 0)
  OBVIOUS
<1>32. file <=> wrote
  BY <1>21, <1>28, <1>31, Zenon
<1>33. at = IF st.append THEN Len(files[st.path]) ELSE st.pos
  BY <1>1, <1>2, <1>9, <1>28, Zenon DEF WritesAt
<1>34. PICK e : e = g.error
  OBVIOUS
<1>35. PICK z : z = [st EXCEPT !.pos = p, !.error = e]
  OBVIOUS
<1>36. z = new
  <2>1. Back(g) = Back(f)
    BY <1>8, <1>18 DEF Back
  <2>2. z = [path |-> d.path, append |-> d.append, access |-> d.access,
             pos |-> p, back |-> Back(f), eof |-> f.eof, error |-> e]
    <3>1. st = [path |-> d.path, append |-> d.append, access |-> d.access,
                pos |-> o, back |-> Back(f), eof |-> f.eof, error |-> f.error]
      BY <1>27, Zenon DEF Seen
    <3> QED BY <1>35, <3>1
  <2> QED BY <1>18, <1>24, <1>34, <2>1, <2>2, Zenon DEF Seen
<1>37. p = IF file THEN at + count ELSE st.pos
  <2>1. wrote => ret = count
    BY <1>6, <1>11, <1>12, Zenon
  <2> QED BY <1>20, <1>28, <1>32, <2>1, Zenon
<1>38. Streams' = [Streams EXCEPT ![s] =
                     [st EXCEPT !.pos = IF file THEN at + count ELSE @,
                                !.error = Streams'[s].error]]
  BY <1>25, <1>29, <1>30, <1>34, <1>35, <1>36, <1>37, Zenon
<1>39. st.error => Streams'[s].error
  BY <1>18, <1>28, <1>29, <1>30, Zenon
<1>40. files' = IF file
                THEN [files EXCEPT ![st.path] = Contract!Overlay(@, at, got)]
                ELSE files
  BY <1>23, <1>28, <1>32, Zenon
<1>41. count < N => Streams'[s].error \/ (st.path \in Path /\ at + count = MaxLen)
  <2>1. CASE ret < 0
    BY <1>18, <1>29, <1>30, <2>1, Zenon
  <2>2. CASE ret > 0
    <3>1. count = ret /\ r.ret > 0
      BY <1>11, <1>12, <2>2, Zenon
    <3>2. CASE d.path = Terminal
      <4>1. count = N
        BY <1>10, <1>11, <3>1, <3>2, Zenon
      <4>2. ~(N < N)
        OBVIOUS
      <4> QED BY <4>1, <4>2, Zenon
    <3>3. CASE d.path # Terminal
      BY <1>10, <1>11, <1>28, <3>1, <3>3, Zenon
    <3> QED BY <3>2, <3>3
  <2>3. CASE ret = 0
    <3>1. N = 0
      BY <1>10, <1>11, <2>3
    <3>2. ~(count < 0)
      BY <1>12
    <3> QED BY <3>1, <3>2, Zenon
  <2>4. ret < 0 \/ ret > 0 \/ ret = 0
    OBVIOUS
  <2> QED BY <2>1, <2>2, <2>3, <2>4
<1>42. Contract!Output(s)
  BY <1>14, <1>15, <1>26, <1>31, <1>33, <1>38, <1>39, <1>40, <1>41, Zenon
     DEF Contract!Output
<1> QED BY <1>16, <1>25, <1>42

\* A stream that is closed takes nothing.
LEMMA PutClosed ==
  ASSUME StdioInv, NEW s \in Stream, fd[s] \notin DOMAIN open,
         NEW call, NEW size, NEW bytes \in Seq(Byte), NEW value,
         Put(s, call, size, bytes, value)
  PROVE  Contract!Idle(s) /\ StdioInv' /\ answer'.stream = s
<1>1. PICK r : r = IF bytes = << >> THEN [ret |-> 0, at |-> 0]
                   ELSE SysWrite(fd[s], bytes)
  OBVIOUS
<1>2. r.ret = 0 \/ r.ret = -1
  <2>1. SysWrite(fd[s], bytes) = [ret |-> -1, at |-> 0]
    BY Zenon DEF SysWrite
  <2> QED BY <1>1, <2>1
<1>3. ~(r.ret > 0)
  BY <1>2
<1>4. /\ flags' = [flags EXCEPT ![s].error = @ \/ r.ret < 0]
      /\ UNCHANGED <<fd, open, files>>
      /\ answer'.stream = s
  <2>1. /\ flags' = [flags EXCEPT ![s].error = @ \/ r.ret < 0]
        /\ UNCHANGED fd /\ open' = open /\ files' = files
    BY <1>1, <1>3, Zenon DEF Put
  <2>2. \E b, v : answer' = Answer(call, s, Len(bytes), size, b, v)
    BY Zenon DEF Put
  <2> QED BY <2>1, <2>2 DEF Answer
<1>5. PICK g : g = [flags[s] EXCEPT !.error = @ \/ r.ret < 0]
  OBVIOUS
<1>6. flags' = [flags EXCEPT ![s] = g]
  BY <1>4, <1>5, FlagSet
<1>7. Streams' = Streams /\ StdioInv'
  BY <1>4, <1>6, NoneMoves
<1>8. Streams[s] = Contract!Closed
  BY StreamClosed
<1> QED BY <1>4, <1>7, <1>8 DEF Contract!Idle

\* fwrite.
LEMMA FwriteImplements ==
  ASSUME StdioInv, NEW s \in Stream, CallFwrite(s)
  PROVE  Implements(s)
<1>1. PICK bytes \in Strings, count \in Counts :
        /\ Len(bytes) = count[1] * count[2]
        /\ Put(s, "fwrite", count[1], bytes,
               [n \in 0 .. Len(bytes) |-> IF n = 0 THEN 0 ELSE n \div count[1]])
  BY Zenon DEF CallFwrite
<1>2. bytes \in Seq(Byte) /\ count[1] \in Nat /\ count[2] \in Nat
  BY BoundAssumption
<1>3. PICK value : value = [n \in 0 .. Len(bytes) |->
                              IF n = 0 THEN 0 ELSE n \div count[1]]
  OBVIOUS
<1>4. Put(s, "fwrite", count[1], bytes, value)
  BY <1>1, <1>3, Zenon
<1>5. CASE fd[s] \notin DOMAIN open
  BY <1>2, <1>4, <1>5, PutClosed, IdleStep
<1>6. CASE fd[s] \in DOMAIN open
  <2>1. /\ Contract!Output(s) /\ StdioInv'
        /\ PutAnswers(s, "fwrite", count[1], bytes, value)
    BY <1>2, <1>4, <1>6, PutOpen
  <2>2. PICK n \in 0..Len(bytes) : /\ Len(answer'.bytes) = n
                                   /\ answer'.value = value[n]
    BY <2>1, Zenon DEF PutAnswers
  <2>3. /\ answer'.call = "fwrite" /\ answer'.stream = s
        /\ answer'.asked = Len(bytes) /\ answer'.size = count[1]
    BY <2>1, Zenon DEF PutAnswers
  <2>4. value[n] = IF n = 0 THEN 0 ELSE n \div count[1]
    BY <1>3
  <2>5. Len(bytes) > 0 => 0 \div count[1] = 0
    <3>1. PICK x, y \in Nat : x = count[1] /\ y = count[2]
      BY <1>2
    <3>2. x * y > 0 => x # 0
      OBVIOUS
    <3>3. x # 0 => 0 \div x = 0
      OBVIOUS
    <3> QED BY <1>1, <3>1, <3>2, <3>3, Zenon
  <2>6. answer'.asked > 0 =>
          answer'.value = Len(answer'.bytes) \div answer'.size
    BY <2>2, <2>3, <2>4, <2>5, Zenon
  <2>7. Contract!Fwrite(s)
    BY <2>1, <2>3, <2>6, Zenon DEF Contract!Fwrite
  <2>8. Streams[s] # Contract!Closed
    BY <1>6, OpenIsNotClosed
  <2> QED BY <2>1, <2>3, <2>7, <2>8, Zenon DEF Implements, StreamStep
<1> QED BY <1>5, <1>6

\* fputs, and fputc.
LEMMA FputsImplements ==
  ASSUME StdioInv, NEW s \in Stream, CallFputs(s)
  PROVE  Implements(s)
<1>1. PICK bytes \in Strings :
        Put(s, "fputs", 1, bytes,
            [n \in 0 .. Len(bytes) |-> IF n = Len(bytes) THEN 0 ELSE -1])
  BY Zenon DEF CallFputs
<1>2. bytes \in Seq(Byte)
  BY BoundAssumption
<1>3. PICK value : value = [n \in 0 .. Len(bytes) |->
                              IF n = Len(bytes) THEN 0 ELSE -1]
  OBVIOUS
<1>4. Put(s, "fputs", 1, bytes, value)
  BY <1>1, <1>3, Zenon
<1>5. CASE fd[s] \notin DOMAIN open
  BY <1>2, <1>4, <1>5, PutClosed, IdleStep
<1>6. CASE fd[s] \in DOMAIN open
  <2>1. /\ Contract!Output(s) /\ StdioInv'
        /\ PutAnswers(s, "fputs", 1, bytes, value)
    BY <1>2, <1>4, <1>6, PutOpen
  <2>2. PICK n \in 0..Len(bytes) : /\ Len(answer'.bytes) = n
                                   /\ answer'.value = value[n]
    BY <2>1, Zenon DEF PutAnswers
  <2>3. /\ answer'.call = "fputs" /\ answer'.stream = s
        /\ answer'.asked = Len(bytes)
    BY <2>1, Zenon DEF PutAnswers
  <2>4. value[n] = IF n = Len(bytes) THEN 0 ELSE -1
    BY <1>3
  <2>5. 0 # -1
    OBVIOUS
  <2>6. answer'.value = 0 <=> Len(answer'.bytes) = answer'.asked
    BY <2>2, <2>3, <2>4, <2>5, Zenon
  <2>7. Contract!Fputs(s)
    BY <2>1, <2>3, <2>6, Zenon DEF Contract!Fputs
  <2>8. Streams[s] # Contract!Closed
    BY <1>6, OpenIsNotClosed
  <2> QED BY <2>1, <2>3, <2>7, <2>8, Zenon DEF Implements, StreamStep
<1> QED BY <1>5, <1>6

-----------------------------------------------------------------------------
(***************************************************************************)
(* Positions.                                                              *)
(***************************************************************************)
\* A call that changes no file.
LEMMA StreamBecomes ==
  ASSUME StdioInv, NEW s \in Stream, fd[s] \in DOMAIN open,
         UNCHANGED <<fd, files>>,
         NEW g \in Flag, flags' = [flags EXCEPT ![s] = g],
         NEW o \in Nat, open' = Moved(fd[s], o),
         NEW new, new = Seen(open[fd[s]], o, g)
  PROVE  /\ Contract!Becomes(s, new) /\ Streams'[s] = new
         /\ StdioInv'
<1>1. FilesTyped' /\ DOMAIN files' = DOMAIN files
  BY DEF StdioInv, KernelTyped, FilesTyped
<1>2. Streams' = [Streams EXCEPT ![s] = Seen(open[fd[s]], o, g)] /\ StdioInv'
  BY <1>1, OneMoves
<1>3. Streams = [t \in Stream |-> Streams[t]]
  BY DEF Streams
<1> QED BY <1>2, <1>3 DEF Contract!Becomes

\* The contract's CASE.
From(st, whence) ==
  CASE whence = "SEEK_SET" -> 0
    [] whence = "SEEK_CUR" -> st.pos
    [] whence = "SEEK_END" -> Len(files[st.path])

\* The kernel goes where the contract does.
LEMMA SeekSame ==
  ASSUME StdioInv, NEW s \in Stream, fd[s] \in DOMAIN open,
         NEW offset \in Int, NEW whence \in {"SEEK_SET", "SEEK_CUR", "SEEK_END"},
         NEW to, to = SysLseek(fd[s], offset, whence),
         NEW from, from = From(Streams[s], whence)
  PROVE  /\ to \in Int
         /\ to < 0 => (open[fd[s]].path \in Path => from + offset < 0)
         /\ ~(to < 0) => /\ open[fd[s]].path \in Path /\ to = from + offset
                         /\ from + offset >= 0
<1>1. PICK d \in DescriptionSet : d = open[fd[s]]
  BY OpenDescription
<1>2. Streams[s].pos = d.offset /\ Streams[s].path = d.path
  <2>1. Streams[s] = Seen(d, d.offset, flags[s])
    BY <1>1, StreamOpen
  <2>2. \A f : Seen(d, d.offset, f).pos = d.offset /\ Seen(d, d.offset, f).path = d.path
    BY DEF Seen
  <2> QED BY <2>1, <2>2, Zenon
<1>3. PICK base : base = CASE whence = "SEEK_SET" -> 0
                           [] whence = "SEEK_CUR" -> d.offset
                           [] whence = "SEEK_END" -> Len(files[d.path])
  OBVIOUS
<1>4. from = base
  BY <1>2, <1>3, Zenon DEF From
<1>5. to = IF d.path \notin Path \/ base + offset < 0 THEN -1
           ELSE base + offset
  BY <1>1, <1>3, Zenon DEF SysLseek
<1>6. d.path \in Path => base \in Nat
  <2>1. d.path \in Path => Len(files[d.path]) \in Nat
    <3>1. d.path \in Path => d.path \in DOMAIN files
      BY <1>1, StdAssumption, OpenDescription
    <3> QED BY <3>1 DEF StdioInv, KernelTyped, FilesTyped
  <2>2. d.offset \in Nat
    BY DEF DescriptionSet
  <2>3. CASE whence = "SEEK_SET"
    BY <1>3, <2>3
  <2>4. CASE whence = "SEEK_CUR"
    BY <1>3, <2>2, <2>4
  <2>5. CASE whence = "SEEK_END"
    BY <1>3, <2>1, <2>5
  <2> QED BY <2>3, <2>4, <2>5
<1>7. CASE d.path \notin Path \/ base + offset < 0
  <2>1. to = -1
    BY <1>5, <1>7
  <2>2. d.path \in Path => base + offset < 0
    BY <1>7
  <2> QED BY <1>1, <1>4, <2>1, <2>2
<1>8. CASE d.path \in Path /\ ~(base + offset < 0)
  <2>1. to = base + offset
    BY <1>5, <1>8
  <2>2. base \in Nat
    BY <1>6, <1>8
  <2>3. base + offset \in Int /\ base + offset >= 0
    BY <1>8, <2>2
  <2> QED BY <1>1, <1>4, <1>8, <2>1, <2>3
<1> QED BY <1>7, <1>8

\* fseek.
LEMMA FseekImplements ==
  ASSUME StdioInv, NEW s \in Stream, CallFseek(s)
  PROVE  Implements(s)
<1>1. PICK offset \in Offsets, whence \in {"SEEK_SET", "SEEK_CUR", "SEEK_END"} :
       LET to == SysLseek(fd[s], offset, whence) IN
       /\ to <= MaxLen
       /\ flags' = [flags EXCEPT ![s] =
                      IF to < 0 THEN [@ EXCEPT !.error = TRUE]
                      ELSE [@ EXCEPT !.eof = FALSE]]
       /\ open' = IF to < 0 THEN open ELSE Moved(fd[s], to)
       /\ answer' = Answer("fseek", s, offset, 1, <<whence>>,
                           IF to < 0 THEN -1 ELSE 0)
  BY Zenon DEF CallFseek
<1>2. PICK to : to = SysLseek(fd[s], offset, whence)
  OBVIOUS
<1>3. UNCHANGED <<files, fd>> /\ ~flags[s].has_ungetc
  BY DEF CallFseek
<1>4. PICK g : g = IF to < 0 THEN [flags[s] EXCEPT !.error = TRUE]
                   ELSE [flags[s] EXCEPT !.eof = FALSE]
  OBVIOUS
<1>5. /\ flags' = [flags EXCEPT ![s] = g]
      /\ open' = IF to < 0 THEN open ELSE Moved(fd[s], to)
      /\ answer' = Answer("fseek", s, offset, 1, <<whence>>,
                          IF to < 0 THEN -1 ELSE 0)
  BY <1>1, <1>2, <1>4, Zenon
<1>6. /\ answer'.call = "fseek" /\ answer'.stream = s /\ answer'.asked = offset
      /\ answer'.bytes = <<whence>>
      /\ answer'.value = IF to < 0 THEN -1 ELSE 0
  BY <1>5 DEF Answer
<1>7. CASE fd[s] \notin DOMAIN open
  <2>1. to = -1
    BY <1>2, <1>7, Zenon DEF SysLseek
  <2>2. to < 0
    BY <2>1
  <2>3. Streams' = Streams /\ StdioInv'
    BY <1>3, <1>5, <1>7, <2>2, NoneMoves
  <2>4. Streams[s] = Contract!Closed
    BY <1>7, StreamClosed
  <2>5. Contract!Idle(s)
    BY <1>3, <2>3, <2>4 DEF Contract!Idle
  <2> QED BY <1>6, <2>3, <2>5, IdleStep
<1>8. CASE fd[s] \in DOMAIN open
  <2>1. PICK d \in DescriptionSet : d = open[fd[s]]
    BY <1>8, OpenDescription
  <2>2. PICK o \in Nat : o = d.offset
    BY DEF DescriptionSet
  <2>3. PICK f \in Flag : f = flags[s]
    BY <1>8 DEF StdioInv, KernelTyped, FlagsTyped
  <2>4. PICK st : st = Streams[s]
    OBVIOUS
  <2>5. st = [path |-> d.path, append |-> d.append, access |-> d.access,
              pos |-> o, back |-> Back(f), eof |-> f.eof, error |-> f.error]
    BY <1>8, <2>1, <2>2, <2>3, <2>4, StreamOpen DEF Seen
  <2>6. PICK from : from = From(st, whence)
    OBVIOUS
  <2>7. offset \in Int
    BY BoundAssumption
  <2>8. /\ to \in Int
        /\ to < 0 => (d.path \in Path => from + offset < 0)
        /\ ~(to < 0) => /\ d.path \in Path /\ to = from + offset
                        /\ from + offset >= 0
    BY <1>2, <1>8, <2>1, <2>4, <2>6, <2>7, SeekSame
  <2>9. st.path = d.path
    BY <2>5
  <2>10. Streams[s] # Contract!Closed
    BY <1>8, OpenIsNotClosed
  <2>11. CASE to < 0
    <3>1. g = [f EXCEPT !.error = TRUE]
      BY <1>4, <2>3, <2>11
    <3>2. g \in Flag /\ g.eof = f.eof /\ g.error = TRUE
          /\ g.has_ungetc = f.has_ungetc /\ Back(g) = << >> /\ Back(f) = << >>
      BY <1>3, <2>3, <3>1 DEF Flag, Back
    <3>3. open' = Moved(fd[s], o)
      BY <1>5, <1>8, <2>1, <2>2, <2>11, MovedNowhere
    <3>4. PICK new : new = Seen(d, o, g)
      OBVIOUS
    <3>5. Contract!Becomes(s, new) /\ Streams'[s] = new /\ StdioInv'
      BY <1>3, <1>5, <1>8, <2>1, <3>2, <3>3, <3>4, StreamBecomes
    <3>6. new = [path |-> d.path, append |-> d.append, access |-> d.access,
                 pos |-> o, back |-> Back(f), eof |-> f.eof, error |-> TRUE]
      BY <3>2, <3>4, Zenon DEF Seen
    <3>7. new.error = TRUE
      BY <3>6
    <3>8. PICK z : z = [st EXCEPT !.error = TRUE]
      OBVIOUS
    <3>9. z = new
      <4>1. z = [path |-> d.path, append |-> d.append, access |-> d.access,
                 pos |-> o, back |-> Back(f), eof |-> f.eof, error |-> TRUE]
        BY <2>5, <3>8
      <4> QED BY <3>6, <4>1, Zenon
    <3>10. Contract!Becomes(s, [st EXCEPT !.error = Streams'[s].error])
      BY <3>5, <3>7, <3>8, <3>9, Zenon
    <3>11. answer'.value # 0
      BY <1>6, <2>11
    <3>12. <<whence>>[1] = whence
      OBVIOUS
    <3>13. Contract!Fseek(s)
      BY <1>6, <2>4, <2>6, <2>8, <2>9, <2>11, <3>10, <3>11, <3>12, Zenon
         DEF Contract!Fseek, From
    <3> QED BY <1>6, <2>10, <3>5, <3>13, Zenon DEF Implements, StreamStep
  <2>12. CASE ~(to < 0)
    <3>1. g = [f EXCEPT !.eof = FALSE]
      BY <1>4, <2>3, <2>12
    <3>2. g \in Flag /\ g.eof = FALSE /\ g.error = f.error
          /\ g.has_ungetc = f.has_ungetc /\ Back(g) = << >> /\ Back(f) = << >>
      BY <1>3, <2>3, <3>1 DEF Flag, Back
    <3>3. open' = Moved(fd[s], to) /\ to \in Nat
      BY <1>5, <2>8, <2>12
    <3>4. PICK new : new = Seen(d, to, g)
      OBVIOUS
    <3>5. Contract!Becomes(s, new) /\ Streams'[s] = new /\ StdioInv'
      BY <1>3, <1>5, <1>8, <2>1, <3>2, <3>3, <3>4, StreamBecomes
    <3>6. new = [path |-> d.path, append |-> d.append, access |-> d.access,
                 pos |-> to, back |-> Back(f), eof |-> FALSE, error |-> f.error]
      BY <3>2, <3>4, Zenon DEF Seen
    <3>7. PICK z : z = [st EXCEPT !.pos = to, !.eof = FALSE]
      OBVIOUS
    <3>8. z = new
      <4>1. z = [path |-> d.path, append |-> d.append, access |-> d.access,
                 pos |-> to, back |-> Back(f), eof |-> FALSE, error |-> f.error]
        BY <2>5, <3>7
      <4> QED BY <3>6, <4>1, Zenon
    <3>9. Contract!Becomes(s, [st EXCEPT !.pos = from + offset, !.eof = FALSE])
      BY <2>8, <2>12, <3>5, <3>7, <3>8, Zenon
    <3>10. answer'.value = 0
      BY <1>6, <2>12
    <3>11. <<whence>>[1] = whence
      OBVIOUS
    <3>12. Contract!Fseek(s)
      BY <1>6, <2>4, <2>6, <2>8, <2>9, <2>12, <3>9, <3>10, <3>11, Zenon
         DEF Contract!Fseek, From
    <3> QED BY <1>6, <2>10, <3>5, <3>12, Zenon DEF Implements, StreamStep
  <2> QED BY <2>11, <2>12
<1> QED BY <1>7, <1>8

\* ftell.
LEMMA FtellImplements ==
  ASSUME StdioInv, NEW s \in Stream, CallFtell(s)
  PROVE  Implements(s)
<1>1. PICK at : at = SysLseek(fd[s], 0, "SEEK_CUR")
  OBVIOUS
<1>2. /\ flags' = [flags EXCEPT ![s].error = @ \/ at < 0]
      /\ answer' = Answer("ftell", s, 0, 1, << >>, at)
      /\ UNCHANGED <<files, open, fd>>
      /\ ~flags[s].has_ungetc
  BY <1>1, Zenon DEF CallFtell
<1>3. answer'.call = "ftell" /\ answer'.stream = s /\ answer'.value = at
  BY <1>2 DEF Answer
<1>4. PICK g : g = [flags[s] EXCEPT !.error = @ \/ at < 0]
  OBVIOUS
<1>5. flags' = [flags EXCEPT ![s] = g]
  BY <1>2, <1>4, FlagSet
<1>6. CASE fd[s] \notin DOMAIN open
  <2>1. Streams' = Streams /\ StdioInv'
    BY <1>2, <1>5, <1>6, NoneMoves
  <2>2. Streams[s] = Contract!Closed
    BY <1>6, StreamClosed
  <2>3. Contract!Idle(s)
    BY <1>2, <2>1, <2>2 DEF Contract!Idle
  <2> QED BY <1>3, <2>1, <2>3, IdleStep
<1>7. CASE fd[s] \in DOMAIN open
  <2>1. PICK d \in DescriptionSet : d = open[fd[s]]
    BY <1>7, OpenDescription
  <2>2. PICK o \in Nat : o = d.offset
    BY DEF DescriptionSet
  <2>3. PICK f \in Flag : f = flags[s]
    BY <1>7 DEF StdioInv, KernelTyped, FlagsTyped
  <2>4. PICK st : st = Streams[s]
    OBVIOUS
  <2>5. st = [path |-> d.path, append |-> d.append, access |-> d.access,
              pos |-> o, back |-> Back(f), eof |-> f.eof, error |-> f.error]
    BY <1>7, <2>1, <2>2, <2>3, <2>4, StreamOpen DEF Seen
  <2>6. at = IF d.path \in Path THEN o ELSE -1
    <3>1. /\ "SEEK_CUR" \in {"SEEK_SET", "SEEK_CUR", "SEEK_END"} /\ 0 \in Int
          /\ From(st, "SEEK_CUR") = o
      BY <2>5 DEF From
    <3>2. /\ at \in Int
          /\ at < 0 => (d.path \in Path => o + 0 < 0)
          /\ ~(at < 0) => d.path \in Path /\ at = o + 0
      BY <1>1, <1>7, <2>1, <2>4, <3>1, SeekSame
    <3>3. at < 0 => at = -1
      BY <1>1, <1>7, <2>1, <2>2 DEF SysLseek
    <3> QED BY <3>2, <3>3
  <2>7. g = [f EXCEPT !.error = @ \/ at < 0]
    BY <1>4, <2>3
  <2>8. g \in Flag /\ g.eof = f.eof /\ g.has_ungetc = f.has_ungetc
        /\ Back(g) = << >> /\ Back(f) = << >>
    BY <1>2, <2>3, <2>7 DEF Flag, Back
  <2>9. open' = Moved(fd[s], o)
    BY <1>2, <1>7, <2>1, <2>2, MovedNowhere
  <2>10. PICK new : new = Seen(d, o, g)
    OBVIOUS
  <2>11. Contract!Becomes(s, new) /\ Streams'[s] = new /\ StdioInv'
    <3>1. UNCHANGED <<fd, files>>
      BY <1>2
    <3>2. g \in Flag /\ new = Seen(open[fd[s]], o, g)
      BY <2>1, <2>8, <2>10
    <3>3. flags' = [flags EXCEPT ![s] = g] /\ open' = Moved(fd[s], o) /\ o \in Nat
      BY <1>5, <2>2, <2>9
    <3>4. \A x : x = Seen(open[fd[s]], o, g) =>
                 Contract!Becomes(s, x) /\ Streams'[s] = x /\ StdioInv'
      BY <1>7, <3>1, <3>2, <3>3, StreamBecomes
    <3> QED BY <3>2, <3>4, Zenon
  <2>12. PICK e : e = g.error
    OBVIOUS
  <2>13. new = [path |-> d.path, append |-> d.append, access |-> d.access,
                pos |-> o, back |-> Back(f), eof |-> f.eof, error |-> e]
    BY <2>8, <2>10, <2>12, Zenon DEF Seen
  <2>14. PICK z : z = [st EXCEPT !.error = e]
    OBVIOUS
  <2>15. z = new /\ new.error = e
    BY <2>5, <2>13, <2>14
  <2>16. Contract!Becomes(s, [st EXCEPT !.error = Streams'[s].error])
    BY <2>11, <2>14, <2>15, Zenon
  <2>17. st.path = d.path /\ st.pos = o
    BY <2>5
  <2>18. Contract!Ftell(s)
    BY <1>3, <2>4, <2>6, <2>16, <2>17, Zenon DEF Contract!Ftell
  <2>19. Streams[s] # Contract!Closed
    BY <1>7, OpenIsNotClosed
  <2> QED BY <1>3, <2>11, <2>18, <2>19, Zenon DEF Implements, StreamStep
<1> QED BY <1>6, <1>7

-----------------------------------------------------------------------------
(***************************************************************************)
(* Opening, closing and removing.                                          *)
(***************************************************************************)
\* fclose takes the descriptor of one stream out of the table.
LEMMA FcloseImplements ==
  ASSUME StdioInv, NEW s \in Stream, CallFclose(s)
  PROVE  Implements(s)
<1>1. /\ open' = Closed(fd[s]) /\ fd' = [fd EXCEPT ![s] = NoFd]
      /\ flags' = IF s \in Std THEN flags ELSE [flags EXCEPT ![s] = Fresh]
      /\ UNCHANGED files
  BY DEF CallFclose
<1>2. answer'.call = "fclose" /\ answer'.stream = s
  BY DEF CallFclose, Answer
<1>3. OwnedInv'
  BY FcloseKeepsOwned DEF StdioInv
<1>4. /\ DOMAIN open' = DOMAIN open \ {fd[s]}
      /\ open' = [e \in DOMAIN open' |-> open[e]]
      /\ \A e \in DOMAIN open' : open'[e] = open[e]
  BY <1>1 DEF Closed
<1>5. fd'[s] = NoFd /\ \A t \in Stream : t # s => fd'[t] = fd[t]
  BY <1>1 DEF StdioInv, OwnedInv, FdTyped
<1>6. NoFd \notin DOMAIN open'
  BY <1>3 DEF OwnedInv, DescriptorsOwned, Descriptors
<1>7. \A t \in Stream : t # s => flags'[t] = flags[t]
  BY <1>1 DEF StdioInv, KernelTyped, FlagsTyped
<1>8. \A t \in Stream : t # s => (fd'[t] \in DOMAIN open' <=> fd[t] \in DOMAIN open)
  BY <1>4, <1>5 DEF StdioInv, OwnedInv, FdTyped, DescriptorsOwned, Descriptors
<1>9. StdioInv'
  <2>1. OpenTyped'
    BY <1>1, <1>4 DEF StdioInv, KernelTyped, OpenTyped
  <2>2. FlagsTyped'
    BY <1>1, <1>5, <1>6, <1>7, <1>8 DEF StdioInv, KernelTyped, FlagsTyped
  <2>3. FilesTyped'
    BY <1>1 DEF StdioInv, KernelTyped, FilesTyped
  <2> QED BY <1>3, <2>1, <2>2, <2>3 DEF StdioInv, KernelTyped
<1>10. StreamOf(s)' = Contract!Closed
  BY <1>5, <1>6 DEF StreamOf, Contract!Closed
<1>11. ASSUME NEW t \in Stream, t # s PROVE StreamOf(t)' = StreamOf(t)
  BY <1>4, <1>5, <1>7, <1>8, <1>11 DEF StreamOf
<1>12. Streams' = [Streams EXCEPT ![s] = Contract!Closed]
  BY <1>10, <1>11 DEF Streams
<1>13. CASE fd[s] \in DOMAIN open
  <2>1. Contract!Fclose(s)
    BY <1>1, <1>2, <1>12 DEF Contract!Fclose, Contract!Becomes
  <2>2. Streams[s] # Contract!Closed
    BY <1>13, OpenIsNotClosed
  <2> QED BY <1>2, <1>9, <2>1, <2>2, Zenon DEF Implements, StreamStep
<1>14. CASE fd[s] \notin DOMAIN open
  <2>1. Streams[s] = Contract!Closed
    BY <1>14, StreamClosed
  <2>2. Streams' = Streams
    BY <1>12, <2>1 DEF Streams
  <2>3. Contract!Idle(s)
    BY <1>1, <2>1, <2>2 DEF Contract!Idle
  <2> QED BY <1>2, <1>9, <2>3, IdleStep
<1> QED BY <1>13, <1>14

\* remove takes a file no stream is open on.
LEMMA RemoveImplements ==
  ASSUME StdioInv, CallRemove
  PROVE  Contract!Remove /\ StdioInv'
<1>1. PICK path \in Path :
        /\ \A d \in DOMAIN open : open[d].path # path
        /\ files' = [p \in DOMAIN files \ {path} |-> files[p]]
        /\ answer' = Answer("remove", stdin, 0, 1, <<path>>,
                            IF path \in DOMAIN files THEN 0 ELSE -1)
  BY DEF CallRemove
<1>2. UNCHANGED <<open, fd, flags>>
  BY DEF CallRemove
<1>3. answer'.call = "remove" /\ answer'.bytes[1] = path
  BY <1>1 DEF Answer
<1>4. Streams' = Streams
  BY <1>2 DEF Streams, StreamOf
<1>5. FilesTyped'
  BY <1>1, StdAssumption DEF StdioInv, KernelTyped, FilesTyped
<1>6. OpenTyped'
  BY <1>1, <1>2 DEF StdioInv, KernelTyped, OpenTyped
<1>7. FlagsTyped' /\ OwnedInv'
  BY <1>2, SameKeepsOwned DEF StdioInv, KernelTyped, FlagsTyped, SameDescriptors
<1> QED BY <1>1, <1>3, <1>4, <1>5, <1>6, <1>7
     DEF Contract!Remove, StdioInv, KernelTyped

\* The file a mode cuts or makes.
CutFile(path) == [p \in DOMAIN files \cup {path} |->
                    IF p = path THEN << >> ELSE files[p]]

Made(path, mode) == mode \in {"w", "w+"}
                      \/ (mode \in {"a", "a+"} /\ path \notin DOMAIN files)

\* fopen opens a file, or fails before it touched the file or after.
LEMMA FopenCases ==
  ASSUME NEW s \in Stream, CallFopen(s)
  PROVE  \E path \in Path, mode \in Modes, value \in {0, -1} :
           /\ answer' = Answer("fopen", s, 0, 1, <<path, mode>>, value)
           /\ files' = files \/ (Made(path, mode) /\ files' = CutFile(path))
           /\ value = -1 => UNCHANGED <<fd, open>>
           /\ value = 0 =>
                /\ path \in DOMAIN files \/ Made(path, mode)
                /\ files' = IF Made(path, mode) THEN CutFile(path) ELSE files
                /\ \E d \in 0..MaxFd \ DOMAIN open :
                     /\ fd' = [fd EXCEPT ![s] = d]
                     /\ open' = [e \in DOMAIN open \cup {d} |->
                                   IF e = d
                                   THEN Description(path, Access(mode),
                                                    Appends(mode))
                                   ELSE open[e]]
<1>1. PICK path \in Path, mode \in Modes, memory \in BOOLEAN :
       LET free == 0..MaxFd \ DOMAIN open
           opened(d) ==
             /\ files' = IF path \notin DOMAIN files \/ Truncates(mode)
                         THEN [p \in DOMAIN files \cup {path} |->
                                 IF p = path THEN << >> ELSE files[p]]
                         ELSE files
             /\ IF memory
                THEN /\ fd' = [fd EXCEPT ![s] = d]
                     /\ open' = [e \in DOMAIN open \cup {d} |->
                                   IF e = d
                                   THEN Description(path, Access(mode),
                                                    Appends(mode))
                                   ELSE open[e]]
                     /\ answer' = Answer("fopen", s, 0, 1, <<path, mode>>, 0)
                ELSE /\ UNCHANGED <<fd, open>>
                     /\ answer' = Answer("fopen", s, 0, 1, <<path, mode>>, -1)
       IN IF free = {} \/ (path \notin DOMAIN files /\ ~Creates(mode))
          THEN /\ answer' = Answer("fopen", s, 0, 1, <<path, mode>>, -1)
               /\ UNCHANGED <<files, open, fd>>
          ELSE \E d \in free : (\A e \in free : d <= e) /\ opened(d)
  BY Zenon DEF CallFopen
<1>2. CASE 0..MaxFd \ DOMAIN open = {}
             \/ (path \notin DOMAIN files /\ ~Creates(mode))
  <2>1. /\ answer' = Answer("fopen", s, 0, 1, <<path, mode>>, -1)
        /\ UNCHANGED <<files, open, fd>>
    BY <1>1, <1>2, Zenon
  <2> QED BY <2>1
<1>3. CASE ~(0..MaxFd \ DOMAIN open = {}
               \/ (path \notin DOMAIN files /\ ~Creates(mode)))
  <2>1. PICK d \in 0..MaxFd \ DOMAIN open :
         /\ files' = IF path \notin DOMAIN files \/ Truncates(mode)
                     THEN CutFile(path) ELSE files
         /\ IF memory
            THEN /\ fd' = [fd EXCEPT ![s] = d]
                 /\ open' = [e \in DOMAIN open \cup {d} |->
                               IF e = d
                               THEN Description(path, Access(mode),
                                                Appends(mode))
                               ELSE open[e]]
                 /\ answer' = Answer("fopen", s, 0, 1, <<path, mode>>, 0)
            ELSE /\ UNCHANGED <<fd, open>>
                 /\ answer' = Answer("fopen", s, 0, 1, <<path, mode>>, -1)
    BY <1>1, <1>3, Zenon DEF CutFile
  <2>2. path \in DOMAIN files \/ Made(path, mode)
    BY <1>3 DEF Made, Creates
  <2>3. path \notin DOMAIN files \/ Truncates(mode) <=> Made(path, mode)
    BY <2>2 DEF Made, Truncates
  <2>4. files' = IF Made(path, mode) THEN CutFile(path) ELSE files
    BY <2>1, <2>3, Zenon
  <2>5. files' = files \/ (Made(path, mode) /\ files' = CutFile(path))
    BY <2>4, Zenon
  <2>6. CASE memory
    <3>1. /\ fd' = [fd EXCEPT ![s] = d]
          /\ open' = [e \in DOMAIN open \cup {d} |->
                        IF e = d
                        THEN Description(path, Access(mode), Appends(mode))
                        ELSE open[e]]
          /\ answer' = Answer("fopen", s, 0, 1, <<path, mode>>, 0)
      BY <2>1, <2>6, Zenon
    <3>2. 0 \in {0, -1} /\ 0 # -1
      OBVIOUS
    <3> QED BY <2>2, <2>4, <2>5, <3>1, <3>2, Zenon
  <2>7. CASE ~memory
    <3>1. /\ UNCHANGED <<fd, open>>
          /\ answer' = Answer("fopen", s, 0, 1, <<path, mode>>, -1)
      BY <2>1, <2>7, Zenon
    <3>2. -1 \in {0, -1} /\ 0 # -1
      OBVIOUS
    <3> QED BY <2>5, <3>1, <3>2, Zenon
  <2> QED BY <2>6, <2>7
<1> QED BY <1>2, <1>3

\* A stream that fopen opens is new, and the others keep their files.
LEMMA FopenImplements ==
  ASSUME StdioInv, NEW s \in Stream, CallFopen(s)
  PROVE  Implements(s)
<1>1. PICK path \in Path, mode \in Modes, value \in {0, -1} :
        /\ answer' = Answer("fopen", s, 0, 1, <<path, mode>>, value)
        /\ files' = files \/ (Made(path, mode) /\ files' = CutFile(path))
        /\ value = -1 => UNCHANGED <<fd, open>>
        /\ value = 0 =>
             /\ path \in DOMAIN files \/ Made(path, mode)
             /\ files' = IF Made(path, mode) THEN CutFile(path) ELSE files
             /\ \E d \in 0..MaxFd \ DOMAIN open :
                  /\ fd' = [fd EXCEPT ![s] = d]
                  /\ open' = [e \in DOMAIN open \cup {d} |->
                                IF e = d
                                THEN Description(path, Access(mode),
                                                 Appends(mode))
                                ELSE open[e]]
  BY FopenCases
<1>2. fd[s] = NoFd /\ flags' = [flags EXCEPT ![s] = Fresh]
  BY DEF CallFopen
<1>3. /\ answer'.call = "fopen" /\ answer'.stream = s
      /\ answer'.bytes[1] = path /\ answer'.bytes[2] = mode
      /\ answer'.value = value
  BY <1>1 DEF Answer
<1>4. fd[s] \notin DOMAIN open /\ Streams[s] = Contract!Closed
  <2>1. fd[s] \notin DOMAIN open
    BY <1>2 DEF StdioInv, OwnedInv, DescriptorsOwned, Descriptors
  <2> QED BY <2>1, StreamClosed
<1>5. OwnedInv'
  BY FopenKeepsOwned DEF StdioInv
<1>6. FilesTyped' /\ DOMAIN files \subseteq DOMAIN files'
  <2>1. CASE files' = files
    BY <2>1 DEF StdioInv, KernelTyped, FilesTyped
  <2>2. CASE files' = CutFile(path)
    <3>1. DOMAIN files' = DOMAIN files \cup {path}
      BY <2>2 DEF CutFile
    <3>2. \A p \in DOMAIN files' : files'[p] \in Seq(Byte)
      BY <2>2, <3>1 DEF CutFile, StdioInv, KernelTyped, FilesTyped
    <3>3. files' = [p \in DOMAIN files' |-> files'[p]]
      BY <2>2, <3>1 DEF CutFile
    <3> QED BY <3>1, <3>2, <3>3 DEF StdioInv, KernelTyped, FilesTyped
  <2> QED BY <1>1, <2>1, <2>2
<1>7. /\ flags'[s] = Fresh /\ Fresh \in Flag
      /\ flags' = [t \in Stream |-> flags'[t]]
      /\ \A t \in Stream : t # s => flags'[t] = flags[t]
  BY <1>2, BoundAssumption DEF StdioInv, KernelTyped, FlagsTyped, Fresh, Flag
<1>8. CASE value = -1
  <2>1. UNCHANGED <<fd, open>>
    BY <1>1, <1>8
  <2>2. Streams' = Streams
    BY <1>4, <1>7, <2>1 DEF Streams, StreamOf
  <2>3. StdioInv'
    <3>1. OpenTyped'
      BY <1>6, <2>1 DEF StdioInv, KernelTyped, OpenTyped
    <3>2. FlagsTyped'
      BY <1>7, <2>1 DEF StdioInv, KernelTyped, FlagsTyped
    <3> QED BY <1>5, <1>6, <3>1, <3>2 DEF StdioInv, KernelTyped
  <2>4. files' = files \/ (Made(path, mode) /\ files' = CutFile(path))
    BY <1>1
  <2>5. answer'.value # 0
    BY <1>3, <1>8
  <2>6. Contract!Fopen(s)
    BY <1>3, <2>2, <2>4, <2>5, Zenon DEF Contract!Fopen, Made, CutFile
  <2> QED BY <1>3, <1>4, <2>3, <2>6, Zenon DEF Implements, StreamStep
<1>9. CASE value = 0
  <2>1. PICK d \in 0..MaxFd \ DOMAIN open :
          /\ fd' = [fd EXCEPT ![s] = d]
          /\ open' = [e \in DOMAIN open \cup {d} |->
                        IF e = d
                        THEN Description(path, Access(mode), Appends(mode))
                        ELSE open[e]]
    BY <1>1, <1>9
  <2>2. /\ DOMAIN open' = DOMAIN open \cup {d}
        /\ open' = [e \in DOMAIN open' |-> open'[e]]
        /\ open'[d] = Description(path, Access(mode), Appends(mode))
        /\ \A e \in DOMAIN open : open'[e] = open[e]
    BY <2>1
  <2>3. fd'[s] = d /\ \A t \in Stream : t # s => fd'[t] = fd[t]
    BY <2>1 DEF StdioInv, OwnedInv, FdTyped
  <2>4. \A t \in Stream :
          t # s => (fd'[t] \in DOMAIN open' <=> fd[t] \in DOMAIN open)
    <3>1. \A t \in Stream : t # s => fd'[t] # d
      BY <1>5, <2>1, <2>3, BoundAssumption
         DEF OwnedInv, FdTyped, DescriptorsOwned, NoFd
    <3> QED BY <2>2, <2>3, <3>1
  <2>5. path \in DOMAIN files'
    <3>1. path \in DOMAIN files \/ Made(path, mode)
      BY <1>1, <1>9
    <3>2. Made(path, mode) => files' = CutFile(path)
      BY <1>1, <1>9
    <3> QED BY <1>6, <3>1, <3>2 DEF CutFile
  <2>6. PICK new : new = Description(path, Access(mode), Appends(mode))
    OBVIOUS
  <2>7. /\ new.path = path /\ new.access = Access(mode)
        /\ new.append = Appends(mode) /\ new.offset = 0
    BY <2>6 DEF Description
  <2>8. new \in DescriptionSet
    BY <2>6 DEF Description, DescriptionSet, Access, Appends
  <2>9. OpenTyped'
    <3>1. \A e \in DOMAIN open' :
            /\ open'[e] \in DescriptionSet
            /\ open'[e].path \in DOMAIN files' \cup {Terminal}
            /\ open'[e].path = Terminal => open'[e].access = "w"
            /\ open'[e].path = Pipe => open'[e].access = "r"
      <4>1. SUFFICES ASSUME NEW e \in DOMAIN open'
                     PROVE  /\ open'[e] \in DescriptionSet
                            /\ open'[e].path \in DOMAIN files' \cup {Terminal}
                            /\ open'[e].path = Terminal => open'[e].access = "w"
                            /\ open'[e].path = Pipe => open'[e].access = "r"
        OBVIOUS
      <4>2. CASE e = d
        BY <2>2, <2>5, <2>6, <2>7, <2>8, <4>2, StdAssumption
      <4>3. CASE e # d
        BY <1>6, <2>2, <4>3 DEF StdioInv, KernelTyped, OpenTyped
      <4> QED BY <4>2, <4>3
    <3> QED BY <2>2, <3>1 DEF OpenTyped
  <2>10. FlagsTyped'
    BY <1>7, <2>4 DEF StdioInv, KernelTyped, FlagsTyped
  <2>11. StdioInv'
    BY <1>5, <1>6, <2>9, <2>10 DEF StdioInv, KernelTyped
  <2>12. PICK seen : seen = Contract!At(path, Access(mode), Appends(mode))
    OBVIOUS
  <2>13. seen = [path |-> path, append |-> Appends(mode),
                 access |-> Access(mode), pos |-> 0, back |-> << >>,
                 eof |-> FALSE, error |-> FALSE]
    BY <2>12 DEF Contract!At, Contract!Closed
  <2>14. StreamOf(s)' = seen
    <3>1. fd'[s] \in DOMAIN open' /\ open'[fd'[s]] = new
      BY <2>2, <2>3, <2>6
    <3>2. /\ flags'[s].has_ungetc = FALSE /\ flags'[s].eof = FALSE
          /\ flags'[s].error = FALSE
      BY <1>7 DEF Fresh
    <3> QED BY <2>7, <2>13, <3>1, <3>2 DEF StreamOf
  <2>15. ASSUME NEW t \in Stream, t # s PROVE StreamOf(t)' = StreamOf(t)
    BY <1>7, <2>2, <2>3, <2>4, <2>15 DEF StreamOf
  <2>16. Streams' = [Streams EXCEPT ![s] = seen]
    BY <2>14, <2>15 DEF Streams
  <2>17. (CASE mode = "r" -> "r"
            [] mode \in {"w", "a"} -> "w"
            [] mode \in {"r+", "w+", "a+"} -> "rw") = Access(mode)
    BY ModeAssumption DEF Access
  <2>18. (mode \in {"a", "a+"}) = Appends(mode)
    BY DEF Appends
  <2>19. /\ path \in DOMAIN files \/ Made(path, mode)
         /\ files' = IF Made(path, mode) THEN CutFile(path) ELSE files
    BY <1>1, <1>9
  <2>20. Streams' = [Streams EXCEPT ![s] =
                      Contract!At(path,
                        CASE mode = "r" -> "r"
                          [] mode \in {"w", "a"} -> "w"
                          [] mode \in {"r+", "w+", "a+"} -> "rw",
                        mode \in {"a", "a+"})]
    BY <2>12, <2>16, <2>17, <2>18, Zenon
  <2>21. Contract!Fopen(s)
    BY <1>3, <1>9, <2>19, <2>20, Zenon DEF Contract!Fopen, Made, CutFile
  <2> QED BY <1>3, <1>4, <2>11, <2>21, Zenon DEF Implements, StreamStep
<1> QED BY <1>8, <1>9

-----------------------------------------------------------------------------
(***************************************************************************)
(* The refinement.                                                         *)
(***************************************************************************)
\* A stream that was just opened, member by member.
LEMMA AtStart ==
  \A p, a, b :
    /\ Contract!At(p, a, b) =
         [path |-> p, append |-> b, access |-> a, pos |-> 0,
          back |-> << >>, eof |-> FALSE, error |-> FALSE]
    /\ Description(p, a, b).path = p /\ Description(p, a, b).access = a
    /\ Description(p, a, b).append = b /\ Description(p, a, b).offset = 0
<1> TAKE p, a, b
<1>1. PICK seen : seen = Contract!At(p, a, b)
  OBVIOUS
<1>2. seen = [path |-> p, append |-> b, access |-> a, pos |-> 0,
              back |-> << >>, eof |-> FALSE, error |-> FALSE]
  BY <1>1 DEF Contract!At, Contract!Closed
<1>3. /\ Description(p, a, b).path = p /\ Description(p, a, b).access = a
      /\ Description(p, a, b).append = b /\ Description(p, a, b).offset = 0
  BY DEF Description
<1> QED BY <1>1, <1>2, <1>3, Zenon

\* When the program starts, stdin and stdout are the open streams.
LEMMA InitImplements ==
  ASSUME Init
  PROVE  Contract!Init /\ StdioInv
<1>1. PICK ps \in SUBSET Path :
        files = [p \in ps \cup {Pipe} |-> IF p = Pipe THEN Typed ELSE << >>]
  BY DEF Init
<1>2. /\ fd = [s \in Stream |-> IF s = stdin THEN 0
                                ELSE IF s = stdout THEN 1 ELSE NoFd]
      /\ flags = [s \in Stream |-> Fresh]
  BY DEF Init
<1>3. /\ open = [d \in {0, 1} |-> IF d = 0 THEN Description(Pipe, "r", FALSE)
                                  ELSE Description(Terminal, "w", FALSE)]
      /\ answer = Answer("none", stdin, 0, 1, << >>, 0)
  BY DEF Init
<1>4. /\ stdin \in Stream /\ stdout \in Stream /\ stdin # stdout
      /\ \A s \in Stream : s \notin Slot => s = stdin \/ s = stdout
      /\ stdin \notin Slot /\ stdout \notin Slot
  BY StdAssumption DEF Stream, stdin, stdout
<1>5. /\ DOMAIN open = {0, 1} /\ open[0] = Description(Pipe, "r", FALSE)
      /\ open[1] = Description(Terminal, "w", FALSE)
  BY <1>3
<1>6. /\ fd[stdin] = 0 /\ fd[stdout] = 1
      /\ \A s \in Slot : fd[s] = NoFd
  BY <1>2, <1>4 DEF Stream
<1>7. OwnedInv
  BY DescriptorsAtStart
<1>8. KernelTyped
  <2>1. FilesTyped
    <3>1. \A p \in DOMAIN files : files[p] \in Seq(Byte)
      BY <1>1, BoundAssumption
    <3>2. DOMAIN files = ps \cup {Pipe} /\ files = [p \in DOMAIN files |-> files[p]]
      BY <1>1
    <3> QED BY <3>1, <3>2 DEF FilesTyped
  <2>2. OpenTyped
    <3>1. Pipe \in DOMAIN files /\ Pipe # Terminal
      BY <1>1, StdAssumption
    <3>2. open = [d \in DOMAIN open |-> open[d]]
      BY <1>3
    <3>3. \A p \in {Pipe, Terminal}, a \in {"r", "w"} :
            /\ Description(p, a, FALSE) \in DescriptionSet
            /\ Description(p, a, FALSE).path = p
            /\ Description(p, a, FALSE).access = a
      BY DEF Description, DescriptionSet
    <3>4. ASSUME NEW d \in DOMAIN open
          PROVE  /\ open[d] \in DescriptionSet
                 /\ open[d].path \in DOMAIN files \cup {Terminal}
                 /\ open[d].path = Terminal => open[d].access = "w"
                 /\ open[d].path = Pipe => open[d].access = "r"
      <4>1. PICK p \in {Pipe, Terminal}, a \in {"r", "w"} :
              /\ open[d] = Description(p, a, FALSE)
              /\ p \in DOMAIN files \cup {Terminal}
              /\ (p = Terminal => a = "w") /\ (p = Pipe => a = "r")
        <5>1. d = 0 \/ d = 1
          BY <1>5
        <5>2. Pipe \in {Pipe, Terminal} /\ Terminal \in {Pipe, Terminal}
              /\ "r" \in {"r", "w"} /\ "w" \in {"r", "w"}
              /\ Terminal \in DOMAIN files \cup {Terminal}
              /\ Pipe \in DOMAIN files \cup {Terminal}
          BY <3>1
        <5> QED BY <1>5, <3>1, <5>1, <5>2, Zenon
      <4> QED BY <3>3, <4>1, Zenon
    <3> QED BY <3>2, <3>4 DEF OpenTyped
  <2>3. FlagsTyped
    BY <1>2, BoundAssumption DEF FlagsTyped, Flag, Fresh
  <2> QED BY <2>1, <2>2, <2>3 DEF KernelTyped
<1>9. \A s \in Slot : StreamOf(s) = Contract!Closed
  <2>1. NoFd \notin DOMAIN open
    BY <1>5 DEF NoFd
  <2> QED BY <1>6, <2>1 DEF StreamOf, Contract!Closed
<1>10. ASSUME NEW s \in {stdin, stdout} PROVE flags[s] = Fresh
  BY <1>2, <1>4
<1>11. /\ open[0].path = Pipe /\ open[0].access = "r"
       /\ open[0].append = FALSE /\ open[0].offset = 0
       /\ open[1].path = Terminal /\ open[1].access = "w"
       /\ open[1].append = FALSE /\ open[1].offset = 0
  BY <1>5 DEF Description
<1>12. ASSUME NEW s \in {stdin, stdout}
       PROVE  StreamOf(s) = Contract!At(open[fd[s]].path, open[fd[s]].access, FALSE)
  <2>1. fd[s] \in DOMAIN open /\ open[fd[s]].offset = 0
        /\ open[fd[s]].append = FALSE
    BY <1>5, <1>6, <1>11
  <2>2. flags[s].has_ungetc = FALSE /\ flags[s].eof = FALSE
        /\ flags[s].error = FALSE
    BY <1>10 DEF Fresh
  <2>3. PICK p, a : p = open[fd[s]].path /\ a = open[fd[s]].access
    OBVIOUS
  <2>4. StreamOf(s) = [path |-> p, append |-> FALSE, access |-> a, pos |-> 0,
                       back |-> << >>, eof |-> FALSE, error |-> FALSE]
    BY <2>1, <2>2, <2>3 DEF StreamOf
  <2> QED BY <2>3, <2>4, AtStart, Zenon
<1>13. /\ StreamOf(stdin) = Contract!At(Pipe, "r", FALSE)
       /\ StreamOf(stdout) = Contract!At(Terminal, "w", FALSE)
  BY <1>5, <1>6, <1>11, <1>12
<1>14. Streams = [s \in Slot \cup Std |->
                    IF s \in Slot THEN Contract!Closed
                    ELSE IF s = "stdin" THEN Contract!At(Pipe, "r", FALSE)
                    ELSE Contract!At(Terminal, "w", FALSE)]
  BY <1>4, <1>9, <1>13 DEF Streams, Stream, stdin, stdout
<1>15. answer = [call |-> "none", stream |-> "stdin", asked |-> 0, size |-> 1,
                 bytes |-> << >>, value |-> 0]
  BY <1>3 DEF Answer, stdin
<1>16. Contract!Init
  BY <1>1, <1>14, <1>15, Zenon DEF Contract!Init
<1> QED BY <1>7, <1>8, <1>16 DEF StdioInv

\* Every step is one of the contract's, or one it does not see.
LEMMA NextImplements ==
  ASSUME StdioInv, [Next]_vars
  PROVE  StdioInv' /\ [Contract!Next]_(Contract!vars)
<1>1. CASE CallRemove
  BY <1>1, RemoveImplements, Zenon DEF Contract!Next
<1>2. CASE \E s \in Stream :
             \/ CallFopen(s) \/ CallFclose(s)
             \/ CallFread(s) \/ CallFgetc(s) \/ CallFgets(s) \/ CallUngetc(s)
             \/ CallFwrite(s) \/ CallFputs(s) \/ CallFseek(s) \/ CallFtell(s)
  <2>1. PICK s \in Stream :
             \/ CallFopen(s) \/ CallFclose(s)
             \/ CallFread(s) \/ CallFgetc(s) \/ CallFgets(s) \/ CallUngetc(s)
             \/ CallFwrite(s) \/ CallFputs(s) \/ CallFseek(s) \/ CallFtell(s)
    BY <1>2
  <2>2. Implements(s)
    BY <2>1, FopenImplements, FcloseImplements, FreadImplements,
       FgetcImplements, FgetsImplements, UngetcImplements, FwriteImplements,
       FputsImplements, FseekImplements, FtellImplements, Zenon
  <2>3. s \in Slot \cup Std
    BY DEF Stream
  <2> QED BY <2>2, <2>3, Zenon DEF Implements, StreamStep, Contract!Next
<1>3. CASE UNCHANGED vars
  <2>1. Streams' = Streams /\ UNCHANGED <<files, answer>>
    BY <1>3 DEF vars, Streams, StreamOf
  <2>2. StdioInv'
    <3>1. UNCHANGED <<files, open, fd, flags>>
      BY <1>3 DEF vars
    <3>2. OwnedInv'
      BY <3>1, SameKeepsOwned DEF StdioInv, SameDescriptors
    <3> QED BY <3>1, <3>2
         DEF StdioInv, KernelTyped, FilesTyped, OpenTyped, FlagsTyped
  <2> QED BY <2>1, <2>2 DEF Contract!vars
<1> QED BY <1>1, <1>2, <1>3, Zenon DEF Next

\* Whatever the program calls, on how many streams and files, and whichever
\* reads, writes and opens fail or stop short: each call of the runtime does
\* and returns what C90 lets it (StreamContract).
THEOREM StreamsAsInC90 == Spec => ImplementsContract
<1>1. Init => Contract!Init /\ StdioInv
  BY InitImplements
<1>2. StdioInv /\ [Next]_vars => StdioInv' /\ [Contract!Next]_(Contract!vars)
  BY NextImplements
<1> QED BY <1>1, <1>2, PTL DEF Spec, ImplementsContract, Contract!Spec
=============================================================================
