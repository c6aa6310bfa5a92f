----------------------------- MODULE MCRvStdio ------------------------------
(***************************************************************************)
(* RvStdio with one file of at most three bytes, two pointers to streams,  *)
(* a pipe that gives three bytes, and four descriptors.  One program makes *)
(* every call on one stream of the file, one has two streams of it, and    *)
(* one works on stdin and stdout, closes them, and opens the file.         *)
(***************************************************************************)
EXTENDS RvStdio, TLC

VARIABLE program

CONSTANTS f, s1, s2

MCTyped   == <<"x", "nl", "x">>
MCStrings == {<< >>, <<"x">>, <<"x", "nl">>}
MCModes   == {"r", "r+", "w", "a"}
MCCounts  == {<<0, 1>>, <<1, 1>>, <<1, 2>>, <<2, 1>>}
MCLines   == {1, 3}
MCOffsets == {-1, 0, 1}
MCByte    == {"x", "nl", "0"}

MCInit == Init /\ program \in {"one", "two", "standard"}

Uses(s) ==
  \/ CallFclose(s) \/ CallFwrite(s) \/ CallFputs(s)
  \/ CallFread(s) \/ CallFgetc(s) \/ CallFgets(s) \/ CallUngetc(s)
  \/ CallFseek(s) \/ CallFtell(s)

MCNext ==
  /\ \/ program = "one" /\ (CallFopen(s1) \/ Uses(s1) \/ CallRemove)
     \/ /\ program = "two"
        /\ \E s \in Slot :
             CallFopen(s) \/ CallFclose(s) \/ CallFputs(s) \/ CallFgetc(s)
     \/ /\ program = "standard"
        /\ \/ \E s \in Std : Uses(s)
           \/ CallFopen(s1) \/ CallFclose(s1)
  /\ UNCHANGED program

MCSpec == MCInit /\ [][MCNext]_<<vars, program>>

\* The next call depends neither on the answer to the last one nor on the
\* character that was pushed back before.
View == <<files, open, fd, program,
          [s \in Stream |-> IF flags[s].has_ungetc THEN flags[s]
                            ELSE [flags[s] EXCEPT !.ungetc_char = ZeroByte]]>>
=============================================================================
