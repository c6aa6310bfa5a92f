------------------------------ MODULE MCDriver ------------------------------
(***************************************************************************)
(* Driver with the jobs of a parallel make.                                *)
(***************************************************************************)
EXTENDS Driver

\* x.c to x.s, x.c to an object, y.c to an executable, all at once.
ApartMode   == [asm |-> "S", obj |-> "c", exe |-> "exe"]
ApartInput  == [asm |-> <<"x", "c">>, obj |-> <<"x", "c">>,
                exe |-> <<"y", "c">>]
ApartOutput == [asm |-> None, obj |-> <<"x", "stage2", "o">>, exe |-> None]

\* The rules %.stage2.o and %.i386_s2.o of the Makefile, for one x.c.
StageMode   == [stage2 |-> "c", i386 |-> "c"]
StageInput  == [stage2 |-> <<"x", "c">>, i386 |-> <<"x", "c">>]
StageOutput == [stage2 |-> <<"x", "stage2", "o">>,
                i386 |-> <<"x", "i386_s2", "o">>]
=============================================================================
