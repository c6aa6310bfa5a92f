---------------------------- MODULE MCAggregates ----------------------------
(***************************************************************************)
(* Bytes of two bits: a char has two, a short four and an int eight, in    *)
(* registers of eight bits (i386, RISC-V) and of sixteen (x86_64).         *)
(***************************************************************************)
EXTENDS Aggregates

MCTypes == {[size |-> 1, align |-> 1, is_unsigned |-> FALSE],
            [size |-> 2, align |-> 2, is_unsigned |-> TRUE],
            [size |-> 4, align |-> 4, is_unsigned |-> FALSE]}

MCTargets == {[register |-> 4, immediate |-> 4], [register |-> 8, immediate |-> 4]}

MCPatterns == {{0, 2, 3, 6, 9, 12, 15}}
=============================================================================
