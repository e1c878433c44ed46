------------------------------- MODULE Memory -------------------------------
(***************************************************************************)
(* Blocks of memory, as ut_malloc() and ut_realloc() of util/util.c hand   *)
(* them out: functions from 0..n-1.  The daemon exits when there is no     *)
(* memory, so that they never fail.                                        *)
(***************************************************************************)
EXTENDS Integers

CONSTANTS
    Nil,   \* C's NULL
    Junk   \* what a block holds before it is written

ut_malloc(n) == [i \in 0..n - 1 |-> Junk]

\* What fits of the old block is kept.
ut_realloc(block, n) ==
    [i \in 0..n - 1 |-> IF i \in DOMAIN block THEN block[i] ELSE Junk]
=============================================================================
