------------------------------- MODULE MCTss -------------------------------
(***************************************************************************)
(* Tss with a table of one key at first, so that the second key makes it   *)
(* grow while threads hold values, and two threads.                        *)
(***************************************************************************)
EXTENDS Tss
=============================================================================
