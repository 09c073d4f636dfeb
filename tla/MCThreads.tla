----------------------------- MODULE MCThreads -----------------------------
(***************************************************************************)
(* Threads with the initial thread and two more.  Each may be created by   *)
(* one and joined or detached by another, so every pair of exit, detach    *)
(* and join that can meet in one object does.                              *)
(***************************************************************************)
EXTENDS Threads
=============================================================================
