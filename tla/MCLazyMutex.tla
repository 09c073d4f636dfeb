---------------------------- MODULE MCLazyMutex ----------------------------
(***************************************************************************)
(* LazyMutex on the initial thread and three others, early or late.  The   *)
(* race needs two threads, a late initialiser beside a holder and a waiter *)
(* needs three.                                                            *)
(***************************************************************************)
EXTENDS LazyMutex
=============================================================================
