------------------------------- MODULE Mutex -------------------------------
(***************************************************************************)
(* What a mutex of threads.h promises its callers (mtx_lock, mtx_unlock):  *)
(* at most one thread is between its lock and its unlock.  The holder is   *)
(* kept as a set with at most one member, so that no "nobody" value is     *)
(* needed.                                                                 *)
(***************************************************************************)
CONSTANT Threads

VARIABLE holder

Init == holder = {}

\* mtx_lock returning to its caller.
Lock(t) == holder = {} /\ holder' = {t}

\* mtx_unlock.
Unlock(t) == holder = {t} /\ holder' = {}

Next == \E t \in Threads : Lock(t) \/ Unlock(t)

Spec == Init /\ [][Next]_holder
=============================================================================
