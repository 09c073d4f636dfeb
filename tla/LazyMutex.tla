----------------------------- MODULE LazyMutex -----------------------------
(***************************************************************************)
(* A mutex that is initialised by the first thread that needs it: the      *)
(* scheme malloc.c (init_malloc, malloc_mtx) and tls.c (init_tss_mtx_flag, *)
(* tss_mtx) both use, over the spin lock that mtx.c and spinlock.c build   *)
(* from atomic_flag_test_and_set.                                          *)
(*                                                                         *)
(* One action is one access to shared memory.  A failed test-and-set       *)
(* stores TRUE over TRUE and so changes nothing: the busy-wait loops are   *)
(* the guards "~guard" and "~lock".  The flags are exchanged with xchg and *)
(* the other accesses are volatile, so on x86 an interleaving of the       *)
(* accesses is an execution and the other way round.                       *)
(***************************************************************************)
CONSTANTS
  Threads,    \* every thread the process may ever have
  Main        \* the thread that runs __libc_start_main

ASSUME ThreadsAssumption == Main \in Threads

VARIABLES
  early,  \* never changes: a thread is created only when the mutex is ready
  live,   \* the threads that exist
  guard,  \* malloc_mtx_flag, tss_mtx_flag
  ready,  \* malloc_mtx_init, tss_mtx_init
  lock,   \* the spin flag of malloc_mtx, tss_mtx
  at      \* where each thread is in lazy initialisation, lock and unlock

vars == <<early, live, guard, ready, lock, at>>

(***************************************************************************)
(* "out"     not using the mutex                                           *)
(* "guard"   saw ready = FALSE, spinning on the guard flag                 *)
(* "reset"   holds the guard, about to call mtx_init                       *)
(* "publish" about to store TRUE in ready                                  *)
(* "unguard" about to clear the guard flag                                 *)
(* "lock"    spinning in mtx_lock                                          *)
(* "in"      in the critical section                                       *)
(***************************************************************************)
Initialising == {"reset", "publish", "unguard"}
Places == {"out", "guard", "lock", "in"} \cup Initialising

\* malloc_mtx is initialised before the first clone, tss_mtx need not be.
Init ==
  /\ early \in BOOLEAN
  /\ live = {Main}
  /\ guard = FALSE        \* ATOMIC_FLAG_INIT
  /\ ready = FALSE
  /\ lock = FALSE         \* static storage
  /\ at = [t \in Threads |-> "out"]

\* clone in thrd_create: the caller is outside the critical section.
Spawn(t, u) ==
  /\ t \in live /\ u \notin live
  /\ at[t] = "out"
  /\ early => ready
  /\ live' = live \cup {u}
  /\ early' = early
  /\ UNCHANGED <<guard, ready, lock, at>>

Goto(t, place) == at' = [at EXCEPT ![t] = place]

\* A mutation: the early return skips mtx_lock as well.
EnterUnlocked(t) ==
  /\ t \in live
  /\ at[t] = "out"
  /\ Goto(t, IF ready THEN "in" ELSE "guard")
  /\ early' = early
  /\ UNCHANGED <<live, guard, ready, lock>>

\* The early return of init_malloc and init_tss_mtx_flag, or the slow path.
Enter(t) ==
  /\ t \in live
  /\ at[t] = "out"
  /\ Goto(t, IF ready THEN "lock" ELSE "guard")
  /\ early' = early
  /\ UNCHANGED <<live, guard, ready, lock>>

\* mtx_lock with no initialisation before it (tss_set, tss_delete).
EnterReady(t) ==
  /\ t \in live
  /\ at[t] = "out"
  /\ ready
  /\ Goto(t, "lock")
  /\ early' = early
  /\ UNCHANGED <<live, guard, ready, lock>>

\* The test-and-set on the guard flag that finds it clear.
TakeGuard(t) ==
  /\ at[t] = "guard"
  /\ ~guard
  /\ guard' = TRUE
  /\ Goto(t, "reset")
  /\ early' = early
  /\ UNCHANGED <<live, ready, lock>>

\* mtx_init: nothing asks whether another thread has already done it.
ResetLock(t) ==
  /\ at[t] = "reset"
  /\ lock' = FALSE
  /\ Goto(t, "publish")
  /\ early' = early
  /\ UNCHANGED <<live, guard, ready>>

Publish(t) ==
  /\ at[t] = "publish"
  /\ ready' = TRUE
  /\ Goto(t, "unguard")
  /\ early' = early
  /\ UNCHANGED <<live, guard, lock>>

\* A mutation: the guard flag stays set.
LeaveGuardSet(t) ==
  /\ at[t] = "unguard"
  /\ Goto(t, "lock")
  /\ early' = early
  /\ UNCHANGED <<live, guard, ready, lock>>

ClearGuard(t) ==
  /\ at[t] = "unguard"
  /\ guard' = FALSE
  /\ Goto(t, "lock")
  /\ early' = early
  /\ UNCHANGED <<live, ready, lock>>

\* A mutation: mtx_lock sets the flag and does not wait for it.
AcquireBlindly(t) ==
  /\ at[t] = "lock"
  /\ lock' = TRUE
  /\ Goto(t, "in")
  /\ early' = early
  /\ UNCHANGED <<live, guard, ready>>

\* The test-and-set of mtx_lock that finds the lock free.
Acquire(t) ==
  /\ at[t] = "lock"
  /\ ~lock
  /\ lock' = TRUE
  /\ Goto(t, "in")
  /\ early' = early
  /\ UNCHANGED <<live, guard, ready>>

\* A mutation: an error path leaves without mtx_unlock.
ReturnLocked(t) ==
  /\ at[t] = "in"
  /\ Goto(t, "out")
  /\ early' = early
  /\ UNCHANGED <<live, guard, ready, lock>>

\* mtx_unlock.
Release(t) ==
  /\ at[t] = "in"
  /\ lock' = FALSE
  /\ Goto(t, "out")
  /\ early' = early
  /\ UNCHANGED <<live, guard, ready>>

\* The steps of a thread that has asked for the mutex.
Proceed(t) ==
  \/ TakeGuard(t) \/ ResetLock(t) \/ Publish(t) \/ ClearGuard(t)
  \/ Acquire(t) \/ Release(t)

Next ==
  \/ \E t, u \in Threads : Spawn(t, u)
  \/ \E t \in Threads : Enter(t) \/ EnterReady(t) \/ Proceed(t)

Spec == Init /\ [][Next]_vars

(***************************************************************************)
(* A thread that has begun to lock keeps running: the scheduler of the     *)
(* kernel is preemptive, and every critical section is a finite sequence   *)
(* of steps.  Nothing forces a thread to ask for the mutex, and nothing    *)
(* makes one particular test-and-set win.                                  *)
(***************************************************************************)
FairSpec == Spec /\ \A t \in Threads : WF_vars(Proceed(t))
-----------------------------------------------------------------------------
TypeOK ==
  /\ early \in BOOLEAN
  /\ live \subseteq Threads
  /\ guard \in BOOLEAN
  /\ ready \in BOOLEAN
  /\ lock \in BOOLEAN
  /\ at \in [Threads -> Places]

OneInside == \A t, u \in Threads : at[t] = "in" /\ at[u] = "in" => t = u

\* malloc_mtx protects the heap: two threads are never between mtx_lock and
\* mtx_unlock at once, if the mutex is ready before there are two.
MutualExclusion == early => OneInside

\* A lock flag that is set has somebody who will clear it, even when two
\* threads initialise the mutex one after the other: no run of resets,
\* acquisitions and releases leaves every later mtx_lock spinning for ever.
NotOrphaned == lock => \E t \in Threads : at[t] = "in"

\* One thread at a time initialises, and the guard flag is set exactly then.
OneInitialiser ==
  /\ \A t, u \in Threads :
       at[t] \in Initialising /\ at[u] \in Initialising => t = u
  /\ guard <=> \E t \in Threads : at[t] \in Initialising

\* A mutex that a thread holds is not initialised again, if it is ready before
\* a second thread exists.
NoResetWhileHeld ==
  [][\A t, u \in Threads : early /\ ResetLock(t) => at[u] # "in"]_vars

\* Threads that want the mutex are not all kept out for ever: somebody gets
\* in, even if several of them initialise the mutex one after the other.
Progress ==
  (\E t \in Threads : at[t] # "out") ~> (\E t \in Threads : at[t] = "in")

\* The promise of threads.h for a mutex that is ready early: the thread in the
\* critical section is its holder.  Of a late one nothing is promised.
Holder == IF early THEN {t \in Threads : at[t] = "in"} ELSE {}
Abstract == INSTANCE Mutex WITH holder <- Holder
Implements == Abstract!Spec
=============================================================================
