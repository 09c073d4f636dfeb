-------------------------- MODULE LazyMutexProofs --------------------------
(***************************************************************************)
(* What LazyMutex guarantees for every set of threads.                     *)
(*                                                                         *)
(* Whether or not a thread can be created before the mutex is initialised: *)
(* the typing, one initialiser at a time, and no lock left without holder. *)
(*                                                                         *)
(* When early holds, as it does for malloc_mtx (__libc_start_main and      *)
(* thrd_create allocate before they clone): the mutex is never initialised *)
(* a second time while it is held, two threads are never in the critical   *)
(* section, and LazyMutex implements Mutex.                                *)
(***************************************************************************)
EXTENDS LazyMutex, TLAPS

\* Every variable keeps its type, for every set of threads.
THEOREM TypeCorrect == Spec => []TypeOK
<1>1. Init => TypeOK
  BY ThreadsAssumption DEF Init, TypeOK, Places
<1>2. TypeOK /\ [Next]_vars => TypeOK'
  <2> SUFFICES ASSUME TypeOK, [Next]_vars
               PROVE  TypeOK'
    OBVIOUS
  <2> USE DEF TypeOK, Places, Initialising, Goto
  <2>1. ASSUME NEW t \in Threads, NEW u \in Threads, Spawn(t, u)
        PROVE  TypeOK'
    BY <2>1 DEF Spawn
  <2>2. ASSUME NEW t \in Threads, Enter(t) \/ EnterReady(t)
        PROVE  TypeOK'
    BY <2>2 DEF Enter, EnterReady
  <2>3. ASSUME NEW t \in Threads, TakeGuard(t) \/ ResetLock(t) \/ Publish(t) \/ ClearGuard(t)
        PROVE  TypeOK'
    BY <2>3 DEF TakeGuard, ResetLock, Publish, ClearGuard
  <2>4. ASSUME NEW t \in Threads, Acquire(t) \/ Release(t)
        PROVE  TypeOK'
    BY <2>4 DEF Acquire, Release
  <2>5. CASE UNCHANGED vars
    BY <2>5 DEF vars
  <2> QED
    BY <2>1, <2>2, <2>3, <2>4, <2>5 DEF Next, Proceed
<1> QED
  BY <1>1, <1>2, PTL DEF Spec
-----------------------------------------------------------------------------
(***************************************************************************)
(* One initialiser, and no orphaned lock.                                  *)
(***************************************************************************)

\* The guard flag of malloc_mtx_flag and tss_mtx_flag admits one thread to
\* mtx_init at a time and is set exactly while one is there.
THEOREM OneInitialiserHolds == Spec => []OneInitialiser
<1>1. Init => OneInitialiser
  BY DEF Init, OneInitialiser, Initialising
<1>2. TypeOK /\ OneInitialiser /\ [Next]_vars => OneInitialiser'
  <2> SUFFICES ASSUME TypeOK, OneInitialiser, [Next]_vars
               PROVE  OneInitialiser'
    OBVIOUS
  <2> USE DEF TypeOK, OneInitialiser, Initialising, Goto
  <2>1. ASSUME NEW t \in Threads, NEW u \in Threads, Spawn(t, u)
        PROVE  OneInitialiser'
    BY <2>1 DEF Spawn
  <2>2. ASSUME NEW t \in Threads, Enter(t) \/ EnterReady(t)
        PROVE  OneInitialiser'
    BY <2>2 DEF Enter, EnterReady
  <2>3. ASSUME NEW t \in Threads, TakeGuard(t)
        PROVE  OneInitialiser'
    BY <2>3 DEF TakeGuard
  <2>4. ASSUME NEW t \in Threads, ResetLock(t) \/ Publish(t)
        PROVE  OneInitialiser'
    BY <2>4 DEF ResetLock, Publish
  <2>5. ASSUME NEW t \in Threads, ClearGuard(t)
        PROVE  OneInitialiser'
    BY <2>5 DEF ClearGuard
  <2>6. ASSUME NEW t \in Threads, Acquire(t) \/ Release(t)
        PROVE  OneInitialiser'
    BY <2>6 DEF Acquire, Release
  <2>7. CASE UNCHANGED vars
    BY <2>7 DEF vars
  <2> QED
    BY <2>1, <2>2, <2>3, <2>4, <2>5, <2>6, <2>7 DEF Next, Proceed
<1> QED
  BY <1>1, <1>2, TypeCorrect, PTL DEF Spec

\* A set lock flag always has a thread in the critical section, whose
\* mtx_unlock will clear it: a late mtx_init cannot leave it set for ever.
THEOREM NotOrphanedHolds == Spec => []NotOrphaned
<1>1. Init => NotOrphaned
  BY DEF Init, NotOrphaned
<1>2. TypeOK /\ NotOrphaned /\ [Next]_vars => NotOrphaned'
  <2> SUFFICES ASSUME TypeOK, NotOrphaned, [Next]_vars
               PROVE  NotOrphaned'
    OBVIOUS
  <2> USE DEF TypeOK, NotOrphaned, Goto
  <2>1. ASSUME NEW t \in Threads, NEW u \in Threads, Spawn(t, u)
        PROVE  NotOrphaned'
    BY <2>1 DEF Spawn
  <2>2. ASSUME NEW t \in Threads, Enter(t) \/ EnterReady(t) \/ TakeGuard(t)
        PROVE  NotOrphaned'
    BY <2>2 DEF Enter, EnterReady, TakeGuard
  <2>3. ASSUME NEW t \in Threads, ResetLock(t) \/ Publish(t) \/ ClearGuard(t)
        PROVE  NotOrphaned'
    BY <2>3 DEF ResetLock, Publish, ClearGuard
  <2>4. ASSUME NEW t \in Threads, Acquire(t) \/ Release(t)
        PROVE  NotOrphaned'
    BY <2>4 DEF Acquire, Release
  <2>5. CASE UNCHANGED vars
    BY <2>5 DEF vars
  <2> QED
    BY <2>1, <2>2, <2>3, <2>4, <2>5 DEF Next, Proceed
<1> QED
  BY <1>1, <1>2, TypeCorrect, PTL DEF Spec
-----------------------------------------------------------------------------
(***************************************************************************)
(* When early holds: while the mutex is not ready the initial thread is    *)
(* the only one, so the thread that initialises is the only one in the     *)
(* scheme; once it is ready nobody starts to initialise.                   *)
(***************************************************************************)
EarlyInv ==
  /\ \A t \in Threads : at[t] # "out" => t \in live
  /\ ~ready => live = {Main}
  /\ \A t \in Threads : at[t] \in {"guard", "reset", "publish"} => ~ready
  /\ \A t \in Threads : at[t] \in {"unguard", "lock", "in"} => ready
  /\ \A t \in Threads : at[t] = "in" => lock
  /\ OneInside

LEMMA EarlyInvStep ==
  ASSUME early, TypeOK, EarlyInv, [Next]_vars
  PROVE  EarlyInv'
<1> USE DEF TypeOK, Goto
<1>1. ASSUME NEW t \in Threads, NEW u \in Threads, Spawn(t, u)
      PROVE  EarlyInv'
  BY <1>1 DEF Spawn, EarlyInv, OneInside
<1>2. ASSUME NEW t \in Threads, Enter(t) \/ EnterReady(t)
      PROVE  EarlyInv'
  <2>1. PICK place \in {"lock", "guard"} : Goto(t, place) /\ (place = "lock" <=> ready)
    BY <1>2 DEF Enter, EnterReady
  <2>2. t \in live /\ UNCHANGED <<live, ready, lock>>
    BY <1>2 DEF Enter, EnterReady
  <2> QED
    BY <2>1, <2>2 DEF EarlyInv, OneInside
<1>3. ASSUME NEW t \in Threads, TakeGuard(t)
      PROVE  EarlyInv'
  BY <1>3 DEF TakeGuard, EarlyInv, OneInside
\* Nobody holds the mutex that is reset: a holder would have seen it ready.
<1>4. ASSUME NEW t \in Threads, ResetLock(t)
      PROVE  EarlyInv'
  BY <1>4 DEF ResetLock, EarlyInv, OneInside
\* Nobody else is in the guard: the only live thread is this one.
<1>5. ASSUME NEW t \in Threads, Publish(t)
      PROVE  EarlyInv'
  <2>1. t = Main /\ live = {Main}
    BY <1>5 DEF Publish, EarlyInv
  <2>2. \A u \in Threads : u # t => at[u] = "out"
    BY <2>1 DEF EarlyInv
  <2>3. at' = [at EXCEPT ![t] = "unguard"] /\ ready' /\ live' = live /\ lock' = lock
    BY <1>5 DEF Publish
  <2> QED
    BY <2>1, <2>2, <2>3 DEF EarlyInv, OneInside
<1>6. ASSUME NEW t \in Threads, ClearGuard(t)
      PROVE  EarlyInv'
  BY <1>6 DEF ClearGuard, EarlyInv, OneInside
\* The lock was free, so by the invariant the critical section was empty.
<1>7. ASSUME NEW t \in Threads, Acquire(t)
      PROVE  EarlyInv'
  BY <1>7 DEF Acquire, EarlyInv, OneInside
<1>8. ASSUME NEW t \in Threads, Release(t)
      PROVE  EarlyInv'
  BY <1>8 DEF Release, EarlyInv, OneInside
<1>9. CASE UNCHANGED vars
  BY <1>9 DEF vars, EarlyInv, OneInside
<1> QED
  BY <1>1, <1>2, <1>3, <1>4, <1>5, <1>6, <1>7, <1>8, <1>9 DEF Next, Proceed

LEMMA EarlyInvHolds == Spec => [](early => EarlyInv)
<1>1. Init => (early => EarlyInv)
  BY DEF Init, EarlyInv, OneInside
<1>2. [Next]_vars => early' = early
  BY DEF Next, Proceed, Spawn, Enter, EnterReady, TakeGuard, ResetLock, Publish,
         ClearGuard, Acquire, Release, vars
<1>3. TypeOK /\ (early => EarlyInv) /\ [Next]_vars => (early => EarlyInv)'
  BY <1>2, EarlyInvStep
<1> QED
  BY <1>1, <1>3, TypeCorrect, PTL DEF Spec

\* Two threads are never between mtx_lock and mtx_unlock of a mutex that is
\* initialised before the second thread exists.
THEOREM MutualExclusionHolds == Spec => []MutualExclusion
<1>1. (early => EarlyInv) => MutualExclusion
  BY DEF EarlyInv, MutualExclusion
<1> QED
  BY <1>1, EarlyInvHolds, PTL

\* Such a mutex is never initialised again while a thread holds it.
THEOREM NoResetWhileHeldHolds == Spec => NoResetWhileHeld
<1>1. TypeOK /\ (early => EarlyInv) /\ [Next]_vars
        => [\A t, u \in Threads : early /\ ResetLock(t) => at[u] # "in"]_vars
  BY DEF ResetLock, EarlyInv
<1> QED
  BY <1>1, EarlyInvHolds, TypeCorrect, PTL DEF Spec, NoResetWhileHeld
-----------------------------------------------------------------------------
(***************************************************************************)
(* When early holds the thread in the critical section is the holder of    *)
(* the abstract mutex: Acquire is Lock, Release is Unlock, and every other *)
(* action is a stutter.  When it does not, the abstract mutex never moves. *)
(***************************************************************************)
LEMMA HolderUnchanged ==
  ASSUME TypeOK, NEW t \in Threads, NEW place \in Places \ {"in"},
         at[t] # "in", Goto(t, place), early' = early
  PROVE  Holder' = Holder
BY DEF Holder, Goto, TypeOK

LEMMA EarlyStepRefines ==
  ASSUME early, TypeOK, EarlyInv, [Next]_vars
  PROVE  [Abstract!Next]_Holder
<1> USE DEF TypeOK
<1>1. ASSUME NEW t \in Threads, Acquire(t)
      PROVE  Abstract!Lock(t)
  <2>1. Holder = {}
    BY <1>1 DEF Acquire, EarlyInv, Holder
  <2>2. Holder' = {t}
    BY <1>1, <2>1 DEF Acquire, Goto, Holder
  <2> QED
    BY <2>1, <2>2 DEF Abstract!Lock
<1>2. ASSUME NEW t \in Threads, Release(t)
      PROVE  Abstract!Unlock(t)
  <2>1. Holder = {t}
    BY <1>2 DEF Release, EarlyInv, OneInside, Holder
  <2>2. Holder' = {}
    BY <1>2, <2>1 DEF Release, Goto, Holder
  <2> QED
    BY <2>1, <2>2 DEF Abstract!Unlock
<1>3. ASSUME NEW t \in Threads, Enter(t) \/ EnterReady(t)
      PROVE  UNCHANGED Holder
  BY <1>3, HolderUnchanged DEF Enter, EnterReady, Places
<1>4. ASSUME NEW t \in Threads, TakeGuard(t) \/ ResetLock(t) \/ Publish(t) \/ ClearGuard(t)
      PROVE  UNCHANGED Holder
  BY <1>4, HolderUnchanged
     DEF TakeGuard, ResetLock, Publish, ClearGuard, Places, Initialising
<1>5. ASSUME NEW t \in Threads, NEW u \in Threads, Spawn(t, u)
      PROVE  UNCHANGED Holder
  BY <1>5 DEF Spawn, Holder
<1>6. CASE UNCHANGED vars
  BY <1>6 DEF vars, Holder
<1> QED
  BY <1>1, <1>2, <1>3, <1>4, <1>5, <1>6 DEF Next, Proceed, Abstract!Next

\* The lazily initialised spin lock of malloc.c is a mutex of threads.h.
THEOREM ImplementsMutex == Spec => Implements
<1>1. Init => Abstract!Init
  BY DEF Init, Abstract!Init, Holder
<1>2. TypeOK /\ (early => EarlyInv) /\ [Next]_vars => [Abstract!Next]_Holder
  <2>1. [Next]_vars => early' = early
    BY DEF Next, Proceed, Spawn, Enter, EnterReady, TakeGuard, ResetLock, Publish,
           ClearGuard, Acquire, Release, vars
  <2>2. ~early /\ [Next]_vars => Holder' = Holder
    BY <2>1 DEF Holder
  <2> QED
    BY <2>2, EarlyStepRefines
<1> QED
  BY <1>1, <1>2, EarlyInvHolds, TypeCorrect, PTL
     DEF Spec, Implements, Abstract!Spec
=============================================================================
