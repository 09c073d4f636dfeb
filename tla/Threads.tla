------------------------------ MODULE Threads ------------------------------
(***************************************************************************)
(* The life of a thread of threads.c: thrd_create, the bootstrap of the    *)
(* new thread, thrd_exit, thrd_detach, thrd_join, and the initial thread   *)
(* in __libc_start_main.                                                   *)
(*                                                                         *)
(* A thread object (struct __thrd_t_object) carries the name of the thread *)
(* that it is for.  Its spin lock and reference count decide who frees it. *)
(* Memory is what the allocator was asked for: it is tracked when an       *)
(* object or a stack is freed, and a freed object keeps its contents, as   *)
(* free() does nothing.                                                    *)
(***************************************************************************)
EXTENDS Naturals

CONSTANTS
  Threads,   \* every thread the process may ever try to create
  Main,      \* the initial one
  Results,   \* what thread functions return
  None       \* no result, no thread, no canary

ASSUME MainAssumption == Main \in Threads
ASSUME NoneAssumption == None \notin Threads \cup Results

Loader == "loader"  \* the thread control block that the process starts on
Secret == "secret"  \* the stack protector value of the process

VARIABLES
  obj,     \* the memory of each thread object
  stack,   \* the memory of each stack (stack_base)
  spin,    \* thr->spin
  refs,    \* thr->refs
  result,  \* thr->result
  canary,  \* thr->stack_protector, which code reads at %fs:0x28
  fs,      \* the FS register of each thread
  saw,     \* the canary that setup_tls found on entry
  pc,      \* where each thread is
  target,  \* the thread that it creates, detaches or joins
  handle,  \* who may still use the thrd_t of each thread
  code     \* history: what each thread returned

objectVars == <<obj, stack, spin, refs, result, canary>>
cpuVars == <<fs, saw>>
vars == <<objectVars, cpuVars, pc, target, handle, code>>

Memory == {"unused", "allocated", "freed"}

\* "unborn", "start" (__libc_start_main), the three steps of setup_tls, user code.
BootPlaces == {"unborn", "start", "boot", "setfs", "check", "run"}
CreatePlaces == {"stack", "clone"}
JoinPlaces == {"joinlock", "join", "joinunlock", "yield"}
DetachPlaces == {"detachlock", "detach", "detachunlock"}
ExitPlaces == {"exitlock", "exit", "exitunlock", "exiting", "atexit", "gone", "killed"}
Places == BootPlaces \cup CreatePlaces \cup JoinPlaces \cup DetachPlaces \cup ExitPlaces

\* A handle is used once: by one thrd_join or one thrd_detach of some thread.
HandleStates == {"none", "open", "taken", "dropped"}

Init ==
  /\ obj = [u \in Threads |-> "unused"]
  /\ stack = [u \in Threads |-> "unused"]
  /\ spin = [u \in Threads |-> FALSE]
  /\ refs = [u \in Threads |-> 0]
  /\ result = [u \in Threads |-> None]
  /\ canary = [u \in Threads |-> None]
  /\ fs = [t \in Threads |-> Loader]
  /\ saw = [t \in Threads |-> None]
  /\ pc = [t \in Threads |-> IF t = Main THEN "start" ELSE "unborn"]
  /\ target = [t \in Threads |-> None]
  /\ handle = [u \in Threads |-> "none"]
  /\ code = [u \in Threads |-> None]

\* What %fs:0x28 reads in thread t.
Canary(t) == IF fs[t] = Loader THEN Secret ELSE canary[fs[t]]

Goto(t, place) == pc' = [pc EXCEPT ![t] = place]

\* abort, and exit after the exit functions: every thread ends.
EndProcess == pc' = [t \in Threads |-> "killed"]
-----------------------------------------------------------------------------
(***************************************************************************)
(* Creation.                                                               *)
(***************************************************************************)

\* A mutation: the canary is left as it is in fresh memory.
CreateObjectNoCanary(t, u) ==
  /\ obj[u] = "unused"
  /\ obj' = [obj EXCEPT ![u] = "allocated"]
  /\ spin' = [spin EXCEPT ![u] = FALSE]
  /\ refs' = [refs EXCEPT ![u] = 2]
  /\ canary' = [canary EXCEPT ![u] = None]
  /\ UNCHANGED <<stack, result>>

\* create_thrd_t in thread t, when malloc gives it the object of u.
CreateObject(t, u) ==
  /\ obj[u] = "unused"
  /\ obj' = [obj EXCEPT ![u] = "allocated"]
  /\ spin' = [spin EXCEPT ![u] = FALSE]
  /\ refs' = [refs EXCEPT ![u] = 2]
  /\ canary' = [canary EXCEPT ![u] = Canary(t)]
  /\ UNCHANGED <<stack, result>>

\* __libc_start_main: the object of the initial thread, or abort.
Start ==
  /\ pc[Main] = "start"
  /\ \/ CreateObject(Main, Main) /\ Goto(Main, "boot")
     \/ EndProcess /\ UNCHANGED objectVars
  /\ UNCHANGED <<cpuVars, target, handle, code>>

\* thrd_create.  When malloc fails here it returns thrd_nomem, nothing changed.
Create(t, u) ==
  /\ pc[t] = "run"
  /\ pc[u] = "unborn"
  /\ CreateObject(t, u)
  /\ target' = [target EXCEPT ![t] = u]
  /\ Goto(t, "stack")
  /\ UNCHANGED <<cpuVars, handle, code>>

\* The stack of 8 MB: without it free_thrd_t(thr, false), thrd_nomem.
AllocStack(t) ==
  LET u == target[t] IN
  /\ pc[t] = "stack"
  /\ \/ /\ stack' = [stack EXCEPT ![u] = "allocated"]
        /\ Goto(t, "clone")
        /\ UNCHANGED obj
     \/ /\ obj' = [obj EXCEPT ![u] = "freed"]
        /\ Goto(t, "run")
        /\ UNCHANGED stack
  /\ UNCHANGED <<spin, refs, result, canary, cpuVars, target, handle, code>>

\* clone starts the thread on the FS of its parent (no CLONE_SETTLS), or fails:
\* free_thrd_t(thr, true), thrd_error.
Clone(t) ==
  LET u == target[t] IN
  /\ pc[t] = "clone"
  /\ \/ /\ pc' = [pc EXCEPT ![t] = "run", ![u] = "boot"]
        /\ fs' = [fs EXCEPT ![u] = fs[t]]
        /\ handle' = [handle EXCEPT ![u] = "open"]
        /\ UNCHANGED <<obj, stack>>
     \/ /\ obj' = [obj EXCEPT ![u] = "freed"]
        /\ stack' = [stack EXCEPT ![u] = "freed"]
        /\ Goto(t, "run")
        /\ UNCHANGED <<fs, handle>>
  /\ UNCHANGED <<spin, refs, result, canary, saw, target, code>>
-----------------------------------------------------------------------------
(***************************************************************************)
(* setup_tls: a function compiled with a stack protector that changes FS.  *)
(***************************************************************************)
EnterSetup(t) ==
  /\ pc[t] = "boot"
  /\ saw' = [saw EXCEPT ![t] = Canary(t)]
  /\ Goto(t, "setfs")
  /\ UNCHANGED <<objectVars, fs, target, handle, code>>

\* arch_prctl, or abort.
SetFS(t) ==
  /\ pc[t] = "setfs"
  /\ \/ fs' = [fs EXCEPT ![t] = t] /\ Goto(t, "check")
     \/ EndProcess /\ UNCHANGED fs
  /\ UNCHANGED <<objectVars, saw, target, handle, code>>

\* The return from setup_tls, where a different canary aborts the process.
LeaveSetup(t) ==
  /\ pc[t] = "check"
  /\ IF saw[t] = Canary(t) THEN Goto(t, "run") ELSE EndProcess
  /\ UNCHANGED <<objectVars, cpuVars, target, handle, code>>
-----------------------------------------------------------------------------
(***************************************************************************)
(* The end of a thread: its function returns, or it calls thrd_exit.  The  *)
(* destructors of its thread specific storage have run before the lock.    *)
(***************************************************************************)
Exit(t, r) ==
  /\ pc[t] = "run"
  /\ code' = [code EXCEPT ![t] = r]
  /\ Goto(t, "exitlock")
  /\ UNCHANGED <<objectVars, cpuVars, target, handle>>

\* The test-and-set of __spinlock_lock on the object of u that finds it free.
TakeSpin(u) ==
  /\ ~spin[u]
  /\ spin' = [spin EXCEPT ![u] = TRUE]
  /\ UNCHANGED <<obj, stack, refs, result, canary>>

DropSpin(u) ==
  /\ spin' = [spin EXCEPT ![u] = FALSE]
  /\ UNCHANGED <<obj, stack, refs, result, canary>>

ExitLock(t) ==
  /\ pc[t] = "exitlock"
  /\ TakeSpin(t)
  /\ Goto(t, "exit")
  /\ UNCHANGED <<cpuVars, target, handle, code>>

\* A mutation: the result is not stored.
ExitBodyNoResult(t) ==
  /\ pc[t] = "exit"
  /\ \/ /\ refs[t] = 1
        /\ obj' = [obj EXCEPT ![t] = "freed"]
        /\ Goto(t, "exiting")
        /\ UNCHANGED refs
     \/ /\ refs[t] # 1
        /\ refs' = [refs EXCEPT ![t] = refs[t] - 1]
        /\ Goto(t, "exitunlock")
        /\ UNCHANGED obj
  /\ UNCHANGED <<stack, spin, result, canary, cpuVars, target, handle, code>>

\* The last one frees the object, and keeps the stack that it is running on.
ExitBody(t) ==
  /\ pc[t] = "exit"
  /\ \/ /\ refs[t] = 1
        /\ obj' = [obj EXCEPT ![t] = "freed"]
        /\ Goto(t, "exiting")
        /\ UNCHANGED <<refs, result>>
     \/ /\ refs[t] # 1
        /\ result' = [result EXCEPT ![t] = code[t]]
        /\ refs' = [refs EXCEPT ![t] = refs[t] - 1]
        /\ Goto(t, "exitunlock")
        /\ UNCHANGED obj
  /\ UNCHANGED <<stack, spin, canary, cpuVars, target, handle, code>>

\* A mutation: the lock stays taken.
ExitKeepLock(t) ==
  /\ pc[t] = "exitunlock"
  /\ Goto(t, "exiting")
  /\ UNCHANGED <<objectVars, cpuVars, target, handle, code>>

ExitUnlock(t) ==
  /\ pc[t] = "exitunlock"
  /\ DropSpin(t)
  /\ Goto(t, "exiting")
  /\ UNCHANGED <<cpuVars, target, handle, code>>

\* SYS_EXIT: the kernel thread ends.
Gone(t) ==
  /\ pc[t] = "exiting"
  /\ Goto(t, "gone")
  /\ UNCHANGED <<objectVars, cpuVars, target, handle, code>>

\* main returns: its object is freed, then exit runs the exit functions.
MainReturns ==
  /\ pc[Main] = "run"
  /\ obj' = [obj EXCEPT ![Main] = "freed"]
  /\ Goto(Main, "atexit")
  /\ UNCHANGED <<stack, spin, refs, result, canary, cpuVars, target, handle, code>>

ExitGroup ==
  /\ pc[Main] = "atexit"
  /\ EndProcess
  /\ UNCHANGED <<objectVars, cpuVars, target, handle, code>>
-----------------------------------------------------------------------------
(***************************************************************************)
(* thrd_detach and thrd_join.                                              *)
(***************************************************************************)

\* A thread other than u takes the handle of u, to detach or to join it.
TakeHandle(t, u, place) ==
  /\ pc[t] = "run"
  /\ handle[u] = "open"
  /\ handle' = [handle EXCEPT ![u] = "taken"]
  /\ target' = [target EXCEPT ![t] = u]
  /\ Goto(t, place)
  /\ UNCHANGED <<objectVars, cpuVars, code>>

Detach(t, u) == TakeHandle(t, u, "detachlock")

Join(t, u) == t # u /\ TakeHandle(t, u, "joinlock")

DetachLock(t) ==
  /\ pc[t] = "detachlock"
  /\ TakeSpin(target[t])
  /\ Goto(t, "detach")
  /\ UNCHANGED <<cpuVars, target, handle, code>>

\* A mutation: the count is lowered and nobody looks at it.
DetachBodyNoFree(t) ==
  /\ pc[t] = "detach"
  /\ refs' = [refs EXCEPT ![target[t]] = refs[target[t]] - 1]
  /\ handle' = [handle EXCEPT ![target[t]] = "dropped"]
  /\ Goto(t, "detachunlock")
  /\ UNCHANGED <<obj, stack, spin, result, canary, cpuVars, target, code>>

\* The last reference frees object and stack, lock and all.
DetachBody(t) ==
  LET u == target[t] IN
  /\ pc[t] = "detach"
  /\ refs' = [refs EXCEPT ![u] = refs[u] - 1]
  /\ handle' = [handle EXCEPT ![u] = "dropped"]
  /\ \/ /\ refs[u] = 1
        /\ obj' = [obj EXCEPT ![u] = "freed"]
        /\ stack' = [stack EXCEPT ![u] = "freed"]
        /\ Goto(t, "run")
     \/ /\ refs[u] # 1
        /\ Goto(t, "detachunlock")
        /\ UNCHANGED <<obj, stack>>
  /\ UNCHANGED <<spin, result, canary, cpuVars, target, code>>

DetachUnlock(t) ==
  /\ pc[t] = "detachunlock"
  /\ DropSpin(target[t])
  /\ Goto(t, "run")
  /\ UNCHANGED <<cpuVars, target, handle, code>>

JoinLock(t) ==
  /\ pc[t] = "joinlock"
  /\ TakeSpin(target[t])
  /\ Goto(t, "join")
  /\ UNCHANGED <<cpuVars, target, handle, code>>

\* A mutation: the loop is missing.
JoinBodyNoWait(t) ==
  /\ pc[t] = "join"
  /\ obj' = [obj EXCEPT ![target[t]] = "freed"]
  /\ stack' = [stack EXCEPT ![target[t]] = "freed"]
  /\ handle' = [handle EXCEPT ![target[t]] = "dropped"]
  /\ Goto(t, "run")
  /\ UNCHANGED <<spin, refs, result, canary, cpuVars, target, code>>

\* While both references are there, unlock and wait; otherwise take the result
\* and free object and stack.
JoinBody(t) ==
  LET u == target[t] IN
  /\ pc[t] = "join"
  /\ \/ /\ refs[u] = 2
        /\ Goto(t, "joinunlock")
        /\ UNCHANGED <<obj, stack, handle>>
     \/ /\ refs[u] # 2
        /\ obj' = [obj EXCEPT ![u] = "freed"]
        /\ stack' = [stack EXCEPT ![u] = "freed"]
        /\ handle' = [handle EXCEPT ![u] = "dropped"]
        /\ Goto(t, "run")
  /\ UNCHANGED <<spin, refs, result, canary, cpuVars, target, code>>

JoinUnlock(t) ==
  /\ pc[t] = "joinunlock"
  /\ DropSpin(target[t])
  /\ Goto(t, "yield")
  /\ UNCHANGED <<cpuVars, target, handle, code>>

\* thrd_yield.
Yield(t) ==
  /\ pc[t] = "yield"
  /\ Goto(t, "joinlock")
  /\ UNCHANGED <<objectVars, cpuVars, target, handle, code>>

\* The steps of a thread that is inside the library.
Proceed(t) ==
  \/ AllocStack(t) \/ Clone(t)
  \/ EnterSetup(t) \/ SetFS(t) \/ LeaveSetup(t)
  \/ ExitBody(t) \/ ExitUnlock(t) \/ Gone(t)
  \/ DetachLock(t) \/ DetachBody(t) \/ DetachUnlock(t)
  \/ JoinLock(t) \/ JoinBody(t) \/ JoinUnlock(t) \/ Yield(t)

Next ==
  \/ Start \/ MainReturns \/ ExitGroup
  \/ \E t \in Threads : Proceed(t) \/ ExitLock(t) \/ \E r \in Results : Exit(t, r)
  \/ \E t, u \in Threads : Create(t, u) \/ Detach(t, u) \/ Join(t, u)

Spec == Init /\ [][Next]_vars

(***************************************************************************)
(* A thread inside the library keeps running.  A joiner that waits takes   *)
(* and drops the spin lock over and over, so the test-and-set of a thread  *)
(* that exits is free again and again but not for ever: that it wins some  *)
(* time, while the joiner is in sched_yield, is strong fairness.  Nothing  *)
(* makes a thread leave the caller's code.                                 *)
(***************************************************************************)
FairSpec ==
  /\ Spec
  /\ \A t \in Threads : WF_vars(Proceed(t)) /\ SF_vars(ExitLock(t))
-----------------------------------------------------------------------------
TypeOK ==
  /\ obj \in [Threads -> Memory]
  /\ stack \in [Threads -> Memory]
  /\ spin \in [Threads -> BOOLEAN]
  /\ refs \in [Threads -> 0 .. 2]
  /\ result \in [Threads -> Results \cup {None}]
  /\ canary \in [Threads -> {Secret, None}]
  /\ fs \in [Threads -> Threads \cup {Loader}]
  /\ saw \in [Threads -> {Secret, None}]
  /\ pc \in [Threads -> Places]
  /\ target \in [Threads -> Threads \cup {None}]
  /\ handle \in [Threads -> HandleStates]
  /\ code \in [Threads -> Results \cup {None}]

\* exit and abort have not ended the process.
Alive == \A t \in Threads : pc[t] # "killed"

\* "Parent and child has a reference to the thread": the count of an object is
\* the number of the two that have not given theirs up, in every interleaving
\* of thrd_exit with thrd_detach or thrd_join, so their assertions on it hold.
One(holds) == IF holds THEN 1 ELSE 0
RefsCount ==
  Alive =>
    \A u \in Threads : obj[u] = "allocated" =>
      refs[u] = One(pc[u] \notin {"exitunlock", "exiting", "gone"})
                + One(handle[u] # "dropped")

\* Whoever spins on, holds or drops the lock of a thread object finds it
\* allocated, its stack too when it is about to free that: no lock in freed
\* memory, and no second free of either, by exit, detach and join.
HandleValid ==
  \A t \in Threads :
    /\ pc[t] \in {"exitlock", "exit", "exitunlock"} => obj[t] = "allocated"
    /\ pc[t] \in JoinPlaces \cup {"detachlock", "detach"} =>
         obj[target[t]] = "allocated" /\ stack[target[t]] = "allocated"
    /\ pc[t] = "detachunlock" => obj[target[t]] = "allocated"

\* A thrd_join that stops waiting gives what the thread returned: the result
\* is written before the count that publishes it goes down.
JoinGivesResult ==
  \A t \in Threads :
    pc[t] = "join" /\ refs[target[t]] # 2 =>
      code[target[t]] # None /\ result[target[t]] = code[target[t]]

\* setup_tls returns under the canary that it was entered with, although FS
\* has changed from the parent's object to its own: __copy_stack_protector.
CanaryAgrees ==
  \A t \in Threads : pc[t] = "check" => saw[t] = Canary(t)

\* Of a thread that is gone and whose handle was used the object is freed,
\* whichever of the two came last.  (The stack of one detached before it
\* ended never is: "TODO: Free stack".)
ObjectReclaimed ==
  Alive =>
    \A u \in Threads : pc[u] = "gone" /\ handle[u] = "dropped" => obj[u] = "freed"

\* thrd_join on a thread that has returned gives its caller control again.
JoinReturns ==
  \A t, u \in Threads :
    pc[t] \in JoinPlaces /\ target[t] = u /\ code[u] # None
      ~> pc[t] \in {"run", "killed"}
=============================================================================
