-------------------------------- MODULE Tss --------------------------------
(***************************************************************************)
(* Thread specific storage of tls.c: tss_create, tss_get, tss_set,         *)
(* tss_delete, and __run_tss_destructors at the end of a thread.  The key  *)
(* table (tss_meta, tss_next) is shared under tss_mtx; the values of a     *)
(* thread (__tss_data) are its own.                                        *)
(*                                                                         *)
(* tss_mtx is LazyMutex, joined action by action.  Nothing in the library  *)
(* initialises it before the second thread exists, so EarlyInit is what    *)
(* the program does: TRUE when main creates a key before any thread.       *)
(***************************************************************************)
EXTENDS Naturals, Sequences, FiniteSets

CONSTANTS
  Threads, Main,             \* as in LazyMutex
  EarlyInit,                 \* whether tss_mtx is early in the sense of LazyMutex
  FirstCapacity,             \* the first capacity of tss_meta, 8 in the code
  MaxKeys,                   \* how many keys the program creates: a bound
  Dtors,                     \* destructors that it registers
  Values                     \* what it stores, NULL apart

ASSUME MainAssumption == Main \in Threads
ASSUME EarlyInitAssumption == EarlyInit \in BOOLEAN
ASSUME BoundAssumption == FirstCapacity \in Nat \ {0} /\ MaxKeys \in Nat

VARIABLES
  live, guard, ready, lock, at,  \* LazyMutex: the threads and tss_mtx
  meta,      \* the dtor of each element of tss_meta
  metaCap,   \* tss_meta_capacity
  next,      \* tss_next
  data,      \* __tss_data of each thread
  cap,       \* __tss_data_capacity of each thread
  pc,        \* where each thread is
  home,      \* the code that its call returns to
  key, arg,  \* the key of its call; the dtor or value that it passes
  newCap,    \* new_capacity in tss_set
  idx, fn,   \* i and dtor in __run_tss_destructors
  given,     \* history: the keys that tss_create has returned, in order
  deleted,   \* history: the keys that tss_delete was called on
  stored,    \* history: what each thread has stored under each key
  due,       \* history: the keys with a value ever since the thread ended
  called     \* history: the keys whose destructor the thread has called

mutexVars == <<live, guard, ready, lock, at>>
tableVars == <<meta, metaCap, next>>
dataVars == <<data, cap, stored>>
loopVars == <<idx, fn, due, called>>
keyVars == <<given, deleted>>
vars == <<mutexVars, tableVars, dataVars, pc, home, key, arg, newCap, loopVars, keyVars>>

LM == INSTANCE LazyMutex WITH early <- EarlyInit

NULL == "null"
Garbage == "garbage"   \* an element of tss_meta that nobody has written

\* A registered destructor is not NULL, which stands for none.
ASSUME NullAssumption == NULL \notin Dtors

Keys == 0 .. MaxKeys - 1

\* The program's own code: in a thread function, or in a destructor.
UserPlaces == {"user", "dtor"}
CreatePlaces == {"create", "grow", "take", "bump", "store", "created", "failed"}
SetPlaces == {"set", "readcap", "readdone", "resize", "put"}
DeletePlaces == {"delete", "clear", "cleared"}
ExitPlaces == {"exit", "scan", "release", "relock", "next", "done", "gone"}
Places == {"unborn"} \cup UserPlaces \cup CreatePlaces \cup SetPlaces
            \cup DeletePlaces \cup ExitPlaces

Returned == {given[i] : i \in 1 .. Len(given)}

Init ==
  /\ LM!Init
  /\ meta = <<>> /\ metaCap = 0 /\ next = 0
  /\ data = [t \in Threads |-> <<>>]
  /\ cap = [t \in Threads |-> 0]
  /\ pc = [t \in Threads |-> IF t = Main THEN "user" ELSE "unborn"]
  /\ home = [t \in Threads |-> "user"]
  /\ key = [t \in Threads |-> 0]
  /\ arg = [t \in Threads |-> NULL]
  /\ newCap = [t \in Threads |-> 0]
  /\ idx = [t \in Threads |-> 0]
  /\ fn = [t \in Threads |-> NULL]
  /\ given = <<>> /\ deleted = {}
  /\ stored = [t \in Threads |-> [k \in Keys |-> NULL]]
  /\ due = [t \in Threads |-> {}]
  /\ called = [t \in Threads |-> {}]

Goto(t, place) == pc' = [pc EXCEPT ![t] = place]

\* The end of a call: back in the program's code, the arguments forgotten.
Return(t) ==
  /\ Goto(t, home[t])
  /\ key' = [key EXCEPT ![t] = 0]
  /\ arg' = [arg EXCEPT ![t] = NULL]
  /\ newCap' = [newCap EXCEPT ![t] = 0]

\* thrd_create: a thread starts with no values (setup_tls).
Spawn(t, u) ==
  /\ pc[t] = "user" /\ pc[u] = "unborn"
  /\ LM!Spawn(t, u)
  /\ Goto(u, "user")
  /\ UNCHANGED <<tableVars, dataVars, home, key, arg, newCap, loopVars, keyVars>>

(***************************************************************************)
(* The mutex.  tss_create and __run_tss_destructors initialise it first    *)
(* (LM!Enter), tss_set and tss_delete do not.  Where each lock leads, and  *)
(* each unlock: those of tss_create and tss_delete end the call.           *)
(***************************************************************************)
AfterLock == [create |-> "grow", set |-> "readcap", delete |-> "clear",
              exit |-> "scan", relock |-> "next"]

Initialise(t) ==
  /\ \/ LM!TakeGuard(t) \/ LM!ResetLock(t)
     \/ LM!Publish(t) \/ LM!ClearGuard(t)
  /\ UNCHANGED <<tableVars, dataVars, pc, home, key, arg, newCap, loopVars, keyVars>>

\* A mutation: mtx_lock does not wait.
LockBlindly(t) ==
  /\ LM!AcquireBlindly(t)
  /\ Goto(t, AfterLock[pc[t]])
  /\ UNCHANGED <<tableVars, dataVars, home, key, arg, newCap, loopVars, keyVars>>

Lock(t) ==
  /\ LM!Acquire(t)
  /\ Goto(t, AfterLock[pc[t]])
  /\ UNCHANGED <<tableVars, dataVars, home, key, arg, newCap, loopVars, keyVars>>

\* mtx_lock with no initialisation before it.
LockOnly(t) ==
  /\ at' = [at EXCEPT ![t] = "lock"]
  /\ UNCHANGED <<live, guard, ready, lock>>
-----------------------------------------------------------------------------
(***************************************************************************)
(* tss_create                                                              *)
(***************************************************************************)
\* How many calls may still take a key.
Creating == Cardinality({t \in Threads : pc[t] \in {"create", "grow", "take", "bump"}})

\* A mutation: the call relies on another's initialisation.
CreateNoInit(t, dtor) ==
  /\ pc[t] \in UserPlaces
  /\ next + Creating < MaxKeys
  /\ LockOnly(t)
  /\ arg' = [arg EXCEPT ![t] = dtor]
  /\ Goto(t, "create")
  /\ UNCHANGED <<tableVars, dataVars, home, key, newCap, loopVars, keyVars>>

Create(t, dtor) ==
  /\ pc[t] \in UserPlaces
  /\ next + Creating < MaxKeys
  /\ LM!Enter(t)
  /\ arg' = [arg EXCEPT ![t] = dtor]
  /\ Goto(t, "create")
  /\ UNCHANGED <<tableVars, dataVars, home, key, newCap, loopVars, keyVars>>

Grown(n) == IF n = 0 THEN FirstCapacity ELSE 2 * n

\* Extend an array of n elements to m with a value for the new ones.
Extended(array, n, m, new) == [i \in 0 .. m - 1 |-> IF i < n THEN array[i] ELSE new]

\* A mutation: off by one, full is taken for large enough.
GrowLate(t) ==
  /\ pc[t] = "grow"
  /\ \/ metaCap >= next /\ Goto(t, "take") /\ UNCHANGED tableVars
     \/ /\ metaCap < next
        /\ \/ /\ meta' = Extended(meta, metaCap, Grown(metaCap), Garbage)
              /\ metaCap' = Grown(metaCap)
              /\ Goto(t, "take")
              /\ UNCHANGED next
           \/ Goto(t, "failed") /\ UNCHANGED tableVars
  /\ UNCHANGED <<mutexVars, dataVars, home, key, arg, newCap, loopVars, keyVars>>

\* Make the array larger if needed, or fail for want of memory.
Grow(t) ==
  /\ pc[t] = "grow"
  /\ \/ metaCap > next /\ Goto(t, "take") /\ UNCHANGED tableVars
     \/ /\ metaCap <= next
        /\ \/ /\ meta' = Extended(meta, metaCap, Grown(metaCap), Garbage)
              /\ metaCap' = Grown(metaCap)
              /\ Goto(t, "take")
              /\ UNCHANGED next
           \/ Goto(t, "failed") /\ UNCHANGED tableVars
  /\ UNCHANGED <<mutexVars, dataVars, home, key, arg, newCap, loopVars, keyVars>>

\* *tss_key = tss_next
Take(t) ==
  /\ pc[t] = "take"
  /\ key' = [key EXCEPT ![t] = next]
  /\ Goto(t, "bump")
  /\ UNCHANGED <<mutexVars, tableVars, dataVars, home, arg, newCap, loopVars, keyVars>>

Bump(t) ==
  /\ pc[t] = "bump"
  /\ next' = next + 1
  /\ Goto(t, "store")
  /\ UNCHANGED <<mutexVars, meta, metaCap, dataVars, home, key, arg, newCap, loopVars, keyVars>>

Store(t) ==
  /\ pc[t] = "store"
  /\ meta' = [meta EXCEPT ![key[t]] = arg[t]]
  /\ Goto(t, "created")
  /\ UNCHANGED <<mutexVars, metaCap, next, dataVars, home, key, arg, newCap, loopVars, keyVars>>

\* mtx_unlock; thrd_success with the key, or thrd_error.
CreateReturns(t) ==
  /\ pc[t] \in {"created", "failed"}
  /\ LM!Release(t)
  /\ given' = IF pc[t] = "created" THEN Append(given, key[t]) ELSE given
  /\ Return(t)
  /\ UNCHANGED <<tableVars, dataVars, home, loopVars, deleted>>
-----------------------------------------------------------------------------
(***************************************************************************)
(* tss_set, and what tss_get returns.                                      *)
(***************************************************************************)
Get(t, k) == IF cap[t] <= k THEN NULL ELSE data[t][k]

\* The values are large enough, or tss_mtx is needed to read the capacity.
Set(t, k, v) ==
  /\ pc[t] \in UserPlaces
  /\ k \in Returned \ deleted
  /\ key' = [key EXCEPT ![t] = k]
  /\ arg' = [arg EXCEPT ![t] = v]
  /\ \/ cap[t] > k /\ Goto(t, "put") /\ UNCHANGED mutexVars
     \/ cap[t] <= k /\ Goto(t, "set") /\ LockOnly(t)
  /\ UNCHANGED <<tableVars, dataVars, home, newCap, loopVars, keyVars>>

ReadCapacity(t) ==
  /\ pc[t] = "readcap"
  /\ newCap' = [newCap EXCEPT ![t] = metaCap]
  /\ Goto(t, "readdone")
  /\ UNCHANGED <<mutexVars, tableVars, dataVars, home, key, arg, loopVars, keyVars>>

SetUnlock(t) ==
  /\ pc[t] = "readdone"
  /\ LM!Release(t)
  /\ Goto(t, "resize")
  /\ UNCHANGED <<tableVars, dataVars, home, key, arg, newCap, loopVars, keyVars>>

\* A mutation: the old values are not copied.
ResizeNoCopy(t) ==
  /\ pc[t] = "resize"
  /\ \/ /\ data' = [data EXCEPT ![t] = Extended(data[t], 0, newCap[t], NULL)]
        /\ cap' = [cap EXCEPT ![t] = newCap[t]]
        /\ Goto(t, "put")
        /\ UNCHANGED <<key, arg, newCap>>
     \/ Return(t) /\ UNCHANGED <<data, cap>>
  /\ UNCHANGED <<mutexVars, tableVars, stored, home, loopVars, keyVars>>

\* calloc, memcpy of the old values, and the new array; or thrd_error.
Resize(t) ==
  /\ pc[t] = "resize"
  /\ \/ /\ data' = [data EXCEPT ![t] = Extended(data[t], cap[t], newCap[t], NULL)]
        /\ cap' = [cap EXCEPT ![t] = newCap[t]]
        /\ Goto(t, "put")
        /\ UNCHANGED <<key, arg, newCap>>
     \/ Return(t) /\ UNCHANGED <<data, cap>>
  /\ UNCHANGED <<mutexVars, tableVars, stored, home, loopVars, keyVars>>

Put(t) ==
  /\ pc[t] = "put"
  /\ data' = [data EXCEPT ![t] = [data[t] EXCEPT ![key[t]] = arg[t]]]
  /\ stored' = [stored EXCEPT ![t][key[t]] = arg[t]]
  /\ due' = [due EXCEPT ![t] = IF arg[t] = NULL THEN @ \ {key[t]} ELSE @]
  /\ Return(t)
  /\ UNCHANGED <<mutexVars, tableVars, cap, home, idx, fn, called, keyVars>>
-----------------------------------------------------------------------------
(***************************************************************************)
(* tss_delete                                                              *)
(***************************************************************************)
Delete(t, k) ==
  /\ pc[t] \in UserPlaces
  /\ k \in Returned \ deleted
  /\ LockOnly(t)
  /\ key' = [key EXCEPT ![t] = k]
  /\ deleted' = deleted \cup {k}
  /\ Goto(t, "delete")
  /\ UNCHANGED <<tableVars, dataVars, home, arg, newCap, loopVars, given>>

Clear(t) ==
  /\ pc[t] = "clear"
  /\ meta' = [meta EXCEPT ![key[t]] = NULL]
  /\ Goto(t, "cleared")
  /\ UNCHANGED <<mutexVars, metaCap, next, dataVars, home, key, arg, newCap, loopVars, keyVars>>

DeleteReturns(t) ==
  /\ pc[t] = "cleared"
  /\ LM!Release(t)
  /\ Return(t)
  /\ UNCHANGED <<tableVars, dataVars, home, loopVars, keyVars>>
-----------------------------------------------------------------------------
(***************************************************************************)
(* __run_tss_destructors, from thrd_exit_with_thr.  A destructor is the    *)
(* program's code and may use every function of this module but thrd_exit. *)
(***************************************************************************)
Exit(t) ==
  /\ pc[t] = "user"
  /\ LM!Enter(t)
  /\ due' = [due EXCEPT ![t] = {k \in Keys : stored[t][k] # NULL}]
  /\ Goto(t, "exit")
  /\ UNCHANGED <<tableVars, dataVars, home, key, arg, newCap, idx, fn, called, keyVars>>

\* Mutations: a deleted destructor is called; the last is forgotten.
ScanDeleted(t) ==
  /\ pc[t] = "scan"
  /\ \/ /\ idx[t] < cap[t]
        /\ data[t][idx[t]] # NULL
        /\ fn' = [fn EXCEPT ![t] = meta[idx[t]]]
        /\ Goto(t, "release")
     \/ /\ idx[t] < cap[t]
        /\ data[t][idx[t]] = NULL
        /\ Goto(t, "next")
        /\ UNCHANGED fn
     \/ /\ idx[t] >= cap[t]
        /\ Goto(t, "done")
        /\ UNCHANGED fn
  /\ UNCHANGED <<mutexVars, tableVars, dataVars, home, key, arg, newCap,
                 idx, due, called, keyVars>>

ScanShort(t) ==
  /\ pc[t] = "scan"
  /\ \/ /\ idx[t] + 1 < cap[t]
        /\ meta[idx[t]] # NULL /\ data[t][idx[t]] # NULL
        /\ fn' = [fn EXCEPT ![t] = meta[idx[t]]]
        /\ Goto(t, "release")
     \/ /\ idx[t] + 1 < cap[t]
        /\ meta[idx[t]] = NULL \/ data[t][idx[t]] = NULL
        /\ Goto(t, "next")
        /\ UNCHANGED fn
     \/ /\ idx[t] + 1 >= cap[t]
        /\ Goto(t, "done")
        /\ UNCHANGED fn
  /\ UNCHANGED <<mutexVars, tableVars, dataVars, home, key, arg, newCap,
                 idx, due, called, keyVars>>

\* One test of the loop, with its body up to mtx_unlock.
Scan(t) ==
  /\ pc[t] = "scan"
  /\ \/ /\ idx[t] < cap[t]
        /\ meta[idx[t]] # NULL /\ data[t][idx[t]] # NULL
        /\ fn' = [fn EXCEPT ![t] = meta[idx[t]]]
        /\ Goto(t, "release")
     \/ /\ idx[t] < cap[t]
        /\ meta[idx[t]] = NULL \/ data[t][idx[t]] = NULL
        /\ Goto(t, "next")
        /\ UNCHANGED fn
     \/ /\ idx[t] >= cap[t]
        /\ Goto(t, "done")
        /\ UNCHANGED fn
  /\ UNCHANGED <<mutexVars, tableVars, dataVars, home, key, arg, newCap,
                 idx, due, called, keyVars>>

\* mtx_unlock and the call of the destructor.
CallDtor(t) ==
  /\ pc[t] = "release"
  /\ LM!Release(t)
  /\ called' = [called EXCEPT ![t] = @ \cup {idx[t]}]
  /\ home' = [home EXCEPT ![t] = "dtor"]
  /\ Goto(t, "dtor")
  /\ UNCHANGED <<tableVars, dataVars, key, arg, newCap, idx, fn, due, keyVars>>

\* The destructor returns to mtx_lock.
DtorReturns(t) ==
  /\ pc[t] = "dtor"
  /\ LockOnly(t)
  /\ fn' = [fn EXCEPT ![t] = NULL]
  /\ Goto(t, "relock")
  /\ UNCHANGED <<tableVars, dataVars, home, key, arg, newCap, idx, due, called, keyVars>>

\* ++i
Advance(t) ==
  /\ pc[t] = "next"
  /\ idx' = [idx EXCEPT ![t] = idx[t] + 1]
  /\ Goto(t, "scan")
  /\ UNCHANGED <<mutexVars, tableVars, dataVars, home, key, arg, newCap,
                 fn, due, called, keyVars>>

ExitDone(t) ==
  /\ pc[t] = "done"
  /\ LM!Release(t)
  /\ Goto(t, "gone")
  /\ UNCHANGED <<tableVars, dataVars, home, key, arg, newCap, loopVars, keyVars>>
-----------------------------------------------------------------------------
Next ==
  \E t \in Threads :
    \/ \E u \in Threads : Spawn(t, u)
    \/ Initialise(t) \/ Lock(t)
    \/ \E d \in Dtors \cup {NULL} : Create(t, d)
    \/ Grow(t) \/ Take(t) \/ Bump(t) \/ Store(t) \/ CreateReturns(t)
    \/ \E k \in Keys, v \in Values \cup {NULL} : Set(t, k, v)
    \/ ReadCapacity(t) \/ SetUnlock(t) \/ Resize(t) \/ Put(t)
    \/ \E k \in Keys : Delete(t, k)
    \/ Clear(t) \/ DeleteReturns(t)
    \/ Exit(t) \/ Scan(t) \/ CallDtor(t) \/ DtorReturns(t) \/ Advance(t) \/ ExitDone(t)

Spec == Init /\ [][Next]_vars
-----------------------------------------------------------------------------
\* tss_create never returns the same key twice, to any threads: the reason for
\* "We need a mutex for the global variables".
KeysUnique ==
  \A i, j \in 1 .. Len(given) : given[i] = given[j] => i = j

\* Every index is inside its array, and the assertion of tss_set holds, though
\* the capacity is read under the mutex and used without it: another thread's
\* tss_create can only make it larger.  The destructor loop reads tss_meta up
\* to the capacity of the thread's own array.
IndexesInBounds ==
  \A t \in Threads :
    /\ pc[t] = "resize" => newCap[t] > key[t]
    /\ pc[t] = "put" => key[t] < cap[t]
    /\ pc[t] \in {"store", "clear"} => key[t] < metaCap
    /\ pc[t] = "scan" /\ idx[t] < cap[t] => idx[t] < metaCap

\* tss_get returns what the thread stored last under the key, NULL before that,
\* whatever keys and threads came since and however the array has grown.
GetReturnsSet == \A t \in Threads, k \in Keys : Get(t, k) = stored[t][k]

\* What is called is a destructor that some tss_create has registered, even if
\* the key was deleted after the mutex was released: "Copy the dtor to make
\* sure it isn't deleted", and the array behind tss_next is not initialised.
DtorRegistered == \A t \in Threads : pc[t] \in {"release", "dtor"} => fn[t] \in Dtors

\* A thread that ends has called the destructor of each key that it had a value
\* for, unless a destructor has set it to NULL or the key was deleted.
DtorsRun ==
  \A t \in Threads : pc[t] = "gone" =>
    \A k \in due[t] : meta[k] \in Dtors => k \in called[t]

\* tss_mtx is used as LazyMutex says.  In particular tss_set and tss_delete,
\* which do not initialise it, lock it only when it is initialised: "tss_key
\* came from tss_create, so the mutex is initialized".  And nobody locks it who
\* holds it, a destructor that calls tss_delete included: "We need to release the
\* lock so we can recurse on tss_delete".
UsesLazyMutex == LM!Spec
=============================================================================
