------------------------------ MODULE TssProofs ------------------------------
(***************************************************************************)
(* Thread specific storage, for any number of threads, keys and            *)
(* destructors.  ControlInv says where each call is in tss_mtx, and makes  *)
(* every step a step of LazyMutex, early or not.  What tss_mtx protects is *)
(* TableInv, and it needs a mutex that is one: EarlyInit.                  *)
(***************************************************************************)
EXTENDS Tss, TLAPS

LMP == INSTANCE LazyMutexProofs WITH early <- EarlyInit

(***************************************************************************)
(* A call and the mutex move together.                                     *)
(***************************************************************************)

\* Between mtx_lock and mtx_unlock.
Inside == {"grow", "take", "bump", "store", "created", "failed", "readcap", "readdone",
           "clear", "cleared", "scan", "release", "next", "done"}
\* At mtx_lock.
Locking == {"set", "delete", "relock"}

ControlTyped ==
  /\ LM!TypeOK
  /\ pc \in [Threads -> Places] /\ home \in [Threads -> UserPlaces]

\* A thread is in the mutex when and only when its call needs it, and whoever
\* locks it without initialising it has a key, so it is initialised.
InStep ==
  /\ \A t \in Threads :
       /\ at[t] = "in" <=> pc[t] \in Inside
       /\ pc[t] \in UserPlaces \cup {"unborn", "resize", "put", "gone"} => at[t] = "out"
       /\ pc[t] \in Locking => at[t] = "lock"
       /\ pc[t] \in {"create", "exit"} => at[t] # "out"
       /\ pc[t] # "unborn" => t \in live
       /\ at[t] \in {"unguard", "lock", "in"} => ready
       /\ pc[t] = "dtor" => home[t] = "dtor"
       /\ home[t] = "dtor" => ready /\ pc[t] # "unborn"
  /\ given # <<>> => ready

ControlInv == ControlTyped /\ InStep

\* One thread at a time is between the lock and the unlock of tss_mtx.
Alone == \A t, u \in Threads : at[t] = "in" /\ at[u] = "in" => t = u

Types ==
  /\ metaCap \in Nat /\ next \in Nat /\ given \in Seq(Nat)
  /\ key \in [Threads -> Nat] /\ newCap \in [Threads -> Nat]
  /\ cap \in [Threads -> Nat] /\ idx \in [Threads -> Nat]
  /\ DOMAIN meta = 0 .. metaCap - 1
  /\ DOMAIN data = Threads /\ DOMAIN stored = Threads
  /\ DOMAIN arg = Threads /\ DOMAIN fn = Threads
  /\ DOMAIN due = Threads /\ DOMAIN called = Threads
  /\ \A t \in Threads : DOMAIN data[t] = 0 .. cap[t] - 1 /\ DOMAIN stored[t] = Keys

\* tss_next is above every key that was returned, and the table above it.
Table ==
  /\ next <= metaCap
  /\ \A k \in Returned : k < next /\ meta[k] \in Dtors \cup {NULL}
  /\ \A t \in Threads :
       /\ pc[t] \in {"take", "bump"} => next < metaCap
       /\ pc[t] = "bump" => key[t] = next
       /\ pc[t] \in {"store", "created"} => key[t] < next /\ key[t] \notin Returned
       /\ pc[t] = "created" => meta[key[t]] \in Dtors \cup {NULL}
       /\ pc[t] \in CreatePlaces => arg[t] \in Dtors \cup {NULL}

\* A thread's values reach no further than the table, and a tss_set that has
\* found them too short will make them long enough.
ArrayOf(t) ==
  /\ cap[t] <= metaCap
  /\ pc[t] \in SetPlaces \cup DeletePlaces => key[t] \in Returned
  /\ pc[t] \in {"set", "readcap", "readdone", "resize"} => cap[t] <= key[t]
  /\ pc[t] \in {"readdone", "resize"} => key[t] < newCap[t] /\ newCap[t] <= metaCap
  /\ pc[t] = "put" => key[t] < cap[t]
  /\ \A k \in 0 .. cap[t] - 1 : data[t][k] # NULL => k \in Returned
  /\ \A k \in Keys : Get(t, k) = stored[t][k]

\* The destructor loop has dealt with key k of thread t.
Passed(t, k) ==
  \/ k < idx[t]
  \/ k = idx[t] /\ pc[t] \notin {"exit", "scan", "release"}

\* What is due is called when the loop has passed it.
LoopOf(t) ==
  /\ pc[t] = "user" => home[t] = "user"
  /\ pc[t] = "release" => fn[t] \in Dtors
  /\ home[t] = "dtor" /\ pc[t] \notin ExitPlaces => fn[t] \in Dtors
  /\ home[t] = "user" /\ pc[t] \notin ExitPlaces => idx[t] = 0 /\ due[t] = {}
  /\ pc[t] = "exit" => idx[t] = 0
  /\ pc[t] \in {"done", "gone"} => cap[t] <= idx[t]
  /\ \A k \in due[t] :
       /\ k \in Keys /\ stored[t][k] # NULL
       /\ Passed(t, k) /\ meta[k] \in Dtors => k \in called[t]

Arrays == \A t \in Threads : ArrayOf(t)
Loops == \A t \in Threads : LoopOf(t)

TableInv == Types /\ Table /\ KeysUnique /\ Arrays /\ Loops
-----------------------------------------------------------------------------
LEMMA ControlInit == Init => ControlInv /\ LMP!Init
<1> SUFFICES ASSUME Init
             PROVE  ControlInv /\ LMP!Init
  OBVIOUS
<1>1. LMP!Init
  BY DEF Init, LM!Init, LMP!Init
<1>2. ControlTyped
  BY MainAssumption, EarlyInitAssumption
     DEF Init, ControlTyped, LM!Init, LM!TypeOK, LM!Places, Places, UserPlaces
<1>3. InStep
  BY MainAssumption DEF Init, InStep, LM!Init, UserPlaces, Inside, Locking
<1> QED
  BY <1>1, <1>2, <1>3 DEF ControlInv

\* tss_set, tss_delete and the destructor loop lock a mutex that is ready.
LEMMA LockOnlyEnters ==
  ASSUME ControlInv, NEW t \in Threads, LockOnly(t),
         \/ pc[t] = "dtor"
         \/ pc[t] \in UserPlaces /\ Returned # {}
  PROVE  LMP!EnterReady(t) /\ ready
<1> USE DEF ControlInv, ControlTyped, InStep, UserPlaces
<1>1. t \in live /\ at[t] = "out"
  OBVIOUS
<1>2. ready
  <2>1. ASSUME Returned # {}
        PROVE  given # <<>>
    BY <2>1 DEF Returned
  <2> QED BY <2>1
<1> QED BY <1>1, <1>2 DEF LockOnly, LMP!EnterReady, LMP!Goto

\* Every step is a step of the mutex, or leaves it alone.
LEMMA StepInMutex ==
  ASSUME ControlInv, [Next]_vars
  PROVE  [LMP!Next]_(LMP!vars)
<1> USE DEF ControlInv
<1>1. ASSUME NEW t \in Threads, NEW u \in Threads, Spawn(t, u)
      PROVE  LMP!Spawn(t, u)
  BY <1>1 DEF Spawn, LM!Spawn, LMP!Spawn
<1>2. ASSUME NEW t \in Threads, Initialise(t)
      PROVE  LMP!Proceed(t)
  BY <1>2 DEF Initialise, LMP!Proceed, LM!TakeGuard, LMP!TakeGuard, LM!ResetLock,
     LMP!ResetLock, LM!Publish, LMP!Publish, LM!ClearGuard, LMP!ClearGuard, LM!Goto, LMP!Goto
<1>3. ASSUME NEW t \in Threads, Lock(t)
      PROVE  LMP!Acquire(t)
  BY <1>3 DEF Lock, LM!Acquire, LMP!Acquire, LM!Goto, LMP!Goto
<1>4. ASSUME NEW t \in Threads, Exit(t) \/ \E d \in Dtors \cup {NULL} : Create(t, d)
      PROVE  LMP!Enter(t)
  BY <1>4 DEF Exit, Create, LM!Enter, LMP!Enter, LM!Goto, LMP!Goto
<1>5. ASSUME NEW t \in Threads,
             CreateReturns(t) \/ SetUnlock(t) \/ DeleteReturns(t) \/ CallDtor(t) \/ ExitDone(t)
      PROVE  LMP!Release(t)
  BY <1>5 DEF CreateReturns, SetUnlock, DeleteReturns, CallDtor, ExitDone, LM!Release,
     LMP!Release, LM!Goto, LMP!Goto
<1>6. ASSUME NEW t \in Threads, NEW k, NEW v, Set(t, k, v)
      PROVE  LMP!EnterReady(t) \/ UNCHANGED LMP!vars
  <2>1. CASE UNCHANGED mutexVars
    BY <2>1 DEF mutexVars, LMP!vars
  <2>2. CASE LockOnly(t)
    BY <1>6, <2>2, LockOnlyEnters DEF Set
  <2> QED BY <1>6, <2>1, <2>2 DEF Set
<1>7. ASSUME NEW t \in Threads, NEW k, Delete(t, k)
      PROVE  LMP!EnterReady(t)
  BY <1>7, LockOnlyEnters DEF Delete
<1>8. ASSUME NEW t \in Threads, DtorReturns(t)
      PROVE  LMP!EnterReady(t)
  BY <1>8, LockOnlyEnters DEF DtorReturns
<1>9. ASSUME NEW t \in Threads,
             \/ Grow(t) \/ Take(t) \/ Bump(t) \/ Store(t) \/ ReadCapacity(t) \/ Resize(t)
             \/ Put(t) \/ Clear(t) \/ Scan(t) \/ Advance(t)
      PROVE  UNCHANGED LMP!vars
  BY <1>9 DEF Grow, Take, Bump, Store, ReadCapacity, Resize, Put, Clear, Scan, Advance,
     mutexVars, LMP!vars
<1>10. CASE UNCHANGED vars
  BY <1>10 DEF vars, mutexVars, LMP!vars
<1> QED
  BY <1>1, <1>2, <1>3, <1>4, <1>5, <1>6, <1>7, <1>8, <1>9, <1>10 DEF Next, LMP!Next, LMP!Proceed

\* What the steps do to where threads are.
LEMMA ControlStep ==
  ASSUME ControlInv, [Next]_vars
  PROVE  ControlInv'
<1> USE DEF ControlInv, ControlTyped, InStep, LM!TypeOK, LM!Places, LM!Initialising, Inside, Locking
<1> USE DEF Places, UserPlaces, CreatePlaces, SetPlaces, DeletePlaces, ExitPlaces, Goto, LM!Goto
<1>1. ASSUME NEW t \in Threads, NEW u \in Threads, Spawn(t, u)
      PROVE  ControlInv'
  BY <1>1 DEF Spawn, LM!Spawn, keyVars
<1>2. ASSUME NEW t \in Threads, Initialise(t)
      PROVE  ControlInv'
  <2> USE <1>2 DEF Initialise, keyVars
  <2>1. ASSUME LM!TakeGuard(t)
        PROVE  ControlInv'
    BY <2>1 DEF LM!TakeGuard
  <2>2. ASSUME LM!ResetLock(t)
        PROVE  ControlInv'
    BY <2>2 DEF LM!ResetLock
  <2>3. ASSUME LM!Publish(t)
        PROVE  ControlInv'
    BY <2>3 DEF LM!Publish
  <2>4. ASSUME LM!ClearGuard(t)
        PROVE  ControlInv'
    BY <2>4 DEF LM!ClearGuard
  <2> QED BY <2>1, <2>2, <2>3, <2>4
<1>3. ASSUME NEW t \in Threads, Lock(t)
      PROVE  ControlInv'
  <2>1. pc[t] \in Locking \cup {"create", "exit"}
    BY <1>3 DEF Lock, LM!Acquire
  <2>2. AfterLock[pc[t]] \in {"grow", "readcap", "clear", "scan", "next"}
    BY <2>1 DEF AfterLock
  <2> QED BY <1>3, <2>1, <2>2 DEF Lock, LM!Acquire, keyVars
<1>4. ASSUME NEW t \in Threads, Exit(t) \/ \E d \in Dtors \cup {NULL} : Create(t, d)
      PROVE  ControlInv'
  BY <1>4 DEF Exit, Create, LM!Enter, keyVars
<1>5. ASSUME NEW t \in Threads, CreateReturns(t) \/ DeleteReturns(t)
      PROVE  ControlInv'
  <2>1. ASSUME CreateReturns(t)
        PROVE  ControlInv'
    <3>1. ControlTyped'
      BY <2>1 DEF CreateReturns, LM!Release, Return
    <3>2. InStep'
      BY <2>1 DEF CreateReturns, LM!Release, Return
    <3> QED BY <3>1, <3>2
  <2>2. ASSUME DeleteReturns(t)
        PROVE  ControlInv'
    <3>1. ControlTyped'
      BY <2>2 DEF DeleteReturns, LM!Release, Return, keyVars
    <3>2. InStep'
      BY <2>2 DEF DeleteReturns, LM!Release, Return, keyVars
    <3> QED BY <3>1, <3>2
  <2> QED BY <1>5, <2>1, <2>2
<1>6. ASSUME NEW t \in Threads, SetUnlock(t) \/ CallDtor(t) \/ ExitDone(t)
      PROVE  ControlInv'
  <2>1. ASSUME SetUnlock(t)
        PROVE  ControlInv'
    BY <2>1 DEF SetUnlock, LM!Release, keyVars
  <2>2. ASSUME CallDtor(t)
        PROVE  ControlInv'
    <3>1. ControlTyped'
      BY <2>2 DEF CallDtor, LM!Release, keyVars
    <3>2. InStep'
      BY <2>2 DEF CallDtor, LM!Release, keyVars
    <3> QED BY <3>1, <3>2
  <2>3. ASSUME ExitDone(t)
        PROVE  ControlInv'
    BY <2>3 DEF ExitDone, LM!Release, keyVars
  <2> QED BY <1>6, <2>1, <2>2, <2>3
<1>7. ASSUME NEW t \in Threads, NEW k, NEW v, Set(t, k, v)
      PROVE  ControlInv'
  <2>1. LockOnly(t) => ready
    BY <1>7, LockOnlyEnters DEF Set
  <2> QED BY <1>7, <2>1 DEF Set, LockOnly, mutexVars, keyVars
<1>8. ASSUME NEW t \in Threads, NEW k, Delete(t, k)
      PROVE  ControlInv'
  <2>1. ready
    BY <1>8, LockOnlyEnters DEF Delete
  <2> QED BY <1>8, <2>1 DEF Delete, LockOnly
<1>9. ASSUME NEW t \in Threads, DtorReturns(t)
      PROVE  ControlInv'
  <2>1. ready
    BY <1>9, LockOnlyEnters DEF DtorReturns
  <2> QED BY <1>9, <2>1 DEF DtorReturns, LockOnly, keyVars
<1>10. ASSUME NEW t \in Threads, Grow(t) \/ Take(t) \/ Bump(t) \/ Store(t) \/ ReadCapacity(t)
       PROVE  ControlInv'
  BY <1>10 DEF Grow, Take, Bump, Store, ReadCapacity, mutexVars, keyVars
<1>11. ASSUME NEW t \in Threads, Clear(t) \/ Scan(t) \/ Advance(t)
       PROVE  ControlInv'
  BY <1>11 DEF Clear, Scan, Advance, mutexVars, keyVars
<1>12. ASSUME NEW t \in Threads, Resize(t) \/ Put(t)
       PROVE  ControlInv'
  BY <1>12 DEF Resize, Put, Return, mutexVars, keyVars
<1>13. CASE UNCHANGED vars
  BY <1>13 DEF vars, mutexVars, keyVars
<1> QED
  BY <1>1, <1>2, <1>3, <1>4, <1>5, <1>6, <1>7, <1>8, <1>9, <1>10, <1>11, <1>12, <1>13 DEF Next

LEMMA ControlInvHolds == Spec => []ControlInv
<1> QED BY ControlInit, ControlStep, PTL DEF Spec

LEMMA MutexSpec == Spec => LMP!Spec
<1> QED BY ControlInit, ControlInvHolds, StepInMutex, PTL DEF Spec, LMP!Spec

\* Every step of thread specific storage is a step of the lazy mutex, whether
\* the program initialises it early or late; in particular tss_set, tss_delete
\* and the destructor loop never lock it before it is initialised.
THEOREM UsesLazyMutexHolds == Spec => UsesLazyMutex
<1>1. LMP!Spec <=> LM!Spec
  BY DEF LMP!Spec, LM!Spec, LMP!Init, LM!Init, LMP!Next, LM!Next, LMP!vars, LM!vars,
     LMP!Spawn, LM!Spawn, LMP!Enter, LM!Enter, LMP!EnterReady, LM!EnterReady,
     LMP!Proceed, LM!Proceed, LMP!TakeGuard, LM!TakeGuard, LMP!ResetLock, LM!ResetLock,
     LMP!Publish, LM!Publish, LMP!ClearGuard, LM!ClearGuard, LMP!Acquire, LM!Acquire,
     LMP!Release, LM!Release, LMP!Goto, LM!Goto
<1> QED
  BY <1>1, MutexSpec DEF UsesLazyMutex

LEMMA AloneHolds == ASSUME EarlyInit PROVE Spec => []Alone
<1>1. Spec => []LMP!MutualExclusion
  BY MutexSpec, MainAssumption, LMP!MutualExclusionHolds
<1>2. LMP!MutualExclusion => Alone
  BY DEF LMP!MutualExclusion, LMP!OneInside, Alone
<1> QED
  BY <1>1, <1>2, PTL
-----------------------------------------------------------------------------
(***************************************************************************)
(* The key table and the values, if tss_mtx is a mutex.                    *)
(***************************************************************************)
LEMMA InsideAlone ==
  ASSUME ControlInv, Alone, NEW t \in Threads, NEW u \in Threads,
         pc[t] \in Inside, pc[u] \in Inside
  PROVE  t = u
BY DEF ControlInv, InStep, Alone

LEMMA TableInit == Init => TableInv
<1> SUFFICES ASSUME Init
             PROVE  TableInv
  OBVIOUS
<1> USE MainAssumption, BoundAssumption DEF Init
<1>1. Types
  BY DEF Types
<1>2. Returned = {} /\ KeysUnique
  BY DEF Returned, KeysUnique
<1>3. Table
  BY <1>2 DEF Table, CreatePlaces
<1>4. Arrays
  BY <1>2 DEF Arrays, ArrayOf, SetPlaces, DeletePlaces, Get, Keys
<1>5. Loops
  BY DEF Loops, LoopOf, ExitPlaces
<1> QED
  BY <1>1, <1>2, <1>3, <1>4, <1>5 DEF TableInv

LEMMA ReturnedInTable ==
  ASSUME TableInv
  PROVE  Returned \subseteq 0 .. metaCap - 1
<1>1. Returned \subseteq Nat
  BY DEF TableInv, Types, Returned
<1> QED
  BY <1>1 DEF TableInv, Types, Table

\* Where each lock leads.
LEMMA LockLeads ==
  /\ AfterLock["create"] = "grow" /\ AfterLock["set"] = "readcap"
  /\ AfterLock["delete"] = "clear" /\ AfterLock["exit"] = "scan"
  /\ AfterLock["relock"] = "next"
BY DEF AfterLock

\* A key with a value was returned, so it is in the table.
LEMMA DueInTable ==
  ASSUME TableInv, NEW t \in Threads, NEW k \in due[t]
  PROVE  /\ k \in Returned /\ k \in Nat /\ k < cap[t] /\ k < metaCap
         /\ data[t][k] # NULL
<1> USE DEF TableInv
<1>1. k \in Keys /\ stored[t][k] # NULL
  BY DEF Loops, LoopOf
<1>2. k \in Nat
  BY <1>1, BoundAssumption DEF Keys
<1>3. Get(t, k) # NULL
  BY <1>1 DEF Arrays, ArrayOf
<1>4. k < cap[t] /\ data[t][k] # NULL
  BY <1>2, <1>3 DEF Get, Types
<1> QED
  BY <1>2, <1>4 DEF Types, Arrays, ArrayOf

LEMMA SpawnKeeps ==
  ASSUME ControlInv, Alone, TableInv, NEW t \in Threads, NEW u \in Threads, Spawn(t, u)
  PROVE  TableInv'
<1> USE DEF Spawn, Goto, TableInv, ControlInv, ControlTyped
<1> USE DEF tableVars, dataVars, loopVars, keyVars
<1> USE DEF CreatePlaces, SetPlaces, DeletePlaces, ExitPlaces, UserPlaces
<1>1. Returned' = Returned
  BY DEF Returned
<1>2. Types'
  BY DEF Types
<1>3. Table'
  BY <1>1 DEF Table
<1>4. KeysUnique'
  BY DEF KeysUnique
<1>5. Arrays'
  BY <1>1 DEF Arrays, ArrayOf, Get
<1>6. \A s \in Threads \ {u} : LoopOf(s)'
  BY DEF Loops, LoopOf, Passed
<1>7. LoopOf(u)'
  BY DEF Loops, LoopOf, InStep
<1>8. Loops'
  BY <1>6, <1>7 DEF Loops
<1> QED BY <1>2, <1>3, <1>4, <1>5, <1>8

LEMMA InitialiseKeeps ==
  ASSUME ControlInv, Alone, TableInv, NEW t \in Threads, Initialise(t)
  PROVE  TableInv'
<1> USE DEF Initialise, TableInv, ControlInv, ControlTyped
<1> USE DEF tableVars, dataVars, loopVars, keyVars
<1> USE DEF CreatePlaces, SetPlaces, DeletePlaces, ExitPlaces, UserPlaces
<1>1. Returned' = Returned
  BY DEF Returned
<1>2. Types'
  BY DEF Types
<1>3. Table'
  BY <1>1 DEF Table
<1>4. KeysUnique'
  BY DEF KeysUnique
<1>5. Arrays'
  BY <1>1 DEF Arrays, ArrayOf, Get
<1>6. Loops'
  BY DEF Loops, LoopOf, Passed
<1> QED BY <1>2, <1>3, <1>4, <1>5, <1>6

LEMMA LockKeeps ==
  ASSUME ControlInv, Alone, TableInv, NEW t \in Threads, Lock(t)
  PROVE  TableInv'
<1> USE DEF TableInv, ControlInv, ControlTyped
<1> USE DEF tableVars, dataVars, loopVars, keyVars
<1> USE DEF CreatePlaces, SetPlaces, DeletePlaces, ExitPlaces, UserPlaces
<1>1. UNCHANGED <<tableVars, dataVars, home, key, arg, newCap, loopVars, given>>
  BY DEF Lock
<1>2. pc[t] \in {"create", "set", "delete", "exit", "relock"}
  BY DEF Lock, LM!Acquire, InStep, Inside, Places
<1>3. pc' = [pc EXCEPT ![t] = AfterLock[pc[t]]]
  BY DEF Lock, Goto
<1>4. \/ pc[t] = "create" /\ AfterLock[pc[t]] = "grow"
      \/ pc[t] = "set" /\ AfterLock[pc[t]] = "readcap"
      \/ pc[t] = "delete" /\ AfterLock[pc[t]] = "clear"
      \/ pc[t] = "exit" /\ AfterLock[pc[t]] = "scan"
      \/ pc[t] = "relock" /\ AfterLock[pc[t]] = "next"
  BY <1>2, LockLeads
<1>5. Returned' = Returned
  BY <1>1 DEF Returned
<1>6. Types'
  BY <1>1 DEF Types
<1>7. Table'
  BY <1>1, <1>3, <1>4, <1>5 DEF Table
<1>8. KeysUnique'
  BY <1>1 DEF KeysUnique
<1>9. \A s \in Threads \ {t} : ArrayOf(s)'
  BY <1>1, <1>2, <1>3, <1>4, <1>5 DEF Arrays, ArrayOf, Get
<1>10. ArrayOf(t)'
  BY <1>1, <1>3, <1>4, <1>5 DEF Arrays, ArrayOf, Get
<1>11. Arrays'
  BY <1>9, <1>10 DEF Arrays
<1>12. \A s \in Threads \ {t} : LoopOf(s)'
  BY <1>1, <1>3 DEF Loops, LoopOf, Passed
<1>13. LoopOf(t)'
  BY <1>1, <1>3, <1>4 DEF Loops, LoopOf, Passed
<1>14. Loops'
  BY <1>12, <1>13 DEF Loops
<1> QED BY <1>6, <1>7, <1>8, <1>11, <1>14

LEMMA CreateKeeps ==
  ASSUME ControlInv, Alone, TableInv, NEW t \in Threads, NEW d \in Dtors \cup {NULL}, Create(t, d)
  PROVE  TableInv'
<1> USE DEF Create, Goto, TableInv, ControlInv, ControlTyped
<1> USE DEF tableVars, dataVars, loopVars, keyVars
<1> USE DEF CreatePlaces, SetPlaces, DeletePlaces, ExitPlaces, UserPlaces
<1>1. Returned' = Returned
  BY DEF Returned
<1>2. Types'
  BY DEF Types
<1>3. Table'
  BY <1>1 DEF Table, Types
<1>4. KeysUnique'
  BY DEF KeysUnique
<1>5. Arrays'
  BY <1>1 DEF Arrays, ArrayOf, Get
<1>6. Loops'
  BY DEF Loops, LoopOf, Passed
<1> QED BY <1>2, <1>3, <1>4, <1>5, <1>6

LEMMA GrowKeeps ==
  ASSUME ControlInv, Alone, TableInv, NEW t \in Threads, Grow(t)
  PROVE  TableInv'
<1> USE DEF TableInv, ControlInv, ControlTyped
<1> USE DEF tableVars, dataVars, loopVars, keyVars
<1> USE DEF CreatePlaces, SetPlaces, DeletePlaces, ExitPlaces, UserPlaces
<1>1. UNCHANGED <<next, dataVars, home, key, arg, newCap, loopVars, given>>
  BY DEF Grow
<1>2. pc[t] = "grow" /\ \E p \in {"take", "failed"} : pc' = [pc EXCEPT ![t] = p]
  BY DEF Grow, Goto
<1>3. Grown(metaCap) \in Nat /\ Grown(metaCap) > metaCap
  BY BoundAssumption DEF Grown, Types
<1>4. \/ UNCHANGED <<meta, metaCap>>
      \/ /\ metaCap' = Grown(metaCap)
         /\ meta' = [k \in 0 .. metaCap' - 1 |-> IF k < metaCap THEN meta[k] ELSE Garbage]
  BY DEF Grow, Extended
<1>5. metaCap' \in Nat /\ metaCap <= metaCap' /\ DOMAIN meta' = 0 .. metaCap' - 1
  BY <1>3, <1>4 DEF Types
<1>6. pc'[t] = "take" => next < metaCap'
  BY <1>3 DEF Grow, Goto, Types, Table
<1>7. \A k \in 0 .. metaCap - 1 : meta'[k] = meta[k]
  BY <1>4, <1>5 DEF Types
<1>8. /\ \A s \in Threads \ {t} : pc'[s] = pc[s]
      /\ pc'[t] \in {"take", "failed"}
  BY <1>2
<1>9. Returned' = Returned
  BY <1>1 DEF Returned
<1>10. \A k \in Returned : meta'[k] = meta[k] /\ k \in Nat
  BY <1>7, ReturnedInTable
<1>11. \A s \in Threads : \A k \in due[s] : meta'[k] = meta[k]
  BY <1>7, DueInTable, SMTT(30) DEF Types
<1>12. \A s \in Threads \ {t} : pc[s] \notin Inside
  BY <1>2, InsideAlone DEF Inside
<1>13. Types'
  BY <1>1, <1>5 DEF Types
<1>14. Table'
  BY <1>1, <1>2, <1>5, <1>6, <1>8, <1>9, <1>10, <1>12, SMTT(30) DEF Table, Types, Inside
<1>15. KeysUnique'
  BY <1>1 DEF KeysUnique
<1>16. \A s \in Threads \ {t} : ArrayOf(s)'
  BY <1>1, <1>5, <1>8, <1>9, SMTT(30) DEF Arrays, ArrayOf, Types, Get
<1>17. ArrayOf(t)'
  BY <1>1, <1>5, <1>8, <1>9 DEF Arrays, ArrayOf, Types, Get
<1>18. Arrays'
  BY <1>16, <1>17 DEF Arrays
<1>19. \A s \in Threads \ {t} : LoopOf(s)'
  <2> TAKE s \in Threads \ {t}
  <2>1. UNCHANGED <<pc[s], home[s], idx[s], cap[s], fn[s], due[s], called[s], stored[s]>>
    BY <1>1, <1>8
  <2>2. \A k \in due[s] : meta'[k] = meta[k]
    BY <1>11
  <2> QED BY <2>1, <2>2 DEF Loops, LoopOf, Passed
<1>20. LoopOf(t)'
  BY <1>1, <1>2, <1>8, <1>11 DEF Loops, LoopOf, Passed
<1>21. Loops'
  BY <1>19, <1>20 DEF Loops
<1> QED BY <1>13, <1>14, <1>15, <1>18, <1>21

LEMMA TakeKeeps ==
  ASSUME ControlInv, Alone, TableInv, NEW t \in Threads, Take(t)
  PROVE  TableInv'
<1> USE DEF Take, Goto, TableInv, ControlInv, ControlTyped
<1> USE DEF tableVars, dataVars, loopVars, keyVars
<1> USE DEF CreatePlaces, SetPlaces, DeletePlaces, ExitPlaces, UserPlaces
<1>1. Returned' = Returned
  BY DEF Returned
<1>2. Types'
  BY DEF Types
<1>3. Table'
  BY <1>1 DEF Table, Types
<1>4. KeysUnique'
  BY DEF KeysUnique
<1>5. Arrays'
  BY <1>1 DEF Arrays, ArrayOf, Get
<1>6. Loops'
  BY DEF Loops, LoopOf, Passed
<1> QED BY <1>2, <1>3, <1>4, <1>5, <1>6

LEMMA BumpKeeps ==
  ASSUME ControlInv, Alone, TableInv, NEW t \in Threads, Bump(t)
  PROVE  TableInv'
<1> USE DEF Bump, Goto, TableInv, ControlInv, ControlTyped
<1> USE DEF tableVars, dataVars, loopVars, keyVars
<1> USE DEF CreatePlaces, SetPlaces, DeletePlaces, ExitPlaces, UserPlaces
<1>1. Returned' = Returned
  BY DEF Returned
<1>2. \A s \in Threads \ {t} : pc[s] \notin Inside
  BY InsideAlone DEF Inside
<1>3. Returned \subseteq Nat
  BY ReturnedInTable
<1>4. Types'
  BY DEF Types
<1>5. Table'
  BY <1>1, <1>2, <1>3 DEF Table, Types, Inside
<1>6. KeysUnique'
  BY DEF KeysUnique
<1>7. Arrays'
  BY <1>1 DEF Arrays, ArrayOf, Get
<1>8. Loops'
  BY DEF Loops, LoopOf, Passed
<1> QED BY <1>4, <1>5, <1>6, <1>7, <1>8

LEMMA StoreKeeps ==
  ASSUME ControlInv, Alone, TableInv, NEW t \in Threads, Store(t)
  PROVE  TableInv'
<1> USE DEF Store, Goto, TableInv, ControlInv, ControlTyped
<1> USE DEF tableVars, dataVars, loopVars, keyVars
<1> USE DEF CreatePlaces, SetPlaces, DeletePlaces, ExitPlaces, UserPlaces
<1>1. Returned' = Returned
  BY DEF Returned
<1>2. \A s \in Threads : \A k \in due[s] : meta'[k] = meta[k]
  BY DueInTable DEF Table
<1>3. Types'
  BY DEF Types
<1>4. Table'
  BY <1>1, <1>2, SMTT(30) DEF Table, Types
<1>5. KeysUnique'
  BY DEF KeysUnique
<1>6. Arrays'
  BY <1>1 DEF Arrays, ArrayOf, Get
<1>7. \A s \in Threads \ {t} : LoopOf(s)'
  BY <1>2 DEF Loops, LoopOf, Passed
<1>8. LoopOf(t)'
  BY <1>2 DEF Loops, LoopOf, Passed
<1>9. Loops'
  BY <1>7, <1>8 DEF Loops
<1> QED BY <1>3, <1>4, <1>5, <1>6, <1>9

LEMMA CreateReturnsKeeps ==
  ASSUME ControlInv, Alone, TableInv, NEW t \in Threads, CreateReturns(t)
  PROVE  TableInv'
<1> USE DEF CreateReturns, Return, Goto, TableInv, ControlInv, ControlTyped
<1> USE DEF tableVars, dataVars, loopVars, keyVars
<1> USE DEF CreatePlaces, SetPlaces, DeletePlaces, ExitPlaces, UserPlaces
<1>1. given \in Seq(Nat) /\ key[t] \in Nat
  BY DEF Types
<1>2. /\ pc[t] = "created" => Returned' = Returned \cup {key[t]}
      /\ pc[t] = "failed" => Returned' = Returned
  <2>1. ASSUME pc[t] = "created"
        PROVE  Returned' = Returned \cup {key[t]}
    <3>1. given' = Append(given, key[t])
      BY <2>1
    <3>2. /\ Len(given') = Len(given) + 1 /\ Len(given) \in Nat
          /\ \A i \in 1 .. Len(given) : given'[i] = given[i]
          /\ given'[Len(given) + 1] = key[t]
      BY <3>1
    <3> QED BY <3>2 DEF Returned
  <2>2. ASSUME pc[t] = "failed"
        PROVE  Returned' = Returned
    BY <2>2 DEF Returned
  <2> QED BY <2>1, <2>2
<1>3. Returned \subseteq Nat
  BY <1>1 DEF Returned
<1>4. \A s \in Threads \ {t} : pc[s] \notin Inside
  BY InsideAlone DEF Inside
<1>5. home[t] \in {"user", "dtor"} /\ pc'[t] = home[t]
  OBVIOUS
<1>6. Returned \subseteq Returned'
  BY <1>2
<1>7. Types'
  BY DEF Types
<1>8. Table'
  BY <1>2, <1>4 DEF Table, Inside
<1>9. KeysUnique'
  BY <1>1, <1>2, <1>3 DEF KeysUnique, Table, Returned
<1>10. \A s \in Threads \ {t} : ArrayOf(s)'
  BY <1>5, <1>6 DEF Arrays, ArrayOf, Get
<1>11. ArrayOf(t)'
  BY <1>5, <1>6 DEF Arrays, ArrayOf, Get
<1>12. Arrays'
  BY <1>10, <1>11 DEF Arrays
<1>13. Loops'
  BY DEF Loops, LoopOf, Passed
<1> QED BY <1>7, <1>8, <1>9, <1>12, <1>13

LEMMA SetKeeps ==
  ASSUME ControlInv, Alone, TableInv, NEW t \in Threads, NEW k \in Keys, NEW v, Set(t, k, v)
  PROVE  TableInv'
<1> USE DEF Set, Goto, TableInv, ControlInv, ControlTyped
<1> USE DEF tableVars, dataVars, loopVars, keyVars
<1> USE DEF CreatePlaces, SetPlaces, DeletePlaces, ExitPlaces, UserPlaces
<1>1. Returned' = Returned
  BY DEF Returned
<1>2. k \in Nat
  BY DEF Keys
<1>3. Types'
  BY <1>2 DEF Types
<1>4. Table'
  BY <1>1 DEF Table
<1>5. KeysUnique'
  BY DEF KeysUnique
<1>6. \A s \in Threads \ {t} : ArrayOf(s)'
  BY <1>1, <1>2 DEF Arrays, ArrayOf, Get
<1>7. ArrayOf(t)'
  BY <1>1 DEF Arrays, ArrayOf, Types, Get
<1>8. Arrays'
  BY <1>6, <1>7 DEF Arrays
<1>9. \A s \in Threads \ {t} : LoopOf(s)'
  BY DEF Loops, LoopOf, Passed
<1>10. LoopOf(t)'
  BY DEF Loops, LoopOf, Passed
<1>11. Loops'
  BY <1>9, <1>10 DEF Loops
<1> QED BY <1>3, <1>4, <1>5, <1>8, <1>11

LEMMA ReadCapacityKeeps ==
  ASSUME ControlInv, Alone, TableInv, NEW t \in Threads, ReadCapacity(t)
  PROVE  TableInv'
<1> USE DEF ReadCapacity, Goto, TableInv, ControlInv, ControlTyped
<1> USE DEF tableVars, dataVars, loopVars, keyVars
<1> USE DEF CreatePlaces, SetPlaces, DeletePlaces, ExitPlaces, UserPlaces
<1>1. Returned' = Returned
  BY DEF Returned
<1>2. key[t] \in Returned
  BY DEF Arrays, ArrayOf
<1>3. key[t] < metaCap
  BY <1>2, ReturnedInTable DEF Types
<1>4. Types'
  BY DEF Types
<1>5. Table'
  BY <1>1 DEF Table
<1>6. KeysUnique'
  BY DEF KeysUnique
<1>7. \A s \in Threads \ {t} : ArrayOf(s)'
  BY <1>1 DEF Arrays, ArrayOf, Get
<1>8. ArrayOf(t)'
  BY <1>1, <1>3 DEF Arrays, ArrayOf, Types, Get
<1>9. Arrays'
  BY <1>7, <1>8 DEF Arrays
<1>10. Loops'
  BY DEF Loops, LoopOf, Passed
<1> QED BY <1>4, <1>5, <1>6, <1>9, <1>10

LEMMA SetUnlockKeeps ==
  ASSUME ControlInv, Alone, TableInv, NEW t \in Threads, SetUnlock(t)
  PROVE  TableInv'
<1> USE DEF SetUnlock, Goto, TableInv, ControlInv, ControlTyped
<1> USE DEF tableVars, dataVars, loopVars, keyVars
<1> USE DEF CreatePlaces, SetPlaces, DeletePlaces, ExitPlaces, UserPlaces
<1>1. Returned' = Returned
  BY DEF Returned
<1>2. Types'
  BY DEF Types
<1>3. Table'
  BY <1>1 DEF Table
<1>4. KeysUnique'
  BY DEF KeysUnique
<1>5. Arrays'
  BY <1>1 DEF Arrays, ArrayOf, Get
<1>6. Loops'
  BY DEF Loops, LoopOf, Passed
<1> QED BY <1>2, <1>3, <1>4, <1>5, <1>6

LEMMA ResizeDoneKeeps ==
  ASSUME ControlInv, Alone, TableInv, NEW t \in Threads, Resize(t), pc'[t] = "put"
  PROVE  TableInv'
<1> USE DEF TableInv, ControlInv, ControlTyped
<1> USE DEF tableVars, dataVars, loopVars, keyVars
<1> USE DEF CreatePlaces, SetPlaces, DeletePlaces, ExitPlaces, UserPlaces
<1>1. UNCHANGED <<tableVars, stored, home, key, arg, newCap, loopVars, given>>
  BY DEF Resize, Return, Goto
<1>2. pc[t] = "resize" /\ pc' = [pc EXCEPT ![t] = "put"]
  BY DEF Resize, Return, Goto
<1>3. /\ cap' = [cap EXCEPT ![t] = newCap[t]]
      /\ data' = [data EXCEPT ![t] = Extended(data[t], cap[t], newCap[t], NULL)]
  BY DEF Resize, Return, Goto
<1>4. cap[t] <= key[t] /\ key[t] < newCap[t] /\ newCap[t] <= metaCap
  BY <1>2 DEF Arrays, ArrayOf
<1>5. Returned' = Returned
  BY <1>1 DEF Returned
<1>6. DOMAIN data' = Threads /\ DOMAIN data'[t] = 0 .. newCap[t] - 1
  BY <1>3 DEF Types, Extended
<1>7. /\ \A k \in 0 .. cap[t] - 1 : data'[t][k] = data[t][k]
      /\ \A k \in cap[t] .. newCap[t] - 1 : data'[t][k] = NULL
  BY <1>3, <1>4 DEF Types, Extended
<1>8. \A s \in Threads \ {t} : data'[s] = data[s] /\ cap'[s] = cap[s]
  BY <1>3
<1>9. Types'
  BY <1>1, <1>3, <1>6 DEF Types
<1>10. Table'
  BY <1>1, <1>2, <1>5 DEF Table
<1>11. KeysUnique'
  BY <1>1 DEF KeysUnique
<1>12. \A s \in Threads \ {t} : ArrayOf(s)'
  BY <1>1, <1>2, <1>5, <1>8 DEF Arrays, ArrayOf, Get
<1>13. \A k \in Keys : k \in Nat
  BY DEF Keys
<1>14. cap'[t] = newCap[t]
  BY <1>3 DEF Types
<1>15. \A k \in Keys : Get(t, k)' = stored'[t][k]
  <2> TAKE k \in Keys
  <2>1. k \in Nat /\ cap[t] \in Nat /\ newCap[t] \in Nat /\ Get(t, k) = stored[t][k]
    BY <1>13 DEF Types, Arrays, ArrayOf
  <2>2. ASSUME k < cap[t]
        PROVE  Get(t, k)' = stored'[t][k]
    BY <1>1, <1>4, <1>7, <1>14, <2>1 DEF Get, Types
  <2>3. ASSUME k >= cap[t]
        PROVE  Get(t, k)' = stored'[t][k]
    BY <1>1, <1>7, <1>14, <2>1, <2>3 DEF Get
  <2> QED BY <2>1, <2>2, <2>3
<1>16. \A k \in 0 .. newCap[t] - 1 : data'[t][k] # NULL => k \in Returned
  <2> TAKE k \in 0 .. newCap[t] - 1
  <2>1. k \in 0 .. cap[t] - 1 \/ k \in cap[t] .. newCap[t] - 1
    BY DEF Types
  <2>2. \A m \in 0 .. cap[t] - 1 : data[t][m] # NULL => m \in Returned
    BY DEF Arrays, ArrayOf
  <2> QED BY <1>7, <2>1, <2>2
<1>17. pc'[t] = "put" /\ key'[t] < cap'[t] /\ key[t] \in Returned /\ cap'[t] <= metaCap'
  BY <1>1, <1>2, <1>14 DEF Arrays, ArrayOf
<1>18. ArrayOf(t)'
  BY <1>1, <1>5, <1>14, <1>15, <1>16, <1>17 DEF ArrayOf
<1>19. Arrays'
  BY <1>12, <1>18 DEF Arrays
<1>20. \A s \in Threads \ {t} : LoopOf(s)'
  BY <1>1, <1>2, <1>8 DEF Loops, LoopOf, Passed
<1>21. LoopOf(t)'
  BY <1>1, <1>2 DEF Loops, LoopOf, Passed
<1>22. Loops'
  BY <1>20, <1>21 DEF Loops
<1> QED BY <1>9, <1>10, <1>11, <1>19, <1>22

LEMMA ResizeFailsKeeps ==
  ASSUME ControlInv, Alone, TableInv, NEW t \in Threads, Resize(t), pc'[t] # "put"
  PROVE  TableInv'
<1> USE DEF TableInv, ControlInv, ControlTyped
<1> USE DEF tableVars, dataVars, loopVars, keyVars
<1> USE DEF CreatePlaces, SetPlaces, DeletePlaces, ExitPlaces, UserPlaces
<1>1. UNCHANGED <<tableVars, dataVars, home, loopVars, given>>
  BY DEF Resize, Goto
<1>2. /\ pc' = [pc EXCEPT ![t] = home[t]]
      /\ key' = [key EXCEPT ![t] = 0] /\ arg' = [arg EXCEPT ![t] = NULL]
      /\ newCap' = [newCap EXCEPT ![t] = 0]
  BY DEF Resize, Return, Goto
<1>3. pc[t] = "resize" /\ home[t] \in {"user", "dtor"}
  BY DEF Resize
<1>4. \A s \in Threads \ {t} :
        pc'[s] = pc[s] /\ key'[s] = key[s] /\ arg'[s] = arg[s] /\ newCap'[s] = newCap[s]
  BY <1>2
<1>5. pc'[t] \in {"user", "dtor"}
  BY <1>2
<1>6. Returned' = Returned
  BY <1>1 DEF Returned
<1>7. Types'
  BY <1>1, <1>2 DEF Types
<1>8. Table'
  BY <1>1, <1>4, <1>5, <1>6 DEF Table
<1>9. KeysUnique'
  BY <1>1 DEF KeysUnique
<1>10. \A s \in Threads \ {t} : ArrayOf(s)'
  BY <1>1, <1>4, <1>6 DEF Arrays, ArrayOf, Get
<1>11. ArrayOf(t)'
  BY <1>1, <1>5, <1>6 DEF Arrays, ArrayOf, Get
<1>12. Arrays'
  BY <1>10, <1>11 DEF Arrays
<1>13. \A s \in Threads \ {t} : LoopOf(s)'
  BY <1>1, <1>4 DEF Loops, LoopOf, Passed
<1>14. LoopOf(t)'
  BY <1>1, <1>2, <1>3 DEF Loops, LoopOf, Passed
<1>15. Loops'
  BY <1>13, <1>14 DEF Loops
<1> QED BY <1>7, <1>8, <1>9, <1>12, <1>15

LEMMA PutKeeps ==
  ASSUME ControlInv, Alone, TableInv, NEW t \in Threads, Put(t)
  PROVE  TableInv'
<1> USE DEF Put, Return, Goto, TableInv, ControlInv, ControlTyped
<1> USE DEF tableVars, dataVars, loopVars, keyVars
<1> USE DEF CreatePlaces, SetPlaces, DeletePlaces, ExitPlaces, UserPlaces
<1>1. Returned' = Returned
  BY DEF Returned
<1>2. key[t] \in Returned /\ key[t] \in 0 .. cap[t] - 1
  BY DEF Arrays, ArrayOf, Types
<1>3. /\ data'[t] = [data[t] EXCEPT ![key[t]] = arg[t]]
      /\ stored'[t] = [stored[t] EXCEPT ![key[t]] = arg[t]]
  BY DEF Types
<1>4. pc'[t] \in {"user", "dtor"}
  OBVIOUS
<1>5. Types'
  BY DEF Types
<1>6. Table'
  BY <1>1 DEF Table
<1>7. KeysUnique'
  BY DEF KeysUnique
<1>8. \A s \in Threads \ {t} : ArrayOf(s)'
  BY <1>1, <1>4 DEF Arrays, ArrayOf, Get
<1>9. \A k \in Keys : Get(t, k)' = stored'[t][k]
  BY DEF Arrays, ArrayOf, Types, Get
<1>10. ArrayOf(t)'
  BY <1>1, <1>4, <1>9 DEF Arrays, ArrayOf
<1>11. Arrays'
  BY <1>8, <1>10 DEF Arrays
<1>12. Loops'
  BY <1>1, <1>2, <1>3, <1>4, SMTT(30) DEF Loops, LoopOf, Passed, Types
<1> QED BY <1>5, <1>6, <1>7, <1>11, <1>12

LEMMA DeleteKeeps ==
  ASSUME ControlInv, Alone, TableInv, NEW t \in Threads, NEW k \in Keys, Delete(t, k)
  PROVE  TableInv'
<1> USE DEF Delete, Goto, TableInv, ControlInv, ControlTyped
<1> USE DEF tableVars, dataVars, loopVars, keyVars
<1> USE DEF CreatePlaces, SetPlaces, DeletePlaces, ExitPlaces, UserPlaces
<1>1. Returned' = Returned
  BY DEF Returned
<1>2. k \in Nat
  BY DEF Keys
<1>3. Types'
  BY <1>2 DEF Types
<1>4. Table'
  BY <1>1 DEF Table
<1>5. KeysUnique'
  BY DEF KeysUnique
<1>6. Arrays'
  BY <1>1 DEF Arrays, ArrayOf, Types, Get
<1>7. Loops'
  BY DEF Loops, LoopOf, Passed
<1> QED BY <1>3, <1>4, <1>5, <1>6, <1>7

LEMMA ClearKeeps ==
  ASSUME ControlInv, Alone, TableInv, NEW t \in Threads, Clear(t)
  PROVE  TableInv'
<1> USE DEF Clear, Goto, TableInv, ControlInv, ControlTyped
<1> USE DEF tableVars, dataVars, loopVars, keyVars
<1> USE DEF CreatePlaces, SetPlaces, DeletePlaces, ExitPlaces, UserPlaces
<1>1. Returned' = Returned
  BY DEF Returned
<1>2. \A s \in Threads : \A m \in due[s] : meta'[m] \in Dtors => meta[m] \in Dtors
  BY NullAssumption
<1>3. Types'
  BY DEF Types
<1>4. Table'
  BY <1>1, <1>2 DEF Table
<1>5. KeysUnique'
  BY DEF KeysUnique
<1>6. Arrays'
  BY <1>1 DEF Arrays, ArrayOf, Get
<1>7. \A s \in Threads \ {t} : LoopOf(s)'
  BY <1>2 DEF Loops, LoopOf, Passed
<1>8. LoopOf(t)'
  BY <1>2 DEF Loops, LoopOf, Passed
<1>9. Loops'
  BY <1>7, <1>8 DEF Loops
<1> QED BY <1>3, <1>4, <1>5, <1>6, <1>9

LEMMA DeleteReturnsKeeps ==
  ASSUME ControlInv, Alone, TableInv, NEW t \in Threads, DeleteReturns(t)
  PROVE  TableInv'
<1> USE DEF DeleteReturns, Return, Goto, TableInv, ControlInv, ControlTyped
<1> USE DEF tableVars, dataVars, loopVars, keyVars
<1> USE DEF CreatePlaces, SetPlaces, DeletePlaces, ExitPlaces, UserPlaces
<1>1. Returned' = Returned
  BY DEF Returned
<1>2. Types'
  BY DEF Types
<1>3. Table'
  BY <1>1 DEF Table
<1>4. KeysUnique'
  BY DEF KeysUnique
<1>5. \A s \in Threads \ {t} : ArrayOf(s)'
  BY <1>1 DEF Arrays, ArrayOf, Get
<1>6. ArrayOf(t)'
  BY <1>1 DEF Arrays, ArrayOf, Get
<1>7. Arrays'
  BY <1>5, <1>6 DEF Arrays
<1>8. Loops'
  BY DEF Loops, LoopOf, Passed
<1> QED BY <1>2, <1>3, <1>4, <1>7, <1>8

LEMMA ExitKeeps ==
  ASSUME ControlInv, Alone, TableInv, NEW t \in Threads, Exit(t)
  PROVE  TableInv'
<1> USE DEF Exit, Goto, TableInv, ControlInv, ControlTyped
<1> USE DEF tableVars, dataVars, loopVars, keyVars
<1> USE DEF CreatePlaces, SetPlaces, DeletePlaces, ExitPlaces, UserPlaces
<1>1. Returned' = Returned
  BY DEF Returned
<1>2. Keys \subseteq Nat
  BY DEF Keys
<1>3. idx[t] = 0
  BY DEF Loops, LoopOf
<1>4. Types'
  BY DEF Types
<1>5. Table'
  BY <1>1 DEF Table
<1>6. KeysUnique'
  BY DEF KeysUnique
<1>7. Arrays'
  BY <1>1 DEF Arrays, ArrayOf, Get
<1>8. \A s \in Threads \ {t} : LoopOf(s)'
  BY DEF Loops, LoopOf, Passed
<1>9. /\ due'[t] = {k \in Keys : stored[t][k] # NULL}
      /\ pc'[t] = "exit" /\ idx' = idx /\ home'[t] = "user" /\ stored' = stored
  BY DEF Types, Loops, LoopOf
<1>10. \A k \in Keys : ~Passed(t, k)'
  BY <1>2, <1>3 DEF Passed
<1>11. LoopOf(t)'
  BY <1>3, <1>9, <1>10 DEF LoopOf
<1>12. Loops'
  BY <1>8, <1>11 DEF Loops
<1> QED BY <1>4, <1>5, <1>6, <1>7, <1>12

LEMMA ScanKeeps ==
  ASSUME ControlInv, Alone, TableInv, NEW t \in Threads, Scan(t)
  PROVE  TableInv'
<1> USE DEF Scan, Goto, TableInv, ControlInv, ControlTyped
<1> USE DEF tableVars, dataVars, loopVars, keyVars
<1> USE DEF CreatePlaces, SetPlaces, DeletePlaces, ExitPlaces, UserPlaces
<1>1. Returned' = Returned
  BY DEF Returned
<1>2. Types'
  BY DEF Types
<1>3. Table'
  BY <1>1 DEF Table
<1>4. KeysUnique'
  BY DEF KeysUnique
<1>5. Arrays'
  BY <1>1 DEF Arrays, ArrayOf, Get
<1>6. \A s \in Threads \ {t} : LoopOf(s)'
  BY DEF Loops, LoopOf, Passed, Types
<1>7. idx[t] < cap[t] /\ data[t][idx[t]] # NULL => meta[idx[t]] \in Dtors \cup {NULL}
  BY DEF Arrays, ArrayOf, Table, Types
<1>8. \A k \in due[t] : k \in Nat /\ k < cap[t] /\ data[t][k] # NULL
  BY DueInTable
<1>9. LoopOf(t)'
  BY <1>7, <1>8, NullAssumption DEF Loops, LoopOf, Passed, Types
<1>10. Loops'
  BY <1>6, <1>9 DEF Loops
<1> QED BY <1>2, <1>3, <1>4, <1>5, <1>10

LEMMA CallDtorKeeps ==
  ASSUME ControlInv, Alone, TableInv, NEW t \in Threads, CallDtor(t)
  PROVE  TableInv'
<1> USE DEF CallDtor, Goto, TableInv, ControlInv, ControlTyped
<1> USE DEF tableVars, dataVars, loopVars, keyVars
<1> USE DEF CreatePlaces, SetPlaces, DeletePlaces, ExitPlaces, UserPlaces
<1>1. Returned' = Returned
  BY DEF Returned
<1>2. Types'
  BY DEF Types
<1>3. Table'
  BY <1>1 DEF Table
<1>4. KeysUnique'
  BY DEF KeysUnique
<1>5. Arrays'
  BY <1>1 DEF Arrays, ArrayOf, Get
<1>6. Loops'
  BY DEF Loops, LoopOf, Passed, Types
<1> QED BY <1>2, <1>3, <1>4, <1>5, <1>6

LEMMA DtorReturnsKeeps ==
  ASSUME ControlInv, Alone, TableInv, NEW t \in Threads, DtorReturns(t)
  PROVE  TableInv'
<1> USE DEF DtorReturns, Goto, TableInv, ControlInv, ControlTyped
<1> USE DEF tableVars, dataVars, loopVars, keyVars
<1> USE DEF CreatePlaces, SetPlaces, DeletePlaces, ExitPlaces, UserPlaces
<1>1. Returned' = Returned
  BY DEF Returned
<1>2. Types'
  BY DEF Types
<1>3. Table'
  BY <1>1 DEF Table
<1>4. KeysUnique'
  BY DEF KeysUnique
<1>5. Arrays'
  BY <1>1 DEF Arrays, ArrayOf, Get
<1>6. Loops'
  BY DEF Loops, LoopOf, Passed
<1> QED BY <1>2, <1>3, <1>4, <1>5, <1>6

LEMMA AdvanceKeeps ==
  ASSUME ControlInv, Alone, TableInv, NEW t \in Threads, Advance(t)
  PROVE  TableInv'
<1> USE DEF Advance, Goto, TableInv, ControlInv, ControlTyped
<1> USE DEF tableVars, dataVars, loopVars, keyVars
<1> USE DEF CreatePlaces, SetPlaces, DeletePlaces, ExitPlaces, UserPlaces
<1>1. Returned' = Returned
  BY DEF Returned
<1>2. \A k \in due[t] : k \in Nat
  BY DueInTable
<1>3. Types'
  BY DEF Types
<1>4. Table'
  BY <1>1 DEF Table
<1>5. KeysUnique'
  BY DEF KeysUnique
<1>6. Arrays'
  BY <1>1 DEF Arrays, ArrayOf, Get
<1>7. \A s \in Threads \ {t} : LoopOf(s)'
  BY DEF Loops, LoopOf, Passed
<1>8. idx[t] \in Nat /\ idx'[t] = idx[t] + 1 /\ pc'[t] = "scan"
  BY DEF Types
<1>9. \A k \in due[t] : Passed(t, k)' => Passed(t, k)
  BY <1>2, <1>8 DEF Passed
<1>10. LoopOf(t)'
  BY <1>9 DEF Loops, LoopOf
<1>11. Loops'
  BY <1>7, <1>10 DEF Loops
<1> QED BY <1>3, <1>4, <1>5, <1>6, <1>11

LEMMA ExitDoneKeeps ==
  ASSUME ControlInv, Alone, TableInv, NEW t \in Threads, ExitDone(t)
  PROVE  TableInv'
<1> USE DEF ExitDone, Goto, TableInv, ControlInv, ControlTyped
<1> USE DEF tableVars, dataVars, loopVars, keyVars
<1> USE DEF CreatePlaces, SetPlaces, DeletePlaces, ExitPlaces, UserPlaces
<1>1. Returned' = Returned
  BY DEF Returned
<1>2. Types'
  BY DEF Types
<1>3. Table'
  BY <1>1 DEF Table
<1>4. KeysUnique'
  BY DEF KeysUnique
<1>5. Arrays'
  BY <1>1 DEF Arrays, ArrayOf, Get
<1>6. Loops'
  BY DEF Loops, LoopOf, Passed
<1> QED BY <1>2, <1>3, <1>4, <1>5, <1>6

-----------------------------------------------------------------------------
LEMMA TableStep ==
  ASSUME ControlInv, Alone, TableInv, [Next]_vars
  PROVE  TableInv'
<1>1. ASSUME NEW t \in Threads,
             \/ \E u \in Threads : Spawn(t, u)
             \/ Initialise(t) \/ Lock(t)
      PROVE  TableInv'
  BY <1>1, SpawnKeeps, InitialiseKeeps, LockKeeps
<1>2. ASSUME NEW t \in Threads,
             \/ \E d \in Dtors \cup {NULL} : Create(t, d)
             \/ Grow(t) \/ Take(t) \/ Bump(t) \/ Store(t) \/ CreateReturns(t)
      PROVE  TableInv'
  BY <1>2, CreateKeeps, GrowKeeps, TakeKeeps, BumpKeeps, StoreKeeps, CreateReturnsKeeps
<1>3. ASSUME NEW t \in Threads,
             \/ \E k \in Keys, v \in Values \cup {NULL} : Set(t, k, v)
             \/ ReadCapacity(t) \/ SetUnlock(t) \/ Resize(t) \/ Put(t)
      PROVE  TableInv'
  BY <1>3, SetKeeps, ReadCapacityKeeps, SetUnlockKeeps, ResizeDoneKeeps, ResizeFailsKeeps, PutKeeps
<1>4. ASSUME NEW t \in Threads,
             \/ \E k \in Keys : Delete(t, k)
             \/ Clear(t) \/ DeleteReturns(t)
      PROVE  TableInv'
  BY <1>4, DeleteKeeps, ClearKeeps, DeleteReturnsKeeps
<1>5. ASSUME NEW t \in Threads,
             \/ Exit(t) \/ Scan(t) \/ CallDtor(t) \/ DtorReturns(t) \/ Advance(t) \/ ExitDone(t)
      PROVE  TableInv'
  BY <1>5, ExitKeeps, ScanKeeps, CallDtorKeeps, DtorReturnsKeeps, AdvanceKeeps, ExitDoneKeeps
<1>6. ASSUME UNCHANGED vars
      PROVE  TableInv'
  <2> USE <1>6 DEF vars, mutexVars, tableVars, dataVars, loopVars, keyVars
  <2>1. Types' /\ Returned' = Returned
    BY DEF TableInv, Types, Returned
  <2>2. Table' /\ KeysUnique'
    BY <2>1 DEF TableInv, Table, KeysUnique
  <2>3. Arrays' /\ Loops'
    BY <2>1 DEF TableInv, Arrays, ArrayOf, Get, Loops, LoopOf, Passed
  <2> QED BY <2>1, <2>2, <2>3 DEF TableInv
<1> QED
  BY <1>1, <1>2, <1>3, <1>4, <1>5, <1>6 DEF Next

LEMMA TableInvHolds ==
  ASSUME EarlyInit
  PROVE  Spec => []TableInv
<1>1. Init => TableInv
  BY TableInit
<1>2. ControlInv /\ Alone /\ TableInv /\ [Next]_vars => TableInv'
  BY TableStep
<1>3. Spec => []ControlInv
  BY ControlInvHolds
<1>4. Spec => []Alone
  BY AloneHolds
<1> QED
  BY <1>1, <1>2, <1>3, <1>4, PTL DEF Spec

\* No two calls of tss_create return the same key, in whichever threads, if
\* tss_mtx is initialised early: reading tss_next, adding 1 to it and writing
\* the destructor are then one step for every other call.
THEOREM KeysUniqueHolds ==
  ASSUME EarlyInit
  PROVE  Spec => []KeysUnique
<1>1. TableInv => KeysUnique
  BY DEF TableInv
<1> QED
  BY <1>1, TableInvHolds, PTL

\* tss_set, tss_create, tss_delete and the destructor loop never index
\* tss_meta or a thread's own array outside its bounds, and the assertion of
\* tss_set on the new capacity holds, though tss_mtx is released before it.
THEOREM IndexesInBoundsHolds ==
  ASSUME EarlyInit
  PROVE  Spec => []IndexesInBounds
<1>1. TableInv => IndexesInBounds
  <2> SUFFICES ASSUME TableInv, NEW t \in Threads
               PROVE  /\ pc[t] = "resize" => newCap[t] > key[t]
                      /\ pc[t] = "put" => key[t] < cap[t]
                      /\ pc[t] \in {"store", "clear"} => key[t] < metaCap
                      /\ pc[t] = "scan" /\ idx[t] < cap[t] => idx[t] < metaCap
    BY DEF IndexesInBounds
  <2>1. metaCap \in Nat /\ cap[t] \in Nat /\ idx[t] \in Nat /\ key[t] \in Nat /\ next \in Nat
    BY DEF TableInv, Types
  <2>2. ArrayOf(t) /\ Table
    BY DEF TableInv, Arrays
  <2>3. pc[t] = "clear" => key[t] < metaCap
    BY <2>1, <2>2, ReturnedInTable DEF ArrayOf, DeletePlaces
  <2> QED
    BY <2>1, <2>2, <2>3 DEF ArrayOf, Table, TableInv, Types
<1> QED
  BY <1>1, TableInvHolds, PTL

\* tss_get returns what the thread's last tss_set stored, or NULL, however
\* tss_set has extended the array since.
THEOREM GetReturnsSetHolds ==
  ASSUME EarlyInit
  PROVE  Spec => []GetReturnsSet
<1>1. TableInv => GetReturnsSet
  BY DEF TableInv, Arrays, ArrayOf, GetReturnsSet
<1> QED
  BY <1>1, TableInvHolds, PTL

\* What the destructor loop of thrd_exit calls was registered by a tss_create:
\* neither NULL of a deleted key nor an element that nobody has written.
THEOREM DtorRegisteredHolds ==
  ASSUME EarlyInit
  PROVE  Spec => []DtorRegistered
<1>1. ControlInv /\ TableInv => DtorRegistered
  BY DEF ControlInv, InStep, TableInv, Loops, LoopOf, ExitPlaces, DtorRegistered
<1> QED
  BY <1>1, ControlInvHolds, TableInvHolds, PTL

\* A thread that is through __run_tss_destructors has called the destructor of
\* every key that was due and not deleted meanwhile.
THEOREM DtorsRunHolds ==
  ASSUME EarlyInit
  PROVE  Spec => []DtorsRun
<1>1. TableInv => DtorsRun
  <2> SUFFICES ASSUME TableInv, NEW t \in Threads, pc[t] = "gone",
                      NEW k \in due[t], meta[k] \in Dtors
               PROVE  k \in called[t]
    BY DEF DtorsRun
  <2>1. k \in Nat /\ k < cap[t] /\ cap[t] \in Nat /\ idx[t] \in Nat
    BY DueInTable DEF TableInv, Types
  <2>2. cap[t] <= idx[t] /\ (Passed(t, k) => k \in called[t])
    BY DEF TableInv, Loops, LoopOf
  <2> QED
    BY <2>1, <2>2 DEF Passed
<1> QED
  BY <1>1, TableInvHolds, PTL
=============================================================================
