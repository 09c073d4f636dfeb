---------------------------- MODULE LibraryProofs ----------------------------
(***************************************************************************)
(* Theorems about the life of threads, in Threads, and about the parts of  *)
(* Library, each for its own specification first: the lists of Queue for   *)
(* any elements, Arrays for arrays of any length, whatever items are in    *)
(* them and however they are compared, the modes of fopen for modes of any *)
(* length, Strings for memories of any size.  The last theorems are those  *)
(* of Library, the parts together.                                         *)
(***************************************************************************)
EXTENDS Threads, Library, TLAPS, FiniteSetTheorems, FunctionTheorems, SequenceTheorems,
        WellFoundedInduction

(***************************************************************************)
(* Threads: who owns a thread object, its lock and its references, in      *)
(* every interleaving of thrd_create, thrd_exit, thrd_detach and           *)
(* thrd_join, for any number of threads.                                   *)
(***************************************************************************)
UserPlaces == JoinPlaces \cup DetachPlaces

\* Who may hold the lock of u: the thread itself at its end, and the thread
\* that uses its handle.
HoldsSpin(t, u) ==
  \/ t = u /\ pc[t] \in {"exit", "exitunlock"}
  \/ target[t] = u /\ pc[t] \in {"join", "joinunlock", "detach", "detachunlock"}

\* Where a thread has given up its own reference.
Past == {"exitunlock", "exiting", "gone"}

\* A thread has its object until ExitBody or main's return, and no handle
\* before clone; only the initial thread has no creator.
Births ==
  /\ pc[Main] # "unborn" /\ handle[Main] = "none"
  /\ \A u \in Threads :
       /\ obj[u] = "unused" => pc[u] \in {"unborn", "start"}
       /\ pc[u] = "start" => u = Main
       /\ pc[u] = "unborn" => handle[u] = "none"
       /\ pc[u] \notin {"unborn", "start", "exiting", "gone", "atexit"} => obj[u] = "allocated"

\* A thread that creates another has its object, and nobody else has.
Creators ==
  /\ \A t \in Threads : pc[t] \in CreatePlaces =>
       /\ target[t] \in Threads /\ pc[target[t]] = "unborn" /\ obj[target[t]] = "allocated"
       /\ pc[t] = "clone" => stack[target[t]] = "allocated"
  /\ \A s, t \in Threads :
       pc[s] \in CreatePlaces /\ pc[t] \in CreatePlaces /\ target[s] = target[t] => s = t

\* A handle has at most one user, and as long as it is not dropped the object
\* and the stack are there.
Users ==
  /\ \A t \in Threads : pc[t] \in UserPlaces =>
       /\ target[t] \in Threads /\ obj[target[t]] = "allocated"
       /\ handle[target[t]] = IF pc[t] = "detachunlock" THEN "dropped" ELSE "taken"
       /\ pc[t] \in JoinPlaces => t # target[t]
  /\ \A s, t \in Threads :
       pc[s] \in UserPlaces /\ pc[t] \in UserPlaces /\ target[s] = target[t] => s = t
  /\ \A u \in Threads : handle[u] \in {"open", "taken"} =>
       obj[u] = "allocated" /\ stack[u] = "allocated"

\* One thread is behind the test-and-set of a lock, and the lock is set.
Locks ==
  /\ \A t, u \in Threads : HoldsSpin(t, u) => spin[u]
  /\ \A s, t, u \in Threads : HoldsSpin(s, u) /\ HoldsSpin(t, u) => s = t

\* The count is right and never 0, and a thread that has given its reference
\* up has left its result.
Counts ==
  \A u \in Threads : obj[u] = "allocated" =>
    /\ refs[u] = One(pc[u] \notin Past) + One(handle[u] # "dropped")
    /\ refs[u] # 0
    /\ pc[u] \in Past => code[u] # None /\ result[u] = code[u]
    /\ pc[u] \in {"exitlock", "exit"} => code[u] # None

\* Every FS points at the process's canary or at an object that has a copy.
Canaries ==
  \A t \in Threads :
    /\ obj[t] # "unused" => canary[t] = Secret
    /\ fs[t] # Loader => obj[fs[t]] # "unused"
    /\ pc[t] \in {"setfs", "check"} => saw[t] = Secret

Inv == Alive /\ Births /\ Creators /\ Users /\ Locks /\ Counts /\ Canaries

\* What exit and abort leave.
Killed == \A t \in Threads : pc[t] = "killed"
IInv == TypeOK /\ (Killed \/ Inv)
-----------------------------------------------------------------------------
(***************************************************************************)
(* Who is alone with an object.                                            *)
(***************************************************************************)
USE DEF CreatePlaces, JoinPlaces, DetachPlaces, UserPlaces

\* Of the thread that t creates nobody else knows.
Unknown(t) ==
  /\ target[t] \in Threads \ {Main, t}
  /\ pc[target[t]] = "unborn" /\ obj[target[t]] = "allocated" /\ handle[target[t]] = "none"
  /\ \A s \in Threads : pc[s] \in UserPlaces => target[s] # target[t]
  /\ \A s \in Threads : pc[s] \in CreatePlaces /\ s # t => target[s] # target[t]

\* The handle that t uses is that of a thread that runs or has run, and nobody
\* else uses it.
Sole(t) ==
  /\ target[t] \in Threads \ {Main}
  /\ pc[target[t]] \notin {"unborn", "start"} /\ obj[target[t]] = "allocated"
  /\ \A s \in Threads : pc[s] \in UserPlaces /\ s # t => target[s] # target[t]
  /\ \A s \in Threads : pc[s] \in CreatePlaces => target[s] # target[t]

\* The thread whose handle t uses has given up its own reference and the lock.
LastUser(t) ==
  /\ refs[target[t]] = 1
  /\ pc[target[t]] \in {"exiting", "gone"}
  /\ \A s \in Threads : HoldsSpin(s, target[t]) => s = t

\* No thread uses the handle of t, or ever will.
Unused(t) ==
  /\ handle[t] = "dropped"
  /\ \A s \in Threads : pc[s] \in UserPlaces \cup CreatePlaces => target[s] # t

\* thrd_create has the object of the new thread for itself until clone.
LEMMA CreatorAlone ==
  ASSUME TypeOK, Inv, NEW t \in Threads, pc[t] \in CreatePlaces
  PROVE  Unknown(t)
  <1>1. /\ target[t] \in Threads \ {Main, t}
        /\ pc[target[t]] = "unborn" /\ obj[target[t]] = "allocated"
        /\ handle[target[t]] = "none"
        /\ \A s \in Threads : pc[s] \in CreatePlaces /\ s # t => target[s] # target[t]
    BY DEF Inv, Creators, Births
  <1>2. \A s \in Threads : pc[s] \in UserPlaces => target[s] # target[t]
    BY <1>1 DEF Inv, Users
  <1> QED BY <1>1, <1>2 DEF Unknown

\* A thread in thrd_detach or thrd_join is the only one with that handle.
LEMMA UserAlone ==
  ASSUME TypeOK, Inv, NEW t \in Threads, pc[t] \in UserPlaces
  PROVE  Sole(t)
  <1>1. /\ target[t] \in Threads /\ obj[target[t]] = "allocated"
        /\ handle[target[t]] # "none"
        /\ \A s \in Threads : pc[s] \in UserPlaces /\ s # t => target[s] # target[t]
    BY DEF Inv, Users
  <1>2. target[t] # Main /\ pc[target[t]] \notin {"unborn", "start"}
    BY <1>1 DEF Inv, Births
  <1>3. \A s \in Threads : pc[s] \in CreatePlaces => target[s] # target[t]
    BY <1>2 DEF Inv, Creators
  <1> QED BY <1>1, <1>2, <1>3 DEF Sole

\* A thrd_detach or thrd_join that finds one reference left is the last.
LEMMA LastUserIs ==
  ASSUME TypeOK, Inv, NEW t \in Threads, pc[t] \in {"join", "detach"}, refs[target[t]] # 2
  PROVE  LastUser(t)
  <1> DEFINE u == target[t]
  <1>1. u \in Threads /\ obj[u] = "allocated" /\ handle[u] = "taken"
    BY DEF Inv, Users
  <1>2. refs[u] = 1 /\ pc[u] \in Past
    BY <1>1 DEF Inv, Counts, One
  <1>3. \A s \in Threads : HoldsSpin(s, u) => s = t
    BY <1>1 DEF Inv, Locks, HoldsSpin
  <1>4. pc[u] # "exitunlock"
    BY <1>1, <1>3 DEF HoldsSpin
  <1> QED BY <1>2, <1>3, <1>4 DEF Past, LastUser

\* A thrd_exit that finds one reference left is alone with its object.
LEMMA LastToExit ==
  ASSUME TypeOK, Inv, NEW t \in Threads, pc[t] = "exit", refs[t] = 1
  PROVE  Unused(t)
  <1>1. obj[t] = "allocated"
    BY DEF Inv, Births
  <1>2. handle[t] = "dropped"
    BY <1>1 DEF Inv, Counts, One, Past
  <1>3. \A s \in Threads : pc[s] \in UserPlaces => target[s] # t
    BY <1>2 DEF Inv, Users, Locks, HoldsSpin
  <1>4. \A s \in Threads : pc[s] \in CreatePlaces => target[s] # t
    BY DEF Inv, Creators
  <1> QED BY <1>2, <1>3, <1>4 DEF Unused

-----------------------------------------------------------------------------
(***************************************************************************)
(* Every step keeps the invariant.                                         *)
(***************************************************************************)
\* The initial thread gets its object before it runs anything.
LEMMA StartKeeps ==
  ASSUME TypeOK, Inv, Start, ~Killed'
  PROVE  Inv'
  <1> USE DEF Start, CreateObject, EndProcess, Killed, Goto, objectVars, cpuVars, TypeOK, Inv
  <1>1. Alive' /\ Births'
    BY MainAssumption DEF Alive, Births
  <1>2. Creators' /\ Users'
    BY DEF Creators, Users
  <1>3. \A s \in Threads : ~HoldsSpin(s, Main)
    BY MainAssumption DEF Births, Users, HoldsSpin
  <1>4. \A s, v \in Threads : HoldsSpin(s, v)' <=> HoldsSpin(s, v)
    BY MainAssumption DEF HoldsSpin
  <1>5. Locks'
    BY <1>3, <1>4, MainAssumption, SMTT(30) DEF Locks
  <1>6. Counts'
    BY DEF Counts, Past, One, Births
  <1>7. Canaries'
    BY DEF Canaries, Canary
  <1> QED BY <1>1, <1>2, <1>5, <1>6, <1>7

\* create_thrd_t takes an object that nobody has.
LEMMA CreateKeeps ==
  ASSUME TypeOK, Inv, NEW t \in Threads, NEW u \in Threads, Create(t, u)
  PROVE  Inv'
  <1> USE DEF Create, CreateObject, Goto, objectVars, cpuVars, TypeOK, Inv
  <1>1. Alive' /\ Births' /\ Creators' /\ Users'
    BY MainAssumption DEF Alive, Births, Creators, Users
  <1>2. Locks'
    BY DEF Locks, HoldsSpin, Births, Users
  <1>3. Counts'
    BY DEF Counts, Past, One, Births
  <1>4. Canaries'
    BY DEF Canaries, Canary
  <1> QED BY <1>1, <1>2, <1>3, <1>4

\* The stack, or the end of thrd_create without it.
LEMMA AllocStackKeeps ==
  ASSUME TypeOK, Inv, NEW t \in Threads, AllocStack(t)
  PROVE  Inv'
  <1> USE DEF AllocStack, Goto, objectVars, cpuVars, TypeOK, Inv
  <1>1. Unknown(t)
    BY CreatorAlone
  <1>2. Alive' /\ Births'
    BY <1>1, MainAssumption DEF Alive, Births, Unknown
  <1>3. Creators'
    BY <1>1 DEF Creators, Unknown
  <1>4. Users'
    BY <1>1 DEF Users, Unknown
  <1>5. \A s, v \in Threads : HoldsSpin(s, v)' => HoldsSpin(s, v)
    BY DEF HoldsSpin
  <1>6. Locks'
    BY <1>5 DEF Locks
  <1>7. Counts'
    BY <1>1 DEF Counts, Past, One, Unknown
  <1>8. Canaries'
    BY <1>1 DEF Canaries, Canary, Unknown
  <1> QED BY <1>2, <1>3, <1>4, <1>6, <1>7, <1>8

\* clone hands the object over to the new thread and its handle to the program.
LEMMA CloneKeeps ==
  ASSUME TypeOK, Inv, NEW t \in Threads, Clone(t)
  PROVE  Inv'
  <1> USE DEF Clone, Goto, objectVars, cpuVars, TypeOK, Inv
  <1>1. Unknown(t)
    BY CreatorAlone
  <1>2. Alive' /\ Births'
    BY <1>1, MainAssumption DEF Alive, Births, Unknown
  <1>3. Creators'
    BY <1>1 DEF Creators, Unknown
  <1>4. Users'
    BY <1>1, SMTT(30) DEF Users, Births, Creators, Unknown
  <1>5. \A s, v \in Threads : HoldsSpin(s, v)' <=> HoldsSpin(s, v)
    BY <1>1 DEF HoldsSpin, Unknown
  <1>6. Locks'
    BY <1>5 DEF Locks
  <1>7. Counts'
    BY <1>1 DEF Counts, Past, One, Unknown
  <1>8. Canaries'
    BY <1>1 DEF Canaries, Canary, Unknown
  <1> QED BY <1>2, <1>3, <1>4, <1>6, <1>7, <1>8

\* setup_tls changes FS to an object with the same canary.
LEMMA SetupKeeps ==
  ASSUME TypeOK, Inv, NEW t \in Threads, EnterSetup(t) \/ SetFS(t) \/ LeaveSetup(t), ~Killed'
  PROVE  Inv'
  <1> USE DEF EnterSetup, SetFS, LeaveSetup, EndProcess, Killed
  <1> USE DEF Goto, objectVars, cpuVars, TypeOK, Inv
  <1>1. Alive' /\ Births'
    BY MainAssumption DEF Alive, Births
  <1>2. Creators'
    BY DEF Creators
  <1>3. Users'
    BY DEF Users
  <1>4. Locks'
    BY DEF Locks, HoldsSpin
  <1>5. Counts'
    BY DEF Counts, Past, One
  <1>6. Canaries'
    BY DEF Canaries, Canary, Births
  <1> QED BY <1>1, <1>2, <1>3, <1>4, <1>5, <1>6

\* A thread that ends has a result.
LEMMA ExitKeeps ==
  ASSUME TypeOK, Inv, NEW t \in Threads, NEW r \in Results, Exit(t, r)
  PROVE  Inv'
  <1> USE DEF Exit, Goto, objectVars, cpuVars, TypeOK, Inv
  <1>1. Alive' /\ Births' /\ Creators' /\ Users'
    BY MainAssumption DEF Alive, Births, Creators, Users
  <1>2. Locks'
    BY DEF Locks, HoldsSpin
  <1>3. Counts'
    BY NoneAssumption DEF Counts, Past, One
  <1>4. Canaries'
    BY DEF Canaries, Canary
  <1> QED BY <1>1, <1>2, <1>3, <1>4

\* It takes a lock that nobody holds.
LEMMA ExitLockKeeps ==
  ASSUME TypeOK, Inv, NEW t \in Threads, ExitLock(t)
  PROVE  Inv'
  <1> USE DEF ExitLock, TakeSpin, Goto, objectVars, cpuVars, TypeOK, Inv
  <1>1. Alive' /\ Births' /\ Creators' /\ Users'
    BY MainAssumption DEF Alive, Births, Creators, Users
  <1>2. Locks'
    BY DEF Locks, HoldsSpin
  <1>3. Counts'
    BY DEF Counts, Past, One
  <1>4. Canaries'
    BY DEF Canaries, Canary
  <1> QED BY <1>1, <1>2, <1>3, <1>4

\* It frees the object if nobody else needs it.
LEMMA ExitBodyKeeps ==
  ASSUME TypeOK, Inv, NEW t \in Threads, ExitBody(t)
  PROVE  Inv'
  <1> USE DEF ExitBody, Goto, objectVars, cpuVars, TypeOK, Inv
  <1>1. refs[t] = 1 => Unused(t)
    BY LastToExit
  <1>2. Alive' /\ Births' /\ Creators' /\ Users'
    BY <1>1, SMTT(30), MainAssumption DEF Alive, Births, Creators, Users, Unused
  <1>3. Locks'
    BY <1>1 DEF Locks, HoldsSpin, Unused
  <1>4. Counts'
    BY <1>1 DEF Counts, Past, One, Unused
  <1>5. Canaries'
    BY <1>1 DEF Canaries, Canary, Births, Unused
  <1> QED BY <1>2, <1>3, <1>4, <1>5

\* It drops the lock after its reference.
LEMMA ExitUnlockKeeps ==
  ASSUME TypeOK, Inv, NEW t \in Threads, ExitUnlock(t)
  PROVE  Inv'
  <1> USE DEF ExitUnlock, DropSpin, Goto, objectVars, cpuVars, TypeOK, Inv
  <1>1. Alive' /\ Births' /\ Creators' /\ Users'
    BY MainAssumption DEF Alive, Births, Creators, Users
  <1>2. Locks'
    BY DEF Locks, HoldsSpin
  <1>3. Counts'
    BY DEF Counts, Past, One
  <1>4. Canaries'
    BY DEF Canaries, Canary
  <1> QED BY <1>1, <1>2, <1>3, <1>4

\* The kernel thread ends.
LEMMA GoneKeeps ==
  ASSUME TypeOK, Inv, NEW t \in Threads, Gone(t)
  PROVE  Inv'
  <1> USE DEF Gone, Goto, objectVars, cpuVars, TypeOK, Inv
  <1>1. Alive' /\ Births' /\ Creators' /\ Users'
    BY MainAssumption DEF Alive, Births, Creators, Users
  <1>2. Locks'
    BY DEF Locks, HoldsSpin
  <1>3. Counts'
    BY DEF Counts, Past, One
  <1>4. Canaries'
    BY DEF Canaries, Canary
  <1> QED BY <1>1, <1>2, <1>3, <1>4

\* The object of the initial thread, whose handle nobody has, is freed.
LEMMA MainReturnsKeeps ==
  ASSUME TypeOK, Inv, MainReturns
  PROVE  Inv'
  <1> USE DEF MainReturns, Goto, objectVars, cpuVars, TypeOK, Inv
  <1>1. Alive' /\ Births' /\ Creators' /\ Users'
    BY MainAssumption DEF Alive, Births, Creators, Users
  <1>2. Locks'
    BY DEF Locks, HoldsSpin
  <1>3. Counts'
    BY DEF Counts, Past, One
  <1>4. Canaries'
    BY DEF Canaries, Canary, Births
  <1> QED BY <1>1, <1>2, <1>3, <1>4

\* A handle that is open has no user yet.
LEMMA TakeHandleKeeps ==
  ASSUME TypeOK, Inv, NEW t \in Threads, NEW u \in Threads, Detach(t, u) \/ Join(t, u)
  PROVE  Inv'
  <1> USE DEF Detach, Join, TakeHandle, Goto, objectVars, cpuVars, TypeOK, Inv
  <1>1. Alive' /\ Births'
    BY MainAssumption DEF Alive, Births
  <1>2. Creators'
    BY DEF Creators
  <1>3. Users'
    BY DEF Users
  <1>4. \A s, v \in Threads : HoldsSpin(s, v)' <=> HoldsSpin(s, v)
    BY DEF HoldsSpin
  <1>5. Locks'
    BY <1>4 DEF Locks
  <1>6. Counts'
    BY DEF Counts, Past, One
  <1>7. Canaries'
    BY DEF Canaries, Canary
  <1> QED BY <1>1, <1>2, <1>3, <1>5, <1>6, <1>7

\* Its user takes a lock that nobody holds.
LEMMA DetachLockKeeps ==
  ASSUME TypeOK, Inv, NEW t \in Threads, DetachLock(t)
  PROVE  Inv'
  <1> USE DEF DetachLock, TakeSpin, Goto, objectVars, cpuVars, TypeOK, Inv
  <1>1. Sole(t)
    BY UserAlone
  <1>2. Alive' /\ Births' /\ Creators' /\ Users'
    BY <1>1, MainAssumption DEF Alive, Births, Creators, Users, Sole
  <1>3. Locks'
    BY <1>1 DEF Locks, HoldsSpin, Sole
  <1>4. Counts'
    BY <1>1 DEF Counts, Past, One, Sole
  <1>5. Canaries'
    BY <1>1 DEF Canaries, Canary, Sole
  <1> QED BY <1>2, <1>3, <1>4, <1>5

\* The same in thrd_join.
LEMMA JoinLockKeeps ==
  ASSUME TypeOK, Inv, NEW t \in Threads, JoinLock(t)
  PROVE  Inv'
  <1> USE DEF JoinLock, TakeSpin, Goto, objectVars, cpuVars, TypeOK, Inv
  <1>1. Sole(t)
    BY UserAlone
  <1>2. Alive' /\ Births' /\ Creators' /\ Users'
    BY <1>1, MainAssumption DEF Alive, Births, Creators, Users, Sole
  <1>3. Locks'
    BY <1>1 DEF Locks, HoldsSpin, Sole
  <1>4. Counts'
    BY <1>1 DEF Counts, Past, One, Sole
  <1>5. Canaries'
    BY <1>1 DEF Canaries, Canary, Sole
  <1> QED BY <1>2, <1>3, <1>4, <1>5

\* thrd_detach frees object and stack if the thread is through.
LEMMA DetachBodyKeeps ==
  ASSUME TypeOK, Inv, NEW t \in Threads, DetachBody(t)
  PROVE  Inv'
  <1> USE DEF DetachBody, Goto, objectVars, cpuVars, TypeOK, Inv
  <1>1. Sole(t)
    BY UserAlone
  <1>2. refs[target[t]] # 2 => LastUser(t)
    BY LastUserIs
  <1>3. Alive' /\ Births'
    BY <1>1, <1>2, MainAssumption DEF Alive, Births, Sole, LastUser
  <1>4. Creators'
    BY <1>1, <1>2 DEF Creators, Sole, LastUser
  <1>5. Users'
    BY <1>1, <1>2 DEF Users, Sole, LastUser
  <1>6. \A s, v \in Threads : HoldsSpin(s, v)' => HoldsSpin(s, v)
    BY DEF HoldsSpin
  <1>7. Locks'
    BY <1>6 DEF Locks
  <1>8. Counts'
    BY <1>1, <1>2 DEF Counts, Past, One, Sole, LastUser
  <1>9. Canaries'
    BY <1>1, <1>2 DEF Canaries, Canary, Sole, LastUser
  <1> QED BY <1>3, <1>4, <1>5, <1>7, <1>8, <1>9

\* thrd_join does so when it stops waiting.
LEMMA JoinBodyKeeps ==
  ASSUME TypeOK, Inv, NEW t \in Threads, JoinBody(t)
  PROVE  Inv'
  <1> USE DEF JoinBody, Goto, objectVars, cpuVars, TypeOK, Inv
  <1>1. Sole(t)
    BY UserAlone
  <1>2. refs[target[t]] # 2 => LastUser(t)
    BY LastUserIs
  <1>3. Alive' /\ Births'
    BY <1>1, <1>2, MainAssumption DEF Alive, Births, Sole, LastUser
  <1>4. Creators'
    BY <1>1, <1>2 DEF Creators, Sole, LastUser
  <1>5. Users'
    BY <1>1, <1>2 DEF Users, Sole, LastUser
  <1>6. \A s, v \in Threads : HoldsSpin(s, v)' => HoldsSpin(s, v)
    BY DEF HoldsSpin
  <1>7. Locks'
    BY <1>6 DEF Locks
  <1>8. Counts'
    BY <1>1, <1>2 DEF Counts, Past, One, Sole, LastUser
  <1>9. Canaries'
    BY <1>1, <1>2 DEF Canaries, Canary, Sole, LastUser
  <1> QED BY <1>3, <1>4, <1>5, <1>7, <1>8, <1>9

\* Its user drops the lock.
LEMMA UserUnlocksKeeps ==
  ASSUME TypeOK, Inv, NEW t \in Threads, DetachUnlock(t) \/ JoinUnlock(t)
  PROVE  Inv'
  <1> USE DEF DetachUnlock, JoinUnlock, DropSpin, Goto, objectVars, cpuVars, TypeOK, Inv
  <1>1. Sole(t)
    BY UserAlone
  <1>2. Alive' /\ Births'
    BY <1>1, MainAssumption DEF Alive, Births, Sole
  <1>3. Creators'
    BY <1>1 DEF Creators, Sole
  <1>4. Users'
    BY <1>1 DEF Users, Sole
  <1>5. \A s, v \in Threads : HoldsSpin(s, v)' => HoldsSpin(s, v) /\ v # target[t]
    BY <1>1 DEF HoldsSpin, Locks, Sole
  <1>6. Locks'
    BY <1>5, <1>1 DEF Locks, Sole
  <1>7. Counts'
    BY <1>1 DEF Counts, Past, One, Sole
  <1>8. Canaries'
    BY <1>1 DEF Canaries, Canary, Sole
  <1> QED BY <1>2, <1>3, <1>4, <1>6, <1>7, <1>8

\* A joiner that waits is still the only user.
LEMMA YieldKeeps ==
  ASSUME TypeOK, Inv, NEW t \in Threads, Yield(t)
  PROVE  Inv'
  <1> USE DEF Yield, Goto, objectVars, cpuVars, TypeOK, Inv
  <1>1. Alive' /\ Births' /\ Creators' /\ Users'
    BY MainAssumption DEF Alive, Births, Creators, Users
  <1>2. Locks'
    BY DEF Locks, HoldsSpin
  <1>3. Counts'
    BY DEF Counts, Past, One
  <1>4. Canaries'
    BY DEF Canaries, Canary
  <1> QED BY <1>1, <1>2, <1>3, <1>4

-----------------------------------------------------------------------------
(***************************************************************************)
(* Types: a count that goes down was not 0.                                *)
(***************************************************************************)

\* No step gives a variable a value that it may not have.
LEMMA TypeKeeps ==
  ASSUME TypeOK, Inv, Next
  PROVE  TypeOK'
  <1> USE DEF TypeOK, Goto, objectVars, cpuVars
  <1> USE DEF Places, BootPlaces, ExitPlaces, HandleStates, Memory
  <1>1. ASSUME NEW t \in Threads, pc[t] \in UserPlaces \cup CreatePlaces
        PROVE  target[t] \in Threads
    BY <1>1 DEF Inv, Users, Creators
  <1>2. \A t \in Threads : Canary(t) \in {Secret, None}
    BY DEF Canary
  <1>3. ASSUME Start
        PROVE  TypeOK'
    <2> USE MainAssumption DEF Start
    <2>1. ASSUME CreateObject(Main, Main), Goto(Main, "boot")
          PROVE  TypeOK'
      BY <1>2, <1>3, <2>1 DEF CreateObject
    <2>2. ASSUME EndProcess, UNCHANGED objectVars
          PROVE  TypeOK'
      BY <1>3, <2>2 DEF EndProcess
    <2> QED BY <1>3, <2>1, <2>2
  <1>4. ASSUME MainReturns \/ ExitGroup
        PROVE  TypeOK'
    BY <1>4, MainAssumption DEF MainReturns, ExitGroup, EndProcess
  <1>5. ASSUME NEW t \in Threads, NEW u \in Threads, Create(t, u)
        PROVE  TypeOK'
    BY <1>2, <1>5 DEF Create, CreateObject
  <1>6. ASSUME NEW t \in Threads, NEW u \in Threads, Detach(t, u) \/ Join(t, u)
        PROVE  TypeOK'
    BY <1>6 DEF Detach, Join, TakeHandle
  <1>7. ASSUME NEW t \in Threads, NEW r \in Results, Exit(t, r)
        PROVE  TypeOK'
    BY <1>7 DEF Exit
  <1>8. ASSUME NEW t \in Threads, AllocStack(t) \/ Clone(t)
        PROVE  TypeOK'
    BY <1>1, <1>8 DEF AllocStack, Clone
  <1>9. ASSUME NEW t \in Threads, EnterSetup(t) \/ SetFS(t) \/ LeaveSetup(t)
        PROVE  TypeOK'
    BY <1>2, <1>9 DEF EnterSetup, SetFS, LeaveSetup, EndProcess
  <1>10. ASSUME NEW t \in Threads, ExitLock(t) \/ ExitUnlock(t) \/ Gone(t)
         PROVE  TypeOK'
    <2>1. ASSUME ExitLock(t)
          PROVE  TypeOK'
      BY <2>1 DEF ExitLock, TakeSpin
    <2>2. ASSUME ExitUnlock(t)
          PROVE  TypeOK'
      BY <2>2 DEF ExitUnlock, DropSpin
    <2>3. ASSUME Gone(t)
          PROVE  TypeOK'
      BY <2>3 DEF Gone
    <2> QED BY <1>10, <2>1, <2>2, <2>3
  <1>11. ASSUME NEW t \in Threads, ExitBody(t)
         PROVE  TypeOK'
    <2>1. obj[t] = "allocated" /\ refs[t] # 0
      BY <1>11 DEF ExitBody, Inv, Births, Counts
    <2> QED BY <1>11, <2>1 DEF ExitBody
  <1>12. ASSUME NEW t \in Threads, DetachLock(t) \/ JoinLock(t)
         PROVE  TypeOK'
    <2>1. target[t] \in Threads
      BY <1>1, <1>12 DEF DetachLock, JoinLock
    <2>2. ASSUME DetachLock(t)
          PROVE  TypeOK'
      BY <2>1, <2>2 DEF DetachLock, TakeSpin
    <2>3. ASSUME JoinLock(t)
          PROVE  TypeOK'
      BY <2>1, <2>3 DEF JoinLock, TakeSpin
    <2> QED BY <1>12, <2>2, <2>3
  <1>13. ASSUME NEW t \in Threads, DetachUnlock(t) \/ JoinUnlock(t)
         PROVE  TypeOK'
    <2>1. target[t] \in Threads
      BY <1>1, <1>13 DEF DetachUnlock, JoinUnlock
    <2>2. ASSUME DetachUnlock(t)
          PROVE  TypeOK'
      BY <2>1, <2>2 DEF DetachUnlock, DropSpin
    <2>3. ASSUME JoinUnlock(t)
          PROVE  TypeOK'
      BY <2>1, <2>3 DEF JoinUnlock, DropSpin
    <2> QED BY <1>13, <2>2, <2>3
  <1>14. ASSUME NEW t \in Threads, Yield(t)
         PROVE  TypeOK'
    BY <1>14 DEF Yield
  <1>15. ASSUME NEW t \in Threads, DetachBody(t)
         PROVE  TypeOK'
    <2>1. target[t] \in Threads /\ refs[target[t]] # 0
      BY <1>15 DEF DetachBody, Inv, Users, Counts
    <2> QED BY <1>15, <2>1 DEF DetachBody
  <1>16. ASSUME NEW t \in Threads, JoinBody(t)
         PROVE  TypeOK'
    BY <1>1, <1>16 DEF JoinBody
  <1> QED BY <1>3, <1>4, <1>5, <1>6, <1>7, <1>8, <1>9, <1>10, <1>11, <1>12, <1>13, <1>14,
             <1>15, <1>16 DEF Next, Proceed
-----------------------------------------------------------------------------
(***************************************************************************)
(* The theorems.                                                           *)
(***************************************************************************)

\* The process is alive and the invariant holds, or all its threads are killed.
LEMMA Invariance == Spec => []IInv
  <1>1. Init => IInv
    <2> USE MainAssumption DEF Init
    <2>1. Init => TypeOK
      BY DEF TypeOK, Places, BootPlaces, HandleStates, Memory
    <2>2. Init => Alive /\ Births /\ Creators /\ Users
      BY DEF Alive, Births, Creators, Users
    <2>3. Init => Locks /\ Counts /\ Canaries
      BY DEF Locks, HoldsSpin, Counts, Canaries
    <2> QED BY <2>1, <2>2, <2>3 DEF IInv, Inv
  <1>2. IInv /\ [Next]_vars => IInv'
    <2> SUFFICES ASSUME IInv, [Next]_vars
                 PROVE  IInv'
      OBVIOUS
    <2>1. CASE UNCHANGED vars
      <3> USE <2>1 DEF vars, objectVars, cpuVars
      <3>1. TypeOK' <=> TypeOK
        BY DEF TypeOK
      <3>2. Killed' <=> Killed
        BY DEF Killed
      <3>3. Inv' <=> Inv
        BY DEF Inv, Alive, Births, Creators, Users, Locks, HoldsSpin, Counts, Canaries
      <3> QED BY <3>1, <3>2, <3>3 DEF IInv
    <2>2. CASE Killed /\ Next
      BY <2>2, MainAssumption
         DEF Killed, Next, Start, MainReturns, ExitGroup, Proceed, AllocStack, Clone, EnterSetup,
             SetFS, LeaveSetup, Exit, ExitLock, ExitBody, ExitUnlock, Gone, Create, Detach, Join,
             TakeHandle, DetachLock, DetachBody, DetachUnlock, JoinLock, JoinBody, JoinUnlock, Yield
    <2>3. CASE TypeOK /\ Inv /\ Next
      <3>1. TypeOK'
        BY <2>3, TypeKeeps
      <3>2. CASE Killed'
        BY <3>1, <3>2 DEF IInv
      <3>3. CASE ~Killed'
        <4>1. ~ExitGroup
          BY <3>3 DEF ExitGroup, EndProcess, Killed
        <4>2. ASSUME Start \/ MainReturns
              PROVE  Inv'
          <5>1. ASSUME Start
                PROVE  Inv'
            BY <2>3, <3>3, <5>1, StartKeeps
          <5>2. ASSUME MainReturns
                PROVE  Inv'
            BY <2>3, <5>2, MainReturnsKeeps
          <5> QED BY <4>2, <5>1, <5>2
        <4>3. ASSUME NEW t \in Threads,
                     ExitLock(t) \/ (\E r \in Results : Exit(t, r))
              PROVE  Inv'
          BY <2>3, <4>3, ExitLockKeeps, ExitKeeps
        <4>4. ASSUME NEW t \in Threads, Proceed(t)
              PROVE  Inv'
          BY <2>3, <3>3, <4>4, AllocStackKeeps, CloneKeeps, SetupKeeps, ExitBodyKeeps,
             ExitUnlockKeeps, GoneKeeps, DetachLockKeeps, DetachBodyKeeps, JoinLockKeeps,
             JoinBodyKeeps, UserUnlocksKeeps, YieldKeeps DEF Proceed
        <4>5. ASSUME NEW t \in Threads, NEW u \in Threads,
                     Create(t, u) \/ Detach(t, u) \/ Join(t, u)
              PROVE  Inv'
          BY <2>3, <4>5, CreateKeeps, TakeHandleKeeps
        <4>6. Inv'
          BY <2>3, <4>1, <4>2, <4>3, <4>4, <4>5 DEF Next
        <4> QED BY <3>1, <4>6 DEF IInv
      <3> QED BY <3>2, <3>3
    <2> QED BY <2>1, <2>2, <2>3 DEF IInv
  <1> QED BY <1>1, <1>2, PTL DEF Spec

\* Every variable keeps its type; no reference count goes below 0.
THEOREM ThreadsTypeCorrect == Spec => []TypeOK
  <1>1. IInv => TypeOK
    BY DEF IInv
  <1> QED BY <1>1, Invariance, PTL

\* The count of a thread object is the number of references that thrd_exit and
\* thrd_detach or thrd_join have not given up.
THEOREM RefsCountHolds == Spec => []RefsCount
  <1>1. IInv => RefsCount
    BY MainAssumption DEF IInv, Inv, Killed, Alive, Counts, Past, RefsCount
  <1> QED BY <1>1, Invariance, PTL

\* thrd_exit, thrd_detach and thrd_join never touch a lock in freed memory, and
\* never free an object or a stack twice.
THEOREM HandleValidHolds == Spec => []HandleValid
  <1>1. IInv => HandleValid
    BY DEF IInv, Inv, Killed, Births, Users, HandleValid
  <1> QED BY <1>1, Invariance, PTL

\* thrd_join gives what the thread returned.
THEOREM JoinGivesResultHolds == Spec => []JoinGivesResult
  <1>1. ASSUME TypeOK, Inv
        PROVE  JoinGivesResult
    <2> SUFFICES ASSUME NEW t \in Threads, pc[t] = "join", refs[target[t]] # 2
                 PROVE  code[target[t]] # None /\ result[target[t]] = code[target[t]]
      BY DEF JoinGivesResult
    <2>1. LastUser(t) /\ Sole(t)
      BY <1>1, LastUserIs, UserAlone
    <2> QED BY <1>1, <2>1 DEF LastUser, Sole, Inv, Counts, Past
  <1>2. Killed => JoinGivesResult
    BY DEF Killed, JoinGivesResult
  <1> QED BY <1>1, <1>2, Invariance, PTL DEF IInv

\* setup_tls returns under the canary that it was entered with.
THEOREM CanaryAgreesHolds == Spec => []CanaryAgrees
  <1>1. IInv => CanaryAgrees
    BY DEF IInv, Inv, TypeOK, Killed, Canaries, CanaryAgrees, Canary
  <1> QED BY <1>1, Invariance, PTL

\* The object of a thread that is gone and whose handle was used is freed.
THEOREM ObjectReclaimedHolds == Spec => []ObjectReclaimed
  <1>1. ASSUME TypeOK, Inv
        PROVE  ObjectReclaimed
    BY <1>1 DEF TypeOK, Inv, Births, Counts, Past, One, ObjectReclaimed, Memory
  <1>2. Killed => ObjectReclaimed
    BY MainAssumption DEF Killed, Alive, ObjectReclaimed
  <1> QED BY <1>1, <1>2, Invariance, PTL DEF IInv
-----------------------------------------------------------------------------
(***************************************************************************)
(* Library and its parts.                                                  *)
(***************************************************************************)
\* Induction up to a bound, as a statement about sets.
LEMMA Upwards ==
  ASSUME NEW b \in Nat, NEW G, 0 \in G, \A d \in 1 .. b : d - 1 \in G => d \in G
  PROVE  0 .. b \subseteq G
<1> DEFINE bad == {d \in Nat : d \in 0 .. b /\ d \notin G}
<1> SUFFICES ASSUME bad # {} PROVE FALSE
  OBVIOUS
<1>1. PICK d \in bad : \A y \in bad : ~(<<y, d>> \in OpToRel(<, Nat))
  BY WFMin, NatLessThanWellFounded
<1>2. d \in 1 .. b /\ d - 1 \notin G
  <2>1. d \in 0 .. b /\ d \notin G
    BY <1>1
  <2>2. d # 0
    BY <2>1
  <2>3. d \in 1 .. b
    BY <2>1, <2>2
  <2> QED
    BY <2>1, <2>3
<1>3. d - 1 \in bad
  BY <1>2
<1>4. <<d - 1, d>> \in OpToRel(<, Nat)
  BY <1>1, <1>3 DEF OpToRel
<1> QED
  BY <1>1, <1>3, <1>4

\* A function that is given by its first value and by a step for each place
\* exists.
Iterates(f, A, x, F, b) ==
  /\ f \in [0 .. b -> A]
  /\ f[0] = x
  /\ \A d \in 1 .. b : f[d] = F[d][f[d - 1]]

LEMMA Steps ==
  ASSUME NEW A, NEW x \in A, NEW b \in Nat, NEW F \in [1 .. b -> [A -> A]]
  PROVE  \E f : Iterates(f, A, x, F, b)
<1> DEFINE G == {e \in Nat : \E f : Iterates(f, A, x, F, e)}
<1>1. 0 \in G
  <2>1. Iterates([d \in 0 .. 0 |-> x], A, x, F, 0)
    BY DEF Iterates
  <2>2. \E f : Iterates(f, A, x, F, 0)
    BY <2>1
  <2> QED
    BY <2>2
<1>2. ASSUME NEW d \in 1 .. b, d - 1 \in G PROVE d \in G
  <2>1. PICK f : Iterates(f, A, x, F, d - 1)
    BY <1>2
  <2> DEFINE more == F[d][f[d - 1]]
             g == [e \in 0 .. d |-> IF e < d THEN f[e] ELSE more]
  <2>2. more \in A
    BY <2>1 DEF Iterates
  <2>3. g \in [0 .. d -> A] /\ g[0] = x /\ g[d] = more
    <3> HIDE DEF more
    <3> QED
      BY <2>1, <2>2 DEF Iterates
  <2>4. ASSUME NEW e \in 1 .. d PROVE g[e] = F[e][g[e - 1]]
    <3>1. CASE e < d
      <4> HIDE DEF more
      <4> QED
        BY <2>1, <3>1 DEF Iterates
    <3>2. CASE e = d
      <4>1. g[e - 1] = f[d - 1]
        BY <3>2
      <4> HIDE DEF g
      <4> QED
        BY <2>3, <3>2, <4>1
    <3> QED
      BY <3>1, <3>2
  <2>5. Iterates(g, A, x, F, d)
    <3> HIDE DEF g
    <3> QED
      BY <2>3, <2>4 DEF Iterates
  <2>6. \E h : Iterates(h, A, x, F, d)
    BY <2>5
  <2> QED
    BY <2>6
<1>3. b \in G
  <2> HIDE DEF G
  <2>1. 0 .. b \subseteq G
    BY <1>1, <1>2, Upwards
  <2> QED
    BY <2>1
<1> QED
  BY <1>3
-----------------------------------------------------------------------------
(***************************************************************************)
(* Lists.  QueueTypeOK and Linked are inductive together: Linked is what   *)
(* makes the stores through next and prev hit the right element.           *)
(***************************************************************************)
QueueInv == QueueTypeOK /\ Linked

LEMMA QueueInvInit == QueueInit => QueueInv
BY ElementsAssumption DEF QueueInit, QueueInv, QueueTypeOK, Linked

LEMMA QueueInvStep == QueueInv /\ [QueueNext]_queueVars => QueueInv'
<1> SUFFICES ASSUME QueueInv, [QueueNext]_queueVars PROVE QueueInv'
  OBVIOUS
<1> USE ElementsAssumption DEF QueueInv, QueueTypeOK
<1>1. ASSUME NEW e \in Elements, InsqueFirst(e) PROVE QueueInv'
  <2>1. QueueTypeOK' BY <1>1 DEF InsqueFirst
  <2>2. Linked' BY <1>1 DEF InsqueFirst, Linked
  <2> QED BY <2>1, <2>2
<1>2. ASSUME NEW e \in Elements, MakeRing(e) PROVE QueueInv'
  <2>1. QueueTypeOK' BY <1>2 DEF MakeRing
  <2>2. Linked' BY <1>2 DEF MakeRing, Linked
  <2> QED BY <2>1, <2>2
<1>3. ASSUME NEW e \in Elements, NEW p \in Elements, Insque(e, p) PROVE QueueInv'
  <2>1. QueueTypeOK' BY <1>3 DEF Insque, SetPrev, Linked
  <2>2. Linked' BY <1>3 DEF Insque, SetPrev, Linked
  <2> QED BY <2>1, <2>2
<1>4. ASSUME NEW e \in Elements, Remque(e) PROVE QueueInv'
  <2>1. QueueTypeOK' BY <1>4 DEF Remque, SetPrev, SetNext, Linked
  <2>2. Linked' BY <1>4 DEF Remque, SetPrev, SetNext, Linked
  <2> QED BY <2>1, <2>2
<1>5. CASE UNCHANGED queueVars
  BY <1>5 DEF queueVars, Linked
<1> QED BY <1>1, <1>2, <1>3, <1>4, <1>5 DEF QueueNext

LEMMA QueueInvHolds == QueueSpec => []QueueInv
BY QueueInvInit, QueueInvStep, PTL DEF QueueSpec

\* The fields of an element in a list have been written, for any elements.
THEOREM QueueTypeCorrect == QueueSpec => []QueueTypeOK
<1>1. QueueInv => QueueTypeOK BY DEF QueueInv
<1> QED BY <1>1, QueueInvHolds, PTL

\* The two pointers of neighbours agree and no removed element is reachable,
\* for any number of elements, lists and calls.
THEOREM LinkedHolds == QueueSpec => []Linked
<1>1. QueueInv => Linked BY DEF QueueInv
<1> QED BY <1>1, QueueInvHolds, PTL
-----------------------------------------------------------------------------
After == [e \in linked |-> next[e]]

LEMMA AfterInit == QueueInit => List!Init
BY DEF QueueInit, List!Init

\* An insertion stores two pointers that Chain sees: the new element's and its
\* predecessor's.
LEMMA InsqueRefines ==
  ASSUME QueueInv, NEW e \in Elements, NEW p \in Elements, Insque(e, p)
  PROVE  List!Insert(e, p)
<1>1. e \notin linked /\ p \in linked /\ linked' = linked \cup {e}
  BY DEF Insque
<1>2. next' = [next EXCEPT ![e] = next[p], ![p] = e] /\ e # p
  BY DEF Insque
<1>3. \A x \in linked' :
        next'[x] = IF x = e THEN next[p] ELSE IF x = p THEN e ELSE next[x]
  BY <1>1, <1>2 DEF QueueInv, QueueTypeOK
<1> QED
  BY <1>1, <1>3 DEF List!Insert, List!Members, QueueInv, QueueTypeOK

\* The element whose next is stored, e->prev, is the one that e follows: this
\* is Linked.  Where e->prev is NoElement, no element leads to e.
LEMMA RemqueRefines ==
  ASSUME QueueInv, NEW e \in Elements, Remque(e)
  PROVE  List!Remove(e)
<1>1. e \in linked /\ linked' = linked \ {e}
  BY DEF Remque
<1>2. \A x \in linked : next[x] = e <=> prev[e] = x
  <2>1. TAKE x \in linked
  <2>2. next[x] = e => prev[e] = x
    BY <1>1, ElementsAssumption DEF QueueInv, QueueTypeOK, Linked
  <2>3. prev[e] = x => next[x] = e
    BY <1>1, ElementsAssumption DEF QueueInv, QueueTypeOK, Linked
  <2> QED BY <2>2, <2>3
<1>3. \A x \in linked' : next'[x] = IF next[x] = e THEN next[e] ELSE next[x]
  <2>1. TAKE x \in linked'
  <2>2. next'[x] = IF x = prev[e] THEN next[e] ELSE next[x]
    BY <1>1 DEF Remque, SetNext, QueueInv, QueueTypeOK
  <2> QED BY <1>1, <1>2, <2>2
<1> QED
  BY <1>1, <1>3 DEF List!Remove, List!Members

LEMMA StepRefines == QueueInv /\ [QueueNext]_queueVars => [List!Next]_After
<1> SUFFICES ASSUME QueueInv, [QueueNext]_queueVars PROVE [List!Next]_After
  OBVIOUS
<1>1. ASSUME NEW e \in Elements, InsqueFirst(e) PROVE List!Line(e)
  BY <1>1 DEF InsqueFirst, List!Line, List!Members, QueueInv, QueueTypeOK
<1>2. ASSUME NEW e \in Elements, MakeRing(e) PROVE List!Ring(e)
  BY <1>2 DEF MakeRing, List!Ring, List!Members, QueueInv, QueueTypeOK
<1>3. CASE UNCHANGED queueVars
  BY <1>3 DEF queueVars, After
<1> QED BY <1>1, <1>2, <1>3, InsqueRefines, RemqueRefines DEF QueueNext, List!Next

\* insque and remque change what follows an element exactly as Chain says, for
\* every set of elements.
THEOREM ImplementsChain == QueueSpec => KeepsChain
<1>1. QueueInv /\ [QueueNext]_queueVars => [List!Next]_[e \in linked |-> next[e]]
  BY StepRefines DEF After
<1> QED BY <1>1, AfterInit, QueueInvHolds, PTL DEF QueueSpec, KeepsChain, List!Spec
-----------------------------------------------------------------------------
(***************************************************************************)
(* Arrays.                                                                 *)
(***************************************************************************)
\* The middle of what is left is one of it.
LEMMA MidInside ==
  ASSUME NEW m \in Nat, NEW n \in Nat, m < n
  PROVE  /\ ((n - m) \div 2) + m \in Nat
         /\ m <= ((n - m) \div 2) + m
         /\ ((n - m) \div 2) + m < n
  BY SMT

\* The items are compared as their ranks.
LEMMA CompIsInt ==
  ASSUME NEW x \in Items, NEW y \in Items
  PROVE  /\ Rank(x) \in Int /\ Rank(y) \in Int
         /\ Comp(x, y) = Rank(x) - Rank(y)
  BY ArraysAssumption DEF Comp

-----------------------------------------------------------------------------
(***************************************************************************)
(* The invariant: a search has not changed the array before it returns;    *)
(* what bsearch has cut off at the left is too small and at the right too  *)
(* large; what lfind has passed is not what is searched.                   *)
(***************************************************************************)
Types ==
  /\ fn \in {"bsearch", "lfind", "lsearch"}
  /\ done \in BOOLEAN
  /\ old.count \in Nat /\ i \in Nat /\ hi \in Nat
  /\ old.arr \in [0 .. old.count -> Items]
  /\ key \in Items

Untouched == ~done => arr = old.arr /\ count = old.count

Narrowed ==
  fn = "bsearch" =>
    /\ Sorted(old.arr, old.count)
    /\ i <= hi /\ hi <= old.count
    /\ \A k \in 0 .. i - 1 : Rank(old.arr[k]) < Rank(key)
    /\ \A k \in hi .. old.count - 1 : Rank(old.arr[k]) > Rank(key)

Passed ==
  fn \in {"lfind", "lsearch"} =>
    /\ i <= old.count
    /\ \A k \in 0 .. i - 1 : Rank(old.arr[k]) # Rank(key)

SearchInv ==
  fn # "qsort" => Types /\ Untouched /\ Narrowed /\ Passed /\ SearchFinds

LEMMA SearchInit == ArraysInit => SearchInv
  <1> SUFFICES ASSUME ArraysInit, fn # "qsort"
               PROVE  Types /\ Untouched /\ Narrowed /\ Passed /\ SearchFinds
      BY DEF SearchInv
  <1>1. count \in Nat
      BY ArraysAssumption DEF ArraysInit
  <1>2. old.count = count /\ old.arr = arr
      BY DEF ArraysInit
  <1>3. Types
      BY <1>1, <1>2 DEF ArraysInit, Types
  <1>4. Untouched
      BY <1>2 DEF Untouched
  <1>5. Narrowed
      BY <1>1, <1>2 DEF ArraysInit, Narrowed
  <1>6. Passed
      BY <1>1, <1>2 DEF ArraysInit, Passed
  <1>7. SearchFinds
      BY DEF ArraysInit, SearchFinds
  <1> QED BY <1>3, <1>4, <1>5, <1>6, <1>7

\* What holds while a search runs, before its next step.
LEMMA SearchRuns ==
  ASSUME SearchInv, fn # "qsort", ~done
  PROVE  /\ Types /\ Narrowed /\ Passed
         /\ arr = old.arr /\ count = old.count
         /\ \A k \in 0 .. count : arr[k] \in Items /\ Rank(arr[k]) \in Int
         /\ Rank(key) \in Int
  BY ArraysAssumption DEF SearchInv, Types, Untouched

\* A step of a loop leaves nothing to show of SearchFinds.
LEMMA SearchGoesOn ==
  ASSUME SearchInv, ArraysNext, fn # "qsort", ~done'
  PROVE  SearchInv'
  <1>1. ~done
      BY DEF ArraysNext, BsearchLeft, BsearchRight, BsearchFound, BsearchFails, LfindNext,
             LfindFound, LfindFails, LsearchEnters, Linear, Running, SortShort, SortCompare,
             SortSplit, SortReturn, Returns
  <1>2. /\ Types /\ Narrowed /\ Passed
        /\ arr = old.arr /\ count = old.count
        /\ \A k \in 0 .. count : arr[k] \in Items /\ Rank(arr[k]) \in Int
        /\ Rank(key) \in Int
      BY <1>1, SearchRuns
  <1>3. SearchFinds'
      BY DEF SearchFinds
  <1>4. CASE BsearchLeft \/ BsearchRight
    <2>1. /\ fn = "bsearch" /\ fn' = fn /\ i < hi
          /\ UNCHANGED <<done, arr, count, key, old>>
        BY <1>4 DEF BsearchLeft, BsearchRight, Running
    <2>2. i \in Nat /\ hi \in Nat /\ old.count \in Nat
        BY <1>2 DEF Types
    <2>3. Mid \in Nat /\ i <= Mid /\ Mid < hi
        BY <2>1, <2>2, MidInside DEF Mid
    <2>4. /\ Sorted(arr, count) /\ i <= hi /\ hi <= count
          /\ \A k \in 0 .. i - 1 : Rank(arr[k]) < Rank(key)
          /\ \A k \in hi .. count - 1 : Rank(arr[k]) > Rank(key)
        BY <1>2, <2>1 DEF Narrowed
    <2>5. Mid \in 0 .. count
        BY <1>2, <2>2, <2>3, <2>4
    <2>6. \A j, k \in 0 .. count - 1 : j < k => Rank(arr[j]) <= Rank(arr[k])
        BY <1>2, <2>2, <2>4 DEF Sorted, Comp
    <2>7. CASE BsearchLeft
      <3>1. hi' = Mid /\ i' = i /\ Rank(arr[Mid]) > Rank(key)
          BY <2>7, <1>2, <2>5 DEF BsearchLeft, Comp
      <3>2. \A k \in Mid .. count - 1 : Rank(arr[k]) > Rank(key)
          BY <1>2, <2>2, <2>3, <2>4, <2>5, <2>6, <3>1
      <3>3. Narrowed'
          BY <1>2, <2>1, <2>2, <2>3, <2>4, <3>1, <3>2 DEF Narrowed
      <3> QED BY <1>2, <1>3, <2>1, <2>2, <2>3, <3>1, <3>3 DEF SearchInv, Types, Untouched, Passed
    <2>8. CASE BsearchRight
      <3>1. hi' = hi /\ i' = Mid + 1 /\ Rank(arr[Mid]) < Rank(key)
          BY <2>8, <1>2, <2>5 DEF BsearchRight, Comp
      <3>2. \A k \in 0 .. Mid : Rank(arr[k]) < Rank(key)
          BY <1>2, <2>2, <2>3, <2>4, <2>5, <2>6, <3>1
      <3>3. Narrowed'
          BY <1>2, <2>1, <2>2, <2>3, <2>4, <3>1, <3>2 DEF Narrowed
      <3> QED BY <1>2, <1>3, <2>1, <2>2, <2>3, <3>1, <3>3 DEF SearchInv, Types, Untouched, Passed
    <2> QED BY <1>4, <2>7, <2>8
  <1>5. CASE LfindNext
    <2>1. /\ fn \in {"lfind", "lsearch"} /\ i < count /\ i' = i + 1
          /\ Comp(key, arr[i]) # 0
          /\ UNCHANGED <<fn, done, arr, count, key, hi, old>>
        BY <1>5 DEF LfindNext, Linear, Running
    <2>2. i \in Nat /\ old.count \in Nat
        BY <1>2 DEF Types
    <2>3. Rank(arr[i]) # Rank(key)
        BY <1>2, <2>1, <2>2 DEF Comp
    <2>4. Passed'
        BY <1>2, <2>1, <2>2, <2>3 DEF Passed
    <2> QED BY <1>2, <1>3, <2>1, <2>2, <2>4 DEF SearchInv, Types, Untouched, Narrowed
  <1> QED
      BY <1>4, <1>5 DEF ArraysNext, BsearchFound, BsearchFails, LfindFound, LfindFails,
                        LsearchEnters, SortShort, SortCompare, SortSplit, SortReturn,
                        Running, Returns

\* The step in which a search returns.
LEMMA SearchReturns ==
  ASSUME SearchInv, ArraysNext, fn # "qsort", done'
  PROVE  SearchInv'
  <1>1. /\ ~done /\ fn' = fn /\ UNCHANGED <<i, hi, key, old>>
      BY DEF ArraysNext, BsearchLeft, BsearchRight, BsearchFound, BsearchFails, LfindNext,
             LfindFound, LfindFails, LsearchEnters, Linear, Running, SortShort, SortCompare,
             SortSplit, SortReturn, Returns
  <1>2. /\ Types /\ Narrowed /\ Passed
        /\ arr = old.arr /\ count = old.count
        /\ \A k \in 0 .. count : arr[k] \in Items /\ Rank(arr[k]) \in Int
        /\ Rank(key) \in Int
      BY <1>1, SearchRuns
  <1>3. i \in Nat /\ hi \in Nat /\ count \in Nat
      BY <1>2 DEF Types
  <1>4. Types' /\ Untouched' /\ Narrowed' /\ Passed'
      BY <1>1, <1>2 DEF Types, Untouched, Narrowed, Passed
  <1>5. ASSUME BsearchFound PROVE SearchFinds'
    <2>1. /\ fn = "bsearch" /\ i < hi /\ Comp(arr[Mid], key) = 0 /\ ret' = Mid
          /\ UNCHANGED <<arr, count>>
        BY <1>5 DEF BsearchFound, Running, Returns
    <2>2. Mid \in Nat /\ Mid < hi /\ hi <= count
        BY <1>2, <1>3, <2>1, MidInside DEF Mid, Narrowed
    <2> QED BY <1>1, <1>2, <1>3, <2>1, <2>2 DEF SearchFinds, Matches, NULL
  <1>6. ASSUME BsearchFails PROVE SearchFinds'
    <2>1. fn = "bsearch" /\ i >= hi /\ ret' = NULL /\ UNCHANGED <<arr, count>>
        BY <1>6 DEF BsearchFails, Running, Returns
    <2>2. \A k \in 0 .. count - 1 : Rank(arr[k]) # Rank(key)
        BY <1>2, <1>3, <2>1 DEF Narrowed
    <2> QED BY <1>1, <1>2, <1>3, <2>1, <2>2 DEF SearchFinds, Matches, Comp
  <1>7. ASSUME LfindFound PROVE SearchFinds'
    <2>1. /\ fn \in {"lfind", "lsearch"} /\ i < count /\ Comp(key, arr[i]) = 0 /\ ret' = i
          /\ UNCHANGED <<arr, count>>
        BY <1>7 DEF LfindFound, Linear, Running, Returns
    <2>2. Rank(arr[i]) = Rank(key)
        BY <1>2, <1>3, <2>1 DEF Comp
    <2>3. \A k \in 0 .. i - 1 : Rank(arr[k]) # Rank(key)
        BY <1>2, <2>1 DEF Passed
    <2> QED BY <1>1, <1>2, <1>3, <2>1, <2>2, <2>3 DEF SearchFinds, Matches, Comp, NULL
  <1>8. ASSUME LfindFails PROVE SearchFinds'
    <2>1. fn = "lfind" /\ i >= count /\ ret' = NULL /\ UNCHANGED <<arr, count>>
        BY <1>8 DEF LfindFails, Running, Returns
    <2>2. \A k \in 0 .. count - 1 : Rank(arr[k]) # Rank(key)
        BY <1>2, <1>3, <2>1 DEF Passed
    <2> QED BY <1>1, <1>2, <1>3, <2>1, <2>2 DEF SearchFinds, Matches, Comp
  <1>9. ASSUME LsearchEnters PROVE SearchFinds'
    <2>1. /\ fn = "lsearch" /\ i >= count /\ ret' = count
          /\ arr' = [arr EXCEPT ![count] = key] /\ count' = count + 1
        BY <1>9 DEF LsearchEnters, Running, Returns
    <2>2. \A k \in 0 .. count - 1 : Rank(arr[k]) # Rank(key)
        BY <1>2, <1>3, <2>1 DEF Passed
    <2>3. arr'[count] = key /\ \A k \in 0 .. count - 1 : arr'[k] = arr[k]
        BY <1>2, <1>3, <2>1 DEF Types
    <2> QED BY <1>1, <1>2, <1>3, <2>1, <2>2, <2>3 DEF SearchFinds, Matches, Comp, NULL
  <1>10. SearchFinds'
    <2>1. BsearchFound \/ BsearchFails \/ LfindFound \/ LfindFails \/ LsearchEnters
        BY <1>1 DEF ArraysNext, BsearchLeft, BsearchRight, LfindNext, SortShort, SortCompare,
                    SortSplit, SortReturn, Running
    <2> QED BY <2>1, <1>5, <1>6, <1>7, <1>8, <1>9
  <1> QED BY <1>1, <1>4, <1>10 DEF SearchInv

LEMMA SearchStep == SearchInv /\ [ArraysNext]_arrayVars => SearchInv'
  <1> SUFFICES ASSUME SearchInv, [ArraysNext]_arrayVars PROVE SearchInv'
      OBVIOUS
  <1>1. CASE UNCHANGED arrayVars
      BY <1>1 DEF arrayVars, SearchInv, Types, Untouched, Narrowed, Passed, SearchFinds, Matches
  <1>2. CASE ArraysNext /\ fn = "qsort"
    <2>1. fn' = "qsort"
        BY <1>2 DEF ArraysNext, BsearchLeft, BsearchRight, BsearchFound, BsearchFails,
                    LfindNext, LfindFound, LfindFails, LsearchEnters, Linear, Running,
                    SortShort, SortCompare, SortSplit, SortReturn, Returns
    <2> QED BY <2>1 DEF SearchInv
  <1> QED BY <1>1, <1>2, SearchGoesOn, SearchReturns

\* bsearch, lfind and lsearch find an item if and only if there is one, and
\* leave the array as it was but for what lsearch enters (stdlib.c, search.c).
THEOREM SearchFindsHolds == ArraysSpec => []SearchFinds
  <1>1. SearchInv => SearchFinds
      BY DEF SearchInv, SearchFinds
  <1> QED BY SearchInit, SearchStep, <1>1, PTL DEF ArraysSpec
-----------------------------------------------------------------------------
(***************************************************************************)
(* The invariant of qsort: the ranges on the stack lie apart, the one that *)
(* is sorted next at the left; two items that are not in one range are in  *)
(* order already; the partition has put the smaller ones at the left; and  *)
(* items have only changed places.                                         *)
(***************************************************************************)
In(r) == ranges[r][1] .. ranges[r][1] + ranges[r][2] - 1
Together(j, k) == \E r \in DOMAIN ranges : j \in In(r) /\ k \in In(r)

SortTypes ==
  /\ done \in BOOLEAN
  /\ count \in Nat /\ i \in Nat /\ right \in Nat
  /\ arr \in [0 .. count -> Items]
  /\ ranges \in Seq(Nat \X Nat)

RangesApart ==
  /\ \A r \in DOMAIN ranges : ranges[r][1] + ranges[r][2] <= count
  /\ \A r, s \in DOMAIN ranges : r < s => ranges[s][1] + ranges[s][2] <= ranges[r][1]

Settled ==
  \A j, k \in 0 .. count - 1 : j < k /\ ~Together(j, k) => Rank(arr[j]) <= Rank(arr[k])

Parted ==
  ranges # <<>> =>
    /\ Top[1] <= right /\ right <= i
    /\ Top[2] > 1 => i <= Pivot
    /\ \A k \in Top[1] .. right - 1 : Rank(arr[k]) < Rank(arr[Pivot])
    /\ \A k \in right .. i - 1 : Rank(arr[k]) >= Rank(arr[Pivot])

SameItems ==
  /\ \A x \in Items : Times(x, arr, count) = Times(x, old.arr, count)
  /\ arr[count] = old.arr[count]

SortInv ==
  fn = "qsort" =>
    /\ SortTypes /\ RangesApart /\ Settled /\ Parted /\ SameItems
    /\ done => ranges = <<>>

\* A swap exchanges two items.
LEMMA SwapIs ==
  ASSUME NEW n \in Nat, NEW a \in [0 .. n -> Items], NEW l \in 0 .. n, NEW m \in 0 .. n
  PROVE  /\ Swap(a, l, m) \in [0 .. n -> Items]
         /\ Swap(a, l, m)[l] = a[m] /\ Swap(a, l, m)[m] = a[l]
         /\ \A k \in 0 .. n \ {l, m} : Swap(a, l, m)[k] = a[k]
  BY DEF Swap

\* No item is lost or doubled by it: where an item is, and where it was, are
\* as many places.
LEMMA SwapKeepsItems ==
  ASSUME NEW n \in Nat, NEW a \in [0 .. n -> Items], NEW l \in 0 .. n - 1,
         NEW m \in 0 .. n - 1, NEW x
  PROVE  Times(x, Swap(a, l, m), n) = Times(x, a, n)
  <1> DEFINE b == Swap(a, l, m)
             B == {k \in 0 .. n - 1 : b[k] = x}
             A == {k \in 0 .. n - 1 : a[k] = x}
             f == [k \in B |-> IF k = l THEN m ELSE IF k = m THEN l ELSE k]
  <1>1. b[l] = a[m] /\ b[m] = a[l] /\ \A k \in 0 .. n - 1 \ {l, m} : b[k] = a[k]
    <2>1. l \in 0 .. n /\ m \in 0 .. n /\ 0 .. n - 1 \subseteq 0 .. n
        OBVIOUS
    <2> QED BY <2>1, SwapIs
  <1> HIDE DEF b
  <1>2. f \in [B -> A] /\ \A j, k \in B : f[j] = f[k] => j = k
      BY <1>1
  <1>3. \A k \in A : \E j \in B : f[j] = k
    <2> SUFFICES ASSUME NEW k \in A PROVE \E j \in B : f[j] = k
        OBVIOUS
    <2>1. CASE k = l
        BY <1>1, <2>1
    <2>2. CASE k = m
        BY <1>1, <2>2
    <2>3. CASE k \notin {l, m}
        BY <1>1, <2>3
    <2> QED BY <2>1, <2>2, <2>3
  <1>4. f \in Bijection(B, A)
      BY <1>2, <1>3, Fun_IsBij
  <1>5. IsFiniteSet(B)
    <2>1. IsFiniteSet(0 .. n - 1) /\ B \in SUBSET (0 .. n - 1)
        BY FS_Interval
    <2> QED BY <2>1, FS_Subset
  <1>6. Cardinality(A) = Cardinality(B)
      BY <1>4, <1>5, FS_Bijection DEF ExistsBijection
  <1> QED BY <1>6 DEF Times, b

LEMMA SortInit == ArraysInit => SortInv
  <1> SUFFICES ASSUME ArraysInit, fn = "qsort" PROVE SortInv
      BY DEF SortInv
  <1>1. /\ count \in Nat /\ ranges = << <<0, count>> >> /\ i = 0 /\ right = 0
        /\ arr \in [0 .. count -> Items] /\ old.arr = arr /\ done = FALSE
      BY ArraysAssumption DEF ArraysInit
  <1>2. DOMAIN ranges = {1} /\ Len(ranges) = 1 /\ ranges[1] = <<0, count>>
      BY <1>1
  <1>3. SortTypes
    <2>1. <<0, count>> \in Nat \X Nat
        BY <1>1
    <2>2. ranges \in Seq(Nat \X Nat)
        BY <1>1, <2>1
    <2> QED BY <1>1, <2>2 DEF SortTypes
  <1>4. RangesApart
      BY <1>1, <1>2 DEF RangesApart
  <1>5. Settled
      BY <1>1, <1>2 DEF Settled, Together, In
  <1>6. Parted
      BY <1>1, <1>2 DEF Parted, Top, Pivot
  <1>7. SameItems
      BY <1>1 DEF SameItems
  <1> QED BY <1>1, <1>3, <1>4, <1>5, <1>6, <1>7 DEF SortInv

\* The range that is sorted next, and those behind it.
LEMMA TopAndRest ==
  ASSUME SortTypes, RangesApart, ranges # <<>>
  PROVE  /\ Len(ranges) \in DOMAIN ranges /\ DOMAIN ranges = 1 .. Len(ranges)
         /\ Top[1] \in Nat /\ Top[2] \in Nat /\ Top[1] + Top[2] <= count
         /\ In(Len(ranges)) = Top[1] .. Pivot
         /\ Rest \in Seq(Nat \X Nat) /\ DOMAIN Rest = 1 .. Len(ranges) - 1
         /\ Len(Rest) = Len(ranges) - 1
         /\ \A r \in DOMAIN Rest : /\ Rest[r] = ranges[r] /\ r \in DOMAIN ranges
                                   /\ Top[1] + Top[2] <= ranges[r][1]
                                   /\ ranges[r][1] \in Nat /\ ranges[r][2] \in Nat
  <1>1. /\ Len(ranges) \in Nat \ {0} /\ DOMAIN ranges = 1 .. Len(ranges)
        /\ \A r \in 1 .. Len(ranges) : ranges[r] \in Nat \X Nat
      BY DEF SortTypes
  <1>2. /\ Rest \in Seq(Nat \X Nat) /\ Len(Rest) = Len(ranges) - 1
        /\ DOMAIN Rest = 1 .. Len(ranges) - 1
        /\ \A r \in 1 .. Len(ranges) - 1 : Rest[r] = ranges[r]
      BY <1>1 DEF SortTypes, Rest
  <1>3. /\ Len(ranges) \in DOMAIN ranges /\ Top = ranges[Len(ranges)]
        /\ Top[1] \in Nat /\ Top[2] \in Nat
        /\ In(Len(ranges)) = Top[1] .. Pivot
      BY <1>1 DEF Top, In, Pivot
  <1>4. ASSUME NEW r \in 1 .. Len(ranges) - 1
        PROVE  /\ r \in DOMAIN ranges /\ r < Len(ranges)
               /\ ranges[r][1] \in Nat /\ ranges[r][2] \in Nat
      BY <1>1
  <1> QED BY <1>1, <1>2, <1>3, <1>4 DEF RangesApart

\* The innermost call starts with an empty partition.
LEMMA EnterParts ==
  ASSUME NEW s \in Seq(Nat \X Nat), Enter(s)
  PROVE  Parted' /\ i' \in Nat /\ right' \in Nat /\ ranges' \in Seq(Nat \X Nat)
  <1>1. CASE s = <<>>
      BY <1>1 DEF Enter, Parted
  <1>2. CASE s # <<>>
    <2>1. s[Len(s)] \in Nat \X Nat
        BY <1>2
    <2>2. PICK lo \in Nat, size \in Nat : s[Len(s)] = <<lo, size>>
      <3>1. \A x \in Nat \X Nat : \E lo, size \in Nat : x = <<lo, size>>
          OBVIOUS
      <3> QED BY <2>1, <3>1
    <2>3. ranges' = s /\ i' = lo /\ right' = lo
        BY <1>2, <2>2 DEF Enter
    <2>4. Top'[1] = lo /\ Top'[2] = size
        BY <2>2, <2>3 DEF Top
    <2>5. size > 1 => lo <= Pivot'
        BY <2>2, <2>4 DEF Pivot
    <2>6. Parted'
        BY <2>2, <2>3, <2>4, <2>5 DEF Parted
    <2> QED BY <2>2, <2>3, <2>6
  <1> QED BY <1>1, <1>2

\* No other range has a place of the one that is sorted next.
LEMMA TopAlone ==
  ASSUME SortTypes, RangesApart, ranges # <<>>,
         NEW x \in Top[1] .. Pivot, NEW r \in DOMAIN ranges, x \in In(r)
  PROVE  r = Len(ranges)
  <1>1. Top[1] \in Nat /\ Top[2] \in Nat /\ x < Top[1] + Top[2]
      BY TopAndRest DEF Pivot
  <1>2. ASSUME r # Len(ranges) PROVE FALSE
    <2>1. r \in DOMAIN Rest
      <3>1. Len(ranges) \in Nat
          BY DEF SortTypes
      <3>2. r \in 1 .. Len(ranges) /\ DOMAIN Rest = 1 .. Len(ranges) - 1
          BY TopAndRest
      <3> QED BY <1>2, <3>1, <3>2
    <2>2. Top[1] + Top[2] <= ranges[r][1] /\ ranges[r][1] \in Nat /\ ranges[r][2] \in Nat
        BY <2>1, TopAndRest
    <2> QED BY <1>1, <2>2 DEF In
  <1> QED BY <1>2

\* Items that change places within the range that is sorted next are in order
\* with all others as they were.
LEMMA SwapSettled ==
  ASSUME SortTypes, RangesApart, Settled, ranges # <<>>,
         NEW lo, NEW p, lo = Top[1], p = Pivot, NEW l \in lo .. p, NEW m \in lo .. p,
         NEW j \in 0 .. count - 1, NEW k \in 0 .. count - 1, j < k, ~Together(j, k)
  PROVE  Rank(Swap(arr, l, m)[j]) <= Rank(Swap(arr, l, m)[k])
  <1>1. /\ lo \in Nat /\ p \in Int /\ p < count /\ count \in Nat
        /\ In(Len(ranges)) = lo .. p /\ Len(ranges) \in DOMAIN ranges
    <2>1. /\ Top[1] \in Nat /\ Top[2] \in Nat /\ Top[1] + Top[2] <= count
          /\ In(Len(ranges)) = lo .. p /\ Len(ranges) \in DOMAIN ranges
        BY TopAndRest
    <2>2. count \in Nat
        BY DEF SortTypes
    <2>3. \A x, y, z \in Nat : x + y <= z => x + y - 1 \in Int /\ x + y - 1 < z
        OBVIOUS
    <2> QED BY <2>1, <2>2, <2>3 DEF Pivot
  <1>2. ASSUME NEW x \in 0 .. count - 1
        PROVE  \E y \in 0 .. count - 1 :
                 /\ Swap(arr, l, m)[x] = arr[y]
                 /\ IF x \in lo .. p THEN y \in lo .. p ELSE y = x
    <2>1. l \in 0 .. count - 1 /\ m \in 0 .. count - 1
        BY <1>1
    <2>2. count \in Nat /\ l \in 0 .. count /\ m \in 0 .. count
        BY <1>1, <2>1
    <2>3. arr \in [0 .. count -> Items]
        BY DEF SortTypes
    <2>4. /\ Swap(arr, l, m)[l] = arr[m] /\ Swap(arr, l, m)[m] = arr[l]
          /\ \A y \in 0 .. count \ {l, m} : Swap(arr, l, m)[y] = arr[y]
        BY <2>2, <2>3, SwapIs
    <2>5. CASE x = l
        BY <2>1, <2>4, <2>5
    <2>6. CASE x = m
        BY <2>1, <2>4, <2>6
    <2>7. CASE x \notin {l, m}
      <3>1. x \in 0 .. count \ {l, m}
          BY <1>1, <2>7
      <3> QED BY <2>4, <3>1
    <2> QED BY <2>5, <2>6, <2>7
  <1>3. PICK y \in 0 .. count - 1 :
          Swap(arr, l, m)[j] = arr[y] /\ IF j \in lo .. p THEN y \in lo .. p ELSE y = j
      BY <1>2
  <1>4. PICK z \in 0 .. count - 1 :
          Swap(arr, l, m)[k] = arr[z] /\ IF k \in lo .. p THEN z \in lo .. p ELSE z = k
      BY <1>2
  <1>5. ~(j \in lo .. p /\ k \in lo .. p)
      BY <1>1 DEF Together
  <1>6. y < z
    <2>1. j \in Int /\ k \in Int /\ y \in Int /\ z \in Int
        BY <1>1, <1>3, <1>4
    <2> QED BY <1>1, <1>3, <1>4, <1>5, <2>1
  <1>7. ~Together(y, z)
    <2> SUFFICES ASSUME NEW r \in DOMAIN ranges, y \in In(r), z \in In(r)
                 PROVE  FALSE
        BY DEF Together
    <2>1. CASE y \in lo .. p \/ z \in lo .. p
      <3>1. r = Len(ranges)
          BY <2>1, TopAlone
      <3> QED BY <1>1, <1>3, <1>4, <1>5, <3>1
    <2>2. CASE y \notin lo .. p /\ z \notin lo .. p
        BY <1>3, <1>4, <2>2 DEF Together
    <2> QED BY <2>1, <2>2
  <1> QED BY <1>3, <1>4, <1>6, <1>7 DEF Settled

\* The item that is looked at, as the places of the range are numbered.
LEMMA Partition ==
  ASSUME SortInv, fn = "qsort", ranges # <<>>, Top[2] > 1
  PROVE  /\ Top[1] \in Nat /\ Top[2] \in Nat /\ Top[1] <= right /\ right <= i /\ i <= Pivot
         /\ Pivot = Top[1] + Top[2] - 1 /\ Pivot < count
         /\ Pivot \in Nat /\ right \in Nat /\ i \in Nat /\ count \in Nat
         /\ arr \in [0 .. count -> Items]
         /\ \A k \in 0 .. count : Rank(arr[k]) \in Int
  <1>1. /\ SortTypes /\ RangesApart /\ Parted
      BY DEF SortInv
  <1>2. Top[1] \in Nat /\ Top[2] \in Nat /\ Top[1] + Top[2] <= count
      BY <1>1, TopAndRest
  <1>3. \A k \in 0 .. count : Rank(arr[k]) \in Int
      BY <1>1, ArraysAssumption DEF SortTypes
  <1>4. /\ count \in Nat /\ i \in Nat /\ right \in Nat
        /\ arr \in [0 .. count -> Items]
      BY <1>1 DEF SortTypes
  <1>5. Pivot = Top[1] + Top[2] - 1 /\ Pivot < count /\ Pivot \in Nat
      BY <1>2, <1>4 DEF Pivot
  <1> QED BY <1>1, <1>2, <1>3, <1>4, <1>5 DEF Parted

\* A swap within the range that is sorted next keeps the items.
LEMMA SwapSame ==
  ASSUME SortTypes, SameItems, NEW l \in 0 .. count - 1, NEW m \in 0 .. count - 1,
         arr' = Swap(arr, l, m), UNCHANGED <<count, old>>
  PROVE  SameItems' /\ arr' \in [0 .. count -> Items]
  <1>1. count \in Nat /\ arr \in [0 .. count -> Items]
      BY DEF SortTypes
  <1>2. arr' \in [0 .. count -> Items] /\ arr'[count] = arr[count]
      BY <1>1, SwapIs
  <1>3. \A x \in Items : Times(x, arr', count) = Times(x, arr, count)
      BY <1>1, SwapKeepsItems
  <1> QED BY <1>2, <1>3 DEF SameItems

LEMMA SortShortStep ==
  ASSUME SortInv, SortShort
  PROVE  SortInv'
  <1>1. /\ fn = "qsort" /\ ~done /\ ranges # <<>> /\ Top[2] <= 1 /\ Enter(Rest)
        /\ ranges' = Rest
        /\ UNCHANGED <<fn, done, arr, count, old>>
      BY DEF SortShort, Running, Enter
  <1>2. SortTypes /\ RangesApart /\ Settled /\ SameItems
      BY <1>1 DEF SortInv
  <1>3. Parted' /\ i' \in Nat /\ right' \in Nat /\ ranges' \in Seq(Nat \X Nat)
      BY <1>1, <1>2, TopAndRest, EnterParts
  <1>4. SortTypes'
      BY <1>1, <1>2, <1>3 DEF SortTypes
  <1>5. RangesApart'
      BY <1>1, <1>2, TopAndRest DEF RangesApart
  <1>6. Settled'
    <2> SUFFICES ASSUME NEW j \in 0 .. count - 1, NEW k \in 0 .. count - 1, j < k, Together(j, k)
                 PROVE  Together(j, k)'
        BY <1>1, <1>2 DEF Settled
    <2>1. PICK r \in DOMAIN ranges : j \in In(r) /\ k \in In(r)
        BY DEF Together
    <2>2. r # Len(ranges)
      <3>1. In(Len(ranges)) = Top[1] .. Pivot /\ Top[1] \in Nat /\ Top[2] \in Nat
          BY <1>1, <1>2, TopAndRest
      <3>2. \A lo, size \in Nat : size <= 1 /\ j \in lo .. lo + size - 1
              => k \notin lo .. lo + size - 1
          OBVIOUS
      <3> QED BY <1>1, <2>1, <3>1, <3>2 DEF Pivot
    <2>3. r \in DOMAIN Rest
      <3>1. r \in 1 .. Len(ranges) /\ DOMAIN Rest = 1 .. Len(ranges) - 1
          BY <1>1, <1>2, <2>1, TopAndRest
      <3>2. Len(ranges) \in Nat
          BY <1>2 DEF SortTypes
      <3> QED BY <2>2, <3>1, <3>2
    <2>4. Rest[r] = ranges[r]
        BY <1>1, <1>2, <2>3, TopAndRest
    <2> QED BY <1>1, <2>1, <2>3, <2>4 DEF Together, In
  <1>7. SameItems'
      BY <1>1, <1>2 DEF SameItems
  <1> QED BY <1>1, <1>3, <1>4, <1>5, <1>6, <1>7 DEF SortInv

\* One item more of a range lo .. p with the pivot at p: a smaller one goes to
\* the end of the smaller ones, m.
LEMMA OneMore ==
  ASSUME NEW n \in Nat, NEW a \in [0 .. n -> Items], NEW lo \in Nat, NEW m \in Nat,
         NEW q \in Nat, NEW p \in Nat, lo <= m, m <= q, q < p, p < n,
         \A k \in lo .. m - 1 : Rank(a[k]) < Rank(a[p]),
         \A k \in m .. q - 1 : Rank(a[k]) >= Rank(a[p]),
         Rank(a[q]) < Rank(a[p]),
         NEW b, b = Swap(a, q, m)
  PROVE  /\ \A k \in lo .. m : Rank(b[k]) < Rank(b[p])
         /\ \A k \in m + 1 .. q : Rank(b[k]) >= Rank(b[p])
  <1>1. q \in 0 .. n /\ m \in 0 .. n /\ p \in 0 .. n \ {q, m}
      OBVIOUS
  <1>2. b[q] = a[m] /\ b[m] = a[q] /\ \A x \in 0 .. n \ {q, m} : b[x] = a[x]
      BY <1>1, SwapIs
  <1>3. b[p] = a[p]
      BY <1>1, <1>2
  <1>4. ASSUME NEW k \in lo .. m PROVE Rank(b[k]) < Rank(a[p])
    <2>1. CASE k = m
        BY <1>2, <2>1
    <2>2. CASE k \in lo .. m - 1
      <3>1. k \in 0 .. n \ {q, m}
          BY <2>2
      <3> QED BY <1>2, <2>2, <3>1
    <2> QED BY <1>4, <2>1, <2>2
  <1>5. ASSUME NEW k \in m + 1 .. q PROVE Rank(b[k]) >= Rank(a[p])
    <2>1. CASE k = q
      <3>1. m \in m .. q - 1
          BY <1>5, <2>1
      <3> QED BY <1>2, <2>1, <3>1
    <2>2. CASE k \in m + 1 .. q - 1
      <3>1. k \in 0 .. n \ {q, m} /\ k \in m .. q - 1
          BY <2>2
      <3> QED BY <1>2, <3>1
    <2> QED BY <1>5, <2>1, <2>2
  <1> QED BY <1>3, <1>4, <1>5

LEMMA SortCompareStep ==
  ASSUME SortInv, SortCompare
  PROVE  SortInv'
  <1>1. /\ fn = "qsort" /\ ~done /\ ranges # <<>> /\ Top[2] > 1 /\ i < Pivot /\ i' = i + 1
        /\ UNCHANGED <<fn, done, count, old, ranges>>
      BY DEF SortCompare, Running
  <1>2. SortTypes /\ RangesApart /\ Settled /\ Parted /\ SameItems
      BY <1>1 DEF SortInv
  <1>3. PICK lo \in Nat, m \in Nat, q \in Nat, p \in Nat :
          lo = Top[1] /\ m = right /\ q = i /\ p = Pivot
      BY <1>1, Partition
  <1>4. /\ lo \in Nat /\ m \in Nat /\ q \in Nat /\ p \in Nat /\ count \in Nat
        /\ lo <= m /\ m <= q /\ q < p /\ p < count
        /\ arr \in [0 .. count -> Items]
        /\ Comp(arr[q], arr[p]) = Rank(arr[q]) - Rank(arr[p])
        /\ Rank(arr[q]) \in Int /\ Rank(arr[p]) \in Int
    <2>1. /\ lo <= m /\ m <= q /\ q < p /\ p < count /\ count \in Nat
          /\ arr \in [0 .. count -> Items]
        BY <1>1, <1>3, Partition
    <2>2. arr[q] \in Items /\ arr[p] \in Items
        BY <1>3, <2>1
    <2> QED BY <1>3, <2>1, <2>2, CompIsInt
  <1>5. /\ Top' = Top /\ Pivot' = Pivot /\ RangesApart'
        /\ \A j, k : Together(j, k)' <=> Together(j, k)
      BY <1>1, <1>2 DEF Top, Pivot, RangesApart, Together, In
  <1>6. /\ \A k \in lo .. m - 1 : Rank(arr[k]) < Rank(arr[p])
        /\ \A k \in m .. q - 1 : Rank(arr[k]) >= Rank(arr[p])
      BY <1>1, <1>2, <1>3 DEF Parted
  <1>7. CASE Rank(arr[q]) < Rank(arr[p])
    <2>1. Comp(arr[q], arr[p]) < 0
        BY <1>4, <1>7
    <2>2. arr' = Swap(arr, q, m) /\ right' = m + 1
        BY <1>3, <2>1 DEF SortCompare
    <2>3. q \in lo .. p /\ m \in lo .. p /\ q \in 0 .. count - 1 /\ m \in 0 .. count - 1
        BY <1>4
    <2>4. SameItems' /\ arr' \in [0 .. count -> Items]
        BY <1>1, <1>2, <2>2, <2>3, SwapSame
    <2>5. SortTypes'
      <3>1. i' \in Nat /\ right' \in Nat
          BY <1>1, <1>3, <1>4, <2>2
      <3> QED BY <1>1, <1>2, <2>4, <3>1 DEF SortTypes
    <2>6. Settled'
      <3> SUFFICES ASSUME NEW j \in 0 .. count - 1, NEW k \in 0 .. count - 1, j < k,
                          ~Together(j, k)
                   PROVE  Rank(arr'[j]) <= Rank(arr'[k])
          BY <1>1, <1>5 DEF Settled
      <3> QED BY <1>1, <1>2, <1>3, <2>2, <2>3, SwapSettled
    <2>7. PICK b : b = arr'
        OBVIOUS
    <2>8. /\ \A k \in lo .. m : Rank(b[k]) < Rank(b[p])
          /\ \A k \in m + 1 .. q : Rank(b[k]) >= Rank(b[p])
        BY <1>4, <1>6, <1>7, <2>2, <2>7, OneMore
    <2>9. lo <= m + 1 /\ m + 1 <= q + 1 /\ q + 1 <= p /\ m + 1 - 1 = m /\ q + 1 - 1 = q
        BY <1>4
    <2>10. i' = q + 1 /\ Top'[1] = lo /\ Pivot' = p
        BY <1>1, <1>3, <1>5
    <2>11. Parted'
        BY <2>2, <2>7, <2>8, <2>9, <2>10 DEF Parted
    <2> QED BY <1>1, <1>5, <2>4, <2>5, <2>6, <2>11 DEF SortInv
  <1>8. CASE Rank(arr[q]) >= Rank(arr[p])
    <2>1. ~(Comp(arr[q], arr[p]) < 0)
        BY <1>4, <1>8
    <2>2. arr' = arr /\ right' = right
        BY <1>3, <2>1 DEF SortCompare
    <2>3. SortTypes' /\ SameItems'
      <3>1. i' \in Nat
          BY <1>1, <1>3, <1>4
      <3> QED BY <1>1, <1>2, <2>2, <3>1 DEF SortTypes, SameItems
    <2>4. Settled'
        BY <1>1, <1>2, <1>5, <2>2 DEF Settled
    <2>5. \A k \in m .. q : Rank(arr[k]) >= Rank(arr[p])
      <3>1. \A k \in m .. q : k = q \/ k \in m .. q - 1
          BY <1>4
      <3> QED BY <1>6, <1>8, <3>1
    <2>6. lo <= m /\ m <= q + 1 /\ q + 1 <= p /\ q + 1 - 1 = q
        BY <1>4
    <2>7. i' = q + 1 /\ right' = m /\ Top'[1] = lo /\ Pivot' = p
        BY <1>1, <1>3, <1>5, <2>2
    <2>8. Parted'
        BY <1>6, <2>2, <2>5, <2>6, <2>7 DEF Parted
    <2> QED BY <1>1, <1>5, <2>3, <2>4, <2>8 DEF SortInv
  <1> QED BY <1>4, <1>7, <1>8

\* The stack after a split, which puts the right side under the left one.
LEMMA PushTwo ==
  ASSUME NEW S, NEW s \in Seq(S), NEW n \in Nat, Len(s) = n + 1, NEW a \in S, NEW b \in S,
         NEW t, t = SubSeq(s, 1, n) \o <<a, b>>
  PROVE  /\ t \in Seq(S) /\ DOMAIN t = 1 .. n + 2
         /\ \A r \in 1 .. n : t[r] = s[r]
         /\ t[n + 1] = a /\ t[n + 2] = b
  <1> DEFINE front == SubSeq(s, 1, n)
             two == <<a, b>>
  <1>1. front \in Seq(S) /\ Len(front) = n /\ \A r \in 1 .. n : front[r] = s[r]
    <2>1. \A r \in 1 .. n : s[r] \in S
        OBVIOUS
    <2>2. /\ front \in Seq(S) /\ Len(front) = IF 1 <= n THEN n - 1 + 1 ELSE 0
          /\ \A r \in 1 .. n - 1 + 1 : front[r] = s[1 + r - 1]
        BY <2>1, SubSeqProperties
    <2> HIDE DEF front
    <2>3. n - 1 + 1 = n /\ \A r \in 1 .. n : 1 + r - 1 = r
        OBVIOUS
    <2> QED BY <2>2, <2>3
  <1>2. two \in Seq(S) /\ Len(two) = 2 /\ two[1] = a /\ two[2] = b
      OBVIOUS
  <1>3. t = front \o two
      OBVIOUS
  <1> HIDE DEF front, two
  <1>4. /\ t \in Seq(S) /\ Len(t) = n + 2
        /\ \A r \in 1 .. n + 2 : t[r] = IF r <= n THEN front[r] ELSE two[r - n]
      BY <1>1, <1>2, <1>3, ConcatProperties
  <1>5. \A r \in 1 .. n : t[r] = s[r]
      BY <1>1, <1>4
  <1>6. t[n + 1] = two[n + 1 - n] /\ t[n + 2] = two[n + 2 - n]
      BY <1>4
  <1>7. n + 1 - n = 1 /\ n + 2 - n = 2
      OBVIOUS
  <1>8. DOMAIN t = 1 .. n + 2
      BY <1>4
  <1>9. t[n + 1] = a /\ t[n + 2] = b
      BY <1>2, <1>6, <1>7
  <1> QED BY <1>4, <1>5, <1>8, <1>9

\* A range lo .. p with the pivot at p and the larger items from m on, once
\* the pivot is at m.
LEMMA PivotBetween ==
  ASSUME NEW n \in Nat, NEW a \in [0 .. n -> Items],
         NEW lo \in Nat, NEW m \in Nat, NEW p \in Nat, lo <= m, m <= p, p < n,
         \A k \in lo .. m - 1 : Rank(a[k]) < Rank(a[p]),
         \A k \in m .. p - 1 : Rank(a[k]) >= Rank(a[p]),
         NEW j \in lo .. m, NEW k \in m .. p
  PROVE  Rank(Swap(a, m, p)[j]) <= Rank(Swap(a, m, p)[k])
  <1> DEFINE b == Swap(a, m, p)
  <1>1. m \in 0 .. n /\ p \in 0 .. n
      OBVIOUS
  <1>2. b[m] = a[p] /\ b[p] = a[m] /\ \A x \in 0 .. n \ {m, p} : b[x] = a[x]
      BY <1>1, SwapIs
  <1> HIDE DEF b
  <1>3. \A x \in 0 .. n : Rank(a[x]) \in Int
      BY ArraysAssumption
  <1>4. Rank(b[j]) <= Rank(a[p])
    <2>1. CASE j = m
        BY <1>1, <1>2, <1>3, <2>1
    <2>2. CASE j \in lo .. m - 1
      <3>1. j \in 0 .. n \ {m, p}
          BY <2>2
      <3> QED BY <1>1, <1>2, <1>3, <2>2, <3>1
    <2> QED BY <2>1, <2>2
  <1>5. Rank(b[k]) >= Rank(a[p])
    <2>1. CASE k = m
        BY <1>1, <1>2, <1>3, <2>1
    <2>2. CASE k = p /\ k # m
      <3>1. m \in m .. p - 1
          BY <2>2
      <3> QED BY <1>2, <2>2, <3>1
    <2>3. CASE k \in m + 1 .. p - 1
      <3>1. k \in 0 .. n \ {m, p} /\ k \in m .. p - 1
          BY <2>3
      <3> QED BY <1>2, <3>1
    <2> QED BY <2>1, <2>2, <2>3
  <1>6. Rank(b[j]) \in Int /\ Rank(b[k]) \in Int /\ Rank(a[p]) \in Int
    <2>1. j \in 0 .. n /\ k \in 0 .. n /\ b \in [0 .. n -> Items]
        BY <1>1, SwapIs DEF b
    <2> QED BY <1>1, <1>3, <2>1, ArraysAssumption
  <1>7. Rank(b[j]) <= Rank(b[k])
      BY <1>4, <1>5, <1>6
  <1> QED BY <1>7 DEF b

LEMMA SortSplitStep ==
  ASSUME SortInv, SortSplit
  PROVE  SortInv'
  <1>1. /\ fn = "qsort" /\ ~done /\ ranges # <<>> /\ Top[2] > 1 /\ i = Pivot
        /\ arr' = Swap(arr, right, Pivot)
        /\ Enter(Rest \o << <<right + 1, Top[2] - (right - Top[1]) - 1>>,
                            <<Top[1], right - Top[1]>> >>)
        /\ UNCHANGED <<fn, done, count, old>>
      BY DEF SortSplit, Running
  <1>2. SortTypes /\ RangesApart /\ Settled /\ Parted /\ SameItems
      BY <1>1 DEF SortInv
  <1>3. PICK lo \in Nat, size \in Nat, m \in Nat, p \in Nat, n \in Nat :
          lo = Top[1] /\ size = Top[2] /\ m = right /\ p = Pivot /\ n = Len(ranges)
    <2>1. Len(ranges) \in Nat
        BY <1>2 DEF SortTypes
    <2> QED BY <1>1, <2>1, Partition
  <1>4. /\ lo \in Nat /\ size \in Nat /\ m \in Nat /\ p \in Nat /\ n \in Nat
        /\ lo <= m /\ m <= p /\ p < count /\ p = lo + size - 1 /\ count \in Nat
        /\ arr \in [0 .. count -> Items]
        /\ arr' = Swap(arr, m, p)
      BY <1>1, <1>3, Partition
  <1>5. n >= 1 /\ DOMAIN ranges = 1 .. n
        /\ \A r \in 1 .. n - 1 : ranges[r][1] \in Nat /\ ranges[r][2] \in Nat
                                 /\ lo + size <= ranges[r][1]
    <2>1. n >= 1 /\ DOMAIN ranges = 1 .. n
        BY <1>1, <1>2, <1>3 DEF SortTypes
    <2> QED BY <1>1, <1>2, <1>3, <2>1, TopAndRest
  <1>6. /\ ranges' \in Seq(Nat \X Nat)
        /\ DOMAIN ranges' = 1 .. n + 1
        /\ \A r \in 1 .. n - 1 : ranges'[r] = ranges[r]
        /\ ranges'[n] = <<m + 1, p - m>>
        /\ ranges'[n + 1] = <<lo, m - lo>>
    <2>1. size - (m - lo) - 1 = p - m
        BY <1>4
    <2>2. ranges' = SubSeq(ranges, 1, Len(ranges) - 1) \o << <<m + 1, p - m>>, <<lo, m - lo>> >>
        BY <1>1, <1>3, <2>1 DEF Enter, Rest
    <2>3. <<m + 1, p - m>> \in Nat \X Nat /\ <<lo, m - lo>> \in Nat \X Nat
        BY <1>4
    <2>4. PICK rest \in Nat : n = rest + 1
      <3>1. n - 1 \in Nat /\ n = n - 1 + 1
          BY <1>4, <1>5
      <3> QED BY <3>1
    <2> DEFINE S == Nat \X Nat
               a == <<m + 1, p - m>>
               b == <<lo, m - lo>>
    <2> HIDE DEF S, a, b
    <2>5. Len(ranges) = rest + 1 /\ ranges \in Seq(S) /\ a \in S /\ b \in S
        BY <1>2, <1>3, <2>3, <2>4 DEF SortTypes, S, a, b
    <2>6. ranges' = SubSeq(ranges, 1, rest) \o <<a, b>>
      <3>1. Len(ranges) - 1 = rest
          BY <2>4, <2>5
      <3> QED BY <2>2, <3>1 DEF a, b
    <2>7. /\ ranges' \in Seq(S) /\ DOMAIN ranges' = 1 .. rest + 2
          /\ \A r \in 1 .. rest : ranges'[r] = ranges[r]
          /\ ranges'[rest + 1] = a /\ ranges'[rest + 2] = b
      <3>1. PICK s : s = ranges
          OBVIOUS
      <3>2. PICK t : t = ranges'
          OBVIOUS
      <3>3. s \in Seq(S) /\ Len(s) = rest + 1 /\ t = SubSeq(s, 1, rest) \o <<a, b>>
          BY <2>5, <2>6, <3>1, <3>2
      <3>4. /\ t \in Seq(S) /\ DOMAIN t = 1 .. rest + 2
            /\ \A r \in 1 .. rest : t[r] = s[r]
            /\ t[rest + 1] = a /\ t[rest + 2] = b
        <4>1. rest \in Nat /\ a \in S /\ b \in S /\ Len(s) = rest + 1
            BY <2>4, <2>5, <3>3
        <4> HIDE DEF S, a, b
        <4> QED BY <3>3, <4>1, PushTwo
      <3> QED BY <3>1, <3>2, <3>4
    <2>8. n - 1 = rest /\ n = rest + 1 /\ n + 1 = rest + 2
        BY <2>4
    <2> QED BY <2>7, <2>8 DEF S, a, b
  <1>7. ASSUME NEW r \in 1 .. n - 1
        PROVE  /\ r \in DOMAIN ranges /\ r \in 1 .. n + 1 /\ ranges'[r] = ranges[r]
               /\ ranges[r][1] \in Nat /\ lo + size <= ranges[r][1]
    <2>1. r \in 1 .. n /\ r \in 1 .. n + 1
        BY <1>4
    <2> QED BY <1>5, <1>6, <2>1
  <1>8. \A r \in 1 .. n + 1 : r \in 1 .. n - 1 \/ r = n \/ r = n + 1
      BY <1>4
  <1>9. m \in lo .. p /\ p \in lo .. p /\ m \in 0 .. count - 1 /\ p \in 0 .. count - 1
      BY <1>4
  <1>10. Parted' /\ i' \in Nat /\ right' \in Nat
    <2>1. Rest \o << <<right + 1, Top[2] - (right - Top[1]) - 1>>, <<Top[1], right - Top[1]>> >>
            \in Seq(Nat \X Nat)
        BY <1>1, <1>6 DEF Enter
    <2> QED BY <1>1, <2>1, EnterParts
  <1>11. SameItems' /\ arr' \in [0 .. count -> Items]
      BY <1>1, <1>2, <1>4, <1>9, SwapSame
  <1>12. SortTypes'
      BY <1>1, <1>2, <1>6, <1>10, <1>11 DEF SortTypes
  <1>13. RangesApart'
    <2>1. ASSUME NEW r \in 1 .. n + 1
          PROVE  ranges'[r][1] + ranges'[r][2] <= count
      <3>1. CASE r \in 1 .. n - 1
          BY <1>2, <1>7, <3>1 DEF RangesApart
      <3>2. CASE r = n
          BY <1>4, <1>6, <3>2
      <3>3. CASE r = n + 1
          BY <1>4, <1>6, <3>3
      <3> QED BY <1>8, <3>1, <3>2, <3>3
    <2>2. ASSUME NEW r \in 1 .. n + 1, NEW s \in 1 .. n + 1, r < s
          PROVE  ranges'[s][1] + ranges'[s][2] <= ranges'[r][1]
      <3>1. CASE s \in 1 .. n - 1
        <4>1. r \in 1 .. n - 1
            BY <1>4, <2>2, <3>1
        <4> QED BY <1>2, <1>7, <2>2, <3>1, <4>1 DEF RangesApart
      <3>2. CASE s = n /\ r \in 1 .. n - 1
        <4>1. ranges'[s][1] + ranges'[s][2] = lo + size
            BY <1>4, <1>6, <3>2
        <4> QED BY <1>7, <3>2, <4>1
      <3>3. CASE s = n + 1 /\ r \in 1 .. n - 1
        <4>1. ranges'[s][1] + ranges'[s][2] = m /\ m <= lo + size
            BY <1>4, <1>6, <3>3
        <4>2. ranges'[r][1] \in Nat /\ lo + size <= ranges'[r][1]
            BY <1>7, <3>3
        <4> QED BY <1>4, <4>1, <4>2
      <3>4. CASE s = n + 1 /\ r = n
          BY <1>4, <1>6, <3>4
      <3>5. (s \in 1 .. n - 1 \/ s = n \/ s = n + 1) /\ (r \in 1 .. n - 1 \/ r = n)
          BY <1>4, <1>8, <2>2
      <3> QED BY <1>4, <2>2, <3>1, <3>2, <3>3, <3>4, <3>5
    <2> QED BY <1>1, <1>6, <2>1, <2>2 DEF RangesApart
  <1>14. Settled'
    <2> SUFFICES ASSUME NEW j \in 0 .. count - 1, NEW k \in 0 .. count - 1, j < k, ~Together(j, k)'
                 PROVE  Rank(arr'[j]) <= Rank(arr'[k])
        BY <1>1 DEF Settled
    <2>1. CASE ~Together(j, k)
        BY <1>1, <1>2, <1>3, <1>9, <2>1, SwapSettled
    <2>2. CASE Together(j, k)
      <3>1. PICK r \in 1 .. n : j \in In(r) /\ k \in In(r)
          BY <1>5, <2>2 DEF Together
      <3>2. \A q \in 1 .. n + 1 :
              ~(/\ j \in ranges'[q][1] .. ranges'[q][1] + ranges'[q][2] - 1
                /\ k \in ranges'[q][1] .. ranges'[q][1] + ranges'[q][2] - 1)
          BY <1>6 DEF Together, In
      <3>3. r = n
        <4>1. CASE r \in 1 .. n - 1
          <5>1. ranges'[r] = ranges[r] /\ r \in 1 .. n + 1
              BY <1>7, <4>1
          <5> QED BY <3>1, <3>2, <5>1 DEF In
        <4> QED BY <4>1
      <3>4. j \in lo .. p /\ k \in lo .. p
          BY <1>1, <1>2, <1>3, <3>1, <3>3, TopAndRest
      <3>5. ~(j \in m + 1 .. p /\ k \in m + 1 .. p)
        <4>1. n \in 1 .. n + 1 /\ ranges'[n][1] .. ranges'[n][1] + ranges'[n][2] - 1 = m + 1 .. p
            BY <1>5, <1>6
        <4> QED BY <3>2, <4>1
      <3>6. ~(j \in lo .. m - 1 /\ k \in lo .. m - 1)
        <4>1. /\ n + 1 \in 1 .. n + 1
              /\ ranges'[n + 1][1] .. ranges'[n + 1][1] + ranges'[n + 1][2] - 1 = lo .. m - 1
            BY <1>6
        <4> QED BY <3>2, <4>1
      <3>7. /\ \A x \in lo .. m - 1 : Rank(arr[x]) < Rank(arr[p])
            /\ \A x \in m .. p - 1 : Rank(arr[x]) >= Rank(arr[p])
          BY <1>1, <1>2, <1>3 DEF Parted
      <3>8. j \in lo .. m /\ k \in m .. p
          BY <1>4, <2>2, <3>4, <3>5, <3>6
      <3> QED BY <1>4, <3>7, <3>8, PivotBetween
    <2> QED BY <2>1, <2>2
  <1> QED BY <1>1, <1>10, <1>11, <1>12, <1>13, <1>14 DEF SortInv

LEMMA SortStep == SortInv /\ [ArraysNext]_arrayVars => SortInv'
  <1> SUFFICES ASSUME SortInv, [ArraysNext]_arrayVars PROVE SortInv'
      OBVIOUS
  <1>1. CASE UNCHANGED arrayVars
      BY <1>1 DEF arrayVars, SortInv, SortTypes, RangesApart, Settled, Together, In, Parted,
                  Top, Pivot, SameItems
  <1>2. CASE SortReturn
      BY <1>2 DEF SortReturn, Running, Returns, SortInv, SortTypes, RangesApart, Settled,
                  Together, In, Parted, Top, Pivot, SameItems
  <1>3. CASE ArraysNext /\ fn # "qsort"
    <2>1. fn' # "qsort"
        BY <1>3 DEF ArraysNext, BsearchLeft, BsearchRight, BsearchFound, BsearchFails,
                    LfindNext, LfindFound, LfindFails, LsearchEnters, Running,
                    SortShort, SortCompare, SortSplit, SortReturn, Returns
    <2> QED BY <2>1 DEF SortInv
  <1>4. CASE ArraysNext /\ fn = "qsort"
    <2>1. SortShort \/ SortCompare \/ SortSplit \/ SortReturn
        BY <1>4 DEF ArraysNext, BsearchLeft, BsearchRight, BsearchFound, BsearchFails,
                    LfindNext, LfindFound, LfindFails, LsearchEnters, Linear, Running
    <2> QED BY <1>2, <2>1, SortShortStep, SortCompareStep, SortSplitStep
  <1> QED BY <1>1, <1>3, <1>4

LEMMA SortInvSorts == SortInv => QsortSorts
  <1> SUFFICES ASSUME SortInv, fn = "qsort", done
               PROVE  Sorted(arr, count) /\ SameItems
      BY DEF QsortSorts, SameItems
  <1>1. SortTypes /\ Settled /\ SameItems /\ ranges = <<>>
      BY DEF SortInv
  <1>2. \A j, k : ~Together(j, k)
      BY <1>1 DEF Together
  <1>3. ASSUME NEW j \in 0 .. count - 1, NEW k \in 0 .. count - 1, j < k
        PROVE  Comp(arr[j], arr[k]) <= 0
    <2>1. arr[j] \in Items /\ arr[k] \in Items
        BY <1>1 DEF SortTypes
    <2>2. Rank(arr[j]) <= Rank(arr[k])
        BY <1>1, <1>2, <1>3 DEF Settled
    <2> QED BY <2>1, <2>2, CompIsInt
  <1> QED BY <1>1, <1>3 DEF Sorted

\* qsort leaves the items that were there, each as often as it was, in order,
\* and what lies behind them as it was, whatever the length of the array and
\* however many items compare equal (quicksort of stdlib.c).
THEOREM QsortSortsHolds == ArraysSpec => []QsortSorts
BY SortInit, SortStep, SortInvSorts, PTL DEF ArraysSpec
-----------------------------------------------------------------------------
(***************************************************************************)
(* The mode of fopen.  parse_mode is followed letter by letter; what it    *)
(* has gathered when it has not refused a letter is what the letters say.  *)
(***************************************************************************)
AccessLetters == {"r", "w", "a"}

Infos == [valid : BOOLEAN, flags : SUBSET FlagLetters,
          access : {"NONE", "READ", "WRITE", "APPEND"}]

\* What parse_mode has gathered after each letter.
Parses(info, m) ==
  /\ info \in [0 .. Len(m) -> Infos]
  /\ info[0] = NoInfo
  /\ \A k \in 1 .. Len(m) : info[k] = ParseLetter(info[k - 1], m[k])
  /\ Parse(m) = [info[Len(m)] EXCEPT !.valid = @ /\ info[Len(m)].access # "NONE"]

LEMMA AccessIs ==
  /\ DOMAIN AccessOf = AccessLetters
  /\ AccessOf["r"] = "READ" /\ AccessOf["w"] = "WRITE" /\ AccessOf["a"] = "APPEND"
BY DEF AccessOf, AccessLetters

LEMMA LetterParsed ==
  ASSUME NEW info \in Infos, NEW c
  PROVE  /\ ParseLetter(info, c) \in Infos
         /\ ParseLetter(info, c).valid <=> info.valid /\ ~Refuses(info, c)
         /\ info.valid /\ ~Refuses(info, c) =>
              /\ ParseLetter(info, c).flags =
                   IF c \in FlagLetters THEN info.flags \cup {c} ELSE info.flags
              /\ ParseLetter(info, c).access =
                   IF c \in AccessLetters THEN AccessOf[c] ELSE info.access
<1>1. \A a \in AccessLetters : a \notin FlagLetters /\ AccessOf[a] \in {"READ", "WRITE", "APPEND"}
  BY AccessIs DEF AccessLetters, FlagLetters
<1>2. CASE ~info.valid \/ Refuses(info, c)
  BY <1>2 DEF ParseLetter, Infos
<1>3. CASE info.valid /\ ~Refuses(info, c) /\ c \in FlagLetters
  BY <1>1, <1>3 DEF ParseLetter, Infos
<1>4. CASE info.valid /\ ~Refuses(info, c) /\ c \notin FlagLetters
  <2>1. ParseLetter(info, c) =
          [info EXCEPT !.access = IF c \in AccessLetters THEN AccessOf[c] ELSE @]
    BY <1>4, AccessIs DEF ParseLetter
  <2> QED
    BY <1>1, <1>4, <2>1 DEF Infos
<1> QED
  BY <1>2, <1>3, <1>4

LEMMA ParseRuns ==
  ASSUME NEW m, Len(m) \in Nat
  PROVE  \E info : Parses(info, m)
<1> DEFINE n == Len(m)
           Body(f) == [k \in 0 .. n |-> IF k = 0 THEN NoInfo ELSE ParseLetter(f[k - 1], m[k])]
           F == [k \in 1 .. n |-> [x \in Infos |-> ParseLetter(x, m[k])]]
           info == CHOOSE f : f = Body(f)
<1>1. NoInfo \in Infos
  BY DEF NoInfo, Infos, FlagLetters
<1>2. F \in [1 .. n -> [Infos -> Infos]]
  BY LetterParsed
<1>3. PICK f : Iterates(f, Infos, NoInfo, F, n)
  <2> HIDE DEF F
  <2>1. \E f : Iterates(f, Infos, NoInfo, F, n)
    BY <1>1, <1>2, Steps
  <2> QED
    BY <2>1
<1>4. f = Body(f)
  <2>1. \A k \in 0 .. n : k # 0 => k \in 1 .. n /\ k - 1 \in 0 .. n
    OBVIOUS
  <2>2. \A k \in 0 .. n : f[k] = Body(f)[k]
    BY <1>3, <2>1 DEF Iterates
  <2> QED
    BY <1>3, <2>2 DEF Iterates
<1>5. info = Body(info)
  <2>1. \E g : g = Body(g)
    BY <1>4
  <2> HIDE DEF Body
  <2> QED
    BY <2>1
<1>6. Parse(m) = [info[n] EXCEPT !.valid = @ /\ info[n].access # "NONE"]
  BY DEF Parse
<1> HIDE DEF info
<1>7. info[0] = NoInfo /\ \A k \in 1 .. n : info[k] = ParseLetter(info[k - 1], m[k])
  <2>1. 0 \in 0 .. n /\ \A k \in 1 .. n : k \in 0 .. n /\ k # 0
    OBVIOUS
  <2>2. \A k \in 0 .. n : info[k] = Body(info)[k]
    BY <1>5
  <2> QED
    BY <2>1, <2>2
<1>8. \A k \in 0 .. n : info[k] \in Infos
  <2> DEFINE G == {k \in Nat : info[k] \in Infos}
  <2>1. 0 \in G
    BY <1>1, <1>7
  <2>2. ASSUME NEW k \in 1 .. n, k - 1 \in G PROVE k \in G
    <3>1. info[k - 1] \in Infos
      BY <2>2
    <3>2. info[k] = ParseLetter(info[k - 1], m[k])
      BY <1>7
    <3>3. ParseLetter(info[k - 1], m[k]) \in Infos
      BY <3>1, LetterParsed
    <3> QED
      BY <3>2, <3>3
  <2>3. 0 .. n \subseteq G
    <3> HIDE DEF G
    <3> QED
      BY <2>1, <2>2, Upwards
  <2> QED
    BY <2>3
<1>9. info \in [0 .. n -> Infos]
  BY <1>5, <1>8
<1> QED
  BY <1>6, <1>7, <1>9 DEF Parses

\* What the letters up to the k-th say, when none of them was refused.
Gathered(info, m, k) ==
  /\ \A e \in 1 .. k : m[e] \in FlagLetters => m[e] \in info.flags /\ m[e] # "u"
  /\ \A c \in info.flags : c = "u" \/ \E e \in 1 .. k : m[e] = c
  /\ \A e, j \in 1 .. k : m[e] = m[j] /\ m[e] \in FlagLetters => e = j
  /\ info.access = "NONE" => \A e \in 1 .. k : m[e] \notin AccessLetters
  /\ info.access # "NONE" =>
       \E j \in 1 .. k :
         /\ m[j] \in AccessLetters /\ AccessOf[m[j]] = info.access
         /\ \A e \in 1 .. k : e # j => m[e] \notin AccessLetters
         /\ \A e \in 1 .. k : e > j => m[e] \in FlagLetters
  /\ "x" \in info.flags => info.access = "WRITE"

LEMMA GatherOne ==
  ASSUME NEW m, NEW k \in Nat \ {0}, NEW before \in Infos, Gathered(before, m, k - 1),
         NEW info, info = ParseLetter(before, m[k]), info.valid,
         "u" \in before.flags
  PROVE  Gathered(info, m, k)
<1> DEFINE c == m[k]
<1>1. before.valid /\ ~Refuses(before, c) /\ info \in Infos
  BY LetterParsed
<1>2. /\ info.flags = IF c \in FlagLetters THEN before.flags \cup {c} ELSE before.flags
      /\ info.access = IF c \in AccessLetters THEN AccessOf[c] ELSE before.access
  BY <1>1, LetterParsed
<1>3. /\ c \notin before.flags
      /\ c = "u" => before.access # "READ"
      /\ c = "x" => before.access = "WRITE"
      /\ c \notin FlagLetters => before.access = "NONE"
  BY <1>1 DEF Refuses
<1>4. c # "u"
  BY <1>3
<1>5. \A e \in 1 .. k : e = k \/ e \in 1 .. k - 1
  OBVIOUS
<1>6. \A e \in 1 .. k - 1 : e \in 1 .. k /\ e < k
  OBVIOUS
<1>7. k \in 1 .. k
  OBVIOUS
<1>8. \A a \in AccessLetters : a \notin FlagLetters /\ AccessOf[a] # "NONE"
  BY AccessIs DEF AccessLetters, FlagLetters
<1> HIDE DEF c
<1>a. m[k] = c
  BY DEF c
<1> USE DEF Gathered
<1>b. \A e \in 1 .. k : m[e] \in FlagLetters => m[e] \in info.flags /\ m[e] # "u"
  BY <1>2, <1>4, <1>5, <1>a
<1>c. \A d \in info.flags : d = "u" \/ \E e \in 1 .. k : m[e] = d
  BY <1>2, <1>6, <1>7, <1>a
<1>d. \A e, j \in 1 .. k : m[e] = m[j] /\ m[e] \in FlagLetters => e = j
  BY <1>3, <1>5, <1>a
<1>e. info.access = "NONE" => \A e \in 1 .. k : m[e] \notin AccessLetters
  BY <1>2, <1>5, <1>8, <1>a
<1>f. ASSUME info.access # "NONE"
      PROVE  \E j \in 1 .. k :
               /\ m[j] \in AccessLetters /\ AccessOf[m[j]] = info.access
               /\ \A e \in 1 .. k : e # j => m[e] \notin AccessLetters
               /\ \A e \in 1 .. k : e > j => m[e] \in FlagLetters
  <2>1. CASE c \in AccessLetters
    <3>1. before.access = "NONE"
      BY <1>3, <1>8, <2>1
    <3>2. \A e \in 1 .. k : e # k => m[e] \notin AccessLetters
      BY <1>5, <3>1
    <3>3. \A e \in 1 .. k : ~(e > k)
      OBVIOUS
    <3> QED
      BY <1>2, <1>7, <1>a, <2>1, <3>2, <3>3
  <2>2. CASE c \notin AccessLetters
    <3>1. before.access # "NONE" /\ info.access = before.access
      BY <1>2, <1>f, <2>2
    <3>2. PICK j \in 1 .. k - 1 :
               /\ m[j] \in AccessLetters /\ AccessOf[m[j]] = before.access
               /\ \A e \in 1 .. k - 1 : e # j => m[e] \notin AccessLetters
               /\ \A e \in 1 .. k - 1 : e > j => m[e] \in FlagLetters
      BY <3>1
    <3>3. c \in FlagLetters
      BY <1>3, <3>1
    <3>4. \A e \in 1 .. k : e # j => m[e] \notin AccessLetters
      BY <1>5, <1>a, <2>2, <3>2
    <3>5. \A e \in 1 .. k : e > j => m[e] \in FlagLetters
      BY <1>5, <1>a, <3>2, <3>3
    <3> QED
      BY <1>6, <3>1, <3>2, <3>4, <3>5
  <2> QED
    BY <2>1, <2>2
<1>g. "x" \in info.flags => info.access = "WRITE"
  <2>1. "x" \in before.flags => c \notin AccessLetters
    BY <1>3, <1>8
  <2>2. c \in FlagLetters => c \notin AccessLetters
    BY <1>8
  <2> QED
    BY <1>2, <1>3, <2>1, <2>2
<1> QED
  BY <1>b, <1>c, <1>d, <1>e, <1>f, <1>g

LEMMA GatherAll ==
  ASSUME NEW m, Len(m) \in Nat, NEW info, Parses(info, m)
  PROVE  info[Len(m)].valid => Gathered(info[Len(m)], m, Len(m))
<1> DEFINE n == Len(m)
           G == {k \in Nat : /\ "u" \in info[k].flags
                             /\ info[k].valid => Gathered(info[k], m, k)}
<1> USE DEF Parses
<1>1. 0 \in G
  <2>1. 1 .. 0 = {}
    OBVIOUS
  <2>2. Gathered(NoInfo, m, 0)
    BY <2>1 DEF Gathered, NoInfo
  <2>3. "u" \in NoInfo.flags
    BY DEF NoInfo
  <2> QED
    BY <2>2, <2>3
<1>2. ASSUME NEW k \in 1 .. n, k - 1 \in G PROVE k \in G
  <2>1. k \in Nat \ {0} /\ k - 1 \in 0 .. n
    OBVIOUS
  <2>2. info[k - 1] \in Infos /\ info[k] = ParseLetter(info[k - 1], m[k])
    BY <2>1
  <2>3. "u" \in info[k - 1].flags
    BY <1>2
  <2>4. info[k - 1].valid => Gathered(info[k - 1], m, k - 1)
    BY <1>2
  <2>5. info[k].valid => info[k - 1].valid
    <3>1. ~info[k - 1].valid => ParseLetter(info[k - 1], m[k]).valid = FALSE
      BY <2>2 DEF ParseLetter, Infos
    <3> QED
      BY <2>2, <3>1
  <2>6. info[k].valid => Gathered(info[k], m, k)
    <3> HIDE DEF Parses
    <3> QED
      BY <2>1, <2>2, <2>3, <2>4, <2>5, GatherOne
  <2>7. "u" \in info[k].flags
    <3>1. CASE info[k - 1].valid /\ ~Refuses(info[k - 1], m[k])
      BY <2>2, <2>3, <3>1, LetterParsed
    <3>2. CASE ~info[k - 1].valid \/ Refuses(info[k - 1], m[k])
      BY <2>2, <2>3, <3>2 DEF ParseLetter, Infos
    <3> QED
      BY <3>1, <3>2
  <2> QED
    BY <2>1, <2>6, <2>7
<1>3. 0 .. n \subseteq G
  <2> HIDE DEF G
  <2> QED
    BY <1>1, <1>2, Upwards
<1> QED
  BY <1>3

\* A mode the way C11 wants it: r, w or a, then letters of flags, none twice,
\* x only with w.
Fine(m) ==
  /\ Len(m) \in Nat \ {0}
  /\ m[1] \in AccessLetters
  /\ \A e \in 2 .. Len(m) : m[e] \in {"+", "b", "x"} /\ (m[e] = "x" => m[1] = "w")
  /\ \A e, j \in 2 .. Len(m) : m[e] = m[j] => e = j

\* What parse_mode has gathered of a fine mode.
Accepted(info, m, k) ==
  /\ info.valid
  /\ info.access = AccessOf[m[1]]
  /\ \A c \in info.flags : c = "u" \/ \E e \in 2 .. k : m[e] = c

LEMMA FineAccepted ==
  ASSUME NEW m, Fine(m), NEW info, Parses(info, m)
  PROVE  Accepted(info[Len(m)], m, Len(m))
<1> DEFINE n == Len(m)
           G == {k \in Nat : k > 0 => Accepted(info[k], m, k)}
<1>1. 0 \in G
  OBVIOUS
<1>2. ASSUME NEW k \in 1 .. n, k - 1 \in G PROVE k \in G
  <2>1. info[k - 1] \in Infos /\ info[k] = ParseLetter(info[k - 1], m[k])
    BY DEF Parses, Fine
  <2>2. CASE k = 1
    <3>1. info[1] = ParseLetter(NoInfo, m[1])
      BY <2>1, <2>2 DEF Parses
    <3>2. NoInfo \in Infos /\ NoInfo.valid
      BY DEF NoInfo, Infos, FlagLetters
    <3>3. m[1] \in AccessLetters
      BY DEF Fine
    <3>4. ~Refuses(NoInfo, m[1]) /\ m[1] \notin FlagLetters
      BY <3>3 DEF Refuses, NoInfo, AccessLetters, FlagLetters
    <3>5. /\ info[1].valid /\ info[1].access = AccessOf[m[1]]
          /\ info[1].flags = {"u"}
      <4>1. NoInfo.flags = {"u"}
        BY DEF NoInfo
      <4>2. ParseLetter(NoInfo, m[1]).valid
        BY <3>2, <3>4, LetterParsed
      <4>3. /\ ParseLetter(NoInfo, m[1]).access = AccessOf[m[1]]
            /\ ParseLetter(NoInfo, m[1]).flags = {"u"}
        BY <3>2, <3>3, <3>4, <4>1, LetterParsed
      <4> QED
        BY <3>1, <4>2, <4>3
    <3> QED
      BY <2>2, <3>5 DEF Accepted
  <2>3. CASE k # 1
    <3>1. Accepted(info[k - 1], m, k - 1) /\ k \in 2 .. n
      BY <1>2, <2>3
    <3>2. /\ m[k] \in {"+", "b", "x"} /\ (m[k] = "x" => m[1] = "w")
          /\ \A e \in 2 .. k - 1 : m[e] # m[k]
      BY <3>1 DEF Fine
    <3>3. ~Refuses(info[k - 1], m[k])
      <4>1. m[k] \notin info[k - 1].flags
        BY <3>1, <3>2 DEF Accepted
      <4>2. m[k] = "x" => info[k - 1].access = "WRITE"
        BY <3>1, <3>2, AccessIs DEF Accepted
      <4> QED
        BY <3>2, <4>1, <4>2 DEF Refuses, FlagLetters
    <3>4. m[k] \in FlagLetters /\ m[k] \notin AccessLetters
      BY <3>2 DEF FlagLetters, AccessLetters
    <3>5. /\ info[k].valid
          /\ info[k].access = info[k - 1].access
          /\ info[k].flags = info[k - 1].flags \cup {m[k]}
      <4>1. info[k - 1].valid
        BY <3>1 DEF Accepted
      <4>2. ParseLetter(info[k - 1], m[k]).valid
        BY <2>1, <3>3, <4>1, LetterParsed
      <4>3. /\ ParseLetter(info[k - 1], m[k]).access = info[k - 1].access
            /\ ParseLetter(info[k - 1], m[k]).flags = info[k - 1].flags \cup {m[k]}
        <5>1. PICK b \in Infos, c \in FlagLetters : b = info[k - 1] /\ c = m[k]
          BY <2>1, <3>4
        <5>2. /\ ParseLetter(b, c).access = b.access
              /\ ParseLetter(b, c).flags = b.flags \cup {c}
          BY <3>3, <3>4, <4>1, <5>1, LetterParsed
        <5> QED
          BY <5>1, <5>2
      <4> QED
        BY <2>1, <4>2, <4>3
    <3>6. \A e \in 2 .. k - 1 : e \in 2 .. k
      OBVIOUS
    <3>7. k \in 2 .. k
      BY <3>1
    <3> QED
      BY <3>1, <3>5, <3>6, <3>7 DEF Accepted
  <2> QED
    BY <2>2, <2>3
<1>3. n \in Nat \ {0}
  BY DEF Fine
<1>4. 0 .. n \subseteq G
  <2> HIDE DEF G
  <2> QED
    BY <1>1, <1>2, <1>3, Upwards
<1> QED
  BY <1>3, <1>4

LEMMA StandardAreFine == \A m \in StandardModes : Fine(m)
<1>1. ASSUME NEW s \in FlagOrders
      PROVE  /\ s \in Seq({"+", "b"})
             /\ \A e, j \in 1 .. Len(s) : s[e] = s[j] => e = j
  <2>1. CASE s = <<>>
    BY <2>1
  <2>2. CASE s = <<"b">> \/ s = <<"+">>
    <3>1. <<"b">> \in Seq({"+", "b"}) /\ <<"+">> \in Seq({"+", "b"})
      OBVIOUS
    <3>2. Len(s) = 1
      BY <2>2
    <3> QED
      BY <2>2, <3>1, <3>2
  <2>3. CASE s = <<"+", "b">> \/ s = <<"b", "+">>
    <3>1. <<"b", "+">> \in Seq({"+", "b"}) /\ <<"+", "b">> \in Seq({"+", "b"})
      OBVIOUS
    <3>2. Len(s) = 2 /\ s[1] # s[2]
      BY <2>3
    <3>3. \A e \in 1 .. 2 : e = 1 \/ e = 2
      OBVIOUS
    <3> QED
      BY <2>3, <3>1, <3>2, <3>3
  <2> QED
    BY <2>1, <2>2, <2>3 DEF FlagOrders
<1>2. ASSUME NEW c \in AccessLetters, NEW s \in FlagOrders PROVE Fine(<<c>> \o s)
  <2> DEFINE m == <<c>> \o s
  <2>1. /\ Len(m) = Len(s) + 1 /\ Len(s) \in Nat
        /\ m[1] = c
        /\ \A e \in 2 .. Len(s) + 1 : m[e] = s[e - 1] /\ e - 1 \in 1 .. Len(s)
    BY <1>1
  <2>2. \A e \in 1 .. Len(s) : s[e] \in {"+", "b"}
    BY <1>1
  <2> HIDE DEF m
  <2>3. \A e \in 2 .. Len(m) : m[e] \in {"+", "b"}
    BY <2>1, <2>2
  <2>4. \A e, j \in 2 .. Len(m) : m[e] = m[j] => e = j
    <3>1. \A e, j \in Int : e - 1 = j - 1 => e = j
      OBVIOUS
    <3>2. \A e \in 2 .. Len(m) : e \in Int
      OBVIOUS
    <3> QED
      BY <1>1, <2>1, <3>1, <3>2
  <2>5. Fine(m)
    BY <2>1, <2>3, <2>4 DEF Fine
  <2> QED
    BY <2>5 DEF m
<1>3. ASSUME NEW s \in FlagOrders PROVE Fine(<<"w">> \o s \o <<"x">>)
  <2> DEFINE m == <<"w">> \o s \o <<"x">>
  <2>1. /\ Len(m) = Len(s) + 2 /\ Len(s) \in Nat
        /\ m[1] = "w" /\ m[Len(s) + 2] = "x"
        /\ \A e \in 2 .. Len(s) + 1 : m[e] = s[e - 1] /\ e - 1 \in 1 .. Len(s)
    BY <1>1
  <2>2. \A e \in 1 .. Len(s) : s[e] \in {"+", "b"}
    BY <1>1
  <2>3. \A e \in 2 .. Len(s) + 2 : e = Len(s) + 2 \/ e \in 2 .. Len(s) + 1
    BY <2>1
  <2> HIDE DEF m
  <2>4. "w" \in AccessLetters
    BY DEF AccessLetters
  <2>5. Fine(m)
    BY <1>1, <2>1, <2>2, <2>3, <2>4 DEF Fine
  <2> QED
    BY <2>5 DEF m
<1>4. \A c \in AccessLetters, s \in FlagOrders : Fine(<<c>> \o s)
  BY <1>2
<1>5. \A s \in FlagOrders : Fine(<<"w">> \o s \o <<"x">>)
  BY <1>3
<1>6. ASSUME NEW m \in StandardModes PROVE Fine(m)
  <2>1. \/ \E c \in AccessLetters, s \in FlagOrders : m = <<c>> \o s
        \/ \E s \in FlagOrders : m = <<"w">> \o s \o <<"x">>
    BY DEF StandardModes, AccessLetters
  <2> QED
    BY <1>4, <1>5, <2>1
<1> QED
  BY <1>6

\* A mode in the program's hands.
ModeInv == \E n \in Nat : mode \in [1 .. n -> ModeLetters]

LEMMA ModeInvMeans == ModeInv => ModeMeans
<1> SUFFICES ASSUME ModeInv PROVE ModeMeans
  OBVIOUS
<1> DEFINE n == Len(mode)
<1>1. n \in Nat /\ DOMAIN mode = 1 .. n
  <2>1. PICK k \in Nat : mode \in [1 .. k -> ModeLetters]
    BY DEF ModeInv
  <2>2. mode \in Seq(ModeLetters)
    BY <2>1
  <2> QED
    BY <2>2
<1>2. PICK info : Parses(info, mode)
  BY <1>1, ParseRuns
<1> DEFINE last == info[n]
           parsed == Parse(mode)
           Has(c) == c \in Range(mode)
<1> HIDE DEF n
<1>3. last \in Infos
  BY <1>1, <1>2 DEF Parses, n
<1>4. /\ parsed.valid <=> last.valid /\ last.access # "NONE"
      /\ parsed.flags = last.flags /\ parsed.access = last.access
  BY <1>2, <1>3 DEF Parses, Infos, n
<1> HIDE DEF parsed, last
<1>5. last.valid => Gathered(last, mode, n)
  BY <1>1, <1>2, GatherAll DEF last, n
<1>6. \A c : Has(c) <=> \E e \in 1 .. n : mode[e] = c
  BY <1>1 DEF Range
<1>7. ASSUME mode \in StandardModes
      PROVE  /\ parsed.valid
             /\ Flags(parsed) =
                  [read  |-> Has("r") \/ Has("+"), write |-> ~Has("r") \/ Has("+"),
                   creat |-> ~Has("r"), trunc |-> Has("w"), app |-> Has("a"), excl |-> Has("x")]
  <2>1. Fine(mode)
    BY <1>7, StandardAreFine
  <2>2. Accepted(last, mode, n)
    BY <1>2, <2>1, FineAccepted DEF last, n
  <2>3. last.valid /\ last.access = AccessOf[mode[1]] /\ Gathered(last, mode, n)
    BY <1>5, <2>2 DEF Accepted
  <2>4. /\ mode[1] \in AccessLetters /\ 1 \in 1 .. n
        /\ \A e \in 1 .. n : e # 1 => mode[e] \in {"+", "b", "x"}
    BY <2>1 DEF Fine, n
  <2>5. \A c \in AccessLetters : Has(c) <=> mode[1] = c
    BY <1>6, <2>4 DEF AccessLetters
  <2>6. /\ Has("r") <=> last.access = "READ"
        /\ Has("w") <=> last.access = "WRITE"
        /\ Has("a") <=> last.access = "APPEND"
        /\ last.access # "NONE"
    BY <2>3, <2>4, <2>5, AccessIs DEF AccessLetters
  <2>7. \A c \in {"+", "x"} : Has(c) <=> c \in last.flags
    BY <1>6, <2>3 DEF Gathered, FlagLetters
  <2> HIDE DEF Has
  <2>8. Flags(parsed) =
          [read  |-> Has("r") \/ Has("+"), write |-> ~Has("r") \/ Has("+"),
           creat |-> ~Has("r"), trunc |-> Has("w"), app |-> Has("a"), excl |-> Has("x")]
    <3>1. /\ ("+" \in parsed.flags) <=> Has("+")
          /\ ("x" \in parsed.flags) <=> Has("x")
          /\ parsed.access = "READ" <=> Has("r")
          /\ parsed.access = "WRITE" <=> Has("w")
          /\ parsed.access = "APPEND" <=> Has("a")
      BY <1>4, <2>6, <2>7 DEF Has
    <3>2. ("+" \in parsed.flags) = Has("+")
      BY <3>1 DEF Has
    <3>3. ("x" \in parsed.flags) = Has("x")
      BY <3>1 DEF Has
    <3>4. (parsed.access = "READ") = Has("r")
      BY <3>1 DEF Has
    <3>5. (parsed.access # "READ") = ~Has("r")
      BY <3>1 DEF Has
    <3>6. (parsed.access = "WRITE") = Has("w")
      BY <3>1 DEF Has
    <3>7. (parsed.access = "APPEND") = Has("a")
      BY <3>1 DEF Has
    <3> QED
      BY <3>2, <3>3, <3>4, <3>5, <3>6, <3>7, Zenon DEF Flags
  <2> QED
    BY <1>4, <2>3, <2>6, <2>8
<1>8. ASSUME parsed.valid
      PROVE  /\ \E k \in DOMAIN mode :
                  /\ mode[k] \in {"r", "w", "a"}
                  /\ \A j \in DOMAIN mode \ {k} :
                       /\ mode[j] \notin {"r", "w", "a"}
                       /\ j > k => mode[j] \in FlagLetters
             /\ \A j, k \in DOMAIN mode : mode[j] = mode[k] /\ mode[j] \in FlagLetters => j = k
             /\ Flags(parsed).trunc \/ Flags(parsed).excl =>
                  Flags(parsed).write /\ Flags(parsed).creat
  <2>1. last.access # "NONE" /\ Gathered(last, mode, n)
    BY <1>4, <1>5, <1>8
  <2>2. \E k \in DOMAIN mode :
          /\ mode[k] \in {"r", "w", "a"}
          /\ \A j \in DOMAIN mode \ {k} :
               /\ mode[j] \notin {"r", "w", "a"}
               /\ j > k => mode[j] \in FlagLetters
    BY <1>1, <2>1 DEF Gathered, AccessLetters, n
  <2>3. \A j, k \in DOMAIN mode : mode[j] = mode[k] /\ mode[j] \in FlagLetters => j = k
    BY <1>1, <2>1 DEF Gathered, n
  <2>4. Flags(parsed).trunc \/ Flags(parsed).excl => parsed.access = "WRITE"
    BY <1>4, <2>1 DEF Flags, Gathered
  <2>5. parsed.access = "WRITE" => Flags(parsed).write /\ Flags(parsed).creat
    BY DEF Flags
  <2> QED
    BY <2>2, <2>3, <2>4, <2>5
<1> QED
  BY <1>7, <1>8 DEF ModeMeans, parsed

\* Every mode of C11 opens a file the way its letters say, and no mode that is
\* accepted is for two of r, w and a, has a flag twice, or asks for a new file
\* and does not write it: parse_mode and mode_to_flags, for modes of any length.
THEOREM ModeMeansHolds == LibrarySpec => []ModeMeans
<1>1. LibraryInit => ModeInv
  <2>1. <<>> \in [1 .. 0 -> ModeLetters]
    OBVIOUS
  <2>2. mode = <<>> => ModeInv
    BY <2>1 DEF ModeInv
  <2>3. \A n \in 0 .. MaxMode : n \in Nat
    BY ModesAssumption
  <2> QED
    BY <2>2, <2>3 DEF LibraryInit, ModeInv
<1>2. ModeInv /\ [LibraryNext]_libraryVars => ModeInv'
  BY DEF ModeInv, LibraryNext, libraryVars
<1> QED
  BY <1>1, <1>2, ModeInvMeans, PTL DEF LibrarySpec
-----------------------------------------------------------------------------
(***************************************************************************)
(* Strings.  Each loop stops at the first place where it has to: the place *)
(* exists, as the memory ends with a zero, and First is that place.        *)
(***************************************************************************)
IsMemory(m) == m \in [Addresses -> Int] /\ m[Size - 1] = 0

AtFirst(s, p, e, G) == s \in p .. e /\ s \in G /\ \A r \in p .. s - 1 : r \notin G

LEMMA Least ==
  ASSUME NEW p \in Nat, NEW e \in Nat, p <= e, NEW G, e \in G
  PROVE  \E s : AtFirst(s, p, e, G)
<1> DEFINE S == {x \in Nat : x \in p .. e /\ x \in G}
<1>1. e \in S
  OBVIOUS
<1>2. PICK s \in S : \A r \in S : ~(<<r, s>> \in OpToRel(<, Nat))
  BY <1>1, WFMin, NatLessThanWellFounded
<1>3. ASSUME NEW r \in p .. s - 1 PROVE r \notin G
  <2>0. s \in Nat /\ s \in p .. e
    BY <1>2
  <2>1. r \in Nat /\ r \in p .. e /\ r < s
    BY <2>0
  <2>2. <<r, s>> \in OpToRel(<, Nat)
    BY <2>0, <2>1 DEF OpToRel
  <2>3. r \notin S
    BY <1>2, <2>2
  <2> QED
    BY <2>1, <2>3
<1> QED
  BY <1>2, <1>3 DEF AtFirst

LEMMA StrlenIs ==
  ASSUME NEW m, IsMemory(m), NEW p \in Addresses
  PROVE  /\ Strlen(m, p) \in 0 .. Size - 1 - p
         /\ m[p + Strlen(m, p)] = 0
         /\ \A r \in p .. p + Strlen(m, p) - 1 : m[r] # 0
<1> DEFINE G == {x \in Nat : m[x] = 0}
           c == CHOOSE s \in p .. Size : m[s] = 0 /\ \A r \in p .. s - 1 : ~(m[r] = 0)
<1>1. /\ Size \in Nat \ {0} /\ p \in Nat /\ p <= Size - 1 /\ Size - 1 \in Nat
      /\ Size - 1 \in G
  BY StringsAssumption DEF Addresses, IsMemory
<1>2. PICK s \in p .. Size - 1 : s \in G /\ \A r \in p .. s - 1 : r \notin G
  <2> HIDE DEF G
  <2>1. \E s : AtFirst(s, p, Size - 1, G)
    BY <1>1, Least
  <2> QED
    BY <2>1 DEF AtFirst
<1>3. \E e \in p .. Size : m[e] = 0 /\ \A r \in p .. e - 1 : ~(m[r] = 0)
  BY <1>1, <1>2
<1>4. c \in p .. Size /\ m[c] = 0 /\ \A r \in p .. c - 1 : ~(m[r] = 0)
  BY <1>3
<1>5. Strlen(m, p) = c - p
  BY DEF Strlen, First
<1> HIDE DEF c
<1>6. c # Size
  BY <1>1, <1>4
<1> QED
  BY <1>1, <1>4, <1>5, <1>6

\* Where the first zero is, there a string ends.
LEMMA StrlenBy ==
  ASSUME NEW m, IsMemory(m), NEW p \in Addresses, NEW n \in 0 .. Size - 1 - p,
         m[p + n] = 0, \A r \in p .. p + n - 1 : m[r] # 0
  PROVE  Strlen(m, p) = n
<1> DEFINE l == Strlen(m, p)
<1>1. /\ l \in 0 .. Size - 1 - p /\ m[p + l] = 0
      /\ \A r \in p .. p + l - 1 : m[r] # 0
  BY StrlenIs
<1>2. Size \in Nat /\ p \in Nat
  BY StringsAssumption DEF Addresses
<1> HIDE DEF l
<1>3. ~(l < n) /\ ~(n < l)
  BY <1>1, <1>2
<1> QED
  BY <1>1, <1>2, <1>3 DEF l

LEMMA TextIs ==
  ASSUME NEW m, IsMemory(m), NEW p \in Addresses
  PROVE  /\ StringAt(m, p) \in Seq(Int)
         /\ Len(StringAt(m, p)) = Strlen(m, p)
         /\ \A k \in 1 .. Strlen(m, p) :
              /\ StringAt(m, p)[k] = m[p + k - 1] /\ m[p + k - 1] # 0
              /\ p + k - 1 \in Addresses
<1>1. /\ Strlen(m, p) \in 0 .. Size - 1 - p
      /\ \A r \in p .. p + Strlen(m, p) - 1 : m[r] # 0
  BY StrlenIs
<1>2. Size \in Nat /\ p \in 0 .. Size - 1
  BY StringsAssumption DEF Addresses
<1>3. \A k \in 1 .. Strlen(m, p) :
        p + k - 1 \in Addresses /\ p + k - 1 \in p .. p + Strlen(m, p) - 1
  BY <1>1, <1>2 DEF Addresses
<1>4. Strlen(m, p) \in Nat
  BY <1>1
<1>5. \A k \in 1 .. Strlen(m, p) : m[p + k - 1] \in Int
  BY <1>3 DEF IsMemory
<1>6. StringAt(m, p) \in [1 .. Strlen(m, p) -> Int]
  BY <1>5 DEF StringAt
<1>7. StringAt(m, p) \in Seq(Int)
  BY <1>4, <1>6
<1>8. Len(StringAt(m, p)) = Strlen(m, p)
  BY <1>4, <1>6
<1> QED
  BY <1>1, <1>3, <1>7, <1>8 DEF StringAt

LEMMA BytesAre ==
  ASSUME NEW m \in [Addresses -> Int], NEW p \in Nat, NEW n \in Nat, p + n <= Size
  PROVE  /\ BytesAt(m, p, n) \in Seq(Int)
         /\ Len(BytesAt(m, p, n)) = n
         /\ \A k \in 1 .. n : BytesAt(m, p, n)[k] = m[p + k - 1] /\ p + k - 1 \in Addresses
<1>1. \A k \in 1 .. n : p + k - 1 \in Addresses
  BY StringsAssumption DEF Addresses
<1>2. BytesAt(m, p, n) \in [1 .. n -> Int]
  BY <1>1 DEF BytesAt
<1>3. BytesAt(m, p, n) \in Seq(Int) /\ Len(BytesAt(m, p, n)) = n
  BY <1>2
<1> QED
  BY <1>1, <1>3 DEF BytesAt

LEMMA CutIs ==
  ASSUME NEW s \in Seq(Int), NEW n \in Nat
  PROVE  /\ Cut(s, n) \in Seq(Int)
         /\ Len(Cut(s, n)) = IF Len(s) < n THEN Len(s) ELSE n
         /\ \A k \in 1 .. Len(Cut(s, n)) : Cut(s, n)[k] = s[k]
<1>1. Len(s) \in Nat /\ Shorter(Len(s), n) \in 0 .. Len(s)
  BY DEF Shorter
<1>2. \A k \in 1 .. Shorter(Len(s), n) : s[k] \in Int
  BY <1>1
<1> QED
  BY <1>1, <1>2 DEF Cut, Shorter

MemchrStops(m, p, c, n, s) ==
  /\ s = p + n \/ m[s] = c
  /\ \A r \in p .. s - 1 : r # p + n /\ m[r] # c
  /\ Memchr(m, p, c, n) = IF s = p + n THEN Null ELSE s

LEMMA MemchrIs ==
  ASSUME NEW m, NEW p \in Nat, NEW n \in Nat, NEW c,
         NEW e \in p .. Size, e = p + n \/ m[e] = c
  PROVE  \E s \in p .. e : MemchrStops(m, p, c, n, s)
<1> DEFINE G == {x \in Nat : x = p + n \/ m[x] = c}
           f == CHOOSE s \in p .. Size : (s = p + n \/ m[s] = c)
                                         /\ \A r \in p .. s - 1 : ~(r = p + n \/ m[r] = c)
<1>1. e \in G /\ e \in Nat /\ p <= e /\ Size \in Nat
  BY StringsAssumption
<1>2. \E s \in p .. e : s \in G /\ \A r \in p .. s - 1 : r \notin G
  <2> HIDE DEF G
  <2>1. \E s : AtFirst(s, p, e, G)
    BY <1>1, Least
  <2> QED
    BY <2>1 DEF AtFirst
<1>3. \E s \in p .. Size : (s = p + n \/ m[s] = c)
                           /\ \A r \in p .. s - 1 : ~(r = p + n \/ m[r] = c)
  BY <1>1, <1>2
<1>4. f \in p .. Size /\ (f = p + n \/ m[f] = c)
      /\ \A r \in p .. f - 1 : ~(r = p + n \/ m[r] = c)
  BY <1>3
<1>5. Memchr(m, p, c, n) = IF f = p + n THEN Null ELSE f
  BY DEF Memchr, First
<1> HIDE DEF f
<1>6. ~(e < f)
  BY <1>1, <1>4
<1> QED
  BY <1>1, <1>4, <1>5, <1>6 DEF MemchrStops

LEMMA StrchrIs ==
  ASSUME NEW m, IsMemory(m), NEW p \in Addresses, NEW c
  PROVE  \E s \in p .. p + Strlen(m, p) :
           /\ m[s] \in {c, 0}
           /\ \A r \in p .. s - 1 : m[r] \notin {c, 0}
           /\ Strchr(m, p, c) = IF m[s] = c THEN s ELSE Null
<1> DEFINE e == p + Strlen(m, p)
           G == {x \in Nat : m[x] \in {c, 0}}
           f == CHOOSE s \in p .. Size : m[s] \in {c, 0}
                                         /\ \A r \in p .. s - 1 : ~(m[r] \in {c, 0})
<1>1. e \in G /\ e \in p .. Size /\ e \in Nat /\ p <= e /\ Size \in Nat /\ p \in Nat
  BY StringsAssumption, StrlenIs DEF Addresses
<1> HIDE DEF e
<1>2. \E s \in p .. e : s \in G /\ \A r \in p .. s - 1 : r \notin G
  <2> HIDE DEF G
  <2>1. \E s : AtFirst(s, p, e, G)
    BY <1>1, Least
  <2> QED
    BY <2>1 DEF AtFirst
<1>3. \E s \in p .. Size : m[s] \in {c, 0} /\ \A r \in p .. s - 1 : ~(m[r] \in {c, 0})
  BY <1>1, <1>2
<1>4. f \in p .. Size /\ m[f] \in {c, 0} /\ \A r \in p .. f - 1 : ~(m[r] \in {c, 0})
  BY <1>3
<1>5. Strchr(m, p, c) = IF m[f] = c THEN f ELSE Null
  BY DEF Strchr, First
<1> HIDE DEF f
<1>6. ~(e < f)
  BY <1>1, <1>4
<1> QED
  BY <1>1, <1>4, <1>5, <1>6 DEF e

\* Memcmp looks at no byte behind the one that decides.
MemcmpStops(m, p, q, n, d) ==
  /\ d = n \/ m[p + d] # m[q + d]
  /\ \A r \in 0 .. d - 1 : m[p + r] = m[q + r]
  /\ Memcmp(m, p, q, n) = IF d = n THEN 0 ELSE Sign(m[p + d], m[q + d])

LEMMA MemcmpIs ==
  ASSUME NEW m, NEW p \in Nat, NEW q \in Nat, NEW n \in Nat, n <= Size
  PROVE  \E d \in 0 .. n : MemcmpStops(m, p, q, n, d)
<1> DEFINE G == {x \in Nat : x = n \/ m[p + x] # m[q + x]}
           f == CHOOSE s \in 0 .. Size : (s = n \/ m[p + s] # m[q + s])
                                 /\ \A r \in 0 .. s - 1 : ~(r = n \/ m[p + r] # m[q + r])
<1>1. n \in G /\ n \in Nat /\ 0 <= n /\ Size \in Nat
  BY StringsAssumption
<1>2. \E s \in 0 .. n : s \in G /\ \A r \in 0 .. s - 1 : r \notin G
  <2> HIDE DEF G
  <2>1. \E s : AtFirst(s, 0, n, G)
    BY <1>1, Least
  <2> QED
    BY <2>1 DEF AtFirst
<1>3. \E s \in 0 .. Size : (s = n \/ m[p + s] # m[q + s])
                           /\ \A r \in 0 .. s - 1 : ~(r = n \/ m[p + r] # m[q + r])
  BY <1>1, <1>2
<1>4. f \in 0 .. Size /\ (f = n \/ m[p + f] # m[q + f])
      /\ \A r \in 0 .. f - 1 : ~(r = n \/ m[p + r] # m[q + r])
  BY <1>3
<1>5. Memcmp(m, p, q, n) = IF f = n THEN 0 ELSE Sign(m[p + f], m[q + f])
  BY DEF Memcmp, First
<1> HIDE DEF f
<1>6. ~(n < f)
  BY <1>1, <1>4
<1> QED
  BY <1>1, <1>4, <1>5, <1>6 DEF MemcmpStops

LEMMA StrncmpIs ==
  ASSUME NEW m, IsMemory(m), NEW p \in Addresses, NEW q \in Addresses, NEW n \in 0 .. Size
  PROVE  \E d \in 0 .. n :
           /\ d = n \/ m[p + d] # m[q + d] \/ m[p + d] = 0
           /\ d <= Strlen(m, p) /\ d <= Strlen(m, q)
           /\ \A r \in 0 .. d - 1 : m[p + r] = m[q + r]
           /\ Strncmp(m, p, q, n) =
                IF d = n \/ m[p + d] = m[q + d] THEN 0 ELSE Sign(m[p + d], m[q + d])
<1> DEFINE Stops(k) == k = n \/ m[p + k] # m[q + k] \/ m[p + k] = 0
           l == Strlen(m, p)
           e == IF l < n THEN l ELSE n
           G == {x \in Nat : Stops(x)}
           f == CHOOSE s \in 0 .. Size : Stops(s) /\ \A r \in 0 .. s - 1 : ~Stops(r)
<1>1. e \in G /\ e \in Nat /\ 0 <= e /\ e <= Size /\ e <= n /\ e <= l /\ Size \in Nat
      /\ l \in Nat
  BY StringsAssumption, StrlenIs DEF Addresses
<1> HIDE DEF e, l
<1>2. \E s \in 0 .. e : s \in G /\ \A r \in 0 .. s - 1 : r \notin G
  <2> HIDE DEF G
  <2>1. \E s : AtFirst(s, 0, e, G)
    BY <1>1, Least
  <2> QED
    BY <2>1 DEF AtFirst
<1>3. \E s \in 0 .. Size : Stops(s) /\ \A r \in 0 .. s - 1 : ~Stops(r)
  BY <1>1, <1>2
<1>4. f \in 0 .. Size /\ Stops(f) /\ \A r \in 0 .. f - 1 : ~Stops(r)
  BY <1>3
<1>5. Strncmp(m, p, q, n) =
        IF f = n \/ m[p + f] = m[q + f] THEN 0 ELSE Sign(m[p + f], m[q + f])
  BY DEF Strncmp, First
<1> HIDE DEF f
<1>6. ~(e < f)
  BY <1>1, <1>4
<1>7. f <= Strlen(m, q)
  <2>1. /\ Strlen(m, q) \in Nat /\ m[q + Strlen(m, q)] = 0
    BY StrlenIs DEF Addresses
  <2>2. ~(Strlen(m, q) < f)
    <3> SUFFICES ASSUME Strlen(m, q) < f PROVE FALSE
      OBVIOUS
    <3>1. Strlen(m, q) \in 0 .. f - 1
      BY <1>4, <2>1
    <3> QED
      BY <1>4, <2>1, <3>1
  <2> QED
    BY <1>4, <2>1, <2>2
<1> QED
  BY <1>1, <1>4, <1>5, <1>6, <1>7 DEF l

LEMMA StrspnIs ==
  ASSUME NEW m, IsMemory(m), NEW p \in Addresses, NEW set
  PROVE  \E s \in p .. p + Strlen(m, p) :
           /\ m[s] = 0 \/ m[s] \notin set
           /\ \A r \in p .. s - 1 : m[r] # 0 /\ m[r] \in set
           /\ Strspn(m, p, set) = s - p
<1> DEFINE e == p + Strlen(m, p)
           G == {x \in Nat : m[x] = 0 \/ m[x] \notin set}
           f == CHOOSE s \in p .. Size : (m[s] = 0 \/ m[s] \notin set)
                                 /\ \A r \in p .. s - 1 : ~(m[r] = 0 \/ m[r] \notin set)
<1>1. e \in G /\ e \in p .. Size /\ e \in Nat /\ p <= e /\ Size \in Nat /\ p \in Nat
  BY StringsAssumption, StrlenIs DEF Addresses
<1> HIDE DEF e
<1>2. \E s \in p .. e : s \in G /\ \A r \in p .. s - 1 : r \notin G
  <2> HIDE DEF G
  <2>1. \E s : AtFirst(s, p, e, G)
    BY <1>1, Least
  <2> QED
    BY <2>1 DEF AtFirst
<1>3. \E s \in p .. Size : (m[s] = 0 \/ m[s] \notin set)
                           /\ \A r \in p .. s - 1 : ~(m[r] = 0 \/ m[r] \notin set)
  BY <1>1, <1>2
<1>4. f \in p .. Size /\ (m[f] = 0 \/ m[f] \notin set)
      /\ \A r \in p .. f - 1 : ~(m[r] = 0 \/ m[r] \notin set)
  BY <1>3
<1>5. Strspn(m, p, set) = f - p
  BY DEF Strspn, First
<1> HIDE DEF f
<1>6. ~(e < f)
  BY <1>1, <1>4
<1> QED
  BY <1>1, <1>4, <1>5, <1>6 DEF e

LEMMA StrcspnIs ==
  ASSUME NEW m, IsMemory(m), NEW p \in Addresses, NEW set
  PROVE  \E s \in p .. p + Strlen(m, p) :
           /\ m[s] = 0 \/ m[s] \in set
           /\ \A r \in p .. s - 1 : m[r] # 0 /\ m[r] \notin set
           /\ Strcspn(m, p, set) = s - p
<1> DEFINE e == p + Strlen(m, p)
           G == {x \in Nat : m[x] = 0 \/ m[x] \in set}
           f == CHOOSE s \in p .. Size : (m[s] = 0 \/ m[s] \in set)
                                 /\ \A r \in p .. s - 1 : ~(m[r] = 0 \/ m[r] \in set)
<1>1. e \in G /\ e \in p .. Size /\ e \in Nat /\ p <= e /\ Size \in Nat /\ p \in Nat
  BY StringsAssumption, StrlenIs DEF Addresses
<1> HIDE DEF e
<1>2. \E s \in p .. e : s \in G /\ \A r \in p .. s - 1 : r \notin G
  <2> HIDE DEF G
  <2>1. \E s : AtFirst(s, p, e, G)
    BY <1>1, Least
  <2> QED
    BY <2>1 DEF AtFirst
<1>3. \E s \in p .. Size : (m[s] = 0 \/ m[s] \in set)
                           /\ \A r \in p .. s - 1 : ~(m[r] = 0 \/ m[r] \in set)
  BY <1>1, <1>2
<1>4. f \in p .. Size /\ (m[f] = 0 \/ m[f] \in set)
      /\ \A r \in p .. f - 1 : ~(m[r] = 0 \/ m[r] \in set)
  BY <1>3
<1>5. Strcspn(m, p, set) = f - p
  BY DEF Strcspn, First
<1> HIDE DEF f
<1>6. ~(e < f)
  BY <1>1, <1>4
<1> QED
  BY <1>1, <1>4, <1>5, <1>6 DEF e
-----------------------------------------------------------------------------
(***************************************************************************)
(* What each search and each comparison returns is what FindsRight says.   *)
(***************************************************************************)
Holding(m, p, c, n) == {r \in p .. p + n - 1 : m[r] = c}

LEMMA MemchrFinds ==
  ASSUME NEW m, NEW p \in Nat, NEW n \in Nat, p + n <= Size, NEW c
  PROVE  IsLeast(Memchr(m, p, c, n), Holding(m, p, c, n))
<1>1. PICK e \in p .. Size : e = p + n
  BY StringsAssumption
<1>2. PICK s \in p .. e :
        /\ s = p + n \/ m[s] = c
        /\ \A r \in p .. s - 1 : r # p + n /\ m[r] # c
        /\ Memchr(m, p, c, n) = IF s = p + n THEN Null ELSE s
  <2>1. e = p + n \/ m[e] = c
    BY <1>1
  <2>2. PICK s \in p .. e : MemchrStops(m, p, c, n, s)
    BY <2>1, MemchrIs
  <2> QED
    BY <2>2 DEF MemchrStops
<1>3. CASE s = p + n
  <2>1. {r \in p .. p + n - 1 : m[r] = c} = {}
    BY <1>2, <1>3
  <2> QED
    BY <1>2, <1>3, <2>1 DEF IsLeast, Holding
<1>4. CASE s # p + n
  <2>1. s \in {r \in p .. p + n - 1 : m[r] = c}
    BY <1>1, <1>2, <1>4
  <2>2. \A r \in {x \in p .. p + n - 1 : m[x] = c} : s <= r
    BY <1>1, <1>2, <1>4
  <2> QED
    BY <1>2, <1>4, <2>1, <2>2 DEF IsLeast, Holding
<1> QED
  BY <1>3, <1>4

LEMMA StrchrFinds ==
  ASSUME NEW m, IsMemory(m), NEW p \in Addresses, NEW c
  PROVE  IsLeast(Strchr(m, p, c), {r \in p .. p + Strlen(m, p) : m[r] = c})
<1>1. PICK s \in p .. p + Strlen(m, p) :
        /\ m[s] \in {c, 0}
        /\ \A r \in p .. s - 1 : m[r] \notin {c, 0}
        /\ Strchr(m, p, c) = IF m[s] = c THEN s ELSE Null
  BY StrchrIs
<1>2. /\ Strlen(m, p) \in Nat /\ p \in Nat
      /\ \A r \in p .. p + Strlen(m, p) - 1 : m[r] # 0
  BY StrlenIs DEF Addresses
<1>3. CASE m[s] = c
  <2>1. s \in {r \in p .. p + Strlen(m, p) : m[r] = c}
    BY <1>3
  <2>2. \A r \in {x \in p .. p + Strlen(m, p) : m[x] = c} : s <= r
    BY <1>1, <1>2
  <2> QED
    BY <1>1, <1>3, <2>1, <2>2 DEF IsLeast
<1>4. CASE m[s] # c
  <2>1. s = p + Strlen(m, p)
    BY <1>1, <1>2, <1>4
  <2>2. {r \in p .. p + Strlen(m, p) : m[r] = c} = {}
    BY <1>1, <1>2, <1>4, <2>1
  <2> QED
    BY <1>1, <1>4, <2>2 DEF IsLeast
<1> QED
  BY <1>3, <1>4

LEMMA StrrchrFinds ==
  ASSUME NEW m, IsMemory(m), NEW p \in Addresses, NEW c
  PROVE  LET s == StringAt(m, p)
             r == Strrchr(m, p, c)
         IN  IF c \in Range(s) \cup {0}
             THEN /\ r \in p .. p + Len(s) /\ m[r] = c
                  /\ c \notin {m[x] : x \in r + 1 .. p + Len(s)}
             ELSE r = Null
<1> DEFINE s == StringAt(m, p)
           l == Strlen(m, p)
           found == {x \in p .. p + l : m[x] = c}
           last == CHOOSE x \in found : \A y \in found : y <= x
<1>1. l \in Nat /\ p \in Nat /\ m[p + l] = 0
  BY StrlenIs DEF Addresses
<1>2. Len(s) = l /\ DOMAIN s = 1 .. l /\ \A k \in 1 .. l : s[k] = m[p + k - 1]
  BY TextIs, LenProperties
<1>3. Strrchr(m, p, c) = IF found = {} THEN Null ELSE last
  BY DEF Strrchr
<1> HIDE DEF s, l
<1>4. c \in Range(s) <=> \E k \in 1 .. l : m[p + k - 1] = c
  BY <1>2 DEF Range
<1>5. c \in Range(s) \cup {0} <=> found # {}
  <2>1. ASSUME NEW x \in p .. p + l, m[x] = c, c # 0 PROVE \E k \in 1 .. l : m[p + k - 1] = c
    <3>1. x - p + 1 \in 1 .. l /\ p + (x - p + 1) - 1 = x
      BY <1>1, <2>1
    <3> QED
      BY <2>1, <3>1
  <2>2. ASSUME NEW k \in 1 .. l, m[p + k - 1] = c PROVE p + k - 1 \in found
    BY <1>1, <2>2
  <2>3. c = 0 => p + l \in found
    BY <1>1
  <2> QED
    BY <1>4, <2>1, <2>2, <2>3
<1>6. ASSUME found # {}
      PROVE  /\ last \in p .. p + l /\ m[last] = c
             /\ c \notin {m[x] : x \in last + 1 .. p + l}
  <2> DEFINE G == {d \in Nat : p + l - d \in found}
  <2>1. PICK x \in found : TRUE
    BY <1>6
  <2>2. p + l - x \in Nat /\ p + l - x \in G /\ 0 <= p + l - x /\ 0 \in Nat
    BY <1>1
  <2>3. \E d \in 0 .. p + l - x : d \in G /\ \A r \in 0 .. d - 1 : r \notin G
    <3> HIDE DEF G
    <3>1. \E d : AtFirst(d, 0, p + l - x, G)
      BY <2>2, Least
    <3> QED
      BY <3>1 DEF AtFirst
  <2>4. PICK d \in 0 .. p + l - x : d \in G /\ \A r \in 0 .. d - 1 : r \notin G
    BY <2>3
  <2>5. ASSUME NEW y \in found, ~(y <= p + l - d) PROVE FALSE
    <3>1. p + l - y \in 0 .. d - 1 /\ p + l - (p + l - y) = y
      BY <1>1, <2>2, <2>4, <2>5
    <3> QED
      BY <2>4, <3>1
  <2>6. \E e \in found : \A y \in found : y <= e
    BY <2>4, <2>5
  <2>7. last \in found /\ \A y \in found : y <= last
    BY <2>6
  <2> HIDE DEF last
  <2> QED
    BY <1>1, <2>7
<1> QED
  BY <1>2, <1>3, <1>5, <1>6 DEF s

LEMMA CharsAre ==
  ASSUME NEW m, IsMemory(m), NEW p \in Addresses
  PROVE  Chars(m, p) = Range(StringAt(m, p)) /\ 0 \notin Chars(m, p)
<1> DEFINE s == StringAt(m, p)
           l == Strlen(m, p)
<1>1. /\ l \in Nat /\ p \in Nat /\ \A r \in p .. p + l - 1 : m[r] # 0
  BY StrlenIs DEF Addresses
<1>2. DOMAIN s = 1 .. l /\ \A k \in 1 .. l : s[k] = m[p + k - 1]
  BY TextIs, LenProperties
<1> HIDE DEF s
<1>3. Chars(m, p) = {m[r] : r \in p .. p + l - 1}
  BY DEF Chars
<1> HIDE DEF l
<1>4. \A r \in p .. p + l - 1 : r - p + 1 \in 1 .. l /\ p + (r - p + 1) - 1 = r
  BY <1>1
<1>5. \A k \in 1 .. l : p + k - 1 \in p .. p + l - 1
  BY <1>1
<1>6. Chars(m, p) \subseteq Range(s)
  BY <1>2, <1>3, <1>4 DEF Range
<1>7. Range(s) \subseteq Chars(m, p)
  BY <1>2, <1>3, <1>5 DEF Range
<1> QED
  BY <1>1, <1>3, <1>6, <1>7 DEF s

LEMMA CutRange ==
  ASSUME NEW s \in Seq(Int), NEW n \in 0 .. Len(s)
  PROVE  Range(Cut(s, n)) = {s[k] : k \in 1 .. n}
<1>1. n \in Nat /\ Len(s) \in Nat
  OBVIOUS
<1>2. /\ Cut(s, n) \in Seq(Int) /\ Len(Cut(s, n)) = n
      /\ \A k \in 1 .. n : Cut(s, n)[k] = s[k]
  BY <1>1, CutIs
<1>3. DOMAIN Cut(s, n) = 1 .. n
  BY <1>2, LenProperties
<1> QED
  BY <1>2, <1>3 DEF Range

LEMMA SpanFinds ==
  ASSUME NEW m, IsMemory(m), NEW p \in Addresses, NEW set, 0 \notin set
  PROVE  LET s == StringAt(m, p)
             n == Strspn(m, p, set)
             k == Strcspn(m, p, set)
         IN  /\ Range(Cut(s, n)) \subseteq set
             /\ n = Len(s) \/ s[n + 1] \notin set
             /\ Range(Cut(s, k)) \cap set = {}
             /\ k = Len(s) \/ s[k + 1] \in set
             /\ k \in 0 .. Len(s)
<1> DEFINE s == StringAt(m, p)
           l == Strlen(m, p)
<1>1. /\ l \in Nat /\ p \in Nat /\ m[p + l] = 0 /\ \A r \in p .. p + l - 1 : m[r] # 0
  BY StrlenIs DEF Addresses
<1>2. Len(s) = l /\ s \in Seq(Int) /\ \A k \in 1 .. l : s[k] = m[p + k - 1]
  BY TextIs
<1>3. PICK e \in p .. p + l :
        /\ m[e] = 0 \/ m[e] \notin set
        /\ \A r \in p .. e - 1 : m[r] # 0 /\ m[r] \in set
        /\ Strspn(m, p, set) = e - p
  BY StrspnIs
<1>4. PICK f \in p .. p + l :
        /\ m[f] = 0 \/ m[f] \in set
        /\ \A r \in p .. f - 1 : m[r] # 0 /\ m[r] \notin set
        /\ Strcspn(m, p, set) = f - p
  BY StrcspnIs
<1> HIDE DEF s, l
<1>5. \A n \in 0 .. l : Range(Cut(s, n)) = {s[k] : k \in 1 .. n}
  BY <1>2, CutRange
<1>6. e - p \in 0 .. l /\ f - p \in 0 .. l
  BY <1>1
<1>7. /\ \A k \in 1 .. e - p : p + k - 1 \in p .. e - 1
      /\ \A k \in 1 .. f - p : p + k - 1 \in p .. f - 1
  BY <1>1
<1>8. Range(Cut(s, e - p)) \subseteq set /\ Range(Cut(s, f - p)) \cap set = {}
  <2>0. (\A k \in 1 .. e - p : k \in 1 .. l) /\ (\A k \in 1 .. f - p : k \in 1 .. l)
    BY <1>1
  <2>1. \A k \in 1 .. e - p : s[k] \in set
    BY <1>2, <1>3, <1>7, <2>0, Zenon
  <2>2. \A k \in 1 .. f - p : s[k] \notin set
    BY <1>2, <1>4, <1>7, <2>0, Zenon
  <2> QED
    BY <1>5, <1>6, <2>1, <2>2
<1>9. e - p = l \/ s[e - p + 1] \notin set
  BY <1>1, <1>2, <1>3, <1>6
<1>10. f - p = l \/ s[f - p + 1] \in set
  BY <1>1, <1>2, <1>4, <1>6
<1> QED
  BY <1>2, <1>3, <1>4, <1>6, <1>8, <1>9, <1>10 DEF s

LEMMA StrpbrkFinds ==
  ASSUME NEW m, IsMemory(m), NEW p \in Addresses, NEW set, 0 \notin set
  PROVE  LET s == StringAt(m, p) IN
         IsLeast(Strpbrk(m, p, set), {p + k - 1 : k \in {j \in 1 .. Len(s) : s[j] \in set}})
<1> DEFINE s == StringAt(m, p)
           l == Strlen(m, p)
           places == {p + k - 1 : k \in {j \in 1 .. Len(s) : s[j] \in set}}
<1>1. /\ l \in Nat /\ p \in Nat /\ m[p + l] = 0 /\ \A r \in p .. p + l - 1 : m[r] # 0
  BY StrlenIs DEF Addresses
<1>2. Len(s) = l /\ \A k \in 1 .. l : s[k] = m[p + k - 1]
  BY TextIs
<1>3. PICK f \in p .. p + l :
        /\ m[f] = 0 \/ m[f] \in set
        /\ \A r \in p .. f - 1 : m[r] # 0 /\ m[r] \notin set
        /\ Strcspn(m, p, set) = f - p
  BY StrcspnIs
<1>4. Strpbrk(m, p, set) = IF m[f] = 0 THEN Null ELSE f
  BY <1>1, <1>3 DEF Strpbrk
<1> HIDE DEF s, l
<1>5. \A r : r \in places <=> r \in p .. p + l - 1 /\ m[r] \in set
  <2> TAKE r
  <2>1. r \in places => r \in p .. p + l - 1 /\ m[r] \in set
    BY <1>1, <1>2
  <2>2. ASSUME r \in p .. p + l - 1, m[r] \in set PROVE r \in places
    <3>1. r - p + 1 \in 1 .. l /\ p + (r - p + 1) - 1 = r
      BY <1>1, <2>2
    <3>2. s[r - p + 1] \in set
      BY <1>2, <2>2, <3>1
    <3> QED
      BY <1>2, <3>1, <3>2
  <2> QED
    BY <2>1, <2>2
<1> HIDE DEF places
<1>6. CASE m[f] = 0
  <2>1. f = p + l
    BY <1>1, <1>3, <1>6
  <2>2. \A r \in p .. p + l - 1 : r \in p .. f - 1
    BY <1>1, <2>1
  <2>3. places = {}
    BY <1>3, <1>5, <2>2
  <2> QED
    BY <1>4, <1>6, <2>3 DEF IsLeast, places, s
<1>7. CASE m[f] # 0
  <2>1. f \in places
    BY <1>1, <1>3, <1>5, <1>7
  <2>2. \A r \in places : f <= r
    BY <1>1, <1>3, <1>5
  <2> QED
    BY <1>4, <1>7, <2>1, <2>2 DEF IsLeast, places, s
<1> QED
  BY <1>6, <1>7

\* The order of two sequences is decided where they begin to differ.
LessFrom(s, u, k) ==
  /\ k - 1 <= Len(s) /\ \A j \in 1 .. k - 1 : s[j] = u[j]
  /\ k <= Len(s) => s[k] < u[k]

LEMMA LessIs ==
  ASSUME NEW s \in Seq(Int), NEW u \in Seq(Int)
  PROVE  Less(s, u) <=> \E k \in 1 .. Len(u) : LessFrom(s, u, k)
<1>1. ASSUME NEW k \in 1 .. Len(u)
      PROVE  (Cut(s, k - 1) = Cut(u, k - 1))
               <=> (k - 1 <= Len(s) /\ \A j \in 1 .. k - 1 : s[j] = u[j])
  <2>0. k - 1 \in Nat /\ Len(s) \in Nat /\ Len(u) \in Nat /\ k - 1 < Len(u)
    OBVIOUS
  <2>1. /\ Cut(s, k - 1) \in Seq(Int)
        /\ Len(Cut(s, k - 1)) = IF Len(s) < k - 1 THEN Len(s) ELSE k - 1
        /\ \A j \in 1 .. Len(Cut(s, k - 1)) : Cut(s, k - 1)[j] = s[j]
    BY <2>0, CutIs
  <2>2. /\ Cut(u, k - 1) \in Seq(Int)
        /\ Len(Cut(u, k - 1)) = k - 1
        /\ \A j \in 1 .. Len(Cut(u, k - 1)) : Cut(u, k - 1)[j] = u[j]
    <3>1. /\ Cut(u, k - 1) \in Seq(Int)
          /\ Len(Cut(u, k - 1)) = IF Len(u) < k - 1 THEN Len(u) ELSE k - 1
          /\ \A j \in 1 .. Len(Cut(u, k - 1)) : Cut(u, k - 1)[j] = u[j]
      BY <2>0, CutIs
    <3> QED
      BY <2>0, <3>1
  <2>3. ASSUME Cut(s, k - 1) = Cut(u, k - 1)
        PROVE  k - 1 <= Len(s) /\ \A j \in 1 .. k - 1 : s[j] = u[j]
    <3>1. Len(Cut(s, k - 1)) = k - 1
      BY <2>2, <2>3
    <3>2. k - 1 <= Len(s)
      BY <2>0, <2>1, <3>1
    <3>3. \A j \in 1 .. k - 1 : Cut(s, k - 1)[j] = s[j] /\ Cut(u, k - 1)[j] = u[j]
      BY <2>1, <2>2, <3>1
    <3> QED
      BY <2>3, <3>2, <3>3
  <2>4. ASSUME k - 1 <= Len(s), \A j \in 1 .. k - 1 : s[j] = u[j]
        PROVE  Cut(s, k - 1) = Cut(u, k - 1)
    <3>0. ~(Len(s) < k - 1)
      BY <2>0, <2>4
    <3>1. Len(Cut(s, k - 1)) = k - 1
      BY <2>1, <3>0
    <3>2. \A j \in 1 .. k - 1 : Cut(s, k - 1)[j] = Cut(u, k - 1)[j]
      BY <2>1, <2>2, <2>4, <3>1
    <3>3. PICK w \in Seq(Int) : w = Cut(s, k - 1)
      BY <2>1
    <3>4. PICK z \in Seq(Int) : z = Cut(u, k - 1)
      BY <2>2
    <3>5. Len(w) = Len(z) /\ \A j \in 1 .. Len(w) : w[j] = z[j]
      BY <2>2, <3>1, <3>2, <3>3, <3>4
    <3> QED
      BY <3>3, <3>4, <3>5, SeqEqual
  <2> QED
    BY <2>3, <2>4
<1> QED
  BY <1>1 DEF Less, LessFrom

LEMMA OrderIs ==
  ASSUME NEW s \in Seq(Int), NEW u \in Seq(Int), NEW d \in Nat, d <= Len(s), d <= Len(u),
         \A k \in 1 .. d : s[k] = u[k]
  PROVE  /\ d = Len(s) /\ d = Len(u) => Order(s, u) = 0
         /\ d < Len(u) /\ (d < Len(s) => s[d + 1] < u[d + 1]) => Order(s, u) = 0 - 1
         /\ d < Len(s) /\ (d < Len(u) => u[d + 1] < s[d + 1]) => Order(s, u) = 1
<1>1. /\ Len(s) \in Nat /\ Len(u) \in Nat
      /\ \A k \in 1 .. Len(s) : s[k] \in Int
      /\ \A k \in 1 .. Len(u) : u[k] \in Int
  OBVIOUS
<1>2. ASSUME d = Len(s), d = Len(u) PROVE Order(s, u) = 0
  <2>1. s = u
    BY <1>2, SeqEqual
  <2> QED
    BY <2>1 DEF Order
<1>3. ASSUME d < Len(u), d < Len(s) => s[d + 1] < u[d + 1] PROVE Order(s, u) = 0 - 1
  <2>1. s # u
    BY <1>1, <1>3
  <2>2. d + 1 \in 1 .. Len(u) /\ LessFrom(s, u, d + 1)
    BY <1>1, <1>3 DEF LessFrom
  <2>3. Less(s, u)
    BY <2>2, LessIs
  <2> QED
    BY <2>1, <2>3 DEF Order
<1>4. ASSUME d < Len(s), d < Len(u) => u[d + 1] < s[d + 1] PROVE Order(s, u) = 1
  <2>1. s # u
    BY <1>1, <1>4
  <2>2. ASSUME NEW k \in 1 .. Len(u), k - 1 <= Len(s), \A j \in 1 .. k - 1 : s[j] = u[j],
               k <= Len(s) => s[k] < u[k]
        PROVE  FALSE
    <3>1. CASE k <= d
      BY <1>1, <2>2, <3>1
    <3>2. CASE k = d + 1
      BY <1>1, <1>4, <2>2, <3>2
    <3>3. CASE k > d + 1
      <4>1. d + 1 \in 1 .. k - 1 /\ d < Len(u) /\ d + 1 \in 1 .. Len(s)
        BY <1>1, <1>4, <2>2, <3>3
      <4>2. s[d + 1] = u[d + 1] /\ u[d + 1] < s[d + 1] /\ s[d + 1] \in Int
        BY <1>1, <1>4, <2>2, <4>1
      <4> QED
        BY <4>2
    <3>4. k <= d \/ k = d + 1 \/ k > d + 1
      BY <1>1
    <3> QED
      BY <3>1, <3>2, <3>3, <3>4
  <2>3. ~\E k \in 1 .. Len(u) : LessFrom(s, u, k)
    BY <2>2 DEF LessFrom
  <2>4. ~Less(s, u)
    BY <2>3, LessIs
  <2> QED
    BY <2>1, <2>4 DEF Order
<1> QED
  BY <1>2, <1>3, <1>4

LEMMA MemcmpOrders ==
  ASSUME NEW m, IsMemory(m), NEW p \in Nat, NEW q \in Nat, NEW n \in Nat,
         p + n <= Size, q + n <= Size
  PROVE  Memcmp(m, p, q, n) = Order(BytesAt(m, p, n), BytesAt(m, q, n))
<1> DEFINE s == BytesAt(m, p, n)
           u == BytesAt(m, q, n)
<1>1. s \in Seq(Int) /\ Len(s) = n /\ \A k \in 1 .. n : s[k] = m[p + k - 1]
  BY BytesAre DEF IsMemory
<1>2. u \in Seq(Int) /\ Len(u) = n /\ \A k \in 1 .. n : u[k] = m[q + k - 1]
  BY BytesAre DEF IsMemory
<1>3. n <= Size /\ Size \in Nat
  BY StringsAssumption
<1>4. PICK d \in 0 .. n :
        /\ d = n \/ m[p + d] # m[q + d]
        /\ \A r \in 0 .. d - 1 : m[p + r] = m[q + r]
        /\ Memcmp(m, p, q, n) = IF d = n THEN 0 ELSE Sign(m[p + d], m[q + d])
  <2>1. PICK d \in 0 .. n : MemcmpStops(m, p, q, n, d)
    BY <1>3, MemcmpIs
  <2> QED
    BY <2>1 DEF MemcmpStops
<1> HIDE DEF s, u
<1>5. ASSUME NEW k \in 1 .. d PROVE s[k] = u[k]
  <2>1. k \in 1 .. n /\ k - 1 \in 0 .. d - 1 /\ p + (k - 1) = p + k - 1 /\ q + (k - 1) = q + k - 1
    OBVIOUS
  <2> QED
    BY <1>1, <1>2, <1>4, <2>1
<1>6. /\ d = n => Order(s, u) = 0
      /\ d < n /\ s[d + 1] < u[d + 1] => Order(s, u) = 0 - 1
      /\ d < n /\ u[d + 1] < s[d + 1] => Order(s, u) = 1
  <2>1. d \in Nat /\ d <= Len(s) /\ d <= Len(u)
    BY <1>1, <1>2
  <2>2. /\ d = Len(s) /\ d = Len(u) => Order(s, u) = 0
        /\ d < Len(u) /\ (d < Len(s) => s[d + 1] < u[d + 1]) => Order(s, u) = 0 - 1
        /\ d < Len(s) /\ (d < Len(u) => u[d + 1] < s[d + 1]) => Order(s, u) = 1
    BY <1>1, <1>2, <1>5, <2>1, OrderIs
  <2> QED
    BY <1>1, <1>2, <2>2
<1>7. CASE d = n
  BY <1>4, <1>6, <1>7 DEF s, u
<1>8. CASE d # n
  <2>1. d < n /\ d + 1 \in 1 .. n /\ p + (d + 1) - 1 = p + d /\ q + (d + 1) - 1 = q + d
    BY <1>8
  <2>2. s[d + 1] = m[p + d] /\ u[d + 1] = m[q + d]
    BY <1>1, <1>2, <2>1
  <2>3. s[d + 1] \in Int /\ u[d + 1] \in Int /\ s[d + 1] # u[d + 1]
    BY <1>1, <1>2, <1>4, <1>8, <2>1, <2>2
  <2>4. Memcmp(m, p, q, n) = Sign(s[d + 1], u[d + 1])
    BY <1>4, <1>8, <2>2
  <2> QED
    BY <1>6, <2>1, <2>3, <2>4 DEF Sign, s, u
<1> QED
  BY <1>7, <1>8

\* A char that is less than zero would be less than the end of a string.
LEMMA StrncmpOrders ==
  ASSUME NEW m, IsMemory(m), \A r \in Addresses : m[r] >= 0,
         NEW p \in Addresses, NEW q \in Addresses, NEW n \in 0 .. Size
  PROVE  Strncmp(m, p, q, n) = Order(Cut(StringAt(m, p), n), Cut(StringAt(m, q), n))
<1> DEFINE s == Cut(StringAt(m, p), n)
           u == Cut(StringAt(m, q), n)
           l == Strlen(m, p)
           h == Strlen(m, q)
<1>1. /\ n \in Nat /\ Size \in Nat /\ p \in 0 .. Size - 1 /\ q \in 0 .. Size - 1
      /\ l \in 0 .. Size - 1 - p /\ h \in 0 .. Size - 1 - q
      /\ m[p + l] = 0 /\ m[q + h] = 0
  BY StringsAssumption, StrlenIs DEF Addresses
<1>2. /\ s \in Seq(Int) /\ Len(s) = IF l < n THEN l ELSE n
      /\ \A k \in 1 .. Len(s) : s[k] = m[p + k - 1] /\ m[p + k - 1] # 0 /\ p + k - 1 \in Addresses
  <2>1. /\ StringAt(m, p) \in Seq(Int) /\ Len(StringAt(m, p)) = l
        /\ \A k \in 1 .. l : StringAt(m, p)[k] = m[p + k - 1] /\ m[p + k - 1] # 0
                             /\ p + k - 1 \in Addresses
    BY TextIs
  <2>2. /\ s \in Seq(Int) /\ Len(s) = IF l < n THEN l ELSE n
        /\ \A k \in 1 .. Len(s) : s[k] = StringAt(m, p)[k]
    BY <1>1, <2>1, CutIs
  <2> HIDE DEF s, l
  <2>3. \A k \in 1 .. Len(s) : k \in 1 .. l
    BY <1>1, <2>2
  <2> QED
    BY <2>1, <2>2, <2>3
<1>3. /\ u \in Seq(Int) /\ Len(u) = IF h < n THEN h ELSE n
      /\ \A k \in 1 .. Len(u) : u[k] = m[q + k - 1] /\ m[q + k - 1] # 0 /\ q + k - 1 \in Addresses
  <2>1. /\ StringAt(m, q) \in Seq(Int) /\ Len(StringAt(m, q)) = h
        /\ \A k \in 1 .. h : StringAt(m, q)[k] = m[q + k - 1] /\ m[q + k - 1] # 0
                             /\ q + k - 1 \in Addresses
    BY TextIs
  <2>2. /\ u \in Seq(Int) /\ Len(u) = IF h < n THEN h ELSE n
        /\ \A k \in 1 .. Len(u) : u[k] = StringAt(m, q)[k]
    BY <1>1, <2>1, CutIs
  <2> HIDE DEF u, h
  <2>3. \A k \in 1 .. Len(u) : k \in 1 .. h
    BY <1>1, <2>2
  <2> QED
    BY <2>1, <2>2, <2>3
<1>4. PICK d \in 0 .. n :
        /\ d = n \/ m[p + d] # m[q + d] \/ m[p + d] = 0
        /\ d <= l /\ d <= h
        /\ \A r \in 0 .. d - 1 : m[p + r] = m[q + r]
        /\ Strncmp(m, p, q, n) =
             IF d = n \/ m[p + d] = m[q + d] THEN 0 ELSE Sign(m[p + d], m[q + d])
  BY StrncmpIs
<1> HIDE DEF s, u, l, h
<1>5. d \in Nat /\ d <= Len(s) /\ d <= Len(u)
  BY <1>1, <1>2, <1>3, <1>4
<1>6. ASSUME NEW k \in 1 .. d PROVE s[k] = u[k]
  <2>1. k - 1 \in 0 .. d - 1 /\ p + (k - 1) = p + k - 1 /\ q + (k - 1) = q + k - 1
    BY <1>1
  <2>2. k \in 1 .. Len(s) /\ k \in 1 .. Len(u)
    BY <1>2, <1>3, <1>5
  <2> QED
    BY <1>2, <1>3, <1>4, <2>1, <2>2
<1>7. /\ d = Len(s) /\ d = Len(u) => Order(s, u) = 0
      /\ d < Len(u) /\ (d < Len(s) => s[d + 1] < u[d + 1]) => Order(s, u) = 0 - 1
      /\ d < Len(s) /\ (d < Len(u) => u[d + 1] < s[d + 1]) => Order(s, u) = 1
  BY <1>2, <1>3, <1>5, <1>6, OrderIs
<1>8. /\ p + (d + 1) - 1 = p + d /\ q + (d + 1) - 1 = q + d
      /\ p + d \in Addresses /\ q + d \in Addresses
      /\ d < Len(s) => d + 1 \in 1 .. Len(s)
      /\ d < Len(u) => d + 1 \in 1 .. Len(u)
  BY <1>1, <1>2, <1>3, <1>4 DEF Addresses
<1>9. /\ m[p + d] \in Int /\ m[p + d] >= 0 /\ m[q + d] \in Int /\ m[q + d] >= 0
  BY <1>8 DEF IsMemory
<1>10. d < Len(s) => s[d + 1] = m[p + d] /\ m[p + d] # 0
  BY <1>2, <1>8
<1>11. d < Len(u) => u[d + 1] = m[q + d] /\ m[q + d] # 0
  BY <1>3, <1>8
<1>12. d < n => (d = Len(s) => m[p + d] = 0) /\ (d = Len(u) => m[q + d] = 0)
  <2>1. d < n => (d = Len(s) => d = l) /\ (d = Len(u) => d = h)
    BY <1>1, <1>2, <1>3
  <2> QED
    BY <1>1, <2>1
<1>13. CASE d = n
  <2>1. d = Len(s) /\ d = Len(u)
    BY <1>1, <1>2, <1>3, <1>4, <1>13
  <2> QED
    BY <1>4, <1>7, <1>13, <2>1 DEF s, u
<1>14. CASE d # n /\ m[p + d] = m[q + d]
  <2>1. d = Len(s) /\ d = Len(u)
    BY <1>2, <1>3, <1>4, <1>5, <1>10, <1>11, <1>14
  <2> QED
    BY <1>4, <1>7, <1>14, <2>1 DEF s, u
<1>15. CASE d # n /\ m[p + d] < m[q + d]
  <2>1. d < n /\ d # Len(u) /\ d < Len(u)
    BY <1>1, <1>3, <1>4, <1>5, <1>9, <1>12, <1>15
  <2>2. d < Len(s) => s[d + 1] < u[d + 1]
    BY <1>10, <1>11, <1>15, <2>1
  <2>3. Strncmp(m, p, q, n) = 0 - 1
    BY <1>4, <1>9, <1>15 DEF Sign
  <2> QED
    BY <1>7, <2>1, <2>2, <2>3 DEF s, u
<1>16. CASE d # n /\ m[q + d] < m[p + d]
  <2>1. d < n /\ d # Len(s) /\ d < Len(s)
    BY <1>1, <1>2, <1>4, <1>5, <1>9, <1>12, <1>16
  <2>2. d < Len(u) => u[d + 1] < s[d + 1]
    BY <1>10, <1>11, <1>16, <2>1
  <2>3. Strncmp(m, p, q, n) = 1
    BY <1>4, <1>9, <1>16 DEF Sign
  <2> QED
    BY <1>7, <2>1, <2>2, <2>3 DEF s, u
<1> QED
  BY <1>9, <1>13, <1>14, <1>15, <1>16

Same(m, p, q, n) == \A r \in 0 .. n - 1 : m[p + r] = m[q + r]

LEMMA MemcmpSame ==
  ASSUME NEW m, IsMemory(m), NEW p \in Nat, NEW q \in Nat, NEW n \in Nat,
         p + n <= Size, q + n <= Size
  PROVE  Memcmp(m, p, q, n) = 0 <=> Same(m, p, q, n)
<1>1. n <= Size /\ Size \in Nat
  BY StringsAssumption
<1>2. PICK d \in 0 .. n : MemcmpStops(m, p, q, n, d)
  BY <1>1, MemcmpIs
<1>3. CASE d = n
  BY <1>2, <1>3 DEF MemcmpStops, Same
<1>4. CASE d # n
  <2>1. d \in 0 .. n - 1 /\ m[p + d] # m[q + d]
    BY <1>2, <1>4 DEF MemcmpStops
  <2>2. Memcmp(m, p, q, n) # 0
    BY <1>2, <1>4 DEF MemcmpStops, Sign
  <2> QED
    BY <2>1, <2>2 DEF Same
<1> QED
  BY <1>3, <1>4

LEMMA StrlenFrom ==
  ASSUME NEW m, IsMemory(m), NEW p \in Addresses, NEW x \in p .. p + Strlen(m, p)
  PROVE  x \in Addresses /\ Strlen(m, x) = p + Strlen(m, p) - x
<1> DEFINE l == Strlen(m, p)
<1>1. /\ l \in 0 .. Size - 1 - p /\ m[p + l] = 0 /\ \A r \in p .. p + l - 1 : m[r] # 0
      /\ p \in Nat /\ Size \in Nat /\ x \in p .. p + l
  BY StringsAssumption, StrlenIs DEF Addresses
<1> HIDE DEF l
<1>2. x \in Addresses /\ p + l - x \in 0 .. Size - 1 - x /\ x + (p + l - x) = p + l
  BY <1>1 DEF Addresses
<1>3. \A r \in x .. x + (p + l - x) - 1 : m[r] # 0
  BY <1>1
<1>4. Strlen(m, x) = p + l - x
  BY <1>1, <1>2, <1>3, StrlenBy
<1> QED
  BY <1>2, <1>4 DEF l

\* The string at q is in the text at p, from r on.
IsIn(m, p, q, r) ==
  /\ r + Strlen(m, q) <= p + Strlen(m, p)
  /\ Same(m, r, q, Strlen(m, q))

StrstrStops(m, p, q, s) ==
  \/ s = Null
  \/ s + Strlen(m, q) > p + Strlen(m, p)
  \/ Memcmp(m, s, q, Strlen(m, q)) = 0

\* The place where strstr stays or goes on to.
NextTry(m, p, q, s) == IF StrstrStops(m, p, q, s) THEN s ELSE Strchr(m, s + 1, m[q])

LEMMA StopsAt ==
  ASSUME NEW m, IsMemory(m), NEW p \in Addresses, NEW q \in Addresses,
         NEW s \in Addresses
  PROVE  StrstrStops(m, p, q, s)
           <=> s + Strlen(m, q) > p + Strlen(m, p) \/ IsIn(m, p, q, s)
<1> DEFINE l == Strlen(m, p)
           len == Strlen(m, q)
<1>1. /\ l \in 0 .. Size - 1 - p /\ len \in 0 .. Size - 1 - q
      /\ p \in Nat /\ q \in Nat /\ s \in Nat /\ Size \in Nat
  BY StringsAssumption, StrlenIs DEF Addresses
<1>2. s # Null
  BY <1>1 DEF Null
<1>3. ASSUME s + len <= p + l
      PROVE  Memcmp(m, s, q, len) = 0 <=> Same(m, s, q, len)
  <2> HIDE DEF l, len
  <2>1. s + len <= Size /\ q + len <= Size /\ len \in Nat
    BY <1>1, <1>3
  <2> QED
    BY <1>1, <2>1, MemcmpSame
<1>4. s + len <= p + l \/ s + len > p + l
  BY <1>1
<1>5. ~(s + len <= p + l /\ s + len > p + l)
  BY <1>1
<1> QED
  BY <1>2, <1>3, <1>4, <1>5 DEF StrstrStops, IsIn

\* An address, if it does not stop, has an address behind it.
LEMMA TryIs ==
  ASSUME NEW m, IsMemory(m), NEW p \in Addresses, NEW q \in Addresses,
         NEW s \in Addresses, ~StrstrStops(m, p, q, s)
  PROVE  /\ ~IsIn(m, p, q, s)
         /\ s + 1 \in Addresses
         /\ s + 1 <= p + Strlen(m, p)
         /\ NextTry(m, p, q, s) = Strchr(m, s + 1, m[q])
         /\ NextTry(m, p, q, s) \in Addresses \cup {Null}
<1> DEFINE l == Strlen(m, p)
           len == Strlen(m, q)
<1>1. /\ l \in 0 .. Size - 1 - p /\ len \in 0 .. Size - 1 - q
      /\ p \in Nat /\ q \in Nat /\ s \in Nat /\ Size \in Nat
  BY StringsAssumption, StrlenIs DEF Addresses
<1>2. s + len <= p + l /\ ~IsIn(m, p, q, s)
  <2> HIDE DEF l, len
  <2>1. s + Strlen(m, q) <= p + Strlen(m, p) \/ s + Strlen(m, q) > p + Strlen(m, p)
    BY <1>1 DEF l, len
  <2> QED
    BY <2>1, StopsAt DEF l, len
<1>3. len # 0
  BY <1>1, <1>2 DEF IsIn, Same
<1>4. s + 1 \in Addresses /\ s + 1 <= p + l
  BY <1>1, <1>2, <1>3 DEF Addresses
<1>5. NextTry(m, p, q, s) = Strchr(m, s + 1, m[q])
  BY DEF NextTry
<1>6. PICK r \in s + 1 .. s + 1 + Strlen(m, s + 1) :
        Strchr(m, s + 1, m[q]) = IF m[r] = m[q] THEN r ELSE Null
  <2>1. PICK x : x = s + 1
    OBVIOUS
  <2>2. x \in Addresses
    BY <1>4, <2>1
  <2>3. \E r \in x .. x + Strlen(m, x) : Strchr(m, x, m[q]) = IF m[r] = m[q] THEN r ELSE Null
    BY <2>2, StrchrIs
  <2> QED
    BY <2>1, <2>3
<1>7. r \in Addresses
  <2>1. Strlen(m, s + 1) \in 0 .. Size - 1 - (s + 1)
    BY <1>4, StrlenIs
  <2> QED
    BY <1>1, <2>1 DEF Addresses
<1> QED
  BY <1>2, <1>4, <1>5, <1>6, <1>7

LEMMA StrstrRuns ==
  ASSUME NEW m, IsMemory(m), NEW p \in Addresses, NEW q \in Addresses
  PROVE  \E try :
           /\ try[0] = Strchr(m, p, m[q])
           /\ \A k \in 1 .. Size : try[k] = NextTry(m, p, q, try[k - 1])
           /\ Strstr(m, p, q) =
                IF Strlen(m, q) = 0 THEN p
                ELSE IF try[Size] = Null \/ try[Size] + Strlen(m, q) > p + Strlen(m, p)
                THEN Null ELSE try[Size]
<1> DEFINE A == Addresses \cup {Null}
           x0 == Strchr(m, p, m[q])
           Body(f) == [k \in 0 .. Size |-> IF k = 0 THEN x0 ELSE NextTry(m, p, q, f[k - 1])]
           F == [k \in 1 .. Size |-> [x \in A |-> NextTry(m, p, q, x)]]
           try == CHOOSE f : f = Body(f)
<1>0. Size \in Nat
  BY StringsAssumption
<1>1. x0 \in A
  <2>1. PICK r \in p .. p + Strlen(m, p) : x0 = IF m[r] = m[q] THEN r ELSE Null
    BY StrchrIs
  <2>2. r \in Addresses
    BY StrlenFrom
  <2> QED
    BY <2>1, <2>2
<1>2. F \in [1 .. Size -> [A -> A]]
  <2>1. ASSUME NEW x \in A PROVE NextTry(m, p, q, x) \in A
    <3>1. CASE x = Null
      BY <3>1 DEF NextTry, StrstrStops
    <3>2. CASE x \in Addresses
      BY <3>2, TryIs DEF NextTry
    <3> QED
      BY <3>1, <3>2
  <2> HIDE DEF A
  <2> QED
    BY <2>1
<1>3. PICK f : Iterates(f, A, x0, F, Size)
  <2> HIDE DEF F, A, x0
  <2>1. \E f : Iterates(f, A, x0, F, Size)
    BY <1>0, <1>1, <1>2, Steps
  <2> QED
    BY <2>1
<1>4. f = Body(f)
  <2>1. \A k \in 0 .. Size : k # 0 => k \in 1 .. Size /\ k - 1 \in 0 .. Size
    BY <1>0
  <2>2. \A k \in 0 .. Size : f[k] = Body(f)[k]
    <3> HIDE DEF A, x0
    <3> QED
      BY <1>3, <2>1 DEF Iterates
  <2> QED
    BY <1>3, <2>2 DEF Iterates
<1>5. try = Body(try)
  <2>1. \E g : g = Body(g)
    BY <1>4
  <2> HIDE DEF Body
  <2> QED
    BY <2>1
<1>6. Strstr(m, p, q) =
        IF Strlen(m, q) = 0 THEN p
        ELSE IF try[Size] = Null \/ try[Size] + Strlen(m, q) > p + Strlen(m, p)
        THEN Null ELSE try[Size]
  BY DEF Strstr, NextTry, StrstrStops
<1> HIDE DEF try
<1>7. try[0] = x0 /\ \A k \in 1 .. Size : try[k] = NextTry(m, p, q, try[k - 1])
  <2>1. 0 \in 0 .. Size /\ \A k \in 1 .. Size : k \in 0 .. Size /\ k # 0
    BY <1>0
  <2>2. \A k \in 0 .. Size : try[k] = Body(try)[k]
    BY <1>5
  <2> HIDE DEF x0
  <2> QED
    BY <2>1, <2>2
<1> QED
  BY <1>6, <1>7

\* What strstr knows about the k-th place that it tries.
TriedSoFar(m, p, q, s, k) ==
  /\ s = Null => \A r \in p .. p + Strlen(m, p) : ~IsIn(m, p, q, r)
  /\ s # Null => /\ s \in p .. p + Strlen(m, p)
                 /\ \A r \in p .. s - 1 : ~IsIn(m, p, q, r)
                 /\ s >= p + k \/ StrstrStops(m, p, q, s)

\* From one place to the next one where the first char is, no place is left out.
LEMMA TryNext ==
  ASSUME NEW m, IsMemory(m), NEW p \in Addresses, NEW q \in Addresses, Strlen(m, q) # 0,
         NEW x \in p .. p + Strlen(m, p), \A r \in p .. x - 1 : ~IsIn(m, p, q, r)
  PROVE  LET s == Strchr(m, x, m[q])
         IN  /\ s = Null => \A r \in p .. p + Strlen(m, p) : ~IsIn(m, p, q, r)
             /\ s # Null => /\ s \in x .. p + Strlen(m, p)
                            /\ \A r \in p .. s - 1 : ~IsIn(m, p, q, r)
<1> DEFINE s == Strchr(m, x, m[q])
           l == Strlen(m, p)
           len == Strlen(m, q)
           places == {r \in x .. x + Strlen(m, x) : m[r] = m[q]}
<1>1. /\ l \in 0 .. Size - 1 - p /\ len \in 0 .. Size - 1 - q
      /\ p \in Nat /\ q \in Nat /\ Size \in Nat /\ x \in Nat
  BY StringsAssumption, StrlenIs DEF Addresses
<1>2. x \in Addresses /\ Strlen(m, x) = p + l - x
  BY StrlenFrom
<1>3. IsLeast(s, places)
  BY <1>2, StrchrFinds
<1>4. \A r \in Nat : r \in places <=> r \in x .. p + l /\ m[r] = m[q]
  <2> HIDE DEF l
  <2>1. x + Strlen(m, x) = p + l
    BY <1>1, <1>2
  <2> QED
    BY <2>1
<1>5. ASSUME NEW r \in p .. p + l, IsIn(m, p, q, r) PROVE m[r] = m[q] /\ r \in x .. p + l
  <2> HIDE DEF l
  <2>1. m[r + 0] = m[q + 0]
    BY <1>1, <1>5 DEF IsIn, Same
  <2>2. r + 0 = r /\ q + 0 = q
    BY <1>1
  <2>3. r \notin p .. x - 1
    BY <1>5
  <2>4. r \in x .. p + l
    BY <1>1, <2>3
  <2> QED
    BY <2>1, <2>2, <2>4
<1>6. ASSUME NEW r \in p .. p + l, IsIn(m, p, q, r) PROVE r \in places
  <2>1. r \in Nat
    BY <1>1
  <2> QED
    BY <1>4, <1>5, <1>6, <2>1
<1>7. places \subseteq x .. p + l
  <2> HIDE DEF l
  <2>1. x + Strlen(m, x) = p + l
    BY <1>1, <1>2
  <2> QED
    BY <2>1
<1> HIDE DEF s, places
<1>8. ASSUME s = Null PROVE \A r \in p .. p + l : ~IsIn(m, p, q, r)
  <2>1. places = {}
    <3>1. Null \notin places
      BY <1>1, <1>7 DEF Null
    <3> QED
      BY <1>3, <1>8, <3>1 DEF IsLeast
  <2> QED
    BY <1>6, <2>1
<1>9. ASSUME s # Null
      PROVE  s \in x .. p + l /\ \A r \in p .. s - 1 : ~IsIn(m, p, q, r)
  <2>1. s \in places /\ \A r \in places : s <= r
    BY <1>3, <1>9 DEF IsLeast
  <2>2. s \in x .. p + l
    BY <1>7, <2>1
  <2>3. ASSUME NEW r \in p .. s - 1, IsIn(m, p, q, r) PROVE FALSE
    <3>1. r \in p .. p + l
      BY <1>1, <2>2
    <3>2. s <= r
      BY <1>6, <2>1, <2>3, <3>1
    <3> QED
      BY <1>1, <2>2, <3>2
  <2> QED
    BY <2>2, <2>3
<1> QED
  BY <1>8, <1>9 DEF s

LEMMA StrstrFindsPlace ==
  ASSUME NEW m, IsMemory(m), NEW p \in Addresses, NEW q \in Addresses
  PROVE  IsLeast(Strstr(m, p, q), {r \in p .. p + Strlen(m, p) : IsIn(m, p, q, r)})
<1> DEFINE l == Strlen(m, p)
           len == Strlen(m, q)
           places == {r \in p .. p + l : IsIn(m, p, q, r)}
<1>1. /\ l \in 0 .. Size - 1 - p /\ len \in 0 .. Size - 1 - q
      /\ p \in Nat /\ q \in Nat /\ Size \in Nat
  BY StringsAssumption, StrlenIs DEF Addresses
<1>2. PICK try :
        /\ try[0] = Strchr(m, p, m[q])
        /\ \A k \in 1 .. Size : try[k] = NextTry(m, p, q, try[k - 1])
        /\ Strstr(m, p, q) =
             IF len = 0 THEN p
             ELSE IF try[Size] = Null \/ try[Size] + len > p + l THEN Null ELSE try[Size]
  BY StrstrRuns
<1>3. CASE len = 0
  <2>1. Strstr(m, p, q) = p
    BY <1>2, <1>3
  <2>2. IsIn(m, p, q, p)
    BY <1>1, <1>3 DEF IsIn, Same
  <2>3. p \in places /\ \A r \in places : p <= r
    BY <1>1, <2>2
  <2> QED
    BY <2>1, <2>3 DEF IsLeast
<1>4. CASE len # 0
  <2> DEFINE G == {k \in Nat : TriedSoFar(m, p, q, try[k], k)}
  <2>1. 0 \in G
    <3>1. p \in p .. p + l /\ \A r \in p .. p - 1 : ~IsIn(m, p, q, r)
      BY <1>1
    <3>2. /\ try[0] = Null => \A r \in p .. p + l : ~IsIn(m, p, q, r)
          /\ try[0] # Null => /\ try[0] \in p .. p + l
                              /\ \A r \in p .. try[0] - 1 : ~IsIn(m, p, q, r)
      BY <1>2, <1>4, <3>1, TryNext
    <3>3. try[0] \in p .. p + l => try[0] >= p + 0
      BY <1>1
    <3> QED
      BY <3>2, <3>3 DEF TriedSoFar
  <2>2. ASSUME NEW k \in 1 .. Size, k - 1 \in G PROVE k \in G
    <3> DEFINE s == try[k - 1]
    <3>1. try[k] = NextTry(m, p, q, s) /\ TriedSoFar(m, p, q, s, k - 1) /\ k \in Nat
      BY <1>2, <2>2
    <3> HIDE DEF s
    <3>2. CASE StrstrStops(m, p, q, s)
      BY <3>1, <3>2 DEF NextTry, TriedSoFar
    <3>3. CASE ~StrstrStops(m, p, q, s)
      <4>1. s # Null
        BY <3>3 DEF StrstrStops
      <4>2. /\ s \in p .. p + l /\ s >= p + (k - 1)
            /\ \A r \in p .. s - 1 : ~IsIn(m, p, q, r)
        BY <3>1, <3>3, <4>1 DEF TriedSoFar
      <4>3. s \in Addresses
        BY <4>2, StrlenFrom
      <4>4. ~IsIn(m, p, q, s) /\ s + 1 <= p + l /\ try[k] = Strchr(m, s + 1, m[q])
        BY <3>1, <3>3, <4>3, TryIs
      <4>5. PICK x \in p .. p + l : x = s + 1
        BY <1>1, <4>2, <4>4
      <4>6. \A r \in p .. x - 1 : ~IsIn(m, p, q, r)
        <5>1. \A r \in p .. x - 1 : r \in p .. s - 1 \/ r = s
          BY <1>1, <4>2, <4>5
        <5> QED
          BY <4>2, <4>4, <5>1
      <4>7. /\ try[k] = Null => \A r \in p .. p + l : ~IsIn(m, p, q, r)
            /\ try[k] # Null => /\ try[k] \in x .. p + l
                                /\ \A r \in p .. try[k] - 1 : ~IsIn(m, p, q, r)
        BY <1>4, <4>4, <4>5, <4>6, TryNext
      <4>8. try[k] \in x .. p + l => try[k] \in p .. p + l /\ try[k] >= p + k
        BY <1>1, <4>2, <4>5
      <4>9. TriedSoFar(m, p, q, try[k], k)
        BY <4>7, <4>8 DEF TriedSoFar
      <4> QED
        BY <3>1, <4>9
    <3> QED
      BY <3>2, <3>3
  <2>3. TriedSoFar(m, p, q, try[Size], Size)
    <3>1. 0 .. Size \subseteq G
      <4> HIDE DEF G
      <4> QED
        BY <1>1, <2>1, <2>2, Upwards
    <3> QED
      BY <1>1, <3>1
  <2>4. PICK s : s = try[Size]
    OBVIOUS
  <2>5. Strstr(m, p, q) = IF s = Null \/ s + len > p + l THEN Null ELSE s
    BY <1>2, <1>4, <2>4
  <2>6. CASE s = Null
    <3>1. places = {}
      BY <2>3, <2>4, <2>6 DEF TriedSoFar
    <3> QED
      BY <2>5, <2>6, <3>1 DEF IsLeast
  <2>7. CASE s # Null
    <3>1. /\ s \in p .. p + l /\ \A r \in p .. s - 1 : ~IsIn(m, p, q, r)
          /\ s >= p + Size \/ StrstrStops(m, p, q, s)
      BY <2>3, <2>4, <2>7 DEF TriedSoFar
    <3>2. s \in Addresses
      BY <3>1, StrlenFrom
    <3>3. s + len > p + l \/ IsIn(m, p, q, s)
      <4>1. ~(s >= p + Size)
        BY <1>1, <3>1
      <4> QED
        BY <3>1, <3>2, <4>1, StopsAt
    <3>4. CASE s + len > p + l
      <4>1. ASSUME NEW r \in p .. p + l, IsIn(m, p, q, r) PROVE FALSE
        <5>1. r + len <= p + l
          BY <4>1 DEF IsIn, Same
        <5> HIDE DEF l, len
        <5>2. r \in p .. s - 1
          BY <1>1, <3>1, <3>4, <5>1
        <5> QED
          BY <3>1, <4>1, <5>2
      <4>2. places = {}
        BY <4>1
      <4> QED
        BY <2>5, <3>4, <4>2 DEF IsLeast
    <3>5. CASE ~(s + len > p + l)
      <4>1. s \in places
        BY <3>1, <3>3, <3>5
      <4>2. ASSUME NEW r \in places PROVE s <= r
        <5>1. r \in p .. p + l /\ r \notin p .. s - 1
          BY <3>1
        <5> HIDE DEF l, len, places
        <5> QED
          BY <1>1, <3>1, <5>1
      <4> QED
        BY <2>5, <2>7, <3>5, <4>1, <4>2 DEF IsLeast
    <3> QED
      BY <3>4, <3>5
  <2> QED
    BY <2>6, <2>7
<1> QED
  BY <1>3, <1>4

Occurrences(m, p, q) ==
  LET s == StringAt(m, p)
      u == StringAt(m, q)
  IN  {p + k - 1 : k \in {j \in 1 .. Len(s) - Len(u) + 1 : SubSeq(s, j, j + Len(u) - 1) = u}}

LEMMA StrstrFinds ==
  ASSUME NEW m, IsMemory(m), NEW p \in Addresses, NEW q \in Addresses
  PROVE  IsLeast(Strstr(m, p, q), Occurrences(m, p, q))
<1> DEFINE s == StringAt(m, p)
           u == StringAt(m, q)
           l == Strlen(m, p)
           len == Strlen(m, q)
           starts == {j \in 1 .. Len(s) - Len(u) + 1 : SubSeq(s, j, j + Len(u) - 1) = u}
           places == {r \in p .. p + l : IsIn(m, p, q, r)}
<1>1. l \in Nat /\ len \in Nat /\ p \in Nat /\ q \in Nat
  BY StrlenIs DEF Addresses
<1>2. s \in Seq(Int) /\ Len(s) = l /\ \A k \in 1 .. l : s[k] = m[p + k - 1]
  BY TextIs
<1>3. u \in Seq(Int) /\ Len(u) = len /\ \A k \in 1 .. len : u[k] = m[q + k - 1]
  BY TextIs
<1> HIDE DEF s, u
<1>4. ASSUME NEW j \in 1 .. l - len + 1
      PROVE  SubSeq(s, j, j + len - 1) = u <=> IsIn(m, p, q, p + j - 1)
  <2> HIDE DEF l, len
  <2>1. j \in Nat /\ (p + j - 1) + len <= p + l
    BY <1>1
  <2>2. \A k \in 1 .. len : j + k - 1 \in 1 .. l
    BY <1>1
  <2>3. SubSeq(s, j, j + len - 1) \in Seq(Int) /\ Len(SubSeq(s, j, j + len - 1)) = len
    <3>1. j \in 1 .. Len(s) + 1 /\ j + len - 1 \in j - 1 .. Len(s)
      BY <1>1, <1>2
    <3> QED
      BY <1>1, <1>2, <2>1, <3>1, SubSeqProperties
  <2>4. \A k \in 1 .. len : SubSeq(s, j, j + len - 1)[k] = s[j + k - 1]
    BY <1>1, <1>2, <2>1, <2>2
  <2>5. \A k \in 1 .. len : s[j + k - 1] = m[p + (j + k - 1) - 1]
    BY <1>2, <2>2
  <2>6. \A k \in 1 .. len : /\ p + (j + k - 1) - 1 = (p + j - 1) + (k - 1)
                            /\ q + k - 1 = q + (k - 1) /\ k - 1 \in 0 .. len - 1
    BY <1>1
  <2>7. \A k \in 1 .. len : /\ SubSeq(s, j, j + len - 1)[k] = m[(p + j - 1) + (k - 1)]
                            /\ u[k] = m[q + (k - 1)]
    BY <1>3, <2>4, <2>5, <2>6
  <2>8. ASSUME SubSeq(s, j, j + len - 1) = u PROVE IsIn(m, p, q, p + j - 1)
    <3>1. ASSUME NEW d \in 0 .. len - 1 PROVE m[(p + j - 1) + d] = m[q + d]
      <4>1. d + 1 \in 1 .. len /\ (d + 1) - 1 = d
        BY <1>1
      <4> QED
        BY <2>7, <2>8, <4>1
    <3> QED
      BY <2>1, <3>1 DEF IsIn, Same, l, len
  <2>9. ASSUME IsIn(m, p, q, p + j - 1) PROVE SubSeq(s, j, j + len - 1) = u
    <3>1. \A d \in 0 .. len - 1 : m[(p + j - 1) + d] = m[q + d]
      BY <2>9 DEF IsIn, Same, len
    <3>2. \A k \in 1 .. len : SubSeq(s, j, j + len - 1)[k] = u[k]
      BY <2>6, <2>7, <3>1
    <3> QED
      BY <1>3, <2>3, <3>2, SeqEqual
  <2> QED
    BY <2>8, <2>9
<1>5. places = {p + k - 1 : k \in starts}
  <2>1. ASSUME NEW r \in places PROVE r \in {p + k - 1 : k \in starts}
    <3>1. r \in p .. p + l /\ IsIn(m, p, q, r) /\ r + len <= p + l
      BY DEF IsIn, Same
    <3> HIDE DEF l, len, places
    <3>2. r - p + 1 \in 1 .. l - len + 1 /\ p + (r - p + 1) - 1 = r
      BY <1>1, <3>1
    <3>3. r - p + 1 \in starts
      BY <1>2, <1>3, <1>4, <3>1, <3>2
    <3> QED
      BY <3>2, <3>3
  <2>2. ASSUME NEW k \in starts PROVE p + k - 1 \in places
    <3> HIDE DEF l, len
    <3>1. k \in 1 .. l - len + 1 /\ SubSeq(s, k, k + len - 1) = u
      BY <1>2, <1>3
    <3>2. IsIn(m, p, q, p + k - 1)
      BY <1>4, <3>1
    <3>3. p + k - 1 \in p .. p + l
      BY <1>1, <3>1
    <3> QED
      BY <3>2, <3>3
  <2> QED
    BY <2>1, <2>2
<1>6. IsLeast(Strstr(m, p, q), places)
  BY StrstrFindsPlace
<1> QED
  BY <1>5, <1>6 DEF Occurrences, s, u
-----------------------------------------------------------------------------
(***************************************************************************)
(* What each store leaves in the memory.                                   *)
(***************************************************************************)

\* g is m with the bytes from the d-th to the e-th at p copied from q.
Copied(g, m, p, q, d, e) ==
  /\ g \in [Addresses -> Int]
  /\ \A a \in Addresses : g[a] = IF a \in p + d .. p + e - 1 THEN m[q + (a - p)] ELSE m[a]

LEMMA CopyByteIs ==
  ASSUME NEW g \in [Addresses -> Int], NEW p \in Addresses, NEW q \in Addresses
  PROVE  /\ CopyByte(g, p, q) \in [Addresses -> Int]
         /\ CopyByte(g, p, q)[p] = g[q]
         /\ \A a \in Addresses : a # p => CopyByte(g, p, q)[a] = g[a]
BY DEF CopyByte

LEMMA CopyUp ==
  ASSUME NEW m \in [Addresses -> Int], NEW p \in Nat, NEW q \in Nat, NEW n \in Nat,
         p + n <= Size, q + n <= Size, p <= q \/ q + n <= p,
         NEW k \in 1 .. n, NEW g, Copied(g, m, p, q, 0, k - 1)
  PROVE  Copied(CopyByte(g, p + k - 1, q + k - 1), m, p, q, 0, k)
<1> DEFINE h == CopyByte(g, p + k - 1, q + k - 1)
<1>1. p + k - 1 \in Addresses /\ q + k - 1 \in Addresses /\ Size \in Nat
  BY StringsAssumption DEF Addresses
<1>2. g \in [Addresses -> Int]
  BY DEF Copied
<1>3. /\ h \in [Addresses -> Int] /\ h[p + k - 1] = g[q + k - 1]
      /\ \A a \in Addresses : a # p + k - 1 => h[a] = g[a]
  BY <1>1, <1>2, CopyByteIs
<1>4. g[q + k - 1] = m[q + k - 1]
  <2>1. q + k - 1 \notin p + 0 .. p + (k - 1) - 1
    OBVIOUS
  <2> QED
    BY <1>1, <2>1 DEF Copied
<1> HIDE DEF h
<1>5. ASSUME NEW a \in Addresses
      PROVE  h[a] = IF a \in p + 0 .. p + k - 1 THEN m[q + (a - p)] ELSE m[a]
  <2>1. CASE a = p + k - 1
    <3>1. a \in p + 0 .. p + k - 1 /\ q + (a - p) = q + k - 1
      BY <2>1
    <3> QED
      BY <1>3, <1>4, <2>1, <3>1
  <2>2. CASE a # p + k - 1
    <3>1. a \in p + 0 .. p + k - 1 <=> a \in p + 0 .. p + (k - 1) - 1
      BY <1>1, <2>2 DEF Addresses
    <3>2. g[a] = IF a \in p + 0 .. p + (k - 1) - 1 THEN m[q + (a - p)] ELSE m[a]
      BY DEF Copied
    <3> QED
      BY <1>3, <2>2, <3>1, <3>2
  <2> QED
    BY <2>1, <2>2
<1> QED
  BY <1>3, <1>5 DEF Copied, h

LEMMA CopyDown ==
  ASSUME NEW m \in [Addresses -> Int], NEW p \in Nat, NEW q \in Nat, NEW n \in Nat,
         p + n <= Size, q + n <= Size, q <= p \/ p + n <= q,
         NEW k \in 1 .. n, NEW g, Copied(g, m, p, q, n - (k - 1), n)
  PROVE  Copied(CopyByte(g, p + n - k, q + n - k), m, p, q, n - k, n)
<1> DEFINE h == CopyByte(g, p + n - k, q + n - k)
<1>1. p + n - k \in Addresses /\ q + n - k \in Addresses /\ Size \in Nat
  BY StringsAssumption DEF Addresses
<1>2. g \in [Addresses -> Int]
  BY DEF Copied
<1>3. /\ h \in [Addresses -> Int] /\ h[p + n - k] = g[q + n - k]
      /\ \A a \in Addresses : a # p + n - k => h[a] = g[a]
  BY <1>1, <1>2, CopyByteIs
<1>4. g[q + n - k] = m[q + n - k]
  <2>1. q + n - k \notin p + (n - (k - 1)) .. p + n - 1
    OBVIOUS
  <2> QED
    BY <1>1, <2>1 DEF Copied
<1> HIDE DEF h
<1>5. ASSUME NEW a \in Addresses
      PROVE  h[a] = IF a \in p + (n - k) .. p + n - 1 THEN m[q + (a - p)] ELSE m[a]
  <2>1. CASE a = p + n - k
    <3>1. a \in p + (n - k) .. p + n - 1 /\ q + (a - p) = q + n - k
      BY <2>1
    <3> QED
      BY <1>3, <1>4, <2>1, <3>1
  <2>2. CASE a # p + n - k
    <3>1. a \in p + (n - k) .. p + n - 1 <=> a \in p + (n - (k - 1)) .. p + n - 1
      BY <1>1, <2>2 DEF Addresses
    <3>2. g[a] = IF a \in p + (n - (k - 1)) .. p + n - 1 THEN m[q + (a - p)] ELSE m[a]
      BY DEF Copied
    <3> QED
      BY <1>3, <2>2, <3>1, <3>2
  <2> QED
    BY <2>1, <2>2
<1> QED
  BY <1>3, <1>5 DEF Copied, h

\* Each loop of stores, as a function of the number of bytes that it has stored.
LEMMA ForwardIs ==
  ASSUME NEW m \in [Addresses -> Int], NEW p \in Nat, NEW q \in Nat, NEW n \in Nat,
         p + n <= Size, q + n <= Size, p <= q \/ q + n <= p
  PROVE  Copied(Forward(m, p, q, n), m, p, q, 0, n)
<1> DEFINE A == [Addresses -> Int]
           Body(f) == [k \in 0 .. n |-> IF k = 0 THEN m
                                        ELSE CopyByte(f[k - 1], p + k - 1, q + k - 1)]
           F == [k \in 1 .. n |-> [x \in A |-> CopyByte(x, p + k - 1, q + k - 1)]]
           copied == CHOOSE f : f = Body(f)
<1>1. \A k \in 1 .. n : p + k - 1 \in Addresses /\ q + k - 1 \in Addresses
  BY StringsAssumption DEF Addresses
<1>2. F \in [1 .. n -> [A -> A]]
  BY <1>1, CopyByteIs
<1>3. PICK f : Iterates(f, A, m, F, n)
  <2>1. m \in A
    OBVIOUS
  <2> HIDE DEF F, A
  <2>2. \E f : Iterates(f, A, m, F, n)
    BY <1>2, <2>1, Steps
  <2> QED
    BY <2>2
<1>4. f = Body(f)
  <2>1. \A k \in 0 .. n : k # 0 => k \in 1 .. n /\ k - 1 \in 0 .. n
    OBVIOUS
  <2>2. \A k \in 0 .. n : f[k] = Body(f)[k]
    <3> HIDE DEF A
    <3> QED
      BY <1>3, <2>1 DEF Iterates
  <2> QED
    BY <1>3, <2>2 DEF Iterates
<1>5. copied = Body(copied)
  <2>1. \E g : g = Body(g)
    BY <1>4
  <2> HIDE DEF Body
  <2> QED
    BY <2>1
<1>6. Forward(m, p, q, n) = copied[n]
  BY DEF Forward
<1> HIDE DEF copied
<1>7. /\ copied[0] = m
      /\ \A k \in 1 .. n : copied[k] = CopyByte(copied[k - 1], p + k - 1, q + k - 1)
  <2>1. 0 \in 0 .. n /\ \A k \in 1 .. n : k \in 0 .. n /\ k # 0
    OBVIOUS
  <2>2. \A k \in 0 .. n : copied[k] = Body(copied)[k]
    BY <1>5
  <2> QED
    BY <2>1, <2>2
<1> DEFINE G == {k \in Nat : Copied(copied[k], m, p, q, 0, k)}
<1>8. 0 \in G
  BY <1>7 DEF Copied
<1>9. ASSUME NEW k \in 1 .. n, k - 1 \in G PROVE k \in G
  <2>1. Copied(copied[k - 1], m, p, q, 0, k - 1) /\ k \in Nat
    BY <1>9
  <2>2. Copied(CopyByte(copied[k - 1], p + k - 1, q + k - 1), m, p, q, 0, k)
    BY <2>1, CopyUp
  <2> QED
    BY <1>7, <2>1, <2>2
<1>10. 0 .. n \subseteq G
  <2> HIDE DEF G
  <2> QED
    BY <1>8, <1>9, Upwards
<1> QED
  BY <1>6, <1>10

LEMMA BackwardIs ==
  ASSUME NEW m \in [Addresses -> Int], NEW p \in Nat, NEW q \in Nat, NEW n \in Nat,
         p + n <= Size, q + n <= Size, q <= p \/ p + n <= q
  PROVE  Copied(Backward(m, p, q, n), m, p, q, 0, n)
<1> DEFINE A == [Addresses -> Int]
           Body(f) == [k \in 0 .. n |-> IF k = 0 THEN m
                                        ELSE CopyByte(f[k - 1], p + n - k, q + n - k)]
           F == [k \in 1 .. n |-> [x \in A |-> CopyByte(x, p + n - k, q + n - k)]]
           copied == CHOOSE f : f = Body(f)
<1>1. \A k \in 1 .. n : p + n - k \in Addresses /\ q + n - k \in Addresses
  BY StringsAssumption DEF Addresses
<1>2. F \in [1 .. n -> [A -> A]]
  BY <1>1, CopyByteIs
<1>3. PICK f : Iterates(f, A, m, F, n)
  <2>1. m \in A
    OBVIOUS
  <2> HIDE DEF F, A
  <2>2. \E f : Iterates(f, A, m, F, n)
    BY <1>2, <2>1, Steps
  <2> QED
    BY <2>2
<1>4. f = Body(f)
  <2>1. \A k \in 0 .. n : k # 0 => k \in 1 .. n /\ k - 1 \in 0 .. n
    OBVIOUS
  <2>2. \A k \in 0 .. n : f[k] = Body(f)[k]
    <3> HIDE DEF A
    <3> QED
      BY <1>3, <2>1 DEF Iterates
  <2> QED
    BY <1>3, <2>2 DEF Iterates
<1>5. copied = Body(copied)
  <2>1. \E g : g = Body(g)
    BY <1>4
  <2> HIDE DEF Body
  <2> QED
    BY <2>1
<1>6. Backward(m, p, q, n) = copied[n]
  BY DEF Backward
<1> HIDE DEF copied
<1>7. /\ copied[0] = m
      /\ \A k \in 1 .. n : copied[k] = CopyByte(copied[k - 1], p + n - k, q + n - k)
  <2>1. 0 \in 0 .. n /\ \A k \in 1 .. n : k \in 0 .. n /\ k # 0
    OBVIOUS
  <2>2. \A k \in 0 .. n : copied[k] = Body(copied)[k]
    BY <1>5
  <2> QED
    BY <2>1, <2>2
<1> DEFINE G == {k \in Nat : Copied(copied[k], m, p, q, n - k, n)}
<1>8. 0 \in G
  BY <1>7 DEF Copied
<1>9. ASSUME NEW k \in 1 .. n, k - 1 \in G PROVE k \in G
  <2>1. Copied(copied[k - 1], m, p, q, n - (k - 1), n) /\ k \in Nat
    BY <1>9
  <2>2. Copied(CopyByte(copied[k - 1], p + n - k, q + n - k), m, p, q, n - k, n)
    BY <2>1, CopyDown
  <2> QED
    BY <1>7, <2>1, <2>2
<1>10. 0 .. n \subseteq G
  <2> HIDE DEF G
  <2> QED
    BY <1>8, <1>9, Upwards
<1>11. n - n = 0 /\ n \in 0 .. n
  OBVIOUS
<1> QED
  BY <1>6, <1>10, <1>11

OnlyAt(g, m, p, n) == \A s \in Addresses \ (p .. p + n - 1) : g[s] = m[s]

LEMMA MemmoveStores ==
  ASSUME NEW m, IsMemory(m), NEW p \in Addresses, NEW q \in Addresses, NEW n \in Nat,
         Room(p, n), Room(q, n)
  PROVE  LET g == Memmove(m, p, q, n)
         IN  OnlyAt(g, m, p, n) /\ BytesAt(g, p, n) = BytesAt(m, q, n)
<1> DEFINE g == Memmove(m, p, q, n)
<1>1. /\ p \in Nat /\ q \in Nat /\ Size \in Nat /\ p + n <= Size /\ q + n <= Size
      /\ m \in [Addresses -> Int]
  BY StringsAssumption DEF Addresses, Room, IsMemory
<1>2. Copied(g, m, p, q, 0, n)
  <2>1. CASE p + n <= q \/ q + n < p
    <3>1. p <= q \/ q + n <= p
      BY <1>1, <2>1
    <3>2. Copied(Forward(m, p, q, n), m, p, q, 0, n)
      BY <1>1, <3>1, ForwardIs
    <3> QED
      BY <2>1, <3>2 DEF Memmove
  <2>2. CASE ~(p + n <= q \/ q + n < p) /\ q < p
    <3>1. q <= p \/ p + n <= q
      BY <1>1, <2>2
    <3>2. Copied(Backward(m, p, q, n), m, p, q, 0, n)
      BY <1>1, <3>1, BackwardIs
    <3> QED
      BY <2>2, <3>2 DEF Memmove
  <2>3. CASE ~(p + n <= q \/ q + n < p) /\ ~(q < p)
    <3>1. p <= q \/ q + n <= p
      BY <1>1, <2>3
    <3>2. Copied(Forward(m, p, q, n), m, p, q, 0, n)
      BY <1>1, <3>1, ForwardIs
    <3> QED
      BY <2>3, <3>2 DEF Memmove
  <2> QED
    BY <2>1, <2>2, <2>3
<1> HIDE DEF g
<1>3. OnlyAt(g, m, p, n)
  BY <1>1, <1>2 DEF Copied, OnlyAt
<1>4. \A k \in 1 .. n : g[p + k - 1] = m[q + k - 1]
  <2> TAKE k \in 1 .. n
  <2>1. /\ p + k - 1 \in Addresses /\ p + k - 1 \in p + 0 .. p + n - 1
        /\ q + ((p + k - 1) - p) = q + k - 1
    BY <1>1 DEF Addresses
  <2> QED
    BY <1>2, <2>1 DEF Copied
<1>5. BytesAt(g, p, n) = BytesAt(m, q, n)
  BY <1>4 DEF BytesAt
<1> QED
  BY <1>3, <1>5 DEF g

\* What is copied of the string at q.
LEMMA CutTextIs ==
  ASSUME NEW m, IsMemory(m), NEW q \in Addresses, NEW n \in Nat
  PROVE  LET u == Cut(StringAt(m, q), n)
         IN  /\ u \in Seq(Int) /\ Len(u) = Shorter(Strlen(m, q), n)
             /\ Len(u) \in Nat /\ Len(u) <= n /\ Len(u) <= Strlen(m, q)
             /\ q + Strlen(m, q) < Size /\ Strlen(m, q) \in Nat
             /\ \A k \in 1 .. Len(u) : u[k] = m[q + k - 1] /\ u[k] # 0
<1> DEFINE s == StringAt(m, q)
           u == Cut(s, n)
           l == Strlen(m, q)
<1>1. l \in 0 .. Size - 1 - q /\ q \in Nat /\ Size \in Nat
  BY StringsAssumption, StrlenIs DEF Addresses
<1>2. /\ s \in Seq(Int) /\ Len(s) = l
      /\ \A k \in 1 .. l : s[k] = m[q + k - 1] /\ m[q + k - 1] # 0
  BY TextIs
<1> HIDE DEF s, l
<1>3. /\ u \in Seq(Int) /\ Len(u) = (IF Len(s) < n THEN Len(s) ELSE n)
      /\ \A k \in 1 .. Len(u) : u[k] = s[k]
  BY <1>2, CutIs
<1> HIDE DEF u
<1>4. Len(u) = Shorter(l, n) /\ Len(u) \in Nat /\ Len(u) <= n /\ Len(u) <= l
  BY <1>1, <1>2, <1>3 DEF Shorter
<1>5. \A k \in 1 .. Len(u) : k \in 1 .. l
  BY <1>1, <1>4
<1>6. \A k \in 1 .. Len(u) : u[k] = m[q + k - 1] /\ u[k] # 0
  BY <1>2, <1>3, <1>5
<1>7. q + l < Size /\ l \in Nat
  BY <1>1
<1> QED
  BY <1>3, <1>4, <1>6, <1>7 DEF u, s, l

LEMMA ConcatIs ==
  ASSUME NEW s \in Seq(Int), NEW u \in Seq(Int)
  PROVE  /\ s \o u \in Seq(Int) /\ Len(s \o u) = Len(s) + Len(u)
         /\ \A k \in 1 .. Len(s) : (s \o u)[k] = s[k]
         /\ \A k \in Len(s) + 1 .. Len(s) + Len(u) : (s \o u)[k] = u[k - Len(s)]
BY ConcatProperties

\* A string is what comes before its zero.
Holds(g, p, w) ==
  /\ w \in Seq(Int) /\ p + Len(w) < Size /\ g[p + Len(w)] = 0
  /\ \A k \in 1 .. Len(w) : w[k] # 0 /\ g[p + k - 1] = w[k]

LEMMA StringBy ==
  ASSUME NEW g, IsMemory(g), NEW p \in Addresses, NEW w, Holds(g, p, w)
  PROVE  StringAt(g, p) = w
<1>0. /\ w \in Seq(Int) /\ p + Len(w) < Size /\ g[p + Len(w)] = 0
      /\ \A k \in 1 .. Len(w) : w[k] # 0 /\ g[p + k - 1] = w[k]
  BY DEF Holds
<1>1. p \in Nat /\ Size \in Nat /\ Len(w) \in Nat /\ Len(w) \in 0 .. Size - 1 - p
  BY <1>0, StringsAssumption DEF Addresses
<1>2. ASSUME NEW r \in p .. p + Len(w) - 1 PROVE g[r] # 0
  <2>1. r - p + 1 \in 1 .. Len(w) /\ p + (r - p + 1) - 1 = r
    BY <1>1
  <2> QED
    BY <1>0, <2>1
<1>3. Strlen(g, p) = Len(w)
  BY <1>0, <1>1, <1>2, StrlenBy
<1>4. /\ StringAt(g, p) \in Seq(Int) /\ Len(StringAt(g, p)) = Len(w)
      /\ \A k \in 1 .. Len(w) : StringAt(g, p)[k] = g[p + k - 1]
  BY <1>3, TextIs
<1>5. \A k \in 1 .. Len(w) : StringAt(g, p)[k] = w[k]
  BY <1>0, <1>4
<1> QED
  BY <1>0, <1>4, <1>5, SeqEqual

StrncpyStored(g, m, p, q, n) ==
  LET u == Cut(StringAt(m, q), n)
  IN  /\ OnlyAt(g, m, p, n)
      /\ BytesAt(g, p, n) = u \o [k \in 1 .. n - Len(u) |-> 0]

LEMMA StrncpyStores ==
  ASSUME NEW m, IsMemory(m), NEW p \in Addresses, NEW q \in Addresses, NEW n \in Nat,
         Room(p, n), Apart(p, n, q, Strlen(m, q) + 1)
  PROVE  StrncpyStored(Strncpy(m, p, q, n), m, p, q, n)
<1> DEFINE g == Strncpy(m, p, q, n)
           u == Cut(StringAt(m, q), n)
           l == Strlen(m, q)
           len == Shorter(l, n)
           f == Forward(m, p, q, len)
           zeroes == [k \in 1 .. n - Len(u) |-> 0]
<1>1. /\ u \in Seq(Int) /\ Len(u) = len /\ len \in Nat /\ len <= n /\ len <= l
      /\ q + l < Size /\ l \in Nat /\ \A k \in 1 .. Len(u) : u[k] = m[q + k - 1]
  BY CutTextIs
<1> HIDE DEF u, l, len
<1>2. /\ p \in Nat /\ q \in Nat /\ Size \in Nat /\ p + n <= Size
      /\ m \in [Addresses -> Int] /\ n - len \in Nat /\ p + len \in Nat
      /\ p + n <= q \/ q + l + 1 <= p
  BY <1>1, StringsAssumption DEF Addresses, Room, IsMemory, Apart, l
<1>3. p + len <= Size /\ q + len <= Size /\ (p <= q \/ q + len <= p)
  BY <1>1, <1>2
<1>4. Copied(f, m, p, q, 0, len)
  BY <1>1, <1>2, <1>3, ForwardIs
<1>5. g = Set(f, p + len, 0, n - len)
  BY DEF Strncpy, len, l
<1> HIDE DEF g, f
<1>6. /\ f \in [Addresses -> Int]
      /\ \A a \in Addresses :
           f[a] = IF a \in p + 0 .. p + len - 1 THEN m[q + (a - p)] ELSE m[a]
  BY <1>4 DEF Copied
<1>7. /\ g \in [Addresses -> Int]
      /\ \A a \in Addresses :
           g[a] = IF a \in p + len .. p + len + (n - len) - 1 THEN 0 ELSE f[a]
  BY <1>5, <1>6 DEF Set
<1>8. OnlyAt(g, m, p, n)
  <2>1. ASSUME NEW a \in Addresses, a \notin p .. p + n - 1
        PROVE  a \notin p + len .. p + len + (n - len) - 1 /\ a \notin p + 0 .. p + len - 1
    BY <1>1, <1>2, <2>1
  <2> QED
    BY <1>6, <1>7, <2>1 DEF OnlyAt
<1>9. /\ zeroes \in Seq(Int) /\ Len(zeroes) = n - len
      /\ \A k \in 1 .. n - len : zeroes[k] = 0
  BY <1>1, <1>2
<1> HIDE DEF zeroes
<1>10. /\ u \o zeroes \in Seq(Int) /\ Len(u \o zeroes) = n
       /\ \A k \in 1 .. n : (u \o zeroes)[k] = IF k <= len THEN u[k] ELSE zeroes[k - len]
  <2>1. len + (n - len) = n
    BY <1>1
  <2>2. /\ u \o zeroes \in Seq(Int) /\ Len(u \o zeroes) = Len(u) + Len(zeroes)
        /\ \A k \in 1 .. Len(u) : (u \o zeroes)[k] = u[k]
        /\ \A k \in Len(u) + 1 .. Len(u) + Len(zeroes) :
             (u \o zeroes)[k] = zeroes[k - Len(u)]
    BY <1>1, <1>9, ConcatIs
  <2>3. u \o zeroes \in Seq(Int) /\ Len(u \o zeroes) = n
    BY <1>1, <1>9, <2>1, <2>2
  <2>4. ASSUME NEW k \in 1 .. n
        PROVE  (u \o zeroes)[k] = IF k <= len THEN u[k] ELSE zeroes[k - len]
    <3>1. k <= len => k \in 1 .. Len(u)
      BY <1>1
    <3>2. ~(k <= len) => k \in Len(u) + 1 .. Len(u) + Len(zeroes)
      BY <1>1, <1>9, <2>1
    <3> QED
      BY <1>1, <2>2, <3>1, <3>2
  <2> QED
    BY <2>3, <2>4
<1>11. /\ BytesAt(g, p, n) \in Seq(Int) /\ Len(BytesAt(g, p, n)) = n
       /\ \A k \in 1 .. n : BytesAt(g, p, n)[k] = g[p + k - 1] /\ p + k - 1 \in Addresses
  <2>1. g \in [Addresses -> Int] /\ p + n <= Size
    BY <1>2, <1>7
  <2> QED
    BY <1>2, <2>1, BytesAre
<1>12. ASSUME NEW k \in 1 .. n PROVE BytesAt(g, p, n)[k] = (u \o zeroes)[k]
  <2>1. CASE k <= len
    <3>1. /\ p + k - 1 \notin p + len .. p + len + (n - len) - 1
          /\ p + k - 1 \in p + 0 .. p + len - 1
          /\ q + ((p + k - 1) - p) = q + k - 1 /\ k \in 1 .. len
      BY <1>1, <1>2, <2>1
    <3>2. g[p + k - 1] = m[q + k - 1]
      BY <1>6, <1>7, <1>11, <3>1
    <3> QED
      BY <1>1, <1>10, <1>11, <2>1, <3>1, <3>2
  <2>2. CASE ~(k <= len)
    <3>1. /\ p + k - 1 \in p + len .. p + len + (n - len) - 1
          /\ k - len \in 1 .. n - len
      BY <1>1, <1>2, <2>2
    <3>2. g[p + k - 1] = 0 /\ zeroes[k - len] = 0
      BY <1>7, <1>9, <1>11, <3>1
    <3> QED
      BY <1>10, <1>11, <2>2, <3>2
  <2> QED
    BY <2>1, <2>2
<1>13. BytesAt(g, p, n) = u \o zeroes
  BY <1>10, <1>11, <1>12, SeqEqual
<1> QED
  BY <1>8, <1>13 DEF StrncpyStored, g, u, zeroes

StrncatStored(g, m, p, q, n) ==
  LET s == StringAt(m, p)
      u == Cut(StringAt(m, q), n)
  IN  OnlyAt(g, m, p, Len(s) + Len(u) + 1) /\ StringAt(g, p) = s \o u

LEMMA StrncatStores ==
  ASSUME NEW m, IsMemory(m), NEW p \in Addresses, NEW q \in Addresses, NEW n \in Nat,
         Room(p, Strlen(m, p) + Shorter(Strlen(m, q), n) + 1),
         Apart(p, Strlen(m, p) + Shorter(Strlen(m, q), n) + 1, q, Strlen(m, q) + 1)
  PROVE  StrncatStored(Strncat(m, p, q, n), m, p, q, n)
<1> DEFINE g == Strncat(m, p, q, n)
           s == StringAt(m, p)
           u == Cut(StringAt(m, q), n)
           h == Strlen(m, p)
           l == Strlen(m, q)
           len == Shorter(l, n)
           to == p + h
           f == Forward(m, to, q, len)
<1>1. /\ u \in Seq(Int) /\ Len(u) = len /\ len \in Nat /\ len <= l
      /\ q + l < Size /\ l \in Nat
      /\ \A k \in 1 .. Len(u) : u[k] = m[q + k - 1] /\ u[k] # 0
  BY CutTextIs
<1>2. /\ s \in Seq(Int) /\ Len(s) = h /\ h \in Nat
      /\ \A k \in 1 .. h : s[k] = m[p + k - 1] /\ m[p + k - 1] # 0 /\ p + k - 1 \in Addresses
  BY TextIs, StrlenIs
<1> HIDE DEF s, u, h, l, len
<1>3. /\ p \in Nat /\ q \in Nat /\ Size \in Nat /\ p + h + len + 1 <= Size
      /\ m \in [Addresses -> Int] /\ to \in Nat /\ to + len \in Nat
      /\ p + h + len + 1 <= q \/ q + l + 1 <= p
  <2>1. p \in Nat /\ q \in Nat /\ Size \in Nat /\ m \in [Addresses -> Int]
    BY StringsAssumption DEF Addresses, IsMemory
  <2>2. p + (h + len + 1) <= Size /\ (p + (h + len + 1) <= q \/ q + (l + 1) <= p)
    BY DEF Room, Apart, h, l, len
  <2> QED
    BY <1>1, <1>2, <2>1, <2>2
<1>4. to + len <= Size /\ q + len <= Size /\ (to <= q \/ q + len <= to)
  BY <1>1, <1>2, <1>3
<1>5. g = Set(f, to + len, 0, 1)
  BY DEF Strncat, h, len, l
<1> HIDE DEF g, to
<1>6. Copied(f, m, to, q, 0, len)
  BY <1>1, <1>3, <1>4, ForwardIs
<1> HIDE DEF f
<1>7. /\ f \in [Addresses -> Int]
      /\ \A a \in Addresses :
           f[a] = IF a \in to + 0 .. to + len - 1 THEN m[q + (a - to)] ELSE m[a]
  BY <1>6 DEF Copied
<1>8. /\ g \in [Addresses -> Int]
      /\ \A a \in Addresses :
           g[a] = IF a \in to + len .. to + len + 1 - 1 THEN 0 ELSE f[a]
  BY <1>5, <1>7 DEF Set
<1>9. OnlyAt(g, m, p, h + len + 1)
  <2>1. ASSUME NEW a \in Addresses, a \notin p .. p + (h + len + 1) - 1
        PROVE  a \notin to + len .. to + len + 1 - 1 /\ a \notin to + 0 .. to + len - 1
    BY <1>1, <1>2, <1>3, <2>1 DEF to
  <2> QED
    BY <1>7, <1>8, <2>1 DEF OnlyAt
<1>10. /\ s \o u \in Seq(Int) /\ Len(s \o u) = h + len
       /\ \A k \in 1 .. h + len : (s \o u)[k] = IF k <= h THEN s[k] ELSE u[k - h]
  <2>1. /\ s \o u \in Seq(Int) /\ Len(s \o u) = Len(s) + Len(u)
        /\ \A k \in 1 .. Len(s) : (s \o u)[k] = s[k]
        /\ \A k \in Len(s) + 1 .. Len(s) + Len(u) : (s \o u)[k] = u[k - Len(s)]
    BY <1>1, <1>2, ConcatIs
  <2>2. \A k \in 1 .. h + len : k \in 1 .. h \/ (k \in h + 1 .. h + len /\ ~(k <= h))
    BY <1>1, <1>2
  <2> QED
    BY <1>1, <1>2, <2>1, <2>2
<1>11. g[to + len] = 0 /\ p + (h + len) = to + len /\ to + len \in Addresses
  <2>1. p + (h + len) = to + len /\ to + len \in Addresses
    BY <1>1, <1>2, <1>3 DEF to, Addresses
  <2>2. to + len \in to + len .. to + len + 1 - 1
    BY <1>3
  <2> QED
    BY <1>8, <2>1, <2>2
<1>12. ASSUME NEW k \in 1 .. h + len PROVE (s \o u)[k] # 0 /\ g[p + k - 1] = (s \o u)[k]
  <2>0. p + k - 1 \in Addresses /\ p + k - 1 \notin to + len .. to + len + 1 - 1
    BY <1>1, <1>2, <1>3 DEF to, Addresses
  <2>1. CASE k <= h
    <3>1. p + k - 1 \notin to + 0 .. to + len - 1 /\ k \in 1 .. h
      BY <1>1, <1>2, <1>3, <2>1 DEF to
    <3>2. g[p + k - 1] = m[p + k - 1]
      BY <1>7, <1>8, <2>0, <3>1
    <3> QED
      BY <1>2, <1>10, <2>1, <3>1, <3>2
  <2>2. CASE ~(k <= h)
    <3>1. /\ p + k - 1 \in to + 0 .. to + len - 1 /\ k - h \in 1 .. len
          /\ q + ((p + k - 1) - to) = q + (k - h) - 1
      BY <1>1, <1>2, <1>3, <2>2 DEF to
    <3>2. g[p + k - 1] = m[q + (k - h) - 1]
      BY <1>7, <1>8, <2>0, <3>1
    <3> QED
      BY <1>1, <1>10, <2>2, <3>1, <3>2
  <2> QED
    BY <2>1, <2>2
<1>13. IsMemory(g)
  <2>1. CASE Size - 1 = to + len
    BY <1>8, <1>11, <2>1 DEF IsMemory
  <2>2. CASE Size - 1 # to + len
    <3>1. /\ Size - 1 \in Addresses /\ Size - 1 \notin to + len .. to + len + 1 - 1
          /\ Size - 1 \notin to + 0 .. to + len - 1
      BY <1>1, <1>2, <1>3, <2>2 DEF to, Addresses
    <3>2. g[Size - 1] = m[Size - 1]
      BY <1>7, <1>8, <3>1
    <3> QED
      BY <1>8, <3>2 DEF IsMemory
  <2> QED
    BY <2>1, <2>2
<1>14. StringAt(g, p) = s \o u
  <2>1. p + (h + len) < Size
    BY <1>1, <1>2, <1>3
  <2>2. PICK w : w = s \o u
    OBVIOUS
  <2>3. /\ w \in Seq(Int) /\ p + Len(w) < Size /\ g[p + Len(w)] = 0
        /\ \A k \in 1 .. Len(w) : w[k] # 0 /\ g[p + k - 1] = w[k]
    BY <1>10, <1>11, <1>12, <2>1, <2>2
  <2>4. StringAt(g, p) = w
    <3>1. Holds(g, p, w)
      BY <2>3 DEF Holds
    <3> QED
      BY <1>13, <2>2, <3>1, StringBy
  <2> QED
    BY <2>2, <2>4
<1> QED
  BY <1>1, <1>2, <1>9, <1>14 DEF StrncatStored, g, s, u

\* Memchr of the zero finds the end of the string, if it is among the n bytes.
LEMMA EndIs ==
  ASSUME NEW m, IsMemory(m), NEW q \in Addresses, NEW n \in Nat
  PROVE  LET end == Memchr(m, q, 0, n)
         IN  (IF end = Null THEN n ELSE end - q) = Shorter(Strlen(m, q), n)
<1> DEFINE l == Strlen(m, q)
<1>1. /\ l \in 0 .. Size - 1 - q /\ q \in Nat /\ Size \in Nat
      /\ m[q + l] = 0 /\ \A r \in q .. q + l - 1 : m[r] # 0
  BY StringsAssumption, StrlenIs DEF Addresses
<1> HIDE DEF l
<1>2. PICK e \in q .. Size : e = q + l
  BY <1>1
<1>3. e = q + n \/ m[e] = 0
  BY <1>1, <1>2
<1>4. PICK s \in q .. e :
        /\ s = q + n \/ m[s] = 0
        /\ \A r \in q .. s - 1 : r # q + n /\ m[r] # 0
        /\ Memchr(m, q, 0, n) = IF s = q + n THEN Null ELSE s
  <2>1. PICK s \in q .. e : MemchrStops(m, q, 0, n, s)
    BY <1>1, <1>3, MemchrIs
  <2> QED
    BY <2>1 DEF MemchrStops
<1>5. CASE s = q + n
  <2>1. n <= l
    BY <1>1, <1>2, <1>5
  <2> QED
    BY <1>1, <1>4, <1>5, <2>1 DEF Shorter, l
<1>6. CASE s # q + n
  <2>1. s = q + l
    BY <1>1, <1>2, <1>4, <1>6
  <2>2. q + n \notin q .. s - 1
    BY <1>4
  <2>3. l < n
    BY <1>1, <1>6, <2>1, <2>2
  <2>4. s # Null
    BY <1>1, <2>1 DEF Null
  <2> QED
    BY <1>1, <1>4, <1>6, <2>1, <2>3, <2>4 DEF Shorter, l
<1> QED
  BY <1>5, <1>6

LEMMA StrndupStores ==
  ASSUME NEW m, IsMemory(m), NEW p \in Addresses, NEW q \in Addresses, NEW n \in Nat,
         Room(p, Shorter(Strlen(m, q), n) + 1),
         Apart(p, Shorter(Strlen(m, q), n) + 1, q, Strlen(m, q) + 1)
  PROVE  LET g == Strndup(m, p, q, n)
             u == Cut(StringAt(m, q), n)
         IN  OnlyAt(g, m, p, Len(u) + 1) /\ StringAt(g, p) = u
<1> DEFINE g == Strndup(m, p, q, n)
           u == Cut(StringAt(m, q), n)
           l == Strlen(m, q)
           len == Shorter(l, n)
           f == Set(m, p + len, 0, 1)
<1>1. /\ u \in Seq(Int) /\ Len(u) = len /\ len \in Nat /\ len <= l
      /\ q + l < Size /\ l \in Nat
      /\ \A k \in 1 .. Len(u) : u[k] = m[q + k - 1] /\ u[k] # 0
  BY CutTextIs
<1>2. g = Forward(f, p, q, len)
  BY EndIs DEF Strndup
<1> HIDE DEF g, u, l, len
<1>3. /\ p \in Nat /\ q \in Nat /\ Size \in Nat /\ p + len + 1 <= Size
      /\ m \in [Addresses -> Int] /\ p + len \in Nat
      /\ p + len + 1 <= q \/ q + l + 1 <= p
  <2>1. p \in Nat /\ q \in Nat /\ Size \in Nat /\ m \in [Addresses -> Int]
    BY StringsAssumption DEF Addresses, IsMemory
  <2>2. p + (len + 1) <= Size /\ (p + (len + 1) <= q \/ q + (l + 1) <= p)
    BY DEF Room, Apart, l, len
  <2> QED
    BY <1>1, <2>1, <2>2
<1>4. p + len <= Size /\ q + len <= Size /\ (p <= q \/ q + len <= p)
  BY <1>1, <1>3
<1>5. /\ f \in [Addresses -> Int]
      /\ \A a \in Addresses : f[a] = IF a \in p + len .. p + len + 1 - 1 THEN 0 ELSE m[a]
  BY <1>3 DEF f, Set
<1> HIDE DEF f
<1>6. Copied(g, f, p, q, 0, len)
  BY <1>1, <1>2, <1>3, <1>4, <1>5, ForwardIs
<1>7. /\ g \in [Addresses -> Int]
      /\ \A a \in Addresses :
           g[a] = IF a \in p + 0 .. p + len - 1 THEN f[q + (a - p)] ELSE f[a]
  BY <1>6 DEF Copied
<1>8. OnlyAt(g, m, p, len + 1)
  <2>1. ASSUME NEW a \in Addresses, a \notin p .. p + (len + 1) - 1
        PROVE  a \notin p + len .. p + len + 1 - 1 /\ a \notin p + 0 .. p + len - 1
    BY <1>1, <1>3, <2>1
  <2> QED
    BY <1>5, <1>7, <2>1 DEF OnlyAt
<1>9. g[p + len] = 0 /\ p + len \in Addresses
  <2>1. /\ p + len \in Addresses /\ p + len \notin p + 0 .. p + len - 1
        /\ p + len \in p + len .. p + len + 1 - 1
    BY <1>1, <1>3 DEF Addresses
  <2> QED
    BY <1>5, <1>7, <2>1
<1>10. ASSUME NEW k \in 1 .. len PROVE u[k] # 0 /\ g[p + k - 1] = u[k]
  <2>1. /\ p + k - 1 \in Addresses /\ p + k - 1 \in p + 0 .. p + len - 1
        /\ q + ((p + k - 1) - p) = q + k - 1
        /\ q + k - 1 \in Addresses /\ q + k - 1 \notin p + len .. p + len + 1 - 1
    BY <1>1, <1>3 DEF Addresses
  <2>2. g[p + k - 1] = f[q + k - 1]
    BY <1>7, <2>1
  <2>3. f[q + k - 1] = m[q + k - 1]
    BY <1>5, <2>1
  <2> QED
    BY <1>1, <2>2, <2>3
<1>11. IsMemory(g)
  <2>1. CASE Size - 1 = p + len
    BY <1>7, <1>9, <2>1 DEF IsMemory
  <2>2. CASE Size - 1 # p + len
    <3>1. /\ Size - 1 \in Addresses /\ Size - 1 \notin p + len .. p + len + 1 - 1
          /\ Size - 1 \notin p + 0 .. p + len - 1
      BY <1>1, <1>3, <2>2 DEF Addresses
    <3>2. g[Size - 1] = m[Size - 1]
      BY <1>5, <1>7, <3>1
    <3> QED
      BY <1>7, <3>2 DEF IsMemory
  <2> QED
    BY <2>1, <2>2
<1>12. StringAt(g, p) = u
  <2>1. p + len < Size
    BY <1>1, <1>3
  <2>2. Holds(g, p, u)
    BY <1>1, <1>9, <1>10, <2>1 DEF Holds
  <2> QED
    BY <1>11, <2>2, StringBy
<1> QED
  BY <1>1, <1>8, <1>12 DEF g, u
-----------------------------------------------------------------------------
(***************************************************************************)
(* The calls.  The invariant names what has been called on which memory.   *)
(***************************************************************************)
CallTypes ==
  /\ mem0 \in [Addresses -> Letters \cup {0}] /\ mem0[Size - 1] = 0
  /\ arg \in [p : Addresses, q : Addresses, c : Letters \cup {0}, n : 0 .. Size]
  /\ sfn = "none" => mem = mem0

HasStored ==
  LET len == Shorter(Strlen(mem0, arg.q), arg.n)
      to == Strlen(mem0, arg.p)
      Fits(k) == Room(arg.p, k) /\ Apart(arg.p, k, arg.q, Strlen(mem0, arg.q) + 1)
  IN  /\ sfn = "memmove" =>
           /\ Room(arg.p, arg.n) /\ Room(arg.q, arg.n)
           /\ mem = Memmove(mem0, arg.p, arg.q, arg.n)
      /\ sfn = "strncpy" => Fits(arg.n) /\ mem = Strncpy(mem0, arg.p, arg.q, arg.n)
      /\ sfn = "strncat" => Fits(to + len + 1) /\ mem = Strncat(mem0, arg.p, arg.q, arg.n)
      /\ sfn = "strndup" => Fits(len + 1) /\ mem = Strndup(mem0, arg.p, arg.q, arg.n)

HasFound ==
  LET set == Chars(mem0, arg.q)
  IN  /\ sfn = "memchr" => /\ Room(arg.p, arg.n)
                           /\ sret = Memchr(mem0, arg.p, arg.c, arg.n)
      /\ sfn = "strchr" => sret = Strchr(mem0, arg.p, arg.c)
      /\ sfn = "strrchr" => sret = Strrchr(mem0, arg.p, arg.c)
      /\ sfn = "memcmp" => /\ Room(arg.p, arg.n) /\ Room(arg.q, arg.n)
                           /\ sret = Memcmp(mem0, arg.p, arg.q, arg.n)
      /\ sfn = "strncmp" => sret = Strncmp(mem0, arg.p, arg.q, arg.n)
      /\ sfn = "strspn" => sret = Strspn(mem0, arg.p, set)
      /\ sfn = "strcspn" => sret = Strcspn(mem0, arg.p, set)
      /\ sfn = "strpbrk" => sret = Strpbrk(mem0, arg.p, set)
      /\ sfn = "strstr" => sret = Strstr(mem0, arg.p, arg.q)

StringsInv == CallTypes /\ HasStored /\ HasFound

LEMMA StringsInvInit == StringsInit => StringsInv
<1> SUFFICES ASSUME StringsInit PROVE StringsInv
  OBVIOUS
<1>1. 0 \in Addresses /\ 0 \in 0 .. Size
  BY StringsAssumption DEF Addresses
<1>2. NoArgs \in [p : Addresses, q : Addresses, c : Letters \cup {0}, n : 0 .. Size]
  BY <1>1 DEF NoArgs
<1>3. CallTypes
  BY <1>2 DEF StringsInit, CallTypes
<1>4. sfn = "none"
  BY DEF StringsInit
<1> QED
  BY <1>3, <1>4 DEF StringsInv, HasStored, HasFound

LEMMA StringsInvStep == StringsInv /\ [StringsNext]_stringVars => StringsInv'
<1> SUFFICES ASSUME StringsInv, [StringsNext]_stringVars PROVE StringsInv'
  OBVIOUS
<1>0. 0 \in Addresses /\ 0 \in 0 .. Size /\ 0 \in Letters \cup {0}
  BY StringsAssumption DEF Addresses
<1>1. ASSUME NEW p \in Addresses, NEW q \in Addresses, NEW n \in 0 .. Size, CallMemory(p, q, n)
      PROVE  StringsInv'
  <2>1. /\ mem = mem0 /\ mem0' = mem0 /\ arg' = Args(p, q, n)
        /\ Room(p, n) /\ Room(q, n)
        /\ \/ sfn' = "memmove" /\ mem' = Memmove(mem0, p, q, n)
           \/ sfn' = "memcmp" /\ sret' = Memcmp(mem0, p, q, n)
    BY <1>1 DEF StringsInv, CallTypes, CallMemory, Stores, Finds, Calls
  <2>2. arg'.p = p /\ arg'.q = q /\ arg'.n = n
    BY <2>1 DEF Args
  <2>3. CallTypes'
    BY <1>0, <2>1 DEF StringsInv, CallTypes, Args, Addresses
  <2>4. HasStored' /\ HasFound'
    BY <2>1, <2>2 DEF HasStored, HasFound, Room
  <2> QED
    BY <2>3, <2>4 DEF StringsInv
<1>2. ASSUME NEW p \in Addresses, NEW q \in Addresses, NEW n \in 0 .. Size, CallCopy(p, q, n)
      PROVE  StringsInv'
  <2> DEFINE len == Shorter(Strlen(mem, q), n)
             to == Strlen(mem, p)
             Fits(k) == Room(p, k) /\ Apart(p, k, q, Strlen(mem, q) + 1)
  <2>1. /\ mem = mem0 /\ mem0' = mem0 /\ arg' = Args(p, q, n)
        /\ \/ sfn' = "strncpy" /\ Fits(n) /\ mem' = Strncpy(mem, p, q, n)
           \/ sfn' = "strncat" /\ Fits(to + len + 1) /\ mem' = Strncat(mem, p, q, n)
           \/ sfn' = "strndup" /\ Fits(len + 1) /\ mem' = Strndup(mem, p, q, n)
    BY <1>2 DEF StringsInv, CallTypes, CallCopy, Stores, Calls
  <2>2. arg'.p = p /\ arg'.q = q /\ arg'.n = n
    BY <2>1 DEF Args
  <2>3. CallTypes'
    BY <1>0, <2>1 DEF StringsInv, CallTypes, Args, Addresses
  <2>4. HasStored'
    BY <2>1, <2>2 DEF HasStored, Room, Apart
  <2>5. HasFound'
    BY <2>1 DEF HasFound
  <2> QED
    BY <2>3, <2>4, <2>5 DEF StringsInv
<1>3. ASSUME NEW p \in Addresses, NEW q \in Addresses, NEW n \in 0 .. Size, CallStrncmp(p, q, n)
      PROVE  StringsInv'
  <2>1. /\ mem = mem0 /\ mem0' = mem0 /\ arg' = Args(p, q, n)
        /\ sfn' = "strncmp" /\ sret' = Strncmp(mem0, p, q, n)
    BY <1>3 DEF StringsInv, CallTypes, CallStrncmp, Finds, Calls
  <2>2. arg'.p = p /\ arg'.q = q /\ arg'.n = n
    BY <2>1 DEF Args
  <2>3. CallTypes'
    BY <1>0, <2>1 DEF StringsInv, CallTypes, Args, Addresses
  <2>4. HasStored' /\ HasFound'
    BY <2>1, <2>2 DEF HasStored, HasFound
  <2> QED
    BY <2>3, <2>4 DEF StringsInv
<1>4. ASSUME NEW p \in Addresses, NEW q \in Addresses, CallFind(p, q)
      PROVE  StringsInv'
  <2>1. /\ mem = mem0 /\ mem0' = mem0 /\ arg' = Args(p, q, 0)
        /\ \/ sfn' = "strspn" /\ sret' = Strspn(mem0, p, Chars(mem0, q))
           \/ sfn' = "strcspn" /\ sret' = Strcspn(mem0, p, Chars(mem0, q))
           \/ sfn' = "strpbrk" /\ sret' = Strpbrk(mem0, p, Chars(mem0, q))
           \/ sfn' = "strstr" /\ sret' = Strstr(mem0, p, q)
    BY <1>4 DEF StringsInv, CallTypes, CallFind, Finds, Calls
  <2>2. arg'.p = p /\ arg'.q = q
    BY <2>1 DEF Args
  <2>3. CallTypes'
    BY <1>0, <2>1 DEF StringsInv, CallTypes, Args, Addresses
  <2>4. HasStored' /\ HasFound'
    BY <2>1, <2>2 DEF HasStored, HasFound
  <2> QED
    BY <2>3, <2>4 DEF StringsInv
<1>5. ASSUME NEW p \in Addresses, NEW c \in Letters \cup {0}, CallChar(p, c)
      PROVE  StringsInv'
  <2>1. /\ mem = mem0 /\ mem0' = mem0 /\ arg' = CharArgs(p, c, 0)
        /\ \/ sfn' = "strchr" /\ sret' = Strchr(mem0, p, c)
           \/ sfn' = "strrchr" /\ sret' = Strrchr(mem0, p, c)
    BY <1>5 DEF StringsInv, CallTypes, CallChar, Finds, Calls
  <2>2. arg'.p = p /\ arg'.c = c
    BY <2>1 DEF CharArgs
  <2>3. CallTypes'
    BY <1>0, <2>1 DEF StringsInv, CallTypes, CharArgs, Addresses
  <2>4. HasStored' /\ HasFound'
    BY <2>1, <2>2 DEF HasStored, HasFound
  <2> QED
    BY <2>3, <2>4 DEF StringsInv
<1>6. ASSUME NEW p \in Addresses, NEW c \in Letters \cup {0}, NEW n \in 0 .. Size,
             CallMemchr(p, c, n)
      PROVE  StringsInv'
  <2>1. /\ mem = mem0 /\ mem0' = mem0 /\ arg' = CharArgs(p, c, n) /\ Room(p, n)
        /\ sfn' = "memchr" /\ sret' = Memchr(mem0, p, c, n)
    BY <1>6 DEF StringsInv, CallTypes, CallMemchr, Finds, Calls
  <2>2. arg'.p = p /\ arg'.c = c /\ arg'.n = n
    BY <2>1 DEF CharArgs
  <2>3. CallTypes'
    BY <1>0, <2>1 DEF StringsInv, CallTypes, CharArgs, Addresses
  <2>4. HasStored' /\ HasFound'
    BY <2>1, <2>2 DEF HasStored, HasFound, Room
  <2> QED
    BY <2>3, <2>4 DEF StringsInv
<1>7. ASSUME NEW delims \in SUBSET Letters, CallStrtok(delims)
      PROVE  StringsInv'
  BY <1>7 DEF CallStrtok, StringsInv, CallTypes, HasStored, HasFound
<1>8. CASE UNCHANGED stringVars
  BY <1>8 DEF stringVars, StringsInv, CallTypes, HasStored, HasFound
<1> QED
  BY <1>1, <1>2, <1>3, <1>4, <1>5, <1>6, <1>7, <1>8 DEF StringsNext

LEMMA MemoryWas ==
  ASSUME CallTypes
  PROVE  /\ IsMemory(mem0)
         /\ arg.p \in Addresses /\ arg.q \in Addresses /\ arg.n \in 0 .. Size
         /\ arg.p \in Nat /\ arg.q \in Nat /\ arg.n \in Nat
<1>1. Letters \cup {0} \subseteq Int /\ Size \in Nat
  BY StringsAssumption
<1>2. \A a \in Addresses : mem0[a] \in Int
  BY <1>1 DEF CallTypes
<1>3. IsMemory(mem0)
  BY <1>2 DEF CallTypes, IsMemory
<1>4. arg.p \in Addresses /\ arg.q \in Addresses /\ arg.n \in 0 .. Size
  BY DEF CallTypes
<1> QED
  BY <1>1, <1>3, <1>4 DEF Addresses

LEMMA StoredRight == StringsInv => StoresRight
<1> SUFFICES ASSUME StringsInv PROVE StoresRight
  OBVIOUS
<1> DEFINE u == Cut(StringAt(mem0, arg.q), arg.n)
           s == StringAt(mem0, arg.p)
<1>1. /\ IsMemory(mem0) /\ arg.p \in Addresses /\ arg.q \in Addresses /\ arg.n \in Nat
  BY MemoryWas DEF StringsInv
<1>2. HasStored
  BY DEF StringsInv
<1>3. sfn = "memmove" => /\ OnlyAt(mem, mem0, arg.p, arg.n)
                         /\ BytesAt(mem, arg.p, arg.n) = BytesAt(mem0, arg.q, arg.n)
  BY <1>1, <1>2, MemmoveStores DEF HasStored
<1>4. sfn = "strncpy" =>
        /\ OnlyAt(mem, mem0, arg.p, arg.n)
        /\ BytesAt(mem, arg.p, arg.n) = u \o [k \in 1 .. arg.n - Len(u) |-> 0]
  <2>1. sfn = "strncpy" => StrncpyStored(mem, mem0, arg.p, arg.q, arg.n)
    BY <1>1, <1>2, StrncpyStores DEF HasStored
  <2> QED
    BY <2>1 DEF StrncpyStored
<1>5. sfn = "strncat" =>
        /\ OnlyAt(mem, mem0, arg.p, Len(s) + Len(u) + 1) /\ StringAt(mem, arg.p) = s \o u
  <2>1. sfn = "strncat" => StrncatStored(mem, mem0, arg.p, arg.q, arg.n)
    BY <1>1, <1>2, StrncatStores DEF HasStored
  <2> QED
    BY <2>1 DEF StrncatStored
<1>6. sfn = "strndup" =>
        OnlyAt(mem, mem0, arg.p, Len(u) + 1) /\ StringAt(mem, arg.p) = u
  BY <1>1, <1>2, StrndupStores DEF HasStored
<1>7. \A p, n : KeepsAllBut(p, n) <=> OnlyAt(mem, mem0, p, n)
  BY DEF KeepsAllBut, OnlyAt
<1> QED
  BY <1>3, <1>4, <1>5, <1>6, <1>7 DEF StoresRight

LEMMA FoundRight ==
  ASSUME StringsInv, \A c \in Letters : c > 0
  PROVE  FindsRight
<1> DEFINE s == StringAt(mem0, arg.p)
           u == StringAt(mem0, arg.q)
           at(k) == arg.p + k - 1
           Starts(k) == SubSeq(s, k, k + Len(u) - 1) = u
<1>1. /\ IsMemory(mem0) /\ arg.p \in Addresses /\ arg.q \in Addresses
      /\ arg.n \in 0 .. Size /\ arg.p \in Nat /\ arg.q \in Nat /\ arg.n \in Nat
  BY MemoryWas DEF StringsInv
<1>2. HasFound
  BY DEF StringsInv
<1>3. Len(s) = Strlen(mem0, arg.p)
  BY <1>1, TextIs
<1>4. Chars(mem0, arg.q) = Range(u) /\ 0 \notin Range(u)
  BY <1>1, CharsAre
<1>5. \A r \in Addresses : mem0[r] >= 0
  <2>1. \A c \in Letters \cup {0} : c >= 0
    BY StringsAssumption
  <2>2. \A r \in Addresses : mem0[r] \in Letters \cup {0}
    BY DEF StringsInv, CallTypes
  <2> QED
    BY <2>1, <2>2
<1>6. sfn = "memchr" => IsLeast(sret, {r \in arg.p .. arg.p + arg.n - 1 : mem0[r] = arg.c})
  <2>1. ASSUME Room(arg.p, arg.n)
        PROVE  IsLeast(Memchr(mem0, arg.p, arg.c, arg.n), Holding(mem0, arg.p, arg.c, arg.n))
    BY <1>1, <2>1, MemchrFinds DEF Room
  <2> QED
    BY <1>2, <2>1 DEF HasFound, Holding
<1>7. sfn = "strchr" => IsLeast(sret, {r \in arg.p .. arg.p + Len(s) : mem0[r] = arg.c})
  <2>1. IsLeast(Strchr(mem0, arg.p, arg.c),
                {r \in arg.p .. arg.p + Strlen(mem0, arg.p) : mem0[r] = arg.c})
    BY <1>1, StrchrFinds
  <2> QED
    BY <1>2, <1>3, <2>1 DEF HasFound
<1>8. sfn = "strrchr" =>
        IF arg.c \in Range(s) \cup {0}
        THEN /\ sret \in arg.p .. arg.p + Len(s) /\ mem0[sret] = arg.c
             /\ arg.c \notin {mem0[r] : r \in sret + 1 .. arg.p + Len(s)}
        ELSE sret = Null
  BY <1>1, <1>2, StrrchrFinds DEF HasFound
<1>9. sfn = "memcmp" =>
        sret = Order(BytesAt(mem0, arg.p, arg.n), BytesAt(mem0, arg.q, arg.n))
  BY <1>1, <1>2, MemcmpOrders DEF HasFound, Room
<1>10. sfn = "strncmp" => sret = Order(Cut(s, arg.n), Cut(u, arg.n))
  BY <1>1, <1>2, <1>5, StrncmpOrders DEF HasFound
<1>11. PICK set : set = Range(u)
  OBVIOUS
<1>12. /\ sfn = "strspn" => /\ Range(Cut(s, sret)) \subseteq Range(u)
                            /\ sret = Len(s) \/ s[sret + 1] \notin Range(u)
       /\ sfn = "strcspn" => /\ Range(Cut(s, sret)) \cap Range(u) = {}
                             /\ sret = Len(s) \/ s[sret + 1] \in Range(u)
  <2>1. 0 \notin set
    BY <1>4, <1>11
  <2>2. LET n == Strspn(mem0, arg.p, set)
            k == Strcspn(mem0, arg.p, set)
        IN  /\ Range(Cut(s, n)) \subseteq set
            /\ n = Len(s) \/ s[n + 1] \notin set
            /\ Range(Cut(s, k)) \cap set = {}
            /\ k = Len(s) \/ s[k + 1] \in set
    BY <1>1, <2>1, SpanFinds
  <2>3. /\ sfn = "strspn" => sret = Strspn(mem0, arg.p, set)
        /\ sfn = "strcspn" => sret = Strcspn(mem0, arg.p, set)
    BY <1>2, <1>4, <1>11 DEF HasFound
  <2> HIDE DEF s, u
  <2> QED
    BY <1>11, <2>2, <2>3
<1>13. sfn = "strpbrk" =>
         IsLeast(sret, {at(k) : k \in {j \in 1 .. Len(s) : s[j] \in Range(u)}})
  BY <1>1, <1>2, <1>4, StrpbrkFinds DEF HasFound
<1>14. sfn = "strstr" =>
         IsLeast(sret, {at(k) : k \in {j \in 1 .. Len(s) - Len(u) + 1 : Starts(j)}})
  <2>1. sfn = "strstr" => IsLeast(sret, Occurrences(mem0, arg.p, arg.q))
    BY <1>1, <1>2, StrstrFinds DEF HasFound
  <2> QED
    BY <2>1 DEF Occurrences
<1> QED
  BY <1>6, <1>7, <1>8, <1>9, <1>10, <1>12, <1>13, <1>14, Zenon DEF FindsRight

LEMMA StringsInvHolds == StringsSpec => []StringsInv
BY StringsInvInit, StringsInvStep, PTL DEF StringsSpec

\* memmove copies what was there before, however the two places overlap, and
\* strncpy, strncat and strndup store no byte too many.
THEOREM StoresRightHolds == StringsSpec => []StoresRight
BY StringsInvHolds, StoredRight, PTL

\* The functions of string.c store and find what the standard says, in every
\* memory whose chars are not negative.
THEOREM StringsRightHolds ==
  ASSUME \A c \in Letters : c > 0
  PROVE  StringsSpec => []StringsRight
<1>1. StringsInv => StringsRight
  BY StoredRight, FoundRight DEF StringsRight
<1> QED
  BY <1>1, StringsInvHolds, PTL
-----------------------------------------------------------------------------
(***************************************************************************)
(* strtok.  Every token that was returned ends at or before the place from *)
(* which the next call goes on, so that what is stored later is behind it. *)
(***************************************************************************)

\* What is left of a string behind its first chars is a string.
LEMMA TailOfText ==
  ASSUME NEW m, IsMemory(m), NEW p \in Addresses, NEW x \in p .. p + Strlen(m, p)
  PROVE  SubSeq(StringAt(m, p), x - p + 1, Len(StringAt(m, p))) = StringAt(m, x)
<1> DEFINE s == StringAt(m, p)
           w == StringAt(m, x)
           l == Strlen(m, p)
           tail == SubSeq(s, x - p + 1, Len(s))
<1>1. /\ l \in Nat /\ p \in Nat
      /\ x \in Addresses /\ Strlen(m, x) = p + l - x
  BY StrlenIs, StrlenFrom DEF Addresses
<1>2. s \in Seq(Int) /\ Len(s) = l /\ \A k \in 1 .. l : s[k] = m[p + k - 1]
  BY TextIs
<1>3. w \in Seq(Int) /\ Len(w) = p + l - x /\ \A k \in 1 .. p + l - x : w[k] = m[x + k - 1]
  BY <1>1, TextIs
<1> HIDE DEF s, w, l
<1>4. x \in p .. p + l /\ x - p + 1 \in 1 .. l + 1 /\ l - (x - p + 1) + 1 = p + l - x
  BY <1>1 DEF l
<1>5. /\ tail \in Seq(Int) /\ Len(tail) = p + l - x
      /\ \A k \in 1 .. p + l - x : tail[k] = s[(x - p + 1) + k - 1]
  <2>1. x - p + 1 \in 1 .. Len(s) + 1 /\ Len(s) \in (x - p + 1) - 1 .. Len(s)
    BY <1>1, <1>2, <1>4
  <2> QED
    BY <1>1, <1>2, <1>4, <2>1, SubSeqProperties
<1>6. \A k \in 1 .. p + l - x : /\ (x - p + 1) + k - 1 \in 1 .. l
                                /\ p + ((x - p + 1) + k - 1) - 1 = x + k - 1
  BY <1>1, <1>4
<1>7. ASSUME NEW k \in 1 .. p + l - x PROVE tail[k] = w[k]
  <2>1. tail[k] = s[(x - p + 1) + k - 1] /\ w[k] = m[x + k - 1]
    BY <1>3, <1>5
  <2>2. s[(x - p + 1) + k - 1] = m[p + ((x - p + 1) + k - 1) - 1]
    BY <1>2, <1>6
  <2> QED
    BY <1>6, <2>1, <2>2
<1> HIDE DEF tail
<1>8. tail = w
  <2>1. Len(tail) = Len(w) /\ \A k \in 1 .. Len(tail) : tail[k] = w[k]
    BY <1>3, <1>5, <1>7
  <2>2. tail \in Seq(Int) /\ w \in Seq(Int)
    BY <1>3, <1>5
  <2> QED
    BY <2>1, <2>2, SeqEqual
<1> QED
  BY <1>8 DEF s, w, tail

\* A zero that is stored into a string ends it there.
LEMMA HeadOfText ==
  ASSUME NEW m, IsMemory(m), NEW p \in Addresses, NEW e \in p .. p + Strlen(m, p)
  PROVE  LET g == [m EXCEPT ![e] = 0]
         IN  IsMemory(g) /\ StringAt(g, p) = SubSeq(StringAt(m, p), 1, e - p)
<1> DEFINE g == [m EXCEPT ![e] = 0]
           s == StringAt(m, p)
           l == Strlen(m, p)
           w == SubSeq(s, 1, e - p)
<1>1. l \in Nat /\ p \in Nat /\ e \in Addresses /\ Size \in Nat
  BY StringsAssumption, StrlenIs, StrlenFrom DEF Addresses
<1>2. s \in Seq(Int) /\ Len(s) = l /\ \A k \in 1 .. l : s[k] = m[p + k - 1] /\ s[k] # 0
  BY TextIs
<1> HIDE DEF s, l
<1>3. e \in p .. p + l /\ e < Size
  BY <1>1 DEF Addresses, l
<1>4. /\ g \in [Addresses -> Int] /\ g[e] = 0
      /\ \A a \in Addresses : a # e => g[a] = m[a]
  BY <1>1 DEF IsMemory
<1>5. IsMemory(g)
  <2>1. Size - 1 \in Addresses
    BY <1>1, <1>3 DEF Addresses
  <2> QED
    BY <1>4, <2>1 DEF IsMemory
<1> HIDE DEF g
<1>6. w \in Seq(Int) /\ Len(w) = e - p /\ \A k \in 1 .. e - p : w[k] = s[k]
  <2>1. 1 \in 1 .. Len(s) + 1 /\ e - p \in 1 - 1 .. Len(s)
    BY <1>1, <1>2, <1>3
  <2>2. \A k \in 1 .. e - p : 1 + k - 1 = k /\ k \in 1 .. l
    BY <1>1, <1>3
  <2>3. w \in Seq(Int)
    BY <1>1, <1>2, <1>3, <2>2
  <2>4. /\ Len(w) = IF 1 <= e - p THEN e - p - 1 + 1 ELSE 0
        /\ \A k \in 1 .. e - p - 1 + 1 : w[k] = s[1 + k - 1]
    BY <1>1, <1>2, <1>3, <2>1, SubSeqProperties
  <2> QED
    BY <1>1, <1>3, <2>2, <2>3, <2>4
<1> HIDE DEF w
<1>7. ASSUME NEW k \in 1 .. Len(w) PROVE w[k] # 0 /\ g[p + k - 1] = w[k]
  <2>1. k \in 1 .. l /\ k \in 1 .. e - p /\ p + k - 1 \in Addresses /\ p + k - 1 # e
    BY <1>1, <1>3, <1>6 DEF Addresses
  <2> QED
    BY <1>2, <1>4, <1>6, <2>1
<1>8. p + Len(w) < Size /\ g[p + Len(w)] = 0
  <2>1. p + Len(w) = e
    BY <1>1, <1>3, <1>6
  <2> QED
    BY <1>3, <1>4, <2>1
<1>9. StringAt(g, p) = w
  <2>1. Holds(g, p, w)
    BY <1>6, <1>7, <1>8 DEF Holds
  <2> QED
    BY <1>5, <2>1, StringBy
<1> QED
  BY <1>5, <1>9 DEF g, s, w

\* A string is its chars and its zero, whatever else is in the memory.
LEMMA TextKept ==
  ASSUME NEW m, IsMemory(m), NEW g, IsMemory(g), NEW p \in Addresses,
         \A r \in p .. p + Strlen(m, p) : g[r] = m[r]
  PROVE  StringAt(g, p) = StringAt(m, p) /\ Strlen(g, p) = Strlen(m, p)
<1> DEFINE l == Strlen(m, p)
           w == StringAt(m, p)
<1>1. /\ l \in 0 .. Size - 1 - p /\ p \in Nat /\ Size \in Nat /\ m[p + l] = 0
  BY StringsAssumption, StrlenIs DEF Addresses
<1>2. w \in Seq(Int) /\ Len(w) = l /\ \A k \in 1 .. l : w[k] = m[p + k - 1] /\ w[k] # 0
  BY TextIs
<1>3. \A r \in p .. p + l : g[r] = m[r]
  OBVIOUS
<1> HIDE DEF l, w
<1>4. p + Len(w) < Size /\ g[p + Len(w)] = 0
  BY <1>1, <1>2, <1>3
<1>5. \A k \in 1 .. Len(w) : w[k] # 0 /\ g[p + k - 1] = w[k]
  <2>1. \A k \in 1 .. l : p + k - 1 \in p .. p + l
    BY <1>1
  <2> QED
    BY <1>2, <1>3, <2>1
<1>6. StringAt(g, p) = w
  <2>1. Holds(g, p, w)
    BY <1>2, <1>4, <1>5 DEF Holds
  <2> QED
    BY <2>1, StringBy
<1>7. Strlen(g, p) = Len(StringAt(g, p))
  BY TextIs
<1> QED
  BY <1>2, <1>6, <1>7 DEF l, w

\* The places that the abstract specification finds in a string are those that
\* strspn and strcspn find in the memory.
LEMMA FirstOutside ==
  ASSUME NEW s, NEW set, Len(s) \in Nat, NEW k \in 1 .. Len(s) + 1,
         k <= Len(s) => s[k] \notin set, \A j \in 1 .. k - 1 : s[j] \in set
  PROVE  Cutting!FirstIn(s, LAMBDA c : c \notin set) = k
<1> DEFINE f == CHOOSE e \in 1 .. Len(s) + 1 :
                  /\ e <= Len(s) => s[e] \notin set
                  /\ \A j \in 1 .. e - 1 : ~(s[j] \notin set)
<1>1. Cutting!FirstIn(s, LAMBDA c : c \notin set) = f
  BY DEF Cutting!FirstIn
<1>2. /\ f \in 1 .. Len(s) + 1
      /\ f <= Len(s) => s[f] \notin set
      /\ \A j \in 1 .. f - 1 : ~(s[j] \notin set)
  OBVIOUS
<1> HIDE DEF f
<1>3. ~(f < k) /\ ~(k < f)
  BY <1>2
<1>4. f = k
  BY <1>2, <1>3
<1> QED
  BY <1>1, <1>4

LEMMA FirstInside ==
  ASSUME NEW s, NEW set, Len(s) \in Nat, NEW k \in 1 .. Len(s) + 1,
         k <= Len(s) => s[k] \in set, \A j \in 1 .. k - 1 : s[j] \notin set
  PROVE  Cutting!FirstIn(s, LAMBDA c : c \in set) = k
<1> DEFINE f == CHOOSE e \in 1 .. Len(s) + 1 :
                  /\ e <= Len(s) => s[e] \in set
                  /\ \A j \in 1 .. e - 1 : ~(s[j] \in set)
<1>1. Cutting!FirstIn(s, LAMBDA c : c \in set) = f
  BY DEF Cutting!FirstIn
<1>2. /\ f \in 1 .. Len(s) + 1
      /\ f <= Len(s) => s[f] \in set
      /\ \A j \in 1 .. f - 1 : ~(s[j] \in set)
  OBVIOUS
<1> HIDE DEF f
<1>3. ~(f < k) /\ ~(k < f)
  BY <1>2
<1>4. f = k
  BY <1>2, <1>3
<1> QED
  BY <1>1, <1>4

\* A call cuts the string at p: its token is at t, and its end is where a zero
\* is stored.
CutAt(m, p, delims, t, end) ==
  /\ t = p + Strspn(m, p, delims)
  /\ end = t + Strcspn(m, t, delims)

LEMMA CutPlaces ==
  ASSUME NEW m, IsMemory(m), NEW p \in Addresses, NEW delims, 0 \notin delims,
         NEW t, NEW end, CutAt(m, p, delims, t, end)
  PROVE  /\ t \in p .. p + Strlen(m, p) /\ t \in Addresses
         /\ \A r \in p .. t - 1 : m[r] # 0 /\ m[r] \in delims
         /\ m[t] \notin delims
         /\ end \in t .. t + Strlen(m, t) /\ end \in Addresses
         /\ \A r \in t .. end - 1 : m[r] # 0 /\ m[r] \notin delims
         /\ m[end] = 0 \/ m[end] \in delims
<1>1. PICK x \in p .. p + Strlen(m, p) :
        /\ m[x] = 0 \/ m[x] \notin delims
        /\ \A r \in p .. x - 1 : m[r] # 0 /\ m[r] \in delims
        /\ Strspn(m, p, delims) = x - p
  BY StrspnIs
<1>2. x \in Addresses /\ Strlen(m, p) \in Nat /\ p \in Nat
  BY StrlenFrom, StrlenIs DEF Addresses
<1>3. t = x
  BY <1>1, <1>2 DEF CutAt
<1>4. PICK y \in x .. x + Strlen(m, x) :
        /\ m[y] = 0 \/ m[y] \in delims
        /\ \A r \in x .. y - 1 : m[r] # 0 /\ m[r] \notin delims
        /\ Strcspn(m, x, delims) = y - x
  BY <1>2, StrcspnIs
<1>5. y \in Addresses /\ Strlen(m, x) \in Nat /\ x \in Nat
  BY <1>2, StrlenFrom, StrlenIs DEF Addresses
<1>6. end = y
  BY <1>3, <1>4, <1>5 DEF CutAt
<1> QED
  BY <1>1, <1>2, <1>3, <1>4, <1>5, <1>6

\* What the call leaves of the string, and what it returns, in terms of the
\* abstract text.
CutResult(m, p, delims, t, end) ==
  LET text == StringAt(m, p)
      g == [m EXCEPT ![end] = 0]
      start == Cutting!FirstIn(text, LAMBDA c : c \notin delims)
      rest == SubSeq(text, start, Len(text))
      stop == Cutting!FirstIn(rest, LAMBDA c : c \in delims)
  IN  /\ rest = <<>> <=> m[t] = 0
      /\ IsMemory(g)
      /\ StringAt(g, t) = SubSeq(rest, 1, stop - 1)
      /\ Strlen(g, t) = end - t
      /\ m[end] = 0 => StringAt(g, end) = SubSeq(rest, stop + 1, Len(rest))
      /\ m[end] # 0 => /\ end + 1 \in Addresses
                       /\ StringAt(g, end + 1) = SubSeq(rest, stop + 1, Len(rest))

LEMMA CutIsCut ==
  ASSUME NEW m, IsMemory(m), NEW p \in Addresses, NEW delims, 0 \notin delims,
         NEW t, NEW end, CutAt(m, p, delims, t, end)
  PROVE  CutResult(m, p, delims, t, end)
<1> DEFINE text == StringAt(m, p)
           g == [m EXCEPT ![end] = 0]
           rest == StringAt(m, t)
           l == Strlen(m, p)
           h == Strlen(m, t)
<1>1. /\ t \in p .. p + l /\ t \in Addresses
      /\ \A r \in p .. t - 1 : m[r] # 0 /\ m[r] \in delims
      /\ m[t] \notin delims
      /\ end \in t .. t + h /\ end \in Addresses
      /\ \A r \in t .. end - 1 : m[r] # 0 /\ m[r] \notin delims
      /\ m[end] = 0 \/ m[end] \in delims
  BY CutPlaces
<1>2. /\ l \in Nat /\ p \in Nat /\ t \in Nat /\ end \in Nat /\ h = p + l - t /\ Size \in Nat
      /\ h \in 0 .. Size - 1 - t /\ m[t + h] = 0 /\ \A r \in t .. t + h - 1 : m[r] # 0
  BY <1>1, StringsAssumption, StrlenIs, StrlenFrom DEF Addresses
<1>3. text \in Seq(Int) /\ Len(text) = l /\ \A k \in 1 .. l : text[k] = m[p + k - 1]
  BY TextIs
<1>4. /\ rest \in Seq(Int) /\ Len(rest) = h
      /\ \A k \in 1 .. h : rest[k] = m[t + k - 1]
  <2>1. PICK x \in Addresses : x = t
    BY <1>1
  <2>2. /\ StringAt(m, x) \in Seq(Int) /\ Len(StringAt(m, x)) = Strlen(m, x)
        /\ \A k \in 1 .. Strlen(m, x) : StringAt(m, x)[k] = m[x + k - 1]
    BY TextIs
  <2> QED
    BY <2>1, <2>2
<1>5. SubSeq(text, t - p + 1, Len(text)) = rest
  BY <1>1, TailOfText
<1>6. IsMemory(g) /\ StringAt(g, t) = SubSeq(rest, 1, end - t)
  BY <1>1, HeadOfText
<1> HIDE DEF text, g, rest, l, h
<1>7. Cutting!FirstIn(text, LAMBDA c : c \notin delims) = t - p + 1
  <2>1. t - p + 1 \in 1 .. Len(text) + 1 /\ Len(text) \in Nat
    BY <1>1, <1>2, <1>3
  <2>2. t - p + 1 <= Len(text) => text[t - p + 1] \notin delims
    <3>1. t - p + 1 <= Len(text) => t - p + 1 \in 1 .. l /\ p + (t - p + 1) - 1 = t
      BY <1>1, <1>2, <1>3
    <3> QED
      BY <1>1, <1>3, <3>1
  <2>3. ASSUME NEW j \in 1 .. (t - p + 1) - 1 PROVE text[j] \in delims
    <3>1. j \in 1 .. l /\ p + j - 1 \in p .. t - 1
      BY <1>1, <1>2
    <3> QED
      BY <1>1, <1>3, <3>1
  <2> QED
    BY <2>1, <2>2, <2>3, FirstOutside
<1>8. Cutting!FirstIn(rest, LAMBDA c : c \in delims) = end - t + 1
  <2>1. end - t + 1 \in 1 .. Len(rest) + 1 /\ Len(rest) \in Nat
    BY <1>1, <1>2, <1>4
  <2>2. end - t + 1 <= Len(rest) => rest[end - t + 1] \in delims
    <3>1. end - t + 1 <= Len(rest) => end - t + 1 \in 1 .. h /\ t + (end - t + 1) - 1 = end
      BY <1>1, <1>2, <1>4
    <3>2. end - t + 1 <= Len(rest) => end \in t .. t + h - 1
      BY <1>1, <1>2, <1>4
    <3> QED
      BY <1>1, <1>2, <1>4, <3>1, <3>2
  <2>3. ASSUME NEW j \in 1 .. (end - t + 1) - 1 PROVE rest[j] \notin delims
    <3>1. j \in 1 .. h /\ t + j - 1 \in t .. end - 1
      BY <1>1, <1>2
    <3> QED
      BY <1>1, <1>4, <3>1
  <2> QED
    BY <2>1, <2>2, <2>3, FirstInside
<1>9. rest = <<>> <=> m[t] = 0
  <2>1. m[t] = 0 <=> h = 0
    <3>1. h # 0 => t \in t .. t + h - 1
      BY <1>2
    <3>2. h = 0 => t + h = t
      BY <1>2
    <3> QED
      BY <1>2, <3>1, <3>2
  <2>2. rest = <<>> <=> h = 0
    BY <1>4
  <2> QED
    BY <2>1, <2>2
<1>10. Strlen(g, t) = end - t
  <2>1. Strlen(g, t) = Len(StringAt(g, t))
    BY <1>1, <1>6, TextIs
  <2>2. Len(SubSeq(rest, 1, end - t)) = end - t
    BY <1>1, <1>2, <1>4
  <2> QED
    BY <1>6, <2>1, <2>2
<1>11. /\ g \in [Addresses -> Int] /\ g[end] = 0
       /\ \A a \in Addresses : a # end => g[a] = m[a]
  BY <1>1 DEF g, IsMemory
<1>12. (end - t + 1) - 1 = end - t /\ (end - t + 1) + 1 = end - t + 2
  BY <1>2
<1>13. ASSUME m[end] = 0
       PROVE  StringAt(g, end) = SubSeq(rest, (end - t + 1) + 1, Len(rest))
  <2>1. end = t + h
    BY <1>1, <1>2, <1>13
  <2>2. SubSeq(rest, end - t + 2, Len(rest)) = <<>>
    <3>1. end - t + 2 > Len(rest)
      BY <1>2, <1>4, <2>1
    <3> QED
      BY <1>2, <1>4, <3>1
  <2>3. StringAt(g, end) = <<>>
    <3>1. 0 \in 0 .. Size - 1 - end /\ end + 0 = end
      BY <1>1, <1>2 DEF Addresses
    <3>2. Strlen(g, end) = 0
      BY <1>1, <1>2, <1>6, <1>11, <3>1, StrlenBy
    <3> QED
      BY <1>1, <1>6, <3>2, TextIs
  <2> QED
    BY <1>12, <2>2, <2>3
<1>14. ASSUME m[end] # 0
       PROVE  /\ end + 1 \in Addresses
              /\ StringAt(g, end + 1) = SubSeq(rest, (end - t + 1) + 1, Len(rest))
  <2>1. end + 1 \in t .. t + h /\ end + 1 \in Addresses
    <3>1. end # t + h
      BY <1>2, <1>14
    <3> QED
      BY <1>1, <1>2, <3>1 DEF Addresses
  <2>2. PICK x \in t .. t + h : x = end + 1
    BY <2>1
  <2>3. SubSeq(rest, x - t + 1, Len(rest)) = StringAt(m, x)
    BY <1>1, TailOfText DEF rest, h
  <2>4. x \in Addresses /\ Strlen(m, x) = t + h - x
    BY <1>1, StrlenFrom DEF h
  <2>5. \A r \in x .. x + Strlen(m, x) : r \in Addresses /\ r # end
    BY <1>1, <1>2, <2>2, <2>4 DEF Addresses
  <2>6. StringAt(g, x) = StringAt(m, x)
    BY <1>6, <1>11, <2>4, <2>5, TextKept
  <2>7. x - t + 1 = end - t + 2
    BY <1>2, <2>2
  <2> QED
    BY <1>12, <2>1, <2>2, <2>3, <2>6, <2>7
<1> QED
  BY <1>3, <1>5, <1>6, <1>7, <1>8, <1>9, <1>10, <1>12, <1>13, <1>14
     DEF CutResult, text, g, rest, h

\* The tokens end at or before p.
Behind(m, ts, p) == \A k \in 1 .. Len(ts) : ts[k] + Strlen(m, ts[k]) <= p

LEMMA TokensKept ==
  ASSUME NEW m, IsMemory(m), NEW g, IsMemory(g), NEW ts \in Seq(Addresses),
         NEW p \in Addresses, NEW e \in Addresses, p < e, Behind(m, ts, p),
         \A a \in Addresses : a # e => g[a] = m[a]
  PROVE  \A k \in 1 .. Len(ts) : /\ StringAt(g, ts[k]) = StringAt(m, ts[k])
                                 /\ Strlen(g, ts[k]) = Strlen(m, ts[k])
<1> TAKE k \in 1 .. Len(ts)
<1>1. PICK x \in Addresses : x = ts[k]
  OBVIOUS
<1>2. x + Strlen(m, x) <= p /\ Strlen(m, x) \in Nat
  BY <1>1, StrlenIs DEF Behind
<1>3. \A r \in x .. x + Strlen(m, x) : r \in Addresses /\ r # e
  BY <1>2, StringsAssumption DEF Addresses
<1>4. \A r \in x .. x + Strlen(m, x) : g[r] = m[r]
  BY <1>3
<1> QED
  BY <1>1, <1>4, TextKept

LEMMA TextOfLetters ==
  ASSUME NEW m \in [Addresses -> Letters \cup {0}], IsMemory(m), NEW p \in Addresses
  PROVE  StringAt(m, p) \in Seq(Letters)
<1>1. /\ StringAt(m, p) \in Seq(Int) /\ Len(StringAt(m, p)) = Strlen(m, p)
      /\ \A k \in 1 .. Strlen(m, p) :
           StringAt(m, p)[k] = m[p + k - 1] /\ m[p + k - 1] # 0 /\ p + k - 1 \in Addresses
  BY TextIs
<1>2. \A k \in 1 .. Strlen(m, p) : StringAt(m, p)[k] \in Letters
  BY <1>1
<1> QED
  BY <1>1, <1>2

TokensInv ==
  /\ CallTypes
  /\ sfn # "strtok" => toks = <<>>
  /\ sfn = "strtok" =>
       /\ mem \in [Addresses -> Letters \cup {0}] /\ mem[Size - 1] = 0
       /\ toks \in Seq(Addresses)
       /\ saved # Null => saved \in Addresses /\ Behind(mem, toks, saved)

\* The text and the tokens of the abstract specification.
Uncut ==
  IF sfn # "strtok" THEN StringAt(mem0, 0)
  ELSE IF saved = Null THEN NoText ELSE StringAt(mem, saved)
CutOff == [k \in DOMAIN toks |-> StringAt(mem, toks[k])]

LEMMA LettersAreChars ==
  ASSUME NEW m \in [Addresses -> Letters \cup {0}], m[Size - 1] = 0
  PROVE  IsMemory(m)
<1>1. Letters \cup {0} \subseteq Int
  BY StringsAssumption
<1>2. \A a \in Addresses : m[a] \in Int
  BY <1>1
<1> QED
  BY <1>2 DEF IsMemory

LEMMA TokensInit == StringsInit => TokensInv /\ Cutting!Init
<1> SUFFICES ASSUME StringsInit PROVE TokensInv /\ Cutting!Init
  OBVIOUS
<1>1. CallTypes /\ sfn = "none" /\ toks = <<>>
  BY StringsInvInit DEF StringsInv, StringsInit
<1>2. 0 \in Addresses /\ IsMemory(mem0) /\ mem0 \in [Addresses -> Letters \cup {0}]
  BY <1>1, LettersAreChars, StringsAssumption DEF CallTypes, Addresses
<1>3. StringAt(mem0, 0) \in Seq(Letters)
  BY <1>2, TextOfLetters
<1>4. [k \in DOMAIN toks |-> StringAt(mem, toks[k])] = <<>>
  BY <1>1
<1> QED
  BY <1>1, <1>3, <1>4 DEF TokensInv, Cutting!Init

\* A call of strtok goes on from p.
GoesOnFrom(p) ==
  /\ p \in Addresses /\ IsMemory(mem) /\ mem \in [Addresses -> Letters \cup {0}]
  /\ toks \in Seq(Addresses) /\ Behind(mem, toks, p)
  /\ Uncut = StringAt(mem, p)

LEMMA StrtokGoesOn ==
  ASSUME TokensInv, NEW delims \in SUBSET Letters, CallStrtok(delims)
  PROVE  \E p : GoesOnFrom(p) /\ Strtok(p, delims)
<1>1. CASE sfn = "none" /\ Strtok(0, delims)
  <2>1. mem = mem0 /\ toks = <<>> /\ 0 \in Addresses
    BY <1>1, StringsAssumption DEF TokensInv, CallTypes, Addresses
  <2>2. mem \in [Addresses -> Letters \cup {0}] /\ IsMemory(mem)
    BY <2>1, LettersAreChars DEF TokensInv, CallTypes
  <2>3. toks \in Seq(Addresses) /\ Behind(mem, toks, 0)
    BY <2>1 DEF Behind
  <2>4. Uncut = StringAt(mem, 0)
    BY <1>1, <2>1 DEF Uncut
  <2> QED
    BY <1>1, <2>1, <2>2, <2>3, <2>4 DEF GoesOnFrom
<1>2. CASE sfn = "strtok" /\ saved # Null /\ Strtok(saved, delims)
  <2>1. /\ saved \in Addresses /\ Behind(mem, toks, saved) /\ toks \in Seq(Addresses)
        /\ mem \in [Addresses -> Letters \cup {0}] /\ IsMemory(mem)
    BY <1>2, LettersAreChars DEF TokensInv
  <2>2. Uncut = StringAt(mem, saved)
    BY <1>2 DEF Uncut
  <2> QED
    BY <1>2, <2>1, <2>2 DEF GoesOnFrom
<1> QED
  BY <1>1, <1>2 DEF CallStrtok

\* What a call does, when there is a token: the texts are those of CutIsCut.
LEMMA StrtokCuts ==
  ASSUME NEW p, GoesOnFrom(p), NEW delims \in SUBSET Letters,
         Strtok(p, delims), sfn' = "strtok", UNCHANGED <<arg, mem0>>, CallTypes
  PROVE  /\ TokensInv'
         /\ Cutting!Next(delims)
<1> DEFINE t == p + Strspn(mem, p, delims)
           end == t + Strcspn(mem, t, delims)
           g == [mem EXCEPT ![end] = 0]
           start == Cutting!FirstIn(StringAt(mem, p), LAMBDA c : c \notin delims)
           rest == SubSeq(StringAt(mem, p), start, Len(StringAt(mem, p)))
           stop == Cutting!FirstIn(rest, LAMBDA c : c \in delims)
<1>1. /\ p \in Addresses /\ IsMemory(mem) /\ 0 \notin delims /\ CutAt(mem, p, delims, t, end)
      /\ mem \in [Addresses -> Letters \cup {0}]
      /\ toks \in Seq(Addresses) /\ Behind(mem, toks, p)
  BY StringsAssumption DEF GoesOnFrom, CutAt
<1>2. \/ /\ mem[t] = 0 /\ saved' = Null /\ mem' = mem /\ toks' = toks
      \/ /\ mem[t] # 0 /\ toks' = Append(toks, t) /\ mem' = g
         /\ saved' = IF mem[end] = 0 THEN end ELSE end + 1
  BY DEF Strtok
<1> HIDE DEF t, end
<1>3. /\ rest = <<>> <=> mem[t] = 0
      /\ IsMemory(g)
      /\ StringAt(g, t) = SubSeq(rest, 1, stop - 1)
      /\ Strlen(g, t) = end - t
      /\ mem[end] = 0 => StringAt(g, end) = SubSeq(rest, stop + 1, Len(rest))
      /\ mem[end] # 0 => /\ end + 1 \in Addresses
                         /\ StringAt(g, end + 1) = SubSeq(rest, stop + 1, Len(rest))
  <2>1. CutResult(mem, p, delims, t, end)
    BY <1>1, CutIsCut
  <2> QED
    BY <2>1 DEF CutResult
<1>4. /\ t \in p .. p + Strlen(mem, p) /\ t \in Addresses
      /\ mem[t] \notin delims
      /\ end \in t .. t + Strlen(mem, t) /\ end \in Addresses
      /\ mem[end] = 0 \/ mem[end] \in delims
  BY <1>1, CutPlaces
<1> HIDE DEF g, start, rest, stop
<1>5. Cutting!Next(delims) <=>
        IF rest = <<>> THEN Uncut' = NoText /\ CutOff' = CutOff
        ELSE /\ CutOff' = Append(CutOff, SubSeq(rest, 1, stop - 1))
             /\ Uncut' = SubSeq(rest, stop + 1, Len(rest))
  BY DEF Cutting!Next, GoesOnFrom, Uncut, CutOff, start, rest, stop
<1>6. CASE mem[t] = 0
  <2>1. saved' = Null /\ mem' = mem /\ toks' = toks
    BY <1>2, <1>6
  <2>2. Uncut' = NoText /\ CutOff' = CutOff
    BY <2>1 DEF Uncut, CutOff
  <2>3. TokensInv'
    BY <1>1, <2>1 DEF TokensInv, CallTypes, IsMemory
  <2> QED
    BY <1>3, <1>5, <1>6, <2>2, <2>3
<1>7. CASE mem[t] # 0
  <2>1. /\ toks' = Append(toks, t) /\ mem' = g
        /\ saved' = IF mem[end] = 0 THEN end ELSE end + 1
    BY <1>2, <1>7
  <2>2. /\ g \in [Addresses -> Letters \cup {0}]
        /\ \A a \in Addresses : a # end => g[a] = mem[a]
    BY <1>1, <1>4 DEF g
  <2>3. p < end /\ p \in Nat /\ t \in Nat /\ end \in Nat
    <3>1. t # end
      BY <1>4, <1>7
    <3> QED
      BY <1>1, <1>4, <3>1 DEF Addresses
  <2>4. \A k \in 1 .. Len(toks) : /\ StringAt(g, toks[k]) = StringAt(mem, toks[k])
                                  /\ Strlen(g, toks[k]) = Strlen(mem, toks[k])
    BY <1>1, <1>3, <1>4, <2>2, <2>3, TokensKept
  <2>5. saved' \in Addresses /\ saved' \in Nat /\ saved' >= end /\ saved' # Null
    BY <1>3, <1>4, <2>1, <2>3 DEF Addresses, Null
  <2>6. /\ toks' \in Seq(Addresses) /\ Len(toks') = Len(toks) + 1 /\ Len(toks) \in Nat
        /\ toks'[Len(toks) + 1] = t /\ \A k \in 1 .. Len(toks) : toks'[k] = toks[k]
    BY <1>1, <1>4, <2>1
  <2>7. Behind(g, toks', saved')
    <3>1. ASSUME NEW k \in 1 .. Len(toks)
          PROVE  toks'[k] + Strlen(g, toks'[k]) <= saved'
      <4>1. PICK x \in Addresses : x = toks[k]
        BY <1>1
      <4>2. x + Strlen(mem, x) <= p /\ Strlen(mem, x) \in Nat /\ x \in Nat
        BY <1>1, <4>1, StrlenIs DEF Behind, Addresses
      <4>3. x + Strlen(mem, x) <= saved'
        BY <2>3, <2>5, <4>2
      <4> QED
        BY <2>4, <2>6, <4>1, <4>3
    <3>2. t + Strlen(g, t) <= saved'
      BY <1>3, <2>3, <2>5
    <3>3. \A k \in 1 .. Len(toks) + 1 : k \in 1 .. Len(toks) \/ k = Len(toks) + 1
      BY <2>6
    <3> QED
      BY <2>6, <3>1, <3>2, <3>3 DEF Behind
  <2>8. TokensInv'
    <3>1. CallTypes'
      BY DEF CallTypes
    <3>2. g[Size - 1] = 0
      BY <1>3 DEF IsMemory
    <3> QED
      BY <2>1, <2>2, <2>5, <2>6, <2>7, <3>1, <3>2 DEF TokensInv
  <2>9. Uncut' = SubSeq(rest, stop + 1, Len(rest))
    <3>1. Uncut' = StringAt(g, saved')
      BY <2>1, <2>5 DEF Uncut
    <3> QED
      BY <1>3, <2>1, <3>1
  <2>10. CutOff' = Append(CutOff, SubSeq(rest, 1, stop - 1))
    <3> DEFINE w == SubSeq(rest, 1, stop - 1)
    <3>1. DOMAIN toks = 1 .. Len(toks) /\ DOMAIN toks' = 1 .. Len(toks) + 1
      BY <1>1, <2>6
    <3>2. CutOff' = [k \in 1 .. Len(toks) + 1 |-> StringAt(g, toks'[k])]
      BY <2>1, <3>1 DEF CutOff
    <3>3. CutOff = [k \in 1 .. Len(toks) |-> StringAt(mem, toks[k])]
      BY <3>1 DEF CutOff
    <3>4. Len(CutOff) = Len(toks) /\ DOMAIN CutOff = 1 .. Len(toks)
      BY <2>6, <3>3
    <3>5. StringAt(g, t) = w
      BY <1>3
    <3> HIDE DEF w
    <3>6. Append(CutOff, w) = [k \in 1 .. Len(toks) + 1 |->
                                 IF k = Len(toks) + 1 THEN w ELSE CutOff[k]]
      BY <2>6, <3>3, <3>4
    <3>7. ASSUME NEW k \in 1 .. Len(toks) + 1
          PROVE  StringAt(g, toks'[k]) = IF k = Len(toks) + 1 THEN w ELSE CutOff[k]
      <4>1. CASE k = Len(toks) + 1
        BY <2>6, <3>5, <4>1
      <4>2. CASE k # Len(toks) + 1
        <5>1. k \in 1 .. Len(toks)
          BY <2>6, <4>2
        <5> QED
          BY <2>4, <2>6, <3>3, <4>2, <5>1
      <4> QED
        BY <4>1, <4>2
    <3> QED
      BY <3>2, <3>6, <3>7 DEF w
  <2> QED
    BY <1>3, <1>5, <1>7, <2>8, <2>9, <2>10
<1> QED
  BY <1>6, <1>7

LEMMA TokensStep ==
  ASSUME NoText \notin Seq(Letters)
  PROVE  TokensInv /\ [StringsNext]_stringVars =>
           /\ TokensInv'
           /\ [/\ Uncut # NoText
               /\ \E delims \in SUBSET Letters : Cutting!Next(delims)]_<<Uncut, CutOff>>
<1> SUFFICES ASSUME TokensInv, [StringsNext]_stringVars
             PROVE  /\ TokensInv'
                    /\ \/ /\ Uncut # NoText
                          /\ \E delims \in SUBSET Letters : Cutting!Next(delims)
                       \/ Uncut' = Uncut /\ CutOff' = CutOff
  OBVIOUS
<1>1. ASSUME NEW delims \in SUBSET Letters, CallStrtok(delims)
      PROVE  TokensInv' /\ Uncut # NoText /\ Cutting!Next(delims)
  <2>1. PICK p : GoesOnFrom(p) /\ Strtok(p, delims)
    BY <1>1, StrtokGoesOn
  <2>2. Uncut \in Seq(Letters)
    BY <2>1, TextOfLetters DEF GoesOnFrom
  <2>3. sfn' = "strtok" /\ UNCHANGED <<arg, mem0>> /\ CallTypes
    BY <1>1 DEF CallStrtok, TokensInv
  <2>4. TokensInv' /\ Cutting!Next(delims)
    BY <2>1, <2>3, StrtokCuts
  <2> QED
    BY <2>2, <2>4
<1>2. CASE UNCHANGED stringVars
  <2>1. TokensInv'
    BY <1>2 DEF stringVars, TokensInv, CallTypes, Behind, Strlen, First
  <2>2. Uncut' = Uncut /\ CutOff' = CutOff
    BY <1>2 DEF stringVars, Uncut, CutOff
  <2> QED
    BY <2>1, <2>2
<1>3. ASSUME sfn = "none", sfn' \notin {"none", "strtok"}, UNCHANGED <<saved, toks, mem0>>,
             CallTypes'
      PROVE  TokensInv' /\ Uncut' = Uncut /\ CutOff' = CutOff
  <2>1. toks = <<>> /\ toks' = <<>>
    BY <1>3 DEF TokensInv
  <2>2. CutOff' = CutOff
    BY <2>1 DEF CutOff
  <2>3. Uncut' = Uncut
    BY <1>3 DEF Uncut
  <2> QED
    BY <1>3, <2>1, <2>2, <2>3 DEF TokensInv
<1>4. ASSUME NEW p \in Addresses, NEW q \in Addresses, NEW n \in 0 .. Size,
             CallMemory(p, q, n) \/ CallCopy(p, q, n) \/ CallStrncmp(p, q, n)
      PROVE  TokensInv' /\ Uncut' = Uncut /\ CutOff' = CutOff
  <2>1. /\ sfn = "none" /\ sfn' \notin {"none", "strtok"} /\ UNCHANGED <<saved, toks, mem0>>
        /\ arg' = Args(p, q, n)
    BY <1>4 DEF CallMemory, CallCopy, CallStrncmp, Stores, Finds, Calls
  <2>2. CallTypes'
    BY <2>1 DEF TokensInv, CallTypes, Args, Addresses
  <2> QED
    BY <1>3, <2>1, <2>2
<1>5. ASSUME NEW p \in Addresses, NEW q \in Addresses, CallFind(p, q)
      PROVE  TokensInv' /\ Uncut' = Uncut /\ CutOff' = CutOff
  <2>1. /\ sfn = "none" /\ sfn' \notin {"none", "strtok"} /\ UNCHANGED <<saved, toks, mem0>>
        /\ arg' = Args(p, q, 0)
    BY <1>5 DEF CallFind, Finds, Calls
  <2>2. CallTypes'
    BY <2>1, StringsAssumption DEF TokensInv, CallTypes, Args, Addresses
  <2> QED
    BY <1>3, <2>1, <2>2
<1>6. ASSUME NEW p \in Addresses, NEW c \in Letters \cup {0}, NEW n \in 0 .. Size,
             CallChar(p, c) \/ CallMemchr(p, c, n)
      PROVE  TokensInv' /\ Uncut' = Uncut /\ CutOff' = CutOff
  <2>1. /\ sfn = "none" /\ sfn' \notin {"none", "strtok"} /\ UNCHANGED <<saved, toks, mem0>>
        /\ arg' = CharArgs(p, c, 0) \/ arg' = CharArgs(p, c, n)
    BY <1>6 DEF CallChar, CallMemchr, Finds, Calls
  <2>2. CallTypes'
    <3>1. 0 \in Addresses /\ 0 \in 0 .. Size
      BY StringsAssumption DEF Addresses
    <3> QED
      BY <2>1, <3>1 DEF TokensInv, CallTypes, CharArgs
  <2> QED
    BY <1>3, <2>1, <2>2
<1>7. 0 \in 0 .. Size
  BY StringsAssumption
<1> QED
  BY <1>1, <1>2, <1>4, <1>5, <1>6, <1>7 DEF StringsNext

LEMMA TokensInvHolds ==
  ASSUME NoText \notin Seq(Letters)
  PROVE  StringsSpec => []TokensInv
<1>1. TokensInv /\ [StringsNext]_stringVars => TokensInv'
  BY TokensStep
<1> QED
  BY <1>1, TokensInit, PTL DEF StringsSpec

\* strtok cuts a text of any length into its tokens, with delimiters that may
\* change from call to call, and no later call stores into a token that it has
\* returned (strtok_r of string.c implements Tokens).
THEOREM CutsTokensHolds ==
  ASSUME NoText \notin Seq(Letters)
  PROVE  StringsSpec => CutsTokens
<1>1. TokensInv /\ [StringsNext]_stringVars =>
        [Uncut # NoText /\ \E delims \in SUBSET Letters : Cutting!Next(delims)]_<<Uncut, CutOff>>
  BY TokensStep
<1> QED
  BY <1>1, TokensInit, TokensInvHolds, PTL
     DEF StringsSpec, CutsTokens, Cutting!Spec, Uncut, CutOff
-----------------------------------------------------------------------------
(***************************************************************************)
(* Library: the parts together.  Each keeps what was shown of it alone:    *)
(* a call of one leaves the state of the others as it is.                  *)
(***************************************************************************)
LibraryInv ==
  /\ StringsInv /\ QueueInv
  /\ IF job = "arrays" THEN SearchInv /\ SortInv ELSE fn = "none"

LEMMA LibraryBegins == LibraryInit => LibraryInv /\ TokensInv /\ Cutting!Init /\ List!Init
<1> SUFFICES ASSUME LibraryInit PROVE LibraryInv /\ TokensInv /\ Cutting!Init /\ List!Init
  OBVIOUS
<1>1. StringsInit
  BY DEF LibraryInit, StringsIdle
<1>2. StringsInv /\ TokensInv /\ Cutting!Init
  BY <1>1, StringsInvInit, TokensInit
<1>3. QueueInv /\ List!Init
  BY QueueInvInit, AfterInit DEF LibraryInit, After
<1>4. IF job = "arrays" THEN SearchInv /\ SortInv ELSE fn = "none"
  BY SearchInit, SortInit DEF LibraryInit, ArraysIdle
<1> QED
  BY <1>2, <1>3, <1>4 DEF LibraryInv

\* A step of Library is a step of the part that runs, and none of the others.
LEMMA PartsStep ==
  [LibraryNext]_libraryVars =>
    /\ [StringsNext]_stringVars /\ [QueueNext]_queueVars
    /\ job' = job
    /\ IF job = "arrays" THEN [ArraysNext]_arrayVars ELSE UNCHANGED arrayVars
<1>1. CASE LibraryNext
  <2>1. CASE job = "arrays" /\ ArraysNext /\ UNCHANGED <<stringVars, queueVars>>
    BY <1>1, <2>1 DEF LibraryNext
  <2>2. CASE job = "strings" /\ StringsNext /\ UNCHANGED <<arrayVars, queueVars>>
    BY <1>1, <2>2 DEF LibraryNext
  <2>3. CASE job = "lists" /\ QueueNext /\ UNCHANGED <<arrayVars, stringVars>>
    BY <1>1, <2>3 DEF LibraryNext
  <2> QED
    BY <1>1, <2>1, <2>2, <2>3 DEF LibraryNext
<1>2. CASE UNCHANGED libraryVars
  BY <1>2 DEF libraryVars
<1> QED
  BY <1>1, <1>2

LEMMA LibraryStep == LibraryInv /\ [LibraryNext]_libraryVars => LibraryInv'
<1> SUFFICES ASSUME LibraryInv, [LibraryNext]_libraryVars PROVE LibraryInv'
  OBVIOUS
<1>1. /\ [StringsNext]_stringVars /\ [QueueNext]_queueVars
      /\ job' = job
      /\ IF job = "arrays" THEN [ArraysNext]_arrayVars ELSE UNCHANGED arrayVars
  BY PartsStep
<1>2. StringsInv'
  BY <1>1, StringsInvStep DEF LibraryInv
<1>3. QueueInv'
  BY <1>1, QueueInvStep DEF LibraryInv
<1>4. CASE job = "arrays"
  BY <1>1, <1>2, <1>3, <1>4, SearchStep, SortStep DEF LibraryInv
<1>5. CASE job # "arrays"
  BY <1>1, <1>2, <1>3, <1>5 DEF LibraryInv, arrayVars
<1> QED
  BY <1>4, <1>5

LEMMA LibraryInvHolds == LibrarySpec => []LibraryInv
BY LibraryBegins, LibraryStep, PTL DEF LibrarySpec

\* Whatever the program calls, it gets what the part that it calls was shown to
\* give alone: the items in order, what is found, the bytes and the places of
\* the strings, lists whose neighbours agree (stdlib.c, search.c and string.c,
\* which share nothing but strtok's state).
THEOREM LibraryCorrect ==
  ASSUME \A c \in Letters : c > 0
  PROVE  LibrarySpec => [](QsortSorts /\ SearchFinds /\ StringsRight /\ Linked)
<1>1. LibraryInv => QsortSorts /\ SearchFinds /\ StringsRight /\ Linked
  <2>1. LibraryInv => StringsRight /\ Linked
    BY StoredRight, FoundRight DEF LibraryInv, StringsRight, QueueInv
  <2>2. SearchInv /\ SortInv => QsortSorts /\ SearchFinds
    BY SortInvSorts DEF SearchInv, SearchFinds
  <2>3. fn = "none" => QsortSorts /\ SearchFinds
    BY DEF QsortSorts, SearchFinds
  <2> QED
    BY <2>1, <2>2, <2>3 DEF LibraryInv
<1> QED
  BY <1>1, LibraryInvHolds, PTL

\* insque and remque of search.c implement the abstract list, and strtok_r of
\* string.c cuts a text into its tokens, when all the parts are there.
THEOREM LibraryImplements ==
  ASSUME NoText \notin Seq(Letters)
  PROVE  LibrarySpec => KeepsChain /\ CutsTokens
<1>1. LibraryInv /\ [LibraryNext]_libraryVars => [List!Next]_[e \in linked |-> next[e]]
  BY PartsStep, StepRefines DEF LibraryInv, After
<1>2. TokensInv /\ [LibraryNext]_libraryVars =>
        /\ TokensInv'
        /\ [/\ Uncut # NoText
            /\ \E delims \in SUBSET Letters : Cutting!Next(delims)]_<<Uncut, CutOff>>
  BY PartsStep, TokensStep
<1>3. LibrarySpec => KeepsChain
  BY <1>1, LibraryBegins, LibraryInvHolds, PTL DEF LibrarySpec, KeepsChain, List!Spec
<1>4. LibrarySpec => CutsTokens
  BY <1>2, LibraryBegins, PTL
     DEF LibrarySpec, CutsTokens, Cutting!Spec, Uncut, CutOff
<1> QED
  BY <1>3, <1>4
==============================================================================
