---------------------------- MODULE MallocProofs ----------------------------
(***************************************************************************)
(* What the allocator guarantees for every number of threads and every     *)
(* heap, when the sizes asked for are far enough from SIZE_MAX (SafeSizes; *)
(* when they do, sbrk gets a small sum and may move the break down).       *)
(*                                                                         *)
(* The argument is in four steps.  A thread is cloned only when two        *)
(* blocks were returned, so the mutex was ready: every step of the         *)
(* allocator is a step of LazyMutex with early = TRUE.  By the theorem on  *)
(* LazyMutex one thread at a time is between the two calls of brk.  Hence  *)
(* the break that a thread has read is still the break when it moves it,   *)
(* and the block it gets lies above every other.  From this follows, in a  *)
(* fourth step, what memory holds: no store reaches another's block.       *)
(***************************************************************************)
EXTENDS Malloc, TLAPS

LMP == INSTANCE LazyMutexProofs WITH early <- TRUE

(***************************************************************************)
(* The allocator and its mutex move together.                              *)
(***************************************************************************)
ControlTyped ==
  /\ LM!TypeOK
  /\ pc \in [Threads -> Places]

\* A thread is in the mutex when and only when it is where it needs it, and
\* whoever has got past the initialisation, or holds a block, saw it ready.
InStep ==
  /\ \A t \in Threads : at[t] = "in" <=> pc[t] \in {"query", "extend", "unlock"}
  /\ \A t \in Threads : pc[t] \in {"user", "meta", "copy", "return"} => at[t] = "out"
  /\ \A t \in Threads : pc[t] \notin {"user", "init"} => ready
  /\ \A t \in Threads : at[t] \in {"unguard", "lock", "in"} => ready
  /\ owned # {} => ready

ControlInv == ControlTyped /\ InStep

LEMMA ControlInit == Init => ControlInv /\ LMP!Init
BY HeapAssumption, MainAssumption
   DEF Init, ControlInv, ControlTyped, InStep, LM!Init, LM!TypeOK, LM!Places, Places, LMP!Init

\* Every step of the allocator is a step of its mutex, or leaves it alone.
LEMMA StepInMutex ==
  ASSUME ControlInv, [Next]_vars
  PROVE  [LMP!Next]_(LMP!vars)
<1> USE DEF ControlInv
<1>1. ASSUME NEW t \in Threads, NEW fn, NEW size, NEW ptr, Call(t, fn, size, ptr)
      PROVE  LMP!Enter(t)
  BY <1>1 DEF Call, LM!Enter, LMP!Enter, LM!Goto, LMP!Goto
<1>2. ASSUME NEW t \in Threads, Initialise(t)
      PROVE  LMP!Proceed(t)
  BY <1>2 DEF Initialise, LMP!Proceed, LM!TakeGuard, LMP!TakeGuard, LM!ResetLock,
     LMP!ResetLock, LM!Publish, LMP!Publish, LM!ClearGuard, LMP!ClearGuard, LM!Goto, LMP!Goto
<1>3. ASSUME NEW t \in Threads, Lock(t)
      PROVE  LMP!Acquire(t)
  BY <1>3 DEF Lock, LM!Acquire, LMP!Acquire, LM!Goto, LMP!Goto
<1>4. ASSUME NEW t \in Threads, Unlock(t)
      PROVE  LMP!Release(t)
  BY <1>4 DEF Unlock, LM!Release, LMP!Release, LM!Goto, LMP!Goto
<1>5. ASSUME NEW t \in Threads, NEW u \in Threads, Clone(t, u)
      PROVE  LMP!Spawn(t, u)
  BY <1>5 DEF Clone, LMP!Spawn, InStep
<1>6. ASSUME NEW t \in Threads,
             QueryBreak(t) \/ MoveBreak(t) \/ WriteMeta(t) \/ Copy(t) \/ Return(t)
      PROVE  UNCHANGED LMP!vars
  BY <1>6 DEF QueryBreak, MoveBreak, WriteMeta, Copy, Return, mutexVars, LMP!vars
<1>7. ASSUME NEW t \in Threads, NEW b \in owned, Free(t, b) \/ Fill(t, b)
      PROVE  UNCHANGED LMP!vars
  BY <1>7 DEF Free, Fill, mutexVars, LMP!vars
<1>8. CASE UNCHANGED vars
  BY <1>8 DEF vars, mutexVars, LMP!vars
<1> QED
  BY <1>1, <1>2, <1>3, <1>4, <1>5, <1>6, <1>7, <1>8 DEF Next, LMP!Next, LMP!Proceed

\* What the steps of the mutex do to the types and to readiness.
LEMMA ControlStep ==
  ASSUME ControlInv, [Next]_vars
  PROVE  ControlInv'
<1> USE DEF ControlInv, ControlTyped, InStep, LM!TypeOK, LM!Places, LM!Initialising,
            Places, Goto, LM!Goto
<1>1. ASSUME NEW t \in Threads, NEW fn, NEW size, NEW ptr, Call(t, fn, size, ptr)
      PROVE  ControlInv'
  BY <1>1 DEF Call, LM!Enter, heapVars
<1>2. ASSUME NEW t \in Threads, Initialise(t)
      PROVE  ControlInv'
  BY <1>2 DEF Initialise, LM!TakeGuard, LM!ResetLock, LM!Publish, LM!ClearGuard,
     heapVars, callVars
<1>3. ASSUME NEW t \in Threads, Lock(t)
      PROVE  ControlInv'
  BY <1>3 DEF Lock, LM!Acquire, heapVars
<1>4. ASSUME NEW t \in Threads, Unlock(t)
      PROVE  ControlInv'
  BY <1>4 DEF Unlock, LM!Release, heapVars
<1>5. ASSUME NEW t \in Threads, NEW u \in Threads, Clone(t, u)
      PROVE  ControlInv'
  BY <1>5 DEF Clone, callVars
<1>6. ASSUME NEW t \in Threads, QueryBreak(t) \/ MoveBreak(t)
      PROVE  ControlInv'
  BY <1>6 DEF QueryBreak, MoveBreak, mutexVars, heapVars
<1>7. ASSUME NEW t \in Threads, WriteMeta(t) \/ Copy(t) \/ Return(t)
      PROVE  ControlInv'
  BY <1>7 DEF WriteMeta, AfterMalloc, Copy, Return, mutexVars
<1>8. ASSUME NEW t \in Threads, NEW b \in owned, Free(t, b) \/ Fill(t, b)
      PROVE  ControlInv'
  BY <1>8 DEF Free, Fill, mutexVars, callVars
<1>9. CASE UNCHANGED vars
  BY <1>9 DEF vars, mutexVars, heapVars, callVars
<1> QED
  BY <1>1, <1>2, <1>3, <1>4, <1>5, <1>6, <1>7, <1>8, <1>9 DEF Next

LEMMA ControlInvHolds == Spec => []ControlInv
<1>1. ControlInv /\ [Next]_vars => ControlInv'
  BY ControlStep
<1> QED
  BY <1>1, ControlInit, PTL DEF Spec

LEMMA MutexSpec == Spec => LMP!Spec
<1>1. ControlInv /\ [Next]_vars => [LMP!Next]_(LMP!vars)
  BY StepInMutex
<1> QED
  BY <1>1, ControlInit, ControlInvHolds, PTL DEF Spec, LMP!Spec

\* malloc_mtx is a lazily initialised mutex whose other threads are created
\* after its initialisation, because thrd_create has allocated twice by then.
THEOREM UsesLazyMutexHolds == Spec => UsesLazyMutex
<1>1. LMP!Spec <=> LM!Spec
  BY DEF LMP!Spec, LM!Spec, LMP!Init, LM!Init, LMP!Next, LM!Next, LMP!vars, LM!vars,
     LMP!Spawn, LM!Spawn, LMP!Enter, LM!Enter, LMP!EnterReady, LM!EnterReady,
     LMP!Proceed, LM!Proceed, LMP!TakeGuard, LM!TakeGuard, LMP!ResetLock, LM!ResetLock,
     LMP!Publish, LM!Publish, LMP!ClearGuard, LM!ClearGuard, LMP!Acquire, LM!Acquire,
     LMP!Release, LM!Release, LMP!Goto, LM!Goto
<1> QED
  BY <1>1, MutexSpec DEF UsesLazyMutex

\* One thread at a time is between the lock and the unlock of malloc.
Alone == \A t, u \in Threads : at[t] = "in" /\ at[u] = "in" => t = u

LEMMA AloneHolds == Spec => []Alone
<1>1. Spec => []LMP!MutualExclusion
  BY MutexSpec, MainAssumption, LMP!MutualExclusionHolds
<1>2. LMP!MutualExclusion => Alone
  BY DEF LMP!MutualExclusion, LMP!OneInside, Alone
<1> QED
  BY <1>1, <1>2, PTL
-----------------------------------------------------------------------------
(***************************************************************************)
(* The break grows block by block.                                         *)
(***************************************************************************)
HeapTyped ==
  /\ brk \in Start .. Limit
  /\ req \in [Threads -> Requests \cup {NoRequest}]
  /\ \A t \in Threads : pc[t] # "user" => req[t] \in Requests
  /\ cur \in [Threads -> Addr]
  /\ got \in [Threads -> Addr \cup {Failed}]
  /\ \A t \in Threads : pc[t] \in {"meta", "copy"} => got[t] # Failed
  /\ blocks \subseteq Block
  /\ owned \subseteq blocks

\* Between sbrk and the return of malloc a block belongs to the call.
Pending(t) == pc[t] \in {"unlock", "meta", "copy", "return"} /\ got[t] # Failed

Stacked ==
  /\ \A t \in Threads : pc[t] = "extend" => cur[t] = brk
  /\ \A b \in blocks : Start <= b.data - H /\ b.data + b.size <= brk
  /\ \A t \in Threads : Pending(t) =>
       /\ Reserved(t) \in blocks \ owned
       /\ Data(got[t]) = got[t] + H
  /\ BlocksDisjoint

HeapInv == HeapTyped /\ Stacked

LEMMA HeapInit == Init => HeapInv
BY HeapAssumption
   DEF Init, HeapInv, HeapTyped, Stacked, Pending, BlocksDisjoint, Addr, Failed, Block

\* The arithmetic of sbrk: what the kernel accepts has not wrapped around.
LEMMA NoWrap ==
  ASSUME SafeSizes, NEW size \in Sizes, NEW base \in Start .. Limit
  PROVE  /\ Extent(size) = size + H /\ Extent(size) # 0
         /\ LET next == Wrap(base + Extent(size))
            IN  next \in Start .. Limit => next = base + H + size /\ Data(base) = base + H
         /\ base \in Addr /\ base # Failed
<1>1. size \in 1 .. M - 1 /\ size + H < M - (Limit - Start)
  BY HeapAssumption DEF SafeSizes
<1>2. Extent(size) = size + H /\ Extent(size) # 0
  BY <1>1, HeapAssumption DEF Extent, Wrap
<1>3. ASSUME Wrap(base + (size + H)) \in Start .. Limit
      PROVE  Wrap(base + (size + H)) = base + size + H /\ base + H < M
  <2>1. CASE base + size + H >= M
    <3>1. base + size + H - M < Start
      BY <1>1, HeapAssumption
    <3> QED
      BY <1>1, <1>3, <2>1, <3>1, HeapAssumption DEF Wrap
  <2>2. CASE ~(base + size + H >= M)
    BY <1>1, <2>2, HeapAssumption DEF Wrap
  <2> QED
    BY <2>1, <2>2
<1>4. base \in Addr /\ base # Failed
  BY HeapAssumption DEF Addr, Failed
<1>5. base + size + H = base + H + size /\ base + H < base + H + size /\ Limit < M
  BY <1>1, HeapAssumption
<1>6. base + H < M => Data(base) = base + H
  BY <1>1, HeapAssumption DEF Data, Wrap
<1> QED
  BY <1>2, <1>3, <1>4, <1>5, <1>6

LEMMA Numbers ==
  /\ M \in Nat /\ H \in Nat \ {0} /\ Start \in Nat /\ Limit \in Nat /\ Limit < M
  /\ Sizes \subseteq Nat \ {0} /\ Addr \subseteq Nat
  /\ \A b \in Block : b.data \in Nat /\ b.size \in Nat \ {0}
<1>1. M \in Nat /\ H \in Nat \ {0} /\ Start \in Nat /\ Limit \in Nat /\ Limit < M
  BY HeapAssumption
<1>2. Sizes \subseteq Nat \ {0} /\ Addr \subseteq Nat
  BY <1>1, HeapAssumption DEF Addr
<1>3. \A b \in Block : b.data \in Addr /\ b.size \in Sizes
  BY DEF Block
<1> QED
  BY <1>1, <1>2, <1>3

\* The two regions of a new block at the break and of one below it.
LEMMA AboveIsDisjoint ==
  ASSUME NEW b \in Block, NEW c \in Block,
         b.data + b.size <= c.data - H
  PROVE  Region(b) \cap Region(c) = {} /\ Region(c) \cap Region(b) = {}
<1>1. /\ b.data \in Nat /\ c.data \in Nat /\ b.size \in Nat /\ c.size \in Nat
      /\ H \in Nat
  BY Numbers
<1>2. Region(b) = b.data - H .. b.data + b.size - 1
  BY DEF Region, Meta
<1>3. Region(c) = c.data - H .. c.data + c.size - 1
  BY DEF Region, Meta
<1> QED
  BY <1>1, <1>2, <1>3, SMTT(30)

LEMMA MoveBreakStep ==
  ASSUME SafeSizes, ControlInv, Alone, HeapInv, NEW t \in Threads, MoveBreak(t)
  PROVE  HeapInv' /\ brk' >= brk
<1> DEFINE size == req[t].size
           new == BlockAt(brk, t)
           next == Wrap(brk + Extent(size))
<1>1. /\ pc[t] = "extend" /\ pc' = [pc EXCEPT ![t] = "unlock"]
      /\ size \in Sizes /\ cur[t] = brk /\ brk \in Start .. Limit
  BY DEF MoveBreak, HeapInv, HeapTyped, Stacked, Requests, Goto
<1>2. /\ Extent(size) = size + H /\ Extent(size) # 0
      /\ next \in Start .. Limit => next = brk + H + size /\ Data(brk) = brk + H
      /\ brk \in Addr /\ brk # Failed
  BY <1>1, NoWrap, Zenon
<1>3. size \in Nat \ {0} /\ H \in Nat \ {0} /\ Limit < M /\ {M, Start, Limit} \subseteq Nat
  BY <1>1, Numbers
\* Nobody else is at the break, so nobody else's reading of it goes stale.
<1>4. \A u \in Threads : u # t => pc[u] # "extend"
  BY <1>1 DEF ControlInv, InStep, Alone
<1>5. /\ cur' = cur /\ req' = req /\ owned' = owned
      /\ pc \in [Threads -> Places]
  BY DEF MoveBreak, ControlInv, ControlTyped
<1>6. CASE next \in Start .. Limit
  <2>1. /\ brk' = next /\ blocks' = blocks \cup {new}
        /\ got' = [got EXCEPT ![t] = brk]
    BY <1>1, <1>2, <1>6 DEF MoveBreak, SysBrk
  <2>2. new.data = brk + H /\ new.size = size /\ new.by = t /\ new \in Block
    <3>1. brk + H \in Addr
      BY <1>1, <1>2, <1>3, <1>6 DEF Addr
    <3>2. new = [data |-> brk + H, size |-> size, by |-> t]
      BY <1>2, <1>6 DEF BlockAt
    <3> QED
      BY <1>1, <3>1, <3>2 DEF Block
  <2>3. brk' = brk + H + size
    BY <1>2, <1>6, <2>1
  <2>4. HeapTyped'
    BY <1>1, <1>2, <1>3, <1>5, <1>6, <2>1, <2>2 DEF HeapInv, HeapTyped, Places
  <2>5. \A b \in blocks : b \in Block /\ b.data + b.size <= brk
    BY DEF HeapInv, HeapTyped, Stacked
  <2>6. BlocksDisjoint'
    <3>1. \A b \in blocks :
            Region(b) \cap Region(new) = {} /\ Region(new) \cap Region(b) = {}
      BY <1>3, <1>1, <2>2, <2>5, AboveIsDisjoint
    <3> QED
      BY <2>1, <3>1 DEF HeapInv, Stacked, BlocksDisjoint
  <2>7. new \notin blocks
    BY <1>1, <1>3, <2>2, <2>5
  <2>8. \A u \in Threads : Pending(u)' =>
          Reserved(u)' \in blocks' \ owned' /\ Data(got'[u]) = got'[u] + H
    <3>1. Reserved(t)' = new /\ Data(got'[t]) = got'[t] + H
      <4>1. got'[t] = brk
        BY <2>1 DEF HeapInv, HeapTyped
      <4> QED
        BY <1>2, <1>5, <1>6, <4>1 DEF Reserved, BlockAt
    <3>2. \A u \in Threads : u # t =>
            Reserved(u)' = Reserved(u) /\ (Pending(u)' => Pending(u)) /\ got'[u] = got[u]
      BY <1>1, <1>5, <2>1 DEF Reserved, BlockAt, HeapInv, HeapTyped, Pending
    <3>3. new \notin owned
      BY <2>7 DEF HeapInv, HeapTyped
    <3> QED
      BY <1>5, <2>1, <3>1, <3>2, <3>3 DEF HeapInv, Stacked
  <2>9. /\ \A u \in Threads : pc'[u] = "extend" => cur'[u] = brk'
        /\ \A b \in blocks' : Start <= b.data - H /\ b.data + b.size <= brk'
    <3>1. pc'[t] = "unlock" /\ \A u \in Threads : u # t => pc'[u] = pc[u]
      BY <1>1, <1>5
    <3>2. \A b \in blocks : Start <= b.data - H /\ b.data + b.size <= brk'
      BY <1>1, <1>3, <2>3, <2>5, Numbers DEF HeapInv, Stacked
    <3>3. Start <= new.data - H /\ new.data + new.size <= brk'
      BY <1>1, <1>3, <2>2, <2>3
    <3> QED
      BY <1>4, <2>1, <3>1, <3>2, <3>3
  <2> QED
    BY <1>1, <1>3, <2>3, <2>4, <2>6, <2>8, <2>9 DEF HeapInv, Stacked
<1>7. CASE next \notin Start .. Limit
  <2>1. brk' = brk /\ blocks' = blocks /\ got' = [got EXCEPT ![t] = Failed]
    <3>1. SysBrk(next) = brk /\ SysBrk(next) # next
      BY <1>1, <1>7 DEF SysBrk
    <3> QED
      BY <1>1, <1>2, <3>1 DEF MoveBreak
  <2>2. HeapTyped'
    BY <1>1, <1>5, <2>1 DEF HeapInv, HeapTyped, Places
  <2>3. \A u \in Threads : Pending(u)' => Pending(u) /\ Reserved(u)' = Reserved(u) /\ u # t
    BY <1>1, <1>5, <2>1 DEF Reserved, BlockAt, HeapInv, HeapTyped, Pending
  <2>4. Stacked'
    BY <1>1, <1>5, <2>1, <2>3 DEF HeapInv, HeapTyped, Stacked, BlocksDisjoint, Data, Wrap
  <2> QED
    BY <1>1, <2>1, <2>2, <2>4 DEF HeapInv
<1> QED
  BY <1>6, <1>7

\* The steps that neither move the break nor reserve a block.
LEMMA OtherHeapStep ==
  ASSUME ControlInv, HeapInv, [Next]_vars, \A t \in Threads : ~MoveBreak(t)
  PROVE  HeapInv' /\ brk' = brk
<1>0. pc \in [Threads -> Places]
  BY DEF ControlInv, ControlTyped
<1> USE <1>0 DEF HeapInv, HeapTyped, Stacked, Pending, Reserved, BlockAt, BlocksDisjoint,
             Places, Goto
<1>1. ASSUME NEW t \in Threads, NEW fn \in Functions, NEW size \in Sizes, NEW ptr \in Addr,
             Call(t, fn, size, ptr)
      PROVE  HeapInv' /\ brk' = brk
  BY <1>1 DEF Call, heapVars, Requests
<1>2. ASSUME NEW t \in Threads, Initialise(t) \/ Lock(t)
      PROVE  HeapInv' /\ brk' = brk
  BY <1>2 DEF Initialise, Lock, heapVars, callVars
<1>3. ASSUME NEW t \in Threads, QueryBreak(t)
      PROVE  HeapInv' /\ brk' = brk
  <2>1. brk \in Addr
    BY Numbers DEF Addr
  <2> QED
    BY <1>3, <2>1 DEF QueryBreak, heapVars
<1>4. ASSUME NEW t \in Threads, Unlock(t)
      PROVE  HeapInv' /\ brk' = brk
  BY <1>4 DEF Unlock, heapVars
<1>5. ASSUME NEW t \in Threads, WriteMeta(t)
      PROVE  HeapInv' /\ brk' = brk
  BY <1>5 DEF WriteMeta, AfterMalloc
<1>6. ASSUME NEW t \in Threads, Copy(t)
      PROVE  HeapInv' /\ brk' = brk
  BY <1>6 DEF Copy
<1>7. ASSUME NEW t \in Threads, Return(t)
      PROVE  HeapInv' /\ brk' = brk
  <2>1. Start \in Addr /\ NoRequest \in Requests \cup {NoRequest}
    BY Numbers DEF Addr
  <2>2. /\ pc[t] = "return" /\ pc' = [pc EXCEPT ![t] = "user"]
        /\ req' = [req EXCEPT ![t] = NoRequest] /\ got' = [got EXCEPT ![t] = Failed]
        /\ cur' = [cur EXCEPT ![t] = Start] /\ brk' = brk /\ blocks' = blocks
        /\ owned' = owned \cup (IF got[t] = Failed THEN {} ELSE {Reserved(t)})
    BY <1>7 DEF Return
  <2>3. HeapTyped'
    BY <2>1, <2>2
  <2>4. \A u \in Threads : u # t =>
          (Pending(u)' => Pending(u)) /\ Reserved(u)' = Reserved(u) /\ Reserved(u) # Reserved(t)
    BY <2>2
  <2>5. ~Pending(t)'
    BY <2>2
  <2>6. Stacked'
    BY <2>2, <2>4, <2>5
  <2> QED
    BY <2>2, <2>3, <2>6
<1>8. ASSUME NEW t \in Threads, NEW b \in owned, Free(t, b) \/ Fill(t, b)
      PROVE  HeapInv' /\ brk' = brk
  BY <1>8 DEF Free, Fill, callVars
<1>9. ASSUME NEW t \in Threads, NEW u \in Threads, Clone(t, u)
      PROVE  HeapInv' /\ brk' = brk
  BY <1>9 DEF Clone, callVars
<1>10. CASE UNCHANGED vars
  BY <1>10 DEF vars, heapVars, callVars
<1>11. NULL \in Addr /\ "realloc" \in Functions /\ \A b \in owned : b.data \in Addr
  BY Numbers DEF NULL, Addr, Functions, Block
<1> QED
  BY <1>1, <1>2, <1>3, <1>4, <1>5, <1>6, <1>7, <1>8, <1>9, <1>10, <1>11 DEF Next

LEMMA HeapStep ==
  ASSUME SafeSizes, ControlInv, Alone, HeapInv, [Next]_vars
  PROVE  HeapInv' /\ brk' >= brk
<1>1. CASE \E t \in Threads : MoveBreak(t)
  BY <1>1, MoveBreakStep
<1>2. CASE \A t \in Threads : ~MoveBreak(t)
  BY <1>2, OtherHeapStep, Numbers DEF HeapInv, HeapTyped
<1> QED
  BY <1>1, <1>2

LEMMA HeapInvHolds ==
  ASSUME SafeSizes
  PROVE  Spec => []HeapInv
<1>1. ControlInv /\ Alone /\ HeapInv /\ [Next]_vars => HeapInv'
  BY SafeSizes, HeapStep
<1> QED
  BY <1>1, HeapInit, ControlInvHolds, AloneHolds, PTL DEF Spec

\* No two blocks that malloc ever hands out share a cell, metadata included.
THEOREM BlocksDisjointHolds ==
  ASSUME SafeSizes
  PROVE  Spec => []BlocksDisjoint
<1>1. HeapInv => BlocksDisjoint
  BY DEF HeapInv, Stacked
<1> QED
  BY SafeSizes, <1>1, HeapInvHolds, PTL

\* The break never moves down: what was handed out stays mapped.
THEOREM NothingUnmappedHolds ==
  ASSUME SafeSizes
  PROVE  Spec => NothingUnmapped
<1>1. ControlInv /\ Alone /\ HeapInv /\ [Next]_vars => [brk' >= brk]_vars
  BY SafeSizes, HeapStep
<1> QED
  BY SafeSizes, <1>1, HeapInvHolds, ControlInvHolds, AloneHolds, PTL DEF Spec, NothingUnmapped
-----------------------------------------------------------------------------
(***************************************************************************)
(* What memory holds.  The cells at the break and above were never         *)
(* written, a call writes only into the block that it has reserved, and    *)
(* a caller only into a block that it holds: since no two blocks share a   *)
(* cell, a step of one thread leaves the blocks of the others as they are. *)
(***************************************************************************)
\* Nobody has written the data of t's new block yet, unless realloc copied.
Blank(t) == Pending(t) /\ (pc[t] # "return" \/ req[t].ptr = NULL)

\* The size is in the metadata of t's new block.
Labelled(t) == Pending(t) /\ pc[t] \in {"copy", "return"}

\* t is in a realloc of a block, which is still the caller's,
Moving(t) == pc[t] # "user" /\ req[t].ptr # NULL /\ ~(pc[t] = "return" /\ got[t] # Failed)

\* or has been copied.
Moved(t) == pc[t] = "return" /\ got[t] # Failed /\ req[t].ptr # NULL

DataOf(b) == [i \in 1 .. b.size |-> mem[b.data + i - 1]]

CallMemory(t) ==
  /\ Blank(t) => \A a \in Cells(Reserved(t)) : mem[a] = 0
  /\ Labelled(t) => mem[got[t]] = req[t].size
  /\ Moving(t) => \E b \in owned : b.data = req[t].ptr /\ b.by = t /\ was[t] = DataOf(b)
  /\ Moved(t) => \A i \in 1 .. Smaller(Len(was[t]), req[t].size) :
                   mem[Data(got[t]) + i - 1] = was[t][i]

CallRequest(t) ==
  /\ pc[t] # "user" /\ req[t].ptr = NULL => was[t] = <<>>
  /\ req[t].ptr # NULL => req[t].fn = "realloc"
  /\ pc[t] = "copy" => req[t].ptr # NULL

MemoryInv ==
  /\ mem \in [Addr -> Addr]
  /\ was \in [Threads -> Seq(Addr)]
  /\ \A a \in Addr : a >= brk => mem[a] = 0
  /\ MetaIntact
  /\ \A t \in Threads : CallMemory(t)
  /\ \A t \in Threads : CallRequest(t)

LEMMA MemoryInit == Init => MemoryInv
BY Numbers, HeapAssumption
   DEF Init, MemoryInv, MetaIntact, CallMemory, CallRequest, Blank, Labelled, Moving, Moved,
       Pending, NoRequest, NULL, Addr

\* A block lies in the heap, and its metadata is not among its data.
LEMMA BlockInHeap ==
  ASSUME HeapInv, NEW b \in blocks
  PROVE  /\ b \in Block /\ b.data \in Nat /\ b.size \in Nat \ {0} /\ b.size \in Sizes
         /\ Region(b) \subseteq Start .. brk - 1 /\ Region(b) \subseteq Addr
         /\ Cells(b) \subseteq Region(b) /\ Meta(b.data) \in Region(b) \ Cells(b)
         /\ b.data \in Cells(b) /\ \A i \in 1 .. b.size : b.data + i - 1 \in Cells(b)
<1>1. b \in Block /\ Start <= b.data - H /\ b.data + b.size <= brk /\ brk \in Start .. Limit
  BY DEF HeapInv, HeapTyped, Stacked
<1>2. b.data \in Nat /\ b.size \in Nat \ {0} /\ H \in Nat \ {0} /\ Start \in Nat /\ Limit \in Nat
  BY <1>1, Numbers
<1>3. Region(b) = b.data - H .. b.data + b.size - 1 /\ Meta(b.data) = b.data - H
      /\ Cells(b) = b.data .. b.data + b.size - 1 /\ Addr = 0 .. M - 1
  BY DEF Region, Meta, Cells, Addr
<1>4. Limit < M /\ M \in Nat
  BY Numbers
<1>5. Region(b) \subseteq Start .. brk - 1 /\ Start .. brk - 1 \subseteq Addr
  <2>1. Region(b) \subseteq Start .. brk - 1
    BY <1>1, <1>2, <1>3
  <2>2. Start .. brk - 1 \subseteq Addr
    BY <1>1, <1>2, <1>3, <1>4
  <2> QED
    BY <2>1, <2>2
<1>6. Cells(b) \subseteq Region(b) /\ Meta(b.data) \in Region(b) \ Cells(b) /\ b.data \in Cells(b)
  <2>1. \A a \in Int : a >= b.data => a >= b.data - H
    BY <1>2
  <2>2. Cells(b) \subseteq Region(b)
    BY <1>2, <1>3, <2>1
  <2>3. Meta(b.data) \in Region(b) \ Cells(b) /\ b.data \in Cells(b)
    BY <1>2, <1>3
  <2> QED
    BY <2>2, <2>3
<1>7. \A i \in 1 .. b.size : b.data + i - 1 \in Cells(b)
  BY <1>2, <1>3
<1> QED
  BY <1>1, <1>2, <1>5, <1>6, <1>7 DEF Block

\* A step that writes only into c leaves every other block as it is.
LEMMA OtherBlocksKept ==
  ASSUME HeapInv, NEW b \in blocks, NEW c \in blocks, b # c,
         \A a \in Addr \ Region(c) : mem'[a] = mem[a]
  PROVE  /\ \A a \in Region(b) : mem'[a] = mem[a]
         /\ mem'[Meta(b.data)] = mem[Meta(b.data)]
<1>1. Region(b) \cap Region(c) = {}
  BY DEF HeapInv, Stacked, BlocksDisjoint
<1>2. Region(b) \subseteq Addr /\ Meta(b.data) \in Region(b)
  BY BlockInHeap
<1> QED
  BY <1>1, <1>2

\* t writes into its own blocks only.
WritesOwn(t) ==
  \A a \in Addr : mem'[a] # mem[a] => \E c \in blocks : c.by = t /\ a \in Region(c)

\* What the call of another thread depends on stays as it is.
Aside(t) ==
  \A u \in Threads \ {t} :
    /\ pc'[u] = pc[u] /\ req'[u] = req[u] /\ got'[u] = got[u] /\ was'[u] = was[u]
    /\ \A b \in owned : b.by = u => b \in owned'

\* Whatever t does to its own blocks, the calls of the others do not notice.
LEMMA OthersKeep ==
  ASSUME HeapInv, MemoryInv, NEW t \in Threads, WritesOwn(t), Aside(t)
  PROVE  \A u \in Threads \ {t} : CallMemory(u)'
<1> SUFFICES ASSUME NEW u \in Threads \ {t}
             PROVE  CallMemory(u)'
  OBVIOUS
<1> DEFINE new == Reserved(u)
<1>0. /\ CallMemory(u) /\ Len(was[u]) \in Nat
      /\ pc'[u] = pc[u] /\ req'[u] = req[u] /\ got'[u] = got[u] /\ was'[u] = was[u]
      /\ \A b \in owned : b.by = u => b \in owned'
  BY DEF MemoryInv, Aside
<1>1. \A b \in blocks : b.by = u => \A a \in Region(b) : mem'[a] = mem[a]
  <2> SUFFICES ASSUME NEW b \in blocks, b.by = u, NEW a \in Region(b)
               PROVE  mem'[a] = mem[a]
    OBVIOUS
  <2>1. a \in Addr
    BY BlockInHeap
  <2>2. \A c \in blocks : c.by = t => a \notin Region(c)
    BY DEF HeapInv, Stacked, BlocksDisjoint
  <2> QED
    BY <2>1, <2>2 DEF WritesOwn
<1>2. /\ Blank(u)' = Blank(u) /\ Labelled(u)' = Labelled(u)
      /\ Moving(u)' = Moving(u) /\ Moved(u)' = Moved(u) /\ Reserved(u)' = Reserved(u)
  BY <1>0 DEF Blank, Labelled, Moving, Moved, Pending, Reserved, BlockAt
<1>3. ASSUME Pending(u)
      PROVE  /\ new.data = Data(got[u]) /\ new.size = req[u].size /\ new.size \in Nat
             /\ \A a \in Cells(new) : mem'[a] = mem[a]
             /\ \A i \in 1 .. new.size : Data(got[u]) + i - 1 \in Cells(new)
             /\ mem'[got[u]] = mem[got[u]]
  <2>1. new \in blocks /\ Data(got[u]) = got[u] + H /\ new.by = u
    BY <1>3 DEF HeapInv, Stacked, Reserved, BlockAt
  <2>2. new.data = Data(got[u]) /\ new.size = req[u].size
    BY DEF Reserved, BlockAt
  <2>3. got[u] \in Nat /\ H \in Nat \ {0}
    BY <1>3, Numbers DEF HeapInv, HeapTyped, Pending
  <2>4. Meta(new.data) = got[u]
    BY <2>1, <2>2, <2>3 DEF Meta
  <2> QED
    BY <1>1, <2>1, <2>2, <2>4, BlockInHeap
<1>4. ASSUME Blank(u)
      PROVE  \A a \in Cells(Reserved(u)) : mem'[a] = 0
  BY <1>0, <1>3, <1>4 DEF CallMemory, Blank
<1>5. ASSUME Labelled(u)
      PROVE  mem'[got'[u]] = req'[u].size
  BY <1>0, <1>3, <1>5 DEF CallMemory, Labelled
<1>6. ASSUME Moving(u)
      PROVE  \E b \in owned' : b.data = req'[u].ptr /\ b.by = u /\ was'[u] = DataOf(b)'
  <2>1. PICK b \in owned : b.data = req[u].ptr /\ b.by = u /\ was[u] = DataOf(b)
    BY <1>0, <1>6 DEF CallMemory
  <2>2. b \in blocks
    BY DEF HeapInv, HeapTyped
  <2>3. \A i \in 1 .. b.size : b.data + i - 1 \in Region(b)
    BY <2>2, BlockInHeap
  <2>4. DataOf(b)' = DataOf(b)
    BY <1>1, <2>1, <2>2, <2>3 DEF DataOf
  <2> QED
    BY <1>0, <2>1, <2>4
<1>7. ASSUME Moved(u)
      PROVE  \A i \in 1 .. Smaller(Len(was'[u]), req'[u].size) :
               mem'[Data(got'[u]) + i - 1] = was'[u][i]
  <2>1. Pending(u)
    BY <1>7 DEF Moved, Pending
  <2>2. \A i \in 1 .. Smaller(Len(was[u]), req[u].size) : i \in 1 .. new.size
    BY <1>0, <1>3, <2>1 DEF Smaller
  <2>3. \A i \in 1 .. Smaller(Len(was[u]), req[u].size) :
          mem'[Data(got[u]) + i - 1] = mem[Data(got[u]) + i - 1]
    BY <1>3, <2>1, <2>2
  <2>4. \A i \in 1 .. Smaller(Len(was[u]), req[u].size) : mem[Data(got[u]) + i - 1] = was[u][i]
    BY <1>0, <1>7 DEF CallMemory
  <2>5. Data(got'[u]) = Data(got[u])
    BY <1>0 DEF Data, Wrap
  <2> QED
    BY <1>0, <2>3, <2>4, <2>5
<1> QED
  BY <1>2, <1>4, <1>5, <1>6, <1>7 DEF CallMemory

\* The request of a call is the caller's, and only a realloc has a block.
LEMMA RequestStep ==
  ASSUME ControlInv, HeapInv, MemoryInv, [Next]_vars
  PROVE  \A t \in Threads : CallRequest(t)'
<1>0. pc \in [Threads -> Places] /\ req \in [Threads -> Requests \cup {NoRequest}]
      /\ was \in [Threads -> Seq(Addr)]
      /\ \A t \in Threads : CallRequest(t)
  BY DEF ControlInv, ControlTyped, HeapInv, HeapTyped, MemoryInv
<1> USE <1>0 DEF CallRequest, Goto
<1>1. ASSUME NEW t \in Threads, NEW fn \in Functions, NEW size \in Sizes, NEW ptr \in Addr,
             Call(t, fn, size, ptr)
      PROVE  \A u \in Threads : CallRequest(u)'
  BY <1>1 DEF Call
<1>2. ASSUME NEW t \in Threads,
             Initialise(t) \/ Lock(t) \/ QueryBreak(t) \/ MoveBreak(t)
      PROVE  \A u \in Threads : CallRequest(u)'
  BY <1>2 DEF Initialise, Lock, QueryBreak, MoveBreak, callVars
<1>3. ASSUME NEW t \in Threads, Unlock(t) \/ Copy(t)
      PROVE  \A u \in Threads : CallRequest(u)'
  BY <1>3 DEF Unlock, Copy
<1>4. ASSUME NEW t \in Threads, WriteMeta(t)
      PROVE  \A u \in Threads : CallRequest(u)'
  BY <1>4 DEF WriteMeta, AfterMalloc
<1>5. ASSUME NEW t \in Threads, Return(t)
      PROVE  \A u \in Threads : CallRequest(u)'
  BY <1>5 DEF Return, NoRequest
<1>6. ASSUME NEW t \in Threads, NEW b \in owned, Free(t, b) \/ Fill(t, b)
      PROVE  \A u \in Threads : CallRequest(u)'
  BY <1>6 DEF Free, Fill, callVars
<1>7. ASSUME NEW t \in Threads, NEW u \in Threads, Clone(t, u)
      PROVE  \A v \in Threads : CallRequest(v)'
  BY <1>7 DEF Clone, callVars
<1>8. CASE UNCHANGED vars
  BY <1>8 DEF vars, callVars
<1>9. NULL \in Addr /\ "realloc" \in Functions /\ \A b \in owned : b.data \in Addr
  BY Numbers DEF NULL, Addr, Functions, HeapInv, HeapTyped, Block
<1> QED
  BY <1>1, <1>2, <1>3, <1>4, <1>5, <1>6, <1>7, <1>8, <1>9 DEF Next

\* The steps that do not write to memory.
LEMMA QuietStep ==
  ASSUME SafeSizes, ControlInv, Alone, HeapInv, MemoryInv, [Next]_vars, NEW t \in Threads,
         \/ \E fn \in Functions, size \in Sizes, ptr \in Addr : Call(t, fn, size, ptr)
         \/ Initialise(t) \/ Lock(t) \/ QueryBreak(t) \/ MoveBreak(t) \/ Unlock(t) \/ Return(t)
         \/ \E b \in owned : Free(t, b)
         \/ \E u \in Threads : Clone(t, u)
  PROVE  /\ MetaIntact' /\ was' \in [Threads -> Seq(Addr)] /\ mem' = mem
         /\ \A u \in Threads : CallMemory(u)'
<1> USE DEF Goto
<1>0. /\ mem \in [Addr -> Addr] /\ was \in [Threads -> Seq(Addr)]
      /\ \A a \in Addr : a >= brk => mem[a] = 0
      /\ MetaIntact /\ CallMemory(t) /\ CallRequest(t)
      /\ req \in [Threads -> Requests \cup {NoRequest}] /\ pc \in [Threads -> Places]
      /\ got \in [Threads -> Addr \cup {Failed}]
  BY DEF ControlInv, ControlTyped, HeapInv, HeapTyped, MemoryInv
<1>1. mem' = mem
  BY DEF Call, Initialise, Lock, QueryBreak, MoveBreak, Unlock, Return, Free, Clone, heapVars
<1>2. Aside(t)
  BY <1>0 DEF Aside, Call, Initialise, Lock, QueryBreak, MoveBreak, Unlock, Return, Free, Clone,
     heapVars, callVars
<1>3. \A u \in Threads \ {t} : CallMemory(u)'
  BY <1>1, <1>2, OthersKeep DEF WritesOwn
<1>4. ASSUME NEW fn \in Functions, NEW size \in Sizes, NEW ptr \in Addr, Call(t, fn, size, ptr)
      PROVE  MetaIntact' /\ was' \in [Threads -> Seq(Addr)] /\ CallMemory(t)'
  <2>1. /\ pc'[t] = "init" /\ req'[t].ptr = ptr /\ owned' = owned
        /\ was' = [was EXCEPT ![t] = IF ptr = NULL THEN <<>> ELSE Contents(ptr)]
        /\ ptr # NULL => \E b \in owned : b.data = ptr /\ b.by = t
    BY <1>0, <1>4 DEF Call, heapVars
  <2>2. ASSUME NEW b \in owned, b.data = ptr
        PROVE  Contents(ptr) = DataOf(b)' /\ Contents(ptr) \in Seq(Addr)
    <3>1. b \in blocks
      BY DEF HeapInv, HeapTyped
    <3>2. mem[Meta(ptr)] = b.size /\ b.size \in Nat
      BY <1>0, <2>2, <3>1, BlockInHeap DEF MetaIntact
    <3>3. \A k \in 1 .. b.size : mem[b.data + k - 1] \in Addr
      BY <1>0, <3>1, BlockInHeap
    <3>4. Contents(ptr) = [k \in 1 .. b.size |-> mem[b.data + k - 1]]
      BY <2>2, <3>2 DEF Contents
    <3> QED
      BY <1>1, <3>2, <3>3, <3>4 DEF DataOf
  <2>3. was' \in [Threads -> Seq(Addr)]
    BY <1>0, <2>1, <2>2
  <2>4. CallMemory(t)'
    BY <1>0, <2>1, <2>2 DEF CallMemory, Blank, Labelled, Moving, Moved, Pending
  <2> QED
    BY <1>0, <1>1, <2>1, <2>3, <2>4 DEF MetaIntact
<1>5. ASSUME Initialise(t)
      PROVE  MetaIntact' /\ was' \in [Threads -> Seq(Addr)] /\ CallMemory(t)'
  <2>1. UNCHANGED <<heapVars, callVars>>
    BY <1>5 DEF Initialise
  <2> QED
    BY <1>0, <2>1 DEF heapVars, callVars, MetaIntact, CallMemory, Blank, Labelled, Moving, Moved,
       Pending, Reserved, BlockAt, DataOf
<1>6. ASSUME Lock(t) \/ QueryBreak(t)
      PROVE  MetaIntact' /\ was' \in [Threads -> Seq(Addr)] /\ CallMemory(t)'
  <2>1. /\ pc[t] \in {"init", "query"} /\ pc'[t] \in {"query", "extend"}
        /\ UNCHANGED <<mem, owned, req, was, got>>
    BY <1>0, <1>6 DEF Lock, QueryBreak, heapVars
  <2> QED
    BY <1>0, <2>1 DEF MetaIntact, CallMemory, Blank, Labelled, Moving, Moved, Pending, DataOf
<1>7. ASSUME MoveBreak(t)
      PROVE  MetaIntact' /\ was' \in [Threads -> Seq(Addr)] /\ CallMemory(t)'
  <2>1. HeapInv' /\ cur[t] = brk /\ pc[t] = "extend" /\ brk \in Start .. Limit
    BY <1>7, MoveBreakStep DEF MoveBreak, HeapInv, HeapTyped, Stacked
  <2>2. /\ pc'[t] = "unlock" /\ UNCHANGED <<mem, owned, req, was>>
        /\ got'[t] # Failed => got'[t] = brk
    BY <1>0, <1>7, <2>1 DEF MoveBreak
  <2>3. ASSUME got'[t] # Failed
        PROVE  \A a \in Cells(Reserved(t)') : mem[a] = 0
    <3>1. /\ Reserved(t)' \in blocks' /\ Reserved(t)'.data = brk + H
      BY <2>1, <2>2, <2>3 DEF HeapInv, Stacked, Pending, Reserved, BlockAt, Data, Wrap
    <3>2. /\ Reserved(t)'.size \in Nat
          /\ brk + H + Reserved(t)'.size <= Limit
      BY <2>1, <3>1, Numbers DEF HeapInv, HeapTyped, Stacked
    <3>3. Cells(Reserved(t)') \subseteq Addr /\ \A a \in Cells(Reserved(t)') : a >= brk
      BY <2>1, <3>1, <3>2, Numbers DEF Cells, Addr
    <3> QED
      BY <1>0, <3>3
  <2>4. CallMemory(t)'
    BY <1>0, <2>1, <2>2, <2>3
    DEF CallMemory, Blank, Labelled, Moving, Moved, Pending, DataOf, Cells
  <2> QED
    BY <1>0, <2>2, <2>4 DEF MetaIntact
<1>8. ASSUME Unlock(t)
      PROVE  MetaIntact' /\ was' \in [Threads -> Seq(Addr)] /\ CallMemory(t)'
  <2>1. /\ pc[t] = "unlock" /\ pc'[t] = IF got[t] = Failed THEN "return" ELSE "meta"
        /\ UNCHANGED <<mem, owned, req, was, got>>
    BY <1>0, <1>8 DEF Unlock, heapVars
  <2> QED
    BY <1>0, <2>1 DEF MetaIntact, CallMemory, Blank, Labelled, Moving, Moved, Pending, Reserved,
       BlockAt, DataOf
<1>9. ASSUME Return(t)
      PROVE  MetaIntact' /\ was' \in [Threads -> Seq(Addr)] /\ CallMemory(t)'
  <2>1. /\ pc[t] = "return" /\ pc'[t] = "user" /\ mem' = mem
        /\ was' = [was EXCEPT ![t] = <<>>]
        /\ owned' = owned \cup (IF got[t] = Failed THEN {} ELSE {Reserved(t)})
    BY <1>0, <1>9 DEF Return
  <2>2. ASSUME got[t] # Failed
        PROVE  mem[Meta(Reserved(t).data)] = Reserved(t).size
    <3>1. Pending(t) /\ Labelled(t)
      BY <2>1, <2>2 DEF Pending, Labelled
    <3>2. Reserved(t).data = got[t] + H /\ Reserved(t).size = req[t].size
      BY <3>1 DEF HeapInv, Stacked, Reserved, BlockAt
    <3>3. Meta(Reserved(t).data) = got[t]
      <4>1. got[t] \in Nat /\ H \in Nat
        BY <1>0, <2>2, Numbers
      <4> QED
        BY <3>2, <4>1 DEF Meta
    <3> QED
      BY <1>0, <3>1, <3>2, <3>3 DEF CallMemory
  <2>3. MetaIntact'
    BY <1>0, <2>1, <2>2 DEF MetaIntact
  <2>4. was' \in [Threads -> Seq(Addr)]
    BY <1>0, <2>1
  <2>5. CallMemory(t)'
    BY <2>1 DEF CallMemory, Blank, Labelled, Moving, Moved, Pending
  <2> QED
    BY <2>3, <2>4, <2>5
<1>10. ASSUME (\E b \in owned : Free(t, b)) \/ (\E u \in Threads : Clone(t, u))
       PROVE  MetaIntact' /\ was' \in [Threads -> Seq(Addr)] /\ CallMemory(t)'
  <2>1. pc[t] = "user" /\ owned' \subseteq owned /\ UNCHANGED <<mem, was, pc>>
    BY <1>10 DEF Free, Clone, callVars
  <2> QED
    BY <1>0, <2>1 DEF MetaIntact, CallMemory, Blank, Labelled, Moving, Moved, Pending
<1> QED
  BY <1>1, <1>3, <1>4, <1>5, <1>6, <1>7, <1>8, <1>9, <1>10

\* The steps that do.
LEMMA WriteMetaStep ==
  ASSUME ControlInv, HeapInv, MemoryInv, NEW t \in Threads, WriteMeta(t)
  PROVE  /\ mem' \in [Addr -> Addr] /\ MetaIntact' /\ was' = was
         /\ WritesOwn(t) /\ Aside(t) /\ CallMemory(t)'
<1> DEFINE new == Reserved(t)
<1>0. /\ mem \in [Addr -> Addr] /\ MetaIntact /\ CallMemory(t) /\ CallRequest(t)
      /\ pc \in [Threads -> Places] /\ owned \subseteq blocks
  BY DEF ControlInv, ControlTyped, HeapInv, HeapTyped, MemoryInv
<1>1. /\ pc[t] = "meta" /\ pc' = [pc EXCEPT ![t] = AfterMalloc(t)] /\ got[t] # Failed
      /\ mem' = [mem EXCEPT ![got[t]] = req[t].size]
      /\ UNCHANGED <<blocks, owned, req, was, got>>
  BY DEF WriteMeta, Goto, HeapInv, HeapTyped
<1>2. Pending(t) /\ Blank(t)
  BY <1>1 DEF Pending, Blank
<1>3. /\ new \in blocks \ owned /\ new.by = t
      /\ new.data = got[t] + H /\ new.size = req[t].size
  BY <1>2 DEF HeapInv, Stacked, Reserved, BlockAt
<1>4. got[t] = Meta(new.data)
  <2>1. got[t] \in Nat /\ H \in Nat
    BY <1>1, Numbers DEF HeapInv, HeapTyped
  <2> QED
    BY <1>3, <2>1 DEF Meta
<1>5. got[t] \in Region(new) \ Cells(new) /\ got[t] \in Addr /\ new.size \in Addr
  BY <1>3, <1>4, BlockInHeap, HeapAssumption DEF Addr
<1>6. WritesOwn(t)
  BY <1>0, <1>1, <1>3, <1>5 DEF WritesOwn
<1>7. mem' \in [Addr -> Addr] /\ mem'[got[t]] = req[t].size
  BY <1>0, <1>1, <1>3, <1>5
<1>8. \A b \in owned : /\ mem'[Meta(b.data)] = mem[Meta(b.data)]
                       /\ \A a \in Region(b) : mem'[a] = mem[a]
  BY <1>0, <1>1, <1>3, <1>5, OtherBlocksKept
<1>9. MetaIntact'
  BY <1>0, <1>1, <1>8 DEF MetaIntact
<1>10. Aside(t)
  BY <1>0, <1>1 DEF Aside
<1>11. \A a \in Cells(Reserved(t)') : mem'[a] = 0
  <2>1. Reserved(t)' = new
    BY <1>1 DEF Reserved, BlockAt
  <2>2. \A a \in Cells(new) : a # got[t] /\ a \in Addr
    BY <1>3, <1>5, BlockInHeap
  <2> QED
    BY <1>0, <1>1, <1>2, <2>1, <2>2 DEF CallMemory, Cells
<1>12. pc'[t] = AfterMalloc(t) /\ ~Moved(t)'
  BY <1>0, <1>1 DEF Moved, AfterMalloc, CallRequest
<1>13. Moving(t)' => \E b \in owned' : b.data = req'[t].ptr /\ b.by = t /\ was'[t] = DataOf(b)'
  <2> SUFFICES ASSUME Moving(t)'
               PROVE  \E b \in owned' : b.data = req'[t].ptr /\ b.by = t /\ was'[t] = DataOf(b)'
    OBVIOUS
  <2>1. Moving(t)
    BY <1>1 DEF Moving
  <2>2. PICK b \in owned : b.data = req[t].ptr /\ b.by = t /\ was[t] = DataOf(b)
    BY <1>0, <2>1 DEF CallMemory
  <2>3. \A i \in 1 .. b.size : b.data + i - 1 \in Region(b)
    BY <1>0, BlockInHeap
  <2> QED
    BY <1>1, <1>8, <2>2, <2>3 DEF DataOf
<1> QED
  BY <1>1, <1>6, <1>7, <1>9, <1>10, <1>11, <1>12, <1>13 DEF CallMemory

LEMMA FillStep ==
  ASSUME ControlInv, HeapInv, MemoryInv, NEW t \in Threads, NEW c \in owned, Fill(t, c)
  PROVE  /\ mem' \in [Addr -> Addr] /\ MetaIntact' /\ was' = was
         /\ WritesOwn(t) /\ Aside(t) /\ CallMemory(t)'
<1>0. mem \in [Addr -> Addr] /\ MetaIntact /\ owned \subseteq blocks
  BY DEF HeapInv, HeapTyped, MemoryInv
<1>1. /\ pc[t] = "user" /\ c.by = t
      /\ mem' = [a \in Addr |-> IF a \in Cells(c) THEN Junk ELSE mem[a]]
      /\ UNCHANGED <<blocks, owned, req, was, got, pc>>
  BY DEF Fill, callVars
<1>2. Junk \in Addr
  BY HeapAssumption DEF Junk, Addr
<1>3. mem' \in [Addr -> Addr]
  BY <1>0, <1>1, <1>2
<1>4. \A a \in Addr : a \notin Cells(c) => mem'[a] = mem[a]
  BY <1>1
<1>5. WritesOwn(t)
  BY <1>0, <1>1, <1>4, BlockInHeap DEF WritesOwn
<1>6. \A b \in owned : Meta(b.data) \in Addr /\ Meta(b.data) \notin Cells(c)
  <2> SUFFICES ASSUME NEW b \in owned
               PROVE  Meta(b.data) \in Addr /\ Meta(b.data) \notin Cells(c)
    OBVIOUS
  <2>1. Meta(b.data) \in Addr /\ Meta(b.data) \in Region(b) \ Cells(b)
        /\ Cells(c) \subseteq Region(c)
    BY <1>0, BlockInHeap
  <2>2. b # c => Region(b) \cap Region(c) = {}
    BY <1>0 DEF HeapInv, Stacked, BlocksDisjoint
  <2> QED
    BY <2>1, <2>2
<1>7. MetaIntact'
  BY <1>0, <1>1, <1>4, <1>6 DEF MetaIntact
<1>8. Aside(t)
  BY <1>1 DEF Aside
<1>9. CallMemory(t)'
  BY <1>1 DEF CallMemory, Blank, Labelled, Moving, Moved, Pending
<1> QED
  BY <1>1, <1>3, <1>5, <1>7, <1>8, <1>9

LEMMA CopyStep ==
  ASSUME ControlInv, HeapInv, MemoryInv, NEW t \in Threads, Copy(t)
  PROVE  /\ mem' \in [Addr -> Addr] /\ MetaIntact' /\ was' = was
         /\ WritesOwn(t) /\ Aside(t) /\ CallMemory(t)'
<1> DEFINE old == req[t].ptr
           new == Reserved(t)
           kept == Smaller(mem[Meta(old)], req[t].size)
<1>0. /\ mem \in [Addr -> Addr] /\ MetaIntact /\ CallMemory(t) /\ CallRequest(t)
      /\ pc \in [Threads -> Places] /\ owned \subseteq blocks
  BY DEF ControlInv, ControlTyped, HeapInv, HeapTyped, MemoryInv
<1>1. /\ pc[t] = "copy" /\ pc' = [pc EXCEPT ![t] = "return"] /\ got[t] # Failed
      /\ mem' = [a \in Addr |-> IF a \in Data(got[t]) .. Data(got[t]) + kept - 1
                                  THEN mem[old + (a - Data(got[t]))] ELSE mem[a]]
      /\ owned' = {b \in owned : b.data # old}
      /\ UNCHANGED <<blocks, req, was, got>>
  BY DEF Copy, Goto, HeapInv, HeapTyped
<1>2. Pending(t) /\ Labelled(t) /\ Moving(t)
  BY <1>0, <1>1 DEF Pending, Labelled, Moving, CallRequest
<1>3. /\ new \in blocks \ owned /\ new.by = t
      /\ new.data = Data(got[t]) /\ Data(got[t]) = got[t] + H /\ new.size = req[t].size
  BY <1>2 DEF HeapInv, Stacked, Reserved, BlockAt
<1>4. PICK b \in owned : b.data = old /\ b.by = t /\ was[t] = DataOf(b)
  BY <1>0, <1>2 DEF CallMemory
<1>5. /\ mem[Meta(old)] = b.size /\ b.size \in Nat /\ b.data \in Nat
      /\ new.size \in Nat /\ new.data \in Nat
  BY <1>0, <1>3, <1>4, BlockInHeap DEF MetaIntact
\* What is read lies in the old block, what is written in the new one.
<1>6. /\ kept \in Nat /\ kept <= b.size /\ kept <= new.size
      /\ \A i \in 1 .. kept : /\ b.data + i - 1 \in Cells(b)
                              /\ new.data + i - 1 \in Cells(new)
  <2>1. kept \in Nat /\ kept <= b.size /\ kept <= new.size
    BY <1>3, <1>5 DEF Smaller
  <2> QED
    BY <1>0, <1>3, <1>5, <2>1, BlockInHeap
<1>7. \A i \in 1 .. kept : mem'[new.data + i - 1] = mem[b.data + i - 1]
  <2>1. \A a \in Addr : a \in new.data .. new.data + kept - 1 =>
          mem'[a] = mem[b.data + (a - new.data)]
    BY <1>1, <1>3, <1>4
  <2> SUFFICES ASSUME NEW i \in 1 .. kept
               PROVE  mem'[new.data + i - 1] = mem[b.data + i - 1]
    OBVIOUS
  <2>2. new.data + i - 1 \in Addr
    BY <1>3, <1>6, BlockInHeap
  <2>3. new.data + i - 1 \in new.data .. new.data + kept - 1
    BY <1>5, <1>6
  <2>4. PICK a \in Addr : a = new.data + i - 1
    BY <2>2
  <2>5. a - new.data = i - 1 /\ b.data + (a - new.data) = b.data + i - 1
    BY <1>5, <1>6, <2>4
  <2>6. mem'[a] = mem[b.data + (a - new.data)]
    BY <2>1, <2>3, <2>4
  <2> QED
    BY <2>4, <2>5, <2>6
<1>8. \A a \in Addr : a \notin Cells(new) => mem'[a] = mem[a]
  <2>1. \A a \in Addr : a \in new.data .. new.data + kept - 1 => a \in Cells(new)
    BY <1>5, <1>6, Numbers DEF Cells
  <2> QED
    BY <1>1, <1>3, <2>1
<1>9. mem' \in [Addr -> Addr]
  <2> SUFFICES ASSUME NEW a \in Addr
               PROVE  mem'[a] \in Addr
    BY <1>1
  <2>1. CASE a \in new.data .. new.data + kept - 1
    <3>1. a - new.data + 1 \in 1 .. kept /\ new.data + (a - new.data + 1) - 1 = a
      BY <1>5, <1>6, <2>1
    <3>2. mem'[a] = mem[b.data + (a - new.data + 1) - 1]
      BY <1>7, <3>1
    <3>3. b.data + (a - new.data + 1) - 1 \in Addr
      BY <1>0, <1>6, <3>1, BlockInHeap
    <3> QED
      BY <1>0, <3>2, <3>3
  <2>2. CASE a \notin new.data .. new.data + kept - 1
    BY <1>0, <1>1, <1>3, <2>2
  <2> QED
    BY <2>1, <2>2
<1>10. WritesOwn(t)
  BY <1>3, <1>8, BlockInHeap DEF WritesOwn
\* Only the old block begins where it does: the others lose nothing.
<1>11. Aside(t)
  <2>1. \A c \in owned : c.by # t => c.data # old
    <3> SUFFICES ASSUME NEW c \in owned, c.by # t
                 PROVE  c.data # old
      OBVIOUS
    <3>1. Region(b) \cap Region(c) = {}
      BY <1>0, <1>4 DEF HeapInv, Stacked, BlocksDisjoint
    <3>2. b.data \in Region(b) /\ c.data \in Region(c)
      BY <1>0, BlockInHeap
    <3> QED
      BY <1>4, <3>1, <3>2
  <2> QED
    BY <1>0, <1>1, <2>1 DEF Aside
<1>12. MetaIntact'
  <2>1. \A c \in owned : Meta(c.data) \in Addr /\ Meta(c.data) \notin Cells(new)
    <3> SUFFICES ASSUME NEW c \in owned
                 PROVE  Meta(c.data) \in Addr /\ Meta(c.data) \notin Cells(new)
      OBVIOUS
    <3>1. Region(new) \cap Region(c) = {}
      BY <1>0, <1>3 DEF HeapInv, Stacked, BlocksDisjoint
    <3> QED
      BY <1>0, <1>3, <3>1, BlockInHeap
  <2> QED
    BY <1>0, <1>1, <1>8, <2>1 DEF MetaIntact
<1>13. mem'[got'[t]] = req'[t].size
  <2>1. got[t] = Meta(new.data)
    <3>1. got[t] \in Nat /\ H \in Nat
      BY <1>1, Numbers DEF HeapInv, HeapTyped
    <3> QED
      BY <1>3, <3>1 DEF Meta
  <2>2. got[t] \in Addr /\ got[t] \notin Cells(new)
    BY <1>3, <2>1, BlockInHeap
  <2> QED
    BY <1>0, <1>1, <1>2, <1>8, <2>2 DEF CallMemory
<1>14. \A i \in 1 .. Smaller(Len(was'[t]), req'[t].size) :
         mem'[Data(got'[t]) + i - 1] = was'[t][i]
  <2>1. Len(was[t]) = b.size
    BY <1>4, <1>5 DEF DataOf
  <2>2. kept = Smaller(Len(was[t]), req[t].size)
    BY <1>5, <2>1
  <2>3. \A i \in 1 .. kept : was[t][i] = mem[b.data + i - 1]
    BY <1>4, <1>5, <1>6 DEF DataOf
  <2>4. was' = was /\ req' = req /\ got' = got /\ Data(got'[t]) = new.data
    BY <1>1, <1>3 DEF Data, Wrap
  <2> QED
    BY <1>7, <2>2, <2>3, <2>4
<1>15. pc'[t] = "return" /\ got'[t] # Failed /\ req'[t].ptr # NULL
  BY <1>0, <1>1 DEF CallRequest
<1> QED
  BY <1>1, <1>9, <1>10, <1>11, <1>12, <1>13, <1>14, <1>15
  DEF CallMemory, Blank, Labelled, Moving, Moved

LEMMA MemoryStep ==
  ASSUME SafeSizes, ControlInv, Alone, HeapInv, MemoryInv, [Next]_vars
  PROVE  MemoryInv'
<1>0. /\ mem \in [Addr -> Addr] /\ was \in [Threads -> Seq(Addr)]
      /\ \A a \in Addr : a >= brk => mem[a] = 0
      /\ brk \in Nat /\ brk' \in Nat /\ brk' >= brk /\ Addr \subseteq Nat
      /\ \A t \in Threads : CallRequest(t)'
  BY HeapStep, RequestStep, Numbers DEF HeapInv, HeapTyped, MemoryInv
<1>1. ASSUME NEW t \in Threads,
             \/ \E fn \in Functions, size \in Sizes, ptr \in Addr : Call(t, fn, size, ptr)
             \/ Initialise(t) \/ Lock(t) \/ QueryBreak(t) \/ MoveBreak(t) \/ Unlock(t)
             \/ Return(t)
             \/ \E b \in owned : Free(t, b)
             \/ \E u \in Threads : Clone(t, u)
      PROVE  MemoryInv'
  <2>1. /\ MetaIntact' /\ was' \in [Threads -> Seq(Addr)] /\ mem' = mem
        /\ \A u \in Threads : CallMemory(u)'
    BY <1>1, QuietStep
  <2> QED
    BY <1>0, <2>1 DEF MemoryInv
<1>2. ASSUME NEW t \in Threads,
             WriteMeta(t) \/ Copy(t) \/ \E b \in owned : Fill(t, b)
      PROVE  MemoryInv'
  <2>1. /\ mem' \in [Addr -> Addr] /\ MetaIntact' /\ was' = was
        /\ WritesOwn(t) /\ Aside(t) /\ CallMemory(t)'
    BY <1>2, WriteMetaStep, CopyStep, FillStep
  <2>2. \A a \in Addr : a >= brk => mem'[a] = mem[a]
    BY <1>0, <2>1, BlockInHeap DEF WritesOwn
  <2>3. \A u \in Threads : CallMemory(u)'
    BY <2>1, OthersKeep
  <2> QED
    BY <1>0, <2>1, <2>2, <2>3 DEF MemoryInv
<1>3. CASE UNCHANGED vars
  BY <1>3 DEF vars, heapVars, callVars, MemoryInv, MetaIntact, CallMemory, CallRequest, Blank,
     Labelled, Moving, Moved, Pending, Reserved, BlockAt, DataOf
<1>4. NULL \in Addr /\ "realloc" \in Functions /\ \A b \in owned : b.data \in Addr
  BY Numbers DEF NULL, Addr, Functions, HeapInv, HeapTyped, Block
<1> QED
  BY <1>1, <1>2, <1>3, <1>4 DEF Next

LEMMA MemoryInvHolds ==
  ASSUME SafeSizes
  PROVE  Spec => []MemoryInv
<1>1. ControlInv /\ Alone /\ HeapInv /\ MemoryInv /\ [Next]_vars => MemoryInv'
  BY SafeSizes, MemoryStep
<1> QED
  BY SafeSizes, <1>1, MemoryInit, ControlInvHolds, AloneHolds, HeapInvHolds, PTL DEF Spec

\* The size that free and realloc would read below a block that a caller holds is the size that
\* was asked for, although malloc writes it after unlocking malloc_mtx.
THEOREM MetaIntactHolds ==
  ASSUME SafeSizes
  PROVE  Spec => []MetaIntact
<1>1. MemoryInv => MetaIntact
  BY DEF MemoryInv
<1> QED
  BY SafeSizes, <1>1, MemoryInvHolds, PTL

\* calloc returns zeroed memory without setting a byte: sbrk only gives out cells that nobody
\* has written.
THEOREM CallocZeroedHolds ==
  ASSUME SafeSizes
  PROVE  Spec => []CallocZeroed
<1>1. MemoryInv => CallocZeroed
  BY DEF MemoryInv, CallocZeroed, CallMemory, CallRequest, Blank, Pending
<1> QED
  BY SafeSizes, <1>1, MemoryInvHolds, PTL

\* realloc keeps what the block held when it was called, whatever the other threads do to
\* theirs until it returns, and when it fails the block is as it was.
THEOREM ReallocKeepsHolds ==
  ASSUME SafeSizes
  PROVE  Spec => []ReallocKeeps
<1>1. HeapInv /\ MemoryInv => ReallocKeeps
  <2> SUFFICES ASSUME HeapInv, MemoryInv, NEW t \in Threads, pc[t] = "return"
               PROVE  IF got[t] = Failed
                        THEN \A i \in 1 .. Len(was[t]) : mem[req[t].ptr + i - 1] = was[t][i]
                        ELSE \A i \in 1 .. Smaller(Len(was[t]), req[t].size) :
                               mem[Data(got[t]) + i - 1] = was[t][i]
    BY DEF ReallocKeeps
  <2>0. CallMemory(t) /\ CallRequest(t) /\ req[t].size \in Nat
    BY Numbers DEF MemoryInv, HeapInv, HeapTyped, Requests
  <2>1. CASE req[t].ptr = NULL
    <3>1. Len(was[t]) = 0 /\ Smaller(0, req[t].size) = 0
      BY <2>0, <2>1 DEF CallRequest, Smaller
    <3> QED
      BY <3>1
  <2>2. CASE req[t].ptr # NULL /\ got[t] = Failed
    <3>1. PICK b \in owned : b.data = req[t].ptr /\ was[t] = DataOf(b)
      BY <2>0, <2>2 DEF CallMemory, Moving
    <3>2. b.size \in Nat
      BY BlockInHeap DEF HeapInv, HeapTyped
    <3>3. Len(was[t]) = b.size /\ \A i \in 1 .. b.size : was[t][i] = mem[b.data + i - 1]
      BY <3>1, <3>2 DEF DataOf
    <3> QED
      BY <2>2, <3>1, <3>3
  <2>3. CASE req[t].ptr # NULL /\ got[t] # Failed
    BY <2>0, <2>3 DEF CallMemory, Moved
  <2> QED
    BY <2>1, <2>2, <2>3
<1> QED
  BY SafeSizes, <1>1, HeapInvHolds, MemoryInvHolds, PTL
=============================================================================
