------------------------------- MODULE Malloc -------------------------------
(***************************************************************************)
(* The allocator of malloc.c: malloc, calloc, realloc, aligned_alloc and   *)
(* free over sbrk (unistd.c), which is two brk system calls under          *)
(* malloc_mtx.  The mutex is LazyMutex, joined action by action: this      *)
(* module says when a thread asks for it and what it does while it has it. *)
(*                                                                         *)
(* Addresses are 0 .. M-1 and the arithmetic of size_t and uint64_t wraps  *)
(* at M.  A memory cell holds a value of 0 .. M-1; the metadata of a block *)
(* takes H cells, of which the first holds the size.                       *)
(***************************************************************************)
EXTENDS Integers, Sequences

CONSTANTS
  Threads, Main,  \* as in LazyMutex
  M,              \* the number of addresses, 2^64 in the code
  H,              \* sizeof(malloc_metadata)
  Start, Limit,   \* the kernel keeps the break between these
  Sizes           \* the sizes that callers ask for, num * size for calloc

ASSUME MainAssumption == Main \in Threads
ASSUME HeapAssumption ==
  /\ {M, H, Start, Limit} \subseteq Nat
  /\ 0 < H /\ 0 < Start /\ Start <= Limit /\ Limit < M
  /\ Sizes \subseteq 1 .. M - 1

VARIABLES
  live, guard, ready, lock, at,  \* LazyMutex: the threads and malloc_mtx
  brk,     \* the break, kept by the kernel
  mem,     \* the contents of memory
  pc,      \* where each thread is in the allocator
  req,     \* what it asked for
  was,     \* history: the contents of the block that realloc was called with
  cur,     \* cur_break of its sbrk
  got,     \* the result of its sbrk, and of the call that it made
  blocks,  \* history: every block that sbrk has reserved
  owned    \* the blocks that callers hold: returned, and not freed since

mutexVars == <<live, guard, ready, lock, at>>
heapVars == <<brk, mem, blocks, owned>>
callVars == <<pc, req, was, cur, got>>
vars == <<mutexVars, heapVars, callVars>>

LM == INSTANCE LazyMutex WITH early <- TRUE

Addr == 0 .. M - 1
Failed == M       \* (void *)-1, and the NULL that malloc makes of it
NULL == 0
Junk == M - 1     \* what a caller writes into its block

\* One sum of two words, as uint64_t computes it.
Wrap(n) == IF n >= M THEN n - M ELSE n

\* sizeof(malloc_metadata) more than asked for.
Extent(size) == Wrap(size + H)

(***************************************************************************)
(* "user"   the caller's code        "unlock" sbrk has returned            *)
(* "init"   init_malloc, mtx_lock    "meta"   about to write the metadata  *)
(* "query"  about to call brk(0)     "copy"   realloc, about to copy       *)
(* "extend" about to call brk(next)  "return" about to return              *)
(***************************************************************************)
Places == {"user", "init", "query", "extend", "unlock", "meta", "copy", "return"}
Functions == {"malloc", "calloc", "realloc"}
NoRequest == [fn |-> "none", size |-> 0, ptr |-> NULL]
Requests == [fn : Functions, size : Sizes, ptr : Addr]
Block == [data : Addr, size : Sizes, by : Threads]

\* get_meta and get_data: the metadata sits just below the data.
Meta(data) == data - H
Data(meta) == Wrap(meta + H)

Cells(b) == b.data .. b.data + b.size - 1
Contents(data) == [i \in 1 .. mem[Meta(data)] |-> mem[data + i - 1]]
Region(b) == Meta(b.data) .. b.data + b.size - 1

BlockAt(base, t) == [data |-> Data(base), size |-> req[t].size, by |-> t]

\* The block that thread t has reserved and not yet returned.
Reserved(t) == BlockAt(got[t], t)

Init ==
  /\ LM!Init
  /\ brk = Start
  /\ mem = [a \in Addr |-> 0]           \* the kernel maps zeroed pages
  /\ pc = [t \in Threads |-> "user"]
  /\ req = [t \in Threads |-> NoRequest]
  /\ was = [t \in Threads |-> <<>>]
  /\ cur = [t \in Threads |-> Start]
  /\ got = [t \in Threads |-> Failed]
  /\ blocks = {}
  /\ owned = {}

Goto(t, place) == pc' = [pc EXCEPT ![t] = place]

\* Entry of malloc (aligned_alloc is the same), calloc, and realloc of NULL or
\* of a block of the caller.  A size of 0 returns NULL at once, having done
\* nothing.  The first step is the test of malloc_mtx_init.
Call(t, fn, size, ptr) ==
  /\ pc[t] = "user"
  /\ ptr # NULL => fn = "realloc" /\ \E b \in owned : b.data = ptr /\ b.by = t
  /\ LM!Enter(t)
  /\ req' = [req EXCEPT ![t] = [fn |-> fn, size |-> size, ptr |-> ptr]]
  /\ was' = [was EXCEPT ![t] = IF ptr = NULL THEN <<>> ELSE Contents(ptr)]
  /\ Goto(t, "init")
  /\ UNCHANGED <<heapVars, cur, got>>

\* The slow path of init_malloc.
Initialise(t) ==
  /\ \/ LM!TakeGuard(t) \/ LM!ResetLock(t)
     \/ LM!Publish(t) \/ LM!ClearGuard(t)
  /\ UNCHANGED <<heapVars, callVars>>

\* A mutation: malloc does not wait for the mutex.
LockBlindly(t) ==
  /\ pc[t] = "init"
  /\ LM!AcquireBlindly(t)
  /\ Goto(t, "query")
  /\ UNCHANGED <<heapVars, req, was, cur, got>>

Lock(t) ==
  /\ pc[t] = "init"
  /\ LM!Acquire(t)
  /\ Goto(t, "query")
  /\ UNCHANGED <<heapVars, req, was, cur, got>>

\* sbrk: the break now.
QueryBreak(t) ==
  /\ pc[t] = "query"
  /\ cur' = [cur EXCEPT ![t] = brk]
  /\ Goto(t, "extend")
  /\ UNCHANGED <<mutexVars, heapVars, req, was, got>>

\* The brk system call: the new break, or the old one when the kernel refuses.
SysBrk(next) == IF next \in Start .. Limit THEN next ELSE brk

\* A mutation: sbrk(size), the metadata forgotten.
MoveBreakNoMeta(t) ==
  LET next == Wrap(cur[t] + req[t].size)
      ok == SysBrk(next) = next
  IN /\ pc[t] = "extend"
     /\ brk' = SysBrk(next)
     /\ got' = [got EXCEPT ![t] = IF ok THEN cur[t] ELSE Failed]
     /\ blocks' = blocks \cup (IF ok THEN {BlockAt(cur[t], t)} ELSE {})
     /\ Goto(t, "unlock")
     /\ UNCHANGED <<mutexVars, mem, owned, req, was, cur>>

\* sbrk: ask for more.  An extent that wraps to 0 asks for nothing, and sbrk
\* returns the break it has read (its early return).
MoveBreak(t) ==
  LET next == Wrap(cur[t] + Extent(req[t].size))
      ok == SysBrk(next) = next \/ Extent(req[t].size) = 0
  IN /\ pc[t] = "extend"
     /\ brk' = IF Extent(req[t].size) = 0 THEN brk ELSE SysBrk(next)
     /\ got' = [got EXCEPT ![t] = IF ok THEN cur[t] ELSE Failed]
     /\ blocks' = blocks \cup (IF ok THEN {BlockAt(cur[t], t)} ELSE {})
     /\ Goto(t, "unlock")
     /\ UNCHANGED <<mutexVars, mem, owned, req, was, cur>>

\* mtx_unlock, and the test for (void *)-1, on which every function returns NULL.
Unlock(t) ==
  /\ pc[t] = "unlock"
  /\ LM!Release(t)
  /\ Goto(t, IF got[t] = Failed THEN "return" ELSE "meta")
  /\ UNCHANGED <<heapVars, req, was, cur, got>>

\* Where malloc returns to: the rest of realloc, or the caller.  What follows
\* in calloc is memset(ret, size, 0), which sets no byte at all.
AfterMalloc(t) ==
  IF req[t].fn = "realloc" /\ req[t].ptr # NULL THEN "copy" ELSE "return"

\* meta->size = size, with the mutex released already.
WriteMeta(t) ==
  /\ pc[t] = "meta"
  /\ mem' = [mem EXCEPT ![got[t]] = req[t].size]
  /\ Goto(t, AfterMalloc(t))
  /\ UNCHANGED <<mutexVars, brk, blocks, owned, req, was, cur, got>>

Smaller(m, n) == IF m < n THEN m ELSE n

\* A mutation: the arguments of memcpy are exchanged.
CopyBackwards(t) ==
  LET old == req[t].ptr
      new == Data(got[t])
      kept == Smaller(mem[Meta(old)], req[t].size)
  IN /\ pc[t] = "copy"
     /\ mem' = [a \in Addr |->
                  IF a \in old .. old + kept - 1 THEN mem[new + (a - old)] ELSE mem[a]]
     /\ owned' = {b \in owned : b.data # old}
     /\ Goto(t, "return")
     /\ UNCHANGED <<mutexVars, brk, blocks, req, was, cur, got>>

\* realloc reads the old metadata, copies the smaller size and frees the block.
Copy(t) ==
  LET old == req[t].ptr
      new == Data(got[t])
      kept == Smaller(mem[Meta(old)], req[t].size)
  IN /\ pc[t] = "copy"
     /\ mem' = [a \in Addr |->
                  IF a \in new .. new + kept - 1 THEN mem[old + (a - new)] ELSE mem[a]]
     /\ owned' = {b \in owned : b.data # old}
     /\ Goto(t, "return")
     /\ UNCHANGED <<mutexVars, brk, blocks, req, was, cur, got>>

\* The locals of the call are gone; the block is the caller's.
Return(t) ==
  /\ pc[t] = "return"
  /\ owned' = owned \cup (IF got[t] = Failed THEN {} ELSE {Reserved(t)})
  /\ Goto(t, "user")
  /\ req' = [req EXCEPT ![t] = NoRequest]
  /\ was' = [was EXCEPT ![t] = <<>>]
  /\ cur' = [cur EXCEPT ![t] = Start]
  /\ got' = [got EXCEPT ![t] = Failed]
  /\ UNCHANGED <<mutexVars, brk, mem, blocks>>

\* A mutation: freeing the last block gives it back, to be used again.
FreeLast(t, b) ==
  /\ pc[t] = "user"
  /\ b.by = t
  /\ owned' = owned \ {b}
  /\ brk' = IF b.data + b.size = brk THEN Meta(b.data) ELSE brk
  /\ UNCHANGED <<mutexVars, mem, blocks, callVars>>

\* free: the caller gives the block up, and the allocator does nothing.
Free(t, b) ==
  /\ pc[t] = "user"
  /\ b.by = t
  /\ owned' = owned \ {b}
  /\ UNCHANGED <<mutexVars, brk, mem, blocks, callVars>>

\* The caller writes into a block that it holds.
Fill(t, b) ==
  /\ pc[t] = "user"
  /\ b.by = t
  /\ mem' = [a \in Addr |-> IF a \in Cells(b) THEN Junk ELSE mem[a]]
  /\ UNCHANGED <<mutexVars, brk, blocks, owned, callVars>>

\* A mutation: a thread on a stack that was not allocated.
CloneStatic(t, u) ==
  /\ pc[t] = "user"
  /\ t \in live /\ u \notin live
  /\ live' = live \cup {u}
  /\ UNCHANGED <<guard, ready, lock, at, heapVars, callVars>>

\* thrd_create, when both of its allocations have succeeded: the thread object
\* and the stack pass to the thread library, and clone starts the thread.
Clone(t, u) ==
  /\ pc[t] = "user"
  /\ t \in live /\ u \notin live
  /\ \E thr, stack \in owned :
       /\ thr # stack /\ thr.by = t /\ stack.by = t
       /\ owned' = owned \ {thr, stack}
  /\ live' = live \cup {u}
  /\ UNCHANGED <<guard, ready, lock, at, brk, mem, blocks, callVars>>

Next ==
  \/ \E t \in Threads :
       \/ \E fn \in Functions, size \in Sizes : Call(t, fn, size, NULL)
       \/ \E b \in owned, size \in Sizes : Call(t, "realloc", size, b.data)
       \/ Initialise(t) \/ Lock(t) \/ QueryBreak(t) \/ MoveBreak(t) \/ Unlock(t)
       \/ WriteMeta(t) \/ Copy(t) \/ Return(t)
       \/ \E b \in owned : Free(t, b) \/ Fill(t, b)
  \/ \E t, u \in Threads : Clone(t, u)

Spec == Init /\ [][Next]_vars
-----------------------------------------------------------------------------
\* No cell, metadata included, belongs to two of the blocks that malloc has
\* ever handed out, whichever threads asked for them and however their calls
\* interleaved: the reason for malloc_mtx around the two calls of sbrk.
BlocksDisjoint ==
  \A b, c \in blocks : b # c => Region(b) \cap Region(c) = {}

\* The size that realloc will read below a block is the block's, although the
\* metadata is written after the mutex is released and callers write to blocks.
MetaIntact ==
  \A b \in owned : mem[Meta(b.data)] = b.size

\* calloc returns zeroed memory, although its memset sets nothing: sbrk must
\* only ever give out cells that nobody has written.
CallocZeroed ==
  \A t \in Threads :
    pc[t] = "return" /\ req[t].fn = "calloc" /\ got[t] # Failed
      => \A a \in Cells(Reserved(t)) : mem[a] = 0

\* A realloc that succeeds returns what the old block held when it was called,
\* up to the smaller size; one that fails leaves the old block as it was.
ReallocKeeps ==
  \A t \in Threads : pc[t] = "return" =>
    IF got[t] = Failed
      THEN \A i \in 1 .. Len(was[t]) : mem[req[t].ptr + i - 1] = was[t][i]
      ELSE \A i \in 1 .. Smaller(Len(was[t]), req[t].size) :
             mem[Data(got[t]) + i - 1] = was[t][i]

\* "A simple allocator which does not free anything" (malloc.c): the break
\* moves up only, so no block, freed or not, is ever unmapped.
NothingUnmapped == [][brk' >= brk]_vars

\* malloc_mtx is a lazily initialised mutex whose other threads are created
\* after its initialisation: a LazyMutex with early = TRUE.
UsesLazyMutex == LM!Spec

\* Sizes that a program can mean: adding the metadata and the break to one
\* of them does not wrap around to an address of the heap.  The code does not
\* test for it.
SafeSizes == \A s \in Sizes : s + H < M - (Limit - Start)
=============================================================================
