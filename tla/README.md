# libdeepc in TLA+

A verification project for Deep C (libdeepc), a small C standard library for
Linux on x86-64. It holds TLA+ modules for the parts of the library that keep
state or run concurrently, TLC configurations that check them on small
instances, and theorems that TLAPS proves for every value of the constants.
Paths are relative to the repository: `src/malloc.c`, `tests/tss-test.c`.

## 1. The system

The library has no process of its own. Its actors are the threads of the
program that is linked with it; they meet in the memory of the library. The
components, the state of each, and what is hard about it:

| Component | State | Operations | Uses | Hard |
|---|---|---|---|---|
| Mutexes (`mtx.c`, `spinlock.c`, `atomic-flag*`) | a flag | `mtx_init/lock/unlock`, `__spinlock_*` | – | busy waiting; a mutex that is initialised twice |
| Allocator (`malloc.c`, `unistd.c`) | the break, metadata below each block, `malloc_mtx` and its lazy initialisation | `malloc calloc realloc aligned_alloc free` | mutexes, `brk` | two system calls for one `sbrk`; metadata written outside the lock; wrap-around; failure of `brk` |
| Threads (`threads.c`, `threads-internal.h`, `thread-bootstrap.S`) | a thread object (spin lock, reference count, result, canary), a stack, FS | `thrd_create/exit/detach/join`, `__libc_start_main` | allocator, spin lock, `clone`, `arch_prctl` | who frees the object; a child on the FS of its parent; join that waits in a loop |
| Thread specific storage (`tls.c`) | key table under `tss_mtx`, per-thread values | `tss_create/get/set/delete`, `__run_tss_destructors` | mutexes, allocator, threads | destructors that call back; arrays that grow at different times; lazy initialisation |
| Hash table (`search.c`) | slots, capacity, size, mask | `hcreate hsearch hdestroy`, `_r` | allocator | probing, full tables, size that is no power of two |
| Linked lists (`search.c`) | `next`, `prev` of each element | `insque remque` | – | ends, rings, elements that leave and come back |
| Binary tree (`search.c`) | nodes | `tsearch tfind tdelete twalk` | allocator | deleting a node with two branches |
| Exit handlers (`stdlib.c`) | two arrays and counters | `atexit at_quick_exit exit quick_exit` | – | not thread safe; handlers that register or exit |
| Sorting (`stdlib.c`), linear search (`search.c`) | the program's array | `qsort bsearch lfind lsearch` | – | boundaries |
| Number parsing (`atoi.c`) | `errno` | `atoi strtol strtoul` families | – | overflow at the bounds of each width |
| Streams (`stdio.c`, `file.c`) | `FILE`: fd, eof, err; the kernel's files and descriptors | `fopen fclose clearerr fread fwrite fgetc fgets fputc fputs` | system calls, allocator | short reads and writes, errors, a descriptor that is closed and given out again, the letters of a mode |
| Formatted output (`printf.c`) | a global flag; output so far | `printf` family | streams, number parsing | parser of a conversion, bounded buffer |
| Strings (`string.c`) | the program's memory; the state of `strtok` | `mem* str*` | – | overlaps, bounds, `strtok_r` between calls |
| Signals, `system`, `getenv`, time, `ctype`, `setjmp`, system calls | (almost) none | | kernel | see section 8 |

What makes each correct is stated as the properties of section 4. The hazards,
line by line, are in `PROJECT.json`.

## 2. Modules

```
                 Mutex                        what threads.h promises of a mutex
                   ^  Implements
               LazyMutex  <-- LazyMutexProofs
                ^      ^
  UsesLazyMutex |      | UsesLazyMutex
             Malloc    Tss        Threads <-- LibraryProofs
                ^       ^
      MallocProofs     TssProofs

  Search --EXTENDS--> Tree      --Implements-->      KeySet
     ^                HashTable --KeepsEntries-->    EntryTable
  SearchProofs        HashTable  (KeepsDictionary)   Dictionary

  Stdio  --EXTENDS--> Modes          Stdio  <-- StdioProofs
  Printf --EXTENDS--> Conversions    Printf <-- PrintfProofs
                                     Strto  <-- StrtoProofs

  Library --EXTENDS--> Arrays
     ^                 Queue    --KeepsChain--> Chain
  LibraryProofs        Strings  --CutsTokens--> Tokens
                       Modes
```

`MC*` modules and the `.cfg` files of the same name give the constants values
for TLC. The abstract specifications (`Mutex`, `EntryTable`, `Chain`, `KeySet`,
`Tokens`) say what a caller may rely on, and `Dictionary` what the tests of the
hash table say and the code does not keep (section 7); the others are translated
from the code.

* **LazyMutex** is the scheme that `malloc.c` (`init_malloc`, `malloc_mtx`) and
  `tls.c` (`init_tss_mtx_flag`, `tss_mtx`) share: a guard flag (`guard`), a
  ready flag (`ready`), and the spin flag of the mutex (`lock`). One action is
  one access to shared memory. The variable `early` never changes; it says
  whether the mutex is initialised before a second thread exists. `malloc.c`
  guarantees it, since `thrd_create` allocates before it clones, and Malloc
  substitutes `TRUE` for it; `tls.c` does not, and Tss substitutes its constant
  `EarlyInit`. One run of LazyMutex has both.
* **Malloc** joins LazyMutex action by action: each step of an allocator call
  that touches the mutex *is* an action of `LM`. Addresses wrap at `M`, memory
  is an array of cells, a block has `H` cells of metadata. `sbrk` is two steps,
  `QueryBreak` and `MoveBreak`, as it is two system calls. The metadata is
  written after the unlock (`WriteMeta`) and read with no lock (`Copy`).
* **Tss** joins LazyMutex in the same way. `Create` .. `CreateReturns` is
  `tss_create`, one action for each access to the shared table; `Set` .. `Put`
  is `tss_set`; `Delete` .. `DeleteReturns` is `tss_delete`; `Exit` .. `ExitDone`
  is `__run_tss_destructors`, and while a destructor runs (`pc = "dtor"`) the
  thread may call all of these again.
* **Threads** follows a thread from `thrd_create` (`Create`, `AllocStack`,
  `Clone`) over `setup_tls` (`EnterSetup`, `SetFS`, `LeaveSetup`) to its end
  (`Exit` .. `Gone`), with `thrd_detach` and `thrd_join` in other threads, and
  the initial thread (`Start`, `MainReturns`, `ExitGroup`). A step is what the
  code does between two accesses to the spin lock.
* **Modes** is `parse_mode`, `mode_to_flags` and `mode_to_mode_t` of `file.c`:
  the state of the parser after each letter of a mode.
* **Stdio** is `fopen`, `fclose` and the functions of `stdio.c`, called by
  several threads, each on a stream of its own. There is no buffer in the code,
  so `fread` and `fwrite` are one system call each, and one action. `fopen` is
  two (`Fopen`, which allocates, and `OpenFails` or the open that succeeds), so
  that another thread can come between; a line is read byte by byte
  (`FgetsByte`) and written in two calls (the text, then the newline or not).
  The kernel keeps the files (`disk`), the descriptors with their position
  (`fds`), gives out the lowest that is free, and may fail any call and read or
  write less than it was asked. `log` is history: of a stream that reads what the
  program was given; of one that writes the pieces that the calls have reported as
  written, each with the mark whether the kernel took less of it. The program does
  not see that mark: after a short write `fwrite` returns the full count
  (`stdio.c:66`), and the test of `fputs` for a short write (`stdio.c:133`) never
  fires, so that the newline follows (section 7).
* **Arrays** is `qsort`, `bsearch`, `lfind` and `lsearch`, one comparison at a
  time. The recursion of `qsort` is a stack of ranges (`ranges`). The comparison
  function compares ranks, so that items may differ and be equal to it.
* **Strings** is all of `string.c` on a memory of `Size` bytes. A loop is named
  by the place where it stops (`First`), and one that stores by the order of its
  stores, so that `memcpy` and `memmove` differ where the places overlap.
  `strtok` is a sequence of calls, with delimiters that change.
* **Queue** is `insque` and `remque`.
* **Library** is the program that calls the functions of Arrays, Strings or
  Queue, or gives `fopen` a mode; they share no state, so one of them at a time.
* **Strto** is one call of a function of the `atoi`, `strtol` or `strtoul`
  family, one step for a character. A character is its value as a digit; the
  width is the constant `Max`, and `exact` keeps the number without a width.
* **Conversions** says what a format means, in terms of items (a text, or a
  conversion with its flags, numbers and argument), and writes the items as a
  format and its arguments. The flags of an item are a sequence, as a program may
  write them in any order and repeat them. `GoodCall` says which calls a program
  may make: C does not define the others, or the code loses the length of their
  arguments (section 7). **Printf** is one call of `vsnprintf` or `vfprintf`
  on that format: the parser of `vprintf_parse_spec` goes through its stages a
  character at a time, `Pieces` are what the conversion writes, and `Write` is
  one call of `write_fn`, on a buffer (`WriteStr`) or on a kernel that writes
  what it likes (`WriteFd`).
* **HashTable**, **Queue**, **Tree** are sequential: an action is a call. The
  hash function is a variable that never changes, so that one run covers all. A
  call of `hsearch_r` comes with any key and any data; as the code does, the model
  hashes the data. `EntryTable` is what then still holds: the table is a set of
  entries that loses none and takes none twice, what was entered is found with the
  same item, and an entry of the same key but other data is found or not.
* **Search** is the program that uses Tree or HashTable (`job` says which); they
  share no state.

The definitions whose comment begins "A mutation" are no part of the models:
each is a plausible bug in the operation below it, and `PROJECT.json` names the
property that it breaks.

## 3. Runs

Every run is exhaustive for its constants. Numbers are distinct states.

| Run | Instance | Checks |
|---|---|---|
| `lazy_mutex` (2 935) | 4 threads, early and late initialisation | MutualExclusion, NotOrphaned, Progress, Implements (Mutex) |
| `malloc` (786 208) | 2 threads, 8 heap cells, sizes 1 and 2, metadata of 1 cell | BlocksDisjoint, MetaIntact, CallocZeroed, ReallocKeeps, NothingUnmapped, UsesLazyMutex |
| `threads` (45 136) | main and 2 threads | HandleValid, JoinGivesResult, CanaryAgrees, ObjectReclaimed, JoinReturns |
| `tss` (1 174 929) | 2 threads, 2 keys, first capacity 1, early initialisation | KeysUnique, IndexesInBounds, GetReturnsSet, DtorRegistered, DtorsRun, UsesLazyMutex |
| `search` (1 942 up to symmetry) | table: 3 keys with each of 2 data strings, all hash functions to 0..3, capacities 1, 2, 4; tree: 5 keys, 5 nodes | KeepsEntries (EntryTable), NodesOwned, WalkInOrder, Implements (KeySet) |
| `strto` (179 090) | 6 bits, bases 0, 1, 4, 10, 16, 36, 37, strings of up to 3 digits after any start | TypeOK, ReturnsValue, ReadsWhole |
| `printf` (111 105) | ints of 8 bits, padding 2 at a time, every conversion with every set of flags, pairs of items with every kind of sink | StringResult, FileResult |
| `stdio` (1 556 311 up to symmetry) | 2 threads, 2 streams, one file of at most 3 bytes, descriptors 3 and 4, modes r, w, r+, wx, a+ | ReadsInOrder, WritesInOrder, StreamsOwnFds |
| `library` (562 923 up to symmetry) | arrays of up to 5 items, memory of 5 bytes, 4 list elements, modes of up to 4 of 9 letters | QsortSorts, SearchFinds, StringsRight, ModeMeans, Linked, KeepsChain, CutsTokens |
| `tss_race` | as `tss`, late initialisation | KeysUnique is **violated** |
| `hash_mask` | capacity 3 | KeepsEntries is **violated** |
| `hash_data` | as the table of `search` | KeepsDictionary is **violated** |

Why the bounds are enough:

* *lazy_mutex*: a double initialisation needs one thread that is late in the
  guard and one that holds the mutex; a third waits for it. The fourth is the
  initial thread, which is before the others if the initialisation is early.
* *malloc*: eight cells hold two or three blocks, so a thread that fails, a
  `realloc` of a neighbour and a block of each thread fit; a second thread
  needs two blocks (object and stack) of the first, and some room must be left
  after that. Sizes 1 and 2 give a `realloc` that grows and one that shrinks.
* *threads*: three parties meet in one object at most: the thread, the one
  that created it and the one that joins it; the main thread takes part in all
  of it. Each object's reference count goes from 2 to 0 in every order.
* *tss*: the second key makes both arrays grow. With a first capacity of 1, the
  boundary at which the code grows (8) is reached at once.
* *search*, the table: one of capacity 1 has mask 0, one of 2 has two slots and
  can be full, one of 4 holds all keys, some of them with both data, and has chains
  that wrap around. The data of a key change from call to call.
* *stdio*: two streams on one file are what it takes for one to truncate or
  append under the other, and for a descriptor to be closed by one thread and
  given to another; two descriptors can run out. Three bytes are a text of two
  and a newline, so a line can be written in part, read with a buffer that is
  too small (`fgets` of 1, 2 and 3), and be followed by the end of the file or
  not. The file may be missing at first. The modes are one of each kind: no
  write, truncate, update, exclusive, append.
* *library*: five items give `qsort` a pivot with two sides of different length,
  or none, and a side that is split again; with two pairs of equal items there
  are ties everywhere. Five bytes hold two strings that overlap in every way, and
  three tokens with delimiters before, between and after. Four elements make a
  line with two ends and a middle, two lists, rings of one to four, and elements
  that come back with old pointers. Modes of four letters are the longest of the
  standard, `w+bx` and its like; the letters are all that the parser knows and
  one that it does not.
* *search*, the tree: five nodes are the smallest tree in which the deleted node has a
  parent, two branches, and a left branch whose rightmost node is not its root.
* *strto*: with six bits a number of two or three digits meets both bounds in
  every base, and one more digit is there to be skipped after an overflow. Bases
  1 and 37 are refused, 0 is replaced.
* *printf*: the numbers have one to three digits, so widths and precisions of 0
  to 6 are below, at and above every length; chunks of 2 make padding take up to
  three writes; buffers of 0, 1, 4, 9 and 20 bytes hold nothing, only the NUL, a
  part, or all. Two items show that the parser starts anew and the arguments
  stay in step. Arguments of `l`, `ll` and `z` fit an int (see section 7).

The models cap nothing but what their constants say: the heap (`Start..Limit`),
the threads, the keys (`MaxKeys`), the length of a file (`MaxLen`, as a disk that
is full), the descriptors (`Fds`), the array (`MaxCount`), the memory of the
strings (`Size`), the modes (`MaxMode`). Deadlock is checked in all runs but
`threads`, `tss` and `tss_race`, where all threads may have ended, and `strto`,
`printf` and `library`, where the call has returned.

## 4. Properties

*Of the mutex.* `MutualExclusion`; `NotOrphaned` (a lock flag that is set has a
thread that will clear it, even when two threads initialise one after the
other); `Progress` (somebody always gets in); `Implements`, the mutex of
`threads.h`. Two more are proved and not run: `NoResetWhileHeld` (`mtx_init`
never runs on a mutex that is held) and `OneInitialiser`.

*Of the allocator.* `BlocksDisjoint`, metadata included; `MetaIntact`;
`ReallocKeeps`, for a `realloc` that succeeds and for one that fails;
`NothingUnmapped` (the break moves up only); `CallocZeroed`, which is remarkable
because `calloc` passes `memset` its arguments in the wrong order and clears
nothing: it holds as long as no memory is ever used twice, and the mutant that
makes `free` give memory back breaks it.

*Of threads.* `HandleValid` (no lock in freed memory, no second free),
`JoinGivesResult`, `CanaryAgrees` (`setup_tls` is entered on the parent's FS and
left on the thread's own, while the parent may already be gone),
`ObjectReclaimed`, and the liveness of `thrd_join`, `JoinReturns`, which needs
that of `thrd_exit`. `RefsCount` (the count is the number of parties that have
not given theirs up) is proved and not run.

*Of thread specific storage.* `KeysUnique`, `IndexesInBounds` (a capacity that
is read under the mutex and used without it), `GetReturnsSet`, `DtorRegistered`,
`DtorsRun`, and `UsesLazyMutex`: `tss_set` and `tss_delete` do not initialise the
mutex, and must only be reached when somebody has.

*Of the containers.* Each implements its abstract specification (`Implements`
of the tree, `KeepsEntries` of the hash table, `KeepsChain` for the lists). What
`KeepsEntries` says is less than one would like, as it must allow for the hash of
the data: a key may be there twice, with different data, and may be missed with
data that it was not entered with. That it is found by the key alone is
`KeepsDictionary`, which the tests assert and the code does not keep (`hash_data`).
`Linked` and `NodesOwned` are the structural invariants of lists and tree, and
`WalkInOrder` is what `twalk` promises of the order in which it visits the keys and
of the depth that it reports.

*Of number parsing.* `ReturnsValue` compares the result and `errno` with the
unbounded number, `TypeOK` says that no sum or product on the way leaves its
type, and `ReadsWhole` that `*str_end` is right even after an overflow.

*Of formatted output.* `StringResult`: the buffer holds as much of the meaning
as fits, the NUL, and nothing else, and the return value is the whole length.
`FileResult`: whatever the kernel does, the return value is what has reached the
file, or -1.

*Of streams.* `ReadsInOrder`: a file that is read with any mixture of `fgetc`,
`fread` and `fgets` comes in order, each byte once; the loop of `fgets` must not
have read a byte that it cannot keep.
Of a stream on which an `fread` got less than it asked for, the property says
nothing from then on: `fread` returns the full count, and the program cannot know
what it was given. `WritesInOrder`: a file that one stream writes has the pieces
that the calls have reported, in order. A piece that the kernel took in full is all
there; of one that it took in part there is at least a byte, and the calls report
it as written in full, so a byte may be missing without an error. Behind them is at
most the text of the `fputs` that is at it or has failed, and nothing is written
after a call that failed until `clearerr`. `StreamsOwnFds`: no descriptor leaks or is
shared, no `FILE` is lost, whatever fails and whoever opens in between.
`ModeMeans`: the modes of the standard open a file as their letters say, in any
order of `b` and `+`, and no accepted mode contradicts itself.

*Of arrays.* `QsortSorts` (a permutation of what was there, in order, and nothing
behind the array touched) and `SearchFinds` (for all three searches, on arrays
with ties).

*Of strings.* `StringsRight` says of each function what its result is and which
bytes it may change, in terms of the memory before the call, with every overlap
that the function allows. The argument `ch` of `memchr`, `strchr` and
`strrchr` is a char already, so the casts from int play no part. `CutsTokens` is
the refinement of `Tokens`: the text that `strtok` has still before it, delimiters
stored over and all, is the text that a caller thinks of.

## 5. Fairness

Only two modules state fairness.

* `LazyMutex`: weak fairness of `Proceed(t)`, the steps of a thread that has
  asked for the mutex. The kernel is preemptive and a critical section is a
  finite sequence of steps; nothing is assumed of who wins a test-and-set, and
  nothing makes a thread ask.
* `Threads`: weak fairness of `Proceed(t)` for the steps inside the library,
  and strong fairness of `ExitLock(t)`. A joiner takes and drops the spin lock
  over and over, and calls `thrd_yield` in between: the exiting thread's
  test-and-set is enabled again and again, not for ever. Strong fairness says
  that it wins some time. Nothing makes a thread leave the program's own code.

## 6. Proofs

* **LazyMutexProofs.** `TypeCorrect`, `OneInitialiserHolds` and
  `NotOrphanedHolds` for any number of threads and any order of arrival. If the
  initialisation is `early`, the invariant `EarlyInv` adds to mutual exclusion
  that while the mutex is not ready the main thread is alone, and that only it
  can be in the slow path; from it follow `MutualExclusionHolds`,
  `NoResetWhileHeldHolds` and `ImplementsMutex` (every step is a step of `Mutex`
  or a stutter).
* **MallocProofs.** `ControlInv` relates the place of a thread in the allocator
  to its place in the mutex, and to the fact that a thread other than main has
  been given blocks. From it, every step of Malloc is a step of LazyMutex with
  `early` TRUE (`UsesLazyMutexHolds`), so the theorems of LazyMutexProofs
  apply to `malloc_mtx`: at most one thread is between `QueryBreak` and
  `Unlock` (`Alone`). `HeapInv` says that blocks lie below the break and are
  stacked, and that the `cur_break` of a thread in the critical section is the
  break. `BlocksDisjointHolds` and `NothingUnmappedHolds` follow, for any number
  of threads and any heap, under the assumption `SafeSizes`: that a size plus
  its metadata does not wrap around into the heap. The code does not test this;
  a larger size would move the break down (section 7).
  `MemoryInv` adds what memory holds: nobody has written a cell at or above the
  break, so a block that `sbrk` has just moved it over is zero; the metadata in
  front of a block is its size; and from the unlock on the new block and, in a
  `realloc`, the old one are the caller's alone, so what is in them while the
  call writes the size and copies is what it put there. `MetaIntactHolds`,
  `CallocZeroedHolds` and `ReallocKeepsHolds` follow under the same assumption.
* **TssProofs.** `ControlInv` relates the place of a thread in `tls.c` to its
  place in `tss_mtx`, and says that the mutex is initialised as soon as there is
  a key. So `tss_set` and `tss_delete`, which do not initialise it, lock it only
  when it is ready, and every step of Tss is a step of LazyMutex
  (`UsesLazyMutexHolds`, early or not). The rest needs `EarlyInit`, which by
  LazyMutexProofs makes `tss_mtx` a mutex (`Alone`). `TableInv` then says that
  `tss_next` is above every key returned and within the table; that a thread's
  own array is never longer than the table, and a key whose `tss_set` found it
  too short is below the capacity that it read, whatever happened after the
  unlock; and that what the destructor loop has passed was called. The table
  only grows, which is why the capacity may be used without the lock.
  `KeysUniqueHolds`, `IndexesInBoundsHolds`, `GetReturnsSetHolds`,
  `DtorRegisteredHolds` and `DtorsRunHolds` follow for any number of threads,
  keys, values and destructors but NULL, and any first capacity but 0. Without
  `EarlyInit` they are false (`tss_race`, section 7).
* **StdioProofs.** The invariant adds to `StreamsOwnFds` where a stream is that
  the program does not hold: in a `fopen` or `fclose` of one thread (`Calls`,
  `Alone`). `StreamsOwnFdsHolds` is for any number of threads, streams, files and
  descriptors and any modes, under `FdsAssumption` (descriptors are numbers, so
  that there is a lowest) and `StandardAssumption` (the standard streams have
  different descriptors). `DataInv` is about the bytes. Of a stream that reads
  (`ReadKept`) what it has handed out, with what a `fgets` has in its buffer, is
  the file up to the position. Of one that writes (`WriteKept`) the file is made
  of the pieces that were reported and those of the line in hand that the calls
  are through with (`Told`, `Halfway`; `MadeOf` with one piece more is MadeOf with
  a longer text), the position is its end, and a piece that failed has stopped the
  stream. Every step of another stream leaves both alone (`Untouched`,
  `LogFrame`), or the log is forgotten because the file was written from
  elsewhere. `ReadsInOrderHolds` and `WritesInOrderHolds` follow for files,
  buffers and texts of any length, with short writes of any kind; what they do not
  claim is in section 4.
* **LibraryProofs, the threads.** The first section of the module. `Inv` is the
  ownership of a thread object, in seven parts. `Births`: who has an object, from
  its creator's `malloc` to the end of its thread. `Creators`: the thread in
  `thrd_create` has the new object to itself until `clone`. `Users`: a handle has
  one user, and object and stack are there until it is dropped. `Locks`: a lock
  has one holder. `Counts`: the count is that of the parties, never 0, and the
  result was stored before it went down. `Canaries`: every FS that is in use leads
  to the same canary. `Alive`: the process has not ended; `IInv` says that `Inv`
  holds or all threads are killed, as `exit` and `abort` stop a thread at any
  place. `HandleValid` alone is not inductive: that `thrd_join` may free what it
  finds with one reference (`LastUser`) needs the count, and the lock too, since
  `thrd_exit` lowers the count before it drops the lock. One lemma for each group
  of actions shows that it keeps `Inv`. `ThreadsTypeCorrect`, `RefsCountHolds`,
  `HandleValidHolds`, `JoinGivesResultHolds`, `CanaryAgreesHolds` and
  `ObjectReclaimedHolds` follow for any number of threads.
* **LibraryProofs, the parts of Library.** One section for each, and then together.
  *Lists*: `QueueTypeOK /\ Linked` is inductive as it stands; with it, `insque`
  is `Chain!Insert` and `remque` is `Chain!Remove`, so `ImplementsChain` proves
  `KeepsChain` for any set of elements. *Searches*: what `bsearch` has cut off at
  the left is too small and at the right too large, what `lfind` has passed is
  not the key, and nothing has been stored before the return
  (`SearchFindsHolds`). *Sorting*: the ranges on the stack of `qsort` do not meet
  (`RangesApart`), what lies between two positions of no common range is in order
  already (`Settled`), the range in work is parted by its pivot (`Parted`), and
  the array is a permutation of the old one (`SameItems`, as a bijection, from
  which the counts of the property follow); `QsortSortsHolds`. All for arrays of
  any length, any items and any ranks. *Modes*: the parser is followed letter by
  letter; after the first it is in one of a few states, and those that a standard
  mode passes are counted out (`ModeMeansHolds`, for modes of any length). *Strings*:
  what each function stores, in the order of its stores, and what it finds, for a
  memory of any size and arguments of any length that overlap as they may.
  `StringsRightHolds` has the hypothesis that the program's chars are not
  negative: the code compares `char`, which is signed, so of others `strcmp` says
  something else than the standard. *Tokens*: the state of `strtok_r` is behind
  every token that was returned (`TokensInv`), so a call stores into none of them;
  `CutsTokensHolds` is the refinement, a call of `strtok` a cut of `Tokens`.
  *Together*: a step of one part leaves the invariants of the others alone
  (`PartsStep`), so `LibraryCorrect` and `LibraryImplements` say all this of
  Library's own Spec.
* **SearchProofs.** *The tree.* That it is ordered is said without a word of what
  is below a node: every node has one that bounds it from below (`lo`) and one
  from above (`hi`), or none, and a child has the bounds of its parent but for the
  parent itself. With `Connected`, every node hangs on the root, this is
  inductive. The nodes within the bounds become fewer from step to step, so a
  search ends within `Size` steps and passes every node whose bounds the key is
  within; `NodesOwnedHolds` and `ImplementsSet` follow. The same measure is the
  induction of `twalk`: the visits below a node are those of its branches with
  its own around them, they rise, their depth returns to where it was, and the
  key of a node brings those of its children (`NodeWalk`), which by `Connected`
  gives every key (`WalkInOrderHolds`). *The hash table.* `Reached` says that from
  the slot of the hash of an entry to its own no slot is free, which every `ENTER`
  keeps; so a search that meets a free slot has missed nothing, and one that goes
  all the way around has seen all. `KeepsEntriesHolds` is for any data of any call
  and has one hypothesis, `MasksWork`, what the bit operations do if every capacity
  is a power of two (TLC evaluates it in `search`; without it `hash_mask` violates
  the property). *Together*: a step of one of the two leaves the other as it is, so
  `SearchCorrect` says all this of Search's own Spec.
* **StrtoProofs.** The invariant `Inv` adds to `TypeOK` that while nothing has
  overflowed `n` is `exact` with its sign, and that an overflow means that
  `exact` is beyond the bound. The lemma `FitsIsWithin` is the argument of the
  comment above `read_pos_int`: for every base and bound, the comparison with
  `max / base` and `max % base` holds exactly when `n * base + d` is within
  `max`. `TypeCorrect` and `ReturnsValueHolds` follow for any width, any bases
  and any strings. `WholeInv` carries the value of the digits up to `pos` along;
  the function that the property defines by recursion is the one that has its
  first value and its steps (`OneNumber`), so `ReadsWholeHolds`.
* **PrintfProofs.** `PrintfInv` follows a call from item to item: `k` items have
  been taken care of, `stored` holds the lengths that their `%n` stored, and the
  call is at one of four places. In the text that comes next (`Scanning`), what has been
  handed on and what lies between `literal` and `pos` make up what the first `k`
  items mean and the part of the text that was read. In a conversion (`Parsing`),
  `ReadingItem` says for each stage of `vprintf_parse_spec` which fields of `spec`
  are read, where `pos` is among the parts of the item, and which arguments are left.
  In front of pieces (`Writing`) what has been handed on and the pieces make up what
  the items mean, as their pieces are their `Meaning`; at the end (`Finishing`) all
  items are done, or the next is not good. `Handed` relates a text to what is in the
  buffer, the room that is left and the length so far. Over a kernel a call may also
  be `Broken`: the file lacks a part, and what is still to be written is shorter than
  what is missing, so no total comes out right. The invariant holds the parser and
  the writer together, since neither is right without the other: that the parser is at
  the next item needs the arguments to be in step, and that the text is right needs
  `spec` to be the item. Below it are the lemmas on `Numeral` (the divisions of
  `write_number` give the digits of the reference, for any base; `vprintf_parse_spec`
  reads a decimal number back and refuses exactly one above `INT_MAX`), on what an
  item looks like in a format, and on padding in pieces. `PrintfInvHolds`,
  `StringResultHolds` and `FileResultHolds` follow for formats of any length, flags in
  any order, all widths and precisions, any buffer size and `chunk`, and any sizes of
  the types of C, under `AlphabetAssumption` (the characters that a format consists
  of are there; `NUL` is none), `WordAssumption` (an `int` has `2 * (INT_MAX + 1)`
  values, `long`, `long long` and `size_t` no fewer) and `PrintfAssumption`, that the
  calls are `GoodCall`s.

The constants' assumptions (`ThreadsAssumption`, `HeapAssumption`,
`TextsAssumption`, `TreeAssumption`, `ModesAssumption`, ...) are stated in the
modules that declare them; TLC evaluates them in every run. The hypotheses that
some theorems have beside them hold in the runs, too: `SafeSizes`, `EarlyInit`
and `MasksWork` in the runs named above, and in `library` the letters
are 1 and 2 and `NoText` is a model value, no sequence.

What is defined by recursion over data is proved about by way of a function that
exists and is the only one with these steps (the lemmas `Steps` and `Upwards`):
the library's own induction takes an operator as a parameter, which the provers
here cannot instantiate.

Only model-checked: `Progress` and `JoinReturns`, since liveness is out of the
prover's reach. Every invariant and every other action or temporal property of the
passing runs is a theorem.

## 7. Disagreements between the code and what it says

* `tls.c:55` (`tss_race`). A thread that saw `tss_mtx_init` FALSE calls
  `mtx_init` even if another thread has done it since, and may reset a mutex
  that is held. Two threads then are in `tss_create` together and get the same
  key. It cannot happen if the program creates a key before its second thread.
* `search.c:72` (`hash_mask`). The mask is computed from the capacity and not
  from the space, a power of two, that the comment above speaks of.
* `search.c:121` (`hash_data`). `hsearch_r` hashes the data of the item and not its
  key: with other data a key is missed, or entered twice. `tests/search-test.c` has
  the same key with other data three times and says that the entry is found
  (lines 146, 179-180, 204-205). The tests pass by luck: the table of line 146 is
  full, so that all of it is looked at, and the data "01" and "02" of the others
  hash to the same slot.
* `printf.c:568`. `write_fd` says "Couldn't write everything, stop now." (line 84)
  and sets `info->rc`, but `vprintf_conv_c` and `vprintf_conv_s` do not look at it
  after the padding, and write on after a gap. The code is modelled as it is, and
  the last clause of `FileResult`, that nothing is written after a gap, leaves out
  padded characters and strings. There is no run that shows it violated.

More were met on the way, of which nothing in the repository says otherwise in words,
so they are listed here; the runs keep to what avoids them, or model them:

* `malloc.c:55`. `size + sizeof(malloc_metadata)` wraps around for a size near
  `SIZE_MAX`; the break moves down. The sizes of the run are small, and the
  proofs name the assumption (`SafeSizes`), so no property is about it.
* `printf.c:428`. The lengths `l`, `ll`, `j`, `z` and `t` are stored in
  `spec->conv`, which the conversion overwrites; the argument is read as an int.
  In the items of the runs and the proofs it is one that an int holds (`HasArgument`).
* `file.c:179`. `fclose` returns `EOF` when `close` succeeds and 0 when it fails.
  Stdio models what happens to the stream, which is freed in either case.
* `stdio.c:47, 66, 133`. After a short read or write `fread` and `fwrite` return the
  full count (line 30 has "TODO: Fix this function (and fwrite)"), so `fputs` never
  sees a short write: it writes the newline and returns success with a part of the
  text missing. Stdio has it so, and `WritesInOrder` says what is then in the file;
  `ReadsInOrder` is silent about a stream after a short `fread`.
* `stdio.c:32`. `fread` on a stream that has stopped returns `EOF`, which is
  `SIZE_MAX` items; the model has the call, and `ReadsInOrder` is silent after it.
  `stdio.c:92`: `fgets` of a count of 0 has its end before its start; the model
  leaves it out.
* `file.c:27`. A mode such as `+r` or `zr` is accepted, and `u` never is, as
  `fopen` has set that flag before the first letter. Modes has it as it is.
* `stdlib.c:151`. `bsearch` calls the comparison with an element first and the
  key second; the standard has it the other way round. Key and items are of one
  kind in the model, so it does not see the difference.
* `string.c`. `memcmp` and `strcmp` compare `char`, which is signed here, where
  the standard compares unsigned bytes. Strings compares as the code does; the chars of
  the run and of the theorem are not negative, where the two agree.
* `string.c:274`. After `strtok_r` has returned NULL its state is NULL, and one
  more call reads at address 0. The model ends there.

## 8. What is not modelled, and why

* *Memory orders.* Flags are exchanged with `xchg` and the other shared
  variables are `volatile`; on x86 an interleaving of the accesses is an
  execution. `mtx_trylock` is `mtx_lock` in the code, `mtx_destroy` is empty.
* *Direct calls of `sbrk`* by the program, beside `malloc`.
* *The stack under an exiting thread.* `thrd_join` and `thrd_detach` free the
  stack while its thread still runs on it towards `SYS_EXIT`. It has no effect
  as `free` does nothing, and the stack of a thread that was detached before it
  ended is never freed (the code says so).
* *A handle of the initial thread* (`thrd_current` in `main`, joined or detached
  by another thread), and the value that `tdelete` returns.
* *Two threads on one stream.* The streams have no lock, and the system calls of
  two threads may mix within a line; the standard asks for a lock, the code does
  not speak of one, and there is nothing to hold it to. Each thread of the model
  has its streams to itself. `fclose` of a standard stream frees static memory,
  which `free` does not mind; the program does not do that here.
* *Fields `pos` and `ungetc_buf`* of `FILE`: set, never read. `getchar`,
  `putchar` and `puts` are the modelled functions on a standard stream.
* *`strdup` without memory*: `malloc` fails and it returns NULL at once.
* *Exit handlers* (`atexit`, `exit`, `quick_exit`). Two threads lose a handler or
  call an empty slot; the code says "TODO: Make thread safe", so that is no
  promise to check, and one thread that fills an array and walks it backwards
  leaves nothing to check. The end of the process itself is in Threads.
* *setjmp, signals, system, getenv, time, ctype, headers*: registers, the
  kernel's state, or pure functions of one character that the tests enumerate.
* *The length modifiers `j`, `t` and `L`*: the parser of Printf reads them, but no
  item of Conversions has one. They are lost as `l`, `ll` and `z` are.
* *The flag of `printf.c`*, which lets one call in at a time: a call shares
  nothing else with another. A signal handler that calls `printf` inside
  `printf` spins on it for ever; signals are not modelled.

## 9. Plan

Done, in this order: LazyMutex and Mutex with their proofs; Malloc with its
proofs; Threads; Tss; HashTable, Queue, Tree with their abstract
specifications; the lists' proofs; Strto with its proofs; Printf; Stdio with its
proofs; Arrays, Strings, Modes and Tokens, joined with Queue in Library; the
proofs of Threads and Tss; the proofs of what memory and files hold (Malloc,
Stdio), of Library with all its parts, of the tree and the hash table, and of
Printf; the hash table called with any data, joined with the tree in Search, and
the short writes of Stdio, with their proofs.

Next: a standard stream of Stdio under `write_fd`, so that what `printf` prints is
followed to the file it is in.
