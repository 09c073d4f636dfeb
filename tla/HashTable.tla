----------------------------- MODULE HashTable -----------------------------
(***************************************************************************)
(* The hash table of search.c: hcreate_r, hsearch_r and hdestroy_r (hcreate,*)
(* hsearch and hdestroy are the same on a table of the library's).  It is  *)
(* sequential: an action is a call.                                        *)
(*                                                                         *)
(* The hash of a string is any number: which one is a variable that never  *)
(* changes, so that one run covers every hash function.  The string that   *)
(* the code hashes is the data of the entry that it is called with.        *)
(***************************************************************************)
EXTENDS Integers, FiniteSets

CONSTANTS
  Names, Datas, \* strings: the keys and what is entered with them
  Nels,         \* the arguments of hcreate_r
  Hashes,       \* the values of the hash function
  BitAnd(_, _), \* the operator & of C
  None          \* a free slot (key = NULL), or no entry

ASSUME HashTableAssumption ==
  /\ Nels \subseteq Nat \ {0} /\ Hashes \subseteq Nat
  /\ None \notin [key : Names, data : Datas]

VARIABLES
  hash,      \* hasher
  data,      \* htab->data, no slots when there is no table
  capacity,  \* htab->capacity
  size,      \* htab->size
  mask,      \* htab->mask
  action,    \* the action of the last hsearch_r, "none" after the other calls
  reply      \* the entry at *retval of the last hsearch_r

fields == <<data, capacity, size, mask>>
tableVars == <<hash, fields, action, reply>>

Entries == [key : Names, data : Datas]

TableInit ==
  /\ hash \in [Datas -> Hashes]
  /\ data = <<>> /\ capacity = 0 /\ size = 0 /\ mask = 0
  /\ action = "none" /\ reply = None

\* htab->data # NULL.  Only then may the program search.
Open == data # <<>>

IsPow2(n) == BitAnd(n, n - 1) = 0

\* What the bit operations do when hcreate_r is asked for powers of two.
MasksWork ==
  \A n \in Nels : /\ IsPow2(2 * n)
                  /\ \A a \in Hashes \cup 0 .. n : BitAnd(a, n - 1) = a % n

\* What the shifting loop of next_pow_2 computes.
NextPow2(n) ==
  IF IsPow2(n) THEN n ELSE CHOOSE r \in n .. 2 * n : IsPow2(r)

\* hcreate_r.  A table that was there is leaked.
Create(nel) ==
  /\ data' = [i \in 0 .. NextPow2(2 * nel) - 1 |-> None]
  /\ capacity' = nel
  /\ size' = 0
  /\ mask' = nel - 1
  /\ action' = "none" /\ reply' = None
  /\ UNCHANGED hash

\* hcreate_r when calloc fails: it has overwritten htab->data by then.
CreateFails ==
  /\ data' = <<>>
  /\ action' = "none" /\ reply' = None
  /\ UNCHANGED <<hash, capacity, size, mask>>

Destroy ==
  /\ Open
  /\ data' = <<>>
  /\ action' = "none" /\ reply' = None
  /\ UNCHANGED <<hash, capacity, size, mask>>

(***************************************************************************)
(* The loop of hsearch_r visits the slots start, (start + 1) & mask, ...   *)
(* until one is free, holds the key or would be start again.               *)
(***************************************************************************)
Start(d) == BitAnd(hash[d], mask)

Following(i) == BitAnd(i + 1, mask)

\* data[i].key = key
Holds(i, k) == data[i] # None /\ data[i].key = k

\* The slot where the loop stops.
Stop(k, d) ==
  LET start == Start(d)
      visit[n \in 0 .. mask + 1] ==
        IF n = 0 THEN start ELSE Following(visit[n - 1])
      stops == {n \in 0 .. mask + 1 :
                  \/ data[visit[n]] = None
                  \/ Holds(visit[n], k)
                  \/ n > 0 /\ visit[n] = start}
  IN visit[CHOOSE n \in stops : \A m \in stops : n <= m]

Found(k, d) == Holds(Stop(k, d), k)

\* hsearch_r returns the entry that it has found, for FIND and for ENTER.
SearchHit(k, d) ==
  /\ Open
  /\ Found(k, d)
  /\ action' \in {"FIND", "ENTER"}
  /\ reply' = data[Stop(k, d)]
  /\ UNCHANGED <<hash, fields>>

\* action == FIND || htab->size == htab->capacity
SearchMiss(k, d) ==
  /\ Open
  /\ ~Found(k, d)
  /\ action' \in {"FIND"} \cup (IF size = capacity THEN {"ENTER"} ELSE {})
  /\ reply' = None
  /\ UNCHANGED <<hash, fields>>

\* A mutation: ENTER writes the slot of the hash, not the one where the loop stopped.
EnterNewAtStart(k, d) ==
  /\ Open
  /\ ~Found(k, d)
  /\ size # capacity
  /\ size' = size + 1
  /\ data' = [data EXCEPT ![Start(d)] = [key |-> k, data |-> d]]
  /\ action' = "ENTER" /\ reply' = [key |-> k, data |-> d]
  /\ UNCHANGED <<hash, capacity, mask>>

\* The slot where the loop has stopped is written, free or not.
EnterNew(k, d) ==
  /\ Open
  /\ ~Found(k, d)
  /\ size # capacity
  /\ size' = size + 1
  /\ data' = [data EXCEPT ![Stop(k, d)] = [key |-> k, data |-> d]]
  /\ action' = "ENTER" /\ reply' = [key |-> k, data |-> d]
  /\ UNCHANGED <<hash, capacity, mask>>

TableNext ==
  \/ \E nel \in Nels : Create(nel)
  \/ CreateFails
  \/ Destroy
  \/ \E k \in Names, d \in Datas :
       SearchHit(k, d) \/ SearchMiss(k, d) \/ EnterNew(k, d)

TableSpec == TableInit /\ [][TableNext]_tableVars
-----------------------------------------------------------------------------
(***************************************************************************)
(* Properties.                                                             *)
(***************************************************************************)

Used == {i \in DOMAIN data : data[i] # None}

\* What hsearch_r keeps, whatever it is called with: no entry that was entered is
\* lost, overwritten or entered twice, and the item that was entered is found
\* again, also behind entries of other keys, in a full table and round its end.
\* A call with the key and other data gets an entry of the key or a miss; ENTER
\* is refused only by a table with as many entries as hcreate_r was asked for, and
\* then no entry has the key.
Kept == {data[i] : i \in Used}

Limit == IF Open THEN capacity ELSE 0

Table == INSTANCE EntryTable WITH
           Keys <- Names,
           entries <- Kept,
           limit <- Limit,
           Limits <- Nels

KeepsEntries == Table!Spec

\* What search-test.c asserts: an entry is found by its key alone, whatever the
\* data of the item (same_k_diff_v), and a key is entered once.  The code hashes
\* the data.
Content ==
  [k \in {data[i].key : i \in Used} |->
     data[CHOOSE i \in Used : data[i].key = k].data]

Dict == INSTANCE Dictionary WITH
          Keys <- Names,
          dict <- Content,
          limit <- Limit,
          Limits <- Nels

KeepsDictionary == Dict!Spec
=============================================================================
