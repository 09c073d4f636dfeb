----------------------------- MODULE Dictionary -----------------------------
(***************************************************************************)
(* What hcreate_r, hsearch_r and hdestroy_r of search.h promise: a table   *)
(* of at most "limit" entries with one entry for a key.  ENTER of a key    *)
(* that is there returns the entry that is there.                          *)
(***************************************************************************)
EXTENDS Naturals, FiniteSets

CONSTANTS Keys, Datas, Limits, None

VARIABLES
  dict,   \* the data of each key that is in the table
  limit,  \* how many entries it takes, 0 when there is no table
  reply   \* the entry that the last hsearch_r returned, or None

vars == <<dict, limit, reply>>

Empty == <<>>

Init == dict = Empty /\ limit = 0 /\ reply = None

\* It replaces a table that was there.
Create(n) ==
  /\ limit' = n
  /\ dict' = Empty /\ reply' = None

Entry(k) == [key |-> k, data |-> dict[k]]

\* FIND, and ENTER of a key that is there.
Find(k) ==
  /\ limit # 0
  /\ reply' = IF k \in DOMAIN dict THEN Entry(k) ELSE None
  /\ UNCHANGED <<dict, limit>>

EnterNew(k, d) ==
  /\ k \notin DOMAIN dict
  /\ Cardinality(DOMAIN dict) < limit
  /\ dict' = [x \in DOMAIN dict \cup {k} |-> IF x = k THEN d ELSE dict[x]]
  /\ reply' = [key |-> k, data |-> d]
  /\ UNCHANGED limit

EnterFull(k) ==
  /\ limit # 0
  /\ k \notin DOMAIN dict
  /\ Cardinality(DOMAIN dict) = limit
  /\ reply' = None
  /\ UNCHANGED <<dict, limit>>

\* Also a Create that fails.
Destroy == limit' = 0 /\ dict' = Empty /\ reply' = None

Next ==
  \/ \E n \in Limits : Create(n)
  \/ \E k \in Keys : Find(k) \/ EnterFull(k)
  \/ \E k \in Keys, d \in Datas : EnterNew(k, d)
  \/ Destroy

Spec == Init /\ [][Next]_vars
=============================================================================
