----------------------------- MODULE EntryTable -----------------------------
(***************************************************************************)
(* What hcreate_r, hsearch_r and hdestroy_r of search.c keep, whatever key *)
(* and data they are called with: a set of at most "limit" entries, to     *)
(* which ENTER adds.  What is there is found with its key and its data.    *)
(* With its key and other data it may be found or missed.                  *)
(***************************************************************************)
EXTENDS Naturals, FiniteSets

CONSTANTS Keys, Datas, Limits, None

VARIABLES
  entries,  \* the entries of the table
  limit,    \* how many it takes, 0 when there is no table
  action,   \* what the last hsearch_r was to do
  reply     \* the entry that it returned, or None

vars == <<entries, limit, action, reply>>

Fresh(n) == entries' = {} /\ limit' = n /\ action' = "none" /\ reply' = None

Init == entries = {} /\ limit = 0 /\ action = "none" /\ reply = None

\* It replaces a table that was there.
Create(n) == Fresh(n)

\* Also a Create that fails.
Destroy == Fresh(0)

Item(k, d) == [key |-> k, data |-> d]

HasKey(k) == \E e \in entries : e.key = k

\* The very item if it is there, otherwise an entry of its key.
Hit(k, d) ==
  /\ limit # 0
  /\ action' \in {"FIND", "ENTER"}
  /\ \E e \in entries :
       /\ e.key = k /\ reply' = e
       /\ Item(k, d) \in entries => e = Item(k, d)
  /\ UNCHANGED <<entries, limit>>

Miss(k, d) ==
  /\ limit # 0
  /\ Item(k, d) \notin entries
  /\ action' = "FIND" /\ reply' = None
  /\ UNCHANGED <<entries, limit>>

EnterNew(k, d) ==
  /\ Item(k, d) \notin entries
  /\ Cardinality(entries) < limit
  /\ entries' = entries \cup {Item(k, d)}
  /\ action' = "ENTER" /\ reply' = Item(k, d)
  /\ UNCHANGED limit

\* Every entry was looked at.
EnterFull(k) ==
  /\ limit # 0
  /\ ~HasKey(k)
  /\ Cardinality(entries) = limit
  /\ action' = "ENTER" /\ reply' = None
  /\ UNCHANGED <<entries, limit>>

Next ==
  \/ \E n \in Limits : Create(n)
  \/ Destroy
  \/ \E k \in Keys : EnterFull(k)
  \/ \E k \in Keys, d \in Datas : Hit(k, d) \/ Miss(k, d) \/ EnterNew(k, d)

Spec == Init /\ [][Next]_vars
=============================================================================
