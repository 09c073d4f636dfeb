------------------------------- MODULE KeySet -------------------------------
(***************************************************************************)
(* What tsearch and tdelete of search.h promise: a set of keys.            *)
(***************************************************************************)
CONSTANT Keys

VARIABLE keys

Init == keys = {}

\* tsearch of a key that is there changes nothing.
Add(k) == k \notin keys /\ keys' = keys \cup {k}

Remove(k) == k \in keys /\ keys' = keys \ {k}

Next == \E k \in Keys : Add(k) \/ Remove(k)

Spec == Init /\ [][Next]_keys
=============================================================================
