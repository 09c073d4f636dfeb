------------------------------- MODULE Chain -------------------------------
(***************************************************************************)
(* What insque and remque of search.h promise: the elements of lines and   *)
(* rings, each followed by another one or by none.                         *)
(***************************************************************************)
CONSTANTS Elements, NULL

VARIABLE after   \* the element that follows each element that is in a list

Members == DOMAIN after

Init == after = [e \in {} |-> NULL]

\* A line of one element.
Line(e) ==
  /\ e \notin Members
  /\ after' = [x \in Members \cup {e} |-> IF x = e THEN NULL ELSE after[x]]

\* A ring of one element.
Ring(e) ==
  /\ e \notin Members
  /\ after' = [x \in Members \cup {e} |-> IF x = e THEN e ELSE after[x]]

Insert(e, p) ==
  /\ e \notin Members /\ p \in Members
  /\ after' = [x \in Members \cup {e} |->
                 IF x = e THEN after[p] ELSE IF x = p THEN e ELSE after[x]]

Remove(e) ==
  /\ e \in Members
  /\ after' = [x \in Members \ {e} |->
                 IF after[x] = e THEN after[e] ELSE after[x]]

Next ==
  \/ \E e \in Elements : Line(e) \/ Ring(e) \/ Remove(e)
  \/ \E e, p \in Elements : Insert(e, p)

Spec == Init /\ [][Next]_after
=============================================================================
