------------------------------- MODULE Queue -------------------------------
(***************************************************************************)
(* insque and remque of search.c: lists of elements that are linked both   *)
(* ways, in a line or in a ring.  An action is a call.  The program may    *)
(* insert an element that is in no list, after one that is, and remove one *)
(* that is: neither function tests for that, and remque leaves in the      *)
(* element the pointers to its old neighbours.                             *)
(***************************************************************************)
CONSTANTS
  Elements,
  NoElement,  \* NULL
  Junk        \* what is in a field that was never written

ASSUME ElementsAssumption == NoElement \notin Elements /\ Junk \notin Elements \cup {NoElement}

VARIABLES
  next, prev,  \* the fields of each element, Junk until they are written
  linked       \* history: the elements that the program has in its lists

queueVars == <<next, prev, linked>>

QueueInit ==
  /\ next = [e \in Elements |-> Junk]
  /\ prev = [e \in Elements |-> Junk]
  /\ linked = {}

\* insque(e, NULL)
InsqueFirst(e) ==
  /\ e \notin linked
  /\ next' = [next EXCEPT ![e] = NoElement]
  /\ prev' = [prev EXCEPT ![e] = NoElement]
  /\ linked' = linked \cup {e}

\* The program makes a ring: it sets the fields of the first element itself.
MakeRing(e) ==
  /\ e \notin linked
  /\ next' = [next EXCEPT ![e] = e]
  /\ prev' = [prev EXCEPT ![e] = e]
  /\ linked' = linked \cup {e}

\* p->prev = q, unless p is NULL; the same for next.
SetPrev(p, q) == [e \in Elements |-> IF e = p THEN q ELSE prev[e]]
SetNext(p, q) == [e \in Elements |-> IF e = p THEN q ELSE next[e]]

\* A mutation: the element behind is not told.
InsqueForward(e, p) ==
  /\ e \notin linked /\ p \in linked
  /\ next' = [next EXCEPT ![e] = next[p], ![p] = e]
  /\ prev' = [prev EXCEPT ![e] = p]
  /\ linked' = linked \cup {e}

\* insque
Insque(e, p) ==
  /\ e \notin linked /\ p \in linked
  /\ next' = [next EXCEPT ![e] = next[p], ![p] = e]
  /\ prev' = [SetPrev(next[p], e) EXCEPT ![e] = p]
  /\ linked' = linked \cup {e}

\* A mutation: e->prev->next is left as it is when e is the last.
RemqueNotLast(e) ==
  /\ e \in linked
  /\ prev' = SetPrev(next[e], prev[e])
  /\ next' = IF next[e] = NoElement THEN next ELSE SetNext(prev[e], next[e])
  /\ linked' = linked \ {e}

\* remque
Remque(e) ==
  /\ e \in linked
  /\ prev' = SetPrev(next[e], prev[e])
  /\ next' = SetNext(prev[e], next[e])
  /\ linked' = linked \ {e}

QueueNext ==
  \/ \E e \in Elements : InsqueFirst(e) \/ MakeRing(e) \/ Remque(e)
  \/ \E e, p \in Elements : Insque(e, p)

QueueSpec == QueueInit /\ [][QueueNext]_queueVars
-----------------------------------------------------------------------------
\* The fields of an element are written when it enters a list.
QueueTypeOK ==
  /\ linked \subseteq Elements
  /\ next \in [Elements -> Elements \cup {NoElement, Junk}]
  /\ prev \in [Elements -> Elements \cup {NoElement, Junk}]
  /\ \A e \in linked : next[e] # Junk /\ prev[e] # Junk

\* The neighbours of an element point back at it, and no element of a list
\* leads to one that was removed, after any sequence of insertions and
\* removals, at the ends, in the middle and in rings.
Linked ==
  \A e \in linked :
    /\ next[e] # NoElement => next[e] \in linked /\ prev[next[e]] = e
    /\ prev[e] # NoElement => prev[e] \in linked /\ next[prev[e]] = e

\* insque puts an element just after its predecessor, remque takes one out, and
\* neither changes what follows any other: seen from the next pointers alone,
\* which is all that a program that walks the list looks at.
List == INSTANCE Chain WITH after <- [e \in linked |-> next[e]], NULL <- NoElement
KeepsChain == List!Spec
=============================================================================
