-------------------------------- MODULE Tree --------------------------------
(***************************************************************************)
(* The binary tree of search.c: tsearch, tfind, tdelete and twalk.  An     *)
(* action is a call.  A node is a piece of memory that calloc gives out    *)
(* zeroed (malloc.c, property CallocZeroed of Malloc) and tdelete frees.   *)
(* What a node that was freed holds is forgotten: NULL, as in one that was *)
(* never given out.                                                        *)
(***************************************************************************)
EXTENDS Integers, Sequences, FiniteSets

CONSTANTS
  Keys,   \* what the program's comparison function orders
  Nodes,  \* memory for as many nodes at a time: a bound
  NULL

ASSUME TreeAssumption ==
  Keys \subseteq Int /\ NULL \notin Nodes /\ IsFiniteSet(Nodes)

VARIABLES
  root,            \* *rootp
  val, left, right,  \* the fields of each node
  allocated        \* the nodes that calloc gave out, and free has not had back

vars == <<root, val, left, right, allocated>>

Init ==
  /\ root = NULL
  /\ val = [n \in Nodes |-> NULL]
  /\ left = [n \in Nodes |-> NULL]
  /\ right = [n \in Nodes |-> NULL]
  /\ allocated = {}

Size == Cardinality(Nodes)

(***************************************************************************)
(* tfind_with_parent: the nodes parent and cur where the loop stops, after *)
(* as many steps as there can be.                                          *)
(***************************************************************************)
Child(n, k) == IF k < val[n] THEN left[n] ELSE right[n]

Seek(k) ==
  LET step[d \in 0 .. Size] ==
        IF d = 0 THEN [parent |-> NULL, cur |-> root]
        ELSE LET s == step[d - 1] IN
             IF s.cur = NULL \/ val[s.cur] = k THEN s
             ELSE [parent |-> s.cur, cur |-> Child(s.cur, k)]
  IN step[Size]

\* tfind
TFind(k) == Seek(k).cur

\* tsearch, when it has to add the key and calloc gives it node n.  Otherwise
\* nothing changes.
TSearch(k, n) ==
  LET p == Seek(k).parent IN
  /\ TFind(k) = NULL
  /\ n \in Nodes \ allocated
  /\ allocated' = allocated \cup {n}
  /\ val' = [val EXCEPT ![n] = k]
  /\ root' = IF p = NULL THEN n ELSE root
  /\ left' = [m \in Nodes |-> IF m = n THEN NULL
                ELSE IF m = p /\ k < val[p] THEN n ELSE left[m]]
  /\ right' = [m \in Nodes |-> IF m = n THEN NULL
                 ELSE IF m = p /\ k > val[p] THEN n ELSE right[m]]

\* The rightmost child of the branch n.
Rightmost(n) ==
  LET step[d \in 0 .. Size] ==
        IF d = 0 THEN n
        ELSE IF right[step[d - 1]] = NULL THEN step[d - 1] ELSE right[step[d - 1]]
  IN step[Size]

\* What takes the place of node n: a branch, the left one if there are two.
Promoted(n) == IF left[n] = NULL THEN right[n] ELSE left[n]

\* Mutations: the right branch of the node that is deleted is forgotten; or it
\* becomes that of the left branch itself.
AdopterNone(n) == NULL
AdopterShallow(n) ==
  IF left[n] = NULL \/ right[n] = NULL THEN NULL ELSE left[n]

\* The node whose right branch becomes that of n, if n has both branches.
Adopter(n) ==
  IF left[n] = NULL \/ right[n] = NULL THEN NULL ELSE Rightmost(left[n])

\* tdelete of a key that is there.  Otherwise nothing changes.
TDelete(k) ==
  LET p == Seek(k).parent
      n == TFind(k)
  IN /\ n # NULL
     /\ root' = IF p = NULL THEN Promoted(n) ELSE root
     /\ left' = [m \in Nodes |->
                   IF m = n THEN NULL
                   ELSE IF m = p /\ left[p] = n THEN Promoted(n) ELSE left[m]]
     /\ right' = [m \in Nodes |->
                    IF m = n THEN NULL
                    ELSE IF m = p /\ left[p] # n THEN Promoted(n)
                    ELSE IF m = Adopter(n) THEN right[n] ELSE right[m]]
     /\ val' = [val EXCEPT ![n] = NULL]
     /\ allocated' = allocated \ {n}

Next ==
  \E k \in Keys : TDelete(k) \/ \E n \in Nodes : TSearch(k, n)

Spec == Init /\ [][Next]_vars
-----------------------------------------------------------------------------
(***************************************************************************)
(* twalk: the sequence of its calls of the action.                         *)
(***************************************************************************)
Visit(n, order, depth) == [key |-> val[n], order |-> order, depth |-> depth]

IsLeaf(n) == left[n] = NULL /\ right[n] = NULL

\* A mutation: the right branch is walked only when there is a left one.
BranchesLeftOnly(n) == IF left[n] = NULL THEN <<NULL, NULL>> ELSE <<left[n], right[n]>>

\* The branches that twalk_internal walks between its calls of the action.
Branches(n) == <<left[n], right[n]>>

\* twalk_internal.  A tree of Size nodes has no node below depth Size - 1.  twalk
\* of an empty tree reads through the NULL: the program must not call it.
Walk ==
  LET walk[d \in 0 .. Size] ==
        [n \in Nodes \cup {NULL} |->
           IF n = NULL \/ d = Size THEN <<>>
           ELSE IF IsLeaf(n) THEN <<Visit(n, "leaf", d)>>
           ELSE <<Visit(n, "preorder", d)>>
                \o walk[d + 1][Branches(n)[1]]
                \o <<Visit(n, "postorder", d)>>
                \o walk[d + 1][Branches(n)[2]]
                \o <<Visit(n, "endorder", d)>>]
  IN walk[0][root]
-----------------------------------------------------------------------------
\* The nodes of the branch n.
Branch(n) ==
  LET below[d \in 0 .. Size] ==
        IF d = 0 THEN {n} \ {NULL}
        ELSE below[d - 1]
             \cup (({left[m] : m \in below[d - 1]}
                    \cup {right[m] : m \in below[d - 1]}) \ {NULL})
  IN below[Size]

InTree == Branch(root)

\* The memory that is allocated is exactly the tree: tdelete leaks no node, and
\* leaves no pointer to the one that it has freed; and every node has its key.
NodesOwned == InTree = allocated /\ \A n \in allocated : val[n] \in Keys

\* The places of a walk that have one of these orders, and the keys there.
Places(walk, orders) == {i \in 1 .. Len(walk) : walk[i].order \in orders}
KeysAt(walk, orders) == {walk[i].key : i \in Places(walk, orders)}

\* twalk visits every key once as a leaf or three times, in ascending order of
\* the leaf and postorder visits, and the depth that it reports is that of a
\* walk: one more after preorder, one less before endorder (what twalk_checker
\* in search-test.c asserts of one tree).
WalkInOrder ==
  LET middle == {"leaf", "postorder"}
      open(i) == Cardinality({j \in 1 .. i - 1 : Walk[j].order = "preorder"})
                 - Cardinality({j \in 1 .. i - 1 : Walk[j].order = "endorder"})
  IN root # NULL =>
     /\ KeysAt(Walk, middle) = {val[n] : n \in InTree}
     /\ \A order \in {"preorder", "endorder"} :
          KeysAt(Walk, {order}) = KeysAt(Walk, {"postorder"})
     /\ \A i, j \in Places(Walk, middle) : i < j => Walk[i].key < Walk[j].key
     /\ \A i \in 1 .. Len(Walk) :
          Walk[i].depth = IF Walk[i].order \in {"preorder", "leaf"}
                            THEN open(i) ELSE open(i) - 1

\* A tree is the set of the keys that tfind finds in it: tsearch adds its key
\* and tdelete removes its own, and no other comes or goes.
Set == INSTANCE KeySet WITH keys <- {k \in Keys : TFind(k) # NULL}
Implements == Set!Spec
=============================================================================
