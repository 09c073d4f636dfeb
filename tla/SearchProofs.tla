----------------------------- MODULE SearchProofs -----------------------------
(***************************************************************************)
(* Theorems about the binary tree and the hash table of search.c, for any  *)
(* keys and any memory: tdelete leaks no node and leaves no pointer to     *)
(* one, tsearch, tfind and tdelete keep a set of keys, twalk visits them   *)
(* in order, and hsearch_r keeps every entry.                              *)
(*                                                                         *)
(* The argument for the tree.  That it is ordered is said without a word   *)
(* of what is below a node: every node has a node that bounds it from      *)
(* below and one that bounds it from above, or none, and a child has the   *)
(* bounds of its parent except for the parent itself.  From this and from  *)
(* the fact that every node hangs on the root it follows that a search     *)
(* ends, and that it passes every node whose bounds the key is within; and *)
(* from that all the rest, the one parent of a node included.              *)
(***************************************************************************)
EXTENDS Search, TLAPS, FiniteSetTheorems, SequenceTheorems, WellFoundedInduction

Pointers == allocated \cup {NULL}

Types ==
  /\ allocated \subseteq Nodes
  /\ root \in Pointers
  /\ left \in [Nodes -> Pointers]
  /\ right \in [Nodes -> Pointers]
  /\ val \in [Nodes -> Keys \cup {NULL}]
  /\ \A n \in allocated : val[n] \in Keys
  /\ \A n \in Nodes \ allocated : left[n] = NULL /\ right[n] = NULL

\* A set that has the root and the children of the nodes in it has every node.
Closed(S) ==
  /\ root \in S \cup {NULL}
  /\ \A m \in S : left[m] \in S \cup {NULL} /\ right[m] \in S \cup {NULL}

Connected == \A S \in SUBSET allocated : Closed(S) => allocated \subseteq S

\* lo[m] is the last node on the way to m where the way went right, and hi[m] the
\* last where it went left.
Low(lo) ==
  /\ lo \in [allocated -> Pointers]
  /\ root # NULL => lo[root] = NULL
  /\ \A m \in allocated :
       /\ lo[m] # NULL => val[lo[m]] < val[m]
       /\ left[m] # NULL => lo[left[m]] = lo[m]
       /\ right[m] # NULL => lo[right[m]] = m

High(hi) ==
  /\ hi \in [allocated -> Pointers]
  /\ root # NULL => hi[root] = NULL
  /\ \A m \in allocated :
       /\ hi[m] # NULL => val[m] < val[hi[m]]
       /\ left[m] # NULL => hi[left[m]] = m
       /\ right[m] # NULL => hi[right[m]] = hi[m]

Ordered == (\E lo : Low(lo)) /\ (\E hi : High(hi))

Inv == Types /\ Connected /\ Ordered
-----------------------------------------------------------------------------
\* Induction up to a bound, as a statement about sets.
LEMMA Upwards ==
  ASSUME NEW b \in Nat, NEW G, 0 \in G, \A d \in 1 .. b : d - 1 \in G => d \in G
  PROVE  0 .. b \subseteq G
<1> DEFINE bad == {d \in Nat : d \in 0 .. b /\ d \notin G}
<1> SUFFICES ASSUME bad # {} PROVE FALSE
  OBVIOUS
<1>1. PICK d \in bad : \A y \in bad : ~(<<y, d>> \in OpToRel(<, Nat))
  BY WFMin, NatLessThanWellFounded
<1>2. d \in 1 .. b /\ d - 1 \notin G
  <2>1. d \in 0 .. b /\ d \notin G
    BY <1>1
  <2>2. d # 0
    BY <2>1
  <2>3. d \in 1 .. b
    BY <2>1, <2>2
  <2> QED
    BY <2>1, <2>3
<1>3. d - 1 \in bad
  BY <1>2
<1>4. <<d - 1, d>> \in OpToRel(<, Nat)
  BY <1>1, <1>3 DEF OpToRel
<1> QED
  BY <1>1, <1>3, <1>4

\* A function that is given by its first value and by a step exists.
Iterates(f, A, x, F, b) ==
  /\ f \in [0 .. b -> A]
  /\ f[0] = x
  /\ \A d \in 1 .. b : f[d] = F[f[d - 1]]

LEMMA Steps ==
  ASSUME NEW A, NEW x \in A, NEW F \in [A -> A], NEW b \in Nat
  PROVE  \E f : Iterates(f, A, x, F, b)
<1> DEFINE G == {e \in Nat : \E f : Iterates(f, A, x, F, e)}
<1>1. 0 \in G
  <2>1. Iterates([d \in 0 .. 0 |-> x], A, x, F, 0)
    BY DEF Iterates
  <2>2. \E f : Iterates(f, A, x, F, 0)
    BY <2>1
  <2> QED
    BY <2>2
<1>2. ASSUME NEW d \in 1 .. b, d - 1 \in G PROVE d \in G
  <2>1. PICK f : Iterates(f, A, x, F, d - 1)
    BY <1>2
  <2> DEFINE g == [i \in 0 .. d |-> IF i < d THEN f[i] ELSE F[f[d - 1]]]
  <2>2. g \in [0 .. d -> A] /\ g[0] = x
    BY <2>1 DEF Iterates
  <2>3. ASSUME NEW i \in 1 .. d PROVE g[i] = F[g[i - 1]]
    BY <2>1 DEF Iterates
  <2>4. Iterates(g, A, x, F, d)
    <3> HIDE DEF g
    <3> QED
      BY <2>2, <2>3 DEF Iterates
  <2>5. \E h : Iterates(h, A, x, F, d)
    BY <2>4
  <2> QED
    BY <2>5
<1>3. b \in G
  <2> HIDE DEF G
  <2>1. 0 .. b \subseteq G
    BY <1>1, <1>2, Upwards
  <2> QED
    BY <2>1
<1> QED
  BY <1>3
-----------------------------------------------------------------------------
(***************************************************************************)
(* The way of a search through the tree.                                   *)
(***************************************************************************)
LEMMA SizeIs == Size \in Nat /\ IsFiniteSet(Nodes)
BY TreeAssumption, FS_CardinalityType DEF Size

Ways == [parent : Pointers, cur : Pointers]

Stops(s, k) == s.cur = NULL \/ val[s.cur] = k

\* s[d] is where the search for k is after d steps.
Walks(s, k) ==
  /\ s \in [0 .. Size -> Ways]
  /\ s[0] = [parent |-> NULL, cur |-> root]
  /\ \A d \in 1 .. Size :
       s[d] = IF Stops(s[d - 1], k) THEN s[d - 1]
              ELSE [parent |-> s[d - 1].cur, cur |-> Child(s[d - 1].cur, k)]
  /\ Seek(k) = s[Size]

LEMMA SeekWalks ==
  ASSUME Types, NEW k \in Keys
  PROVE  \E s : Walks(s, k)
<1> DEFINE Body(s) == [d \in 0 .. Size |->
                         IF d = 0 THEN [parent |-> NULL, cur |-> root]
                         ELSE LET t == s[d - 1] IN
                              IF t.cur = NULL \/ val[t.cur] = k THEN t
                              ELSE [parent |-> t.cur, cur |-> Child(t.cur, k)]]
           F == [t \in Ways |-> IF Stops(t, k) THEN t
                                ELSE [parent |-> t.cur, cur |-> Child(t.cur, k)]]
           first == [parent |-> NULL, cur |-> root]
           step == CHOOSE s : s = Body(s)
<1>1. first \in Ways
  BY DEF Types, Ways, Pointers
<1>2. F \in [Ways -> Ways]
  BY DEF Types, Ways, Pointers, Stops, Child
<1>3. PICK f : Iterates(f, Ways, first, F, Size)
  <2> HIDE DEF F, first
  <2>1. \E f : Iterates(f, Ways, first, F, Size)
    BY <1>1, <1>2, Steps, SizeIs
  <2> QED
    BY <2>1
<1>4. f = Body(f)
  <2>1. \A d \in 0 .. Size : d # 0 => d \in 1 .. Size /\ d - 1 \in 0 .. Size
    BY SizeIs
  <2>2. \A d \in 0 .. Size : f[d] = Body(f)[d]
    BY <1>3, <2>1 DEF Stops, Iterates
  <2> QED
    BY <1>3, <2>2 DEF Iterates
<1>5. step = Body(step)
  <2>1. \E s : s = Body(s)
    BY <1>4
  <2> HIDE DEF Body
  <2> QED
    BY <2>1
<1>6. step[0] = first
  <2>1. 0 \in 0 .. Size
    BY SizeIs
  <2>2. step[0] = Body(step)[0]
    BY <1>5
  <2> HIDE DEF step
  <2> QED
    BY <2>1, <2>2
<1>7. ASSUME NEW d \in 1 .. Size
      PROVE  step[d] = IF Stops(step[d - 1], k) THEN step[d - 1]
                       ELSE [parent |-> step[d - 1].cur, cur |-> Child(step[d - 1].cur, k)]
  <2>1. d \in 0 .. Size /\ d # 0
    BY SizeIs
  <2>2. step[d] = Body(step)[d]
    BY <1>5
  <2> HIDE DEF step
  <2> QED
    BY <2>1, <2>2 DEF Stops
<1>8. \A d \in 0 .. Size : step[d] \in Ways
  <2> DEFINE G == {d \in Nat : step[d] \in Ways}
  <2> HIDE DEF step
  <2>1. 0 \in G
    BY <1>1, <1>6
  <2>2. ASSUME NEW d \in 1 .. Size, d - 1 \in G PROVE d \in G
    <3>1. F[step[d - 1]] \in Ways
      BY <1>2, <2>2
    <3>2. step[d] = F[step[d - 1]]
      BY <1>7, <2>2
    <3> QED
      BY <3>1, <3>2, SizeIs
  <2>3. 0 .. Size \subseteq G
    <3> HIDE DEF G
    <3> QED
      BY <2>1, <2>2, Upwards, SizeIs
  <2> QED
    BY <2>3
<1>9. step \in [0 .. Size -> Ways]
  BY <1>5, <1>8
<1>10. Seek(k) = step[Size]
  BY DEF Seek
<1> QED
  BY <1>6, <1>7, <1>9, <1>10 DEF Walks

\* A search that stops stays where it is.
LEMMA WalkStays ==
  ASSUME NEW k, NEW s, Walks(s, k), NEW d \in 0 .. Size, Stops(s[d], k)
  PROVE  Seek(k) = s[d]
<1> DEFINE G == {e \in Nat : e < d \/ s[e] = s[d]}
<1>1. 0 \in G
  OBVIOUS
<1>2. ASSUME NEW e \in 1 .. Size, e - 1 \in G PROVE e \in G
  <2>1. CASE e - 1 < d
    BY <2>1, SizeIs
  <2>2. CASE e - 1 >= d
    <3>1. s[e - 1] = s[d]
      BY <1>2, <2>2, SizeIs
    <3>2. s[e] = s[e - 1]
      BY <3>1 DEF Walks
    <3> QED
      BY <3>1, <3>2
  <2> QED
    BY <2>1, <2>2, SizeIs
<1>3. 0 .. Size \subseteq G
  <2> HIDE DEF G
  <2> QED
    BY <1>1, <1>2, Upwards, SizeIs
<1>4. Size \in G
  BY <1>3, SizeIs
<1> QED
  BY <1>4, SizeIs DEF Walks
-----------------------------------------------------------------------------
(***************************************************************************)
(* A key within the bounds of a node, and the nodes that have such a key:  *)
(* they become fewer from step to step, so the search ends.                *)
(***************************************************************************)
Within(lo, hi, m, k) ==
  /\ lo[m] # NULL => val[lo[m]] < k
  /\ hi[m] # NULL => k < val[hi[m]]

Room(lo, hi, m) == {x \in allocated : Within(lo, hi, m, val[x])}

Tied(lo, hi) == Types /\ Low(lo) /\ High(hi)

LEMMA Values ==
  ASSUME Types
  PROVE  \A m \in allocated : val[m] \in Int /\ val[m] \in Keys /\ m \in Nodes /\ m # NULL
BY TreeAssumption DEF Types

LEMMA RoomFits ==
  ASSUME NEW lo, NEW hi, Tied(lo, hi), NEW m \in allocated
  PROVE  /\ m \in Room(lo, hi, m)
         /\ IsFiniteSet(Room(lo, hi, m)) /\ Cardinality(Room(lo, hi, m)) \in 1 .. Size
<1>1. m \in Room(lo, hi, m)
  BY DEF Room, Within, Tied, Low, High
<1>2. Room(lo, hi, m) \in SUBSET Nodes
  BY DEF Room, Tied, Types
<1>3. IsFiniteSet(Room(lo, hi, m)) /\ Cardinality(Room(lo, hi, m)) <= Size
  BY <1>2, SizeIs, FS_Subset DEF Size
<1>4. Cardinality(Room(lo, hi, m)) \in Nat
  BY <1>3, FS_CardinalityType
<1>5. Cardinality(Room(lo, hi, m)) # 0
  BY <1>1, <1>3, FS_EmptySet
<1> QED
  BY <1>1, <1>3, <1>4, <1>5, SizeIs

\* To the left a key below the node is within the bounds, to the right one above.
LEMMA ChildBounds ==
  ASSUME NEW lo, NEW hi, Tied(lo, hi), NEW m \in allocated, NEW k \in Int
  PROVE  /\ left[m] # NULL => (Within(lo, hi, left[m], k) <=> Within(lo, hi, m, k) /\ k < val[m])
         /\ right[m] # NULL => (Within(lo, hi, right[m], k) <=> Within(lo, hi, m, k) /\ k > val[m])
<1>1. \A x \in allocated : val[x] \in Int
  BY Values DEF Tied
<1>2. lo[m] \in Pointers /\ hi[m] \in Pointers
  BY DEF Tied, Low, High
<1>3. /\ lo[m] # NULL => lo[m] \in allocated /\ val[lo[m]] < val[m]
      /\ hi[m] # NULL => hi[m] \in allocated /\ val[m] < val[hi[m]]
  BY <1>2 DEF Tied, Low, High, Pointers
<1>4. m # NULL
  BY Values DEF Tied
<1>5. ASSUME left[m] # NULL
      PROVE  Within(lo, hi, left[m], k) <=> Within(lo, hi, m, k) /\ k < val[m]
  <2>1. lo[left[m]] = lo[m] /\ hi[left[m]] = m
    BY <1>5 DEF Tied, Low, High
  <2> QED
    BY <1>1, <1>3, <1>4, <2>1 DEF Within
<1>6. ASSUME right[m] # NULL
      PROVE  Within(lo, hi, right[m], k) <=> Within(lo, hi, m, k) /\ k > val[m]
  <2>1. lo[right[m]] = m /\ hi[right[m]] = hi[m]
    BY <1>6 DEF Tied, Low, High
  <2> QED
    BY <1>1, <1>3, <1>4, <2>1 DEF Within
<1> QED
  BY <1>5, <1>6

LEMMA RoomShrinks ==
  ASSUME NEW lo, NEW hi, Tied(lo, hi), NEW m \in allocated,
         NEW c \in {left[m], right[m]}, c # NULL
  PROVE  /\ c \in allocated
         /\ Cardinality(Room(lo, hi, c)) < Cardinality(Room(lo, hi, m))
<1>1. c \in allocated
  BY DEF Tied, Types, Pointers
<1>2. Room(lo, hi, c) \subseteq Room(lo, hi, m) \ {m}
  <2> SUFFICES ASSUME NEW x \in allocated, Within(lo, hi, c, val[x])
               PROVE  Within(lo, hi, m, val[x]) /\ x # m
    BY DEF Room
  <2>1. val[x] \in Int /\ val[m] \in Int
    BY Values DEF Tied
  <2> QED
    BY <2>1, ChildBounds
<1>3. m \in Room(lo, hi, m) /\ IsFiniteSet(Room(lo, hi, m))
      /\ Cardinality(Room(lo, hi, m)) \in Nat
  BY RoomFits
<1>4. /\ IsFiniteSet(Room(lo, hi, m) \ {m})
      /\ Cardinality(Room(lo, hi, m) \ {m}) = Cardinality(Room(lo, hi, m)) - 1
  BY <1>3, FS_RemoveElement
<1>5. Cardinality(Room(lo, hi, c)) <= Cardinality(Room(lo, hi, m) \ {m})
  BY <1>2, <1>4, FS_Subset
<1>6. Cardinality(Room(lo, hi, c)) \in Nat
  BY <1>1, RoomFits
<1> QED
  BY <1>1, <1>3, <1>4, <1>5, <1>6

\* Where a search is: within the bounds of the node, and at a child of the
\* parent that it has kept.
At(lo, hi, k, s, d) ==
  /\ s[d].cur # NULL => /\ Within(lo, hi, s[d].cur, k)
                        /\ Cardinality(Room(lo, hi, s[d].cur)) <= Size - d
                           \/ val[s[d].cur] = k
  /\ s[d].parent = NULL => s[d].cur = root
  /\ s[d].parent # NULL => /\ Within(lo, hi, s[d].parent, k)
                           /\ val[s[d].parent] # k
                           /\ s[d].cur = Child(s[d].parent, k)

LEMMA WalkIsAt ==
  ASSUME NEW lo, NEW hi, Tied(lo, hi), NEW k \in Keys, NEW s, Walks(s, k)
  PROVE  \A d \in 0 .. Size : At(lo, hi, k, s, d)
<1> DEFINE G == {d \in Nat : At(lo, hi, k, s, d)}
<1>1. \A d \in 0 .. Size : s[d] \in Ways
  BY DEF Walks
<1>2. 0 \in G
  <2>1. s[0].parent = NULL /\ s[0].cur = root
    BY DEF Walks
  <2>2. root # NULL => root \in allocated
    BY DEF Tied, Types, Pointers
  <2>3. root # NULL => lo[root] = NULL /\ hi[root] = NULL
    BY DEF Tied, Low, High
  <2>4. root # NULL => Cardinality(Room(lo, hi, root)) <= Size - 0
    BY <2>2, RoomFits, SizeIs
  <2> QED
    BY <2>1, <2>3, <2>4 DEF At, Within
<1>3. ASSUME NEW d \in 1 .. Size, d - 1 \in G PROVE d \in G
  <2>1. PICK e \in Nat : e = d - 1 /\ d = e + 1 /\ e \in 0 .. Size
    BY SizeIs
  <2>2. s[e] \in Ways /\ At(lo, hi, k, s, e)
    BY <1>1, <1>3, <2>1
  <2>3. s[d] = IF Stops(s[e], k) THEN s[e]
               ELSE [parent |-> s[e].cur, cur |-> Child(s[e].cur, k)]
    BY <2>1 DEF Walks
  <2>4. CASE Stops(s[e], k)
    <3>1. s[d] = s[e]
      BY <2>3, <2>4
    <3> QED
      BY <2>2, <2>4, <3>1 DEF At, Stops
  <2>5. CASE ~Stops(s[e], k)
    <3> DEFINE m == s[e].cur
               c == Child(m, k)
    <3>1. s[d].parent = m /\ s[d].cur = c
      BY <2>3, <2>5
    <3>2. m \in allocated /\ val[m] # k /\ Within(lo, hi, m, k) /\ m # NULL
      BY <2>2, <2>5 DEF At, Stops, Ways, Pointers
    <3>3. Cardinality(Room(lo, hi, m)) <= Size - e
      BY <2>2, <3>2 DEF At
    <3>4. val[m] \in Int /\ k \in Int
      BY <3>2, Values, TreeAssumption DEF Tied
    <3>5. c # NULL => Within(lo, hi, c, k)
      BY <3>2, <3>4, ChildBounds DEF Child
    <3>6. c # NULL => Cardinality(Room(lo, hi, c)) <= Size - d
      <4>1. c \in {left[m], right[m]}
        BY DEF Child
      <4>2. c # NULL => /\ c \in allocated
                        /\ Cardinality(Room(lo, hi, c)) < Cardinality(Room(lo, hi, m))
        BY <3>2, <4>1, RoomShrinks
      <4>3. /\ Cardinality(Room(lo, hi, m)) \in Nat
            /\ c # NULL => Cardinality(Room(lo, hi, c)) \in Nat
        BY <3>2, <4>2, RoomFits
      <4> HIDE DEF m, c
      <4> QED
        BY <2>1, <3>3, <4>2, <4>3, SizeIs
    <3> HIDE DEF m, c
    <3>7. c = Child(m, k)
      BY DEF c
    <3> QED
      BY <3>1, <3>2, <3>5, <3>6, <3>7 DEF At
  <2> QED
    BY <2>4, <2>5
<1>4. 0 .. Size \subseteq G
  <2> HIDE DEF G
  <2> QED
    BY <1>2, <1>3, Upwards, SizeIs
<1> QED
  BY <1>4

\* A search ends at the key or at the end of a branch, and it knows the parent.
LEMMA SeekIs ==
  ASSUME NEW lo, NEW hi, Tied(lo, hi), NEW k \in Keys
  PROVE  LET p == Seek(k).parent
             n == TFind(k)
         IN  /\ p \in Pointers /\ n \in Pointers
             /\ n # NULL => val[n] = k
             /\ p = NULL => n = root
             /\ p # NULL => /\ val[p] # k /\ n = Child(p, k)
                            /\ Within(lo, hi, p, k)
<1>1. PICK s : Walks(s, k)
  BY SeekWalks DEF Tied
<1>2. Size \in 0 .. Size
  BY SizeIs
<1>3. At(lo, hi, k, s, Size) /\ Seek(k) = s[Size] /\ s[Size] \in Ways
  BY <1>1, <1>2, WalkIsAt DEF Walks
<1>4. TFind(k) # NULL => val[TFind(k)] = k
  <2> SUFFICES ASSUME TFind(k) # NULL, val[TFind(k)] # k PROVE FALSE
    OBVIOUS
  <2>1. TFind(k) \in allocated
    BY <1>3 DEF TFind, Ways, Pointers
  <2>2. Cardinality(Room(lo, hi, TFind(k))) <= Size - Size
    BY <1>3 DEF At, TFind
  <2>3. Cardinality(Room(lo, hi, TFind(k))) >= 1
    BY <2>1, RoomFits
  <2>4. Cardinality(Room(lo, hi, TFind(k))) \in Nat
    BY <2>1, RoomFits
  <2> QED
    BY <2>2, <2>3, <2>4, SizeIs
<1> QED
  BY <1>3, <1>4 DEF At, TFind, Ways
-----------------------------------------------------------------------------
\* A search passes every node whose bounds the key is within.
Passes(k, s, m) == \E d \in 0 .. Size : s[d].cur = m

LEMMA NextOnTheWay ==
  ASSUME NEW lo, NEW hi, Tied(lo, hi), NEW k \in Keys, NEW s, Walks(s, k),
         NEW m \in allocated, Passes(k, s, m), val[m] # k
  PROVE  \E d \in 0 .. Size : s[d] = [parent |-> m, cur |-> Child(m, k)]
<1>1. PICK d \in 0 .. Size : s[d].cur = m
  BY DEF Passes
<1>2. m # NULL
  BY Values DEF Tied
<1>3. Cardinality(Room(lo, hi, m)) <= Size - d
  BY <1>1, <1>2, WalkIsAt DEF At
<1>4. Cardinality(Room(lo, hi, m)) \in 1 .. Size
  BY RoomFits
<1>5. PICK e \in 1 .. Size : e = d + 1
  BY <1>3, <1>4, SizeIs
<1>6. e - 1 = d /\ ~Stops(s[d], k)
  BY <1>1, <1>2, <1>5 DEF Stops
<1>7. s[e] = [parent |-> m, cur |-> Child(m, k)]
  BY <1>1, <1>6 DEF Walks
<1> QED
  BY <1>7, SizeIs

LEMMA Passed ==
  ASSUME NEW lo, NEW hi, Tied(lo, hi), Connected,
         NEW m \in allocated, NEW k \in Keys, Within(lo, hi, m, k), NEW s, Walks(s, k)
  PROVE  Passes(k, s, m)
<1> DEFINE S == {x \in allocated :
                   \A j \in Keys : Within(lo, hi, x, j) =>
                     \A w : Walks(w, j) => Passes(j, w, x)}
<1>1. root \in S \cup {NULL}
  <2>1. root # NULL => root \in allocated
    BY DEF Tied, Types, Pointers
  <2>2. ASSUME NEW j \in Keys, NEW w, Walks(w, j) PROVE Passes(j, w, root)
    <3>1. 0 \in 0 .. Size /\ w[0].cur = root
      BY <2>2, SizeIs DEF Walks
    <3> QED
      BY <3>1 DEF Passes
  <2> QED
    BY <2>1, <2>2
<1>2. ASSUME NEW x \in S, NEW c \in {left[x], right[x]}, c # NULL PROVE c \in S
  <2>1. x \in allocated /\ c \in allocated
    BY <1>2 DEF Tied, Types, Pointers
  <2>2. ASSUME NEW j \in Keys, Within(lo, hi, c, j), NEW w, Walks(w, j)
        PROVE  Passes(j, w, c)
    <3>1. j \in Int /\ val[x] \in Int
      BY <2>1, Values, TreeAssumption DEF Tied
    <3>2. /\ Within(lo, hi, x, j) /\ val[x] # j
          /\ c = Child(x, j) \/ (c = left[x] /\ c = right[x])
      BY <1>2, <2>1, <2>2, <3>1, ChildBounds DEF Child
    <3>3. c = Child(x, j)
      BY <3>2 DEF Child
    <3>4. Passes(j, w, x)
      BY <2>2, <3>2
    <3>5. \E d \in 0 .. Size : w[d] = [parent |-> x, cur |-> Child(x, j)]
      BY <2>1, <2>2, <3>2, <3>4, NextOnTheWay
    <3> QED
      BY <3>3, <3>5 DEF Passes
  <2> QED
    BY <2>1, <2>2
<1>3. S \in SUBSET allocated /\ Closed(S)
  <2> HIDE DEF S
  <2>1. \A x \in S : left[x] \in S \cup {NULL} /\ right[x] \in S \cup {NULL}
    BY <1>2
  <2>2. S \subseteq allocated
    BY DEF S
  <2> QED
    BY <1>1, <2>1, <2>2 DEF Closed
<1>4. m \in S
  <2> HIDE DEF S
  <2> QED
    BY <1>3 DEF Connected
<1> QED
  BY <1>4

\* tfind finds every node by its key, and finds its parent with it.
LEMMA NodeFound ==
  ASSUME NEW lo, NEW hi, Tied(lo, hi), Connected, NEW m \in allocated
  PROVE  TFind(val[m]) = m
<1>1. val[m] \in Keys /\ m # NULL /\ Within(lo, hi, m, val[m])
  BY Values, RoomFits DEF Tied, Room
<1>2. PICK s : Walks(s, val[m])
  BY <1>1, SeekWalks DEF Tied
<1>3. PICK d \in 0 .. Size : s[d].cur = m
  BY <1>1, <1>2, Passed DEF Passes
<1>4. Seek(val[m]) = s[d]
  BY <1>2, <1>3, WalkStays DEF Stops
<1> QED
  BY <1>3, <1>4 DEF TFind

LEMMA ParentFound ==
  ASSUME NEW lo, NEW hi, Tied(lo, hi), Connected, NEW m \in allocated,
         NEW c \in {left[m], right[m]}, c # NULL
  PROVE  Seek(val[c]).parent = m
<1>1. c \in allocated
  BY DEF Tied, Types, Pointers
<1>2. val[c] \in Keys /\ val[c] \in Int /\ val[m] \in Int /\ Within(lo, hi, c, val[c])
  BY <1>1, Values, RoomFits DEF Tied, Room
<1>3. Within(lo, hi, m, val[c]) /\ val[m] # val[c]
  BY <1>2, ChildBounds
<1>4. c = Child(m, val[c])
  BY <1>2, ChildBounds DEF Child
<1>5. PICK s : Walks(s, val[c])
  BY <1>2, SeekWalks DEF Tied
<1>6. PICK d \in 0 .. Size : s[d] = [parent |-> m, cur |-> c]
  BY <1>2, <1>3, <1>4, <1>5, Passed, NextOnTheWay
<1>7. Seek(val[c]) = s[d]
  BY <1>5, <1>6, WalkStays DEF Stops
<1> QED
  BY <1>6, <1>7

LEMMA RootFound ==
  ASSUME Types, root # NULL
  PROVE  Seek(val[root]).parent = NULL
<1>1. val[root] \in Keys
  BY DEF Types, Pointers
<1>2. PICK s : Walks(s, val[root])
  BY <1>1, SeekWalks
<1>3. 0 \in 0 .. Size /\ s[0] = [parent |-> NULL, cur |-> root]
  BY <1>2, SizeIs DEF Walks
<1>4. Seek(val[root]) = s[0]
  BY <1>2, <1>3, WalkStays DEF Stops
<1> QED
  BY <1>3, <1>4
-----------------------------------------------------------------------------
\* The rightmost node of a branch: the last one on the way, and it has no right
\* branch.
LEMMA RightmostIs ==
  ASSUME NEW lo, NEW hi, Tied(lo, hi), NEW c \in allocated
  PROVE  /\ Rightmost(c) \in allocated /\ right[Rightmost(c)] = NULL
         /\ hi[Rightmost(c)] = hi[c]
         /\ \A S : c \in S /\ (\A x \in S \cap allocated :
                                 hi[x] = hi[c] => right[x] \in S \cup {NULL})
                     => Rightmost(c) \in S
<1> DEFINE Body(s) == [d \in 0 .. Size |->
                         IF d = 0 THEN c
                         ELSE IF right[s[d - 1]] = NULL THEN s[d - 1] ELSE right[s[d - 1]]]
           F == [x \in allocated |-> IF right[x] = NULL THEN x ELSE right[x]]
           step == CHOOSE s : s = Body(s)
<1>1. F \in [allocated -> allocated]
  BY DEF Tied, Types, Pointers
<1>2. PICK f : Iterates(f, allocated, c, F, Size)
  <2> HIDE DEF F
  <2>1. \E f : Iterates(f, allocated, c, F, Size)
    BY <1>1, Steps, SizeIs
  <2> QED
    BY <2>1
<1>3. f = Body(f)
  <2>1. \A d \in 0 .. Size : d # 0 => d \in 1 .. Size /\ d - 1 \in 0 .. Size
    BY SizeIs
  <2>2. \A d \in 0 .. Size : f[d] = Body(f)[d]
    BY <1>2, <2>1 DEF Iterates
  <2> QED
    BY <1>2, <2>2 DEF Iterates
<1>4. step = Body(step)
  <2>1. \E s : s = Body(s)
    BY <1>3
  <2> HIDE DEF Body
  <2> QED
    BY <2>1
<1> HIDE DEF step
<1>5. step[0] = c
  <2>1. 0 \in 0 .. Size
    BY SizeIs
  <2>2. step[0] = Body(step)[0]
    BY <1>4
  <2> QED
    BY <2>1, <2>2
<1>6. ASSUME NEW d \in 1 .. Size
      PROVE  step[d] = IF right[step[d - 1]] = NULL THEN step[d - 1] ELSE right[step[d - 1]]
  <2>1. d \in 0 .. Size /\ d # 0
    BY SizeIs
  <2>2. step[d] = Body(step)[d]
    BY <1>4
  <2> QED
    BY <2>1, <2>2
<1>7. Rightmost(c) = step[Size]
  BY DEF Rightmost, step
<1>8. ASSUME NEW S, c \in S,
             \A x \in S \cap allocated : hi[x] = hi[c] => right[x] \in S \cup {NULL}
      PROVE  /\ Rightmost(c) \in S \cap allocated /\ hi[Rightmost(c)] = hi[c]
             /\ right[Rightmost(c)] = NULL
  <2> DEFINE r(d) == step[d]
             Good(d) == /\ r(d) \in S \cap allocated /\ hi[r(d)] = hi[c]
                        /\ right[r(d)] # NULL => Cardinality(Room(lo, hi, r(d))) <= Size - d
             G == {d \in Nat : Good(d)}
  <2>1. 0 \in G
    BY <1>5, <1>8, RoomFits, SizeIs
  <2>2. ASSUME NEW d \in 1 .. Size, d - 1 \in G PROVE d \in G
    <3>1. PICK e \in Nat : e = d - 1 /\ d = e + 1
      BY SizeIs
    <3>2. Good(e) /\ r(d) = IF right[r(e)] = NULL THEN r(e) ELSE right[r(e)]
      BY <1>6, <2>2, <3>1
    <3>3. CASE right[r(e)] = NULL
      BY <3>2, <3>3, SizeIs
    <3>4. CASE right[r(e)] # NULL
      <4>1. r(d) = right[r(e)] /\ r(e) \in allocated
        BY <3>2, <3>4
      <4>2. r(d) \in S \cap allocated
        BY <1>8, <3>2, <3>4, <4>1 DEF Tied, Types, Pointers
      <4>3. hi[r(d)] = hi[c]
        BY <3>2, <3>4, <4>1 DEF Tied, High
      <4>4. Cardinality(Room(lo, hi, r(d))) < Cardinality(Room(lo, hi, r(e)))
        BY <3>4, <4>1, RoomShrinks
      <4>5. /\ Cardinality(Room(lo, hi, r(d))) \in Nat
            /\ Cardinality(Room(lo, hi, r(e))) \in Nat
        BY <4>1, <4>2, RoomFits
      <4>6. Cardinality(Room(lo, hi, r(d))) <= Size - d
        BY <3>1, <3>2, <3>4, <4>4, <4>5, SizeIs
      <4> QED
        BY <4>2, <4>3, <4>6, SizeIs
    <3> QED
      BY <3>3, <3>4
  <2>3. 0 .. Size \subseteq G
    <3> HIDE DEF G
    <3> QED
      BY <2>1, <2>2, Upwards, SizeIs
  <2>4. Good(Size)
    BY <2>3, SizeIs
  <2>5. Cardinality(Room(lo, hi, r(Size))) \in 1 .. Size
    BY <2>4, RoomFits
  <2> QED
    BY <1>7, <2>4, <2>5, SizeIs
<1>9. \A x \in allocated : hi[x] = hi[c] => right[x] \in allocated \cup {NULL}
  BY DEF Tied, Types, Pointers
<1>10. /\ Rightmost(c) \in allocated /\ hi[Rightmost(c)] = hi[c]
       /\ right[Rightmost(c)] = NULL
  BY <1>8, <1>9
<1> QED
  BY <1>8, <1>10
-----------------------------------------------------------------------------
(***************************************************************************)
(* What the invariant says of the tree.                                    *)
(***************************************************************************)
\* The children of the nodes in S.
Below(S) == S \cup (({left[m] : m \in S} \cup {right[m] : m \in S}) \ {NULL})

LEMMA BranchIs ==
  ASSUME Types
  PROVE  \E f : /\ Iterates(f, SUBSET allocated, {root} \ {NULL},
                            [S \in SUBSET allocated |-> Below(S)], Size)
                /\ InTree = f[Size]
<1> DEFINE first == {root} \ {NULL}
           F == [S \in SUBSET allocated |-> Below(S)]
           Body(s) == [d \in 0 .. Size |->
                         IF d = 0 THEN {root} \ {NULL}
                         ELSE s[d - 1] \cup (({left[m] : m \in s[d - 1]}
                                \cup {right[m] : m \in s[d - 1]}) \ {NULL})]
           below == CHOOSE s : s = Body(s)
<1>1. first \in SUBSET allocated
  BY DEF Types, Pointers
<1>2. F \in [SUBSET allocated -> SUBSET allocated]
  <2> SUFFICES ASSUME NEW S \in SUBSET allocated PROVE Below(S) \in SUBSET allocated
    OBVIOUS
  <2>1. \A m \in S : left[m] \in allocated \cup {NULL} /\ right[m] \in allocated \cup {NULL}
    BY DEF Types, Pointers
  <2> QED
    BY <2>1 DEF Below
<1>3. PICK f : Iterates(f, SUBSET allocated, first, F, Size)
  <2> HIDE DEF F, first
  <2>1. \E f : Iterates(f, SUBSET allocated, first, F, Size)
    BY <1>1, <1>2, Steps, SizeIs
  <2> QED
    BY <2>1
<1>4. f = Body(f)
  <2>1. \A d \in 0 .. Size : d # 0 => d \in 1 .. Size /\ d - 1 \in 0 .. Size
    BY SizeIs
  <2>2. ASSUME NEW d \in 0 .. Size, d # 0 PROVE f[d] = Below(f[d - 1])
    <3>1. f[d - 1] \in SUBSET allocated /\ f[d] = F[f[d - 1]]
      BY <1>3, <2>1, <2>2 DEF Iterates
    <3> QED
      BY <3>1
  <2>3. \A d \in 0 .. Size : f[d] = Body(f)[d]
    BY <1>3, <2>2 DEF Iterates, Below
  <2> QED
    BY <1>3, <2>3 DEF Iterates
<1>5. below = Body(below)
  <2>1. \E s : s = Body(s)
    BY <1>4
  <2> HIDE DEF Body
  <2> QED
    BY <2>1
<1>6. InTree = below[Size]
  BY DEF InTree, Branch
<1> HIDE DEF below
<1>7. below[0] = first /\ \A d \in 1 .. Size : below[d] = Below(below[d - 1])
  <2>1. 0 \in 0 .. Size /\ \A d \in 1 .. Size : d \in 0 .. Size /\ d # 0
    BY SizeIs
  <2>2. \A d \in 0 .. Size : below[d] = Body(below)[d]
    BY <1>5
  <2> QED
    BY <2>1, <2>2 DEF Below
<1>8. \A d \in 0 .. Size : below[d] \in SUBSET allocated
  <2> DEFINE G == {d \in Nat : below[d] \in SUBSET allocated}
  <2>1. 0 \in G
    BY <1>1, <1>7
  <2>2. ASSUME NEW d \in 1 .. Size, d - 1 \in G PROVE d \in G
    <3>1. F[below[d - 1]] \in SUBSET allocated
      BY <1>2, <2>2
    <3>2. below[d] = F[below[d - 1]]
      BY <1>7, <2>2
    <3> HIDE DEF F
    <3> QED
      BY <3>1, <3>2, SizeIs
  <2>3. 0 .. Size \subseteq G
    <3> HIDE DEF G
    <3> QED
      BY <2>1, <2>2, Upwards, SizeIs
  <2> QED
    BY <2>3
<1>9. below \in [0 .. Size -> SUBSET allocated]
  BY <1>5, <1>8
<1>10. \A d \in 1 .. Size : below[d] = F[below[d - 1]]
  <2>1. \A d \in 1 .. Size : below[d - 1] \in SUBSET allocated
    BY <1>8, SizeIs
  <2> QED
    BY <1>7, <2>1
<1> QED
  BY <1>6, <1>7, <1>9, <1>10 DEF Iterates

\* Every node is in the tree, because a search for its key gets to it.
LEMMA Owned ==
  ASSUME Inv
  PROVE  NodesOwned
<1>1. PICK lo, hi : Tied(lo, hi)
  BY DEF Inv, Ordered, Tied
<1>2. PICK f : /\ Iterates(f, SUBSET allocated, {root} \ {NULL},
                           [S \in SUBSET allocated |-> Below(S)], Size)
               /\ InTree = f[Size]
  BY BranchIs DEF Inv
<1>3. \A d \in 1 .. Size : f[d] = Below(f[d - 1])
  <2>1. \A d \in 1 .. Size : f[d - 1] \in SUBSET allocated
    BY <1>2, SizeIs DEF Iterates
  <2> QED
    BY <1>2, <2>1 DEF Iterates
<1>4. InTree \subseteq allocated
  BY <1>2, SizeIs DEF Iterates
<1>5. ASSUME NEW n \in allocated PROVE n \in InTree
  <2>1. val[n] \in Keys /\ n # NULL
    BY Values DEF Inv
  <2>2. PICK s : Walks(s, val[n])
    BY <2>1, SeekWalks DEF Inv
  <2> DEFINE G == {d \in Nat : s[d].cur \in f[d] \cup {NULL}}
  <2>3. 0 \in G
    BY <1>2, <2>2 DEF Walks, Iterates
  <2>4. ASSUME NEW d \in 1 .. Size, d - 1 \in G PROVE d \in G
    <3>1. f[d] = Below(f[d - 1]) /\ s[d - 1].cur \in f[d - 1] \cup {NULL}
      BY <1>3, <2>4
    <3>2. s[d] = IF Stops(s[d - 1], val[n]) THEN s[d - 1]
                 ELSE [parent |-> s[d - 1].cur, cur |-> Child(s[d - 1].cur, val[n])]
      BY <2>2 DEF Walks
    <3>3. s[d].cur \in f[d] \cup {NULL}
      BY <3>1, <3>2 DEF Below, Child, Stops
    <3> QED
      BY <3>3, SizeIs
  <2>5. 0 .. Size \subseteq G
    <3> HIDE DEF G
    <3> QED
      BY <2>3, <2>4, Upwards, SizeIs
  <2>6. s[Size].cur \in f[Size] \cup {NULL}
    BY <2>5, SizeIs
  <2>7. s[Size].cur = n
    BY <1>1, <2>2, NodeFound DEF Walks, TFind, Inv
  <2> QED
    BY <1>2, <2>1, <2>6, <2>7
<1> QED
  BY <1>4, <1>5 DEF NodesOwned, Inv, Types

\* tfind finds the keys of the nodes.
KeysFound == {k \in Keys : TFind(k) # NULL} = {val[m] : m \in allocated}

LEMMA KeysAre == Inv => KeysFound
<1> SUFFICES ASSUME Inv PROVE KeysFound
  OBVIOUS
<1>1. PICK lo, hi : Tied(lo, hi)
  BY DEF Inv, Ordered, Tied
<1>2. ASSUME NEW k \in Keys, TFind(k) # NULL PROVE k \in {val[m] : m \in allocated}
  BY <1>1, <1>2, SeekIs DEF Pointers
<1>3. ASSUME NEW m \in allocated PROVE val[m] \in Keys /\ TFind(val[m]) # NULL
  <2>1. val[m] \in Keys /\ m # NULL
    BY Values DEF Inv
  <2> QED
    BY <1>1, <2>1, NodeFound DEF Inv
<1> QED
  BY <1>2, <1>3 DEF KeysFound
-----------------------------------------------------------------------------
(***************************************************************************)
(* tsearch.                                                                *)
(***************************************************************************)
LEMMA InvInit == Init => Inv
<1> SUFFICES ASSUME Init PROVE Inv
  OBVIOUS
<1>1. Types /\ Connected
  BY DEF Init, Types, Connected, Pointers
<1>2. Low([m \in allocated |-> NULL]) /\ High([m \in allocated |-> NULL])
  BY DEF Init, Low, High, Pointers
<1> QED
  BY <1>1, <1>2 DEF Inv, Ordered

\* The new node hangs where the search for its key has ended.
LEMMA SearchStep ==
  ASSUME Inv, NEW k \in Keys, NEW n \in Nodes, TSearch(k, n)
  PROVE  Inv'
<1> DEFINE p == Seek(k).parent
           goesLeft == p # NULL /\ k < val[p]
           goesRight == p # NULL /\ k > val[p]
<1>1. PICK lo, hi : Tied(lo, hi)
  BY DEF Inv, Ordered, Tied
<1>2. TFind(k) = NULL /\ n \notin allocated /\ allocated' = allocated \cup {n} /\ n # NULL
  BY TreeAssumption DEF TSearch
<1>3. /\ p \in Pointers /\ p # n
      /\ p = NULL => root = NULL
      /\ p # NULL => /\ p \in allocated /\ val[p] # k /\ Within(lo, hi, p, k)
                     /\ Child(p, k) = NULL
  BY <1>1, <1>2, SeekIs DEF Pointers
<1>4. k \in Int /\ \A m \in allocated : val[m] \in Int /\ m # NULL /\ m # n /\ m \in Nodes
  BY <1>2, Values, TreeAssumption DEF Inv
<1>5. /\ goesLeft => left[p] = NULL
      /\ goesRight => right[p] = NULL
      /\ p # NULL => goesLeft \/ goesRight
      /\ ~(goesLeft /\ goesRight)
  BY <1>3, <1>4 DEF Child
<1>6. /\ root' = IF p = NULL THEN n ELSE root
      /\ left' = [m \in Nodes |-> IF m = n THEN NULL
                    ELSE IF m = p /\ goesLeft THEN n ELSE left[m]]
      /\ right' = [m \in Nodes |-> IF m = n THEN NULL
                     ELSE IF m = p /\ goesRight THEN n ELSE right[m]]
      /\ val' = [val EXCEPT ![n] = k]
  <2>1. \A m \in Nodes : m # NULL
    BY TreeAssumption
  <2> QED
    BY <2>1 DEF TSearch
<1> HIDE DEF p, goesLeft, goesRight
<1>7. /\ val'[n] = k
      /\ \A m \in allocated : val'[m] = val[m]
  BY <1>4, <1>6 DEF Inv, Types
<1>8. /\ left'[n] = NULL /\ right'[n] = NULL
      /\ \A m \in allocated :
           /\ left'[m] = IF m = p /\ goesLeft THEN n ELSE left[m]
           /\ right'[m] = IF m = p /\ goesRight THEN n ELSE right[m]
  BY <1>4, <1>6
<1>9. \A m \in allocated : left[m] \in Pointers /\ right[m] \in Pointers
  BY DEF Inv, Types
<1>10. Types'
  <2>1. left' \in [Nodes -> allocated' \cup {NULL}] /\ right' \in [Nodes -> allocated' \cup {NULL}]
    BY <1>2, <1>6 DEF Inv, Types, Pointers
  <2>2. root' \in allocated' \cup {NULL} /\ allocated' \subseteq Nodes
    BY <1>2, <1>6 DEF Inv, Types, Pointers
  <2>3. val' \in [Nodes -> Keys \cup {NULL}]
    BY <1>6 DEF Inv, Types
  <2>4. \A m \in allocated' : val'[m] \in Keys
    BY <1>2, <1>7 DEF Inv, Types
  <2>5. \A m \in Nodes \ allocated' : left'[m] = NULL /\ right'[m] = NULL
    <3>1. \A m \in Nodes : m \notin allocated => m # p
      BY <1>3, TreeAssumption DEF Pointers
    <3> QED
      BY <1>2, <1>6, <3>1 DEF Inv, Types
  <2> QED
    BY <2>1, <2>2, <2>3, <2>4, <2>5 DEF Types, Pointers
<1>11. Connected'
  <2> SUFFICES ASSUME NEW S \in SUBSET allocated', Closed(S)' PROVE allocated' \subseteq S
    BY DEF Connected
  <2>1. /\ root' \in S \cup {NULL}
        /\ \A m \in S : left'[m] \in S \cup {NULL} /\ right'[m] \in S \cup {NULL}
    BY DEF Closed
  <2> DEFINE T == S \cap allocated
  <2>2. root \in T \cup {NULL}
    BY <1>2, <1>3, <1>6, <2>1 DEF Inv, Types, Pointers
  <2>3. ASSUME NEW m \in T PROVE left[m] \in T \cup {NULL} /\ right[m] \in T \cup {NULL}
    <3>1. left[m] = left'[m] \/ left[m] = NULL
      BY <1>5, <1>8
    <3>2. right[m] = right'[m] \/ right[m] = NULL
      BY <1>5, <1>8
    <3> QED
      BY <1>9, <2>1, <3>1, <3>2 DEF Pointers
  <2>4. T \in SUBSET allocated /\ Closed(T)
    BY <2>2, <2>3 DEF Closed
  <2>5. allocated \subseteq S
    BY <2>4 DEF Inv, Connected
  <2>6. n \in S
    <3>1. CASE p = NULL
      BY <1>2, <1>6, <2>1, <3>1
    <3>2. CASE p # NULL
      BY <1>2, <1>3, <1>5, <1>8, <2>1, <2>5, <3>2
    <3> QED
      BY <3>1, <3>2
  <2> QED
    BY <1>2, <2>5, <2>6
<1>12. \E new : Low(new)'
  <2> DEFINE own == IF p = NULL THEN NULL ELSE IF goesLeft THEN lo[p] ELSE p
  <2>0. PICK new : new = [m \in allocated' |-> IF m = n THEN own ELSE lo[m]]
    OBVIOUS
  <2>1. \A m \in allocated : /\ lo[m] \in Pointers
                             /\ lo[m] # NULL => val[lo[m]] < val[m]
                             /\ left[m] # NULL => lo[left[m]] = lo[m]
                             /\ right[m] # NULL => lo[right[m]] = m
    BY <1>1 DEF Tied, Low
  <2>2. own \in Pointers /\ (own # NULL => val[own] < k)
    BY <1>3, <1>4, <1>5, <2>1 DEF Within, goesRight
  <2>3. new[n] = own /\ \A m \in allocated : new[m] = lo[m]
    BY <1>2, <1>4, <2>0
  <2>4. new \in [allocated' -> allocated' \cup {NULL}]
    BY <1>2, <2>0, <2>1, <2>2 DEF Pointers
  <2>5. root' # NULL => new[root'] = NULL
    BY <1>1, <1>3, <1>6, <2>3 DEF Tied, Low, Types, Pointers
  <2>6. ASSUME NEW m \in allocated, left'[m] # NULL PROVE new[left'[m]] = new[m]
    <3>1. CASE m = p /\ goesLeft
      BY <1>8, <2>3, <3>1 DEF goesLeft
    <3>2. CASE ~(m = p /\ goesLeft)
      BY <1>8, <1>9, <2>1, <2>3, <2>6, <3>2 DEF Pointers
    <3> QED
      BY <3>1, <3>2
  <2>7. ASSUME NEW m \in allocated, right'[m] # NULL PROVE new[right'[m]] = m
    <3>1. CASE m = p /\ goesRight
      BY <1>5, <1>8, <2>3, <3>1 DEF goesRight
    <3>2. CASE ~(m = p /\ goesRight)
      BY <1>8, <1>9, <2>1, <2>3, <2>7, <3>2 DEF Pointers
    <3> QED
      BY <3>1, <3>2
  <2>8. ASSUME NEW m \in allocated', new[m] # NULL PROVE val'[new[m]] < val'[m]
    BY <1>2, <1>7, <2>1, <2>2, <2>3, <2>8 DEF Pointers
  <2>9. Low(new)'
    BY <1>2, <1>8, <2>4, <2>5, <2>6, <2>7, <2>8 DEF Low, Pointers
  <2> QED
    BY <2>9
<1>13. \E new : High(new)'
  <2> DEFINE own == IF p = NULL THEN NULL ELSE IF goesLeft THEN p ELSE hi[p]
  <2>0. PICK new : new = [m \in allocated' |-> IF m = n THEN own ELSE hi[m]]
    OBVIOUS
  <2>1. \A m \in allocated : /\ hi[m] \in Pointers
                             /\ hi[m] # NULL => val[m] < val[hi[m]]
                             /\ left[m] # NULL => hi[left[m]] = m
                             /\ right[m] # NULL => hi[right[m]] = hi[m]
    BY <1>1 DEF Tied, High
  <2>2. own \in Pointers /\ (own # NULL => k < val[own])
    BY <1>3, <1>4, <2>1 DEF Within, goesLeft
  <2>3. new[n] = own /\ \A m \in allocated : new[m] = hi[m]
    BY <1>2, <1>4, <2>0
  <2>4. new \in [allocated' -> allocated' \cup {NULL}]
    BY <1>2, <2>0, <2>1, <2>2 DEF Pointers
  <2>5. root' # NULL => new[root'] = NULL
    BY <1>1, <1>3, <1>6, <2>3 DEF Tied, High, Types, Pointers
  <2>6. ASSUME NEW m \in allocated, left'[m] # NULL PROVE new[left'[m]] = m
    <3>1. CASE m = p /\ goesLeft
      BY <1>8, <2>3, <3>1 DEF goesLeft
    <3>2. CASE ~(m = p /\ goesLeft)
      BY <1>8, <1>9, <2>1, <2>3, <2>6, <3>2 DEF Pointers
    <3> QED
      BY <3>1, <3>2
  <2>7. ASSUME NEW m \in allocated, right'[m] # NULL PROVE new[right'[m]] = new[m]
    <3>1. CASE m = p /\ goesRight
      BY <1>5, <1>8, <2>3, <3>1 DEF goesRight
    <3>2. CASE ~(m = p /\ goesRight)
      BY <1>8, <1>9, <2>1, <2>3, <2>7, <3>2 DEF Pointers
    <3> QED
      BY <3>1, <3>2
  <2>8. ASSUME NEW m \in allocated', new[m] # NULL PROVE val'[m] < val'[new[m]]
    BY <1>2, <1>7, <2>1, <2>2, <2>3, <2>8 DEF Pointers
  <2>9. High(new)'
    BY <1>2, <1>8, <2>4, <2>5, <2>6, <2>7, <2>8 DEF High, Pointers
  <2> QED
    BY <2>9
<1> QED
  BY <1>10, <1>11, <1>12, <1>13 DEF Inv, Ordered
-----------------------------------------------------------------------------
(***************************************************************************)
(* tdelete: the node n, its only parent p, the branch that is promoted and *)
(* the node that adopts the other one.                                     *)
(***************************************************************************)
LEMMA DeletedNode ==
  ASSUME NEW lo, NEW hi, Tied(lo, hi), Connected, NEW k \in Keys, TFind(k) # NULL,
         NEW n, NEW p, n = TFind(k), p = Seek(k).parent
  PROVE  /\ n \in allocated /\ val[n] = k
         /\ p \in Pointers /\ p # n
         /\ p = NULL => root = n
         /\ p # NULL => root # n /\ (left[p] = n <=> right[p] # n)
         /\ \A m \in allocated : left[m] = n \/ right[m] = n => m = p
         /\ lo[n] # n /\ hi[n] # n /\ lo[n] \in Pointers /\ hi[n] \in Pointers
         /\ p # NULL => hi[p] # n
<1>1. n \in allocated /\ val[n] = k /\ n # NULL /\ k \in Int
  BY SeekIs, Values DEF Pointers, Tied
<1>2. /\ p \in Pointers
      /\ p = NULL => n = root
      /\ p # NULL => val[p] # k /\ n = Child(p, k)
  BY SeekIs
<1>3. p # n
  BY <1>1, <1>2
<1>4. \A m \in allocated : left[m] = n \/ right[m] = n => m = p
  BY <1>1, ParentFound
<1>5. p # NULL => root # n
  BY <1>1, RootFound DEF Tied
<1>6. p # NULL => (left[p] = n \/ right[p] = n) /\ p \in allocated
  BY <1>2 DEF Child, Pointers
<1>7. \A m \in allocated : val[m] \in Int /\ m # NULL
  BY Values DEF Tied
<1>8. \A m \in allocated :
        /\ lo[m] \in Pointers /\ hi[m] \in Pointers
        /\ lo[m] # NULL => val[lo[m]] < val[m]
        /\ hi[m] # NULL => val[m] < val[hi[m]]
        /\ left[m] # NULL => lo[left[m]] = lo[m] /\ hi[left[m]] = m
        /\ right[m] # NULL => lo[right[m]] = m /\ hi[right[m]] = hi[m]
  BY DEF Tied, Low, High
<1>9. lo[n] # n /\ hi[n] # n
  BY <1>1, <1>7, <1>8
<1>10. p # NULL => hi[p] # n /\ ~(left[p] = n /\ right[p] = n)
  BY <1>1, <1>6, <1>7, <1>8, <1>9
<1> QED
  BY <1>1, <1>2, <1>3, <1>4, <1>5, <1>6, <1>8, <1>9, <1>10

LEMMA AdopterIs ==
  ASSUME NEW lo, NEW hi, Tied(lo, hi), NEW n \in allocated, hi[n] # n,
         NEW a, a = Adopter(n)
  PROVE  /\ a = NULL => left[n] = NULL \/ right[n] = NULL
         /\ a # NULL => /\ left[n] # NULL /\ right[n] # NULL
                        /\ a \in allocated /\ a # n /\ right[a] = NULL /\ hi[a] = n
                        /\ \A S : left[n] \in S /\ (\A x \in S \cap allocated :
                                      hi[x] = n => right[x] \in S \cup {NULL})
                                    => a \in S
<1>1. CASE left[n] = NULL \/ right[n] = NULL
  BY <1>1 DEF Adopter
<1>2. CASE left[n] # NULL /\ right[n] # NULL
  <2>1. a = Rightmost(left[n]) /\ left[n] \in allocated /\ hi[left[n]] = n
    BY <1>2 DEF Adopter, Tied, Types, High, Pointers
  <2>2. /\ a \in allocated /\ right[a] = NULL /\ hi[a] = n
        /\ \A S : left[n] \in S /\ (\A x \in S \cap allocated :
                      hi[x] = n => right[x] \in S \cup {NULL})
                    => a \in S
    BY <2>1, RightmostIs
  <2>3. a # NULL
    BY <2>2, Values DEF Tied
  <2> QED
    BY <1>2, <2>2, <2>3
<1> QED
  BY <1>1, <1>2

LEMMA DeleteStep ==
  ASSUME Inv, NEW k \in Keys, TDelete(k)
  PROVE  Inv'
<1>1. PICK lo, hi : Tied(lo, hi)
  BY DEF Inv, Ordered, Tied
<1>2. PICK n, p : n = TFind(k) /\ p = Seek(k).parent
  OBVIOUS
<1>3. PICK q, a : q = Promoted(n) /\ a = Adopter(n)
  OBVIOUS
<1>4. /\ n \in allocated /\ val[n] = k
      /\ p \in Pointers /\ p # n
      /\ p = NULL => root = n
      /\ p # NULL => root # n /\ (left[p] = n <=> right[p] # n)
      /\ \A m \in allocated : left[m] = n \/ right[m] = n => m = p
      /\ lo[n] # n /\ hi[n] # n /\ lo[n] \in Pointers /\ hi[n] \in Pointers
      /\ p # NULL => hi[p] # n
  <2>1. TFind(k) # NULL
    BY DEF TDelete
  <2> QED
    BY <1>1, <1>2, <2>1, DeletedNode DEF Inv
<1>5. /\ a = NULL => left[n] = NULL \/ right[n] = NULL
      /\ a # NULL => /\ left[n] # NULL /\ right[n] # NULL
                     /\ a \in allocated /\ a # n /\ right[a] = NULL /\ hi[a] = n
                     /\ \A S : left[n] \in S /\ (\A x \in S \cap allocated :
                                   hi[x] = n => right[x] \in S \cup {NULL})
                                 => a \in S
  BY <1>1, <1>3, <1>4, AdopterIs
<1>6. q = IF left[n] = NULL THEN right[n] ELSE left[n]
  BY <1>3 DEF Promoted
<1>7. /\ allocated' = allocated \ {n}
      /\ root' = IF p = NULL THEN q ELSE root
      /\ left' = [m \in Nodes |-> IF m = n THEN NULL
                    ELSE IF m = p /\ left[p] = n THEN q ELSE left[m]]
      /\ right' = [m \in Nodes |-> IF m = n THEN NULL
                     ELSE IF m = p /\ left[p] # n THEN q
                     ELSE IF m = a THEN right[n] ELSE right[m]]
      /\ val' = [val EXCEPT ![n] = NULL]
  BY <1>2, <1>3 DEF TDelete
<1>8. \A m \in allocated : /\ val[m] \in Int /\ m # NULL /\ m \in Nodes
                           /\ left[m] \in Pointers /\ right[m] \in Pointers
                           /\ val[m] \in Keys
  BY Values DEF Inv, Types
<1>9. a # p \/ a = NULL
  BY <1>4, <1>5
<1>10. \A m \in allocated' :
         /\ m \in allocated /\ m # n
         /\ val'[m] = val[m]
         /\ left'[m] = IF m = p /\ left[p] = n THEN q ELSE left[m]
         /\ right'[m] = IF m = p /\ left[p] # n THEN q
                        ELSE IF m = a THEN right[n] ELSE right[m]
  BY <1>7, <1>8 DEF Inv, Types
<1>11. /\ q \in Pointers /\ q # n /\ right[n] # n /\ left[n] # n
       /\ \A m \in allocated' : left'[m] # n /\ right'[m] # n
  <2>1. right[n] # n /\ left[n] # n /\ q \in Pointers /\ q # n
    BY <1>4, <1>6, <1>8
  <2> QED
    BY <1>4, <1>8, <1>10, <2>1
<1>12. Types'
  <2>1. allocated' \subseteq Nodes /\ root' \in allocated' \cup {NULL}
    BY <1>4, <1>7, <1>8, <1>11 DEF Inv, Types, Pointers
  <2>2. ASSUME NEW m \in Nodes
        PROVE  left'[m] \in allocated' \cup {NULL} /\ right'[m] \in allocated' \cup {NULL}
    <3>1. left[m] \in Pointers /\ right[m] \in Pointers
      BY DEF Inv, Types
    <3>2. CASE m \in allocated'
      BY <1>7, <1>8, <1>10, <1>11, <3>1, <3>2, <1>4 DEF Pointers
    <3>3. CASE m = n
      BY <1>7, <3>3
    <3>4. CASE m \notin allocated
      <4>1. left[m] = NULL /\ right[m] = NULL /\ m # p /\ m # a /\ m # n
        BY <1>4, <1>5, <3>4, TreeAssumption DEF Inv, Types, Pointers
      <4> QED
        BY <1>7, <4>1
    <3> QED
      BY <1>7, <3>2, <3>3, <3>4
  <2>3. left' \in [Nodes -> allocated' \cup {NULL}] /\ right' \in [Nodes -> allocated' \cup {NULL}]
    BY <1>7, <2>2
  <2>4. val' \in [Nodes -> Keys \cup {NULL}]
    BY <1>7 DEF Inv, Types
  <2>5. \A m \in allocated' : val'[m] \in Keys
    BY <1>8, <1>10
  <2>6. \A m \in Nodes \ allocated' : left'[m] = NULL /\ right'[m] = NULL
    <3>1. \A m \in Nodes \ allocated : /\ left[m] = NULL /\ right[m] = NULL
                                       /\ m # p /\ m # a
      BY <1>4, <1>5, TreeAssumption DEF Inv, Types, Pointers
    <3> QED
      BY <1>7, <3>1
  <2> QED
    BY <2>1, <2>3, <2>4, <2>5, <2>6 DEF Types, Pointers
<1>13. Connected'
  <2> SUFFICES ASSUME NEW S \in SUBSET allocated', Closed(S)' PROVE allocated' \subseteq S
    BY DEF Connected
  <2>1. /\ root' \in S \cup {NULL}
        /\ \A m \in S : left'[m] \in S \cup {NULL} /\ right'[m] \in S \cup {NULL}
        /\ n \notin S /\ S \subseteq allocated
    BY <1>7 DEF Closed
  <2>2. \A m \in S : m # p => left[m] \in S \cup {NULL} /\ right[m] \in S \cup {NULL}
    BY <1>5, <1>8, <1>10, <2>1
  <2>3. p # NULL => p \in S
    <3> SUFFICES ASSUME p # NULL, p \notin S PROVE FALSE
      OBVIOUS
    <3>1. root \in S \cup {NULL}
      BY <1>7, <2>1
    <3>2. Closed(S)
      BY <2>2, <3>1 DEF Closed
    <3>3. allocated \subseteq S
      BY <2>1, <3>2 DEF Inv, Connected
    <3> QED
      BY <1>4, <2>1, <3>3
  <2>4. q \in S \cup {NULL}
    <3>1. CASE p = NULL
      BY <1>7, <2>1, <3>1
    <3>2. CASE p # NULL
      <4>1. q = left'[p] \/ q = right'[p]
        BY <1>10, <2>3, <3>2
      <4> QED
        BY <2>1, <2>3, <3>2, <4>1
    <3> QED
      BY <3>1, <3>2
  <2>5. a # NULL => a \in S
    <3> SUFFICES ASSUME a # NULL PROVE a \in S
      OBVIOUS
    <3>1. left[n] \in S
      BY <1>5, <1>6, <2>4
    <3>2. \A x \in S \cap allocated : hi[x] = n => right[x] \in S \cup {NULL}
      BY <1>4, <1>8, <2>2
    <3> QED
      BY <1>5, <3>1, <3>2
  <2>6. left[n] \in S \cup {NULL}
    BY <1>6, <2>4
  <2>7. right[n] \in S \cup {NULL}
    <3>1. CASE a = NULL
      BY <1>5, <1>6, <2>4, <3>1
    <3>2. CASE a # NULL
      <4>1. a \in S /\ right'[a] = right[n]
        BY <1>9, <1>10, <2>5, <3>2
      <4> QED
        BY <2>1, <4>1
    <3> QED
      BY <3>1, <3>2
  <2> DEFINE T == S \cup {n}
  <2>8. root \in T \cup {NULL}
    BY <1>4, <1>7, <2>1
  <2>9. ASSUME p # NULL
        PROVE  left[p] \in T \cup {NULL} /\ right[p] \in T \cup {NULL}
    <3>1. p \in allocated' /\ p \in S
      BY <2>3, <2>9
    <3>2. CASE left[p] = n
      <4>1. right'[p] = right[p]
        BY <1>9, <1>10, <2>9, <3>1, <3>2
      <4> QED
        BY <2>1, <3>1, <3>2, <4>1
    <3>3. CASE left[p] # n
      <4>1. left'[p] = left[p] /\ right[p] = n
        BY <1>4, <1>10, <2>9, <3>1, <3>3
      <4> QED
        BY <2>1, <3>1, <4>1
    <3> QED
      BY <3>2, <3>3
  <2>10. \A m \in T : left[m] \in T \cup {NULL} /\ right[m] \in T \cup {NULL}
    BY <1>8, <2>1, <2>2, <2>6, <2>7, <2>9
  <2>11. T \in SUBSET allocated /\ Closed(T)
    BY <1>4, <2>1, <2>8, <2>10 DEF Closed
  <2>12. allocated \subseteq T
    <3> HIDE DEF T
    <3> QED
      BY <2>11 DEF Inv, Connected
  <2> QED
    BY <1>7, <2>12
<1>14. \E new : Low(new)'
  <2> DEFINE own == IF a = NULL THEN lo[n] ELSE a
  <2>0. PICK new : new = [m \in allocated' |-> IF lo[m] = n THEN own ELSE lo[m]]
    OBVIOUS
  <2>1. \A m \in allocated : /\ lo[m] \in Pointers
                             /\ lo[m] # NULL => val[lo[m]] < val[m]
                             /\ left[m] # NULL => lo[left[m]] = lo[m]
                             /\ right[m] # NULL => lo[right[m]] = m
    BY <1>1 DEF Tied, Low
  <2>2. own \in allocated' \cup {NULL} /\ (own # NULL => val[own] < val[n])
    <3>1. a # NULL => val[a] < val[n]
      BY <1>1, <1>4, <1>5, <1>8 DEF Tied, High
    <3> QED
      BY <1>4, <1>5, <1>7, <2>1, <3>1 DEF Pointers
  <2>3. \A m \in allocated' : new[m] = IF lo[m] = n THEN own ELSE lo[m]
    BY <2>0
  <2>4. new \in [allocated' -> allocated' \cup {NULL}]
    BY <1>7, <2>0, <2>1, <2>2 DEF Pointers
  <2>5. p = NULL \/ left[p] = n => \A m \in allocated' : m = q => new[m] = lo[n]
    BY <1>4, <1>5, <1>6, <1>8, <1>10, <2>1, <2>3
  <2>6. root' # NULL => new[root'] = NULL
    <3>1. root' # NULL => root' \in allocated'
      BY <1>12 DEF Types, Pointers
    <3>2. root # NULL => lo[root] = NULL
      BY <1>1 DEF Tied, Low
    <3> QED
      BY <1>4, <1>7, <1>8, <2>3, <2>5, <3>1, <3>2
  <2>7. ASSUME NEW m \in allocated', left'[m] # NULL PROVE new[left'[m]] = new[m]
    <3>1. left'[m] \in allocated' /\ m \in allocated
      BY <1>10, <1>12, <2>7 DEF Types, Pointers
    <3>2. CASE m = p /\ left[p] = n
      BY <1>4, <1>8, <1>10, <2>1, <2>3, <2>5, <3>1, <3>2
    <3>3. CASE ~(m = p /\ left[p] = n)
      BY <1>10, <2>1, <2>3, <2>7, <3>1, <3>3
    <3> QED
      BY <3>2, <3>3
  <2>8. ASSUME NEW m \in allocated', right'[m] # NULL PROVE new[right'[m]] = m
    <3>1. right'[m] \in allocated' /\ m \in allocated /\ m # n
      BY <1>10, <1>12, <2>8 DEF Types, Pointers
    <3>2. CASE m = p /\ left[p] # n
      <4>1. right'[m] = q /\ lo[n] = p
        BY <1>4, <1>8, <1>10, <2>1, <3>1, <3>2
      <4> QED
        BY <1>4, <1>5, <1>6, <1>8, <2>1, <2>3, <2>8, <3>1, <3>2, <4>1
    <3>3. CASE m = a /\ ~(m = p /\ left[p] # n)
      <4>1. right'[m] = right[n] /\ lo[right[n]] = n /\ a # NULL
        BY <1>4, <1>5, <1>8, <1>10, <2>1, <3>1, <3>3
      <4> QED
        BY <2>3, <3>1, <3>3, <4>1
    <3>4. CASE m # a /\ ~(m = p /\ left[p] # n)
      BY <1>10, <2>1, <2>3, <2>8, <3>1, <3>4
    <3> QED
      BY <3>2, <3>3, <3>4
  <2>9. ASSUME NEW m \in allocated', new[m] # NULL PROVE val'[new[m]] < val'[m]
    <3>1. m \in allocated /\ new[m] \in allocated' /\ new[m] \in allocated
      BY <1>10, <2>4, <2>9
    <3>2. CASE lo[m] = n
      <4>1. val[own] < val[n] /\ val[n] < val[m] /\ new[m] = own
        BY <1>4, <1>8, <2>1, <2>2, <2>3, <2>9, <3>1, <3>2
      <4> HIDE DEF own
      <4> QED
        BY <1>4, <1>8, <1>10, <3>1, <4>1
    <3>3. CASE lo[m] # n
      BY <1>10, <2>1, <2>3, <2>9, <3>1, <3>3
    <3> QED
      BY <3>2, <3>3
  <2>10. Low(new)'
    BY <2>4, <2>6, <2>7, <2>8, <2>9 DEF Low, Pointers
  <2> QED
    BY <2>10
<1>15. \E new : High(new)'
  <2>0. PICK new : new = [m \in allocated' |-> IF hi[m] = n THEN hi[n] ELSE hi[m]]
    OBVIOUS
  <2>1. \A m \in allocated : /\ hi[m] \in Pointers
                             /\ hi[m] # NULL => val[m] < val[hi[m]]
                             /\ left[m] # NULL => hi[left[m]] = m
                             /\ right[m] # NULL => hi[right[m]] = hi[m]
    BY <1>1 DEF Tied, High
  <2>2. hi[n] \in allocated' \cup {NULL} /\ (hi[n] # NULL => val[n] < val[hi[n]])
    BY <1>4, <1>7, <2>1 DEF Pointers
  <2>3. \A m \in allocated' : new[m] = IF hi[m] = n THEN hi[n] ELSE hi[m]
    BY <2>0
  <2>4. new \in [allocated' -> allocated' \cup {NULL}]
    BY <1>7, <2>0, <2>1, <2>2 DEF Pointers
  <2>5. \A m \in allocated' : m = q => new[m] = hi[n]
    BY <1>4, <1>6, <1>8, <1>10, <2>1, <2>3
  <2>6. root' # NULL => new[root'] = NULL
    <3>1. root' # NULL => root' \in allocated'
      BY <1>12 DEF Types, Pointers
    <3>2. root # NULL => hi[root] = NULL
      BY <1>1 DEF Tied, High
    <3> QED
      BY <1>4, <1>7, <1>8, <2>3, <2>5, <3>1, <3>2
  <2>7. ASSUME NEW m \in allocated', left'[m] # NULL PROVE new[left'[m]] = m
    <3>1. left'[m] \in allocated' /\ m \in allocated /\ m # n
      BY <1>10, <1>12, <2>7 DEF Types, Pointers
    <3>2. CASE m = p /\ left[p] = n
      BY <1>4, <1>8, <1>10, <2>1, <2>3, <2>5, <3>1, <3>2
    <3>3. CASE ~(m = p /\ left[p] = n)
      BY <1>10, <2>1, <2>3, <2>7, <3>1, <3>3
    <3> QED
      BY <3>2, <3>3
  <2>8. ASSUME NEW m \in allocated', right'[m] # NULL PROVE new[right'[m]] = new[m]
    <3>1. right'[m] \in allocated' /\ m \in allocated /\ m # n
      BY <1>10, <1>12, <2>8 DEF Types, Pointers
    <3>2. CASE m = p /\ left[p] # n
      <4>1. right'[m] = q /\ hi[n] = hi[p]
        BY <1>4, <1>8, <1>10, <2>1, <3>1, <3>2
      <4> QED
        BY <1>4, <1>8, <2>3, <2>5, <3>1, <3>2, <4>1
    <3>3. CASE m = a /\ ~(m = p /\ left[p] # n)
      <4>1. right'[m] = right[n] /\ hi[right[n]] = hi[n] /\ hi[a] = n
        BY <1>4, <1>5, <1>8, <1>10, <2>1, <3>1, <3>3
      <4> QED
        BY <1>4, <2>3, <3>1, <3>3, <4>1
    <3>4. CASE m # a /\ ~(m = p /\ left[p] # n)
      BY <1>10, <2>1, <2>3, <2>8, <3>1, <3>4
    <3> QED
      BY <3>2, <3>3, <3>4
  <2>9. ASSUME NEW m \in allocated', new[m] # NULL PROVE val'[m] < val'[new[m]]
    <3>1. m \in allocated /\ new[m] \in allocated' /\ new[m] \in allocated
      BY <1>10, <2>4, <2>9
    <3>2. CASE hi[m] = n
      <4>1. val[m] < val[n] /\ val[n] < val[hi[n]] /\ new[m] = hi[n]
        BY <1>4, <1>8, <2>1, <2>2, <2>3, <2>9, <3>1, <3>2
      <4> QED
        BY <1>4, <1>8, <1>10, <3>1, <4>1
    <3>3. CASE hi[m] # n
      BY <1>10, <2>1, <2>3, <2>9, <3>1, <3>3
    <3> QED
      BY <3>2, <3>3
  <2>10. High(new)'
    BY <2>4, <2>6, <2>7, <2>8, <2>9 DEF High, Pointers
  <2> QED
    BY <2>10
<1> QED
  BY <1>12, <1>13, <1>14, <1>15 DEF Inv, Ordered
-----------------------------------------------------------------------------
LEMMA InvStep == Inv /\ [Next]_vars => Inv'
<1> SUFFICES ASSUME Inv, [Next]_vars PROVE Inv'
  OBVIOUS
<1>1. CASE UNCHANGED vars
  BY <1>1 DEF vars, Inv, Types, Connected, Closed, Ordered, Low, High, Pointers
<1> QED
  BY <1>1, SearchStep, DeleteStep DEF Next

LEMMA InvHolds == Spec => []Inv
BY InvInit, InvStep, PTL DEF Spec

\* The memory that is allocated is the tree, for any keys and any memory: a node
\* that is deleted with both branches loses neither of them, and a search never
\* gets to a node that was freed.
THEOREM NodesOwnedHolds == Spec => []NodesOwned
BY InvHolds, Owned, PTL

\* The tree is the set of its keys: tsearch adds the key that it was given and
\* tdelete takes its own away, and neither changes what tfind says of any other,
\* however the nodes are moved.
THEOREM ImplementsSet == Spec => Implements
<1>1. Init => Set!Init
  <2> SUFFICES ASSUME Init PROVE Set!Init
    OBVIOUS
  <2>1. {k \in Keys : TFind(k) # NULL} = {}
    BY InvInit, KeysAre DEF Init, KeysFound
  <2> QED
    BY <2>1 DEF Set!Init
<1>2. Inv' => KeysFound'
  BY KeysAre, PTL
<1>3. Inv /\ Inv' /\ [Next]_vars => [Set!Next]_({k \in Keys : TFind(k) # NULL})
  <2> SUFFICES ASSUME Inv, Inv', [Next]_vars
               PROVE  [Set!Next]_({k \in Keys : TFind(k) # NULL})
    OBVIOUS
  <2> DEFINE keys == {k \in Keys : TFind(k) # NULL}
  <2>1. keys = {val[m] : m \in allocated} /\ keys' = {val'[m] : m \in allocated'}
    BY <1>2, KeysAre DEF KeysFound
  <2>2. ASSUME NEW k \in Keys, NEW n \in Nodes, TSearch(k, n) PROVE Set!Add(k)
    <3>1. k \notin keys
      BY <2>2 DEF TSearch
    <3>2. /\ allocated' = allocated \cup {n} /\ n \notin allocated
          /\ val'[n] = k /\ \A m \in allocated : val'[m] = val[m]
      BY <2>2 DEF TSearch, Inv, Types
    <3>3. keys' = keys \cup {k}
      <4> HIDE DEF keys
      <4> QED
        BY <2>1, <3>2
    <3> QED
      BY <3>1, <3>3 DEF Set!Add
  <2>3. ASSUME NEW k \in Keys, TDelete(k) PROVE Set!Remove(k)
    <3>1. k \in keys
      BY <2>3 DEF TDelete
    <3>2. PICK n : n = TFind(k) /\ allocated' = allocated \ {n}
                   /\ val' = [val EXCEPT ![n] = NULL]
      BY <2>3 DEF TDelete
    <3>3. PICK lo, hi : Tied(lo, hi)
      BY DEF Inv, Ordered, Tied
    <3>4. n \in allocated /\ val[n] = k
      BY <2>3, <3>2, <3>3, SeekIs DEF TDelete, Pointers
    <3>5. \A m \in allocated : m # n => val[m] # k /\ val'[m] = val[m]
      BY <3>2, <3>3, NodeFound DEF Inv, Types
    <3>6. keys' = keys \ {k}
      <4> HIDE DEF keys
      <4> QED
        BY <2>1, <3>2, <3>4, <3>5
    <3> QED
      BY <3>1, <3>6 DEF Set!Remove
  <2>4. CASE UNCHANGED vars
    <3>1. keys' = keys
      BY <2>1, <2>4 DEF vars
    <3> QED
      BY <3>1
  <2> QED
    BY <2>2, <2>3, <2>4 DEF Next, Set!Next
<1> QED
  BY <1>1, <1>3, InvHolds, PTL DEF Spec, Implements, Set!Spec
-----------------------------------------------------------------------------
(***************************************************************************)
(* twalk.  The visits below a node are those of its branches with its own  *)
(* around them.  Of such a sequence it is shown where its keys lie, that   *)
(* they rise, that with the key of a node it has those of its children,    *)
(* and how the depth runs from its first visit to its last.                *)
(***************************************************************************)
Orders == {"leaf", "preorder", "postorder", "endorder"}
Visits == [key : Keys \cup {NULL}, order : Orders, depth : Int]
Mid == {"leaf", "postorder"}

Rising(s) == \A i, j \in Places(s, Mid) : i < j => s[i].key < s[j].key

\* The depth at which a visit leaves the walk, and the one that it reports.
DepthAfter(order, x) ==
  IF order = "preorder" THEN x + 1 ELSE IF order = "endorder" THEN x - 1 ELSE x
DepthShown(order, x) == IF order \in {"preorder", "leaf"} THEN x ELSE x - 1

RunsBy(o, s, a, b) ==
  /\ o \in [0 .. Len(s) -> Int] /\ o[0] = a /\ o[Len(s)] = b
  /\ \A i \in 1 .. Len(s) : /\ o[i] = DepthAfter(s[i].order, o[i - 1])
                            /\ s[i].depth = DepthShown(s[i].order, o[i - 1])

Runs(s, a, b) == \E o : RunsBy(o, s, a, b)

\* A sequence behind another.
Joined(w, s, t) ==
  /\ w \in Seq(Visits) /\ Len(w) = Len(s) + Len(t)
  /\ \A i \in 1 .. Len(s) : w[i] = s[i]
  /\ \A i \in 1 .. Len(t) : w[Len(s) + i] = t[i]

LEMMA JoinedIs ==
  ASSUME NEW s \in Seq(Visits), NEW t \in Seq(Visits)
  PROVE  Joined(s \o t, s, t)
<1>1. /\ s \o t \in Seq(Visits) /\ Len(s \o t) = Len(s) + Len(t)
      /\ \A i \in 1 .. Len(s) + Len(t) :
           (s \o t)[i] = IF i <= Len(s) THEN s[i] ELSE t[i - Len(s)]
  BY ConcatProperties
<1>2. Len(s) \in Nat /\ Len(t) \in Nat
  OBVIOUS
<1>3. ASSUME NEW i \in 1 .. Len(s) PROVE (s \o t)[i] = s[i]
  BY <1>1, <1>2
<1>4. ASSUME NEW i \in 1 .. Len(t) PROVE (s \o t)[Len(s) + i] = t[i]
  <2>1. /\ Len(s) + i \in 1 .. Len(s) + Len(t) /\ ~(Len(s) + i <= Len(s))
        /\ Len(s) + i - Len(s) = i
    BY <1>2
  <2> QED
    BY <1>1, <2>1
<1> QED
  BY <1>1, <1>3, <1>4 DEF Joined

LEMMA PlacesJoined ==
  ASSUME NEW s \in Seq(Visits), NEW t \in Seq(Visits), NEW w, Joined(w, s, t), NEW orders
  PROVE  /\ \A i \in Places(s, orders) : i \in Places(w, orders) /\ w[i] = s[i]
         /\ \A i \in Places(t, orders) :
              Len(s) + i \in Places(w, orders) /\ w[Len(s) + i] = t[i]
         /\ \A i \in Places(w, orders) : \/ i \in Places(s, orders)
                                         \/ i - Len(s) \in Places(t, orders) /\ i > Len(s)
<1>1. Len(s) \in Nat /\ Len(t) \in Nat
  OBVIOUS
<1>2. ASSUME NEW i \in Places(s, orders) PROVE i \in Places(w, orders) /\ w[i] = s[i]
  BY <1>1 DEF Places, Joined
<1>3. ASSUME NEW i \in Places(t, orders)
      PROVE  Len(s) + i \in Places(w, orders) /\ w[Len(s) + i] = t[i]
  BY <1>1 DEF Places, Joined
<1>4. ASSUME NEW i \in Places(w, orders), i \notin Places(s, orders)
      PROVE  i - Len(s) \in Places(t, orders) /\ i > Len(s)
  <2>1. i \in 1 .. Len(s) + Len(t) /\ w[i].order \in orders
    BY DEF Places, Joined
  <2>2. i > Len(s)
    BY <1>1, <1>4, <2>1 DEF Places, Joined
  <2>3. i - Len(s) \in 1 .. Len(t) /\ Len(s) + (i - Len(s)) = i
    BY <1>1, <2>1, <2>2
  <2> QED
    BY <2>1, <2>2, <2>3 DEF Places, Joined
<1> QED
  BY <1>2, <1>3, <1>4

LEMMA KeysJoined ==
  ASSUME NEW s \in Seq(Visits), NEW t \in Seq(Visits), NEW w, Joined(w, s, t), NEW orders
  PROVE  KeysAt(w, orders) = KeysAt(s, orders) \cup KeysAt(t, orders)
<1>1. ASSUME NEW i \in Places(s, orders) PROVE s[i].key \in KeysAt(w, orders)
  BY PlacesJoined DEF KeysAt
<1>2. ASSUME NEW i \in Places(t, orders) PROVE t[i].key \in KeysAt(w, orders)
  BY PlacesJoined DEF KeysAt
<1>3. ASSUME NEW i \in Places(w, orders)
      PROVE  w[i].key \in KeysAt(s, orders) \cup KeysAt(t, orders)
  <2>1. CASE i \in Places(s, orders)
    BY <2>1, PlacesJoined DEF KeysAt
  <2>2. CASE i - Len(s) \in Places(t, orders) /\ i > Len(s)
    <3>1. w[Len(s) + (i - Len(s))] = t[i - Len(s)]
      BY <2>2, PlacesJoined
    <3>2. Len(s) + (i - Len(s)) = i
      BY DEF Places
    <3> QED
      BY <2>2, <3>1, <3>2 DEF KeysAt
  <2> QED
    BY <2>1, <2>2, PlacesJoined
<1> QED
  BY <1>1, <1>2, <1>3 DEF KeysAt

LEMMA RisingJoined ==
  ASSUME NEW s \in Seq(Visits), NEW t \in Seq(Visits), NEW w, Joined(w, s, t),
         Rising(s), Rising(t),
         \A x \in KeysAt(s, Mid), y \in KeysAt(t, Mid) : x < y
  PROVE  Rising(w)
<1> SUFFICES ASSUME NEW i \in Places(w, Mid), NEW j \in Places(w, Mid), i < j
             PROVE  w[i].key < w[j].key
  BY DEF Rising
<1>1. i \in Nat /\ j \in Nat /\ Len(s) \in Nat
  BY DEF Places
<1>2. CASE i \in Places(s, Mid) /\ j \in Places(s, Mid)
  BY <1>2, PlacesJoined DEF Rising
<1>3. CASE i \in Places(s, Mid) /\ j \notin Places(s, Mid)
  <2>1. j - Len(s) \in Places(t, Mid) /\ w[Len(s) + (j - Len(s))] = t[j - Len(s)]
    BY <1>3, PlacesJoined
  <2>2. Len(s) + (j - Len(s)) = j
    BY <1>1
  <2>3. w[i].key \in KeysAt(s, Mid) /\ w[j].key \in KeysAt(t, Mid)
    BY <1>3, <2>1, <2>2, PlacesJoined DEF KeysAt
  <2> QED
    BY <2>3
<1>4. CASE i \notin Places(s, Mid)
  <2>1. i - Len(s) \in Places(t, Mid) /\ i > Len(s)
    BY <1>4, PlacesJoined
  <2>2. j \notin Places(s, Mid)
    BY <1>1, <2>1 DEF Places
  <2>3. j - Len(s) \in Places(t, Mid)
    BY <2>2, PlacesJoined
  <2>4. w[Len(s) + (i - Len(s))] = t[i - Len(s)] /\ w[Len(s) + (j - Len(s))] = t[j - Len(s)]
    BY <2>1, <2>3, PlacesJoined
  <2>5. /\ Len(s) + (i - Len(s)) = i /\ Len(s) + (j - Len(s)) = j
        /\ i - Len(s) < j - Len(s)
    BY <1>1
  <2>6. t[i - Len(s)].key < t[j - Len(s)].key
    BY <2>1, <2>3, <2>5 DEF Rising
  <2> QED
    BY <2>4, <2>5, <2>6
<1> QED
  BY <1>2, <1>3, <1>4

LEMMA RunsJoined ==
  ASSUME NEW s \in Seq(Visits), NEW t \in Seq(Visits), NEW w, Joined(w, s, t),
         NEW a, NEW b, NEW c, Runs(s, a, b), Runs(t, b, c)
  PROVE  Runs(w, a, c)
<1>1. PICK o : RunsBy(o, s, a, b)
  BY DEF Runs
<1>2. PICK q : RunsBy(q, t, b, c)
  BY DEF Runs
<1> DEFINE l == Len(s)
           k == Len(t)
           r == [i \in 0 .. l + k |-> IF i <= l THEN o[i] ELSE q[i - l]]
<1>3. l \in Nat /\ k \in Nat /\ Len(w) = l + k
  BY DEF Joined
<1>4. /\ o \in [0 .. l -> Int] /\ o[0] = a /\ o[l] = b
      /\ q \in [0 .. k -> Int] /\ q[0] = b /\ q[k] = c
  BY <1>1, <1>2 DEF RunsBy
<1>5. /\ \A i \in 1 .. l : /\ o[i] = DepthAfter(s[i].order, o[i - 1])
                           /\ s[i].depth = DepthShown(s[i].order, o[i - 1])
      /\ \A i \in 1 .. k : /\ q[i] = DepthAfter(t[i].order, q[i - 1])
                           /\ t[i].depth = DepthShown(t[i].order, q[i - 1])
  BY <1>1, <1>2 DEF RunsBy
<1>6. /\ \A i \in 1 .. l : w[i] = s[i]
      /\ \A i \in 1 .. k : w[l + i] = t[i]
  BY DEF Joined
<1> HIDE DEF l, k
<1>7. r \in [0 .. l + k -> Int]
  <2> SUFFICES ASSUME NEW i \in 0 .. l + k PROVE (IF i <= l THEN o[i] ELSE q[i - l]) \in Int
    OBVIOUS
  <2>1. i <= l => i \in 0 .. l
    BY <1>3
  <2>2. ~(i <= l) => i - l \in 0 .. k
    BY <1>3
  <2> QED
    BY <1>4, <2>1, <2>2
<1>8. \A i \in 0 .. l : r[i] = o[i]
  BY <1>3
<1>9. \A i \in 0 .. k : r[l + i] = q[i]
  <2> TAKE i \in 0 .. k
  <2>1. l + i \in 0 .. l + k /\ l + i - l = i /\ (l + i <= l => i = 0)
    BY <1>3
  <2>2. i = 0 => l + i = l
    BY <1>3
  <2>3. PICK j \in 0 .. l + k : j = l + i
    BY <2>1
  <2>4. r[j] = IF j <= l THEN o[j] ELSE q[j - l]
    OBVIOUS
  <2> HIDE DEF r
  <2>5. CASE i = 0
    BY <1>3, <1>4, <2>2, <2>3, <2>4, <2>5
  <2>6. CASE i # 0
    <3>1. ~(j <= l) /\ j - l = i
      BY <1>3, <2>1, <2>3, <2>6
    <3> QED
      BY <2>3, <2>4, <3>1
  <2> QED
    BY <2>5, <2>6
<1> HIDE DEF r
<1>10. r[0] = a /\ r[l + k] = c
  <2>1. 0 \in 0 .. l /\ k \in 0 .. k
    BY <1>3
  <2> QED
    BY <1>4, <1>8, <1>9, <2>1
<1>11. ASSUME NEW i \in 1 .. l + k
       PROVE  /\ r[i] = DepthAfter(w[i].order, r[i - 1])
              /\ w[i].depth = DepthShown(w[i].order, r[i - 1])
  <2>1. CASE i <= l
    <3>1. i \in 1 .. l /\ i \in 0 .. l /\ i - 1 \in 0 .. l
      BY <1>3, <2>1
    <3> QED
      BY <1>5, <1>6, <1>8, <3>1
  <2>2. CASE ~(i <= l)
    <3>1. PICK j \in 1 .. k : j = i - l
      BY <1>3, <2>2
    <3>2. /\ j \in 0 .. k /\ j - 1 \in 0 .. k
          /\ l + j = i /\ l + (j - 1) = i - 1
      BY <1>3, <3>1
    <3>3. r[i] = q[j] /\ r[i - 1] = q[j - 1] /\ w[i] = t[j]
      BY <1>6, <1>9, <3>2
    <3> QED
      BY <1>5, <3>3
  <2> QED
    BY <2>1, <2>2
<1>12. RunsBy(r, w, a, c)
  BY <1>3, <1>7, <1>10, <1>11 DEF RunsBy
<1> QED
  BY <1>12 DEF Runs

\* One visit by itself.
IsVisit(s, key, order, a, b) ==
  /\ s \in Seq(Visits) /\ Rising(s) /\ Runs(s, a, b)
  /\ \A orders : KeysAt(s, orders) = IF order \in orders THEN {key} ELSE {}

LEMMA OneVisit ==
  ASSUME NEW v \in Visits, NEW a \in Int, v.depth = DepthShown(v.order, a)
  PROVE  IsVisit(<<v>>, v.key, v.order, a, DepthAfter(v.order, a))
<1> DEFINE s == <<v>>
<1>1. s \in Seq(Visits) /\ Len(s) = 1 /\ s[1] = v
  OBVIOUS
<1> HIDE DEF s
<1>2. \A i \in 1 .. Len(s) : i = 1
  BY <1>1
<1>3. \A orders : Places(s, orders) = IF v.order \in orders THEN {1} ELSE {}
  BY <1>1, <1>2 DEF Places
<1>4. \A orders : KeysAt(s, orders) = IF v.order \in orders THEN {v.key} ELSE {}
  BY <1>1, <1>3 DEF KeysAt
<1>5. Rising(s)
  BY <1>1, <1>2 DEF Rising, Places
<1>6. Runs(s, a, DepthAfter(v.order, a))
  <2> DEFINE o == [i \in 0 .. 1 |-> IF i = 0 THEN a ELSE DepthAfter(v.order, a)]
  <2>1. DepthAfter(v.order, a) \in Int
    BY DEF DepthAfter
  <2>2. o \in [0 .. 1 -> Int] /\ o[0] = a /\ o[1] = DepthAfter(v.order, a)
    BY <2>1
  <2> HIDE DEF o
  <2>3. ASSUME NEW i \in 1 .. Len(s) PROVE i = 1 /\ i - 1 = 0
    BY <1>2
  <2>4. RunsBy(o, s, a, DepthAfter(v.order, a))
    BY <1>1, <2>2, <2>3 DEF RunsBy
  <2> QED
    BY <2>4 DEF Runs
<1> QED
  BY <1>1, <1>4, <1>5, <1>6 DEF s, IsVisit

LEMMA NoVisit ==
  /\ <<>> \in Seq(Visits) /\ Rising(<<>>)
  /\ \A orders : KeysAt(<<>>, orders) = {}
  /\ \A a \in Int : Runs(<<>>, a, a)
<1> DEFINE s == <<>>
<1>1. s \in Seq(Visits) /\ Len(s) = 0 /\ \A i \in 1 .. Len(s) : FALSE
  OBVIOUS
<1> HIDE DEF s
<1>2. Rising(s) /\ \A orders : KeysAt(s, orders) = {}
  BY <1>1 DEF Rising, KeysAt, Places
<1>3. ASSUME NEW a \in Int PROVE Runs(s, a, a)
  <2> DEFINE o == [i \in 0 .. 0 |-> a]
  <2>1. o \in [0 .. 0 -> Int] /\ o[0] = a
    OBVIOUS
  <2> HIDE DEF o
  <2>2. RunsBy(o, s, a, a)
    BY <1>1, <2>1 DEF RunsBy
  <2> QED
    BY <2>2 DEF Runs
<1> QED
  BY <1>1, <1>2, <1>3 DEF s

\* The key of a node brings those of its children.
BringsChildren(s, x) ==
  val[x] \in KeysAt(s, Mid) =>
    /\ left[x] # NULL => val[left[x]] \in KeysAt(s, Mid)
    /\ right[x] # NULL => val[right[x]] \in KeysAt(s, Mid)

Triples(s) ==
  \A order \in {"preorder", "endorder"} : KeysAt(s, {order}) = KeysAt(s, {"postorder"})

\* The visits of the tree below m, in which the keys are those of nodes that are
\* within the bounds of m.
WalkOf(lo, hi, s, m, d) ==
  /\ s \in Seq(Visits) /\ Rising(s) /\ Runs(s, d, d) /\ Triples(s)
  /\ KeysAt(s, Mid) \subseteq {val[x] : x \in Room(lo, hi, m)}
  /\ val[m] \in KeysAt(s, Mid)
  /\ \A x \in allocated : BringsChildren(s, x)

BranchWalk(lo, hi, s, m, d) ==
  IF m = NULL THEN s = <<>> ELSE m \in allocated /\ WalkOf(lo, hi, s, m, d)

\* A key has one node.
Unique == \A x, y \in allocated : val[x] = val[y] => x = y

LEMMA UniqueHolds ==
  ASSUME NEW lo, NEW hi, Tied(lo, hi), Connected
  PROVE  Unique
<1> SUFFICES ASSUME NEW x \in allocated, NEW y \in allocated, val[x] = val[y] PROVE x = y
  BY DEF Unique
<1>1. TFind(val[x]) = x /\ TFind(val[y]) = y
  BY NodeFound
<1> QED
  BY <1>1

LEMMA VisitIs ==
  ASSUME Types, NEW m \in allocated, NEW order \in Orders, NEW d \in Int
  PROVE  /\ Visit(m, order, d) \in Visits
         /\ Visit(m, order, d).key = val[m] /\ Visit(m, order, d).order = order
         /\ Visit(m, order, d).depth = d
BY Values DEF Visit, Visits

LEMMA VisitAt ==
  ASSUME Types, NEW m \in allocated, NEW order \in Orders, NEW a \in Int, NEW b,
         b = DepthAfter(order, a), NEW d \in Int, d = DepthShown(order, a)
  PROVE  \E p : p = <<Visit(m, order, d)>> /\ IsVisit(p, val[m], order, a, b)
<1>1. PICK v : v = Visit(m, order, d)
  OBVIOUS
<1>2. v \in Visits /\ v.key = val[m] /\ v.order = order /\ v.depth = d
  BY <1>1, VisitIs
<1>3. IsVisit(<<v>>, v.key, v.order, a, DepthAfter(v.order, a))
  BY <1>2, OneVisit
<1> QED
  BY <1>1, <1>2, <1>3

LEMMA LeafWalk ==
  ASSUME NEW lo, NEW hi, Tied(lo, hi), Unique, NEW m \in allocated, IsLeaf(m), NEW d \in Int
  PROVE  WalkOf(lo, hi, <<Visit(m, "leaf", d)>>, m, d)
<1>1. PICK p : p = <<Visit(m, "leaf", d)>> /\ IsVisit(p, val[m], "leaf", d, d)
  <2>1. "leaf" \in Orders /\ d = DepthAfter("leaf", d) /\ d = DepthShown("leaf", d)
    BY DEF Orders, DepthAfter, DepthShown
  <2> QED
    BY <2>1, VisitAt DEF Tied
<1>2. KeysAt(p, Mid) = {val[m]}
  BY <1>1 DEF Mid, IsVisit
<1>3. Triples(p)
  BY <1>1 DEF Triples, IsVisit
<1>4. m \in Room(lo, hi, m)
  BY RoomFits
<1>5. \A x \in allocated : BringsChildren(p, x)
  BY <1>2 DEF BringsChildren, Unique, IsLeaf
<1>6. WalkOf(lo, hi, p, m, d)
  BY <1>1, <1>2, <1>3, <1>4, <1>5 DEF WalkOf, IsVisit
<1> QED
  BY <1>1, <1>6

LEMMA BranchWalkIs ==
  ASSUME NEW lo, NEW hi, NEW m, NEW d \in Int, NEW s, BranchWalk(lo, hi, s, m, d)
  PROVE  s \in Seq(Visits) /\ Rising(s) /\ Runs(s, d, d) /\ Triples(s)
<1>1. CASE m = NULL
  <2>1. s = <<>>
    BY <1>1 DEF BranchWalk
  <2>2. Triples(s)
    BY <2>1, NoVisit DEF Triples
  <2> QED
    BY <2>1, <2>2, NoVisit
<1>2. CASE m # NULL
  BY <1>2 DEF BranchWalk, WalkOf
<1> QED
  BY <1>1, <1>2

\* The visits of a node with branches, from those of the branches.
LEMMA NodeWalk ==
  ASSUME NEW lo, NEW hi, Tied(lo, hi), Unique, NEW m \in allocated, NEW d \in Int,
         NEW s, BranchWalk(lo, hi, s, left[m], d + 1),
         NEW t, BranchWalk(lo, hi, t, right[m], d + 1)
  PROVE  WalkOf(lo, hi, <<Visit(m, "preorder", d)>> \o s \o <<Visit(m, "postorder", d)>>
                          \o t \o <<Visit(m, "endorder", d)>>, m, d)
<1>0. Types
  BY DEF Tied
<1>1. /\ d + 1 \in Int /\ {"preorder", "postorder", "endorder"} \subseteq Orders
      /\ d + 1 = DepthAfter("preorder", d) /\ d = DepthShown("preorder", d)
      /\ d + 1 = DepthAfter("postorder", d + 1) /\ d = DepthShown("postorder", d + 1)
      /\ d = DepthAfter("endorder", d + 1) /\ d = DepthShown("endorder", d + 1)
  BY DEF Orders, DepthAfter, DepthShown
<1>2. /\ s \in Seq(Visits) /\ Rising(s) /\ Runs(s, d + 1, d + 1) /\ Triples(s)
      /\ t \in Seq(Visits) /\ Rising(t) /\ Runs(t, d + 1, d + 1) /\ Triples(t)
  BY <1>1, BranchWalkIs
<1>3. PICK p : p = <<Visit(m, "preorder", d)>> /\ IsVisit(p, val[m], "preorder", d, d + 1)
  BY <1>0, <1>1, VisitAt
<1>4. PICK q : q = <<Visit(m, "postorder", d)>>
               /\ IsVisit(q, val[m], "postorder", d + 1, d + 1)
  BY <1>0, <1>1, VisitAt
<1>5. PICK e : e = <<Visit(m, "endorder", d)>> /\ IsVisit(e, val[m], "endorder", d + 1, d)
  BY <1>0, <1>1, VisitAt
<1>pqe. /\ p \in Seq(Visits) /\ Rising(p) /\ Runs(p, d, d + 1)
       /\ q \in Seq(Visits) /\ Rising(q) /\ Runs(q, d + 1, d + 1)
       /\ e \in Seq(Visits) /\ Rising(e) /\ Runs(e, d + 1, d)
  BY <1>3, <1>4, <1>5 DEF IsVisit
<1> DEFINE w1 == p \o s
           w2 == w1 \o q
           w3 == w2 \o t
           w4 == w3 \o e
<1>6. /\ Joined(w1, p, s) /\ w1 \in Seq(Visits)
      /\ Joined(w2, w1, q) /\ w2 \in Seq(Visits)
      /\ Joined(w3, w2, t) /\ w3 \in Seq(Visits)
      /\ Joined(w4, w3, e) /\ w4 \in Seq(Visits)
  <2>1. Joined(w1, p, s) /\ w1 \in Seq(Visits)
    BY <1>2, <1>pqe, JoinedIs DEF Joined
  <2> HIDE DEF w1
  <2>2. Joined(w2, w1, q) /\ w2 \in Seq(Visits)
    BY <1>pqe, <2>1, JoinedIs DEF Joined
  <2> HIDE DEF w2
  <2>3. Joined(w3, w2, t) /\ w3 \in Seq(Visits)
    BY <1>2, <2>2, JoinedIs DEF Joined
  <2> HIDE DEF w3
  <2>4. Joined(w4, w3, e) /\ w4 \in Seq(Visits)
    BY <1>pqe, <2>3, JoinedIs DEF Joined
  <2> QED
    BY <2>1, <2>2, <2>3, <2>4
<1> HIDE DEF w1, w2, w3, w4
<1>7. \A orders : /\ KeysAt(w1, orders) = KeysAt(p, orders) \cup KeysAt(s, orders)
                  /\ KeysAt(w2, orders) = KeysAt(w1, orders) \cup KeysAt(q, orders)
                  /\ KeysAt(w3, orders) = KeysAt(w2, orders) \cup KeysAt(t, orders)
                  /\ KeysAt(w4, orders) = KeysAt(w3, orders) \cup KeysAt(e, orders)
  <2> TAKE orders
  <2>1. KeysAt(w1, orders) = KeysAt(p, orders) \cup KeysAt(s, orders)
    BY <1>2, <1>pqe, <1>6, KeysJoined
  <2>2. KeysAt(w2, orders) = KeysAt(w1, orders) \cup KeysAt(q, orders)
    BY <1>pqe, <1>6, KeysJoined
  <2>3. KeysAt(w3, orders) = KeysAt(w2, orders) \cup KeysAt(t, orders)
    BY <1>2, <1>6, KeysJoined
  <2>4. KeysAt(w4, orders) = KeysAt(w3, orders) \cup KeysAt(e, orders)
    BY <1>pqe, <1>6, KeysJoined
  <2> QED
    BY <2>1, <2>2, <2>3, <2>4
<1>8. Runs(w4, d, d)
  <2>1. Runs(w1, d, d + 1)
    BY <1>2, <1>pqe, <1>6, RunsJoined
  <2>2. Runs(w2, d, d + 1)
    BY <1>pqe, <1>6, <2>1, RunsJoined
  <2>3. Runs(w3, d, d + 1)
    BY <1>2, <1>6, <2>2, RunsJoined
  <2> QED
    BY <1>pqe, <1>6, <2>3, RunsJoined
<1>9. /\ KeysAt(w1, Mid) = KeysAt(s, Mid) /\ KeysAt(w2, Mid) = KeysAt(s, Mid) \cup {val[m]}
      /\ KeysAt(w3, Mid) = KeysAt(s, Mid) \cup {val[m]} \cup KeysAt(t, Mid)
      /\ KeysAt(w4, Mid) = KeysAt(s, Mid) \cup {val[m]} \cup KeysAt(t, Mid)
      /\ KeysAt(p, Mid) = {} /\ KeysAt(q, Mid) = {val[m]}
      /\ KeysAt(e, Mid) = {}
  <2>1. /\ KeysAt(p, Mid) = {} /\ KeysAt(q, Mid) = {val[m]}
        /\ KeysAt(e, Mid) = {}
    BY <1>3, <1>4, <1>5 DEF Mid, IsVisit
  <2> QED
    BY <1>7, <2>1
<1>10. Triples(w4)
  <2>1. /\ KeysAt(s, {"preorder"}) = KeysAt(s, {"postorder"})
        /\ KeysAt(s, {"endorder"}) = KeysAt(s, {"postorder"})
        /\ KeysAt(t, {"preorder"}) = KeysAt(t, {"postorder"})
        /\ KeysAt(t, {"endorder"}) = KeysAt(t, {"postorder"})
    BY <1>2 DEF Triples
  <2>2. \A order \in {"preorder", "postorder", "endorder"} :
          KeysAt(w4, {order}) = KeysAt(s, {order}) \cup {val[m]} \cup KeysAt(t, {order})
    <3> TAKE order \in {"preorder", "postorder", "endorder"}
    <3>1. /\ order = "preorder" => KeysAt(p, {order}) = {val[m]}
          /\ order # "preorder" => KeysAt(p, {order}) = {}
          /\ order = "postorder" => KeysAt(q, {order}) = {val[m]}
          /\ order # "postorder" => KeysAt(q, {order}) = {}
          /\ order = "endorder" => KeysAt(e, {order}) = {val[m]}
          /\ order # "endorder" => KeysAt(e, {order}) = {}
      BY <1>3, <1>4, <1>5 DEF IsVisit
    <3>2. KeysAt(w4, {order}) = KeysAt(p, {order}) \cup KeysAt(s, {order})
                                 \cup KeysAt(q, {order}) \cup KeysAt(t, {order})
                                 \cup KeysAt(e, {order})
      BY <1>7
    <3> QED
      BY <3>1, <3>2
  <2> QED
    BY <2>1, <2>2 DEF Triples
<1>11. /\ \A k \in KeysAt(s, Mid) : \E x \in Room(lo, hi, m) : k = val[x] /\ k < val[m]
       /\ \A k \in KeysAt(t, Mid) : \E x \in Room(lo, hi, m) : k = val[x] /\ val[m] < k
  <2>1. ASSUME NEW k \in KeysAt(s, Mid)
        PROVE  \E x \in Room(lo, hi, m) : k = val[x] /\ k < val[m]
    <3>1. left[m] # NULL /\ left[m] \in allocated /\ k \in {val[x] : x \in Room(lo, hi, left[m])}
      BY NoVisit DEF BranchWalk, WalkOf
    <3>2. PICK x \in allocated : k = val[x] /\ Within(lo, hi, left[m], val[x])
      BY <3>1 DEF Room
    <3>3. val[x] \in Int
      BY <1>0, Values
    <3> QED
      BY <3>1, <3>2, <3>3, ChildBounds DEF Room
  <2>2. ASSUME NEW k \in KeysAt(t, Mid)
        PROVE  \E x \in Room(lo, hi, m) : k = val[x] /\ val[m] < k
    <3>1. right[m] # NULL /\ right[m] \in allocated
          /\ k \in {val[x] : x \in Room(lo, hi, right[m])}
      BY NoVisit DEF BranchWalk, WalkOf
    <3>2. PICK x \in allocated : k = val[x] /\ Within(lo, hi, right[m], val[x])
      BY <3>1 DEF Room
    <3>3. val[x] \in Int /\ val[m] \in Int
      BY <1>0, Values
    <3>4. Within(lo, hi, m, val[x]) /\ val[x] > val[m]
      BY <3>1, <3>2, <3>3, ChildBounds
    <3> QED
      BY <3>2, <3>3, <3>4 DEF Room
  <2> QED
    BY <2>1, <2>2
<1>12. \A k \in KeysAt(s, Mid) \cup {val[m]} \cup KeysAt(t, Mid) : k \in Int
  BY <1>0, <1>11, Values DEF Room
<1>13. Rising(w4)
  <2>1. Rising(w1)
    BY <1>2, <1>pqe, <1>6, <1>9, RisingJoined
  <2>2. \A x \in KeysAt(w1, Mid), y \in KeysAt(q, Mid) : x < y
    BY <1>9, <1>11
  <2>3. Rising(w2)
    BY <1>pqe, <1>6, <2>1, <2>2, RisingJoined
  <2>4. \A x \in KeysAt(w2, Mid), y \in KeysAt(t, Mid) : x < y
    <3>1. \A x \in KeysAt(s, Mid), y \in KeysAt(t, Mid) : x < y
      <4> TAKE x \in KeysAt(s, Mid), y \in KeysAt(t, Mid)
      <4>1. x < val[m] /\ val[m] < y
        BY <1>11
      <4>2. x \in Int /\ y \in Int /\ val[m] \in Int
        BY <1>12
      <4> QED
        BY <4>1, <4>2
    <3> QED
      BY <1>9, <1>11, <3>1
  <2>5. Rising(w3)
    BY <1>2, <1>6, <2>3, <2>4, RisingJoined
  <2> QED
    BY <1>pqe, <1>6, <1>9, <2>5, RisingJoined
<1>14. KeysAt(w4, Mid) \subseteq {val[x] : x \in Room(lo, hi, m)}
  BY <1>9, <1>11, RoomFits
<1>15. ASSUME NEW x \in allocated PROVE BringsChildren(w4, x)
  <2>1. ASSUME val[x] = val[m] PROVE BringsChildren(w4, x)
    <3>1. x = m
      BY <2>1 DEF Unique
    <3>2. /\ left[m] # NULL => val[left[m]] \in KeysAt(s, Mid)
          /\ right[m] # NULL => val[right[m]] \in KeysAt(t, Mid)
      BY DEF BranchWalk, WalkOf
    <3> QED
      BY <1>9, <3>1, <3>2 DEF BringsChildren
  <2>2. ASSUME val[x] \in KeysAt(s, Mid) PROVE BringsChildren(w4, x)
    <3>1. BringsChildren(s, x)
      BY <2>2, NoVisit DEF BranchWalk, WalkOf
    <3> QED
      BY <1>9, <2>2, <3>1 DEF BringsChildren
  <2>3. ASSUME val[x] \in KeysAt(t, Mid) PROVE BringsChildren(w4, x)
    <3>1. BringsChildren(t, x)
      BY <2>3, NoVisit DEF BranchWalk, WalkOf
    <3> QED
      BY <1>9, <2>3, <3>1 DEF BringsChildren
  <2>4. val[x] \in KeysAt(w4, Mid) =>
          val[x] \in KeysAt(s, Mid) \/ val[x] = val[m] \/ val[x] \in KeysAt(t, Mid)
    BY <1>9
  <2>5. CASE val[x] \notin KeysAt(w4, Mid)
    BY <2>5 DEF BringsChildren
  <2> QED
    BY <2>1, <2>2, <2>3, <2>4, <2>5
<1>16. WalkOf(lo, hi, w4, m, d)
  BY <1>6, <1>8, <1>9, <1>10, <1>13, <1>14, <1>15 DEF WalkOf
<1> QED
  BY <1>3, <1>4, <1>5, <1>16 DEF w1, w2, w3, w4

\* The visits of the tree below n at depth d, where w has those of the trees one
\* level lower.
Around(n, d, w) ==
  IF n = NULL THEN <<>>
  ELSE IF IsLeaf(n) THEN <<Visit(n, "leaf", d)>>
  ELSE <<Visit(n, "preorder", d)>> \o w[left[n]] \o <<Visit(n, "postorder", d)>>
       \o w[right[n]] \o <<Visit(n, "endorder", d)>>

Level == [Nodes \cup {NULL} -> Seq(Visits)]
LevelAt(d, w) == [n \in Nodes \cup {NULL} |-> Around(n, d, w)]
NoLevel == [n \in Nodes \cup {NULL} |-> <<>>]

\* The walks from every node, level by level.
Levels(walk) ==
  /\ walk[Size] = NoLevel
  /\ \A d \in 0 .. Size - 1 : walk[d] = LevelAt(d, walk[d + 1])
  /\ Walk = walk[0][root]

LEMMA VisitAlone ==
  ASSUME Types, NEW n \in Nodes, NEW order \in Orders, NEW d \in Int
  PROVE  \E p : p = <<Visit(n, order, d)>> /\ p \in Seq(Visits)
<1>1. PICK v : v = Visit(n, order, d)
  OBVIOUS
<1>2. v \in Visits
  BY <1>1 DEF Visit, Visits, Types
<1>3. <<v>> \in Seq(Visits)
  BY <1>2
<1> QED
  BY <1>1, <1>3

LEMMA AroundIs ==
  ASSUME Types, NEW n \in Nodes \cup {NULL}, NEW d \in Int, NEW w \in Level
  PROVE  Around(n, d, w) \in Seq(Visits)
<1>1. CASE n = NULL
  BY <1>1 DEF Around
<1>2. CASE n # NULL /\ IsLeaf(n)
  <2>1. Visit(n, "leaf", d) \in Visits
    BY <1>2 DEF Visit, Visits, Orders, Types
  <2> QED
    BY <1>2, <2>1 DEF Around
<1>3. CASE n # NULL /\ ~IsLeaf(n)
  <2>1. PICK p : p = <<Visit(n, "preorder", d)>> /\ p \in Seq(Visits)
    BY <1>3, VisitAlone DEF Orders
  <2>2. PICK q : q = <<Visit(n, "postorder", d)>> /\ q \in Seq(Visits)
    BY <1>3, VisitAlone DEF Orders
  <2>3. PICK e : e = <<Visit(n, "endorder", d)>> /\ e \in Seq(Visits)
    BY <1>3, VisitAlone DEF Orders
  <2>4. PICK s : s = w[left[n]] /\ s \in Seq(Visits)
    BY <1>3 DEF Level, Types, Pointers
  <2>5. PICK t : t = w[right[n]] /\ t \in Seq(Visits)
    BY <1>3 DEF Level, Types, Pointers
  <2>6. p \o s \o q \o t \o e \in Seq(Visits)
    BY <2>1, <2>2, <2>3, <2>4, <2>5
  <2> QED
    BY <1>3, <2>1, <2>2, <2>3, <2>4, <2>5, <2>6 DEF Around
<1> QED
  BY <1>1, <1>2, <1>3

LEMMA WalkIs ==
  ASSUME Types
  PROVE  \E walk : Levels(walk)
<1> DEFINE A == [at : Int, seqs : Level]
           F == [a \in A |-> [at |-> a.at - 1, seqs |-> LevelAt(a.at - 1, a.seqs)]]
           first == [at |-> Size, seqs |-> NoLevel]
           Body(s) == [d \in 0 .. Size |->
                         [n \in Nodes \cup {NULL} |->
                            IF n = NULL \/ d = Size THEN <<>>
                            ELSE IF IsLeaf(n) THEN <<Visit(n, "leaf", d)>>
                            ELSE <<Visit(n, "preorder", d)>>
                                 \o s[d + 1][Branches(n)[1]]
                                 \o <<Visit(n, "postorder", d)>>
                                 \o s[d + 1][Branches(n)[2]]
                                 \o <<Visit(n, "endorder", d)>>]]
           walk == CHOOSE s : s = Body(s)
<1>1. first \in A
  <2>1. NoLevel \in Level
    BY DEF Level, NoLevel
  <2> QED
    BY <2>1, SizeIs
<1>2. F \in [A -> A]
  <2> SUFFICES ASSUME NEW a \in A
               PROVE  [at |-> a.at - 1, seqs |-> LevelAt(a.at - 1, a.seqs)] \in A
    OBVIOUS
  <2>1. a.at - 1 \in Int /\ a.seqs \in Level
    OBVIOUS
  <2>2. LevelAt(a.at - 1, a.seqs) \in Level
    BY <2>1, AroundIs DEF Level, LevelAt
  <2> QED
    BY <2>1, <2>2
<1>3. PICK f : Iterates(f, A, first, F, Size)
  <2> HIDE DEF F, first, A
  <2>1. \E f : Iterates(f, A, first, F, Size)
    BY <1>1, <1>2, Steps, SizeIs
  <2> QED
    BY <2>1
<1>4. /\ f \in [0 .. Size -> A] /\ f[0] = first
      /\ \A e \in 1 .. Size : f[e] = F[f[e - 1]]
  BY <1>3 DEF Iterates
<1>5. ASSUME NEW e \in 1 .. Size
      PROVE  /\ f[e].at = f[e - 1].at - 1
             /\ f[e].seqs = LevelAt(f[e - 1].at - 1, f[e - 1].seqs)
  <2>1. f[e - 1] \in A
    BY <1>4, SizeIs
  <2>2. f[e] = F[f[e - 1]]
    BY <1>4
  <2> QED
    BY <2>1, <2>2
<1> HIDE DEF F
<1>6. \A e \in 0 .. Size : f[e].at = Size - e
  <2> DEFINE G == {e \in Nat : f[e].at = Size - e}
  <2>1. 0 \in G
    BY <1>4, SizeIs
  <2>2. ASSUME NEW e \in 1 .. Size, e - 1 \in G PROVE e \in G
    <3>1. f[e].at = f[e - 1].at - 1
      BY <1>5
    <3>2. f[e - 1].at = Size - (e - 1)
      BY <2>2
    <3> QED
      BY <3>1, <3>2, SizeIs
  <2>3. 0 .. Size \subseteq G
    <3> HIDE DEF G
    <3> QED
      BY <2>1, <2>2, Upwards, SizeIs
  <2> QED
    BY <2>3
<1> DEFINE g == [d \in 0 .. Size |-> f[Size - d].seqs]
<1>7. ASSUME NEW s, NEW d \in 0 .. Size
      PROVE  /\ d = Size => Body(s)[d] = NoLevel
             /\ d # Size => Body(s)[d] = LevelAt(d, s[d + 1])
  BY DEF Around, Branches, NoLevel, LevelAt
<1> HIDE DEF Body
<1>8. g = Body(g)
  <2>1. ASSUME NEW d \in 0 .. Size PROVE g[d] = Body(g)[d]
    <3>1. CASE d = Size
      <4>1. Size - d = 0
        BY <3>1, SizeIs
      <4>2. g[d] = NoLevel
        BY <1>4, <4>1
      <4> HIDE DEF g
      <4> QED
        BY <1>7, <3>1, <4>2
    <3>2. CASE d # Size
      <4>1. PICK e \in 1 .. Size : e = Size - d
        BY <3>2, SizeIs
      <4>2. /\ e - 1 \in 0 .. Size /\ e - 1 = Size - (d + 1) /\ Size - (e - 1) - 1 = d
            /\ d + 1 \in 0 .. Size
        BY <4>1, SizeIs
      <4>3. f[e - 1].at - 1 = d
        BY <1>6, <4>2
      <4>4. f[e].seqs = LevelAt(d, f[e - 1].seqs)
        BY <1>5, <4>3
      <4>5. g[d] = f[e].seqs /\ g[d + 1] = f[e - 1].seqs
        BY <4>1, <4>2
      <4> HIDE DEF g
      <4>6. Body(g)[d] = LevelAt(d, g[d + 1])
        BY <1>7, <3>2
      <4> QED
        BY <4>4, <4>5, <4>6
    <3> QED
      BY <3>1, <3>2
  <2>2. \A s : s = Body(s) <=> /\ s = [d \in 0 .. Size |-> s[d]]
                              /\ \A d \in 0 .. Size : s[d] = Body(s)[d]
    BY DEF Body
  <2> QED
    BY <2>1, <2>2
<1>9. walk = Body(walk)
  <2>1. \E s : s = Body(s)
    BY <1>8
  <2> QED
    BY <2>1
<1>10. Walk = walk[0][root]
  BY DEF Walk, Body
<1> HIDE DEF walk
<1>11. /\ walk[Size] = NoLevel
       /\ \A d \in 0 .. Size - 1 : walk[d] = LevelAt(d, walk[d + 1])
  <2>1. /\ Size \in 0 .. Size
        /\ \A d \in 0 .. Size - 1 : d \in 0 .. Size /\ d # Size
    BY SizeIs
  <2>2. \A d \in 0 .. Size :
          /\ d = Size => Body(walk)[d] = NoLevel
          /\ d # Size => Body(walk)[d] = LevelAt(d, walk[d + 1])
    BY <1>7
  <2> QED
    BY <1>9, <2>1, <2>2
<1> QED
  BY <1>10, <1>11 DEF Levels

\* The whole walk is that of the tree below the root.
LEMMA RootWalk ==
  ASSUME NEW lo, NEW hi, Tied(lo, hi), Unique, root # NULL
  PROVE  WalkOf(lo, hi, Walk, root, 0)
<1>1. Types /\ root \in allocated
  BY DEF Tied, Types, Pointers
<1>2. PICK walk : Levels(walk)
  BY <1>1, WalkIs
<1> DEFINE G == {e \in Nat : \A m \in allocated :
                   Cardinality(Room(lo, hi, m)) <= e =>
                     WalkOf(lo, hi, walk[Size - e][m], m, Size - e)}
<1>3. ASSUME NEW d \in 1 .. Size PROVE walk[d][NULL] = <<>>
  <2>1. d = Size \/ d \in 0 .. Size - 1
    BY SizeIs
  <2> QED
    BY <1>2, <2>1 DEF Levels, LevelAt, NoLevel, Around
<1>4. 0 \in G
  <2>1. ASSUME NEW m \in allocated PROVE ~(Cardinality(Room(lo, hi, m)) <= 0)
    BY RoomFits
  <2> QED
    BY <2>1
<1>5. ASSUME NEW e \in 1 .. Size, e - 1 \in G PROVE e \in G
  <2> SUFFICES ASSUME NEW m \in allocated, Cardinality(Room(lo, hi, m)) <= e
               PROVE  WalkOf(lo, hi, walk[Size - e][m], m, Size - e)
    BY SizeIs
  <2>1. PICK d \in 0 .. Size - 1 : d = Size - e
    BY SizeIs
  <2>2. /\ d + 1 \in 1 .. Size /\ Size - (e - 1) = d + 1
        /\ d \in Int
    BY <2>1, SizeIs
  <2>3. \A c \in allocated : Cardinality(Room(lo, hi, c)) <= e - 1 =>
                               WalkOf(lo, hi, walk[d + 1][c], c, d + 1)
    BY <1>5, <2>2
  <2> HIDE DEF G
  <2>4. ASSUME NEW c \in {left[m], right[m]}
        PROVE  BranchWalk(lo, hi, walk[d + 1][c], c, d + 1)
    <3>1. CASE c = NULL
      BY <1>3, <2>2, <3>1 DEF BranchWalk
    <3>2. CASE c # NULL
      <4>1. /\ c \in allocated
            /\ Cardinality(Room(lo, hi, c)) < Cardinality(Room(lo, hi, m))
        BY <3>2, RoomShrinks
      <4>2. Cardinality(Room(lo, hi, c)) <= e - 1
        <5>1. Cardinality(Room(lo, hi, c)) \in Int /\ Cardinality(Room(lo, hi, m)) \in Int
          BY <4>1, RoomFits
        <5> QED
          BY <4>1, <5>1
      <4> QED
        BY <2>3, <3>2, <4>1, <4>2 DEF BranchWalk
    <3> QED
      BY <3>1, <3>2
  <2>5. walk[d][m] = Around(m, d, walk[d + 1]) /\ m # NULL
    BY <1>1, <1>2, Values DEF Levels, LevelAt
  <2>6. WalkOf(lo, hi, walk[d][m], m, d)
    <3>1. CASE IsLeaf(m)
      BY <2>2, <2>5, <3>1, LeafWalk DEF Around
    <3>2. CASE ~IsLeaf(m)
      <4>1. PICK s : s = walk[d + 1][left[m]] /\ BranchWalk(lo, hi, s, left[m], d + 1)
        BY <2>4
      <4>2. PICK t : t = walk[d + 1][right[m]] /\ BranchWalk(lo, hi, t, right[m], d + 1)
        BY <2>4
      <4>3. WalkOf(lo, hi, <<Visit(m, "preorder", d)>> \o s \o <<Visit(m, "postorder", d)>>
                             \o t \o <<Visit(m, "endorder", d)>>, m, d)
        BY <2>2, <4>1, <4>2, NodeWalk
      <4> QED
        BY <2>5, <3>2, <4>1, <4>2, <4>3 DEF Around
    <3> QED
      BY <3>1, <3>2
  <2> QED
    BY <2>1, <2>6
<1>6. 0 .. Size \subseteq G
  <2> HIDE DEF G
  <2> QED
    BY <1>4, <1>5, Upwards, SizeIs
<1>7. WalkOf(lo, hi, walk[Size - Size][root], root, Size - Size)
  <2>1. Size \in G
    BY <1>6, SizeIs
  <2>2. Cardinality(Room(lo, hi, root)) <= Size
    BY <1>1, RoomFits
  <2> QED
    BY <1>1, <2>1, <2>2
<1> QED
  BY <1>2, <1>7, SizeIs DEF Levels

\* How many visits of a kind there are up to the i-th, and how many before it have
\* gone down without coming back.
UpTo(s, order, i) == Cardinality({j \in 1 .. i : s[j].order = order})
OpenAt(s, i) == UpTo(s, "preorder", i - 1) - UpTo(s, "endorder", i - 1)

LEMMA UpToNext ==
  ASSUME NEW s, NEW order, NEW i \in Nat
  PROVE  /\ UpTo(s, order, i) \in Nat
         /\ UpTo(s, order, i + 1) = UpTo(s, order, i) + IF s[i + 1].order = order THEN 1 ELSE 0
<1> DEFINE P(k) == {j \in 1 .. k : s[j].order = order}
<1>1. IsFiniteSet(P(i)) /\ Cardinality(P(i)) \in Nat
  <2>1. IsFiniteSet(1 .. i)
    BY FS_Interval
  <2>2. P(i) \subseteq 1 .. i
    OBVIOUS
  <2> HIDE DEF P
  <2> QED
    BY <2>1, <2>2, FS_Subset, FS_CardinalityType
<1>2. CASE s[i + 1].order = order
  <2>1. P(i + 1) = P(i) \cup {i + 1} /\ i + 1 \notin P(i)
    BY <1>2
  <2> HIDE DEF P
  <2>2. Cardinality(P(i + 1)) = Cardinality(P(i)) + 1
    BY <1>1, <2>1, FS_AddElement
  <2> QED
    BY <1>1, <1>2, <2>2 DEF P, UpTo
<1>3. CASE s[i + 1].order # order
  <2>1. P(i + 1) = P(i)
    BY <1>3
  <2>2. UpTo(s, order, i + 1) = UpTo(s, order, i)
    BY <2>1 DEF UpTo
  <2>3. UpTo(s, order, i) \in Nat
    BY <1>1 DEF UpTo
  <2> QED
    BY <1>3, <2>2, <2>3
<1> QED
  BY <1>2, <1>3

\* The depth at which a visit is made is the number of those that are open.
LEMMA DepthIsOpen ==
  ASSUME NEW s \in Seq(Visits), Runs(s, 0, 0)
  PROVE  \A i \in 1 .. Len(s) : s[i].depth = DepthShown(s[i].order, OpenAt(s, i))
<1>1. PICK o : RunsBy(o, s, 0, 0)
  BY DEF Runs
<1> DEFINE G == {i \in Nat : o[i] = UpTo(s, "preorder", i) - UpTo(s, "endorder", i)}
<1>2. Len(s) \in Nat
  OBVIOUS
<1>3. 0 \in G
  <2>1. {j \in 1 .. 0 : s[j].order = "preorder"} = {}
    OBVIOUS
  <2>2. {j \in 1 .. 0 : s[j].order = "endorder"} = {}
    OBVIOUS
  <2>3. UpTo(s, "preorder", 0) = 0 /\ UpTo(s, "endorder", 0) = 0
    BY <2>1, <2>2, FS_EmptySet DEF UpTo
  <2>4. o[0] = 0
    BY <1>1 DEF RunsBy
  <2> QED
    BY <2>3, <2>4
<1>4. ASSUME NEW i \in 1 .. Len(s), i - 1 \in G PROVE i \in G
  <2>1. PICK k \in Nat : k = i - 1 /\ k + 1 = i
    OBVIOUS
  <2>2. /\ UpTo(s, "preorder", k) \in Nat
        /\ UpTo(s, "preorder", k + 1) =
             UpTo(s, "preorder", k) + IF s[k + 1].order = "preorder" THEN 1 ELSE 0
    BY UpToNext
  <2>3. /\ UpTo(s, "endorder", k) \in Nat
        /\ UpTo(s, "endorder", k + 1) =
             UpTo(s, "endorder", k) + IF s[k + 1].order = "endorder" THEN 1 ELSE 0
    BY UpToNext
  <2>4. o[k] = UpTo(s, "preorder", k) - UpTo(s, "endorder", k)
    BY <1>4, <2>1
  <2>5. o[i] = DepthAfter(s[i].order, o[k])
    BY <1>1, <2>1 DEF RunsBy
  <2>6. o[k + 1] = UpTo(s, "preorder", k + 1) - UpTo(s, "endorder", k + 1)
    BY <2>1, <2>2, <2>3, <2>4, <2>5 DEF DepthAfter
  <2> QED
    BY <2>1, <2>6
<1>5. 0 .. Len(s) \subseteq G
  <2> HIDE DEF G
  <2> QED
    BY <1>2, <1>3, <1>4, Upwards
<1>6. ASSUME NEW i \in 1 .. Len(s) PROVE s[i].depth = DepthShown(s[i].order, OpenAt(s, i))
  <2>1. i - 1 \in G
    BY <1>5
  <2>2. o[i - 1] = OpenAt(s, i)
    BY <2>1 DEF OpenAt
  <2>3. s[i].depth = DepthShown(s[i].order, o[i - 1])
    BY <1>1 DEF RunsBy
  <2> QED
    BY <2>2, <2>3
<1> QED
  BY <1>6

LEMMA InOrder ==
  ASSUME Inv
  PROVE  WalkInOrder
<1> SUFFICES ASSUME root # NULL PROVE WalkInOrder
  BY DEF WalkInOrder
<1>1. PICK lo, hi : Tied(lo, hi)
  BY DEF Inv, Ordered, Tied
<1>2. Unique
  BY <1>1, UniqueHolds DEF Inv
<1>3. WalkOf(lo, hi, Walk, root, 0)
  BY <1>1, <1>2, RootWalk
<1>4. PICK w : w = Walk
  OBVIOUS
<1>5. /\ w \in Seq(Visits) /\ Rising(w) /\ Runs(w, 0, 0) /\ Triples(w)
      /\ KeysAt(w, Mid) \subseteq {val[x] : x \in Room(lo, hi, root)}
      /\ val[root] \in KeysAt(w, Mid)
      /\ \A x \in allocated : BringsChildren(w, x)
  BY <1>3, <1>4 DEF WalkOf
<1>6. KeysAt(w, Mid) = {val[n] : n \in InTree}
  <2>1. InTree = allocated
    BY Owned DEF NodesOwned
  <2>2. KeysAt(w, Mid) \subseteq {val[n] : n \in allocated}
    BY <1>5 DEF Room
  <2> DEFINE S == {x \in allocated : val[x] \in KeysAt(w, Mid)}
  <2>3. Closed(S)
    <3>1. /\ root \in allocated
          /\ \A m \in allocated : left[m] \in allocated \cup {NULL}
                                  /\ right[m] \in allocated \cup {NULL}
      BY DEF Inv, Types, Pointers
    <3> QED
      BY <1>5, <3>1 DEF Closed, BringsChildren
  <2>4. allocated \subseteq S
    <3> HIDE DEF S
    <3>1. S \in SUBSET allocated
      BY DEF S
    <3> QED
      BY <2>3, <3>1 DEF Inv, Connected
  <2> QED
    BY <2>1, <2>2, <2>4
<1>7. \A i \in 1 .. Len(w) :
        w[i].depth = IF w[i].order \in {"preorder", "leaf"} THEN OpenAt(w, i) ELSE OpenAt(w, i) - 1
  BY <1>5, DepthIsOpen DEF DepthShown
<1>8. \A i, j \in Places(w, Mid) : i < j => w[i].key < w[j].key
  BY <1>5 DEF Rising
<1>9. \A order \in {"preorder", "endorder"} : KeysAt(w, {order}) = KeysAt(w, {"postorder"})
  BY <1>5 DEF Triples
<1> QED
  BY <1>4, <1>6, <1>7, <1>8, <1>9 DEF WalkInOrder, OpenAt, UpTo, Mid

\* twalk visits the keys of every tree that tsearch and tdelete can build in
\* ascending order, a leaf once and every other node before, between and after its
\* branches, and tells its depth right.
THEOREM WalkInOrderHolds == Spec => []WalkInOrder
BY InvHolds, InOrder, PTL
-----------------------------------------------------------------------------
(***************************************************************************)
(* The hash table.  The loop of hsearch_r visits slot after slot in a      *)
(* ring of capacity slots.  What makes it find an entry is Reached: from   *)
(* the slot of its hash to its own no slot is free, and none has an entry  *)
(* of the same key that was entered with other data.                       *)
(***************************************************************************)
Home(d) == hash[d] % capacity

\* The n-th slot that is visited from slot h on.
Behind(h, n) == IF h + n < capacity THEN h + n ELSE h + n - capacity

TableTypes ==
  /\ hash \in [Datas -> Hashes]
  /\ Open => /\ capacity \in Nels
             /\ mask = capacity - 1
             /\ data \in [0 .. 2 * capacity - 1 -> Entries \cup {None}]

Placed ==
  \A i \in Used : i < capacity /\ \A j \in Used : data[i] = data[j] => i = j

OtherKey(i, k) == i \in Used /\ data[i].key # k

Reached ==
  \A i \in Used : \A n \in 0 .. capacity - 1 :
    Behind(Home(data[i].data), n) = i =>
      \A m \in 0 .. n - 1 : OtherKey(Behind(Home(data[i].data), m), data[i].key)

Counted ==
  /\ IsFiniteSet(Used) /\ size = Cardinality(Used)
  /\ IsFiniteSet(Kept) /\ size = Cardinality(Kept)
  /\ size <= capacity

TableInv == TableTypes /\ (Open => Placed /\ Reached /\ Counted)

LEMMA Modulo ==
  ASSUME NEW n \in Nat \ {0}, NEW a \in Nat
  PROVE  /\ a % n \in 0 .. n - 1
         /\ a < n => a % n = a
         /\ a = n => a % n = 0
OBVIOUS

LEMMA Least ==
  ASSUME NEW S \in SUBSET Nat, S # {}
  PROVE  \E n \in S : \A m \in S : n <= m
<1>1. PICK n \in S : \A m \in S : ~(<<m, n>> \in OpToRel(<, Nat))
  BY WFMin, NatLessThanWellFounded
<1>2. ASSUME NEW m \in S PROVE n <= m
  <2>1. n \in Nat /\ m \in Nat
    OBVIOUS
  <2>2. m < n => <<m, n>> \in OpToRel(<, Nat)
    BY <2>1 DEF OpToRel
  <2>3. ~(m < n)
    BY <1>1, <2>2
  <2> QED
    BY <2>1, <2>3
<1> QED
  BY <1>2

LEMMA RingIs ==
  ASSUME MasksWork, TableTypes, Open
  PROVE  /\ capacity \in Nat \ {0} /\ mask + 1 = capacity
         /\ \A d \in Datas : /\ Home(d) \in 0 .. capacity - 1
                             /\ Start(d) = Home(d)
         /\ \A h \in 0 .. capacity - 1 : \A n \in 0 .. capacity :
              Behind(h, n) \in 0 .. capacity - 1
         /\ \A i \in 0 .. capacity - 1 :
              Following(i) = IF i + 1 < capacity THEN i + 1 ELSE 0
<1>1. capacity \in Nat \ {0} /\ mask + 1 = capacity /\ mask = capacity - 1 /\ capacity \in Nels
  <2>1. mask = capacity - 1 /\ capacity \in Nels
    BY DEF TableTypes
  <2>2. Nels \subseteq Nat \ {0}
    BY HashTableAssumption
  <2> QED
    BY <2>1, <2>2
<1>2. ASSUME NEW d \in Datas
      PROVE  Home(d) \in 0 .. capacity - 1 /\ Start(d) = Home(d)
  <2>1. hash[d] \in Hashes /\ hash[d] \in Nat
    BY HashTableAssumption DEF TableTypes
  <2>2. Start(d) = hash[d] % capacity
    BY <1>1, <2>1 DEF MasksWork, Start
  <2> QED
    BY <1>1, <2>1, <2>2, Modulo DEF Home
<1>3. \A h \in 0 .. capacity - 1 : \A n \in 0 .. capacity :
        Behind(h, n) \in 0 .. capacity - 1
  BY <1>1 DEF Behind
<1>4. ASSUME NEW i \in 0 .. capacity - 1
      PROVE  Following(i) = IF i + 1 < capacity THEN i + 1 ELSE 0
  <2>1. i + 1 \in 0 .. capacity
    BY <1>1
  <2>2. Following(i) = (i + 1) % capacity
    BY <1>1, <2>1 DEF MasksWork, Following
  <2>3. i + 1 < capacity => (i + 1) % capacity = i + 1
    BY <1>1, Modulo
  <2>4. i + 1 = capacity => (i + 1) % capacity = 0
    BY <1>1, Modulo
  <2> QED
    BY <1>1, <2>2, <2>3, <2>4
<1> QED
  BY <1>1, <1>2, <1>3, <1>4

\* The first of the slots from Home(d) on that is free or holds k, or the first
\* slot again.
StopsAt(k, d, n) ==
  /\ \A m \in 0 .. n - 1 :
       data[Behind(Home(d), m)] # None /\ ~Holds(Behind(Home(d), m), k)
  /\ n < capacity =>
       data[Behind(Home(d), n)] = None \/ Holds(Behind(Home(d), n), k)

LEMMA StopIs ==
  ASSUME MasksWork, TableTypes, Open, NEW k \in Names, NEW d \in Datas
  PROVE  \E n \in 0 .. capacity : Stop(k, d) = Behind(Home(d), n) /\ StopsAt(k, d, n)
<1> DEFINE N == capacity
           h == Home(d)
           Ring == 0 .. N - 1
           start == Start(d)
           Body(v) == [n \in 0 .. mask + 1 |-> IF n = 0 THEN start ELSE Following(v[n - 1])]
           F == [i \in Ring |-> Following(i)]
           visit == CHOOSE v : v = Body(v)
           stops == {n \in 0 .. mask + 1 :
                       \/ data[visit[n]] = None
                       \/ Holds(visit[n], k)
                       \/ n > 0 /\ visit[n] = start}
           last == CHOOSE n \in stops : \A m \in stops : n <= m
<1>1. /\ N \in Nat \ {0} /\ mask + 1 = N /\ h \in Ring /\ start = h
      /\ \A n \in 0 .. N : Behind(h, n) \in Ring
      /\ \A i \in Ring : Following(i) = IF i + 1 < N THEN i + 1 ELSE 0
  BY RingIs
<1>2. visit = Body(visit)
  <2>1. F \in [Ring -> Ring]
    BY <1>1
  <2>2. PICK f : Iterates(f, Ring, h, F, N)
    <3> HIDE DEF F, Ring, h, N
    <3>1. \E f : Iterates(f, Ring, h, F, N)
      BY <1>1, <2>1, Steps
    <3> QED
      BY <3>1
  <2>3. \A n \in 0 .. N : n # 0 => n \in 1 .. N /\ n - 1 \in 0 .. N
    BY <1>1
  <2>4. f = Body(f)
    <3> HIDE DEF h, N, start
    <3>1. \A n \in 0 .. N : f[n] = Body(f)[n]
      BY <1>1, <2>2, <2>3 DEF Iterates
    <3> QED
      BY <1>1, <2>2, <3>1 DEF Iterates
  <2>5. \E v : v = Body(v)
    BY <2>4
  <2> HIDE DEF Body
  <2> QED
    BY <2>5
<1>3. Stop(k, d) = visit[last]
  BY DEF Stop
<1> HIDE DEF visit
<1>4. \A n \in 0 .. N : visit[n] = Behind(h, n)
  <2> DEFINE G == {n \in Nat : visit[n] = Behind(h, n)}
  <2>1. visit[0] = h /\ \A n \in 1 .. N : visit[n] = Following(visit[n - 1])
    <3>1. 0 \in 0 .. mask + 1 /\ \A n \in 1 .. N : n \in 0 .. mask + 1 /\ n # 0
      BY <1>1
    <3>2. \A n \in 0 .. mask + 1 : visit[n] = Body(visit)[n]
      BY <1>2
    <3> HIDE DEF h
    <3> QED
      BY <1>1, <3>1, <3>2
  <2> HIDE DEF N, h
  <2>2. 0 \in G
    BY <1>1, <2>1 DEF Behind, N
  <2>3. ASSUME NEW n \in 1 .. N, n - 1 \in G PROVE n \in G
    BY <1>1, <2>1, <2>3 DEF Behind, N
  <2>4. 0 .. N \subseteq G
    <3> HIDE DEF G
    <3> QED
      BY <1>1, <2>2, <2>3, Upwards
  <2> QED
    BY <2>4
<1> HIDE DEF start
<1>5. N \in stops
  BY <1>1, <1>4 DEF Behind
<1>6. last \in stops /\ \A m \in stops : last <= m
  <2>1. stops \in SUBSET Nat
    BY <1>1
  <2> HIDE DEF stops
  <2>2. \E n \in stops : \A m \in stops : n <= m
    BY <1>5, <2>1, Least
  <2> QED
    BY <2>2
<1> HIDE DEF last
<1>7. last \in 0 .. N
  BY <1>1, <1>6
<1>8. \A m \in 0 .. last - 1 : m \in 0 .. N /\ m \notin stops
  <2> HIDE DEF stops
  <2> QED
    BY <1>1, <1>6, <1>7
<1>9. \A m \in 0 .. last - 1 : data[Behind(h, m)] # None /\ ~Holds(Behind(h, m), k)
  BY <1>1, <1>4, <1>8
<1>10. last < N => data[Behind(h, last)] = None \/ Holds(Behind(h, last), k)
  BY <1>1, <1>4, <1>6, <1>7 DEF Behind
<1> QED
  BY <1>3, <1>4, <1>7, <1>9, <1>10 DEF StopsAt

Item(k, d) == [key |-> k, data |-> d]

\* The loop finds an entry of the key, and the item itself if it is there.
\* Otherwise it stops at a free slot as long as there is one, and has passed all
\* entries when there is none.
LEMMA SearchFound ==
  ASSUME MasksWork, TableInv, Open, NEW k \in Names, NEW d \in Datas
  PROVE  LET s == Stop(k, d) IN
         /\ Found(k, d) => s \in Used /\ data[s].key = k
         /\ Item(k, d) \in Kept => Found(k, d) /\ data[s] = Item(k, d)
         /\ ~Found(k, d) /\ size # capacity =>
              \E n \in 0 .. capacity - 1 :
                /\ s = Behind(Home(d), n) /\ s \notin Used
                /\ \A m \in 0 .. n - 1 : OtherKey(Behind(Home(d), m), k)
         /\ ~Found(k, d) /\ size = capacity => \A i \in Used : data[i].key # k
<1> DEFINE s == Stop(k, d)
<1>1. /\ capacity \in Nat \ {0} /\ Home(d) \in 0 .. capacity - 1
      /\ \A n \in 0 .. capacity : Behind(Home(d), n) \in 0 .. capacity - 1
  BY RingIs DEF TableInv
<1>2. PICK n \in 0 .. capacity : s = Behind(Home(d), n) /\ StopsAt(k, d, n)
  BY StopIs DEF TableInv
<1>3. Found(k, d) <=> Holds(s, k)
  BY DEF Found
<1> HIDE DEF s
<1>4. data \in [0 .. 2 * capacity - 1 -> Entries \cup {None}] /\ None \notin Entries
  BY HashTableAssumption DEF TableInv, TableTypes, Entries
<1>5. \A i \in 0 .. capacity - 1 : i \in Used <=> data[i] # None
  <2>1. DOMAIN data = 0 .. 2 * capacity - 1
    BY <1>4
  <2>2. \A i \in 0 .. capacity - 1 : i \in 0 .. 2 * capacity - 1
    BY <1>1
  <2> QED
    BY <2>1, <2>2 DEF Used
<1>6. \A i \in Used : i \in 0 .. capacity - 1 /\ data[i] # None /\ data[i] \in Entries
  BY <1>1, <1>4 DEF Used, TableInv, Placed
<1>7. \A i \in 0 .. capacity - 1 : Holds(i, k) <=> i \in Used /\ data[i].key = k
  BY <1>5 DEF Holds
<1>8. s \in 0 .. capacity - 1
  BY <1>1, <1>2
\* A slot of the ring is as many slots from the first as it takes.
<1>9. ASSUME NEW i \in 0 .. capacity - 1
      PROVE  \E e \in 0 .. capacity - 1 : Behind(Home(d), e) = i
  <2>1. CASE Home(d) <= i
    <3>1. i - Home(d) \in 0 .. capacity - 1 /\ Behind(Home(d), i - Home(d)) = i
      BY <1>1, <2>1 DEF Behind
    <3> QED
      BY <3>1
  <2>2. CASE i < Home(d)
    <3>1. /\ i - Home(d) + capacity \in 0 .. capacity - 1
          /\ Behind(Home(d), i - Home(d) + capacity) = i
      BY <1>1, <2>2 DEF Behind
    <3> QED
      BY <3>1
  <2> QED
    BY <1>1, <2>1, <2>2
<1>10. Found(k, d) => s \in Used /\ data[s].key = k
  BY <1>3, <1>7, <1>8
<1>11. ASSUME Item(k, d) \in Kept PROVE Found(k, d) /\ data[s] = Item(k, d)
  <2>1. PICK i \in Used : data[i] = Item(k, d)
    BY <1>11 DEF Kept
  <2>2. data[i].key = k /\ data[i].data = d
    BY <2>1 DEF Item
  <2>3. PICK e \in 0 .. capacity - 1 : Behind(Home(d), e) = i
    BY <1>6, <1>9
  <2>4. \A m \in 0 .. e - 1 : OtherKey(Behind(Home(d), m), k)
    BY <2>2, <2>3 DEF TableInv, Reached
  <2>5. ~(e < n)
    BY <1>2, <1>6, <1>7, <2>2, <2>3 DEF StopsAt
  <2>6. ~(n < e)
    <3> SUFFICES ASSUME n < e PROVE FALSE
      OBVIOUS
    <3>1. n \in 0 .. e - 1 /\ n < capacity
      BY <1>1, <2>3
    <3>2. s \in Used /\ data[s].key # k
      BY <1>2, <2>4, <3>1 DEF OtherKey
    <3>3. data[s] = None \/ Holds(s, k)
      BY <1>2, <3>1 DEF StopsAt
    <3> QED
      BY <1>5, <1>7, <1>8, <3>2, <3>3
  <2>7. s = i
    BY <1>1, <1>2, <2>3, <2>5, <2>6
  <2> QED
    BY <1>3, <1>6, <1>7, <1>8, <2>1, <2>2, <2>7
<1>12. ASSUME NEW m \in 0 .. n - 1, ~Found(k, d) PROVE OtherKey(Behind(Home(d), m), k)
  <2>1. m \in 0 .. capacity /\ Behind(Home(d), m) \in 0 .. capacity - 1
    BY <1>1
  <2>2. data[Behind(Home(d), m)] # None /\ ~Holds(Behind(Home(d), m), k)
    BY <1>2 DEF StopsAt
  <2> QED
    BY <1>5, <1>7, <2>1, <2>2 DEF OtherKey
\* When the loop went all round, every slot was passed.
<1>13. ASSUME n = capacity, ~Found(k, d), NEW i \in 0 .. capacity - 1 PROVE OtherKey(i, k)
  <2>1. PICK e \in 0 .. capacity - 1 : Behind(Home(d), e) = i
    BY <1>9
  <2> QED
    BY <1>12, <1>13, <2>1
<1>14. IsFiniteSet(Used) /\ size = Cardinality(Used)
  BY DEF TableInv, Counted
<1>15. IsFiniteSet(0 .. capacity - 1) /\ Cardinality(0 .. capacity - 1) = capacity
  BY <1>1, FS_Interval
<1>16. ASSUME n < capacity, ~Found(k, d) PROVE s \notin Used /\ size # capacity
  <2>1. data[s] = None
    BY <1>2, <1>3, <1>16 DEF StopsAt
  <2>2. s \notin Used
    BY <1>5, <1>8, <2>1
  <2>3. Used \subseteq 0 .. capacity - 1 /\ Used # 0 .. capacity - 1
    BY <1>6, <1>8, <2>2
  <2>4. Cardinality(Used) # Cardinality(0 .. capacity - 1)
    BY <1>15, <2>3, FS_Subset
  <2> QED
    BY <1>14, <1>15, <2>2, <2>4
<1>17. ASSUME n = capacity, ~Found(k, d)
       PROVE  size = capacity /\ \A i \in Used : data[i].key # k
  <2>1. Used = 0 .. capacity - 1
    BY <1>6, <1>13, <1>17 DEF OtherKey
  <2> QED
    BY <1>13, <1>14, <1>15, <1>17, <2>1 DEF OtherKey
<1>18. n < capacity \/ n = capacity
  BY <1>1
<1>19. ASSUME ~Found(k, d), size # capacity
       PROVE  /\ n \in 0 .. capacity - 1 /\ s = Behind(Home(d), n) /\ s \notin Used
              /\ \A m \in 0 .. n - 1 : OtherKey(Behind(Home(d), m), k)
  <2>1. n < capacity
    BY <1>17, <1>18, <1>19
  <2> QED
    BY <1>1, <1>2, <1>12, <1>16, <1>19, <2>1
<1>20. ~Found(k, d) /\ size = capacity => \A i \in Used : data[i].key # k
  BY <1>16, <1>17, <1>18
<1> QED
  BY <1>10, <1>11, <1>19, <1>20 DEF s
-----------------------------------------------------------------------------
LEMMA TableInvInit == TableInit => TableInv
BY DEF TableInit, TableInv, TableTypes, Open

\* hcreate_r gives twice as many slots as asked for, and all are free.
LEMMA CreateStep ==
  ASSUME MasksWork, TableInv, NEW nel \in Nels, Create(nel)
  PROVE  /\ TableInv' /\ Open' /\ Used' = {} /\ Kept' = {}
<1>1. nel \in Nat \ {0} /\ NextPow2(2 * nel) = 2 * nel
  BY HashTableAssumption DEF MasksWork, NextPow2
<1>2. data' = [i \in 0 .. 2 * nel - 1 |-> None]
  BY <1>1 DEF Create
<1>3. capacity' = nel /\ size' = 0 /\ mask' = nel - 1 /\ UNCHANGED hash
  BY DEF Create
<1>4. Open'
  <2>1. 0 \in DOMAIN data' /\ 0 \notin DOMAIN <<>>
    BY <1>1, <1>2
  <2> QED
    BY <2>1 DEF Open
<1>5. Used' = {}
  BY <1>2 DEF Used
<1>6. Kept' = {}
  BY <1>5 DEF Kept
<1>7. TableTypes'
  BY <1>1, <1>2, <1>3 DEF TableInv, TableTypes
<1>8. Placed' /\ Reached'
  BY <1>5 DEF Placed, Reached
<1>9. Counted'
  <2>1. IsFiniteSet({}) /\ Cardinality({}) = 0
    BY FS_EmptySet
  <2> QED
    BY <1>1, <1>3, <1>5, <1>6, <2>1 DEF Counted
<1> QED
  BY <1>4, <1>5, <1>6, <1>7, <1>8, <1>9 DEF TableInv

\* A new entry is written to the free slot where the loop has stopped.
LEMMA EnterStep ==
  ASSUME MasksWork, TableInv, Open, NEW k \in Names, NEW d \in Datas, EnterNew(k, d)
  PROVE  /\ TableInv' /\ Open'
         /\ Item(k, d) \notin Kept /\ Kept' = Kept \cup {Item(k, d)}
         /\ Cardinality(Kept) < capacity
<1> DEFINE s == Stop(k, d)
<1>1. ~Found(k, d) /\ size # capacity /\ size' = size + 1
  BY DEF EnterNew
<1>2. data' = [data EXCEPT ![s] = Item(k, d)]
  BY DEF EnterNew, Item
<1>3. UNCHANGED <<hash, capacity, mask>>
  BY DEF EnterNew
<1>4. Item(k, d) \notin Kept
  BY <1>1, SearchFound
<1>5. PICK n \in 0 .. capacity - 1 :
        /\ s = Behind(Home(d), n) /\ s \notin Used
        /\ \A m \in 0 .. n - 1 : OtherKey(Behind(Home(d), m), k)
  BY <1>1, SearchFound
<1>6. /\ capacity \in Nat \ {0} /\ Home(d) \in 0 .. capacity - 1
      /\ s \in 0 .. capacity - 1
  BY <1>5, RingIs DEF TableInv
<1> HIDE DEF s
<1>7. /\ data \in [0 .. 2 * capacity - 1 -> Entries \cup {None}]
      /\ Item(k, d) \in Entries /\ None \notin Entries
  BY HashTableAssumption DEF TableInv, TableTypes, Entries, Item
<1>8. /\ data' \in [0 .. 2 * capacity - 1 -> Entries \cup {None}]
      /\ data'[s] = Item(k, d)
      /\ \A i \in 0 .. 2 * capacity - 1 : i # s => data'[i] = data[i]
  <2>1. s \in 0 .. 2 * capacity - 1
    BY <1>6
  <2> QED
    BY <1>2, <1>7, <2>1
<1>9. Item(k, d).key = k /\ Item(k, d).data = d
  BY DEF Item
<1>10. Used' = Used \cup {s}
  <2>1. s \in 0 .. 2 * capacity - 1
    BY <1>6
  <2>2. DOMAIN data = 0 .. 2 * capacity - 1 /\ DOMAIN data' = 0 .. 2 * capacity - 1
    BY <1>7, <1>8
  <2> QED
    BY <1>7, <1>8, <2>1, <2>2 DEF Used
<1>11. \A i \in Used : i \in 0 .. 2 * capacity - 1 /\ data'[i] = data[i] /\ data[i] \in Kept
  BY <1>5, <1>7, <1>8 DEF Used, Kept
<1>12. Kept' = Kept \cup {Item(k, d)}
  <2>1. Kept' = {data'[i] : i \in Used'}
    BY DEF Kept
  <2> QED
    BY <1>8, <1>10, <1>11, <2>1 DEF Kept
<1>13. Open'
  <2>1. s \in DOMAIN data' /\ 1 \in DOMAIN data'
    BY <1>6, <1>8
  <2>2. 1 \notin DOMAIN <<>>
    OBVIOUS
  <2> QED
    BY <2>1, <2>2 DEF Open
<1>14. TableTypes'
  BY <1>3, <1>8 DEF TableInv, TableTypes
<1>15. ASSUME NEW j, NEW x, OtherKey(j, x) PROVE j \in Used' /\ data'[j].key # x
  BY <1>10, <1>11, <1>15 DEF OtherKey
<1>16. Placed'
  <2> SUFFICES ASSUME NEW i \in Used'
               PROVE  i < capacity' /\ \A j \in Used' : data'[i] = data'[j] => i = j
    BY DEF Placed
  <2>1. CASE i = s
    BY <1>3, <1>4, <1>6, <1>8, <1>10, <1>11, <2>1
  <2>2. CASE i \in Used
    BY <1>3, <1>4, <1>8, <1>10, <1>11, <2>2 DEF TableInv, Placed
  <2> QED
    BY <1>10, <2>1, <2>2
<1>17. Reached'
  <2> SUFFICES ASSUME NEW i \in Used', NEW e \in 0 .. capacity - 1,
                      Behind(Home(data'[i].data), e) = i,
                      NEW m \in 0 .. e - 1
               PROVE  LET j == Behind(Home(data'[i].data), m) IN
                      j \in Used' /\ data'[j].key # data'[i].key
    BY <1>3 DEF Reached, OtherKey, Home, Behind
  <2>1. CASE i = s
    <3>1. data'[i].key = k /\ data'[i].data = d
      BY <1>8, <1>9, <2>1
    <3>2. e = n
      BY <1>5, <1>6, <2>1, <3>1 DEF Behind
    <3>3. OtherKey(Behind(Home(d), m), k)
      BY <1>5, <3>2
    <3> QED
      BY <1>15, <3>1, <3>3
  <2>2. CASE i \in Used
    <3>1. data'[i] = data[i]
      BY <1>11, <2>2
    <3>2. OtherKey(Behind(Home(data[i].data), m), data[i].key)
      BY <2>2, <3>1 DEF TableInv, Reached
    <3> QED
      BY <1>15, <3>1, <3>2
  <2> QED
    BY <1>10, <2>1, <2>2
<1>18. Counted' /\ Cardinality(Kept) < capacity
  <2>1. /\ IsFiniteSet(Used) /\ size = Cardinality(Used)
        /\ IsFiniteSet(Kept) /\ size = Cardinality(Kept)
        /\ size <= capacity
    BY DEF TableInv, Counted
  <2>2. size \in Nat
    BY <2>1, FS_CardinalityType
  <2>3. /\ IsFiniteSet(Used \cup {s}) /\ Cardinality(Used \cup {s}) = size + 1
        /\ IsFiniteSet(Kept \cup {Item(k, d)})
        /\ Cardinality(Kept \cup {Item(k, d)}) = size + 1
    BY <1>4, <1>5, <2>1, FS_AddElement
  <2>4. size < capacity
    BY <1>1, <1>6, <2>1, <2>2
  <2> QED
    BY <1>1, <1>3, <1>6, <1>10, <1>12, <2>1, <2>2, <2>3, <2>4 DEF Counted
<1> QED
  BY <1>4, <1>12, <1>13, <1>14, <1>16, <1>17, <1>18 DEF TableInv

LEMMA SameTable ==
  ASSUME TableInv, UNCHANGED <<hash, fields>>
  PROVE  TableInv' /\ UNCHANGED <<Kept, Limit>>
BY DEF fields, TableInv, TableTypes, Open, Placed, Reached, OtherKey, Counted, Used, Kept,
       Home, Behind, Limit

LEMMA NoTable ==
  ASSUME TableInv, CreateFails \/ Destroy
  PROVE  TableInv' /\ Kept' = {} /\ Limit' = 0
BY DEF CreateFails, Destroy, TableInv, TableTypes, Open, Kept, Used, Limit
-----------------------------------------------------------------------------
(***************************************************************************)
(* The refinement of EntryTable.                                           *)
(***************************************************************************)
LEMMA Counts == \A S : Table!Cardinality(S) = Cardinality(S)
BY DEF Table!Cardinality, Cardinality

LEMMA ItemIs == \A k, d : Table!Item(k, d) = Item(k, d)
BY DEF Table!Item, Item

LEMMA TableInitRefines == TableInit => Table!Init
BY DEF TableInit, Table!Init, Kept, Used, Limit, Open

LEMMA HitRefines ==
  ASSUME MasksWork, TableInv, NEW k \in Names, NEW d \in Datas, SearchHit(k, d)
  PROVE  TableInv' /\ Table!Hit(k, d)
<1> DEFINE s == Stop(k, d)
<1>1. /\ Open /\ Found(k, d) /\ reply' = data[s] /\ action' \in {"FIND", "ENTER"}
      /\ UNCHANGED <<hash, fields>>
  BY DEF SearchHit
<1>2. TableInv' /\ UNCHANGED <<Kept, Limit>>
  BY <1>1, SameTable
<1>3. Limit # 0
  BY <1>1, RingIs DEF TableInv, Limit
<1>4. s \in Used /\ data[s].key = k /\ (Item(k, d) \in Kept => data[s] = Item(k, d))
  BY <1>1, SearchFound
<1> HIDE DEF s
<1>5. data[s] \in Kept
  BY <1>4 DEF Kept
<1> QED
  BY <1>1, <1>2, <1>3, <1>4, <1>5, ItemIs DEF Table!Hit

LEMMA MissRefines ==
  ASSUME MasksWork, TableInv, NEW k \in Names, NEW d \in Datas, SearchMiss(k, d)
  PROVE  TableInv' /\ (Table!Miss(k, d) \/ Table!EnterFull(k))
<1>1. /\ Open /\ ~Found(k, d) /\ reply' = None
      /\ action' = "FIND" \/ (action' = "ENTER" /\ size = capacity)
      /\ UNCHANGED <<hash, fields>>
  BY DEF SearchMiss
<1>2. TableInv' /\ UNCHANGED <<Kept, Limit>>
  BY <1>1, SameTable
<1>3. Limit # 0 /\ Limit = capacity
  BY <1>1, RingIs DEF TableInv, Limit
<1>4. CASE action' = "FIND"
  <2>1. Item(k, d) \notin Kept
    BY <1>1, SearchFound
  <2> QED
    BY <1>1, <1>2, <1>3, <1>4, <2>1, ItemIs DEF Table!Miss
<1>5. CASE action' = "ENTER" /\ size = capacity
  <2>1. \A i \in Used : data[i].key # k
    BY <1>1, <1>5, SearchFound
  <2>2. ~Table!HasKey(k)
    BY <2>1 DEF Table!HasKey, Kept
  <2>3. Cardinality(Kept) = Limit
    BY <1>1, <1>3, <1>5 DEF TableInv, Counted
  <2> QED
    BY <1>1, <1>2, <1>3, <1>5, <2>2, <2>3, Counts DEF Table!EnterFull
<1> QED
  BY <1>1, <1>4, <1>5

LEMMA TableStepRefines ==
  ASSUME MasksWork, TableInv, [TableNext]_tableVars
  PROVE  TableInv' /\ [Table!Next]_<<Kept, Limit, action, reply>>
<1>1. ASSUME NEW nel \in Nels, Create(nel)
      PROVE  TableInv' /\ Table!Create(nel)
  <2>1. TableInv' /\ Open' /\ Kept' = {}
    BY <1>1, CreateStep
  <2>2. Limit' = nel /\ action' = "none" /\ reply' = None
    BY <1>1, <2>1 DEF Create, Limit
  <2> QED
    BY <2>1, <2>2 DEF Table!Create, Table!Fresh
<1>2. ASSUME CreateFails \/ Destroy
      PROVE  TableInv' /\ Table!Destroy
  BY <1>2, NoTable DEF CreateFails, Destroy, Table!Destroy, Table!Fresh
<1>3. ASSUME NEW k \in Names, NEW d \in Datas, EnterNew(k, d)
      PROVE  TableInv' /\ Table!EnterNew(k, d)
  <2>1. Open /\ capacity' = capacity /\ action' = "ENTER" /\ reply' = Item(k, d)
    BY <1>3 DEF EnterNew, Item
  <2>2. /\ TableInv' /\ Open'
        /\ Item(k, d) \notin Kept /\ Kept' = Kept \cup {Item(k, d)}
        /\ Cardinality(Kept) < capacity
    BY <1>3, <2>1, EnterStep
  <2>3. Limit' = Limit /\ Limit = capacity
    BY <2>1, <2>2 DEF Limit
  <2> QED
    BY <2>1, <2>2, <2>3, Counts, ItemIs DEF Table!EnterNew
<1>4. CASE UNCHANGED tableVars
  BY <1>4, SameTable DEF tableVars
<1> QED
  BY <1>1, <1>2, <1>3, <1>4, HitRefines, MissRefines DEF TableNext, Table!Next

\* hcreate_r, hsearch_r and hdestroy_r lose, overwrite or double no entry, find
\* every item that was entered, and refuse one only when nel entries of other keys
\* are there: for any hash function and whatever keys and data they are called
\* with, if the tables that are asked for are of a power of two.
THEOREM KeepsEntriesHolds ==
  ASSUME MasksWork
  PROVE  TableSpec => KeepsEntries
<1>1. TableInit => TableInv /\ Table!Init
  BY TableInvInit, TableInitRefines
<1>2. TableInv /\ [TableNext]_tableVars =>
        TableInv' /\ [Table!Next]_<<Kept, Limit, action, reply>>
  BY TableStepRefines
<1> QED
  BY <1>1, <1>2, PTL DEF TableSpec, KeepsEntries, Table!Spec, Table!vars
-----------------------------------------------------------------------------
LEMMA SearchSpecs == SearchSpec => TableSpec /\ Spec
<1>1. SearchInit => TableInit /\ Init
  BY DEF SearchInit
<1>2. [SearchNext]_searchVars => [TableNext]_tableVars /\ [Next]_vars
  BY DEF SearchNext, searchVars
<1> QED
  BY <1>1, <1>2, PTL DEF SearchSpec, TableSpec, Spec

\* All of it in the composition: whichever of the two the program uses, a call of
\* one leaves the other as it is.
THEOREM SearchCorrect ==
  ASSUME MasksWork
  PROVE  SearchSpec => /\ KeepsEntries /\ Implements
                       /\ []NodesOwned /\ []WalkInOrder
BY SearchSpecs, KeepsEntriesHolds, ImplementsSet, NodesOwnedHolds, WalkInOrderHolds
=============================================================================
