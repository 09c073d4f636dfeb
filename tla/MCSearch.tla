------------------------------ MODULE MCSearch ------------------------------
(***************************************************************************)
(* The hash table with three keys, two strings of data and every hash      *)
(* function from these to 0..3, in tables for at most four entries.        *)
(*                                                                         *)
(* The tree with five keys: a node that is deleted with two branches, the  *)
(* left one of them with a rightmost child that is not its root, and a     *)
(* parent above, in every order of insertions and deletions.               *)
(***************************************************************************)
EXTENDS Search, TLC

CONSTANTS k1, k2, k3, d1, d2, n1, n2, n3, n4, n5

NamesDef == {k1, k2, k3}

DatasDef == {d1, d2}

HashesDef == 0 .. 3

Pow2Nels == {1, 2, 4}

OddNels == {3}

\* a & b: the bits that both have.
Bits(a) == {i \in 0 .. 3 : (a \div 2 ^ i) % 2 = 1}

AndTable == [a, b \in 0 .. 15 |-> CHOOSE c \in 0 .. 15 : Bits(c) = Bits(a) \cap Bits(b)]

MCBitAnd(a, b) == AndTable[a, b]

NodesDef == {n1, n2, n3, n4, n5}

KeysDef == 1 .. 5

Symmetry == Permutations(NodesDef) \cup Permutations(NamesDef) \cup Permutations(DatasDef)

\* What the theorems about HashTable assume holds of powers of two.
ASSUME Nels = Pow2Nels => MasksWork
=============================================================================
