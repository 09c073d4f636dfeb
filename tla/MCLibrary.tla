------------------------------ MODULE MCLibrary ------------------------------
(***************************************************************************)
(* The items 2k and 2k + 1 compare equal: qsort may leave them in any      *)
(* order, and a search may find either.  Four elements make a list with    *)
(* two ends and a middle, and one beside it that has been in it, or in     *)
(* another list.                                                           *)
(***************************************************************************)
EXTENDS Library

CONSTANTS e1, e2, e3, e4

MCItems == 0 .. 3
MCRank(x) == x \div 2
MCLetters == {1, 2}
MCModeLetters == {"r", "w", "a", "+", "b", "e", "u", "x", "z"}
Symmetry == Permutations({e1, e2, e3, e4})
=============================================================================
