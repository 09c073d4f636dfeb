------------------------------ MODULE MCStdio ------------------------------
(***************************************************************************)
(* Stdio with two threads and two streams on one file of at most three     *)
(* bytes, that may not be there at first.                                  *)
(***************************************************************************)
EXTENDS Stdio

CONSTANTS a, b, nl

MCModes == {<<"r">>, <<"w">>, <<"r", "+">>, <<"w", "x">>, <<"a", "+">>}
MCTexts == {<<>>, <<a, b>>}
MCFds == {3, 4}
MCStandard == << >>
Sym == Permutations(Threads) \cup Permutations(Streams)
=============================================================================
