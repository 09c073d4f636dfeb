------------------------------ MODULE MCStrto ------------------------------
(***************************************************************************)
(* Strto with a width of six bits, -32 .. 31, and three digits in a string *)
(* after what may stand before them: every base has numbers on both sides  *)
(* of both bounds.                                                         *)
(***************************************************************************)
EXTENDS Strto

Starts == {<<>>, <<Minus>>, <<Plus>>, <<Space, Minus>>, <<Minus, Space>>, <<Space, Space>>}

MCChars == {0, 1, 2, 3, 15, X, Other}

Bodies == UNION {[1 .. k -> MCChars] : k \in 0 .. 3}

StringsDef == {s \o b : s \in Starts, b \in Bodies}

\* 1 and 37 are rejected; 0 takes the base from the prefix.
BasesDef == {0, 1, 4, 10, 16, 36, 37}
=============================================================================
