------------------------------- MODULE Tokens -------------------------------
(***************************************************************************)
(* What strtok promises: a text is cut into its tokens, one at a call,     *)
(* with delimiters that may change from call to call.  The tokens that     *)
(* were returned stay as they are.                                         *)
(***************************************************************************)
EXTENDS Integers, Sequences

CONSTANTS
  Letters,  \* what a text is made of
  NoText    \* the text when no token is left

VARIABLES
  text,    \* what is still to be cut
  tokens   \* what the calls have returned

Init == text \in Seq(Letters) /\ tokens = <<>>

\* The place of the first letter at which Stop holds, or behind the last one.
FirstIn(s, Stop(_)) ==
  CHOOSE k \in 1 .. Len(s) + 1 :
    /\ k <= Len(s) => Stop(s[k])
    /\ \A j \in 1 .. k - 1 : ~Stop(s[j])

\* The delimiters before the token are skipped, the one after it goes too.
Next(delims) ==
  LET start == FirstIn(text, LAMBDA c : c \notin delims)
      rest == SubSeq(text, start, Len(text))
      end == FirstIn(rest, LAMBDA c : c \in delims)
  IN  IF rest = <<>> THEN text' = NoText /\ UNCHANGED tokens
      ELSE /\ tokens' = Append(tokens, SubSeq(rest, 1, end - 1))
           /\ text' = SubSeq(rest, end + 1, Len(rest))

Spec ==
  Init /\ [][text # NoText /\ \E delims \in SUBSET Letters : Next(delims)]_<<text, tokens>>
=============================================================================
