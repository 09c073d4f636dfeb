------------------------------- MODULE Modes -------------------------------
(***************************************************************************)
(* The mode string of fopen (file.c): parse_mode reads it letter by        *)
(* letter, mode_to_flags and mode_to_mode_t make the arguments of open of  *)
(* it.  A mode is a sequence of letters.                                   *)
(***************************************************************************)
EXTENDS Integers, Sequences

\* The letters that are flags; each may be given once.
FlagLetters == {"+", "b", "e", "u", "x"}

\* access_mode; a letter that names none of them leaves it alone.
AccessOf ==
  [c \in {"r", "w", "a"} |-> IF c = "r" THEN "READ" ELSE IF c = "w" THEN "WRITE" ELSE "APPEND"]

\* fopen passes auto_u_flag.
NoInfo == [valid |-> TRUE, flags |-> {"u"}, access |-> "NONE"]

\* The letters that make parse_mode return false on the spot.
Refuses(info, c) ==
  \/ c \in info.flags
  \/ c = "u" /\ info.access = "READ"
  \/ c = "x" /\ info.access # "WRITE"
  \/ c \notin FlagLetters /\ info.access # "NONE"

ParseLetter(info, c) ==
  IF ~info.valid \/ Refuses(info, c) THEN [info EXCEPT !.valid = FALSE]
  ELSE IF c \in FlagLetters THEN [info EXCEPT !.flags = @ \cup {c}]
  ELSE [info EXCEPT !.access = IF c \in DOMAIN AccessOf THEN AccessOf[c] ELSE @]

Parse(mode) ==
  LET info[k \in 0 .. Len(mode)] ==
        IF k = 0 THEN NoInfo ELSE ParseLetter(info[k - 1], mode[k])
      last == info[Len(mode)]
  IN  [last EXCEPT !.valid = @ /\ last.access # "NONE"]

\* A mutation: O_TRUNC is asked for whenever O_CREAT is.
FlagsAlwaysTrunc(info) ==
  [read  |-> "+" \in info.flags \/ info.access = "READ",
   write |-> "+" \in info.flags \/ info.access # "READ",
   creat |-> info.access # "READ",
   trunc |-> info.access # "READ",
   app   |-> info.access = "APPEND",
   excl  |-> "x" \in info.flags]

\* O_RDWR is read and write.  O_CLOEXEC and the permissions of a new file are
\* nothing that a stream can tell.
Flags(info) ==
  [read  |-> "+" \in info.flags \/ info.access = "READ",
   write |-> "+" \in info.flags \/ info.access # "READ",
   creat |-> info.access # "READ",
   trunc |-> info.access = "WRITE",
   app   |-> info.access = "APPEND",
   excl  |-> "x" \in info.flags]
=============================================================================
