------------------------------- MODULE Library -------------------------------
(***************************************************************************)
(* The functions that work on nothing but what the program gives them      *)
(* (and strtok, which remembers a place in it): a program that calls one   *)
(* of those on arrays, or on strings, that keeps lists with insque and     *)
(* remque, or that gives fopen a mode.                                     *)
(***************************************************************************)
EXTENDS Arrays, Strings, Queue, Modes

CONSTANTS
  ModeLetters,  \* what a mode may be made of
  MaxMode       \* its length: a bound

ASSUME ModesAssumption == MaxMode \in Nat

VARIABLES
  job,   \* which of them the program calls
  mode   \* the mode it calls fopen with

libraryVars == <<job, mode, arrayVars, stringVars, queueVars>>

FlagOrders == {<<>>, <<"b">>, <<"+">>, <<"+", "b">>, <<"b", "+">>}

LibraryInit ==
  /\ QueueInit
  /\ \/ job = "arrays" /\ mode = <<>> /\ ArraysInit /\ StringsIdle
     \/ job = "strings" /\ mode = <<>> /\ ArraysIdle /\ StringsInit
     \/ job = "lists" /\ mode = <<>> /\ ArraysIdle /\ StringsIdle
     \/ /\ job = "fopen" /\ ArraysIdle /\ StringsIdle
        /\ \E n \in 0 .. MaxMode : mode \in [1 .. n -> ModeLetters]

LibraryNext ==
  /\ \/ job = "arrays" /\ ArraysNext /\ UNCHANGED <<stringVars, queueVars>>
     \/ job = "strings" /\ StringsNext /\ UNCHANGED <<arrayVars, queueVars>>
     \/ job = "lists" /\ QueueNext /\ UNCHANGED <<arrayVars, stringVars>>
  /\ UNCHANGED <<job, mode>>

LibrarySpec == LibraryInit /\ [][LibraryNext]_libraryVars
-----------------------------------------------------------------------------
\* The modes of C11: r, w or a, then b and + in any order, and x after them if
\* the file is to be written anew.
StandardModes ==
  {<<"w">> \o s \o <<"x">> : s \in FlagOrders}
    \cup UNION {{<<c>> \o s : s \in FlagOrders} : c \in {"r", "w", "a"}}

\* Every mode of the standard opens a file the way its letters say, and no
\* mode that is accepted, of the standard or not, is for two of r, w and a,
\* has a letter of a flag twice, or asks for a new file and does not write it.
ModeMeans ==
  LET Has(c) == c \in Range(mode)
      info == Parse(mode)
  IN  /\ mode \in StandardModes =>
           /\ info.valid
           /\ Flags(info) =
                [read  |-> Has("r") \/ Has("+"), write |-> ~Has("r") \/ Has("+"),
                 creat |-> ~Has("r"), trunc |-> Has("w"), app |-> Has("a"), excl |-> Has("x")]
      /\ info.valid =>
           /\ \E k \in DOMAIN mode :
                /\ mode[k] \in {"r", "w", "a"}
                /\ \A j \in DOMAIN mode \ {k} :
                     /\ mode[j] \notin {"r", "w", "a"}
                     /\ j > k => mode[j] \in FlagLetters
           /\ \A j, k \in DOMAIN mode : mode[j] = mode[k] /\ mode[j] \in FlagLetters => j = k
           /\ Flags(info).trunc \/ Flags(info).excl => Flags(info).write /\ Flags(info).creat
=============================================================================
