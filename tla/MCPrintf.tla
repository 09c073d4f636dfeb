------------------------------ MODULE MCPrintf ------------------------------
(***************************************************************************)
(* Printf with ints of 8 bits, shorts of 6 and chars of 4, and padding     *)
(* that is written two characters at a time.  The calls are one conversion *)
(* of each kind with every set of flags, and pairs of items that meet a    *)
(* buffer of each size and a file.                                         *)
(***************************************************************************)
EXTENDS Printf

AlphabetDef ==
  DigitChars \cup FlagChars \cup LengthChars
  \cup {"%", "*", ".", "a", "b", "c", "d", "e", "f", "A", "B", "C", "D", "E", "F", "i", "n", "o",
        "p", "s", "u", "x", "X", "N", "U", "(", ")", "k"}

WordDef == [none |-> 256, h |-> 64, hh |-> 16, l |-> 1024, ll |-> 1024, z |-> 1024]

MakeItem(conv, flags, width, prec, star, length, int, str) ==
  [conv |-> conv, flags |-> flags, width |-> width, prec |-> prec, star |-> star,
   length |-> length, int |-> int, str |-> str]

Plain(conv, int, str) == MakeItem(conv, <<>>, None, None, {}, "none", int, str)
Text(str) == Plain("text", 0, str)

Ints == {0, 9, 200, -8}

FlagTexts == {SelectSeq(<<"-", "+", " ", "0", "#">>, LAMBDA c : c \in s) : s \in SUBSET FlagChars}

\* Every set of flags with widths and precisions.  C does not define what a
\* precision means for a pointer; printf.c cuts "(nil)" to it.
Numbers ==
  {MakeItem(conv, flags, width, prec, {}, "none", int, <<>>) :
     conv \in {"d", "u", "o", "x", "X"}, flags \in FlagTexts,
     width \in {None, 2, 5}, prec \in {None, 0, 3}, int \in Ints}
  \cup {MakeItem("p", flags, width, None, {}, "none", int, <<>>) :
          flags \in FlagTexts, width \in {None, 2, 6}, int \in {0, 9, 200}}

\* The lengths, with arguments that they cut off, and widths from arguments.
\* For l, ll and z the argument is an int: the code reads no more.
Lengths ==
  {MakeItem(conv, <<>>, None, None, {}, length, int, <<>>) :
     conv \in {"d", "u"}, length \in {"h", "hh"}, int \in {40, -40, 100, 255}}
  \cup {MakeItem(conv, <<>>, None, None, {}, length, 100, <<>>) :
          conv \in {"d", "u"}, length \in {"l", "ll", "z"}}
  \cup {MakeItem("d", flags, width, prec, {"width", "prec"}, "none", 9, <<>>) :
          flags \in {<<>>, <<"0">>, <<"-">>, <<"0", "-">>}, width \in {-5, 0, 4}, prec \in {-1, 0, 2}}

Texts ==
  {MakeItem(conv, flags, width, None, {}, "none", 1, <<"a">>) :
     conv \in {"c", "%"}, flags \in {<<>>, <<"-">>}, width \in {None, 1, 4}}
  \cup {MakeItem("s", flags, width, prec, {}, "none", 0, str) :
          flags \in {<<>>, <<"-">>}, width \in {None, 2, 6}, prec \in {None, 0, 2},
          str \in {<<>>, <<"a", "b", "c">>, Null}}

Bad ==
  {Plain("none", 0, <<>>), Plain("k", 0, <<>>),
   MakeItem("none", <<"0">>, 3, 1, {}, "z", 0, <<>>),
   MakeItem("d", <<>>, 300, None, {}, "none", 1, <<>>),
   MakeItem("d", <<>>, None, 300, {}, "none", 1, <<>>)}

\* Items that are combined.
Some ==
  {Text(<<"a", "b", "c">>), Plain("i", -7, <<>>), Plain("n", 0, <<>>), Plain("%", 0, <<>>),
   MakeItem("d", <<"0", "+", "0">>, 5, None, {}, "none", 9, <<>>),
   MakeItem("x", <<"#", "-">>, 6, None, {}, "none", 26, <<>>),
   MakeItem("s", <<>>, None, 2, {}, "none", 0, <<"a", "b", "c">>),
   MakeItem("s", <<>>, 5, None, {}, "none", 0, <<"a", "b">>),
   MakeItem("c", <<"-">>, 4, None, {}, "none", 0, <<"d">>),
   Plain("p", 0, <<>>)}

CallsDef ==
  {[items |-> <<i>>, size |-> 9] : i \in Numbers \cup Lengths \cup Texts \cup Bad}
  \cup {[items |-> <<i, j>>, size |-> n] :
          i \in Some, j \in Some \cup Bad, n \in {File, 0, 1, 4, 20}}
=============================================================================
