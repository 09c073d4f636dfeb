---------------------------- MODULE Conversions ----------------------------
(***************************************************************************)
(* What a format of the printf family means, for the conversions that      *)
(* printf.c supports: a reference for Printf.  A format is a sequence of   *)
(* items, each a piece of text or a conversion with its argument.          *)
(***************************************************************************)
EXTENDS Integers, Sequences

CONSTANTS
  Alphabet, \* the characters of formats and texts
  Word,     \* how many values a type of each length has: a function of
            \* "none" (int), "hh", "h", "l", "ll" and "z"
  IntMax    \* INT_MAX, the largest width and precision

DigitChars == {"0", "1", "2", "3", "4", "5", "6", "7", "8", "9"}
FlagChars == {"-", "+", " ", "0", "#"}
LengthChars == {"h", "l", "j", "z", "t", "L"}

ASSUME AlphabetAssumption ==
  /\ DigitChars \cup FlagChars \cup LengthChars \cup {"%", "*", "."} \subseteq Alphabet
  /\ {"a", "b", "c", "d", "e", "f", "A", "B", "C", "D", "E", "F", "i", "n", "o", "p", "s", "u",
      "x", "X", "N", "U", "(", ")"} \subseteq Alphabet
  /\ {"text", "none", "NULL", "NUL"} \cap Alphabet = {}

ASSUME WordAssumption ==
  /\ Word \in [{"none", "hh", "h", "l", "ll", "z"} -> Nat \ {0}]
  /\ IntMax \in Nat /\ Word["none"] = 2 * (IntMax + 1)
  /\ \A length \in {"l", "ll", "z"} : Word[length] >= Word["none"]

(***************************************************************************)
(* The fields of an item:                                                  *)
(*   conv          "text", or the conversion character; any other text is  *)
(*                 a conversion that printf.c does not know, and "none" the *)
(*                 end of the format                                       *)
(*   flags         the flag characters                                     *)
(*   width, prec   the number, or None; in the format or as an argument    *)
(*   star          which of "width" and "prec" is an argument: a "*"       *)
(*   length        the length modifier                                     *)
(*   int, str      the argument, or the text; str = Null for (char * )NULL *)
(***************************************************************************)
None == -IntMax - 1   \* INT_MIN, which has no negative, is no width
Null == <<"NULL">>

Item == [conv : Alphabet \cup {"text", "none"}, flags : Seq(FlagChars),
         width : Int, prec : Int, star : SUBSET {"width", "prec"},
         length : DOMAIN Word, int : Int, str : Seq(Alphabet) \cup {Null}]

Lower == <<"0", "1", "2", "3", "4", "5", "6", "7", "8", "9", "a", "b", "c", "d", "e", "f">>
Upper == <<"0", "1", "2", "3", "4", "5", "6", "7", "8", "9", "A", "B", "C", "D", "E", "F">>

Flat(seqs) ==
  LET f[i \in 0 .. Len(seqs)] == IF i = 0 THEN <<>> ELSE f[i - 1] \o seqs[i] IN f[Len(seqs)]

Times(n, c) == [i \in 1 .. n |-> c]
AtLeast(m, n) == IF m < n THEN n ELSE m

\* v in base b, with at least n digits.
Numeral(v, b, n, digits) ==
  LET power[i \in 0 .. v] == IF i = 0 THEN 1 ELSE b * power[i - 1]
      k == CHOOSE k \in 0 .. v : power[k] > v /\ (k > 0 => power[k - 1] <= v)
  IN Times(AtLeast(n - k, 0), "0")
     \o [i \in 1 .. k |-> digits[((v \div power[k - i]) % b) + 1]]

Base(conv) == CASE conv = "o" -> 8 [] conv \in {"x", "X", "p"} -> 16 [] OTHER -> 10

\* The argument in the type that the length modifier names.
SignedOf(i, w) == ((i + (w \div 2)) % w) - (w \div 2)
UnsignedOf(i, w) == i % w

\* printf.c knows the conversion, and its numbers are ints.
Known == {"text", "%", "n", "d", "i", "u", "o", "x", "X", "c", "s", "p"}
IsGood(item) == item.conv \in Known /\ item.width <= IntMax /\ item.prec <= IntMax

HasFlag(item, c) == \E i \in 1 .. Len(item.flags) : item.flags[i] = c

\* A negative width is the flag "-"; a negative precision is none.
LeftAligned(item) == HasFlag(item, "-") \/ (item.width # None /\ item.width < 0)
Width(item) == IF item.width = None THEN 0
               ELSE IF item.width < 0 THEN 0 - item.width ELSE item.width
HasPrec(item) == item.prec # None /\ item.prec >= 0

Justified(item, text) ==
  LET pad == Times(AtLeast(Width(item) - Len(text), 0), " ")
  IN IF LeftAligned(item) THEN text \o pad ELSE pad \o text

Sign(item, v) ==
  IF v < 0 THEN <<"-">> ELSE IF HasFlag(item, "+") THEN <<"+">>
  ELSE IF HasFlag(item, " ") THEN <<" ">> ELSE <<>>

\* A number, given what stands before it and its digits.
Number(item, prefix, v, alternative, digits) ==
  LET b == Base(item.conv)
      plain == Numeral(v, b, IF HasPrec(item) THEN item.prec ELSE 1, digits)
      body == IF alternative /\ (plain = <<>> \/ plain[1] # "0")
                THEN <<"0">> \o plain ELSE plain
      room == Width(item) - Len(prefix)
  IN IF HasFlag(item, "0") /\ ~LeftAligned(item) /\ ~HasPrec(item) /\ room > Len(body)
       THEN prefix \o Numeral(v, b, room, digits)
       ELSE Justified(item, prefix \o body)

Meaning(item) ==
  LET w == Word[item.length]
      signed == SignedOf(item.int, w)
      unsigned == UnsignedOf(item.int, w)
      hex == IF HasFlag(item, "#") /\ unsigned # 0
               THEN IF item.conv = "X" THEN <<"0", "X">> ELSE <<"0", "x">> ELSE <<>>
  IN CASE item.conv = "text" -> item.str
       [] item.conv = "%"    -> <<"%">>
       [] item.conv = "n"    -> <<>>
       [] item.conv \in {"d", "i"} ->
            Number(item, Sign(item, signed), IF signed < 0 THEN 0 - signed ELSE signed,
                   FALSE, Lower)
       [] item.conv \in {"u", "o"} ->
            Number(item, <<>>, unsigned, item.conv = "o" /\ HasFlag(item, "#"), Lower)
       [] item.conv = "x"    -> Number(item, hex, unsigned, FALSE, Lower)
       [] item.conv = "X"    -> Number(item, hex, unsigned, FALSE, Upper)
       [] item.conv = "c"    -> Justified(item, item.str)
       [] item.conv = "s"    ->
            LET s == IF item.str = Null THEN <<"(", "N", "U", "L", "L", ")">> ELSE item.str
            IN Justified(item, IF HasPrec(item) /\ item.prec < Len(s)
                                 THEN SubSeq(s, 1, item.prec) ELSE s)
       [] item.conv = "p"    ->
            IF item.int = 0 THEN Justified(item, <<"(", "n", "i", "l", ")">>)
            ELSE Number(item, <<"0", "x">>, item.int, FALSE, Lower)
-----------------------------------------------------------------------------
(***************************************************************************)
(* The items as a program writes them.                                     *)
(***************************************************************************)
NumberText(n) == Numeral(n, 10, 1, Lower)

WidthText(item) ==
  IF item.width = None THEN <<>>
  ELSE IF "width" \in item.star THEN <<"*">> ELSE NumberText(item.width)

PrecText(item) ==
  IF item.prec = None THEN <<>>
  ELSE IF "prec" \in item.star THEN <<".", "*">>
  ELSE IF item.prec = 0 THEN <<".">> ELSE <<".">> \o NumberText(item.prec)

LengthText(item) ==
  CASE item.length = "none" -> <<>>
    [] item.length = "hh" -> <<"h", "h">>
    [] item.length = "ll" -> <<"l", "l">>
    [] OTHER -> <<item.length>>

ConvText(item) == IF item.conv = "none" THEN <<>> ELSE <<item.conv>>

Rendered(item) ==
  IF item.conv = "text" THEN item.str
  ELSE <<"%">> \o item.flags \o WidthText(item) \o PrecText(item)
       \o LengthText(item) \o ConvText(item)

Arg(int, str) == [int |-> int, str |-> str]

Arguments(item) ==
  (IF "width" \in item.star THEN <<Arg(item.width, <<>>)>> ELSE <<>>)
  \o (IF "prec" \in item.star THEN <<Arg(item.prec, <<>>)>> ELSE <<>>)
  \o (IF item.conv \in {"text", "%"} THEN <<>> ELSE <<Arg(item.int, item.str)>>)

\* The items before the first that is not good.
GoodPart(items) ==
  SubSeq(items, 1, CHOOSE n \in 0 .. Len(items) :
                     /\ \A i \in 1 .. n : IsGood(items[i])
                     /\ n < Len(items) => ~IsGood(items[n + 1]))

FormatOf(items) == Flat([i \in 1 .. Len(items) |-> Rendered(items[i])])
ArgumentsOf(items) == Flat([i \in 1 .. Len(items) |-> Arguments(items[i])])
TextOf(items) == Flat([i \in 1 .. Len(items) |-> Meaning(items[i])])
-----------------------------------------------------------------------------
(***************************************************************************)
(* The calls that a program may make.                                      *)
(***************************************************************************)
\* A text has a character and no "%".  A number in the format is not negative, and
\* a width of 0 would be the flag "0".  What ends a conversion is no part of one.
IsWritten(item) ==
  IF item.conv = "text" THEN
    /\ item.star = {} /\ item.width = None /\ item.prec = None
    /\ item.str \in Seq(Alphabet \ {"%"}) \ {<<>>}
  ELSE
    /\ item.conv \notin DigitChars \cup FlagChars \cup LengthChars \cup {"*", "."}
    /\ item.width \in IF "width" \in item.star THEN -IntMax .. IntMax
                      ELSE {None} \cup (Nat \ {0})
    /\ item.prec \in IF "prec" \in item.star THEN -IntMax .. IntMax ELSE {None} \cup Nat

\* C does not define what a precision means for a pointer.  Where the code reads an
\* int and should read something longer, the argument is one that an int holds.
HasArgument(item) ==
  /\ item.conv = "c" => item.str # Null /\ Len(item.str) = 1
  /\ item.conv = "p" => item.int \in Nat /\ item.prec = None
  /\ item.length \in {"l", "ll", "z"} => item.int \in 0 .. IntMax

\* The length that the code stores.
LengthRead(item) == IF item.length \in {"hh", "h"} THEN item.length ELSE "none"

\* Only the last conversion may lack its end, and %n has room for what it stores.
GoodCall(items) ==
  /\ items \in Seq(Item)
  /\ \A i \in 1 .. Len(items) :
       /\ IsWritten(items[i]) /\ HasArgument(items[i])
       /\ items[i].conv = "none" => i = Len(items)
  /\ \A i \in 1 .. Len(GoodPart(items)) :
       items[i].conv = "n" =>
         Len(TextOf(SubSeq(items, 1, i - 1))) < Word[LengthRead(items[i])] \div 2
=============================================================================
