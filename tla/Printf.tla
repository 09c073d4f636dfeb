------------------------------- MODULE Printf -------------------------------
(***************************************************************************)
(* One call of printf.c's vsnprintf or vfprintf, from which the other      *)
(* functions of the family are made: the parser of a conversion, what a    *)
(* conversion writes, and the two functions that write.                    *)
(*                                                                         *)
(* The global flag f lets one call in at a time, and a call keeps nothing  *)
(* for the next.  A format is a sequence of characters, each a string of   *)
(* length one; NUL stands for its end.                                     *)
(***************************************************************************)
EXTENDS Conversions

CONSTANTS
  Calls,    \* [items, size] of every call: a sequence of items that makes the
            \* format and the arguments, and the size of the buffer or File
  Chunk     \* how much padding is written at once: 64

File == -1

ASSUME PrintfAssumption ==
  /\ Chunk \in Nat \ {0}
  /\ \A call \in Calls : GoodCall(call.items) /\ call.size \in Nat \cup {File}

VARIABLES
  items, size,          \* the call, for the properties
  format, args,         \* its arguments, as the code sees them
  pos, literal,         \* format and start_literal of the C code
  stage, spec,          \* of vprintf_parse_spec
  todo,                 \* what is to be written before the parser goes on
  rc, written, room,    \* info->rc, written and buf_size
  buffer, file,         \* what has been written, and where
  stored,               \* what %n has stored
  ret, pc

call == <<items, size>>
parser == <<format, args, pos, literal, stage, spec>>
output == <<written, room, buffer, file>>
vars == <<call, parser, todo, rc, output, stored, ret, pc>>

NUL == "NUL"
NoSpec == [flags |-> {}, width |-> None, prec |-> None, length |-> "none"]

RoomForAll(n) == n   \* mutant: no room for the NUL

\* buf_size == 0 ? 0 : buf_size - 1
Room(n) == IF n > 0 THEN n - 1 ELSE 0

Init ==
  /\ \E c \in Calls : items = c.items /\ size = c.size
  /\ format = FormatOf(items) /\ args = ArgumentsOf(items)
  /\ pos = 1 /\ literal = 1
  /\ stage = "flags" /\ spec = NoSpec
  /\ todo = <<>>
  /\ rc = "OK" /\ written = 0 /\ room = Room(size)
  /\ buffer = <<>> /\ file = <<>> /\ stored = <<>>
  /\ ret = 0 /\ pc = "format"

Char(i) == IF i \in 1 .. Len(format) THEN format[i] ELSE NUL

(***************************************************************************)
(* Writing.  A piece is what one call of write_fn gets.  If info->rc is    *)
(* not OK after it, the code leaves out the next piece.skip pieces: all    *)
(* that is left of a number, but only the rest of the same padding around  *)
(* a character or a string.                                                *)
(***************************************************************************)
Piece(text) == [text |-> text, skip |-> 0]

Padding(c, len) ==
  LET chunks == (len + Chunk - 1) \div Chunk
  IN IF len <= 0 THEN <<>>
     ELSE [i \in 1 .. chunks |->
             [text |-> Times(IF i < chunks THEN Chunk ELSE len - (chunks - 1) * Chunk, c),
              skip |-> chunks - i]]

AllChecked(pieces) ==
  [i \in 1 .. Len(pieces) |-> [pieces[i] EXCEPT !.skip = Len(pieces) - i]]

\* write_str
WriteStr(text) ==
  LET copy == IF Len(text) < room THEN Len(text) ELSE room
      at == Room(size) - room
  IN /\ written' = written + Len(text)
     /\ buffer' = [i \in DOMAIN buffer \cup at .. at + copy - 1 |->
                     IF i < at THEN buffer[i] ELSE text[i - at + 1]]
     /\ room' = room - copy
     /\ UNCHANGED <<rc, file>>

\* Mutant: a short write goes unnoticed.
WriteFdUnchecked(text, n) ==
  /\ written' = IF n = -1 THEN written ELSE written + n
  /\ file' = IF n = -1 THEN file ELSE file \o SubSeq(text, 1, n)
  /\ rc' = IF n = -1 THEN "ERR" ELSE rc
  /\ UNCHANGED <<room, buffer>>

\* write_fd, where write returns n.
WriteFd(text, n) ==
  /\ written' = IF n = -1 THEN written ELSE written + n
  /\ file' = IF n = -1 THEN file ELSE file \o SubSeq(text, 1, n)
  /\ rc' = CASE n = -1 -> "ERR" [] n = Len(text) -> rc [] OTHER -> "END"
  /\ UNCHANGED <<room, buffer>>

Write ==
  /\ pc = "write" /\ todo # <<>>
  /\ LET text == Head(todo).text
     IN IF size # File THEN WriteStr(text)
        ELSE \E n \in IF text = <<>> THEN {0} ELSE -1 .. Len(text) : WriteFd(text, n)
  /\ todo' = SubSeq(todo, 2 + (IF rc' = "OK" THEN 0 ELSE Head(todo).skip), Len(todo))
  /\ UNCHANGED <<call, parser, stored, ret, pc>>

\* The loop of vprintf_shared ends when info->rc is not OK.
Continue ==
  /\ pc = "write" /\ todo = <<>>
  /\ pc' = IF rc = "OK" THEN "format" ELSE "finish"
  /\ UNCHANGED <<call, parser, todo, rc, output, stored, ret>>
-----------------------------------------------------------------------------
(***************************************************************************)
(* The loop of vprintf_shared.                                             *)
(***************************************************************************)
Scan ==
  /\ pc = "format" /\ Char(pos) \notin {"%", NUL}
  /\ pos' = pos + 1
  /\ UNCHANGED <<call, format, args, literal, stage, spec, todo, rc, output, stored, ret, pc>>

Literal ==
  /\ pc = "format" /\ Char(pos) \in {"%", NUL} /\ literal # pos
  /\ todo' = <<Piece(SubSeq(format, literal, pos - 1))>>
  /\ literal' = pos
  /\ pc' = "write"
  /\ UNCHANGED <<call, format, args, pos, stage, spec, rc, output, stored, ret>>

StartSpec ==
  /\ pc = "format" /\ Char(pos) = "%" /\ literal = pos
  /\ pos' = pos + 1 /\ stage' = "flags" /\ spec' = NoSpec
  /\ pc' = "spec"
  /\ UNCHANGED <<call, format, args, literal, todo, rc, output, stored, ret>>

EndOfFormat ==
  /\ pc = "format" /\ Char(pos) = NUL /\ literal = pos
  /\ pc' = "finish"
  /\ UNCHANGED <<call, parser, todo, rc, output, stored, ret>>
-----------------------------------------------------------------------------
(***************************************************************************)
(* vprintf_parse_spec.  The loop reads a character, and the same character *)
(* may pass through several stages: No<Stage> is a stage that leaves it.   *)
(***************************************************************************)
IsDigit(c) == c \in DigitChars

\* strtol, called at a digit: where it stops, and the value.
NumberEnd(i) == CHOOSE j \in i .. Len(format) + 1 :
                  ~IsDigit(Char(j)) /\ \A k \in i .. j - 1 : IsDigit(Char(k))
NumberAt(i) ==
  LET value == [c \in DigitChars |-> CHOOSE d \in 0 .. 9 : Lower[d + 1] = c]
      v[j \in i - 1 .. NumberEnd(i) - 1] ==
        IF j < i THEN 0 ELSE 10 * v[j - 1] + value[Char(j)]
  IN v[NumberEnd(i) - 1]

Stage(s) == pc = "spec" /\ stage = s /\ Char(pos) # NUL

Parsed(sp, at, next) ==
  /\ spec' = sp /\ pos' = at /\ stage' = next
  /\ UNCHANGED <<call, format, literal, todo, rc, output, stored, ret, pc>>

\* errno is set, and info->rc ends the loop of the caller.
Fail ==
  /\ rc' = "ERR" /\ pc' = "finish"
  /\ UNCHANGED <<call, parser, todo, output, stored, ret>>

EndInSpec == pc = "spec" /\ Char(pos) = NUL /\ Fail

Flag ==
  /\ Stage("flags") /\ Char(pos) \in FlagChars
  /\ Parsed([spec EXCEPT !.flags = @ \cup {Char(pos)}], pos + 1, "flags")
  /\ UNCHANGED args

NoFlag ==
  /\ Stage("flags") /\ Char(pos) \notin FlagChars
  /\ Parsed(spec, pos, "width") /\ UNCHANGED args

WidthStar ==
  /\ Stage("width") /\ Char(pos) = "*"
  /\ LET w == Head(args).int
     IN Parsed([spec EXCEPT !.width = IF w < 0 THEN 0 - w ELSE w,
                            !.flags = IF w < 0 THEN @ \cup {"-"} ELSE @], pos + 1, "prec")
  /\ args' = Tail(args)

IsWidth == IsDigit(Char(pos)) /\ Char(pos) # "0"

WidthNumber ==
  /\ Stage("width") /\ IsWidth /\ NumberAt(pos) <= IntMax
  /\ Parsed([spec EXCEPT !.width = NumberAt(pos)], NumberEnd(pos), "prec")
  /\ UNCHANGED args

WidthTooLarge == Stage("width") /\ IsWidth /\ NumberAt(pos) > IntMax /\ Fail

NoWidth ==
  /\ Stage("width") /\ Char(pos) # "*" /\ ~IsWidth
  /\ Parsed(spec, pos, "prec") /\ UNCHANGED args

\* A negative precision is taken as none.
PrecStar ==
  /\ Stage("prec") /\ Char(pos) = "." /\ Char(pos + 1) = "*"
  /\ LET p == Head(args).int
     IN Parsed([spec EXCEPT !.prec = IF p < 0 THEN None ELSE p], pos + 2, "length")
  /\ args' = Tail(args)

PrecNumber ==
  /\ Stage("prec") /\ Char(pos) = "." /\ IsDigit(Char(pos + 1))
  /\ NumberAt(pos + 1) <= IntMax
  /\ Parsed([spec EXCEPT !.prec = NumberAt(pos + 1)], NumberEnd(pos + 1), "length")
  /\ UNCHANGED args

PrecTooLarge ==
  /\ Stage("prec") /\ Char(pos) = "." /\ IsDigit(Char(pos + 1))
  /\ NumberAt(pos + 1) > IntMax /\ Fail

PrecZero ==
  /\ Stage("prec") /\ Char(pos) = "."
  /\ ~IsDigit(Char(pos + 1)) /\ Char(pos + 1) # "*"
  /\ Parsed([spec EXCEPT !.prec = 0], pos + 1, "length")
  /\ UNCHANGED args

NoPrec ==
  /\ Stage("prec") /\ Char(pos) # "."
  /\ Parsed(spec, pos, "length") /\ UNCHANGED args

\* The code stores all but hh and h in spec->conv, where they are lost.
Length ==
  /\ Stage("length") /\ Char(pos) \in LengthChars
  /\ LET c == Char(pos)
         twice == c \in {"h", "l"} /\ Char(pos + 1) = c
     IN Parsed([spec EXCEPT !.length = IF c # "h" THEN @ ELSE IF twice THEN "hh" ELSE "h"],
               IF twice THEN pos + 2 ELSE pos + 1, "conv")
  /\ UNCHANGED args

NoLength ==
  /\ Stage("length") /\ Char(pos) \notin LengthChars
  /\ Parsed(spec, pos, "conv") /\ UNCHANGED args
-----------------------------------------------------------------------------
(***************************************************************************)
(* vprintf_write_spec: the pieces that a conversion writes.                *)
(***************************************************************************)
Around(pad, pieces) ==
  IF "-" \in spec.flags THEN pieces \o pad ELSE pad \o pieces

\* vprintf_conv_c and vprintf_conv_s
TextPieces(text) ==
  Around(IF spec.width = None THEN <<>> ELSE Padding(" ", spec.width - Len(text)),
         <<Piece(text)>>)

StringPieces(str) ==
  TextPieces(IF spec.prec # None /\ spec.prec < Len(str) THEN SubSeq(str, 1, spec.prec)
             ELSE str)

\* write_number
Digits(v, base, digit) ==
  LET left[i \in 0 .. v] == IF i = 0 THEN v ELSE left[i - 1] \div base
      k == CHOOSE k \in 0 .. v : left[k] = 0 /\ (k > 0 => left[k - 1] # 0)
  IN [i \in 1 .. k |-> digit[(left[k - i] % base) + 1]]

Prefix(conv, flags, v) ==
  CASE conv = "d" -> (IF v < 0 THEN <<"-">> ELSE IF "+" \in flags THEN <<"+">>
                      ELSE IF " " \in flags THEN <<" ">> ELSE <<>>)
    [] conv \in {"x", "X"} /\ "#" \in flags /\ v # 0 -> <<"0", conv>>
    [] OTHER -> <<>>

\* How many digits a number of len digits is written with.
Precision(conv, flags, len) ==
  LET min == IF spec.prec = None THEN 1 ELSE spec.prec
  IN IF conv = "o" /\ "#" \in flags /\ min <= len THEN len + 1
     ELSE IF len > min THEN len ELSE min

\* vprintf_output_int
NumberPieces(conv, flags, v) ==
  LET digits == Digits(IF v < 0 THEN 0 - v ELSE v, Base(conv),
                       IF conv = "X" THEN Upper ELSE Lower)
      prefix == Prefix(conv, flags, v)
      width == IF spec.width = None THEN 0 ELSE spec.width
      least == Precision(conv, flags, Len(digits))
      zeros == "0" \in flags /\ "-" \notin flags /\ spec.prec = None /\ width > least
      precision == IF zeros THEN width - Len(prefix) ELSE least
  IN AllChecked(Around(Padding(" ", width - precision - Len(prefix)),
                       (IF prefix = <<>> THEN <<>> ELSE <<Piece(prefix)>>)
                       \o Padding("0", precision - Len(digits))
                       \o <<Piece(digits)>>))

Pieces(conv, arg) ==
  LET word == Word[spec.length]
  IN CASE conv = "%" -> <<Piece(<<"%">>)>>
       [] conv = "n" -> <<>>
       [] conv = "c" -> TextPieces(arg.str)
       [] conv = "s" -> StringPieces(IF arg.str = Null THEN <<"(", "N", "U", "L", "L", ")">>
                                     ELSE arg.str)
       [] conv = "d" -> NumberPieces(conv, spec.flags, SignedOf(arg.int, word))
       [] conv \in {"o", "u", "x", "X"} ->
            NumberPieces(conv, spec.flags, UnsignedOf(arg.int, word))
       [] conv = "p" /\ arg.int = 0 -> StringPieces(<<"(", "n", "i", "l", ")">>)
       [] OTHER -> NumberPieces("x", spec.flags \cup {"#"}, arg.int)

ConversionChars == {"d", "i", "o", "u", "x", "X", "c", "s", "p", "n", "%"}

Conv(c) == IF c = "i" THEN "d" ELSE c

Convert ==
  /\ Stage("conv") /\ Char(pos) \in ConversionChars
  /\ LET conv == Conv(Char(pos))
         arg == IF conv = "%" THEN Arg(0, <<>>) ELSE Head(args)
     IN /\ todo' = Pieces(conv, arg)
        /\ args' = IF conv = "%" THEN args ELSE Tail(args)
        /\ stored' = IF conv = "n" THEN Append(stored, SignedOf(written, Word[spec.length]))
                     ELSE stored
  /\ pos' = pos + 1 /\ literal' = pos + 1
  /\ pc' = "write"
  /\ UNCHANGED <<call, format, stage, spec, rc, output, ret>>

BadConversion == Stage("conv") /\ Char(pos) \notin ConversionChars /\ Fail
-----------------------------------------------------------------------------
\* The end of vprintf_shared, and of vsnprintf.
Finish ==
  /\ pc = "finish"
  /\ ret' = IF rc = "ERR" THEN -1 ELSE written
  /\ buffer' = IF size <= 0 THEN buffer
                ELSE LET end == size - 1 - room
                     IN [i \in DOMAIN buffer \cup {end} |-> IF i = end THEN NUL ELSE buffer[i]]
  /\ pc' = "done"
  /\ UNCHANGED <<call, parser, todo, rc, written, room, file, stored>>

Parse ==
  \/ Flag \/ NoFlag
  \/ WidthStar \/ WidthNumber \/ WidthTooLarge \/ NoWidth
  \/ PrecStar \/ PrecNumber \/ PrecTooLarge \/ PrecZero \/ NoPrec
  \/ Length \/ NoLength
  \/ Convert \/ BadConversion \/ EndInSpec

Next ==
  \/ Scan \/ Literal \/ StartSpec \/ EndOfFormat
  \/ Parse
  \/ Write \/ Continue
  \/ Finish

Spec == Init /\ [][Next]_vars
-----------------------------------------------------------------------------
(***************************************************************************)
(* Properties.                                                             *)
(***************************************************************************)
Meant == TextOf(GoodPart(items))
AllGood == GoodPart(items) = items

\* vsnprintf returns the length of the whole text, or -1 for a format that is
\* not good; the buffer holds as much of the text as fits and a NUL, and no
\* other byte has been written, in a buffer of any size, padding that comes in
\* pieces included; and %n has stored the length of the text before it.
StringResult ==
  (pc = "done" /\ size # File) =>
    /\ ret = IF AllGood THEN Len(Meant) ELSE -1
    /\ buffer = IF size = 0 THEN <<>>
                ELSE LET n == IF Len(Meant) < size THEN Len(Meant) ELSE size - 1
                     IN [i \in 0 .. n |-> IF i = n THEN NUL ELSE Meant[i + 1]]
    /\ stored = Flat([i \in 1 .. Len(GoodPart(items)) |->
                       IF items[i].conv = "n" THEN <<Len(TextOf(SubSeq(items, 1, i - 1)))>>
                       ELSE <<>>])

\* Over a kernel that writes less than asked or fails at any call: vfprintf
\* returns -1 or what has reached the file, it returns the length of the whole
\* text exactly if all of it has, and nothing is written after a gap.  The last
\* is not so for a padded character or string: vprintf_conv_c and
\* vprintf_conv_s go on when the padding could not be written.
Padded(item) == item.conv \in {"c", "s", "p"} /\ item.width # None

FileResult ==
  (pc = "done" /\ size = File) =>
    /\ ret \in {-1, Len(file)}
    /\ ret = Len(Meant) <=> AllGood /\ file = Meant
    /\ (\A i \in 1 .. Len(items) : ~Padded(items[i])) =>
         Len(file) <= Len(Meant) /\ file = SubSeq(Meant, 1, Len(file))
=============================================================================
