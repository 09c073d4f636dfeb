------------------------------- MODULE Strto -------------------------------
(***************************************************************************)
(* The number parsers of atoi.c: atoi, atol and atoll ("atoi"), strtol,    *)
(* strtoll and strtoimax ("strtol"), strtoul, strtoull and strtoumax       *)
(* ("strtoul").  The functions of a family differ only in the width of     *)
(* what they return, which is a constant here.                             *)
(*                                                                         *)
(* A character is a number: a digit or letter, in either case, is its      *)
(* value as a digit.  The loops take one step for a character.             *)
(***************************************************************************)
EXTENDS Integers, Sequences

CONSTANTS
  Max,      \* LONG_MAX and the like; the minimum is -Max - 1
  Bases,    \* the bases that callers pass, good and bad
  Strings   \* what they pass to be read

X == 33         \* the letter x
Space == 36     \* what isspace accepts
Plus == 37
Minus == 38
Other == 39
NUL == 40
Chars == 0 .. 39

ASSUME StrtoAssumption ==
  Max \in Nat /\ Bases \subseteq Int /\ Strings \subseteq Seq(Chars)

UMax == 2 * Max + 1   \* ULONG_MAX

VARIABLES
  fn, str,  \* the function, and its argument
  base,     \* the base, known once the prefix is read
  pos,      \* str of the C code: where the next character is
  sign,     \* STRTO_RET
  n,        \* the number so far
  overflow,
  errno, ret, end,  \* what the call leaves behind: end is *str_end
  exact,    \* history: the digits so far as an unbounded number
  first,    \* history: where the loop over the digits began
  pc

args == <<fn, str>>
results == <<errno, ret, end>>
vars == <<args, base, pos, sign, n, overflow, results, exact, first, pc>>

Functions == {"atoi", "strtol", "strtoul"}

Init ==
  /\ fn \in Functions
  /\ str \in Strings
  /\ base \in IF fn = "atoi" THEN {10} ELSE Bases
  /\ pos = 1 /\ sign = 1
  /\ n = 0 /\ overflow = FALSE
  /\ errno = "none" /\ ret = 0 /\ end = 0
  /\ exact = 0 /\ first = 1
  /\ pc = "start"

Char(i) == IF i \in 1 .. Len(str) THEN str[i] ELSE NUL

GoodBase(b) == b = 0 \/ b \in 2 .. 36

\* strto_start: the call returns 0, and *str_end is left alone.
Reject ==
  /\ pc = "start"
  /\ ~GoodBase(base)
  /\ errno' = "EINVAL"
  /\ pc' = "done"
  /\ UNCHANGED <<args, base, pos, sign, n, overflow, ret, end, exact, first>>

Begin ==
  /\ pc = "start"
  /\ GoodBase(base)
  /\ pc' = "space"
  /\ UNCHANGED <<args, base, pos, sign, n, overflow, results, exact, first>>

\* atoi_start
SkipSpace ==
  /\ pc = "space"
  /\ Char(pos) = Space
  /\ pos' = pos + 1
  /\ UNCHANGED <<args, base, sign, n, overflow, results, exact, first, pc>>

ReadSign ==
  /\ pc = "space"
  /\ Char(pos) # Space
  /\ sign' = IF Char(pos) = Minus THEN -1 ELSE 1
  /\ pos' = IF Char(pos) \in {Plus, Minus} THEN pos + 1 ELSE pos
  /\ pc' = "prefix"
  /\ UNCHANGED <<args, base, n, overflow, results, exact, first>>

HexPrefix == Char(pos) = 0 /\ Char(pos + 1) = X /\ base \in {0, 16}

\* The rest of strto_start, which atoi does not have.
ReadPrefix ==
  /\ pc = "prefix"
  /\ \/ /\ fn = "atoi"
        /\ UNCHANGED <<base, pos>>
     \/ /\ fn # "atoi" /\ HexPrefix
        /\ base' = 16
        /\ pos' = pos + 2
     \/ /\ fn # "atoi" /\ Char(pos) = 0 /\ ~HexPrefix
        /\ base' = IF base = 0 THEN 8 ELSE base
        /\ pos' = pos + 1
     \/ /\ fn # "atoi" /\ Char(pos) # 0
        /\ base' = IF base = 0 THEN 10 ELSE base
        /\ UNCHANGED pos
  /\ first' = pos'
  /\ pc' = "digits"
  /\ UNCHANGED <<args, sign, n, overflow, results, exact>>

\* to_base_n(base, c) # -1, and then its value is c.
IsDigit(c) == c < base

(***************************************************************************)
(* read_neg_int counts down and read_pos_int counts up, to "max".  What    *)
(* the code compares with are max / base and max % base, without the sign. *)
(***************************************************************************)
Down == sign = -1 /\ fn # "strtoul"
Limit == IF fn = "strtoul" THEN UMax ELSE IF Down THEN Max + 1 ELSE Max
Signed(i) == IF Down THEN 0 - i ELSE i

\* Mutations: the last digit is compared with the wrong bound, or not at all.
FitsLess(d) ==
  \/ Signed(n) < Limit \div base
  \/ Signed(n) = Limit \div base /\ d < Limit % base
FitsAnyDigit(d) == Signed(n) <= Limit \div base

\* Steps 1 and 2 of the comment above read_pos_int.
Fits(d) ==
  \/ Signed(n) < Limit \div base
  \/ Signed(n) = Limit \div base /\ d <= Limit % base

ReadDigit ==
  LET d == Char(pos) IN
  /\ pc = "digits"
  /\ IsDigit(d)
  /\ IF Fits(d)
       THEN n' = n * base + Signed(d) /\ UNCHANGED <<overflow, pc>>
       ELSE n' = Signed(Limit) /\ overflow' = TRUE /\ pc' = "skip"
  /\ exact' = exact * base + d
  /\ pos' = pos + 1
  /\ UNCHANGED <<args, base, sign, results, first>>

\* The inner loop of step 3.
SkipDigit ==
  /\ pc = "skip"
  /\ IsDigit(Char(pos))
  /\ exact' = exact * base + Char(pos)
  /\ pos' = pos + 1
  /\ UNCHANGED <<args, base, sign, n, overflow, results, first, pc>>

\* 0 for a number that atoi cannot represent; a negative number of strtoul is
\* negated in its unsigned type.
Result ==
  IF overflow THEN (IF fn = "atoi" THEN 0 ELSE n)
  ELSE IF fn = "strtoul" /\ sign = -1 THEN (-n) % (UMax + 1)
  ELSE n

\* A mutation: the number ends where it has overflowed.
ReturnEarly ==
  /\ pc \in {"digits", "skip"}
  /\ overflow \/ ~IsDigit(Char(pos))
  /\ ret' = Result
  /\ end' = IF fn = "atoi" THEN end ELSE pos
  /\ errno' = IF overflow /\ fn # "atoi" THEN "ERANGE" ELSE errno
  /\ pc' = "done"
  /\ UNCHANGED <<args, base, pos, sign, n, overflow, exact, first>>

\* The macros ATOI, STRTOL and STRTOUL, from the end of the loop on.
Return ==
  /\ pc \in {"digits", "skip"}
  /\ ~IsDigit(Char(pos))
  /\ ret' = Result
  /\ end' = IF fn = "atoi" THEN end ELSE pos
  /\ errno' = IF overflow /\ fn # "atoi" THEN "ERANGE" ELSE errno
  /\ pc' = "done"
  /\ UNCHANGED <<args, base, pos, sign, n, overflow, exact, first>>

Next ==
  \/ Reject \/ Begin \/ SkipSpace \/ ReadSign \/ ReadPrefix
  \/ ReadDigit \/ SkipDigit \/ Return

Spec == Init /\ [][Next]_vars
-----------------------------------------------------------------------------
\* No intermediate value leaves the type that it is computed in: uintmax_t when
\* counting up and intmax_t when counting down, where overflow is undefined.
TypeOK ==
  /\ fn \in Functions /\ str \in Strings
  /\ base \in Int /\ pos \in Nat \ {0} /\ first \in Nat \ {0} /\ sign \in {-1, 1}
  /\ Signed(n) \in 0 .. Limit
  /\ overflow \in BOOLEAN /\ exact \in Nat
  /\ errno \in {"none", "EINVAL", "ERANGE"} /\ ret \in Int /\ end \in Nat
  /\ pc \in {"start", "space", "prefix", "digits", "skip", "done"}
  /\ pc \in {"digits", "skip"} => base \in 2 .. 36

\* What is returned is the number that was written, for every base and width:
\* strtol returns the nearest bound and ERANGE exactly when it does not fit,
\* down to the last digit of either bound; strtoul negates modulo the width, and
\* an overflow wins over the sign; atoi gives 0 for what does not fit.
ReturnsValue ==
  LET value == IF sign = -1 THEN -exact ELSE exact
      inside == value \in -Max - 1 .. Max
  IN pc = "done" /\ errno # "EINVAL" =>
       /\ fn = "atoi" => ret = IF inside THEN value ELSE 0
       /\ fn = "strtol" =>
            /\ ret = IF inside THEN value ELSE IF sign = -1 THEN -Max - 1 ELSE Max
            /\ errno = "ERANGE" <=> ~inside
       /\ fn = "strtoul" =>
            /\ ret = IF exact > UMax THEN UMax ELSE value % (UMax + 1)
            /\ errno = "ERANGE" <=> exact > UMax

\* The whole number is read even if it has overflowed: *str_end is the first
\* character after it that is no digit, so a caller that goes on from there, as
\* the width of a printf conversion does, never reads the rest of a number.
ReadsWhole ==
  LET value[i \in first - 1 .. pos - 1] ==
        IF i = first - 1 THEN 0 ELSE value[i - 1] * base + str[i]
  IN pc = "done" /\ errno # "EINVAL" =>
       /\ \A i \in first .. pos - 1 : IsDigit(str[i])
       /\ ~IsDigit(Char(pos))
       /\ exact = value[pos - 1]
       /\ fn # "atoi" => end = pos
=============================================================================
