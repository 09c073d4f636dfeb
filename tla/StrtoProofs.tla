---------------------------- MODULE StrtoProofs ----------------------------
(***************************************************************************)
(* Theorems about Strto, for every width, base and string.  The first half *)
(* is about the arithmetic: what is counted and returned.  The second half *)
(* is about the text: which characters are read, and where *str_end is.    *)
(***************************************************************************)
EXTENDS Strto, TLAPS, WellFoundedInduction

\* The test that read_pos_int and read_neg_int make before they take a digit,
\* by division, is the one that they cannot make: whether the number with the
\* digit is within the limit.
LEMMA FitsIsWithin ==
  ASSUME NEW L \in Nat, NEW b \in Nat, b >= 2,
         NEW v \in Nat, NEW d \in 0 .. b - 1
  PROVE  (v < L \div b \/ (v = L \div b /\ d <= L % b)) <=> v * b + d <= L
<1> DEFINE q == L \div b
           r == L % b
<1>1. q \in Nat /\ r \in 0 .. b - 1 /\ L = b * q + r
  OBVIOUS
<1>2. v * b \in Nat /\ q * b \in Nat /\ L = q * b + r
  BY <1>1
<1>3. CASE v < q
  <2>1. (v + 1) * b <= q * b
    BY <1>1, <1>3
  <2>2. (v + 1) * b = v * b + b
    OBVIOUS
  <2> QED
    BY <1>1, <1>2, <1>3, <2>1, <2>2
<1>4. CASE v = q
  BY <1>1, <1>2, <1>4
<1>5. CASE v > q
  <2>1. (q + 1) * b <= v * b
    BY <1>1, <1>5
  <2>2. (q + 1) * b = q * b + b
    BY <1>1
  <2> QED
    BY <1>1, <1>2, <1>5, <2>1, <2>2
<1> HIDE DEF q, r
<1> QED
  BY <1>1, <1>3, <1>4, <1>5 DEF q, r
-----------------------------------------------------------------------------
\* The part of TypeOK that the proofs need; str \in Strings stays as it is.
Typed ==
  /\ fn \in Functions /\ str \in Strings
  /\ base \in Int /\ pos \in Nat \ {0} /\ first \in Nat \ {0} /\ sign \in {-1, 1}
  /\ n \in Int
  /\ overflow \in BOOLEAN /\ exact \in Nat
  /\ errno \in {"none", "EINVAL", "ERANGE"} /\ ret \in Int /\ end \in Nat
  /\ pc \in {"start", "space", "prefix", "digits", "skip", "done"}
  /\ pc \in {"digits", "skip"} => base \in 2 .. 36
  /\ pc \in {"space", "prefix"} => GoodBase(base)
  /\ fn = "atoi" => base = 10

\* The number so far is the exact one, until it is beyond the limit; from then
\* on it is the limit.
Counted ==
  /\ overflow => exact > Limit /\ Signed(n) = Limit
  /\ ~overflow => exact <= Limit /\ Signed(n) = exact

Inv ==
  /\ Typed
  /\ Counted
  /\ pc \in {"start", "space", "prefix"} => exact = 0
  /\ pc = "digits" => ~overflow
  /\ pc = "skip" => overflow
  /\ pc # "done" => errno = "none"
  /\ ReturnsValue

LEMMA Characters ==
  ASSUME str \in Strings
  PROVE  \A i \in Int : Char(i) \in Nat
<1>1. str \in Seq(Chars)
  BY StrtoAssumption
<1>2. ASSUME NEW i \in 1 .. Len(str) PROVE str[i] \in Nat
  <2>1. str[i] \in Chars
    BY <1>1
  <2>2. Chars \subseteq Nat
    BY DEF Chars
  <2> QED
    BY <2>1, <2>2
<1> QED
  BY <1>2 DEF Char, NUL

LEMMA Limits == Limit \in Nat /\ Max \in Nat /\ UMax = 2 * Max + 1
BY StrtoAssumption DEF Limit, UMax

LEMMA InvInit == Init => Inv
<1> SUFFICES ASSUME Init PROVE Inv
  OBVIOUS
<1>1. base \in Int
  BY StrtoAssumption DEF Init
<1>2. Typed
  <2>1. pc = "start" /\ errno = "none" /\ fn \in Functions /\ str \in Strings
    BY DEF Init
  <2>2. pos = 1 /\ first = 1 /\ sign = 1 /\ n = 0 /\ exact = 0 /\ ret = 0 /\ end = 0
        /\ overflow = FALSE
    BY DEF Init
  <2>3. fn = "atoi" => base = 10
    BY DEF Init
  <2>4. sign \in {-1, 1} /\ n \in Int /\ exact \in Nat /\ ret \in Int /\ end \in Nat
    BY <2>2
  <2>5. pos \in Nat \ {0} /\ first \in Nat \ {0}
    BY <2>2
  <2>6. overflow \in BOOLEAN
    BY <2>2
  <2> QED
    BY <1>1, <2>1, <2>3, <2>4, <2>5, <2>6 DEF Typed
<1>3. Counted
  <2>1. n = 0 /\ exact = 0 /\ ~overflow
    BY DEF Init
  <2>2. Signed(n) = 0
    BY <2>1 DEF Signed
  <2> QED
    BY <2>1, <2>2, Limits DEF Counted
<1> QED
  BY <1>2, <1>3 DEF Init, Inv, ReturnsValue

\* The steps before the digits: the number is still 0.
LEMMA StartStep ==
  ASSUME Inv, Reject \/ Begin \/ SkipSpace \/ ReadSign \/ ReadPrefix
  PROVE  Inv'
<1> USE DEF Inv, Typed, args, results
<1>1. CASE Reject
  <2>1. Counted'
    BY <1>1 DEF Reject, Counted, Signed, Down, Limit
  <2> QED
    BY <1>1, <2>1 DEF Reject, ReturnsValue
<1>2. CASE Begin
  BY <1>2 DEF Begin, Counted, Signed, Down, Limit, ReturnsValue
<1>3. CASE SkipSpace
  BY <1>3 DEF SkipSpace, Counted, Signed, Down, Limit, ReturnsValue
<1>4. CASE ReadSign
  <2>1. ~overflow /\ n = 0 /\ exact = 0
    BY <1>4, Limits DEF ReadSign, Counted, Signed
  <2>2. Counted'
    BY <1>4, <2>1, StrtoAssumption DEF ReadSign, Counted, Signed, Limit, Down, UMax
  <2> QED
    BY <1>4, <2>1, <2>2 DEF ReadSign, ReturnsValue
<1>5. CASE ReadPrefix
  <2>1. base' \in 2 .. 36
    BY <1>5 DEF ReadPrefix, GoodBase, HexPrefix
  <2>2. Counted'
    BY <1>5 DEF ReadPrefix, Counted, Signed, Limit, Down
  <2>3. ~overflow
    BY <1>5, Limits DEF ReadPrefix, Counted
  <2> QED
    BY <1>5, <2>1, <2>2, <2>3 DEF ReadPrefix, ReturnsValue
<1> QED
  BY <1>1, <1>2, <1>3, <1>4, <1>5

\* A digit within the limit is counted exactly; one beyond it leaves the limit.
LEMMA ReadDigitStep ==
  ASSUME Inv, ReadDigit
  PROVE  Inv'
<1> DEFINE d == Char(pos)
           v == Signed(n)
<1>1. /\ pc = "digits" /\ ~overflow /\ v = exact /\ exact \in Nat /\ n \in Int
      /\ base \in 2 .. 36 /\ errno = "none"
  BY DEF Inv, Typed, Counted, ReadDigit
<1>2. d \in 0 .. base - 1
  BY <1>1, Characters DEF ReadDigit, IsDigit, Inv, Typed
<1>3. Fits(d) <=> exact * base + d <= Limit
  BY <1>1, <1>2, FitsIsWithin, Limits DEF Fits
<1>4. exact' = exact * base + d /\ exact' \in Nat
  BY <1>1, <1>2 DEF ReadDigit
<1>5. Limit' = Limit /\ (Down' <=> Down)
  BY DEF ReadDigit, Limit, Down, args
<1>6. CASE Fits(d)
  <2>1. n' = n * base + Signed(d) /\ ~overflow' /\ pc' = "digits"
    BY <1>1, <1>6 DEF ReadDigit
  <2>2. n * base \in Int /\ (0 - n) * base = 0 - n * base
    BY <1>1
  <2>3. n' \in Int /\ Signed(n)' = exact'
    BY <1>1, <1>2, <1>4, <1>5, <2>1, <2>2 DEF Signed
  <2>4. Counted'
    BY <1>3, <1>4, <1>5, <1>6, <2>1, <2>3 DEF Counted
  <2> QED
    BY <1>1, <1>4, <2>1, <2>3, <2>4 DEF ReadDigit, Inv, Typed, ReturnsValue, args, results
<1>7. CASE ~Fits(d)
  <2>1. n' = Signed(Limit) /\ overflow' /\ pc' = "skip"
    BY <1>1, <1>7 DEF ReadDigit
  <2>2. n' \in Int /\ Signed(n)' = Limit
    BY <1>5, <2>1, Limits DEF Signed
  <2>3. exact' > Limit
    BY <1>3, <1>4, <1>7, Limits
  <2>4. Counted'
    BY <1>5, <2>1, <2>2, <2>3 DEF Counted
  <2> QED
    BY <1>1, <1>4, <2>1, <2>2, <2>4 DEF ReadDigit, Inv, Typed, ReturnsValue, args, results
<1> QED
  BY <1>6, <1>7

\* The digits after the overflow only make the exact number larger.
LEMMA SkipDigitStep ==
  ASSUME Inv, SkipDigit
  PROVE  Inv'
<1> DEFINE d == Char(pos)
<1>1. /\ pc = "skip" /\ overflow /\ exact > Limit /\ exact \in Nat
      /\ base \in 2 .. 36
  BY DEF Inv, Typed, Counted, SkipDigit
<1>2. d \in 0 .. base - 1
  BY <1>1, Characters DEF SkipDigit, IsDigit, Inv, Typed
<1>3. exact * base >= exact /\ exact * base \in Nat
  BY <1>1
<1>4. exact' \in Nat /\ exact' > Limit
  BY <1>1, <1>2, <1>3, Limits DEF SkipDigit
<1>5. Limit' = Limit /\ (Down' <=> Down)
  BY DEF SkipDigit, Limit, Down, args
<1>6. Counted'
  BY <1>1, <1>4, <1>5 DEF SkipDigit, Inv, Counted, Signed
<1> QED
  BY <1>1, <1>4, <1>6 DEF SkipDigit, Inv, Typed, ReturnsValue, args, results

\* The end of the call: the signed result is the exact number, or the bound.
LEMMA ReturnStep ==
  ASSUME Inv, Return
  PROVE  Inv'
<1> DEFINE value == IF sign = -1 THEN 0 - exact ELSE exact
<1>1. /\ pc \in {"digits", "skip"} /\ errno = "none" /\ exact \in Nat /\ n \in Int
      /\ sign \in {-1, 1} /\ fn \in Functions /\ overflow \in BOOLEAN
  BY DEF Inv, Typed, Return
<1>2. /\ pc' = "done" /\ ret' = Result
      /\ errno' = IF overflow /\ fn # "atoi" THEN "ERANGE" ELSE errno
      /\ end' \in Nat
  BY DEF Return, Inv, Typed
<1>3. UNCHANGED <<args, base, pos, sign, n, overflow, exact, first>>
  BY DEF Return
<1>4. Result \in Int
  BY <1>1, Limits DEF Result
<1>5. Typed'
  BY <1>1, <1>2, <1>3, <1>4 DEF Typed, Inv, args
<1>6. Counted'
  BY <1>3 DEF Inv, Counted, Signed, Limit, Down, args
<1>7. ReturnsValue'
  <2> DEFINE inside == value \in -Max - 1 .. Max
  <2>1. value \in Int /\ (IF sign = -1 THEN -exact ELSE exact) = value
    BY <1>1
  <2>2. Limit = IF fn = "strtoul" THEN 2 * Max + 1 ELSE IF sign = -1 THEN Max + 1 ELSE Max
    BY Limits DEF Limit, Down
  <2>3. fn # "strtoul" => (inside <=> exact <= Limit)
    BY <1>1, <2>2, Limits
  <2>4. /\ overflow => exact > Limit /\ Signed(n) = Limit
        /\ ~overflow => exact <= Limit /\ Signed(n) = exact
    BY DEF Inv, Counted
  <2>5. CASE fn = "atoi"
    <3>1. ret' = IF inside THEN value ELSE 0
      BY <1>1, <1>2, <2>2, <2>3, <2>4, <2>5, Limits DEF Result, Signed, Down
    <3> QED
      BY <1>2, <1>3, <2>1, <2>5, <3>1 DEF ReturnsValue, args
  <2>6. CASE fn = "strtol"
    <3>1. /\ ret' = IF inside THEN value ELSE IF sign = -1 THEN -Max - 1 ELSE Max
          /\ errno' = "ERANGE" <=> ~inside
      BY <1>1, <1>2, <2>2, <2>3, <2>4, <2>6, Limits DEF Result, Signed, Down
    <3> QED
      BY <1>2, <1>3, <2>1, <2>6, <3>1 DEF ReturnsValue, args
  <2>7. CASE fn = "strtoul"
    <3>1. /\ ret' = IF exact > UMax THEN UMax ELSE value % (UMax + 1)
          /\ errno' = "ERANGE" <=> exact > UMax
      BY <1>1, <1>2, <2>2, <2>4, <2>7, Limits DEF Result, Signed, Down
    <3> QED
      BY <1>2, <1>3, <2>1, <2>7, <3>1 DEF ReturnsValue, args
  <2> QED
    BY <1>1, <2>5, <2>6, <2>7 DEF Functions
<1> QED
  BY <1>1, <1>2, <1>3, <1>5, <1>6, <1>7 DEF Inv

LEMMA InvStep == Inv /\ [Next]_vars => Inv'
<1> SUFFICES ASSUME Inv, [Next]_vars PROVE Inv'
  OBVIOUS
<1>1. CASE UNCHANGED vars
  BY <1>1 DEF vars, args, results, Inv, Typed, Counted, Signed, Down, Limit, ReturnsValue
<1> QED
  BY <1>1, StartStep, ReadDigitStep, SkipDigitStep, ReturnStep DEF Next

LEMMA InvHolds == Spec => []Inv
BY InvInit, InvStep, PTL DEF Spec

\* No step of the loop leaves the type that it computes in, for any width and
\* base: the test by division is right to the last digit.
THEOREM TypeCorrect == Spec => []TypeOK
<1>1. Inv => TypeOK
  BY Limits DEF Inv, Typed, Counted, TypeOK
<1> QED
  BY <1>1, InvHolds, PTL

\* What is returned is the number that was written, or the nearest bound, for
\* any width, base and string.
THEOREM ReturnsValueHolds == Spec => []ReturnsValue
<1>1. Inv => ReturnsValue
  BY DEF Inv
<1> QED
  BY <1>1, InvHolds, PTL
-----------------------------------------------------------------------------
(***************************************************************************)
(* ReadsWhole.  Its function of the digits is recursive: what the proof    *)
(* carries from step to step is that there is a function that obeys the    *)
(* recursion up to the last digit read and ends in the exact number.  At   *)
(* the end there is only one such function, by the least place where two   *)
(* of them would differ.                                                   *)
(***************************************************************************)
\* f[i] is the number that the characters lo .. i of s are in base b.
Numbers(f, lo, hi, s, b) ==
  f = [i \in lo - 1 .. hi |-> IF i = lo - 1 THEN 0 ELSE f[i - 1] * b + s[i]]

\* The function of no digits.
LEMMA NoNumber ==
  ASSUME NEW lo \in Nat, NEW s, NEW b
  PROVE  \E f : Numbers(f, lo, lo - 1, s, b) /\ f[lo - 1] = 0
<1> DEFINE f == [i \in lo - 1 .. lo - 1 |-> 0]
<1>1. f[lo - 1] = 0
  OBVIOUS
<1>2. Numbers(f, lo, lo - 1, s, b)
  BY DEF Numbers
<1> QED
  BY <1>1, <1>2

\* One more digit.
LEMMA NextNumber ==
  ASSUME NEW lo \in Nat, NEW hi \in Int, lo - 1 <= hi, NEW s, NEW b, NEW f,
         Numbers(f, lo, hi, s, b)
  PROVE  \E g : /\ Numbers(g, lo, hi + 1, s, b)
                /\ g[hi + 1] = f[hi] * b + s[hi + 1]
<1> DEFINE more == f[hi] * b + s[hi + 1]
           g == [i \in lo - 1 .. hi + 1 |-> IF i <= hi THEN f[i] ELSE more]
           h == [i \in lo - 1 .. hi + 1 |->
                   IF i = lo - 1 THEN 0 ELSE g[i - 1] * b + s[i]]
<1>1. g[hi] = f[hi] /\ g[hi + 1] = more
  <2> HIDE DEF more
  <2> QED
    OBVIOUS
<1>2. ASSUME NEW i \in lo - 1 .. hi PROVE g[i] = h[i]
  <2>1. f[i] = IF i = lo - 1 THEN 0 ELSE f[i - 1] * b + s[i]
    BY DEF Numbers
  <2>2. i # lo - 1 => g[i - 1] = f[i - 1]
    OBVIOUS
  <2>3. g[i] = f[i]
    OBVIOUS
  <2>4. h[i] = IF i = lo - 1 THEN 0 ELSE g[i - 1] * b + s[i]
    <3> HIDE DEF g
    <3> QED
      OBVIOUS
  <2> HIDE DEF g, h
  <2> QED
    BY <2>1, <2>2, <2>3, <2>4
<1>3. g[hi + 1] = h[hi + 1]
  <2>1. h[hi + 1] = g[(hi + 1) - 1] * b + s[hi + 1]
    <3> HIDE DEF g
    <3> QED
      OBVIOUS
  <2>2. (hi + 1) - 1 = hi
    OBVIOUS
  <2> HIDE DEF g, h
  <2> QED
    BY <1>1, <2>1, <2>2
<1>4. \A i \in lo - 1 .. hi + 1 : i \in lo - 1 .. hi \/ i = hi + 1
  OBVIOUS
<1>5. \A i \in lo - 1 .. hi + 1 : g[i] = h[i]
  <2> HIDE DEF g, h
  <2> QED
    BY <1>2, <1>3, <1>4
<1>6. g = h
  <2> HIDE DEF more
  <2>1. g = [i \in lo - 1 .. hi + 1 |-> g[i]] /\ h = [i \in lo - 1 .. hi + 1 |-> h[i]]
    OBVIOUS
  <2> HIDE DEF g, h
  <2> QED
    BY <1>5, <2>1
<1>7. Numbers(g, lo, hi + 1, s, b)
  BY <1>6 DEF Numbers
<1> QED
  BY <1>1, <1>7

\* Two functions that obey the recursion are the same.
LEMMA OneNumber ==
  ASSUME NEW lo \in Nat \ {0}, NEW hi \in Int, NEW s, NEW b, NEW f, NEW g,
         Numbers(f, lo, hi, s, b), Numbers(g, lo, hi, s, b)
  PROVE  f = g
<1> DEFINE Differ == {k \in Nat : k \in lo - 1 .. hi /\ f[k] # g[k]}
<1> SUFFICES ASSUME f # g PROVE FALSE
  OBVIOUS
<1>1. /\ f = [i \in lo - 1 .. hi |-> f[i]]
      /\ g = [i \in lo - 1 .. hi |-> g[i]]
  BY DEF Numbers
<1>2. Differ # {} /\ Differ \subseteq Nat
  BY <1>1
<1>3. PICK k \in Differ : \A y \in Differ : ~(<<y, k>> \in OpToRel(<, Nat))
  BY <1>2, WFMin, NatLessThanWellFounded
<1>4. k \in lo - 1 .. hi /\ f[k] # g[k]
  BY <1>3
<1>5. /\ f[k] = IF k = lo - 1 THEN 0 ELSE f[k - 1] * b + s[k]
      /\ g[k] = IF k = lo - 1 THEN 0 ELSE g[k - 1] * b + s[k]
  BY <1>4 DEF Numbers
<1>6. k # lo - 1 /\ f[k - 1] # g[k - 1]
  BY <1>4, <1>5
<1>7. k - 1 \in Differ
  BY <1>4, <1>6
<1>8. <<k - 1, k>> \in OpToRel(<, Nat)
  BY <1>3, <1>7 DEF OpToRel
<1> QED
  BY <1>3, <1>7, <1>8

\* The function that the property defines is the one that obeys the recursion.
LEMMA NumberIs ==
  ASSUME NEW lo \in Nat \ {0}, NEW hi \in Int, NEW s, NEW b, NEW f,
         Numbers(f, lo, hi, s, b)
  PROVE  LET value[i \in lo - 1 .. hi] ==
               IF i = lo - 1 THEN 0 ELSE value[i - 1] * b + s[i]
         IN  value = f
<1> DEFINE value == CHOOSE v : Numbers(v, lo, hi, s, b)
<1>1. Numbers(value, lo, hi, s, b)
  OBVIOUS
<1>2. value = f
  BY <1>1, OneNumber
<1> QED
  BY <1>2 DEF Numbers

\* The digits that have been read: each is one in the base, and the exact number
\* is theirs.
Reading == pc \in {"digits", "skip"} \/ (pc = "done" /\ errno # "EINVAL")

Digits ==
  /\ first <= pos
  /\ \A i \in first .. pos - 1 : IsDigit(str[i])
  /\ \E f : Numbers(f, first, pos - 1, str, base) /\ f[pos - 1] = exact

Ended == pc = "done" => ~IsDigit(Char(pos)) /\ (fn # "atoi" => end = pos)

WholeInv == Reading => Digits /\ Ended

\* A step of either loop reads one more digit.
LEMMA DigitsGrow ==
  ASSUME Inv, Digits, base \in 2 .. 36, IsDigit(Char(pos)),
         pos' = pos + 1, exact' = exact * base + Char(pos),
         UNCHANGED <<fn, str, base, first>>
  PROVE  Digits'
<1>1. /\ pos \in Nat \ {0} /\ first \in Nat \ {0} /\ first <= pos
      /\ \A i \in first .. pos - 1 : IsDigit(str[i])
  BY DEF Inv, Typed, Digits
<1>2. pos \in 1 .. Len(str) /\ Char(pos) = str[pos]
  BY DEF Char, IsDigit, NUL
<1>3. first <= pos'
  BY <1>1
<1>4. ASSUME NEW i \in first .. pos' - 1 PROVE IsDigit(str[i])
  <2>1. i \in first .. pos - 1 \/ i = pos
    BY <1>1
  <2> QED
    BY <1>1, <1>2, <2>1
<1>5. \E g : Numbers(g, first, pos' - 1, str, base) /\ g[pos' - 1] = exact'
  <2>1. PICK f : Numbers(f, first, pos - 1, str, base) /\ f[pos - 1] = exact
    BY DEF Digits
  <2>2. PICK hi \in Int : hi = pos - 1
    BY <1>1
  <2>3. hi + 1 = pos /\ pos' - 1 = hi + 1 /\ first - 1 <= hi /\ first \in Nat
    BY <1>1, <2>2
  <2>4. Numbers(f, first, hi, str, base) /\ f[hi] = exact
    BY <2>1, <2>2
  <2>5. PICK g : /\ Numbers(g, first, hi + 1, str, base)
                 /\ g[hi + 1] = f[hi] * base + str[hi + 1]
    BY <2>3, <2>4, NextNumber
  <2>6. g[hi + 1] = exact'
    BY <1>2, <2>3, <2>4, <2>5
  <2> QED
    BY <2>3, <2>5, <2>6
<1> QED
  BY <1>3, <1>4, <1>5 DEF Digits, IsDigit

LEMMA WholeStep == Inv /\ WholeInv /\ [Next]_vars => WholeInv'
<1> SUFFICES ASSUME Inv, WholeInv, [Next]_vars PROVE WholeInv'
  OBVIOUS
<1>1. pc \notin {"digits", "skip", "done"} => errno = "none"
  BY DEF Inv
<1>2. CASE UNCHANGED vars \/ Reject \/ Begin \/ SkipSpace \/ ReadSign
  <2>1. CASE UNCHANGED vars
    BY <2>1 DEF WholeInv, Reading, Digits, Ended, IsDigit, Char, vars, args, results
  <2>2. CASE Reject \/ Begin \/ SkipSpace \/ ReadSign
    BY <2>2 DEF WholeInv, Reading, Reject, Begin, SkipSpace, ReadSign
  <2> QED
    BY <1>2, <2>1, <2>2
<1>3. CASE ReadPrefix
  <2>1. first' = pos' /\ exact' = exact /\ exact = 0 /\ pc' = "digits"
    BY <1>3 DEF ReadPrefix, Inv
  <2>2. pos' \in Nat
    BY <1>3 DEF ReadPrefix, Inv, Typed
  <2>3. \E f : Numbers(f, pos', pos' - 1, str', base') /\ f[pos' - 1] = 0
    BY <2>2, NoNumber
  <2>4. \E f : Numbers(f, first', pos' - 1, str', base') /\ f[pos' - 1] = exact'
    BY <2>1, <2>3
  <2>5. first' <= pos' /\ first' .. pos' - 1 = {}
    <3>1. \A p \in Nat : p <= p /\ p .. p - 1 = {}
      OBVIOUS
    <3> QED
      BY <2>1, <2>2, <3>1
  <2>6. \A i \in first' .. pos' - 1 : IsDigit(str[i])'
    BY <2>5, Zenon
  <2>7. Digits'
    BY <2>4, <2>5, <2>6 DEF Digits
  <2> QED
    BY <2>1, <2>7 DEF WholeInv, Ended
<1>4. CASE ReadDigit \/ SkipDigit
  <2>1. Digits /\ base \in 2 .. 36
    BY <1>4 DEF ReadDigit, SkipDigit, WholeInv, Reading, Inv, Typed
  <2>2. /\ IsDigit(Char(pos)) /\ pos' = pos + 1 /\ exact' = exact * base + Char(pos)
        /\ UNCHANGED <<fn, str, base, first>>
    BY <1>4 DEF ReadDigit, SkipDigit, args
  <2>3. Digits'
    BY <2>1, <2>2, DigitsGrow
  <2>4. pc' # "done"
    BY <1>4 DEF ReadDigit, SkipDigit
  <2> QED
    BY <2>3, <2>4 DEF WholeInv, Ended
<1>5. CASE Return
  <2>1. Digits /\ ~IsDigit(Char(pos))
    BY <1>5 DEF Return, WholeInv, Reading
  <2>2. Digits'
    BY <1>5, <2>1 DEF Return, Digits, IsDigit, args
  <2>3. Ended'
    BY <1>5, <2>1 DEF Return, Ended, IsDigit, Char, args
  <2> QED
    BY <2>2, <2>3 DEF WholeInv
<1> QED
  BY <1>2, <1>3, <1>4, <1>5 DEF Next

\* All the digits are read, those after an overflow too, and *str_end is the
\* first character behind them, for any width, base and string: a caller that
\* goes on from there never starts in the middle of a number.
THEOREM ReadsWholeHolds == Spec => []ReadsWhole
<1>1. Inv /\ WholeInv => ReadsWhole
  <2> SUFFICES ASSUME Inv, WholeInv, pc = "done", errno # "EINVAL" PROVE ReadsWhole
    BY DEF ReadsWhole
  <2> DEFINE value[i \in first - 1 .. pos - 1] ==
               IF i = first - 1 THEN 0 ELSE value[i - 1] * base + str[i]
  <2>1. Digits /\ ~IsDigit(Char(pos)) /\ (fn # "atoi" => end = pos)
    BY DEF WholeInv, Reading, Ended
  <2>2. PICK f : Numbers(f, first, pos - 1, str, base) /\ f[pos - 1] = exact
    BY <2>1 DEF Digits
  <2>3. first \in Nat \ {0} /\ pos - 1 \in Int
    BY DEF Inv, Typed
  <2>4. value = f
    BY <2>2, <2>3, NumberIs
  <2>5. exact = value[pos - 1]
    BY <2>2, <2>4
  <2> HIDE DEF value
  <2>6. \A i \in first .. pos - 1 : IsDigit(str[i])
    BY <2>1 DEF Digits
  <2> USE DEF value
  <2> QED
    BY <2>1, <2>5, <2>6 DEF ReadsWhole
<1>2. Init => WholeInv
  BY DEF Init, WholeInv, Reading
<1>3. Spec => []WholeInv
  BY <1>2, InvHolds, WholeStep, PTL DEF Spec
<1> QED
  BY <1>1, <1>3, InvHolds, PTL
=============================================================================
