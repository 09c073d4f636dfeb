---------------------------- MODULE PrintfProofs ----------------------------
(***************************************************************************)
(* The formatted output, for any alphabet, word sizes, calls, buffer sizes *)
(* and chunks: what reaches the buffer or the file, what is returned and   *)
(* what %n stores are what Conversions says that the items mean.           *)
(*                                                                         *)
(* The invariant PrintfInv follows a call from item to item: k items have  *)
(* been taken care of, and the parser stands in the text that comes next,  *)
(* in a conversion, in front of pieces that are to be written, or at the   *)
(* end.  The lemmas before it are about what the parser reads and what     *)
(* vprintf_write_spec makes of it.                                         *)
(***************************************************************************)
EXTENDS Printf, TLAPS, WellFoundedInduction, SequenceTheorems

\* Induction up to a bound, as a statement about sets.
LEMMA Climb ==
  ASSUME NEW b \in Nat, NEW G, 0 \in G, \A d \in 1 .. b : d - 1 \in G => d \in G
  PROVE  0 .. b \subseteq G
<1> DEFINE bad == {d \in Nat : d \in 0 .. b /\ d \notin G}
<1> SUFFICES ASSUME bad # {} PROVE FALSE
  OBVIOUS
<1>1. PICK d \in bad : \A y \in bad : ~(<<y, d>> \in OpToRel(<, Nat))
  BY WFMin, NatLessThanWellFounded
<1>2. d \in 1 .. b /\ d - 1 \notin G
  <2>1. d \in 0 .. b /\ d \notin G
    BY <1>1
  <2>2. d # 0
    BY <2>1
  <2>3. d \in 1 .. b
    BY <2>1, <2>2
  <2> QED
    BY <2>1, <2>3
<1>3. d - 1 \in bad
  BY <1>2
<1>4. <<d - 1, d>> \in OpToRel(<, Nat)
  BY <1>1, <1>3 DEF OpToRel
<1> QED
  BY <1>1, <1>3, <1>4
-----------------------------------------------------------------------------
(***************************************************************************)
(* Flat.                                                                   *)
(***************************************************************************)
\* g obeys the recursion of Flat up to its b-th sequence.
Flattens(g, seqs, b) ==
  g = [i \in 0 .. b |-> IF i = 0 THEN <<>> ELSE g[i - 1] \o seqs[i]]

FlatBy(seqs) == CHOOSE g : Flattens(g, seqs, Len(seqs))

\* What the first k sequences make.
Upto(seqs, k) == FlatBy(seqs)[k]

LEMMA FlatIsUpto == \A seqs : Flat(seqs) = Upto(seqs, Len(seqs))
BY DEF Flat, Upto, FlatBy, Flattens

LEMMA FlattensOne ==
  ASSUME NEW b \in Nat, NEW g, NEW seqs, Flattens(g, seqs, b)
  PROVE  \E h : Flattens(h, seqs, b + 1)
<1> DEFINE more == g[b] \o seqs[b + 1]
           h == [i \in 0 .. b + 1 |-> IF i <= b THEN g[i] ELSE more]
           full == [i \in 0 .. b + 1 |-> IF i = 0 THEN <<>> ELSE h[i - 1] \o seqs[i]]
<1>1. ASSUME NEW i \in 0 .. b PROVE h[i] = full[i]
  <2>1. g[i] = IF i = 0 THEN <<>> ELSE g[i - 1] \o seqs[i]
    BY DEF Flattens
  <2>2. i # 0 => h[i - 1] = g[i - 1]
    BY DEF h
  <2>3. h[i] = g[i]
    BY DEF h
  <2>4. full[i] = IF i = 0 THEN <<>> ELSE h[i - 1] \o seqs[i]
    <3> HIDE DEF h
    <3> QED
      OBVIOUS
  <2> HIDE DEF h, full
  <2> QED
    BY <2>1, <2>2, <2>3, <2>4
<1>2. h[b + 1] = full[b + 1]
  <2>1. h[b + 1] = more /\ h[b] = g[b]
    <3> HIDE DEF more
    <3> QED
      BY DEF h
  <2>2. full[b + 1] = h[(b + 1) - 1] \o seqs[b + 1]
    <3> HIDE DEF h
    <3> QED
      OBVIOUS
  <2>3. (b + 1) - 1 = b
    OBVIOUS
  <2> HIDE DEF h, full
  <2> QED
    BY <2>1, <2>2, <2>3
<1>3. \A i \in 0 .. b + 1 : i \in 0 .. b \/ i = b + 1
  OBVIOUS
<1>4. \A i \in 0 .. b + 1 : h[i] = full[i]
  <2> HIDE DEF h, full
  <2> QED
    BY <1>1, <1>2, <1>3
<1>5. h = full
  <2>1. h = [i \in 0 .. b + 1 |-> h[i]] /\ full = [i \in 0 .. b + 1 |-> full[i]]
    <3> HIDE DEF more
    <3> QED
      OBVIOUS
  <2> HIDE DEF h, full
  <2> QED
    BY <1>4, <2>1
<1> QED
  BY <1>5 DEF Flattens

LEMMA FlattensAll ==
  ASSUME NEW b \in Nat, NEW seqs
  PROVE  \E g : Flattens(g, seqs, b)
<1> DEFINE G == {e \in Nat : \E g : Flattens(g, seqs, e)}
<1>1. 0 \in G
  <2>1. Flattens([i \in 0 .. 0 |-> <<>>], seqs, 0)
    BY DEF Flattens
  <2> QED
    BY <2>1
<1>2. ASSUME NEW d \in 1 .. b, d - 1 \in G PROVE d \in G
  <2>1. PICK g : Flattens(g, seqs, d - 1)
    BY <1>2
  <2>2. PICK e \in Nat : e = d - 1
    OBVIOUS
  <2>3. \E h : Flattens(h, seqs, e + 1)
    BY <2>1, <2>2, FlattensOne
  <2>4. e + 1 = d
    BY <2>2
  <2> QED
    BY <2>3, <2>4
<1>3. 0 .. b \subseteq G
  <2> HIDE DEF G
  <2> QED
    BY <1>1, <1>2, Climb
<1> QED
  BY <1>3

\* One sequence after the other.
LEMMA UptoBegins ==
  ASSUME NEW seqs, Len(seqs) \in Nat
  PROVE  /\ Upto(seqs, 0) = <<>>
         /\ \A k \in 1 .. Len(seqs) : Upto(seqs, k) = Upto(seqs, k - 1) \o seqs[k]
<1>1. Flattens(FlatBy(seqs), seqs, Len(seqs))
  <2>1. \E g : Flattens(g, seqs, Len(seqs))
    BY FlattensAll
  <2> QED
    BY <2>1 DEF FlatBy
<1> DEFINE g == FlatBy(seqs)
<1>2. \A i \in 0 .. Len(seqs) : g[i] = IF i = 0 THEN <<>> ELSE g[i - 1] \o seqs[i]
  BY <1>1 DEF Flattens
<1> HIDE DEF g
<1>3. g[0] = <<>>
  BY <1>2
<1>4. ASSUME NEW k \in 1 .. Len(seqs) PROVE g[k] = g[k - 1] \o seqs[k]
  <2>1. k \in 0 .. Len(seqs) /\ k # 0
    OBVIOUS
  <2> QED
    BY <1>2, <2>1
<1> QED
  BY <1>3, <1>4 DEF g, Upto

LEMMA UptoNone ==
  ASSUME NEW seqs, Len(seqs) \in Nat
  PROVE  Upto(seqs, 0) = <<>>
BY UptoBegins

LEMMA UptoOne ==
  ASSUME NEW seqs, NEW c \in Nat, Len(seqs) = c, NEW k \in 1 .. c
  PROVE  Upto(seqs, k) = Upto(seqs, k - 1) \o seqs[k]
BY UptoBegins

LEMMA UptoTyped ==
  ASSUME NEW S, NEW seqs \in Seq(Seq(S)), NEW k \in Nat, k <= Len(seqs)
  PROVE  Upto(seqs, k) \in Seq(S)
<1> DEFINE T(d) == Upto(seqs, d) \in Seq(S)
           G == {d \in Nat : d <= k => T(d)}
<1>1. PICK c \in Nat : c = Len(seqs)
  OBVIOUS
<1>2. T(0)
  <2>1. Upto(seqs, 0) = <<>>
    BY <1>1, UptoNone
  <2>2. <<>> \in Seq(S)
    OBVIOUS
  <2> QED
    BY <2>1, <2>2
<1>3. ASSUME NEW d \in 1 .. k, T(d - 1) PROVE T(d)
  <2>1. d \in 1 .. c
    BY <1>1
  <2>2. Upto(seqs, d) = Upto(seqs, d - 1) \o seqs[d]
    BY <1>1, <2>1, UptoOne
  <2>3. Upto(seqs, d - 1) \in Seq(S) /\ seqs[d] \in Seq(S)
    BY <1>1, <1>3, <2>1
  <2> QED
    BY <2>2, <2>3
<1> HIDE DEF T
<1>4. 0 \in G /\ \A d \in 1 .. k : d - 1 \in G => d \in G
  BY <1>2, <1>3
<1>5. k \in G
  <2> HIDE DEF G
  <2>1. 0 .. k \subseteq G
    BY <1>4, Climb
  <2> QED
    BY <2>1
<1> QED
  BY <1>5 DEF T

\* t goes on where s ends.
Extended(S, s, t) == \E rest \in Seq(S) : t = s \o rest

LEMMA ExtendedMore ==
  ASSUME NEW S, NEW s \in Seq(S), NEW t, NEW more \in Seq(S), Extended(S, s, t)
  PROVE  Extended(S, s, t \o more)
<1>1. PICK rest \in Seq(S) : t = s \o rest
  BY DEF Extended
<1>2. t \o more = s \o (rest \o more) /\ rest \o more \in Seq(S)
  BY <1>1, ConcatAssociative
<1> QED
  BY <1>2 DEF Extended

LEMMA ExtendedSelf ==
  ASSUME NEW S, NEW s \in Seq(S)
  PROVE  Extended(S, s, s)
<1>1. s = s \o <<>> /\ <<>> \in Seq(S)
  OBVIOUS
<1> QED
  BY <1>1 DEF Extended

\* The sequences that come later are put behind.
LEMMA UptoGrows ==
  ASSUME NEW S, NEW seqs \in Seq(Seq(S)), NEW j \in Nat, NEW k \in Nat, j <= k, k <= Len(seqs)
  PROVE  Extended(S, Upto(seqs, j), Upto(seqs, k))
<1> DEFINE T(d) == Extended(S, Upto(seqs, j), Upto(seqs, d))
           G == {d \in Nat : d <= k /\ j <= d => T(d)}
<1>1. PICK c \in Nat : c = Len(seqs)
  OBVIOUS
<1>2. Upto(seqs, j) \in Seq(S)
  BY <1>1, UptoTyped
<1>3. T(j)
  BY <1>2, ExtendedSelf
<1>4. ASSUME NEW d \in 1 .. k, T(d - 1) PROVE T(d)
  <2>1. d \in 1 .. c
    BY <1>1
  <2>2. Upto(seqs, d) = Upto(seqs, d - 1) \o seqs[d]
    BY <1>1, <2>1, UptoOne
  <2>3. seqs[d] \in Seq(S)
    BY <1>1, <2>1
  <2> QED
    BY <1>2, <1>4, <2>2, <2>3, ExtendedMore
<1> HIDE DEF T
<1>5. 0 \in G
  BY <1>3
<1>6. ASSUME NEW d \in 1 .. k, d - 1 \in G PROVE d \in G
  <2>1. CASE j <= d - 1
    BY <1>4, <1>6, <2>1
  <2>2. CASE j = d
    BY <1>3, <2>2
  <2>3. CASE j > d
    BY <2>3
  <2> QED
    BY <2>1, <2>2, <2>3
<1>7. k \in G
  <2> HIDE DEF G
  <2>1. 0 .. k \subseteq G
    BY <1>5, <1>6, Climb
  <2> QED
    BY <2>1
<1> QED
  BY <1>7 DEF T

\* Sequences that begin alike make the same as long as they do.
Alike(s, t, k) == \A i \in 1 .. k : s[i] = t[i]

LEMMA UptoAlike ==
  ASSUME NEW s, NEW t, NEW c \in Nat, Len(s) = c, NEW e \in Nat, Len(t) = e,
         NEW k \in Nat, k <= c, k <= e, Alike(s, t, k)
  PROVE  Upto(s, k) = Upto(t, k)
<1> DEFINE T(d) == Upto(s, d) = Upto(t, d)
           G == {d \in Nat : d <= k => T(d)}
<1>1. T(0)
  BY UptoNone
<1>2. ASSUME NEW d \in 1 .. k, T(d - 1) PROVE T(d)
  <2>1. d \in 1 .. c /\ d \in 1 .. e
    OBVIOUS
  <2>2. Upto(s, d) = Upto(s, d - 1) \o s[d]
    BY <2>1, UptoOne
  <2>3. Upto(t, d) = Upto(t, d - 1) \o t[d]
    BY <2>1, UptoOne
  <2> QED
    BY <1>2, <2>1, <2>2, <2>3 DEF Alike
<1> HIDE DEF T
<1>3. 0 \in G /\ \A d \in 1 .. k : d - 1 \in G => d \in G
  BY <1>1, <1>2
<1>4. k \in G
  <2> HIDE DEF G
  <2>1. 0 .. k \subseteq G
    BY <1>3, Climb
  <2> QED
    BY <2>1
<1> QED
  BY <1>4 DEF T

LEMMA FlatTyped ==
  ASSUME NEW S, NEW seqs \in Seq(Seq(S))
  PROVE  Flat(seqs) \in Seq(S)
<1>1. PICK c \in Nat : c = Len(seqs)
  OBVIOUS
<1> QED
  BY <1>1, FlatIsUpto, UptoTyped

LEMMA FlatSplit ==
  ASSUME NEW S, NEW s \in Seq(Seq(S)), NEW t \in Seq(Seq(S))
  PROVE  Flat(s \o t) = Flat(s) \o Flat(t)
<1> DEFINE u == s \o t
<1>1. PICK a \in Nat : a = Len(s)
  OBVIOUS
<1>2. PICK c \in Nat : c = Len(t)
  OBVIOUS
<1>0. PICK m \in Nat : m = a + c
  OBVIOUS
<1>3. u \in Seq(Seq(S)) /\ Len(u) = m
  BY <1>0, <1>1, <1>2, ConcatProperties
<1>10. Alike(s, u, a)
  BY <1>1, <1>2 DEF Alike
<1>11. \A i \in 1 .. c : u[a + i] = t[i]
  BY <1>1, <1>2
<1>4. Flat(s) \in Seq(S)
  BY FlatTyped
<1> HIDE DEF u
<1> DEFINE T(d) == Upto(u, a + d) = Flat(s) \o Upto(t, d)
           G == {d \in Nat : d <= c => T(d)}
<1>5. T(0)
  <2>1. Upto(s, a) = Upto(u, a)
    <3>1. a <= a
      OBVIOUS
    <3>2. a <= m
      BY <1>0
    <3>3. Len(s) = a /\ Len(u) = m
      BY <1>1, <1>3, Zenon
    <3> QED
      BY <1>10, <3>1, <3>2, <3>3, UptoAlike
  <2>2. Upto(t, 0) = <<>>
    BY <1>2, UptoNone
  <2>3. a + 0 = a
    OBVIOUS
  <2> QED
    BY <1>1, <1>4, <2>1, <2>2, <2>3, FlatIsUpto
<1>6. ASSUME NEW d \in 1 .. c, T(d - 1) PROVE T(d)
  <2>1. Upto(u, a + d) = Upto(u, a + d - 1) \o u[a + d]
    <3>1. PICK p \in 1 .. m : p = a + d
      BY <1>0
    <3>2. Upto(u, p) = Upto(u, p - 1) \o u[p]
      BY <1>3, <3>1, UptoOne
    <3>3. a + d - 1 = p - 1
      BY <3>1
    <3> QED
      BY <3>1, <3>2, <3>3
  <2>2. Upto(t, d) = Upto(t, d - 1) \o t[d]
    BY <1>2, UptoOne
  <2>3. Upto(u, a + d - 1) = Flat(s) \o Upto(t, d - 1)
    <3>1. a + d - 1 = a + (d - 1)
      OBVIOUS
    <3> QED
      BY <1>6, <3>1
  <2>4. Upto(t, d - 1) \in Seq(S) /\ t[d] \in Seq(S)
    <3>1. d - 1 \in Nat /\ d - 1 <= Len(t) /\ d \in 1 .. Len(t)
      BY <1>2
    <3> QED
      BY <3>1, UptoTyped
  <2>5. u[a + d] = t[d]
    BY <1>11
  <2>6. (Flat(s) \o Upto(t, d - 1)) \o t[d] = Flat(s) \o (Upto(t, d - 1) \o t[d])
    <3>1. PICK x \in Seq(S), y \in Seq(S), z \in Seq(S) :
            x = Flat(s) /\ y = Upto(t, d - 1) /\ z = t[d]
      BY <1>4, <2>4
    <3>2. (x \o y) \o z = x \o (y \o z)
      BY ConcatAssociative, SMTT(30)
    <3> QED
      BY <3>1, <3>2
  <2> QED
    BY <2>1, <2>2, <2>3, <2>5, <2>6
<1> HIDE DEF T
<1>7. 0 \in G /\ \A d \in 1 .. c : d - 1 \in G => d \in G
  BY <1>5, <1>6
<1>8. c \in G
  <2> HIDE DEF G
  <2>1. 0 .. c \subseteq G
    BY <1>7, Climb
  <2> QED
    BY <2>1
<1>9. Upto(u, m) = Flat(s) \o Upto(t, c)
  BY <1>0, <1>8 DEF T
<1> QED
  BY <1>2, <1>3, <1>9, FlatIsUpto DEF u

LEMMA FlatOfNone == Flat(<<>>) = <<>>
<1>1. Len(<<>>) = 0
  OBVIOUS
<1> QED
  BY <1>1, FlatIsUpto, UptoNone

LEMMA FlatOfOne ==
  ASSUME NEW S, NEW s \in Seq(S)
  PROVE  Flat(<<s>>) = s
<1>1. PICK u : u = <<s>>
  OBVIOUS
<1>2. Len(u) = 1 /\ u[1] = s
  BY <1>1
<1>3. Upto(u, 0) = <<>>
  BY <1>2, UptoNone
<1>4. PICK k \in 1 .. 1 : k = 1
  OBVIOUS
<1>5. Upto(u, k) = Upto(u, k - 1) \o u[k]
  BY <1>2, UptoOne
<1>6. <<>> \o s = s
  OBVIOUS
<1>7. Upto(u, 1) = s
  BY <1>2, <1>3, <1>4, <1>5, <1>6, SMTT(30)
<1>8. Flat(u) = s
  BY <1>2, <1>7, FlatIsUpto
<1> QED
  BY <1>1, <1>8

-----------------------------------------------------------------------------
(***************************************************************************)
(* Numbers as text.                                                        *)
(***************************************************************************)
\* A function of the natural numbers that is given by its value at 0 and a step.
Repeats(g, x, F, b) ==
  /\ g \in [0 .. b -> Nat]
  /\ g[0] = x
  /\ \A d \in 1 .. b : g[d] = F[g[d - 1]]

LEMMA Repeated ==
  ASSUME NEW x \in Nat, NEW F \in [Nat -> Nat], NEW b \in Nat
  PROVE  \E g : Repeats(g, x, F, b)
<1> DEFINE G == {e \in Nat : \E g : Repeats(g, x, F, e)}
<1>1. 0 \in G
  <2>1. Repeats([d \in 0 .. 0 |-> x], x, F, 0)
    BY DEF Repeats
  <2>2. \E g : Repeats(g, x, F, 0)
    BY <2>1
  <2> QED
    BY <2>2
<1>2. ASSUME NEW d \in 1 .. b, d - 1 \in G PROVE d \in G
  <2>1. PICK g : Repeats(g, x, F, d - 1)
    BY <1>2
  <2>6. /\ g \in [0 .. d - 1 -> Nat] /\ g[0] = x
        /\ \A i \in 1 .. d - 1 : g[i] = F[g[i - 1]]
    BY <2>1 DEF Repeats
  <2>7. PICK more \in Nat : more = F[g[d - 1]]
    BY <2>6
  <2> DEFINE h == [i \in 0 .. d |-> IF i < d THEN g[i] ELSE more]
  <2>8. h[d] = more /\ \A i \in 0 .. d - 1 : h[i] = g[i]
    OBVIOUS
  <2>9. h = [i \in 0 .. d |-> h[i]]
    OBVIOUS
  <2> HIDE DEF h
  <2>2. h \in [0 .. d -> Nat] /\ h[0] = x
    <3>1. ASSUME NEW i \in 0 .. d PROVE h[i] \in Nat
      <4>1. CASE i = d
        BY <2>7, <2>8, <4>1
      <4>2. CASE i # d
        <5>1. i \in 0 .. d - 1
          BY <4>2
        <5>2. g[i] \in Nat
          BY <2>6, <5>1
        <5> QED
          BY <2>8, <5>1, <5>2
      <4> QED
        BY <4>1, <4>2
    <3>2. h[0] = x
      <4>1. 0 \in 0 .. d - 1
        OBVIOUS
      <4> QED
        BY <2>6, <2>8, <4>1
    <3> QED
      BY <2>9, <3>1, <3>2
  <2>3. ASSUME NEW i \in 1 .. d PROVE h[i] = F[h[i - 1]]
    <3>1. CASE i = d
      BY <2>7, <2>8, <3>1
    <3>2. CASE i < d
      <4>1. i \in 1 .. d - 1 /\ i \in 0 .. d - 1 /\ i - 1 \in 0 .. d - 1
        BY <3>2
      <4>2. g[i] = F[g[i - 1]]
        BY <2>6, <4>1
      <4> QED
        BY <2>8, <4>1, <4>2
    <3> QED
      BY <3>1, <3>2
  <2>4. Repeats(h, x, F, d)
    <3> HIDE DEF h
    <3> QED
      BY <2>2, <2>3 DEF Repeats
  <2>5. \E z : Repeats(z, x, F, d)
    BY <2>4
  <2> QED
    BY <2>5
<1>3. b \in G
  <2> HIDE DEF G
  <2>1. 0 .. b \subseteq G
    BY <1>1, <1>2, Climb
  <2> QED
    BY <2>1
<1> QED
  BY <1>3

\* The two functions that Numeral and Digits define, and the number of digits.
PowerBody(p, v, b) == [i \in 0 .. v |-> IF i = 0 THEN 1 ELSE b * p[i - 1]]
Power(v, b) == CHOOSE p : p = PowerBody(p, v, b)
LeftBody(p, v, b) == [i \in 0 .. v |-> IF i = 0 THEN v ELSE p[i - 1] \div b]
Left(v, b) == CHOOSE p : p = LeftBody(p, v, b)
IsCount(k, v, b) == Power(v, b)[k] > v /\ (k > 0 => Power(v, b)[k - 1] <= v)
Count(v, b) == CHOOSE k \in 0 .. v : IsCount(k, v, b)
DigitsBy(v, b, digit) ==
  [i \in 1 .. Count(v, b) |-> digit[((v \div Power(v, b)[Count(v, b) - i]) % b) + 1]]

LEMMA NumeralIs ==
  \A v, b, m, digit : Numeral(v, b, m, digit)
                        = Times(AtLeast(m - Count(v, b), 0), "0") \o DigitsBy(v, b, digit)
BY DEF Numeral, DigitsBy, Count, IsCount, Power, PowerBody

LEMMA PowerIs ==
  ASSUME NEW v \in Nat, NEW b \in Nat
  PROVE  /\ Power(v, b) \in [0 .. v -> Nat]
         /\ Power(v, b)[0] = 1
         /\ \A i \in 1 .. v : Power(v, b)[i] = b * Power(v, b)[i - 1]
<1> DEFINE F == [x \in Nat |-> b * x]
<1>1. F \in [Nat -> Nat]
  OBVIOUS
<1>2. PICK g : Repeats(g, 1, F, v)
  <2> HIDE DEF F
  <2> QED
    BY <1>1, Repeated
<1>3. /\ g \in [0 .. v -> Nat] /\ g[0] = 1
      /\ \A d \in 1 .. v : g[d] = F[g[d - 1]]
  BY <1>2 DEF Repeats
<1>4. ASSUME NEW d \in 1 .. v PROVE g[d] = b * g[d - 1]
  <2>1. g[d - 1] \in Nat
    BY <1>3
  <2> QED
    BY <1>3, <2>1
<1> HIDE DEF F
<1>5. g = PowerBody(g, v, b)
  <2>1. ASSUME NEW d \in 0 .. v PROVE g[d] = PowerBody(g, v, b)[d]
    BY <1>3, <1>4 DEF PowerBody
  <2> QED
    BY <1>3, <2>1 DEF PowerBody
<1>6. \E p : p = PowerBody(p, v, b)
  BY <1>5
<1>7. Power(v, b) = PowerBody(Power(v, b), v, b)
  <2> HIDE DEF PowerBody
  <2> QED
    BY <1>6 DEF Power
<1> DEFINE P == Power(v, b)
<1>8. \A d \in 0 .. v : P[d] = IF d = 0 THEN 1 ELSE b * P[d - 1]
  BY <1>7 DEF PowerBody
<1>9. P = [i \in 0 .. v |-> P[i]]
  BY <1>7 DEF PowerBody
<1> HIDE DEF P
<1>10. P[0] = 1
  BY <1>8
<1>11. ASSUME NEW d \in 1 .. v PROVE P[d] = b * P[d - 1]
  BY <1>8
<1> DEFINE G == {d \in Nat : d <= v => P[d] \in Nat}
<1>12. 0 \in G
  BY <1>10
<1>13. ASSUME NEW d \in 1 .. v, d - 1 \in G PROVE d \in G
  BY <1>11, <1>13
<1>14. 0 .. v \subseteq G
  <2> HIDE DEF G
  <2> QED
    BY <1>12, <1>13, Climb
<1>15. P \in [0 .. v -> Nat]
  BY <1>9, <1>14
<1> QED
  BY <1>10, <1>11, <1>15 DEF P

\* A power is larger than its exponent, so there are enough of them.
LEMMA PowerGrows ==
  ASSUME NEW v \in Nat, NEW b \in Nat, b >= 2
  PROVE  /\ \A i \in 0 .. v : Power(v, b)[i] > i
         /\ \A i \in 1 .. v : Power(v, b)[i] > Power(v, b)[i - 1]
<1> DEFINE P == Power(v, b)
<1>1. /\ P \in [0 .. v -> Nat] /\ P[0] = 1
      /\ \A i \in 1 .. v : P[i] = b * P[i - 1]
  BY PowerIs
<1> HIDE DEF P
<1> DEFINE G == {d \in Nat : d <= v => P[d] > d}
<1>2. 0 \in G
  BY <1>1
<1>3. ASSUME NEW d \in 1 .. v, d - 1 \in G PROVE d \in G
  <2>1. P[d] = b * P[d - 1] /\ P[d - 1] \in Nat /\ P[d - 1] > d - 1
    BY <1>1, <1>3
  <2>2. ASSUME NEW x \in Nat, x > d - 1 PROVE b * x > d
    <3>1. b * x >= 2 * x
      OBVIOUS
    <3> QED
      BY <2>2, <3>1
  <2> QED
    BY <2>1, <2>2
<1>4. 0 .. v \subseteq G
  <2> HIDE DEF G
  <2> QED
    BY <1>2, <1>3, Climb
<1>5. \A i \in 0 .. v : P[i] > i
  BY <1>4
<1>6. ASSUME NEW i \in 1 .. v PROVE P[i] > P[i - 1]
  <2>1. P[i] = b * P[i - 1] /\ P[i - 1] \in Nat /\ P[i - 1] > 0
    BY <1>1, <1>5
  <2>2. ASSUME NEW x \in Nat, x > 0 PROVE b * x > x
    <3>1. b * x >= 2 * x
      OBVIOUS
    <3> QED
      BY <2>2, <3>1
  <2> QED
    BY <2>1, <2>2
<1> QED
  BY <1>5, <1>6 DEF P

LEMMA PowerOrder ==
  ASSUME NEW v \in Nat, NEW b \in Nat, b >= 2, NEW i \in 0 .. v, NEW j \in 0 .. v, i <= j
  PROVE  Power(v, b)[i] <= Power(v, b)[j]
<1> DEFINE P == Power(v, b)
<1>1. /\ P \in [0 .. v -> Nat] /\ \A d \in 1 .. v : P[d] > P[d - 1]
  BY PowerIs, PowerGrows
<1> HIDE DEF P
<1> DEFINE G == {d \in Nat : d <= v /\ i <= d => P[i] <= P[d]}
<1>2. 0 \in G
  BY <1>1
<1>3. ASSUME NEW d \in 1 .. v, d - 1 \in G PROVE d \in G
  <2>1. CASE i <= d - 1
    BY <1>1, <1>3, <2>1
  <2>2. CASE i = d
    <3>1. P[d] \in Nat
      BY <1>1
    <3> QED
      BY <2>2, <3>1
  <2>3. CASE i > d
    BY <2>3
  <2> QED
    BY <2>1, <2>2, <2>3
<1>4. 0 .. v \subseteq G
  <2> HIDE DEF G
  <2> QED
    BY <1>2, <1>3, Climb
<1> QED
  BY <1>4 DEF P

\* There is one number of digits.
LEMMA CountIs ==
  ASSUME NEW v \in Nat, NEW b \in Nat, b >= 2
  PROVE  Count(v, b) \in 0 .. v /\ IsCount(Count(v, b), v, b)
<1> DEFINE P == Power(v, b)
           enough == {d \in Nat : d <= v /\ P[d] > v}
<1>1. /\ P \in [0 .. v -> Nat]
      /\ \A i \in 0 .. v : P[i] > i
  BY PowerIs, PowerGrows
<1> HIDE DEF P
<1>2. v \in enough
  BY <1>1
<1>3. PICK d \in enough : \A y \in enough : ~(<<y, d>> \in OpToRel(<, Nat))
  BY <1>2, WFMin, NatLessThanWellFounded
<1>4. d \in 0 .. v /\ P[d] > v
  <2>1. d \in enough
    OBVIOUS
  <2> QED
    BY <2>1
<1>5. d > 0 => P[d - 1] <= v
  <2> SUFFICES ASSUME d > 0, ~(P[d - 1] <= v) PROVE FALSE
    OBVIOUS
  <2>1. P[d - 1] \in Nat
    BY <1>1, <1>4
  <2>2. d - 1 \in enough
    BY <1>4, <2>1
  <2>3. <<d - 1, d>> \in OpToRel(<, Nat)
    BY <1>3, <2>2 DEF OpToRel
  <2> QED
    BY <1>3, <2>2, <2>3
<1>6. IsCount(d, v, b)
  BY <1>4, <1>5 DEF IsCount, P
<1>7. \E k \in 0 .. v : IsCount(k, v, b)
  BY <1>4, <1>6
<1> QED
  BY <1>7 DEF Count

LEMMA CountOne ==
  ASSUME NEW v \in Nat, NEW b \in Nat, b >= 2, NEW k \in 0 .. v, IsCount(k, v, b)
  PROVE  k = Count(v, b)
<1> DEFINE c == Count(v, b)
<1>1. c \in 0 .. v /\ IsCount(c, v, b)
  BY CountIs
<1> DEFINE P == Power(v, b)
<1>2. P \in [0 .. v -> Nat]
  BY PowerIs
<1>3. /\ P[k] > v /\ (k > 0 => P[k - 1] <= v)
      /\ P[c] > v /\ (c > 0 => P[c - 1] <= v)
  BY <1>1 DEF IsCount
<1>4. ASSUME k < c PROVE FALSE
  <2>1. PICK i \in 0 .. v : i = c - 1 /\ k <= i
    BY <1>1, <1>4
  <2>2. P[k] <= P[i]
    BY <2>1, PowerOrder
  <2> HIDE DEF P, c
  <2> QED
    BY <1>1, <1>2, <1>3, <1>4, <2>1, <2>2
<1>5. ASSUME c < k PROVE FALSE
  <2>1. PICK i \in 0 .. v : i = k - 1 /\ c <= i
    BY <1>1, <1>5
  <2>2. P[c] <= P[i]
    BY <1>1, <2>1, PowerOrder
  <2> HIDE DEF P, c
  <2> QED
    BY <1>1, <1>2, <1>3, <1>5, <2>1, <2>2
<1> QED
  <2> HIDE DEF c
  <2>1. k = c
    BY <1>1, <1>4, <1>5
  <2> QED
    BY <2>1 DEF c

LEMMA DivDiv ==
  ASSUME NEW v \in Nat, NEW b \in Nat, NEW p \in Nat, b >= 1, p >= 1
  PROVE  (v \div p) \div b = v \div (b * p)
OBVIOUS

\* Dividing again and again is dividing by the power.
LEMMA LeftIs ==
  ASSUME NEW v \in Nat, NEW b \in Nat, b >= 2, NEW i \in 0 .. v
  PROVE  Left(v, b)[i] = v \div Power(v, b)[i]
<1> DEFINE P == Power(v, b)
           L == Left(v, b)
           closed == [d \in 0 .. v |-> v \div P[d]]
<1>1. /\ P \in [0 .. v -> Nat] /\ P[0] = 1
      /\ \A d \in 1 .. v : P[d] = b * P[d - 1]
      /\ \A d \in 0 .. v : P[d] > 0
  <2>1. ASSUME NEW d \in 0 .. v PROVE P[d] > 0
    <3>1. P[d] \in Nat /\ P[d] > d
      BY PowerIs, PowerGrows
    <3> HIDE DEF P
    <3> QED
      BY <3>1
  <2> QED
    BY <2>1, PowerIs
<1> HIDE DEF P
<1>2. ASSUME NEW d \in 1 .. v PROVE closed[d] = closed[d - 1] \div b
  <2>1. PICK p \in Nat : p = P[d - 1]
    BY <1>1
  <2>2. P[d] = b * p /\ p >= 1
    BY <1>1, <2>1
  <2>3. (v \div p) \div b = v \div (b * p)
    <3>1. b >= 1 /\ p >= 1
      BY <2>2
    <3> QED
      BY <3>1, DivDiv, Zenon
  <2>4. closed[d] = v \div P[d] /\ closed[d - 1] = v \div P[d - 1]
    OBVIOUS
  <2> HIDE DEF closed
  <2> QED
    BY <2>1, <2>2, <2>3, <2>4
<1>3. closed[0] = v
  BY <1>1
<1>4. closed = LeftBody(closed, v, b)
  <2>1. ASSUME NEW d \in 0 .. v PROVE closed[d] = LeftBody(closed, v, b)[d]
    <3> HIDE DEF closed
    <3> QED
      BY <1>2, <1>3 DEF LeftBody
  <2>2. closed = [d \in 0 .. v |-> closed[d]]
    OBVIOUS
  <2> HIDE DEF closed
  <2> QED
    BY <2>1, <2>2 DEF LeftBody
<1>5. \E p : p = LeftBody(p, v, b)
  BY <1>4
<1>6. L = LeftBody(L, v, b)
  <2> HIDE DEF LeftBody
  <2> QED
    BY <1>5 DEF Left
<1>7. \A d \in 0 .. v : L[d] = IF d = 0 THEN v ELSE L[d - 1] \div b
  BY <1>6 DEF LeftBody
<1> HIDE DEF L
<1> DEFINE T(d) == L[d] = closed[d]
           G == {d \in Nat : d <= v => T(d)}
<1>8. T(0)
  BY <1>3, <1>7
<1>9. ASSUME NEW d \in 1 .. v, T(d - 1) PROVE T(d)
  <2>1. L[d] = L[d - 1] \div b
    BY <1>7
  <2> HIDE DEF closed
  <2> QED
    BY <1>2, <1>9, <2>1
<1> HIDE DEF T
<1>10. 0 \in G /\ \A d \in 1 .. v : d - 1 \in G => d \in G
  BY <1>8, <1>9
<1>11. i \in G
  <2> HIDE DEF G
  <2>1. 0 .. v \subseteq G
    BY <1>10, Climb
  <2> QED
    BY <2>1
<1>12. L[i] = closed[i]
  BY <1>11 DEF T
<1> QED
  BY <1>12 DEF L, P

IsLast(k, v, b) == Left(v, b)[k] = 0 /\ (k > 0 => Left(v, b)[k - 1] # 0)
LastLeft(v, b) == CHOOSE k \in 0 .. v : IsLast(k, v, b)

LEMMA DivZero ==
  ASSUME NEW v \in Nat, NEW p \in Nat, p >= 1
  PROVE  v \div p = 0 <=> p > v
OBVIOUS

LEMMA IsLastIs ==
  ASSUME NEW v \in Nat, NEW b \in Nat, b >= 2, NEW k \in 0 .. v
  PROVE  IsLast(k, v, b) <=> IsCount(k, v, b)
<1>1. ASSUME NEW d \in 0 .. v PROVE Left(v, b)[d] = 0 <=> Power(v, b)[d] > v
  <2>1. PICK p \in Nat : p = Power(v, b)[d]
    BY PowerIs
  <2>2. p >= 1
    BY <2>1, PowerGrows
  <2>3. Left(v, b)[d] = v \div p
    BY <2>1, LeftIs
  <2>4. v \div p = 0 <=> p > v
    BY <2>2, DivZero
  <2> QED
    BY <2>1, <2>3, <2>4
<1>2. CASE k = 0
  BY <1>1, <1>2 DEF IsLast, IsCount
<1>3. CASE k > 0
  <2>1. PICK d \in 0 .. v : d = k - 1
    BY <1>3
  <2>2. PICK p \in Nat : p = Power(v, b)[d]
    BY PowerIs
  <2>3. Left(v, b)[d] # 0 <=> p <= v
    BY <1>1, <2>2
  <2> QED
    BY <1>1, <1>3, <2>1, <2>2, <2>3 DEF IsLast, IsCount
<1> QED
  BY <1>2, <1>3

LEMMA LastLeftIs ==
  ASSUME NEW v \in Nat, NEW b \in Nat, b >= 2
  PROVE  LastLeft(v, b) = Count(v, b)
<1>1. Count(v, b) \in 0 .. v /\ IsLast(Count(v, b), v, b)
  BY CountIs, IsLastIs
<1>2. LastLeft(v, b) \in 0 .. v /\ IsLast(LastLeft(v, b), v, b)
  BY <1>1 DEF LastLeft
<1> QED
  BY <1>2, IsLastIs, CountOne

\* The digits of write_number are those of the reference.
LEMMA DigitsIs ==
  ASSUME NEW v \in Nat, NEW b \in Nat, b >= 2, NEW digit
  PROVE  Digits(v, b, digit) = DigitsBy(v, b, digit)
<1>1. Digits(v, b, digit)
        = [i \in 1 .. LastLeft(v, b) |-> digit[(Left(v, b)[LastLeft(v, b) - i] % b) + 1]]
  BY DEF Digits, LastLeft, IsLast, Left, LeftBody
<1>2. PICK c \in 0 .. v : c = Count(v, b)
  BY CountIs
<1>3. LastLeft(v, b) = c
  BY <1>2, LastLeftIs
<1>4. ASSUME NEW i \in 1 .. c PROVE Left(v, b)[c - i] = v \div Power(v, b)[c - i]
  <2>1. PICK d \in 0 .. v : d = c - i
    OBVIOUS
  <2> QED
    BY <2>1, LeftIs
<1>5. Digits(v, b, digit) = [i \in 1 .. c |-> digit[((v \div Power(v, b)[c - i]) % b) + 1]]
  BY <1>1, <1>3, <1>4
<1> QED
  BY <1>2, <1>5 DEF DigitsBy

Figures == {Lower, Upper}

LEMMA FigureIs ==
  ASSUME NEW digit \in Figures
  PROVE  /\ \A d \in 0 .. 15 : digit[d + 1] \in Alphabet
         /\ \A d \in 1 .. 15 : digit[d + 1] # "0"
         /\ digit[1] = "0"
<1>1. CASE digit = Lower
  <2>1. ASSUME NEW d \in 0 .. 15 PROVE digit[d + 1] \in Alphabet /\ (d > 0 => digit[d + 1] # "0")
    <3>1. \/ d = 0 \/ d = 1 \/ d = 2 \/ d = 3 \/ d = 4 \/ d = 5 \/ d = 6 \/ d = 7
          \/ d = 8 \/ d = 9 \/ d = 10 \/ d = 11 \/ d = 12 \/ d = 13 \/ d = 14 \/ d = 15
      OBVIOUS
    <3> QED
      BY <1>1, <3>1, AlphabetAssumption DEF Lower, DigitChars
  <2>2. digit[1] = "0"
    BY <1>1 DEF Lower
  <2> QED
    BY <2>1, <2>2
<1>2. CASE digit = Upper
  <2>1. ASSUME NEW d \in 0 .. 15 PROVE digit[d + 1] \in Alphabet /\ (d > 0 => digit[d + 1] # "0")
    <3>1. \/ d = 0 \/ d = 1 \/ d = 2 \/ d = 3 \/ d = 4 \/ d = 5 \/ d = 6 \/ d = 7
          \/ d = 8 \/ d = 9 \/ d = 10 \/ d = 11 \/ d = 12 \/ d = 13 \/ d = 14 \/ d = 15
      OBVIOUS
    <3> QED
      BY <1>2, <3>1, AlphabetAssumption DEF Upper, DigitChars
  <2>2. digit[1] = "0"
    BY <1>2 DEF Upper
  <2> QED
    BY <2>1, <2>2
<1> QED
  BY <1>1, <1>2 DEF Figures

\* A base and its figures.
Suits(b, digit) == b \in 2 .. 16 /\ digit \in Figures

LEMMA DigitsTyped ==
  ASSUME NEW v \in Nat, NEW b \in Nat, NEW digit, Suits(b, digit)
  PROVE  /\ DigitsBy(v, b, digit) \in Seq(Alphabet)
         /\ Len(DigitsBy(v, b, digit)) = Count(v, b)
<1>1. PICK c \in 0 .. v : c = Count(v, b)
  BY CountIs DEF Suits
<1>2. DigitsBy(v, b, digit) = [i \in 1 .. c |-> digit[((v \div Power(v, b)[c - i]) % b) + 1]]
  BY <1>1 DEF DigitsBy
<1>3. ASSUME NEW i \in 1 .. c
      PROVE  digit[((v \div Power(v, b)[c - i]) % b) + 1] \in Alphabet
  <2>1. PICK j \in 0 .. v : j = c - i
    OBVIOUS
  <2>2. PICK p \in Nat : p = Power(v, b)[j]
    BY PowerIs
  <2>3. p >= 1
    BY <2>2, PowerGrows DEF Suits
  <2>4. PICK q \in Nat : q = v \div p
    BY <2>3
  <2>5. b \in Nat /\ b >= 2 /\ b <= 16
    BY DEF Suits
  <2>6. PICK d \in 0 .. 15 : d = q % b
    BY <2>5
  <2>7. digit[d + 1] \in Alphabet
    BY FigureIs DEF Suits
  <2> QED
    BY <2>1, <2>2, <2>4, <2>6, <2>7
<1> DEFINE f == DigitsBy(v, b, digit)
<1>4. \A i \in 1 .. c : f[i] \in Alphabet
  BY <1>2, <1>3
<1>5. f = [i \in 1 .. c |-> f[i]]
  BY <1>2
<1> HIDE DEF f
<1>6. f \in Seq(Alphabet) /\ Len(f) = c
  <2>1. f \in [1 .. c -> Alphabet]
    BY <1>4, <1>5
  <2>2. c \in Nat
    OBVIOUS
  <2> QED
    BY <2>1, <2>2
<1> QED
  BY <1>1, <1>6 DEF f

LEMMA NoneLess ==
  ASSUME NEW v \in Nat, NEW b \in Nat, NEW p \in Nat, p >= 1, b >= 1, p <= v, b * p > v
  PROVE  v \div p \in 1 .. b - 1
<1>1. PICK q \in Int : q = v \div p
  OBVIOUS
<1>2. p * q <= v /\ v < p * (q + 1)
  BY <1>1
<1>3. q >= 1
  <2> SUFFICES ASSUME q <= 0 PROVE FALSE
    BY <1>1
  <2>1. q + 1 <= 1
    OBVIOUS
  <2>2. p * (q + 1) <= p
    BY <2>1
  <2> QED
    BY <1>2, <2>2
<1>4. q < b
  <2> SUFFICES ASSUME q >= b PROVE FALSE
    BY <1>1
  <2>1. p * q >= p * b
    OBVIOUS
  <2> QED
    BY <1>2, <2>1
<1> QED
  BY <1>1, <1>3, <1>4

\* There are no zeros before a number.
LEMMA FirstDigit ==
  ASSUME NEW v \in Nat, NEW b \in Nat, NEW digit, Suits(b, digit), v # 0
  PROVE  /\ Count(v, b) >= 1
         /\ \E d \in 1 .. b - 1 : DigitsBy(v, b, digit)[1] = digit[d + 1]
         /\ DigitsBy(v, b, digit)[1] # "0"
<1>0. b \in Nat /\ b >= 2 /\ b >= 1 /\ b <= 16
  BY DEF Suits
<1>1. PICK c \in 0 .. v : c = Count(v, b)
  BY <1>0, CountIs
<1>2. IsCount(c, v, b)
  BY <1>0, <1>1, CountIs
<1>3. c >= 1
  <2> SUFFICES ASSUME c = 0 PROVE FALSE
    OBVIOUS
  <2>1. Power(v, b)[0] = 1
    BY PowerIs
  <2> QED
    BY <1>2, <2>1 DEF IsCount
<1>4. PICK p \in Nat : p = Power(v, b)[c - 1]
  <2>1. PICK j \in 0 .. v : j = c - 1
    BY <1>3
  <2>2. Power(v, b) \in [0 .. v -> Nat]
    BY PowerIs
  <2>3. Power(v, b)[j] \in Nat
    BY <2>2
  <2> QED
    BY <2>1, <2>3
<1>5. p >= 1 /\ p <= v /\ b * p > v
  <2>1. PICK j \in 0 .. v : j = c - 1
    BY <1>3
  <2>2. p > j
    BY <1>0, <1>4, <2>1, PowerGrows
  <2>3. Power(v, b)[c] = b * p
    BY <1>3, <1>4, PowerIs
  <2> QED
    BY <1>2, <1>3, <1>4, <2>2, <2>3 DEF IsCount
<1>6. PICK d \in 1 .. b - 1 : d = v \div p
  BY <1>0, <1>5, NoneLess
<1>7. d % b = d
  BY <1>0
<1>8. DigitsBy(v, b, digit)[1] = digit[d + 1]
  <2>1. DigitsBy(v, b, digit)[1] = digit[((v \div Power(v, b)[c - 1]) % b) + 1]
    BY <1>1, <1>3 DEF DigitsBy
  <2> QED
    BY <1>4, <1>6, <1>7, <2>1
<1>9. digit[d + 1] # "0"
  <2>1. d \in 1 .. 15
    BY <1>0
  <2> QED
    BY <2>1, FigureIs DEF Suits
<1> QED
  BY <1>1, <1>3, <1>8, <1>9

LEMMA NoDigits ==
  ASSUME NEW b \in Nat, b >= 2
  PROVE  Count(0, b) = 0
BY CountIs

-----------------------------------------------------------------------------
(***************************************************************************)
(* The parser reads a number as it was written.                            *)
(***************************************************************************)
DigitValue == [c \in DigitChars |-> CHOOSE d \in 0 .. 9 : Lower[d + 1] = c]

LEMMA LowerDigit ==
  ASSUME NEW d \in 0 .. 9
  PROVE  IsDigit(Lower[d + 1]) /\ DigitValue[Lower[d + 1]] = d
<1>1. \/ d = 0 \/ d = 1 \/ d = 2 \/ d = 3 \/ d = 4 \/ d = 5 \/ d = 6 \/ d = 7 \/ d = 8 \/ d = 9
  OBVIOUS
<1>2. Lower[d + 1] \in DigitChars
  BY <1>1 DEF Lower, DigitChars
<1>3. PICK e \in 0 .. 9 : Lower[e + 1] = Lower[d + 1] /\ DigitValue[Lower[d + 1]] = e
  BY <1>2 DEF DigitValue
<1>4. \/ e = 0 \/ e = 1 \/ e = 2 \/ e = 3 \/ e = 4 \/ e = 5 \/ e = 6 \/ e = 7 \/ e = 8 \/ e = 9
  OBVIOUS
<1>5. e = d
  BY <1>1, <1>3, <1>4 DEF Lower
<1> QED
  BY <1>2, <1>3, <1>5 DEF IsDigit

ReadBody(f, i, e) ==
  [j \in i - 1 .. e - 1 |-> IF j < i THEN 0 ELSE 10 * f[j - 1] + DigitValue[Char(j)]]
Read(i) == CHOOSE f : f = ReadBody(f, i, NumberEnd(i))

LEMMA NumberAtIs == \A i : NumberAt(i) = Read(i)[NumberEnd(i) - 1]
BY DEF NumberAt, Read, ReadBody, DigitValue

LEMMA DivIsNat ==
  ASSUME NEW v \in Nat, NEW p \in Nat, p >= 1
  PROVE  v \div p \in Nat
OBVIOUS

LEMMA OneMoreDigit ==
  ASSUME NEW v \in Nat, NEW p \in Nat, p >= 1, NEW b \in Nat, b >= 1
  PROVE  b * (v \div (b * p)) + ((v \div p) % b) = v \div p
<1>1. PICK q \in Nat : q = v \div p
  OBVIOUS
<1>2. (v \div p) \div b = v \div (b * p)
  BY DivDiv, ZenonT(30)
<1>3. b * (q \div b) + (q % b) = q
  OBVIOUS
<1>4. q \div b = v \div (b * p)
  BY <1>1, <1>2, Zenon
<1> QED
  BY <1>1, <1>3, <1>4, Zenon

LEMMA NoZeros == Times(0, "0") = <<>>
<1>1. Times(0, "0") = [i \in 1 .. 0 |-> "0"]
  BY DEF Times
<1> QED
  BY <1>1

LEMMA NumberTexts ==
  ASSUME NEW v \in Nat, v # 0
  PROVE  NumberText(v) = DigitsBy(v, 10, Lower)
<1>1. Suits(10, Lower)
  BY DEF Suits, Figures
<1>2. PICK c \in 0 .. v : c = Count(v, 10) /\ c >= 1
  BY <1>1, CountIs, FirstDigit
<1>3. AtLeast(1 - c, 0) = 0
  BY <1>2 DEF AtLeast
<1>4. NumberText(v) = Times(AtLeast(1 - Count(v, 10), 0), "0") \o DigitsBy(v, 10, Lower)
  BY NumeralIs, Zenon DEF NumberText
<1>5. NumberText(v) = <<>> \o DigitsBy(v, 10, Lower)
  BY <1>2, <1>3, <1>4, NoZeros
<1>6. DigitsBy(v, 10, Lower) \in Seq(Alphabet)
  BY <1>1, DigitsTyped
<1> QED
  BY <1>5, <1>6

\* strtol at the digits of a number.
ShowsNumber(v, i, c) ==
  /\ \A j \in 1 .. c : Char(i + j - 1) = DigitsBy(v, 10, Lower)[j]
  /\ ~IsDigit(Char(i + c))

LEMMA ReadsNumber ==
  ASSUME NEW v \in Nat, v # 0, NEW i \in Nat, i >= 1, NEW c \in Nat, c = Count(v, 10),
         NEW l \in Nat, Len(format) = l, i + c <= l + 1, ShowsNumber(v, i, c)
  PROVE  NumberEnd(i) = i + c /\ NumberAt(i) = v
<1>0. PICK b \in Nat : b = 10 /\ b >= 2 /\ b >= 1
  OBVIOUS
<1> DEFINE P == Power(v, b)
<1>1. /\ c \in 0 .. v /\ P \in [0 .. v -> Nat] /\ P[0] = 1
      /\ \A j \in 1 .. v : P[j] = b * P[j - 1]
      /\ \A j \in 0 .. v : P[j] >= 1
  <2>1. ASSUME NEW j \in 0 .. v PROVE P[j] >= 1
    <3>1. P[j] \in Nat
      <4>1. P \in [0 .. v -> Nat]
        BY PowerIs
      <4> HIDE DEF P
      <4> QED
        BY <4>1
    <3>2. P[j] > j
      BY <1>0, PowerGrows
    <3> HIDE DEF P
    <3> QED
      BY <3>1, <3>2
  <2>2. c \in 0 .. v
    BY <1>0, CountIs
  <2> QED
    BY <2>1, <2>2, PowerIs
<1>21. c \in 0 .. v
  BY <1>0, CountIs
<1>2. P[c] > v
  BY <1>0, CountIs DEF IsCount
<1> HIDE DEF P
<1>3. \A j \in 1 .. c : DigitsBy(v, 10, Lower)[j] = Lower[((v \div P[c - j]) % 10) + 1]
  BY <1>0 DEF DigitsBy, P
<1>4. ASSUME NEW j \in 1 .. c
      PROVE  /\ IsDigit(Char(i + j - 1))
             /\ DigitValue[Char(i + j - 1)] = (v \div P[c - j]) % 10
  <2>1. PICK e \in 0 .. v : e = c - j
    BY <1>1
  <2>2. PICK p \in Nat : p = P[e] /\ p >= 1
    BY <1>1
  <2>6. p >= 1
    BY <2>2
  <2>5. PICK q \in Nat : q = v \div p
    <3>1. v \div p \in Nat
      BY <2>6, DivIsNat, Zenon
    <3> QED
      BY <3>1, Zenon
  <2>3. PICK d \in 0 .. 9 : d = (v \div p) % 10
    BY <2>5
  <2>4. Char(i + j - 1) = Lower[d + 1]
    BY <1>3, <2>1, <2>2, <2>3 DEF ShowsNumber
  <2> QED
    BY <2>1, <2>2, <2>3, <2>4, LowerDigit
<1>5. \A k \in i .. i + c - 1 : IsDigit(Char(k))
  <2> SUFFICES ASSUME NEW k \in i .. i + c - 1 PROVE IsDigit(Char(k))
    OBVIOUS
  <2>1. PICK j \in 1 .. c : j = k - i + 1
    OBVIOUS
  <2>2. k = i + j - 1
    BY <2>1
  <2> QED
    BY <1>4, <2>2
<1> DEFINE Ends(j) == ~IsDigit(Char(j)) /\ \A k \in i .. j - 1 : IsDigit(Char(k))
<1>6. i + c \in i .. l + 1 /\ Ends(i + c)
  BY <1>5 DEF ShowsNumber
<1>7. ASSUME NEW j \in i .. l + 1, Ends(j) PROVE j = i + c
  <2>1. CASE j < i + c
    BY <1>5, <1>7, <2>1
  <2>2. CASE j > i + c
    <3>1. i + c \in i .. j - 1
      BY <2>2
    <3> QED
      BY <1>6, <1>7, <3>1
  <2> QED
    BY <2>1, <2>2
<1>8. NumberEnd(i) = i + c
  <2>1. NumberEnd(i) = CHOOSE j \in i .. l + 1 : Ends(j)
    BY DEF NumberEnd
  <2> HIDE DEF Ends
  <2>2. PICK z : z = CHOOSE j \in i .. l + 1 : Ends(j)
    OBVIOUS
  <2>3. z \in i .. l + 1 /\ Ends(z)
    BY <1>6, <2>2
  <2>4. z = i + c
    BY <1>7, <2>3
  <2> QED
    BY <2>1, <2>2, <2>4
<1>20. PICK e \in Nat : e = i + c /\ e > i - 1 /\ NumberEnd(i) = e
  BY <1>8
<1> DEFINE closed == [j \in i - 1 .. e - 1 |-> v \div P[c - (j - i + 1)]]
<1>9. closed = ReadBody(closed, i, e)
  <2>1. ASSUME NEW j \in i - 1 .. e - 1 PROVE closed[j] = ReadBody(closed, i, e)[j]
    <3>1. CASE j = i - 1
      <4>1. c - (j - i + 1) = c
        BY <3>1
      <4>2. PICK p \in Nat : p = P[c]
        BY <1>1
      <4>3. v \div p = 0
        BY <1>1, <1>2, <4>2, DivZero
      <4>4. closed[j] = v \div P[c - (j - i + 1)]
        OBVIOUS
      <4>5. ReadBody(closed, i, e)[j] = 0
        <5> HIDE DEF closed
        <5> QED
          BY <3>1 DEF ReadBody
      <4> HIDE DEF closed
      <4> QED
        BY <4>1, <4>2, <4>3, <4>4, <4>5
    <3>2. CASE j # i - 1
      <4>1. PICK m \in 1 .. c : m = j - i + 1
        BY <1>20, <3>2, SMTT(30)
      <4>2. PICK p \in Nat : p = P[c - m] /\ p >= 1
        <5>1. c - m \in 0 .. v
          BY <1>21
        <5> QED
          BY <1>1, <5>1
      <4>3. P[c - m + 1] = b * p
        <5>1. PICK d \in 1 .. v : d = c - m + 1
          BY <1>21
        <5>2. P[d] = b * P[d - 1]
          BY <1>1
        <5>3. d - 1 = c - m
          BY <5>1
        <5> QED
          BY <4>2, <5>1, <5>2, <5>3
      <4>4. closed[j] = v \div p
        BY <4>1, <4>2
      <4>5. closed[j - 1] = v \div (b * p)
        <5>1. j - 1 \in i - 1 .. e - 1
          BY <3>2
        <5>2. c - ((j - 1) - i + 1) = c - m + 1
          BY <4>1
        <5>3. closed[j - 1] = v \div P[c - ((j - 1) - i + 1)]
          BY <5>1
        <5> QED
          BY <4>3, <5>2, <5>3
      <4>6. DigitValue[Char(j)] = (v \div p) % 10
        <5>1. j = i + m - 1
          BY <4>1
        <5> QED
          BY <1>4, <4>2, <5>1
      <4>7. ReadBody(closed, i, e)[j] = 10 * closed[j - 1] + DigitValue[Char(j)]
        <5> HIDE DEF closed
        <5> QED
          BY <3>2 DEF ReadBody
      <4>8. 10 * (v \div (b * p)) + ((v \div p) % 10) = v \div p
        <5>1. p >= 1 /\ b >= 1 /\ b = 10
          BY <4>2, <1>0
        <5>2. b * (v \div (b * p)) + ((v \div p) % b) = v \div p
          BY <5>1, OneMoreDigit, Zenon
        <5> QED
          BY <5>1, <5>2, Zenon
      <4> HIDE DEF closed
      <4> QED
        BY <4>4, <4>5, <4>6, <4>7, <4>8
    <3> QED
      BY <3>1, <3>2
  <2>2. closed = [j \in i - 1 .. e - 1 |-> closed[j]]
    OBVIOUS
  <2> HIDE DEF closed
  <2> QED
    BY <2>1, <2>2 DEF ReadBody
<1>10. \E f : f = ReadBody(f, i, e)
  BY <1>9
<1> DEFINE R == Read(i)
<1>11. R = ReadBody(R, i, e)
  <2> HIDE DEF ReadBody
  <2> QED
    BY <1>20, <1>10 DEF Read
<1>12. ASSUME NEW j \in i - 1 .. e - 1
       PROVE  /\ R[j] = (IF j < i THEN 0 ELSE 10 * R[j - 1] + DigitValue[Char(j)])
              /\ closed[j] = (IF j < i THEN 0 ELSE 10 * closed[j - 1] + DigitValue[Char(j)])
  <2> HIDE DEF R, closed
  <2> QED
    BY <1>9, <1>11 DEF ReadBody
<1> HIDE DEF R
<1> DEFINE T(d) == R[i - 1 + d] = closed[i - 1 + d]
           G == {d \in Nat : d <= c => T(d)}
<1> HIDE DEF closed
<1>13. T(0)
  <2>1. i - 1 + 0 = i - 1 /\ i - 1 \in i - 1 .. e - 1 /\ i - 1 < i
    BY <1>20
  <2>2. R[i - 1] = 0 /\ closed[i - 1] = 0
    BY <1>12, <2>1
  <2> QED
    BY <2>1, <2>2
<1>14. ASSUME NEW d \in 1 .. c, T(d - 1) PROVE T(d)
  <2>1. PICK j \in i - 1 .. e - 1 : j = i - 1 + d /\ ~(j < i)
    BY <1>20
  <2>2. R[j] = 10 * R[j - 1] + DigitValue[Char(j)]
    BY <1>12, <2>1
  <2>3. closed[j] = 10 * closed[j - 1] + DigitValue[Char(j)]
    BY <1>12, <2>1
  <2>4. i - 1 + (d - 1) = j - 1
    BY <2>1
  <2> QED
    BY <1>14, <2>1, <2>2, <2>3, <2>4
<1> HIDE DEF T
<1>15. 0 \in G /\ \A d \in 1 .. c : d - 1 \in G => d \in G
  BY <1>13, <1>14
<1>16. c \in G
  <2> HIDE DEF G
  <2>1. 0 .. c \subseteq G
    BY <1>15, Climb
  <2> QED
    BY <2>1
<1>17. R[e - 1] = closed[e - 1]
  <2>1. i - 1 + c = e - 1
    BY <1>20
  <2>2. T(c)
    BY <1>16
  <2> QED
    BY <2>1, <2>2 DEF T
<1>18. closed[e - 1] = v
  <2>5. e - 1 \in i - 1 .. e - 1
    BY <1>20
  <2>7. e = i + c
    BY <1>20
  <2>6. (e - 1) - i + 1 = c
    <3> HIDE <2>7
    <3> QED
      BY <2>7, SMTT(30)
  <2>1. e - 1 \in i - 1 .. e - 1 /\ c - ((e - 1) - i + 1) = 0
    BY <2>5, <2>6
  <2>2. closed[e - 1] = v \div P[c - ((e - 1) - i + 1)]
    BY <2>1 DEF closed
  <2>3. P[0] = 1
    BY <1>1
  <2>4. v \div 1 = v
    OBVIOUS
  <2> QED
    BY <2>1, <2>2, <2>3, <2>4
<1> QED
  BY <1>20, <1>17, <1>18, NumberAtIs DEF R

-----------------------------------------------------------------------------
(***************************************************************************)
(* Pieces, and what they say when they are put together.                   *)
(***************************************************************************)
LEMMA Concat ==
  ASSUME NEW S, NEW s \in Seq(S), NEW t \in Seq(S), NEW a \in Nat, NEW c \in Nat,
         Len(s) = a, Len(t) = c
  PROVE  /\ s \o t \in Seq(S) /\ Len(s \o t) = a + c
         /\ \A i \in 1 .. a : (s \o t)[i] = s[i]
         /\ \A i \in 1 .. c : (s \o t)[a + i] = t[i]
<1>1. s \o t \in Seq(S) /\ Len(s \o t) = a + c
  BY ConcatProperties
<1>2. ASSUME NEW i \in 1 .. a PROVE (s \o t)[i] = s[i]
  OBVIOUS
<1>3. ASSUME NEW i \in 1 .. c PROVE (s \o t)[a + i] = t[i]
  BY SMTT(30)
<1> QED
  BY <1>1, <1>2, <1>3

LEMMA ConcatLen ==
  ASSUME NEW S, NEW s \in Seq(S), NEW t \in Seq(S)
  PROVE  s \o t \in Seq(S) /\ Len(s \o t) = Len(s) + Len(t)
OBVIOUS

PieceSet == [text : Seq(Alphabet), skip : Nat]
PieceTexts(pieces) == [i \in 1 .. Len(pieces) |-> pieces[i].text]

\* What the pieces say together.
Joined(pieces) == Flat(PieceTexts(pieces))

LEMMA TextsTyped ==
  ASSUME NEW p \in Seq(PieceSet)
  PROVE  /\ PieceTexts(p) \in Seq(Seq(Alphabet)) /\ Len(PieceTexts(p)) = Len(p)
         /\ \A i \in 1 .. Len(p) : PieceTexts(p)[i] = p[i].text
<1>1. PICK c \in Nat : c = Len(p)
  OBVIOUS
<1>2. \A i \in 1 .. c : p[i].text \in Seq(Alphabet)
  <2>1. ASSUME NEW i \in 1 .. c PROVE p[i].text \in Seq(Alphabet)
    <3>1. p[i] \in PieceSet
      BY <1>1
    <3> QED
      BY <3>1 DEF PieceSet
  <2> QED
    BY <2>1
<1>3. PieceTexts(p) = [i \in 1 .. c |-> p[i].text]
  BY <1>1 DEF PieceTexts
<1>4. PieceTexts(p) \in [1 .. c -> Seq(Alphabet)]
  BY <1>2, <1>3
<1> QED
  BY <1>1, <1>3, <1>4

LEMMA JoinedTyped ==
  ASSUME NEW p \in Seq(PieceSet)
  PROVE  Joined(p) \in Seq(Alphabet)
BY TextsTyped, FlatTyped DEF Joined

LEMMA JoinedNone == Joined(<<>>) = <<>>
<1>1. PieceTexts(<<>>) = <<>>
  BY DEF PieceTexts
<1> QED
  BY <1>1, FlatOfNone DEF Joined

LEMMA JoinedOne ==
  ASSUME NEW t \in Seq(Alphabet), NEW k \in Nat
  PROVE  /\ <<[text |-> t, skip |-> k]>> \in Seq(PieceSet)
         /\ Joined(<<[text |-> t, skip |-> k]>>) = t
<1>1. <<[text |-> t, skip |-> k]>> \in Seq(PieceSet)
  <2>1. [text |-> t, skip |-> k] \in PieceSet
    BY DEF PieceSet
  <2> QED
    BY <2>1
<1>2. PieceTexts(<<[text |-> t, skip |-> k]>>) = <<t>>
  BY DEF PieceTexts
<1>3. Flat(<<t>>) = t
  BY FlatOfOne
<1> QED
  BY <1>1, <1>2, <1>3 DEF Joined

LEMMA JoinedSplit ==
  ASSUME NEW p \in Seq(PieceSet), NEW q \in Seq(PieceSet)
  PROVE  p \o q \in Seq(PieceSet) /\ Joined(p \o q) = Joined(p) \o Joined(q)
<1>1. PICK c \in Nat : c = Len(p)
  OBVIOUS
<1>2. PICK e \in Nat : e = Len(q)
  OBVIOUS
<1>3. PICK r : r = p \o q
  OBVIOUS
<1>4. /\ r \in Seq(PieceSet) /\ Len(r) = c + e
      /\ \A i \in 1 .. c : r[i] = p[i]
      /\ \A i \in 1 .. e : r[c + i] = q[i]
  BY <1>1, <1>2, <1>3
<1> DEFINE P == PieceTexts(p)
           Q == PieceTexts(q)
           R == PieceTexts(r)
<1>0. PICK T : T = Seq(Alphabet)
  OBVIOUS
<1>5. P \in Seq(T) /\ Len(P) = c
  BY <1>0, <1>1, TextsTyped
<1>6. Q \in Seq(T) /\ Len(Q) = e
  BY <1>0, <1>2, TextsTyped
<1>7. R \in Seq(T) /\ Len(R) = c + e
  BY <1>0, <1>4, TextsTyped
<1>10. \A i \in 1 .. c : P[i] = p[i].text
  BY <1>1, TextsTyped
<1>11. \A i \in 1 .. e : Q[i] = q[i].text
  BY <1>2, TextsTyped
<1>12. \A i \in 1 .. c + e : R[i] = r[i].text
  BY <1>4, TextsTyped
<1>13. (\A i \in 1 .. c : r[i] = p[i]) /\ (\A i \in 1 .. e : r[c + i] = q[i])
  BY <1>4
<1> HIDE DEF P, Q, R
<1>8. R = P \o Q
  <2> DEFINE U == P \o Q
  <2>1. U \in Seq(T) /\ Len(U) = c + e
    BY <1>5, <1>6, Concat
  <2>4. (\A i \in 1 .. c : U[i] = P[i]) /\ (\A i \in 1 .. e : U[c + i] = Q[i])
    <3>1. ASSUME NEW i \in 1 .. c PROVE U[i] = P[i]
      BY <1>5, <1>6, Concat
    <3>2. ASSUME NEW i \in 1 .. e PROVE U[c + i] = Q[i]
      BY <1>5, <1>6
    <3> QED
      BY <3>1, <3>2
  <2> HIDE DEF U
  <2>2. ASSUME NEW i \in 1 .. c + e PROVE R[i] = U[i]
    <3>1. CASE i \in 1 .. c
      <4>1. U[i] = P[i] /\ P[i] = p[i].text /\ r[i] = p[i] /\ R[i] = r[i].text
        BY <1>10, <1>12, <1>13, <2>4, <3>1
      <4> QED
        BY <4>1, Zenon
    <3>2. CASE i \notin 1 .. c
      <4>1. PICK j \in 1 .. e : i = c + j
        <5>1. i - c \in 1 .. e /\ i = c + (i - c)
          BY <3>2
        <5> QED
          BY <5>1
      <4>2. R[i] = r[c + j].text /\ r[c + j] = q[j] /\ U[i] = Q[j] /\ Q[j] = q[j].text
        BY <1>11, <1>12, <1>13, <2>4, <4>1
      <4> QED
        BY <4>2, Zenon
    <3> QED
      BY <3>1, <3>2
  <2>3. R = U
    BY <1>7, <2>1, <2>2, SeqEqual
  <2> QED
    BY <2>3 DEF U
<1>9. Flat(P \o Q) = Flat(P) \o Flat(Q)
  BY <1>0, <1>5, <1>6, FlatSplit
<1> QED
  BY <1>3, <1>4, <1>8, <1>9 DEF Joined, P, Q, R

\* The pieces from the i-th on.
LEMMA JoinedRest ==
  ASSUME NEW p \in Seq(PieceSet), NEW i \in Nat, i >= 1, NEW c \in Nat, c = Len(p)
  PROVE  /\ SubSeq(p, i, c) \in Seq(PieceSet)
         /\ i > c => SubSeq(p, i, c) = <<>>
         /\ i <= c => Joined(SubSeq(p, i, c)) = p[i].text \o Joined(SubSeq(p, i + 1, c))
<1>1. ASSUME NEW j \in Nat, j >= 1 PROVE SubSeq(p, j, c) \in Seq(PieceSet)
  BY <1>1
<1>2. i > c => SubSeq(p, i, c) = <<>>
  BY SubSeqProperties
<1>3. ASSUME i <= c
      PROVE  Joined(SubSeq(p, i, c)) = p[i].text \o Joined(SubSeq(p, i + 1, c))
  <2>1. p[i] \in PieceSet
    BY <1>3
  <2>2. <<p[i]>> \in Seq(PieceSet)
    BY <2>1
  <2>3. SubSeq(p, i, c) = <<p[i]>> \o SubSeq(p, i + 1, c)
    BY <1>3
  <2>4. p[i] = [text |-> p[i].text, skip |-> p[i].skip] /\ p[i].text \in Seq(Alphabet)
        /\ p[i].skip \in Nat
    BY <2>1 DEF PieceSet
  <2>5. Joined(<<p[i]>>) = p[i].text
    BY <2>4, JoinedOne
  <2>6. SubSeq(p, i + 1, c) \in Seq(PieceSet)
    BY <1>1
  <2> QED
    BY <2>2, <2>3, <2>5, <2>6, JoinedSplit, ZenonT(30)
<1> QED
  BY <1>1, <1>2, <1>3

LEMMA TimesTyped ==
  ASSUME NEW c \in Alphabet, NEW m \in Nat
  PROVE  /\ Times(m, c) \in Seq(Alphabet) /\ Len(Times(m, c)) = m
         /\ \A i \in 1 .. m : Times(m, c)[i] = c
BY DEF Times

LEMMA TimesNone == \A c : Times(0, c) = <<>>
BY DEF Times

LEMMA TimesMore ==
  ASSUME NEW c \in Alphabet, NEW m \in Nat, NEW k \in Nat
  PROVE  Times(m + k, c) = Times(m, c) \o Times(k, c)
<1> DEFINE u == Times(m + k, c)
           s == Times(m, c)
           t == Times(k, c)
<1>1. /\ u \in Seq(Alphabet) /\ Len(u) = m + k
      /\ \A i \in 1 .. m + k : u[i] = c
  <2>1. PICK z \in Nat : z = m + k
    OBVIOUS
  <2> QED
    BY <2>1, TimesTyped
<1>2. /\ s \in Seq(Alphabet) /\ Len(s) = m
      /\ \A i \in 1 .. m : s[i] = c
  BY TimesTyped
<1>3. /\ t \in Seq(Alphabet) /\ Len(t) = k
      /\ \A i \in 1 .. k : t[i] = c
  BY TimesTyped
<1> HIDE DEF u, s, t
<1>4. s \o t \in Seq(Alphabet) /\ Len(s \o t) = m + k
  BY <1>2, <1>3, ConcatProperties
<1>5. ASSUME NEW i \in 1 .. m + k PROVE (s \o t)[i] = c
  <2>1. CASE i <= m
    BY <1>2, <1>3, <2>1
  <2>2. CASE i > m
    <3>1. i - m \in 1 .. k
      BY <2>2
    <3>2. (s \o t)[i] = t[i - m]
      BY <1>2, <1>3, <2>2
    <3> QED
      BY <1>3, <3>1, <3>2
  <2>3. i <= m \/ i > m
    OBVIOUS
  <2> QED
    BY <2>1, <2>2, <2>3, Zenon
<1>6. u = s \o t
  BY <1>1, <1>4, <1>5, SeqEqual
<1> QED
  BY <1>6 DEF u, s, t

Chunks(len) == (len + Chunk - 1) \div Chunk

LEMMA ChunksIs ==
  ASSUME NEW len \in Nat, len > 0
  PROVE  /\ Chunks(len) \in Nat /\ Chunks(len) >= 1
         /\ len - (Chunks(len) - 1) * Chunk \in 1 .. Chunk
<1>1. Chunk \in Nat /\ Chunk >= 1
  BY PrintfAssumption
<1>2. PICK m \in Nat : m = len + Chunk - 1 /\ m >= Chunk
  BY <1>1
<1>3. PICK q \in Nat : q = m \div Chunk
  BY <1>1, <1>2, DivIsNat
<1>4. Chunk * q <= m /\ m < Chunk * (q + 1)
  BY <1>1, <1>3
<1>5. q >= 1
  <2> SUFFICES ASSUME q = 0 PROVE FALSE
    OBVIOUS
  <2> QED
    BY <1>1, <1>2, <1>4
<1>6. PICK z \in Int : z = q * Chunk
  BY <1>1
<1>7. (q - 1) * Chunk = z - Chunk /\ Chunk * q = z /\ Chunk * (q + 1) = z + Chunk
  BY <1>1, <1>6
<1>8. len - (z - Chunk) \in 1 .. Chunk
  BY <1>1, <1>2, <1>4, <1>7
<1> QED
  BY <1>2, <1>3, <1>5, <1>7, <1>8 DEF Chunks

LEMMA PaddingIs ==
  ASSUME NEW c \in Alphabet, NEW len \in Int
  PROVE  /\ Padding(c, len) \in Seq(PieceSet)
         /\ Joined(Padding(c, len)) = Times(AtLeast(len, 0), c)
<1>0. Chunk \in Nat /\ Chunk >= 1
  BY PrintfAssumption
<1>1. CASE len <= 0
  <2>1. Padding(c, len) = <<>>
    BY <1>1 DEF Padding
  <2>2. AtLeast(len, 0) = 0
    BY <1>1 DEF AtLeast
  <2> QED
    BY <2>1, <2>2, JoinedNone, TimesNone
<1>2. CASE len > 0
  <2>1. PICK m \in Nat : m = Chunks(len) /\ m >= 1
    BY <1>2, ChunksIs
  <2>2. PICK last \in 1 .. Chunk : last = len - (m - 1) * Chunk
    BY <1>2, <2>1, ChunksIs
  <2> DEFINE p == [i \in 1 .. m |-> [text |-> Times(IF i < m THEN Chunk ELSE last, c),
                                     skip |-> m - i]]
  <2>3. Padding(c, len) = p
    BY <1>2, <2>1, <2>2 DEF Padding, Chunks
  <2>4. ASSUME NEW i \in 1 .. m PROVE p[i] \in PieceSet
    <3>1. PICK k \in Nat : k = IF i < m THEN Chunk ELSE last
      BY <1>0
    <3>2. Times(k, c) \in Seq(Alphabet)
      BY TimesTyped
    <3>3. m - i \in Nat
      OBVIOUS
    <3>4. p[i] = [text |-> Times(k, c), skip |-> m - i]
      BY <3>1
    <3> HIDE DEF p
    <3> QED
      BY <3>2, <3>3, <3>4 DEF PieceSet
  <2>5. p \in Seq(PieceSet) /\ Len(p) = m
    <3>1. p = [i \in 1 .. m |-> p[i]]
      OBVIOUS
    <3> HIDE DEF p
    <3>2. p \in [1 .. m -> PieceSet]
      BY <2>4, <3>1
    <3> QED
      BY <3>2
  <2>6. \A i \in 1 .. m : p[i].text = Times(IF i < m THEN Chunk ELSE last, c)
    OBVIOUS
  <2> DEFINE X == PieceTexts(p)
  <2>7. Len(X) = m /\ \A i \in 1 .. m : X[i] = Times(IF i < m THEN Chunk ELSE last, c)
    <3> HIDE DEF p
    <3> QED
      BY <2>5, <2>6, TextsTyped
  <2> HIDE DEF p, X
  <2> DEFINE T(d) == Upto(X, d) = Times(d * Chunk, c)
             G == {d \in Nat : d < m => T(d)}
  <2>8. T(0)
    <3>1. Upto(X, 0) = <<>>
      BY <2>7, UptoNone
    <3>2. 0 * Chunk = 0
      BY <1>0
    <3> QED
      BY <3>1, <3>2, TimesNone
  <2>9. ASSUME NEW d \in 1 .. m - 1, T(d - 1) PROVE T(d)
    <3>1. Upto(X, d) = Upto(X, d - 1) \o X[d]
      <4>1. d \in 1 .. m
        BY <2>1
      <4> QED
        BY <2>7, <4>1, UptoOne
    <3>2. X[d] = Times(Chunk, c)
      BY <2>1, <2>7
    <3>3. PICK z \in Nat : z = (d - 1) * Chunk
      BY <1>0
    <3>4. d * Chunk = z + Chunk
      BY <1>0, <3>3
    <3>5. Times(z + Chunk, c) = Times(z, c) \o Times(Chunk, c)
      BY <1>0, TimesMore
    <3> QED
      BY <2>9, <3>1, <3>2, <3>3, <3>4, <3>5
  <2> HIDE DEF T
  <2>10. 0 \in G /\ \A d \in 1 .. m - 1 : d - 1 \in G => d \in G
    BY <2>8, <2>9
  <2>11. m - 1 \in G
    <3> HIDE DEF G
    <3>1. PICK e \in Nat : e = m - 1
      BY <2>1
    <3>2. 0 .. e \subseteq G
      BY <2>10, <3>1, Climb
    <3> QED
      BY <3>1, <3>2
  <2>12. Upto(X, m - 1) = Times((m - 1) * Chunk, c)
    BY <2>1, <2>11 DEF T
  <2>13. Upto(X, m) = Upto(X, m - 1) \o Times(last, c)
    <3>1. m \in 1 .. m
      BY <2>1
    <3>2. X[m] = Times(last, c)
      BY <2>7, <3>1
    <3> QED
      BY <2>7, <3>1, <3>2, UptoOne
  <2>14. Flat(X) = Upto(X, m)
    BY <2>7, FlatIsUpto
  <2>15. PICK z \in Nat : z = (m - 1) * Chunk
    <3>1. PICK e \in Nat : e = m - 1
      BY <2>1
    <3>2. e * Chunk \in Nat
      BY <1>0
    <3> QED
      BY <3>1, <3>2
  <2>16. z + last = len
    BY <2>2, <2>15
  <2>17. Times(z + last, c) = Times(z, c) \o Times(last, c)
    <3>1. last \in Nat
      BY <1>0
    <3> QED
      BY <3>1, TimesMore, Zenon
  <2>18. AtLeast(len, 0) = len
    BY <1>2 DEF AtLeast
  <2>19. Joined(p) = Times(len, c)
    BY <2>12, <2>13, <2>14, <2>15, <2>16, <2>17 DEF Joined, X
  <2> QED
    BY <2>3, <2>5, <2>18, <2>19
<1> QED
  BY <1>1, <1>2

\* Checked pieces: after one that failed the rest is left out.
Checked(pieces) == \A i \in 1 .. Len(pieces) : pieces[i].skip = Len(pieces) - i

LEMMA AllCheckedIs ==
  ASSUME NEW p \in Seq(PieceSet)
  PROVE  /\ AllChecked(p) \in Seq(PieceSet)
         /\ Joined(AllChecked(p)) = Joined(p)
         /\ Checked(AllChecked(p))
<1>1. PICK c \in Nat : c = Len(p)
  OBVIOUS
<1> DEFINE q == AllChecked(p)
<1>2. q = [i \in 1 .. c |-> [p[i] EXCEPT !.skip = c - i]]
  BY <1>1 DEF AllChecked
<1>3. ASSUME NEW i \in 1 .. c
      PROVE  q[i] \in PieceSet /\ q[i].text = p[i].text /\ q[i].skip = c - i
  <2>1. p[i] \in PieceSet
    BY <1>1
  <2>2. q[i] = [p[i] EXCEPT !.skip = c - i]
    BY <1>2
  <2>3. c - i \in Nat
    OBVIOUS
  <2> HIDE DEF q
  <2> QED
    BY <2>1, <2>2, <2>3 DEF PieceSet
<1>4. q = [i \in 1 .. c |-> q[i]]
  BY <1>2
<1> HIDE DEF q
<1>5. q \in Seq(PieceSet) /\ Len(q) = c
  <2>1. q \in [1 .. c -> PieceSet]
    BY <1>3, <1>4
  <2> QED
    BY <2>1
<1>6. PieceTexts(q) = PieceTexts(p)
  <2>1. PieceTexts(q) = [i \in 1 .. c |-> q[i].text]
    BY <1>5 DEF PieceTexts
  <2>2. PieceTexts(p) = [i \in 1 .. c |-> p[i].text]
    BY <1>1 DEF PieceTexts
  <2> QED
    BY <1>3, <2>1, <2>2
<1>7. Checked(q)
  BY <1>3, <1>5 DEF Checked
<1> QED
  BY <1>5, <1>6, <1>7 DEF Joined, q

-----------------------------------------------------------------------------
(***************************************************************************)
(* What the pieces of a conversion say, when the code has read it.         *)
(***************************************************************************)
\* The flags in sp are those of the item, and a "-" for a negative width.
FlagsRead(flags, item) ==
  /\ "-" \in flags <=> LeftAligned(item)
  /\ \A c \in FlagChars \ {"-"} : c \in flags <=> HasFlag(item, c)

WidthIs(w, item) ==
  /\ Width(item) \in Nat /\ Width(item) = IF w = None THEN 0 ELSE w
  /\ item.width = None => w = None

PrecIs(p, item) ==
  /\ p = None <=> ~HasPrec(item)
  /\ HasPrec(item) => item.prec \in Nat /\ p = item.prec

AsWritten(sp, item) ==
  /\ FlagsRead(sp.flags, item)
  /\ WidthIs(sp.width, item)
  /\ PrecIs(sp.prec, item)
  /\ sp.length = LengthRead(item)

\* The blanks around a text.
Blanks(item, l) == Times(AtLeast(Width(item) - l, 0), " ")

LEMMA AlphabetHas ==
  /\ " " \in Alphabet /\ "0" \in Alphabet /\ "-" \in Alphabet /\ "+" \in Alphabet
  /\ "%" \in Alphabet /\ "x" \in Alphabet /\ "X" \in Alphabet
BY AlphabetAssumption DEF FlagChars, DigitChars

LEMMA Texts12 ==
  ASSUME NEW a \in Alphabet, NEW c \in Alphabet
  PROVE  <<a>> \in Seq(Alphabet) /\ Len(<<a>>) = 1 /\ <<a, c>> \in Seq(Alphabet)
         /\ Len(<<a, c>>) = 2
OBVIOUS

LEMMA OwnTexts ==
  /\ <<"(", "N", "U", "L", "L", ")">> \in Seq(Alphabet)
  /\ <<"(", "n", "i", "l", ")">> \in Seq(Alphabet)
<1>1. /\ "(" \in Alphabet /\ ")" \in Alphabet /\ "N" \in Alphabet /\ "U" \in Alphabet
      /\ "L" \in Alphabet /\ "n" \in Alphabet /\ "i" \in Alphabet /\ "l" \in Alphabet
  BY AlphabetAssumption DEF LengthChars
<1> QED
  BY <1>1

\* The pieces say the text, and are checked.
Means(pieces, text) == pieces \in Seq(PieceSet) /\ Joined(pieces) = text /\ Checked(pieces)

LEMMA TextPiecesMean ==
  ASSUME NEW item, AsWritten(spec, item), NEW text \in Seq(Alphabet)
  PROVE  /\ TextPieces(text) \in Seq(PieceSet)
         /\ Joined(TextPieces(text)) = Justified(item, text)
         /\ spec.width = None => Checked(TextPieces(text))
<1>1. PICK l \in Nat : l = Len(text)
  OBVIOUS
<1> DEFINE pad == IF spec.width = None THEN <<>> ELSE Padding(" ", spec.width - l)
           one == <<Piece(text)>>
<1>2. one \in Seq(PieceSet) /\ Joined(one) = text
  BY JoinedOne DEF Piece
<1>3. Width(item) \in Nat /\ Width(item) = IF spec.width = None THEN 0 ELSE spec.width
  BY DEF AsWritten, WidthIs
<1>4. pad \in Seq(PieceSet) /\ Joined(pad) = Blanks(item, l)
  <2>1. CASE spec.width = None
    <3>1. AtLeast(Width(item) - l, 0) = 0
      BY <1>3, <2>1 DEF AtLeast
    <3>2. Blanks(item, l) = <<>>
      BY <3>1, TimesNone DEF Blanks
    <3> QED
      BY <2>1, <3>2, JoinedNone
  <2>2. CASE spec.width # None
    <3>1. PICK w \in Int : w = spec.width - l
      BY <1>3, <2>2
    <3>2. Width(item) - l = w
      BY <1>3, <2>2, <3>1
    <3>3. Padding(" ", w) \in Seq(PieceSet) /\ Joined(Padding(" ", w)) = Times(AtLeast(w, 0), " ")
      BY AlphabetHas, PaddingIs
    <3> QED
      BY <2>2, <3>1, <3>2, <3>3 DEF Blanks
  <2> QED
    BY <2>1, <2>2
<1>5. TextPieces(text) = Around(pad, one)
  BY <1>1 DEF TextPieces
<1>6. "-" \in spec.flags <=> LeftAligned(item)
  BY DEF AsWritten, FlagsRead
<1>7. Justified(item, text) = IF LeftAligned(item) THEN text \o Blanks(item, l)
                              ELSE Blanks(item, l) \o text
  BY <1>1 DEF Justified, Blanks
<1>8. spec.width = None => Checked(TextPieces(text))
  <2> SUFFICES ASSUME spec.width = None PROVE Checked(TextPieces(text))
    OBVIOUS
  <2>1. pad = <<>>
    OBVIOUS
  <2>2. <<>> \o one = one /\ one \o <<>> = one
    OBVIOUS
  <2>3. TextPieces(text) = one
    BY <1>5, <2>1, <2>2 DEF Around
  <2>4. Len(one) = 1 /\ one[1].skip = 0
    BY DEF Piece
  <2> HIDE DEF one
  <2> QED
    BY <2>3, <2>4 DEF Checked
<1> HIDE DEF pad, one
<1>9. CASE LeftAligned(item)
  <2>1. TextPieces(text) = one \o pad
    BY <1>5, <1>6, <1>9 DEF Around
  <2>2. one \o pad \in Seq(PieceSet) /\ Joined(one \o pad) = Joined(one) \o Joined(pad)
    BY <1>2, <1>4, JoinedSplit
  <2> QED
    BY <1>2, <1>4, <1>7, <1>8, <1>9, <2>1, <2>2
<1>10. CASE ~LeftAligned(item)
  <2>1. TextPieces(text) = pad \o one
    BY <1>5, <1>6, <1>10 DEF Around
  <2>2. pad \o one \in Seq(PieceSet) /\ Joined(pad \o one) = Joined(pad) \o Joined(one)
    BY <1>2, <1>4, JoinedSplit
  <2> QED
    BY <1>2, <1>4, <1>7, <1>8, <1>10, <2>1, <2>2
<1> QED
  BY <1>9, <1>10

LEMMA StringPiecesMean ==
  ASSUME NEW item, AsWritten(spec, item), NEW text \in Seq(Alphabet),
         NEW cut, cut = IF HasPrec(item) /\ item.prec < Len(text)
                          THEN SubSeq(text, 1, item.prec) ELSE text
  PROVE  /\ StringPieces(text) \in Seq(PieceSet)
         /\ Joined(StringPieces(text)) = Justified(item, cut)
         /\ spec.width = None => Checked(StringPieces(text))
<1>1. /\ spec.prec = None <=> ~HasPrec(item)
      /\ HasPrec(item) => item.prec \in Nat /\ spec.prec = item.prec
  BY DEF AsWritten, PrecIs
<1>2. StringPieces(text) = TextPieces(cut)
  BY <1>1 DEF StringPieces
<1>3. cut \in Seq(Alphabet)
  BY <1>1
<1> QED
  BY <1>2, <1>3, TextPiecesMean

-----------------------------------------------------------------------------
(***************************************************************************)
(* What vprintf_output_int writes is the number of the reference.          *)
(***************************************************************************)
Zeros(k) == Times(AtLeast(k, 0), "0")

LEMMA ZerosAre ==
  ASSUME NEW k \in Int
  PROVE  /\ Zeros(k) \in Seq(Alphabet) /\ Len(Zeros(k)) = AtLeast(k, 0)
         /\ k <= 0 => Zeros(k) = <<>>
         /\ k > 0 => Zeros(k)[1] = "0"
<1>1. PICK m \in Nat : m = AtLeast(k, 0) /\ (k <= 0 => m = 0) /\ (k > 0 => m = k)
  BY DEF AtLeast
<1>2. Zeros(k) = Times(m, "0")
  BY <1>1 DEF Zeros
<1>3. /\ Times(m, "0") \in Seq(Alphabet) /\ Len(Times(m, "0")) = m
      /\ \A i \in 1 .. m : Times(m, "0")[i] = "0"
  BY AlphabetHas, TimesTyped
<1>4. k > 0 => 1 \in 1 .. m
  BY <1>1
<1> QED
  BY <1>1, <1>2, <1>3, <1>4, TimesNone

Spelled(v, b, m, digit, c) ==
  /\ Numeral(v, b, m, digit) = Zeros(m - c) \o DigitsBy(v, b, digit)
  /\ Zeros(m - c) \o DigitsBy(v, b, digit) \in Seq(Alphabet)
  /\ Len(Zeros(m - c) \o DigitsBy(v, b, digit)) = IF m < c THEN c ELSE m

LEMMA NumeralTyped ==
  ASSUME NEW v \in Nat, NEW b \in Nat, NEW digit, Suits(b, digit), NEW m \in Int,
         NEW c \in Nat, c = Count(v, b)
  PROVE  Spelled(v, b, m, digit, c)
<1>1. Numeral(v, b, m, digit) = Zeros(m - c) \o DigitsBy(v, b, digit)
  BY NumeralIs DEF Zeros
<1>2. PICK D \in Seq(Alphabet) : D = DigitsBy(v, b, digit) /\ Len(D) = c
  BY DigitsTyped
<1>3. PICK k \in Int : k = m - c
  OBVIOUS
<1>4. Zeros(k) \in Seq(Alphabet) /\ Len(Zeros(k)) = AtLeast(k, 0)
  BY ZerosAre
<1>5. Zeros(k) \o D \in Seq(Alphabet) /\ Len(Zeros(k) \o D) = AtLeast(k, 0) + c
  BY <1>2, <1>4, ConcatProperties, ZenonT(30)
<1>6. AtLeast(k, 0) + c = IF m < c THEN c ELSE m
  BY <1>3 DEF AtLeast
<1> QED
  BY <1>1, <1>2, <1>3, <1>5, <1>6 DEF Spelled

\* The digits of a number with a precision, and with the zero of "#".
BodyFrom(v, b, digit, min, alternative, c, plain, body, least) ==
  /\ plain = Numeral(v, b, min, digit)
  /\ body = IF alternative /\ (plain = <<>> \/ plain[1] # "0")
              THEN <<"0">> \o plain ELSE plain
  /\ least = IF alternative /\ min <= c THEN c + 1 ELSE IF c > min THEN c ELSE min

BodySpelled(v, b, digit, c, body, least) ==
  /\ body = Zeros(least - c) \o DigitsBy(v, b, digit)
  /\ body \in Seq(Alphabet)
  /\ Len(body) = least

LEMMA BodyIs ==
  ASSUME NEW v \in Nat, NEW b \in Nat, NEW digit, Suits(b, digit), NEW min \in Nat,
         NEW alternative \in BOOLEAN, NEW c \in Nat, c = Count(v, b),
         NEW plain, NEW body, NEW least,
         BodyFrom(v, b, digit, min, alternative, c, plain, body, least)
  PROVE  BodySpelled(v, b, digit, c, body, least)
<1>0. /\ plain = Numeral(v, b, min, digit)
      /\ body = IF alternative /\ (plain = <<>> \/ plain[1] # "0")
                  THEN <<"0">> \o plain ELSE plain
      /\ least = IF alternative /\ min <= c THEN c + 1 ELSE IF c > min THEN c ELSE min
  BY DEF BodyFrom
<1>1. PICK D \in Seq(Alphabet) : D = DigitsBy(v, b, digit) /\ Len(D) = c
  BY DigitsTyped
<1>2. least \in Nat /\ least >= c
  BY <1>0
<1>3. plain = Zeros(min - c) \o D
  <2>1. min \in Int
    OBVIOUS
  <2>2. Spelled(v, b, min, digit, c)
    BY <2>1, NumeralTyped
  <2> QED
    BY <1>0, <1>1, <2>2, Zenon DEF Spelled
<1>4. body = Zeros(least - c) \o D
  <2>1. CASE ~alternative
    <3>1. CASE c > min
      <4>1. PICK k \in Int : k = min - c /\ k <= 0
        BY <3>1
      <4>2. PICK z \in Int : z = least - c /\ z <= 0
        BY <1>0, <2>1, <3>1
      <4>3. Zeros(k) = Zeros(z)
        BY <4>1, <4>2, ZerosAre
      <4> QED
        BY <1>0, <1>3, <2>1, <4>1, <4>2, <4>3
    <3>2. CASE ~(c > min)
      BY <1>0, <1>3, <2>1, <3>2
    <3> QED
      BY <3>1, <3>2
  <2>2. CASE alternative /\ min <= c
    <3>1. PICK k \in Int : k = min - c /\ k <= 0
      BY <2>2
    <3>2. Zeros(k) = <<>>
      BY <3>1, ZerosAre
    <3>3. <<>> \o D = D
      OBVIOUS
    <3>4. plain = D
      BY <1>3, <3>1, <3>2, <3>3
    <3>5. D = <<>> \/ D[1] # "0"
      <4>1. CASE v = 0
        <5>1. b >= 2
          BY DEF Suits
        <5>2. c = 0
          BY <4>1, <5>1, NoDigits
        <5> QED
          BY <1>1, <5>2
      <4>2. CASE v # 0
        BY <1>1, <4>2, FirstDigit
      <4> QED
        BY <4>1, <4>2
    <3>6. body = <<"0">> \o D
      BY <1>0, <2>2, <3>4, <3>5
    <3>7. least - c = 1
      BY <1>0, <2>2
    <3>8. Zeros(1) = <<"0">>
      <4>1. AtLeast(1, 0) = 1
        BY DEF AtLeast
      <4>2. Times(1, "0") = <<"0">>
        BY DEF Times
      <4> QED
        BY <4>1, <4>2 DEF Zeros
    <3> QED
      BY <3>6, <3>7, <3>8
  <2>3. CASE alternative /\ ~(min <= c)
    <3>1. PICK k \in Int : k = min - c /\ k > 0
      BY <2>3
    <3>2. Zeros(k) \in Seq(Alphabet) /\ Len(Zeros(k)) = k /\ Zeros(k)[1] = "0"
      BY <3>1, ZerosAre DEF AtLeast
    <3>3. plain[1] = "0" /\ plain # <<>>
      <4>1. PICK s \in Seq(Alphabet) : s = Zeros(k)
        BY <3>2
      <4>2. plain = s \o D
        BY <1>3, <3>1, <4>1
      <4>3. Len(s) >= 1 /\ s[1] = "0"
        BY <3>1, <3>2, <4>1
      <4>4. (s \o D)[1] = s[1] /\ Len(s \o D) >= 1
        BY <4>3
      <4> QED
        BY <4>2, <4>3, <4>4
    <3>4. body = plain
      BY <1>0, <3>3
    <3>5. least = min
      BY <1>0, <2>3
    <3> QED
      BY <1>3, <3>4, <3>5
  <2> QED
    BY <2>1, <2>2, <2>3
<1>5. /\ Zeros(least - c) \o D \in Seq(Alphabet)
      /\ Len(Zeros(least - c) \o D) = IF least < c THEN c ELSE least
  <2>1. least \in Int
    BY <1>2
  <2>2. Spelled(v, b, least, digit, c)
    BY <1>0, <2>1, NumeralTyped
  <2> QED
    BY <1>1, <2>2, Zenon DEF Spelled
<1>6. (IF least < c THEN c ELSE least) = least
  BY <1>2
<1>7. body \in Seq(Alphabet) /\ Len(body) = least
  BY <1>4, <1>5, <1>6, Zenon
<1> QED
  BY <1>1, <1>4, <1>7, Zenon DEF BodySpelled

\* What vprintf_output_int is told of a number, and what the reference is.
NumberIs(item, conv, flags, v, abs, prefix, alternative, digit) ==
  /\ abs = IF v < 0 THEN 0 - v ELSE v
  /\ Base(conv) = Base(item.conv) /\ Suits(Base(conv), digit)
  /\ digit = IF conv = "X" THEN Upper ELSE Lower
  /\ prefix = Prefix(conv, flags, v)
  /\ alternative <=> conv = "o" /\ "#" \in flags
  /\ "0" \in flags <=> HasFlag(item, "0")
  /\ "-" \in flags <=> LeftAligned(item)

\* Only a hexadecimal number that is not 0 has two characters before it.
PrefixFits(prefix, v, alternative) ==
  Len(prefix) <= 1 \/ (Len(prefix) = 2 /\ v # 0 /\ ~alternative)

LEMMA BaseIs == \A conv : Base(conv) \in Nat /\ Base(conv) >= 2
BY DEF Base

\* The three parts of a number.
Middle(prefix, k, D) ==
  (IF prefix = <<>> THEN <<>> ELSE <<Piece(prefix)>>) \o Padding("0", k) \o <<Piece(D)>>

LEMMA MiddleIs ==
  ASSUME NEW prefix \in Seq(Alphabet), NEW k \in Int, NEW D \in Seq(Alphabet)
  PROVE  /\ Middle(prefix, k, D) \in Seq(PieceSet)
         /\ Joined(Middle(prefix, k, D)) = prefix \o (Zeros(k) \o D)
<1> DEFINE x == IF prefix = <<>> THEN <<>> ELSE <<Piece(prefix)>>
           y == Padding("0", k)
           z == <<Piece(D)>>
<1>1. x \in Seq(PieceSet) /\ Joined(x) = prefix
  <2>1. CASE prefix = <<>>
    BY <2>1, JoinedNone
  <2>2. CASE prefix # <<>>
    BY <2>2, JoinedOne DEF Piece
  <2> QED
    BY <2>1, <2>2
<1>2. y \in Seq(PieceSet) /\ Joined(y) = Zeros(k)
  BY AlphabetHas, PaddingIs DEF Zeros
<1>3. z \in Seq(PieceSet) /\ Joined(z) = D
  BY JoinedOne DEF Piece
<1>4. Middle(prefix, k, D) = (x \o y) \o z
  BY DEF Middle
<1> HIDE DEF x, y, z
<1>5. x \o y \in Seq(PieceSet) /\ Joined(x \o y) = prefix \o Zeros(k)
  BY <1>1, <1>2, JoinedSplit
<1>6. (x \o y) \o z \in Seq(PieceSet) /\ Joined((x \o y) \o z) = (prefix \o Zeros(k)) \o D
  BY <1>3, <1>5, JoinedSplit
<1>7. (prefix \o Zeros(k)) \o D = prefix \o (Zeros(k) \o D)
  <2>1. Zeros(k) \in Seq(Alphabet)
    BY ZerosAre
  <2> QED
    BY <2>1, ConcatAssociative
<1> QED
  BY <1>4, <1>6, <1>7

\* How much padding there is, and on which side.
LEMMA AroundIs ==
  ASSUME NEW item, AsWritten(spec, item), NEW k \in Int, NEW m \in Seq(PieceSet)
  PROVE  LET pad == Times(AtLeast(k, 0), " ")
             all == Around(Padding(" ", k), m)
         IN /\ all \in Seq(PieceSet)
            /\ Joined(all) = IF LeftAligned(item) THEN Joined(m) \o pad ELSE pad \o Joined(m)
<1> DEFINE pad == Times(AtLeast(k, 0), " ")
           p == Padding(" ", k)
           all == Around(p, m)
<1>1. p \in Seq(PieceSet) /\ Joined(p) = pad
  BY AlphabetHas, PaddingIs
<1>2. "-" \in spec.flags <=> LeftAligned(item)
  BY DEF AsWritten, FlagsRead
<1>3. all = IF LeftAligned(item) THEN m \o p ELSE p \o m
  BY <1>2 DEF Around
<1> HIDE DEF pad, p, all
<1>4. m \o p \in Seq(PieceSet) /\ Joined(m \o p) = Joined(m) \o pad
  BY <1>1, JoinedSplit
<1>5. p \o m \in Seq(PieceSet) /\ Joined(p \o m) = pad \o Joined(m)
  BY <1>1, JoinedSplit
<1>6. /\ all \in Seq(PieceSet)
      /\ Joined(all) = IF LeftAligned(item) THEN Joined(m) \o pad ELSE pad \o Joined(m)
  BY <1>3, <1>4, <1>5
<1> QED
  BY <1>6 DEF pad, p, all

InParts(prefix, digits, width, precision) ==
  AllChecked(Around(Padding(" ", width - precision - Len(prefix)),
                    Middle(prefix, precision - Len(digits), digits)))

PrecisionOf(flags, width, prefix, least) ==
  IF "0" \in flags /\ "-" \notin flags /\ spec.prec = None /\ width > least
    THEN width - Len(prefix) ELSE least

AbsOf(v) == IF v < 0 THEN 0 - v ELSE v
FiguresOf(conv) == IF conv = "X" THEN Upper ELSE Lower
WidthRead == IF spec.width = None THEN 0 ELSE spec.width
DigitsRead(conv, v) == Digits(AbsOf(v), Base(conv), FiguresOf(conv))

LEMMA NumberPiecesAre ==
  ASSUME NEW conv, NEW flags, NEW v
  PROVE  NumberPieces(conv, flags, v)
           = InParts(Prefix(conv, flags, v), DigitsRead(conv, v), WidthRead,
                     PrecisionOf(flags, WidthRead, Prefix(conv, flags, v),
                                 Precision(conv, flags, Len(DigitsRead(conv, v)))))
BY DEF NumberPieces, InParts, PrecisionOf, Middle, DigitsRead, AbsOf, FiguresOf, WidthRead

LEMMA NumberPiecesMean ==
  ASSUME NEW item, AsWritten(spec, item), NEW conv, NEW flags, NEW v \in Int, NEW abs \in Nat,
         NEW prefix \in Seq(Alphabet), NEW alternative \in BOOLEAN, NEW digit,
         NumberIs(item, conv, flags, v, abs, prefix, alternative, digit),
         PrefixFits(prefix, v, alternative)
  PROVE  Means(NumberPieces(conv, flags, v), Number(item, prefix, abs, alternative, digit))
<1>1. PICK b \in Nat : b = Base(conv) /\ b = Base(item.conv) /\ b >= 2 /\ Suits(b, digit)
  <2>1. Base(conv) \in Nat /\ Base(conv) >= 2
    BY BaseIs, Zenon
  <2> QED
    BY <2>1 DEF NumberIs
<1>2. PICK c \in Nat : c = Count(abs, b)
  BY <1>1, CountIs
<1>3. PICK D \in Seq(Alphabet) : D = DigitsBy(abs, b, digit) /\ Len(D) = c
  BY <1>1, <1>2, DigitsTyped
<1>4. Digits(abs, b, digit) = D
  BY <1>1, <1>3, DigitsIs
<1>5. PICK w \in Nat : w = Width(item) /\ w = IF spec.width = None THEN 0 ELSE spec.width
  BY DEF AsWritten, WidthIs
<1>6. PICK min \in Nat : /\ min = IF HasPrec(item) THEN item.prec ELSE 1
                         /\ min = IF spec.prec = None THEN 1 ELSE spec.prec
                         /\ spec.prec = None <=> ~HasPrec(item)
  BY DEF AsWritten, PrecIs
<1>7. PICK least \in Nat : least = IF alternative /\ min <= c THEN c + 1
                                   ELSE IF c > min THEN c ELSE min
  OBVIOUS
<1>8. Precision(conv, flags, c) = least
  BY <1>6, <1>7 DEF Precision, NumberIs
<1>9. least >= c
  BY <1>7
<1>10. PICK q \in Nat : q = Len(prefix)
  OBVIOUS
<1> DEFINE padded == HasFlag(item, "0") /\ ~LeftAligned(item) /\ ~HasPrec(item)
<1>11. padded \in BOOLEAN
  OBVIOUS
<1>12. PICK precision \in Int : precision = IF padded /\ w > least THEN w - q ELSE least
  <2>1. w - q \in Int /\ least \in Int
    OBVIOUS
  <2> HIDE DEF padded
  <2> QED
    BY <2>1, Zenon
<1>13. NumberPieces(conv, flags, v)
         = AllChecked(Around(Padding(" ", w - precision - q), Middle(prefix, precision - c, D)))
  <2>1. "0" \in flags /\ "-" \notin flags /\ spec.prec = None <=> padded
    BY <1>6 DEF NumberIs
  <2>2. /\ abs = IF v < 0 THEN 0 - v ELSE v
        /\ digit = IF conv = "X" THEN Upper ELSE Lower
        /\ prefix = Prefix(conv, flags, v)
    BY DEF NumberIs
  <2> HIDE DEF padded
  <2>3. PrecisionOf(flags, w, prefix, least) = precision
    BY <1>10, <1>12, <2>1 DEF PrecisionOf
  <2>4. D = DigitsRead(conv, v)
    BY <1>1, <1>4, <2>2, Zenon DEF DigitsRead, AbsOf, FiguresOf
  <2>7. w = WidthRead
    BY <1>5 DEF WidthRead
  <2>5. NumberPieces(conv, flags, v)
           = InParts(prefix, D, w, PrecisionOf(flags, w, prefix, Precision(conv, flags, Len(D))))
    <3>1. prefix = Prefix(conv, flags, v)
      BY <2>2
    <3> QED
      BY <2>4, <2>7, <3>1, NumberPiecesAre, Zenon
  <2>6. NumberPieces(conv, flags, v) = InParts(prefix, D, w, precision)
    BY <1>3, <1>8, <2>3, <2>5, Zenon
  <2> QED
    BY <1>3, <1>10, <2>6, Zenon DEF InParts
<1>14. PICK m \in Seq(PieceSet) : /\ m = Middle(prefix, precision - c, D)
                                  /\ Joined(m) = prefix \o (Zeros(precision - c) \o D)
  <2>1. PICK k \in Int : k = precision - c
    OBVIOUS
  <2> QED
    BY <2>1, MiddleIs
<1>15. PICK side \in Int : side = w - precision - q
  OBVIOUS
<1> DEFINE pad == Times(AtLeast(side, 0), " ")
           all == Around(Padding(" ", side), m)
<1>16. /\ all \in Seq(PieceSet)
       /\ Joined(all) = IF LeftAligned(item) THEN Joined(m) \o pad ELSE pad \o Joined(m)
  BY AroundIs
<1>17. NumberPieces(conv, flags, v) = AllChecked(all)
  BY <1>13, <1>14, <1>15
<1>18. /\ NumberPieces(conv, flags, v) \in Seq(PieceSet)
       /\ Joined(NumberPieces(conv, flags, v)) = Joined(all)
       /\ Checked(NumberPieces(conv, flags, v))
  <2> HIDE DEF all
  <2> QED
    BY <1>16, <1>17, AllCheckedIs
<1> HIDE DEF all
<1>23. PICK plain : plain = Numeral(abs, b, min, digit)
  OBVIOUS
<1>24. PICK body : body = IF alternative /\ (plain = <<>> \/ plain[1] # "0")
                            THEN <<"0">> \o plain ELSE plain
  OBVIOUS
<1>19. body = Zeros(least - c) \o D /\ body \in Seq(Alphabet) /\ Len(body) = least
  <2>1. BodyFrom(abs, b, digit, min, alternative, c, plain, body, least)
    BY <1>7, <1>23, <1>24 DEF BodyFrom
  <2>2. BodySpelled(abs, b, digit, c, body, least)
    BY <1>1, <1>2, <2>1, BodyIs
  <2> QED
    BY <1>3, <2>2, Zenon DEF BodySpelled
<1>20. Number(item, prefix, abs, alternative, digit)
         = IF padded /\ w - q > least
             THEN prefix \o Numeral(abs, b, w - q, digit) ELSE Justified(item, prefix \o body)
  <2>1. Number(item, prefix, abs, alternative, digit)
          = IF HasFlag(item, "0") /\ ~LeftAligned(item) /\ ~HasPrec(item) /\ w - q > Len(body)
              THEN prefix \o Numeral(abs, b, w - q, digit) ELSE Justified(item, prefix \o body)
    BY <1>1, <1>5, <1>6, <1>10, <1>23, <1>24, Zenon DEF Number
  <2> QED
    BY <1>19, <2>1
<1> HIDE DEF padded
<1>21. CASE padded /\ w > least /\ w - q > least
  <2>1. precision = w - q /\ side = 0
    BY <1>12, <1>15, <1>21
  <2>2. Numeral(abs, b, w - q, digit) = Zeros(precision - c) \o D
    <3>1. Spelled(abs, b, precision, digit, c)
      BY <1>1, <1>2, NumeralTyped
    <3> QED
      BY <1>3, <2>1, <3>1 DEF Spelled
  <2>3. pad = <<>>
    <3>1. AtLeast(side, 0) = 0
      BY <2>1 DEF AtLeast
    <3> QED
      BY <3>1, TimesNone
  <2>4. ~LeftAligned(item)
    BY <1>21 DEF padded
  <2>5. Joined(all) = Joined(m)
    <3>1. Joined(m) \in Seq(Alphabet)
      BY JoinedTyped
    <3>2. <<>> \o Joined(m) = Joined(m)
      BY <3>1
    <3> HIDE DEF pad
    <3> QED
      BY <1>16, <2>3, <2>4, <3>2
  <2> QED
    BY <1>14, <1>18, <1>20, <1>21, <2>2, <2>5 DEF Means
<1>22. CASE ~(padded /\ w > least /\ w - q > least)
  <2>1. Number(item, prefix, abs, alternative, digit) = Justified(item, prefix \o body)
    <3>1. ~(padded /\ w - q > least)
      BY <1>22
    <3> QED
      BY <1>20, <3>1
  <2>2. PICK text \in Seq(Alphabet) : text = prefix \o body /\ Len(text) = q + least
    <3>1. body \in Seq(Alphabet) /\ Len(body) = least
      BY <1>19
    <3>2. prefix \o body \in Seq(Alphabet) /\ Len(prefix \o body) = q + least
      BY <1>10, <3>1, ConcatLen, Zenon
    <3> QED
      BY <3>2
  <2>3. Zeros(precision - c) = Zeros(least - c)
    <3>1. CASE padded /\ w > least
      <4>1. precision = w - q /\ w - q <= least
        BY <1>12, <1>22, <3>1
      <4>2. CASE q <= 1
        <5>1. precision = least
          BY <3>1, <4>1, <4>2
        <5> QED
          BY <5>1
      <4>3. CASE q = 2 /\ v # 0 /\ ~alternative
        <5>1. abs # 0
          BY <4>3 DEF NumberIs
        <5>2. c >= 1
          BY <1>1, <1>2, <5>1, FirstDigit
        <5>3. min = 1
          BY <1>6, <3>1 DEF padded
        <5>4. least = c
          BY <1>7, <4>3, <5>2, <5>3
        <5>5. precision <= least
          BY <4>1
        <5>6. PICK y \in Int : y = precision - c /\ y <= 0
          BY <5>4, <5>5
        <5>7. PICK z \in Int : z = least - c /\ z <= 0
          BY <5>4
        <5>8. Zeros(y) = <<>> /\ Zeros(z) = <<>>
          BY <5>6, <5>7, ZerosAre
        <5> QED
          BY <5>6, <5>7, <5>8
      <4> QED
        BY <1>10, <4>2, <4>3 DEF PrefixFits
    <3>2. CASE ~(padded /\ w > least)
      BY <1>12, <3>2
    <3> QED
      BY <3>1, <3>2
  <2>4. Joined(m) = text
    BY <1>14, <1>19, <2>2, <2>3
  <2>5. AtLeast(side, 0) = AtLeast(w - (q + least), 0)
    <3>1. CASE padded /\ w > least
      <4>1. precision = w - q /\ w - q <= least
        BY <1>12, <1>22, <3>1
      <4>2. side = 0 /\ w - (q + least) <= 0
        BY <1>15, <4>1
      <4> QED
        BY <4>2 DEF AtLeast
    <3>2. CASE ~(padded /\ w > least)
      <4>1. side = w - (q + least)
        BY <1>12, <1>15, <3>2
      <4> QED
        BY <4>1
    <3> QED
      BY <3>1, <3>2
  <2>6. Justified(item, text) = IF LeftAligned(item) THEN text \o pad ELSE pad \o text
    BY <1>5, <2>2, <2>5 DEF Justified
  <2> QED
    BY <1>16, <1>18, <2>1, <2>2, <2>4, <2>6 DEF Means
<1> QED
  BY <1>21, <1>22

-----------------------------------------------------------------------------
(***************************************************************************)
(* What a conversion writes is the meaning of the item.                    *)
(***************************************************************************)
LEMMA WordIs ==
  ASSUME NEW length \in DOMAIN Word
  PROVE  /\ Word[length] \in Nat /\ Word[length] >= 1
         /\ length \in {"none", "hh", "h", "l", "ll", "z"}
BY WordAssumption

LEMMA SignedIs ==
  ASSUME NEW i \in Int, NEW w \in Nat, w >= 1
  PROVE  SignedOf(i, w) \in Int /\ UnsignedOf(i, w) \in Nat
BY DEF SignedOf, UnsignedOf

LEMMA SmallIs ==
  ASSUME NEW i \in Nat, NEW w \in Nat, w >= 2 * (i + 1)
  PROVE  SignedOf(i, w) = i /\ UnsignedOf(i, w) = i
<1>1. PICK h \in Nat : h = w \div 2
  OBVIOUS
<1>2. 2 * h <= w /\ w < 2 * (h + 1)
  BY <1>1
<1>3. i + h \in Nat /\ i + h < w
  BY <1>2
<1>4. (i + h) % w = i + h
  <2>1. PICK k \in Nat : k = i + h /\ k < w
    BY <1>3
  <2>2. k % w = k
    BY <2>1
  <2> QED
    BY <2>1, <2>2
<1>5. i % w = i
  <2>1. i < w
    OBVIOUS
  <2> QED
    BY <2>1
<1> QED
  BY <1>1, <1>4, <1>5 DEF SignedOf, UnsignedOf

\* What the code reads is what the program has given.
LEMMA ReadsInt ==
  ASSUME NEW item \in Item, HasArgument(item)
  PROVE  /\ LengthRead(item) \in DOMAIN Word
         /\ SignedOf(item.int, Word[LengthRead(item)]) = SignedOf(item.int, Word[item.length])
         /\ UnsignedOf(item.int, Word[LengthRead(item)]) = UnsignedOf(item.int, Word[item.length])
         /\ SignedOf(item.int, Word[item.length]) \in Int
         /\ UnsignedOf(item.int, Word[item.length]) \in Nat
<1>1. item.int \in Int /\ item.length \in DOMAIN Word
  BY DEF Item
<1>2. /\ item.length \in {"none", "hh", "h", "l", "ll", "z"}
      /\ Word[item.length] \in Nat /\ Word[item.length] >= 1
  BY <1>1, WordIs
<1>3. LengthRead(item) \in DOMAIN Word
  BY WordAssumption, <1>2 DEF LengthRead
<1>4. PICK w \in Nat : w = Word[item.length] /\ w >= 1
  BY <1>2
<1>5. SignedOf(item.int, w) \in Int /\ UnsignedOf(item.int, w) \in Nat
  BY <1>1, <1>4, SignedIs
<1>6. CASE item.length \in {"none", "hh", "h"}
  <2>1. LengthRead(item) = item.length
    BY <1>6 DEF LengthRead
  <2> QED
    BY <1>3, <1>4, <1>5, <2>1
<1>7. CASE item.length \in {"l", "ll", "z"}
  <2>1. LengthRead(item) = "none"
    BY <1>7 DEF LengthRead
  <2>2. PICK i \in Nat : i = item.int /\ i <= IntMax
    BY <1>7, WordAssumption DEF HasArgument
  <2>3. PICK z \in Nat : z = Word["none"] /\ z = 2 * (IntMax + 1) /\ w >= z
    BY <1>4, <1>7, WordAssumption
  <2>4. z >= 2 * (i + 1) /\ w >= 2 * (i + 1)
    BY <2>2, <2>3, WordAssumption
  <2>5. SignedOf(i, z) = i /\ UnsignedOf(i, z) = i
    BY <2>4, SmallIs
  <2>6. SignedOf(i, w) = i /\ UnsignedOf(i, w) = i
    BY <2>4, SmallIs
  <2> QED
    BY <1>3, <1>4, <1>5, <2>1, <2>2, <2>3, <2>5, <2>6
<1> QED
  BY <1>2, <1>6, <1>7

\* An argument of the item.
ArgOf(arg, item) == arg.int = item.int /\ arg.str = item.str

\* What a conversion writes, unchecked only if it is padded.
PiecesAre(pieces, item) ==
  /\ pieces \in Seq(PieceSet)
  /\ Joined(pieces) = Meaning(item)
  /\ ~Padded(item) => Checked(pieces)

ShortSigns ==
  /\ <<>> \in Seq(Alphabet) /\ Len(<<>>) = 0
  /\ <<"+">> \in Seq(Alphabet) /\ Len(<<"+">>) = 1
  /\ <<"-">> \in Seq(Alphabet) /\ Len(<<"-">>) = 1
  /\ <<" ">> \in Seq(Alphabet) /\ Len(<<" ">>) = 1

ShortHexes ==
  /\ <<>> \in Seq(Alphabet) /\ Len(<<>>) = 0
  /\ <<"0", "x">> \in Seq(Alphabet) /\ Len(<<"0", "x">>) = 2
  /\ <<"0", "X">> \in Seq(Alphabet) /\ Len(<<"0", "X">>) = 2

LEMMA ShortTexts == ShortSigns /\ ShortHexes
<1>1. <<>> \in Seq(Alphabet)
  BY EmptySeq
<1>2. Len(<<>>) = 0
  BY EmptySeq
<1> QED
  BY <1>1, <1>2, AlphabetHas, Texts12, Zenon DEF ShortSigns, ShortHexes

LEMMA AtMostOne == \A n \in {0, 1} : n <= 1
OBVIOUS

LEMMA SignIs ==
  ASSUME NEW item, NEW v \in Int, NEW flags,
         "+" \in flags <=> HasFlag(item, "+"), " " \in flags <=> HasFlag(item, " ")
  PROVE  /\ Sign(item, v) = Prefix("d", flags, v)
         /\ Sign(item, v) \in Seq(Alphabet) /\ Len(Sign(item, v)) <= 1
<1>1. Sign(item, v) = Prefix("d", flags, v)
  BY DEF Sign, Prefix
<1>2. Sign(item, v) \in {<<>>, <<"+">>, <<"-">>, <<" ">>}
  BY DEF Sign
<1>3. /\ \A text \in {<<>>, <<"+">>, <<"-">>, <<" ">>} : text \in Seq(Alphabet)
      /\ \A text \in {<<>>, <<"+">>, <<"-">>, <<" ">>} : Len(text) \in {0, 1}
  BY ShortTexts, Zenon DEF ShortSigns
<1>4. Sign(item, v) \in Seq(Alphabet) /\ Len(Sign(item, v)) \in {0, 1}
  BY <1>2, <1>3, Zenon
<1>5. Len(Sign(item, v)) <= 1
  BY <1>4, AtMostOne, Zenon
<1> QED
  BY <1>1, <1>4, <1>5, Zenon

HexPrefixOf(item, v) ==
  IF HasFlag(item, "#") /\ v # 0 THEN IF item.conv = "X" THEN <<"0", "X">> ELSE <<"0", "x">>
  ELSE <<>>

LEMMA HexPrefixIs ==
  ASSUME NEW item, NEW v \in Nat, NEW flags, "#" \in flags <=> HasFlag(item, "#"),
         item.conv \in {"x", "X"}
  PROVE  /\ HexPrefixOf(item, v) = Prefix(item.conv, flags, v)
         /\ HexPrefixOf(item, v) \in Seq(Alphabet)
         /\ PrefixFits(HexPrefixOf(item, v), v, FALSE)
<1>1. /\ <<"0", "x">> \in Seq(Alphabet) /\ <<"0", "X">> \in Seq(Alphabet) /\ <<>> \in Seq(Alphabet)
  BY ShortTexts, Zenon DEF ShortHexes
<1>2. Len(<<"0", "x">>) = 2 /\ Len(<<"0", "X">>) = 2 /\ Len(<<>>) = 0
  BY ShortTexts, Zenon DEF ShortHexes
<1>3. HexPrefixOf(item, v) = Prefix(item.conv, flags, v)
  <2>1. CASE item.conv = "x"
    BY <2>1 DEF HexPrefixOf, Prefix
  <2>2. CASE item.conv = "X"
    BY <2>2 DEF HexPrefixOf, Prefix
  <2> QED
    BY <2>1, <2>2
<1> QED
  BY <1>1, <1>2, <1>3 DEF HexPrefixOf, PrefixFits

LEMMA SuitsAll == Suits(10, Lower) /\ Suits(8, Lower) /\ Suits(16, Lower) /\ Suits(16, Upper)
BY DEF Suits, Figures

\* The flags of the item, as its conversion reads them.
FlagFacts(flags, item) ==
  /\ "-" \in flags <=> LeftAligned(item)
  /\ "0" \in flags <=> HasFlag(item, "0")
  /\ "+" \in flags <=> HasFlag(item, "+")
  /\ " " \in flags <=> HasFlag(item, " ")
  /\ "#" \in flags <=> HasFlag(item, "#")

LEMMA FlagsAre ==
  ASSUME NEW item, AsWritten(spec, item)
  PROVE  FlagFacts(spec.flags, item)
BY DEF AsWritten, FlagsRead, FlagFacts, FlagChars

LEMMA SignedMeans ==
  ASSUME NEW item, AsWritten(spec, item), item.conv \in {"d", "i"},
         NEW v \in Int, NEW abs \in Nat, abs = IF v < 0 THEN 0 - v ELSE v
  PROVE  Means(NumberPieces("d", spec.flags, v), Number(item, Sign(item, v), abs, FALSE, Lower))
<1>1. FlagFacts(spec.flags, item)
  BY FlagsAre
<1>2. PICK prefix \in Seq(Alphabet) :
        prefix = Sign(item, v) /\ prefix = Prefix("d", spec.flags, v) /\ Len(prefix) <= 1
  BY <1>1, SignIs DEF FlagFacts
<1>3. Base("d") = 10 /\ Base(item.conv) = 10
  BY DEF Base
<1>4. NumberIs(item, "d", spec.flags, v, abs, prefix, FALSE, Lower)
  BY <1>1, <1>2, <1>3, SuitsAll DEF NumberIs, FlagFacts
<1>5. PrefixFits(prefix, v, FALSE)
  BY <1>2 DEF PrefixFits
<1>6. PICK no \in BOOLEAN : no = FALSE
  OBVIOUS
<1>7. Means(NumberPieces("d", spec.flags, v), Number(item, prefix, abs, no, Lower))
  BY <1>4, <1>5, <1>6, NumberPiecesMean
<1> QED
  BY <1>2, <1>6, <1>7

LEMMA UnsignedMeans ==
  ASSUME NEW item, AsWritten(spec, item), item.conv \in {"u", "o"},
         NEW v \in Nat, NEW alternative \in BOOLEAN,
         alternative <=> item.conv = "o" /\ HasFlag(item, "#")
  PROVE  Means(NumberPieces(item.conv, spec.flags, v), Number(item, <<>>, v, alternative, Lower))
<1>1. FlagFacts(spec.flags, item)
  BY FlagsAre
<1>2. PICK prefix \in Seq(Alphabet) : prefix = <<>>
  BY EmptySeq, Zenon
<1>3. prefix = Prefix(item.conv, spec.flags, v)
  <2>1. CASE item.conv = "u"
    BY <1>2, <2>1 DEF Prefix
  <2>2. CASE item.conv = "o"
    BY <1>2, <2>2 DEF Prefix
  <2> QED
    BY <2>1, <2>2
<1>4. Suits(Base(item.conv), Lower)
  <2>1. Base(item.conv) = 10 \/ Base(item.conv) = 8
    BY DEF Base
  <2> QED
    BY <2>1, SuitsAll
<1>5. PICK w \in Int : w = v
  OBVIOUS
<1>6. v = IF w < 0 THEN 0 - w ELSE w
  BY <1>5
<1>7. Lower = IF item.conv = "X" THEN Upper ELSE Lower
  OBVIOUS
<1>8. NumberIs(item, item.conv, spec.flags, w, v, prefix, alternative, Lower)
  BY <1>1, <1>3, <1>4, <1>5, <1>6, <1>7 DEF NumberIs, FlagFacts
<1>9. PrefixFits(prefix, w, alternative)
  BY <1>2 DEF PrefixFits
<1>10. Means(NumberPieces(item.conv, spec.flags, w), Number(item, prefix, v, alternative, Lower))
  BY <1>8, <1>9, NumberPiecesMean
<1> QED
  BY <1>2, <1>5, <1>10

LEMMA HexMeans ==
  ASSUME NEW item, AsWritten(spec, item), item.conv \in {"x", "X"}, NEW v \in Nat,
         NEW digit, digit = IF item.conv = "X" THEN Upper ELSE Lower
  PROVE  Means(NumberPieces(item.conv, spec.flags, v),
               Number(item, HexPrefixOf(item, v), v, FALSE, digit))
<1>1. FlagFacts(spec.flags, item)
  BY FlagsAre
<1>2. PICK prefix \in Seq(Alphabet) :
        /\ prefix = HexPrefixOf(item, v) /\ prefix = Prefix(item.conv, spec.flags, v)
        /\ PrefixFits(prefix, v, FALSE)
  BY <1>1, HexPrefixIs DEF FlagFacts
<1>4. Suits(Base(item.conv), digit)
  <2>1. Base(item.conv) = 16
    BY DEF Base
  <2> QED
    BY <2>1, SuitsAll
<1>5. PICK w \in Int : w = v
  OBVIOUS
<1>6. v = IF w < 0 THEN 0 - w ELSE w
  BY <1>5
<1>7. PICK no \in BOOLEAN : no = FALSE
  OBVIOUS
<1>11. no <=> item.conv = "o" /\ "#" \in spec.flags
  BY <1>7
<1>8. NumberIs(item, item.conv, spec.flags, w, v, prefix, no, digit)
  BY <1>1, <1>2, <1>4, <1>5, <1>6, <1>11 DEF NumberIs, FlagFacts
<1>9. PrefixFits(prefix, w, no)
  BY <1>2, <1>5, <1>7
<1>10. Means(NumberPieces(item.conv, spec.flags, w), Number(item, prefix, v, no, digit))
  BY <1>8, <1>9, NumberPiecesMean
<1> QED
  BY <1>2, <1>5, <1>7, <1>10

\* A pointer is a hexadecimal number with "#".
LEMMA PointerNumberMeans ==
  ASSUME NEW item, AsWritten(spec, item), item.conv = "p", NEW v \in Nat, v # 0
  PROVE  Means(NumberPieces("x", spec.flags \cup {"#"}, v),
               Number(item, <<"0", "x">>, v, FALSE, Lower))
<1>1. FlagFacts(spec.flags, item)
  BY FlagsAre
<1>3. PICK flags : flags = spec.flags \cup {"#"}
  OBVIOUS
<1>2. PICK prefix \in Seq(Alphabet) : prefix = <<"0", "x">> /\ Len(prefix) = 2
  BY AlphabetHas, Texts12
<1>12. prefix = Prefix("x", flags, v)
  BY <1>2, <1>3 DEF Prefix
<1>4. Base("x") = 16 /\ Base(item.conv) = 16
  BY DEF Base
<1>5. PICK w \in Int : w = v
  OBVIOUS
<1>6. v = IF w < 0 THEN 0 - w ELSE w
  BY <1>5
<1>7. PICK no \in BOOLEAN : no = FALSE
  OBVIOUS
<1>13. ("0" \in flags <=> HasFlag(item, "0")) /\ ("-" \in flags <=> LeftAligned(item))
  BY <1>1, <1>3 DEF FlagFacts
<1>8. NumberIs(item, "x", flags, w, v, prefix, no, Lower)
  BY <1>4, <1>5, <1>6, <1>7, <1>12, <1>13, SuitsAll DEF NumberIs
<1>9. PrefixFits(prefix, w, no)
  BY <1>2, <1>5, <1>7 DEF PrefixFits
<1>10. Means(NumberPieces("x", flags, w), Number(item, prefix, v, no, Lower))
  BY <1>8, <1>9, NumberPiecesMean
<1> QED
  BY <1>2, <1>3, <1>5, <1>7, <1>10

LEMMA NumbersMean ==
  ASSUME NEW item \in Item, HasArgument(item), AsWritten(spec, item), NEW arg, ArgOf(arg, item),
         item.conv \in {"d", "i", "u", "o", "x", "X"}
  PROVE  PiecesAre(Pieces(Conv(item.conv), arg), item)
<1>1. spec.length = LengthRead(item)
  BY DEF AsWritten
<1>2. PICK signed \in Int : /\ signed = SignedOf(arg.int, Word[spec.length])
                            /\ signed = SignedOf(item.int, Word[item.length])
  BY <1>1, ReadsInt DEF ArgOf
<1>3. PICK unsigned \in Nat : /\ unsigned = UnsignedOf(arg.int, Word[spec.length])
                              /\ unsigned = UnsignedOf(item.int, Word[item.length])
  BY <1>1, ReadsInt DEF ArgOf
<1>5. CASE item.conv \in {"d", "i"}
  <2>1. Pieces(Conv(item.conv), arg) = NumberPieces("d", spec.flags, signed)
    BY <1>2, <1>5 DEF Pieces, Conv
  <2>2. PICK abs \in Nat : abs = IF signed < 0 THEN 0 - signed ELSE signed
    OBVIOUS
  <2>3. Meaning(item) = Number(item, Sign(item, signed), abs, FALSE, Lower)
    BY <1>2, <1>5, <2>2 DEF Meaning
  <2>4. Means(NumberPieces("d", spec.flags, signed),
              Number(item, Sign(item, signed), abs, FALSE, Lower))
    BY <1>5, <2>2, SignedMeans
  <2> QED
    BY <2>1, <2>3, <2>4 DEF PiecesAre, Means
<1>6. CASE item.conv \in {"u", "o"}
  <2>1. Pieces(Conv(item.conv), arg) = NumberPieces(item.conv, spec.flags, unsigned)
    BY <1>3, <1>6 DEF Pieces, Conv
  <2>2. PICK alternative \in BOOLEAN : alternative = (item.conv = "o" /\ HasFlag(item, "#"))
    OBVIOUS
  <2>3. Meaning(item) = Number(item, <<>>, unsigned, alternative, Lower)
    BY <1>3, <1>6, <2>2 DEF Meaning
  <2>4. Means(NumberPieces(item.conv, spec.flags, unsigned),
              Number(item, <<>>, unsigned, alternative, Lower))
    BY <1>6, <2>2, UnsignedMeans
  <2> QED
    BY <2>1, <2>3, <2>4 DEF PiecesAre, Means
<1>7. CASE item.conv \in {"x", "X"}
  <2>1. Pieces(Conv(item.conv), arg) = NumberPieces(item.conv, spec.flags, unsigned)
    BY <1>3, <1>7 DEF Pieces, Conv
  <2>2. PICK digit : digit = IF item.conv = "X" THEN Upper ELSE Lower
    OBVIOUS
  <2>3. Meaning(item) = Number(item, HexPrefixOf(item, unsigned), unsigned, FALSE, digit)
    BY <1>3, <1>7, <2>2 DEF Meaning, HexPrefixOf
  <2>4. Means(NumberPieces(item.conv, spec.flags, unsigned),
              Number(item, HexPrefixOf(item, unsigned), unsigned, FALSE, digit))
    BY <1>7, <2>2, HexMeans
  <2> QED
    BY <2>1, <2>3, <2>4 DEF PiecesAre, Means
<1> QED
  BY <1>5, <1>6, <1>7

LEMMA PointerMeans ==
  ASSUME NEW item \in Item, HasArgument(item), AsWritten(spec, item), NEW arg, ArgOf(arg, item),
         item.conv = "p"
  PROVE  PiecesAre(Pieces(Conv(item.conv), arg), item)
<1>1. item.int \in Nat /\ item.prec = None /\ ~HasPrec(item)
  BY DEF HasArgument, HasPrec
<1>2. Padded(item) \/ spec.width = None
  BY DEF Padded, AsWritten, WidthIs
<1>3. CASE item.int = 0
  <2>1. PICK text : text = <<"(", "n", "i", "l", ")">>
    OBVIOUS
  <2>2. text \in Seq(Alphabet)
    BY <2>1, OwnTexts
  <2>3. Pieces(Conv(item.conv), arg) = StringPieces(text)
    BY <1>3, <2>1 DEF Pieces, Conv, ArgOf
  <2>4. Meaning(item) = Justified(item, text)
    BY <1>3, <2>1 DEF Meaning
  <2>5. text = IF HasPrec(item) /\ item.prec < Len(text) THEN SubSeq(text, 1, item.prec) ELSE text
    BY <1>1
  <2>6. /\ StringPieces(text) \in Seq(PieceSet)
        /\ Joined(StringPieces(text)) = Justified(item, text)
        /\ spec.width = None => Checked(StringPieces(text))
    BY <2>2, <2>5, StringPiecesMean
  <2> QED
    BY <1>2, <2>3, <2>4, <2>6 DEF PiecesAre
<1>4. CASE item.int # 0
  <2>1. PICK v \in Nat : v = item.int /\ v # 0
    BY <1>1, <1>4
  <2>2. Pieces(Conv(item.conv), arg) = NumberPieces("x", spec.flags \cup {"#"}, v)
    BY <1>4, <2>1 DEF Pieces, Conv, ArgOf
  <2>3. Meaning(item) = Number(item, <<"0", "x">>, v, FALSE, Lower)
    BY <1>4, <2>1 DEF Meaning
  <2>4. Means(NumberPieces("x", spec.flags \cup {"#"}, v),
              Number(item, <<"0", "x">>, v, FALSE, Lower))
    BY <2>1, PointerNumberMeans
  <2> QED
    BY <2>2, <2>3, <2>4 DEF PiecesAre, Means
<1> QED
  BY <1>3, <1>4

LEMMA StringsMean ==
  ASSUME NEW item \in Item, HasArgument(item), AsWritten(spec, item), NEW arg, ArgOf(arg, item),
         item.conv \in {"c", "s"}
  PROVE  PiecesAre(Pieces(Conv(item.conv), arg), item)
<1>1. Padded(item) \/ spec.width = None
  BY DEF Padded, AsWritten, WidthIs
<1>2. item.str \in Seq(Alphabet) \/ item.str = Null
  BY DEF Item
<1>3. CASE item.conv = "c"
  <2>1. PICK text \in Seq(Alphabet) : text = item.str
    BY <1>2, <1>3 DEF HasArgument
  <2>2. Pieces(Conv(item.conv), arg) = TextPieces(text)
    BY <1>3, <2>1 DEF Pieces, Conv, ArgOf
  <2>3. Meaning(item) = Justified(item, text)
    BY <1>3, <2>1 DEF Meaning
  <2>4. /\ TextPieces(text) \in Seq(PieceSet)
        /\ Joined(TextPieces(text)) = Justified(item, text)
        /\ spec.width = None => Checked(TextPieces(text))
    BY TextPiecesMean
  <2> QED
    BY <1>1, <2>2, <2>3, <2>4 DEF PiecesAre
<1>4. CASE item.conv = "s"
  <2>1. PICK text : text = IF item.str = Null THEN <<"(", "N", "U", "L", "L", ")">> ELSE item.str
    OBVIOUS
  <2>2. text \in Seq(Alphabet)
    BY <1>2, <2>1, OwnTexts
  <2>3. Pieces(Conv(item.conv), arg) = StringPieces(text)
    BY <1>4, <2>1 DEF Pieces, Conv, ArgOf
  <2>4. PICK cut : cut = IF HasPrec(item) /\ item.prec < Len(text)
                           THEN SubSeq(text, 1, item.prec) ELSE text
    OBVIOUS
  <2>5. Meaning(item) = Justified(item, cut)
    BY <1>4, <2>1, <2>4 DEF Meaning
  <2>6. /\ StringPieces(text) \in Seq(PieceSet)
        /\ Joined(StringPieces(text)) = Justified(item, cut)
        /\ spec.width = None => Checked(StringPieces(text))
    BY <2>2, <2>4, StringPiecesMean
  <2> QED
    BY <1>1, <2>3, <2>5, <2>6 DEF PiecesAre
<1> QED
  BY <1>3, <1>4

LEMMA PiecesMean ==
  ASSUME NEW item \in Item, IsGood(item), item.conv # "text", HasArgument(item),
         AsWritten(spec, item), NEW arg, item.conv # "%" => ArgOf(arg, item)
  PROVE  PiecesAre(Pieces(Conv(item.conv), arg), item)
<1>1. item.conv \in {"%", "n", "d", "i", "u", "o", "x", "X", "c", "s", "p"}
  BY DEF IsGood, Known
<1>2. CASE item.conv = "%"
  <2>1. Pieces(Conv(item.conv), arg) = <<Piece(<<"%">>)>>
    BY <1>2 DEF Pieces, Conv
  <2>2. Meaning(item) = <<"%">>
    BY <1>2 DEF Meaning
  <2>3. <<"%">> \in Seq(Alphabet)
    BY AlphabetHas, Texts12, Zenon
  <2>4. PICK p : p = <<Piece(<<"%">>)>>
    OBVIOUS
  <2>5. p \in Seq(PieceSet) /\ Joined(p) = <<"%">>
    BY <2>3, <2>4, JoinedOne DEF Piece
  <2>6. Len(p) = 1 /\ p[1].skip = 0
    BY <2>4 DEF Piece
  <2>7. Checked(p)
    BY <2>6 DEF Checked
  <2> QED
    BY <2>1, <2>2, <2>4, <2>5, <2>7 DEF PiecesAre
<1>3. CASE item.conv = "n"
  <2>1. Pieces(Conv(item.conv), arg) = <<>>
    BY <1>3 DEF Pieces, Conv
  <2>2. Meaning(item) = <<>>
    BY <1>3 DEF Meaning
  <2>3. Checked(<<>>)
    BY DEF Checked
  <2> QED
    BY <2>1, <2>2, <2>3, JoinedNone DEF PiecesAre
<1> QED
  BY <1>1, <1>2, <1>3, NumbersMean, PointerMeans, StringsMean

-----------------------------------------------------------------------------
(***************************************************************************)
(* The texts of a call.                                                    *)
(***************************************************************************)
LEMMA WidthTyped ==
  ASSUME NEW item \in Item
  PROVE  Width(item) \in Int
<1>1. item.width \in Int
  BY DEF Item
<1> QED
  BY <1>1 DEF Width

LEMMA JustifiedTyped ==
  ASSUME NEW item \in Item, NEW text \in Seq(Alphabet)
  PROVE  Justified(item, text) \in Seq(Alphabet)
<1>1. PICK k \in Int : k = Width(item) - Len(text)
  BY WidthTyped
<1>2. PICK m \in Nat : m = AtLeast(k, 0)
  BY DEF AtLeast
<1>3. PICK pad \in Seq(Alphabet) : pad = Times(m, " ")
  BY AlphabetHas, TimesTyped
<1>4. text \o pad \in Seq(Alphabet) /\ pad \o text \in Seq(Alphabet)
  BY ConcatLen
<1>5. Justified(item, text) = IF LeftAligned(item) THEN text \o pad ELSE pad \o text
  BY <1>1, <1>2, <1>3 DEF Justified
<1> QED
  BY <1>4, <1>5, Zenon

LEMMA NumberTyped ==
  ASSUME NEW item \in Item, NEW prefix \in Seq(Alphabet), NEW v \in Nat,
         NEW alternative \in BOOLEAN, NEW digit, Suits(Base(item.conv), digit)
  PROVE  Number(item, prefix, v, alternative, digit) \in Seq(Alphabet)
<1>1. PICK b \in Nat : b = Base(item.conv) /\ Suits(b, digit)
  BY BaseIs, Zenon
<1>2. PICK c \in Nat : c = Count(v, b)
  <2>1. b >= 2
    BY <1>1 DEF Suits
  <2> QED
    BY <2>1, CountIs
<1>3. ASSUME NEW m \in Int PROVE Numeral(v, b, m, digit) \in Seq(Alphabet)
  <2>1. Spelled(v, b, m, digit, c)
    BY <1>1, <1>2, NumeralTyped
  <2> QED
    BY <2>1, Zenon DEF Spelled
<1>4. PICK min \in Int : min = IF HasPrec(item) THEN item.prec ELSE 1
  BY DEF Item
<1>5. PICK plain \in Seq(Alphabet) : plain = Numeral(v, b, min, digit)
  BY <1>3, Zenon
<1>6. PICK body : body = IF alternative /\ (plain = <<>> \/ plain[1] # "0")
                           THEN <<"0">> \o plain ELSE plain
  OBVIOUS
<1>7. body \in Seq(Alphabet)
  <2>1. <<"0">> \in Seq(Alphabet)
    BY AlphabetHas, Texts12, Zenon
  <2>2. <<"0">> \o plain \in Seq(Alphabet)
    BY <2>1, ConcatLen
  <2> QED
    BY <1>6, <2>2, Zenon
<1>8. PICK wide \in Int : wide = Width(item) - Len(prefix)
  BY WidthTyped
<1>9. PICK padded : padded = (HasFlag(item, "0") /\ ~LeftAligned(item) /\ ~HasPrec(item)
                              /\ wide > Len(body))
  OBVIOUS
<1>10. Number(item, prefix, v, alternative, digit)
         = IF padded THEN prefix \o Numeral(v, b, wide, digit) ELSE Justified(item, prefix \o body)
  BY <1>1, <1>4, <1>5, <1>6, <1>8, <1>9 DEF Number
<1>11. PICK long \in Seq(Alphabet) : long = Numeral(v, b, wide, digit)
  BY <1>3, Zenon
<1>12. prefix \o long \in Seq(Alphabet) /\ prefix \o body \in Seq(Alphabet)
  BY <1>7, ConcatLen
<1>13. Justified(item, prefix \o body) \in Seq(Alphabet)
  BY <1>12, JustifiedTyped
<1> QED
  BY <1>10, <1>11, <1>12, <1>13, Zenon

LEMMA MeaningTyped ==
  ASSUME NEW item \in Item, IsGood(item), HasArgument(item),
         item.conv = "text" => item.str \in Seq(Alphabet)
  PROVE  Meaning(item) \in Seq(Alphabet)
<1>1. item.conv \in {"text", "%", "n", "d", "i", "u", "o", "x", "X", "c", "s", "p"}
  BY DEF IsGood, Known
<1>2. PICK signed \in Int : signed = SignedOf(item.int, Word[item.length])
  <2>1. item.int \in Int /\ item.length \in DOMAIN Word
    BY DEF Item
  <2>2. PICK w \in Nat : w = Word[item.length] /\ w >= 1
    BY <2>1, WordIs
  <2> QED
    BY <2>1, <2>2, SignedIs
<1>3. PICK unsigned \in Nat : unsigned = UnsignedOf(item.int, Word[item.length])
  <2>1. item.int \in Int /\ item.length \in DOMAIN Word
    BY DEF Item
  <2>2. PICK w \in Nat : w = Word[item.length] /\ w >= 1
    BY <2>1, WordIs
  <2> QED
    BY <2>1, <2>2, SignedIs
<1>4. PICK no \in BOOLEAN : no = FALSE
  OBVIOUS
<1>5. CASE item.conv = "text"
  BY <1>5 DEF Meaning
<1>6. CASE item.conv = "%"
  <2>1. <<"%">> \in Seq(Alphabet)
    BY AlphabetHas, Texts12, Zenon
  <2>2. Meaning(item) = <<"%">>
    BY <1>6 DEF Meaning
  <2> QED
    BY <2>1, <2>2
<1>7. CASE item.conv = "n"
  <2>1. Meaning(item) = <<>>
    BY <1>7 DEF Meaning
  <2> QED
    BY <2>1
<1>8. CASE item.conv \in {"d", "i"}
  <2>1. PICK abs \in Nat : abs = IF signed < 0 THEN 0 - signed ELSE signed
    OBVIOUS
  <2>2. Meaning(item) = Number(item, Sign(item, signed), abs, no, Lower)
    BY <1>2, <1>4, <1>8, <2>1 DEF Meaning
  <2>3. Sign(item, signed) \in {<<>>, <<"+">>, <<"-">>, <<" ">>}
    BY DEF Sign
  <2>4. Sign(item, signed) \in Seq(Alphabet)
    <3>1. \A text \in {<<>>, <<"+">>, <<"-">>, <<" ">>} : text \in Seq(Alphabet)
      BY ShortTexts, Zenon DEF ShortSigns
    <3> QED
      BY <2>3, <3>1, Zenon
  <2>5. Suits(Base(item.conv), Lower)
    <3>1. Base(item.conv) = 10
      BY <1>8 DEF Base
    <3> QED
      BY <3>1, SuitsAll
  <2> QED
    BY <2>2, <2>4, <2>5, NumberTyped
<1>9. CASE item.conv \in {"u", "o"}
  <2>1. PICK alternative \in BOOLEAN : alternative = (item.conv = "o" /\ HasFlag(item, "#"))
    OBVIOUS
  <2>2. PICK prefix \in Seq(Alphabet) : prefix = <<>>
    BY EmptySeq, Zenon
  <2>3. Meaning(item) = Number(item, prefix, unsigned, alternative, Lower)
    BY <1>3, <1>9, <2>1, <2>2 DEF Meaning
  <2>4. Suits(Base(item.conv), Lower)
    <3>1. Base(item.conv) = 10 \/ Base(item.conv) = 8
      BY <1>9 DEF Base
    <3> QED
      BY <3>1, SuitsAll
  <2> QED
    BY <2>3, <2>4, NumberTyped
<1>10. CASE item.conv \in {"x", "X"}
  <2>1. PICK digit : digit = IF item.conv = "X" THEN Upper ELSE Lower
    OBVIOUS
  <2>2. HexPrefixOf(item, unsigned) \in {<<>>, <<"0", "x">>, <<"0", "X">>}
    BY DEF HexPrefixOf
  <2>3. PICK prefix \in Seq(Alphabet) : prefix = HexPrefixOf(item, unsigned)
    <3>1. \A text \in {<<>>, <<"0", "x">>, <<"0", "X">>} : text \in Seq(Alphabet)
      BY ShortTexts, Zenon DEF ShortHexes
    <3> QED
      BY <2>2, <3>1, Zenon
  <2>4. Meaning(item) = Number(item, HexPrefixOf(item, unsigned), unsigned, no, digit)
    BY <1>3, <1>4, <1>10, <2>1 DEF Meaning, HexPrefixOf
  <2>5. Suits(Base(item.conv), digit)
    <3>1. Base(item.conv) = 16
      BY <1>10 DEF Base
    <3> QED
      BY <2>1, <3>1, SuitsAll
  <2> QED
    BY <2>3, <2>4, <2>5, NumberTyped
<1>11. CASE item.conv = "c"
  <2>1. PICK text \in Seq(Alphabet) : text = item.str
    BY <1>11 DEF HasArgument, Item
  <2>2. Meaning(item) = Justified(item, text)
    BY <1>11, <2>1 DEF Meaning
  <2> QED
    BY <2>2, JustifiedTyped
<1>12. CASE item.conv = "s"
  <2>1. PICK text : text = IF item.str = Null THEN <<"(", "N", "U", "L", "L", ")">> ELSE item.str
    OBVIOUS
  <2>2. item.str \in Seq(Alphabet) \/ item.str = Null
    BY DEF Item
  <2>3. text \in Seq(Alphabet)
    BY <2>1, <2>2, OwnTexts
  <2>4. PICK cut : cut = IF HasPrec(item) /\ item.prec < Len(text)
                           THEN SubSeq(text, 1, item.prec) ELSE text
    OBVIOUS
  <2>5. cut \in Seq(Alphabet)
    <3>1. HasPrec(item) => item.prec \in Nat
      BY DEF HasPrec, Item
    <3> QED
      BY <2>3, <2>4, <3>1
  <2>6. Meaning(item) = Justified(item, cut)
    BY <1>12, <2>1, <2>4 DEF Meaning
  <2> QED
    BY <2>5, <2>6, JustifiedTyped
<1>13. CASE item.conv = "p"
  <2>1. item.int \in Nat
    BY <1>13 DEF HasArgument
  <2>2. CASE item.int = 0
    <3>1. PICK text : text = <<"(", "n", "i", "l", ")">>
      OBVIOUS
    <3>2. text \in Seq(Alphabet)
      BY <3>1, OwnTexts
    <3>3. Meaning(item) = Justified(item, text)
      BY <1>13, <2>2, <3>1 DEF Meaning
    <3> QED
      BY <3>2, <3>3, JustifiedTyped
  <2>3. CASE item.int # 0
    <3>1. PICK prefix \in Seq(Alphabet) : prefix = <<"0", "x">>
      BY ShortTexts, Zenon DEF ShortHexes
    <3>2. PICK v \in Nat : v = item.int
      BY <2>1
    <3>3. Meaning(item) = Number(item, <<"0", "x">>, v, no, Lower)
      BY <1>4, <1>13, <2>3, <3>2 DEF Meaning
    <3>4. Suits(Base(item.conv), Lower)
      <4>1. Base(item.conv) = 16
        BY <1>13 DEF Base
      <4> QED
        BY <4>1, SuitsAll
    <3> QED
      BY <3>1, <3>3, <3>4, NumberTyped
  <2> QED
    BY <2>2, <2>3
<1> QED
  BY <1>1, <1>5, <1>6, <1>7, <1>8, <1>9, <1>10, <1>11, <1>12, <1>13

\* The parts of an item, as it is written.
LEMMA NumberTextTyped ==
  ASSUME NEW v \in Nat, v # 0
  PROVE  /\ NumberText(v) \in Seq(Alphabet) /\ Len(NumberText(v)) = Count(v, 10)
         /\ Count(v, 10) \in Nat /\ Count(v, 10) >= 1
<1>1. PICK b \in Nat : b = 10
  OBVIOUS
<1>2. Suits(b, Lower)
  BY <1>1, SuitsAll
<1>3. DigitsBy(v, b, Lower) \in Seq(Alphabet) /\ Len(DigitsBy(v, b, Lower)) = Count(v, b)
  BY <1>2, DigitsTyped
<1>4. Count(v, b) >= 1
  BY <1>2, FirstDigit
<1>5. Count(v, b) \in Nat
  <2>1. Count(v, b) \in 0 .. v
    BY <1>1, CountIs
  <2> QED
    BY <2>1
<1> QED
  BY <1>1, <1>3, <1>4, <1>5, NumberTexts

LEMMA FlagsTyped ==
  ASSUME NEW item \in Item
  PROVE  item.flags \in Seq(FlagChars) /\ item.flags \in Seq(Alphabet)
<1>1. item.flags \in Seq(FlagChars)
  BY DEF Item
<1>2. FlagChars \subseteq Alphabet
  BY AlphabetAssumption
<1> HIDE DEF FlagChars
<1> QED
  BY <1>1, <1>2

\* A conversion is a "%", and what can stand behind it.
LEMMA WidthTextTyped ==
  ASSUME NEW item \in Item, IsWritten(item), item.conv # "text"
  PROVE  WidthText(item) \in Seq(Alphabet)
<1>1. <<"*">> \in Seq(Alphabet) /\ <<>> \in Seq(Alphabet)
  <2>1. "*" \in Alphabet
    BY AlphabetAssumption
  <2> QED
    BY <2>1, Texts12, EmptySeq, Zenon
<1>2. CASE item.width = None \/ "width" \in item.star
  BY <1>1, <1>2 DEF WidthText
<1>3. CASE item.width # None /\ "width" \notin item.star
  <2>1. item.width \in Nat \ {0}
    BY <1>3 DEF IsWritten
  <2>2. PICK v \in Nat : v = item.width /\ v # 0
    BY <2>1
  <2>3. NumberText(v) \in Seq(Alphabet)
    BY <2>2, NumberTextTyped
  <2> QED
    BY <1>3, <2>2, <2>3 DEF WidthText
<1> QED
  BY <1>2, <1>3

LEMMA PrecTextTyped ==
  ASSUME NEW item \in Item, IsWritten(item), item.conv # "text"
  PROVE  PrecText(item) \in Seq(Alphabet)
<1>0. "*" \in Alphabet /\ "." \in Alphabet
  BY AlphabetAssumption
<1>1. <<".", "*">> \in Seq(Alphabet) /\ <<>> \in Seq(Alphabet) /\ <<".">> \in Seq(Alphabet)
  BY <1>0, Texts12, EmptySeq, Zenon
<1>2. CASE item.prec = None \/ "prec" \in item.star \/ item.prec = 0
  BY <1>1, <1>2 DEF PrecText
<1>3. CASE item.prec # None /\ "prec" \notin item.star /\ item.prec # 0
  <2>1. item.prec \in Nat
    BY <1>3 DEF IsWritten
  <2>2. PICK v \in Nat : v = item.prec /\ v # 0
    BY <1>3, <2>1
  <2>3. NumberText(v) \in Seq(Alphabet)
    BY <2>2, NumberTextTyped
  <2>4. <<".">> \o NumberText(v) \in Seq(Alphabet)
    BY <1>1, <2>3, ConcatLen
  <2> QED
    BY <1>3, <2>2, <2>4 DEF PrecText
<1> QED
  BY <1>2, <1>3

LEMMA LengthTextTyped ==
  ASSUME NEW item \in Item
  PROVE  LengthText(item) \in Seq(Alphabet)
<1>0. item.length \in {"none", "hh", "h", "l", "ll", "z"}
  <2>1. item.length \in DOMAIN Word
    BY DEF Item
  <2> QED
    BY <2>1, WordIs
<1>1. "h" \in Alphabet /\ "l" \in Alphabet /\ "z" \in Alphabet
  BY AlphabetAssumption DEF LengthChars
<1>2. /\ <<"h", "h">> \in Seq(Alphabet) /\ <<"l", "l">> \in Seq(Alphabet) /\ <<>> \in Seq(Alphabet)
      /\ <<"h">> \in Seq(Alphabet) /\ <<"l">> \in Seq(Alphabet) /\ <<"z">> \in Seq(Alphabet)
  BY <1>1, Texts12, EmptySeq, Zenon
<1>3. LengthText(item) \in {<<>>, <<"h", "h">>, <<"l", "l">>, <<"h">>, <<"l">>, <<"z">>}
  BY <1>0 DEF LengthText
<1> QED
  BY <1>2, <1>3

LEMMA ConvTextTyped ==
  ASSUME NEW item \in Item, item.conv # "text"
  PROVE  /\ ConvText(item) \in Seq(Alphabet)
         /\ Len(ConvText(item)) = IF item.conv = "none" THEN 0 ELSE 1
<1>1. item.conv = "none" \/ item.conv \in Alphabet
  BY DEF Item
<1>2. CASE item.conv = "none"
  BY <1>2 DEF ConvText
<1>3. CASE item.conv # "none"
  <2>1. item.conv \in Alphabet
    BY <1>1, <1>3
  <2>2. <<item.conv>> \in Seq(Alphabet) /\ Len(<<item.conv>>) = 1
    BY <2>1, Texts12, Zenon
  <2> QED
    BY <1>3, <2>2 DEF ConvText
<1> QED
  BY <1>2, <1>3

LEMMA RenderedTyped ==
  ASSUME NEW item \in Item, IsWritten(item)
  PROVE  Rendered(item) \in Seq(Alphabet)
<1>1. CASE item.conv = "text"
  <2>1. item.str \in Seq(Alphabet)
    BY <1>1 DEF IsWritten
  <2> QED
    BY <1>1, <2>1 DEF Rendered
<1>2. CASE item.conv # "text"
  <2>1. PICK a \in Seq(Alphabet) : a = <<"%">>
    BY AlphabetHas, Texts12, Zenon
  <2>2. PICK f \in Seq(Alphabet) : f = item.flags
    BY FlagsTyped
  <2>3. PICK w \in Seq(Alphabet) : w = WidthText(item)
    BY <1>2, WidthTextTyped
  <2>4. PICK p \in Seq(Alphabet) : p = PrecText(item)
    BY <1>2, PrecTextTyped
  <2>5. PICK g \in Seq(Alphabet) : g = LengthText(item)
    BY LengthTextTyped
  <2>6. PICK c \in Seq(Alphabet) : c = ConvText(item)
    BY <1>2, ConvTextTyped
  <2>7. Rendered(item) = a \o f \o w \o p \o g \o c
    BY <1>2, <2>1, <2>2, <2>3, <2>4, <2>5, <2>6 DEF Rendered
  <2> QED
    BY <2>7, ConcatLen
<1> QED
  BY <1>1, <1>2

ArgSet == [int : Int, str : Seq(Alphabet) \cup {Null}]

WidthArg(item) == IF "width" \in item.star THEN <<Arg(item.width, <<>>)>> ELSE <<>>
PrecArg(item) == IF "prec" \in item.star THEN <<Arg(item.prec, <<>>)>> ELSE <<>>
OwnArg(item) == IF item.conv \in {"text", "%"} THEN <<>> ELSE <<Arg(item.int, item.str)>>

LEMMA ArgumentsAre ==
  ASSUME NEW item \in Item
  PROVE  /\ WidthArg(item) \in Seq(ArgSet) /\ PrecArg(item) \in Seq(ArgSet)
         /\ OwnArg(item) \in Seq(ArgSet) /\ Arguments(item) \in Seq(ArgSet)
         /\ Arguments(item) = WidthArg(item) \o PrecArg(item) \o OwnArg(item)
<1>1. item.width \in Int /\ item.prec \in Int /\ item.int \in Int
      /\ item.str \in Seq(Alphabet) \cup {Null}
  BY DEF Item
<1>2. <<>> \in Seq(Alphabet)
  OBVIOUS
<1>3. /\ Arg(item.width, <<>>) \in ArgSet /\ Arg(item.prec, <<>>) \in ArgSet
      /\ Arg(item.int, item.str) \in ArgSet
  BY <1>1, <1>2 DEF Arg, ArgSet
<1>4. \A a \in ArgSet : <<a>> \in Seq(ArgSet)
  OBVIOUS
<1>5. <<>> \in Seq(ArgSet)
  OBVIOUS
<1>6. WidthArg(item) \in Seq(ArgSet)
  BY <1>3, <1>4, <1>5, Zenon DEF WidthArg
<1>7. PrecArg(item) \in Seq(ArgSet)
  BY <1>3, <1>4, <1>5, Zenon DEF PrecArg
<1>8. OwnArg(item) \in Seq(ArgSet)
  BY <1>3, <1>4, <1>5, Zenon DEF OwnArg
<1>9. Arguments(item) = WidthArg(item) \o PrecArg(item) \o OwnArg(item)
  BY Zenon DEF Arguments, WidthArg, PrecArg, OwnArg
<1>10. WidthArg(item) \o PrecArg(item) \o OwnArg(item) \in Seq(ArgSet)
  BY <1>6, <1>7, <1>8, ConcatLen
<1> QED
  BY <1>6, <1>7, <1>8, <1>9, <1>10
-----------------------------------------------------------------------------
\* How many items are good, from the first on.
GoodLen(its) == Len(GoodPart(its))

IsGoodLen(its, n) ==
  /\ \A i \in 1 .. n : IsGood(its[i])
  /\ n < Len(its) => ~IsGood(its[n + 1])

LEMMA GoodPartIs ==
  ASSUME NEW its \in Seq(Item)
  PROVE  /\ GoodLen(its) \in 0 .. Len(its)
         /\ IsGoodLen(its, GoodLen(its))
         /\ GoodPart(its) = SubSeq(its, 1, GoodLen(its))
         /\ \A i \in 1 .. GoodLen(its) : GoodPart(its)[i] = its[i]
<1>1. PICK c \in Nat : c = Len(its)
  OBVIOUS
<1> DEFINE G == {d \in Nat : \A i \in 1 .. d : IsGood(its[i])}
<1>2. 0 \in G
  OBVIOUS
<1>3. \E n \in 0 .. c : IsGoodLen(its, n)
  <2>1. CASE c \in G
    <3>1. IsGoodLen(its, c)
      BY <1>1, <2>1 DEF IsGoodLen
    <3> QED
      BY <3>1
  <2>2. CASE c \notin G
    <3>1. \E d \in 1 .. c : d - 1 \in G /\ d \notin G
      <4> HIDE DEF G
      <4> SUFFICES ASSUME \A d \in 1 .. c : d - 1 \in G => d \in G PROVE FALSE
        OBVIOUS
      <4>1. 0 .. c \subseteq G
        BY <1>2, Climb
      <4> QED
        BY <2>2, <4>1
    <3>2. PICK d \in 1 .. c : d - 1 \in G /\ d \notin G
      BY <3>1
    <3>3. PICK n \in 0 .. c : n = d - 1 /\ n + 1 = d
      OBVIOUS
    <3>4. \A i \in 1 .. n : IsGood(its[i])
      BY <3>2, <3>3
    <3>5. ~IsGood(its[d])
      <4>1. PICK i \in 1 .. d : ~IsGood(its[i])
        BY <3>2
      <4>2. i = d
        BY <3>3, <3>4, <4>1
      <4> QED
        BY <4>1, <4>2
    <3>6. IsGoodLen(its, n)
      BY <3>3, <3>4, <3>5 DEF IsGoodLen
    <3> QED
      BY <3>6
  <2> QED
    BY <2>1, <2>2
<1>4. PICK n : n = CHOOSE e \in 0 .. c : IsGoodLen(its, e)
  OBVIOUS
<1>5. n \in 0 .. c /\ IsGoodLen(its, n)
  BY <1>3, <1>4, Zenon
<1>6. GoodPart(its) = SubSeq(its, 1, n)
  BY <1>1, <1>4 DEF GoodPart, IsGoodLen
<1>7. Len(SubSeq(its, 1, n)) = n /\ \A i \in 1 .. n : SubSeq(its, 1, n)[i] = its[i]
  BY <1>1, <1>5
<1> QED
  BY <1>1, <1>5, <1>6, <1>7 DEF GoodLen

-----------------------------------------------------------------------------
(***************************************************************************)
(* The first k items of a call: what they look like, what they mean, and   *)
(* which arguments are left for the others.                                *)
(***************************************************************************)
RenderedAll(its) == [i \in 1 .. Len(its) |-> Rendered(its[i])]
GivenAll(its) == [i \in 1 .. Len(its) |-> Arguments(its[i])]
MeantAll(its) == [i \in 1 .. GoodLen(its) |-> Meaning(its[i])]
StoredAll(its) ==
  [i \in 1 .. GoodLen(its) |->
     IF its[i].conv = "n" THEN <<Len(TextOf(SubSeq(its, 1, i - 1)))>> ELSE <<>>]

Before(its, k) == Upto(RenderedAll(its), k)
Here(its, k) == Len(Before(its, k)) + 1
Said(its, k) == Upto(MeantAll(its), k)
Rest(its, k) == Flat(SubSeq(GivenAll(its), k + 1, Len(its)))
StoredBy(its, k) == Upto(StoredAll(its), k)

LEMMA ItemIs ==
  ASSUME NEW its, GoodCall(its), NEW i \in 1 .. Len(its)
  PROVE  /\ its \in Seq(Item) /\ its[i] \in Item /\ IsWritten(its[i]) /\ HasArgument(its[i])
         /\ its[i].conv = "none" => i = Len(its)
BY DEF GoodCall

LEMMA BeforeIs ==
  ASSUME NEW its, GoodCall(its), NEW c \in Nat, c = Len(its)
  PROVE  /\ Before(its, 0) = <<>>
         /\ \A k \in 0 .. c : Before(its, k) \in Seq(Alphabet)
         /\ \A k \in 0 .. c : Extended(Alphabet, Before(its, k), FormatOf(its))
         /\ \A k \in 1 .. c : Before(its, k) = Before(its, k - 1) \o Rendered(its[k])
         /\ FormatOf(its) = Before(its, c)
<1> DEFINE R == RenderedAll(its)
<1>1. PICK T : T = Seq(Alphabet)
  OBVIOUS
<1>2. R = [i \in 1 .. c |-> Rendered(its[i])]
  BY DEF RenderedAll
<1>3. \A i \in 1 .. c : Rendered(its[i]) \in T
  BY <1>1, ItemIs, RenderedTyped
<1>4. R \in Seq(T) /\ Len(R) = c /\ \A i \in 1 .. c : R[i] = Rendered(its[i])
  BY <1>2, <1>3
<1> HIDE DEF R
<1>5. Upto(R, 0) = <<>>
  BY <1>4, UptoNone
<1>6. ASSUME NEW k \in 0 .. c
      PROVE  Upto(R, k) \in Seq(Alphabet) /\ Extended(Alphabet, Upto(R, k), Upto(R, c))
  <2>1. k \in Nat /\ k <= c /\ k <= Len(R) /\ c <= Len(R)
    BY <1>4
  <2> QED
    BY <1>1, <1>4, <2>1, UptoTyped, UptoGrows
<1>7. ASSUME NEW k \in 1 .. c PROVE Upto(R, k) = Upto(R, k - 1) \o Rendered(its[k])
  BY <1>4, UptoOne
<1>8. FormatOf(its) = Upto(R, c)
  BY <1>4, FlatIsUpto DEF FormatOf, R, RenderedAll
<1> QED
  BY <1>5, <1>6, <1>7, <1>8 DEF Before, R

LEMMA TextBy ==
  ASSUME NEW its, GoodCall(its), NEW m \in Nat, m = GoodLen(its), NEW k \in 0 .. m
  PROVE  TextOf(SubSeq(its, 1, k)) = Said(its, k)
<1>1. its \in Seq(Item)
  BY DEF GoodCall
<1>2. PICK c \in Nat : c = Len(its) /\ m <= c
  BY <1>1, GoodPartIs
<1> DEFINE s == [i \in 1 .. k |-> Meaning(SubSeq(its, 1, k)[i])]
           M == MeantAll(its)
<1>3. Len(SubSeq(its, 1, k)) = k /\ \A i \in 1 .. k : SubSeq(its, 1, k)[i] = its[i]
  BY <1>1, <1>2
<1>4. TextOf(SubSeq(its, 1, k)) = Flat(s)
  BY <1>3 DEF TextOf
<1>5. Len(s) = k /\ \A i \in 1 .. k : s[i] = Meaning(SubSeq(its, 1, k)[i])
  OBVIOUS
<1>6. Len(M) = m /\ \A i \in 1 .. m : M[i] = Meaning(its[i])
  BY DEF MeantAll
<1> HIDE DEF s, M
<1>7. Alike(s, M, k)
  <2>1. ASSUME NEW i \in 1 .. k PROVE s[i] = M[i]
    <3>1. i \in 1 .. m
      OBVIOUS
    <3>2. /\ s[i] = Meaning(SubSeq(its, 1, k)[i]) /\ SubSeq(its, 1, k)[i] = its[i]
          /\ M[i] = Meaning(its[i])
      BY <1>3, <1>5, <1>6, <3>1, Zenon
    <3> QED
      BY <3>2, Zenon
  <2> QED
    BY <2>1 DEF Alike
<1>8. Upto(s, k) = Upto(M, k)
  BY <1>5, <1>6, <1>7, UptoAlike
<1> QED
  BY <1>4, <1>5, <1>8, FlatIsUpto DEF Said, M

LEMMA SaidIs ==
  ASSUME NEW its, GoodCall(its), NEW m \in Nat, m = GoodLen(its)
  PROVE  /\ Said(its, 0) = <<>>
         /\ \A k \in 0 .. m : Said(its, k) \in Seq(Alphabet)
         /\ \A k \in 0 .. m : Extended(Alphabet, Said(its, k), Said(its, m))
         /\ \A k \in 1 .. m : Said(its, k) = Said(its, k - 1) \o Meaning(its[k])
         /\ TextOf(GoodPart(its)) = Said(its, m)
<1> DEFINE M == MeantAll(its)
<1>1. PICK T : T = Seq(Alphabet)
  OBVIOUS
<1>2. M = [i \in 1 .. m |-> Meaning(its[i])]
  BY DEF MeantAll
<1>9. its \in Seq(Item)
  BY DEF GoodCall
<1>10. m \in 0 .. Len(its) /\ IsGoodLen(its, m) /\ GoodPart(its) = SubSeq(its, 1, m)
  BY <1>9, GoodPartIs
<1>3. ASSUME NEW i \in 1 .. m PROVE Meaning(its[i]) \in T
  <2>1. i \in 1 .. Len(its)
    BY <1>9, <1>10
  <2>2. IsGood(its[i])
    BY <1>10 DEF IsGoodLen
  <2>3. its[i] \in Item /\ IsWritten(its[i]) /\ HasArgument(its[i])
    BY <2>1, ItemIs
  <2>4. its[i].conv = "text" => its[i].str \in Seq(Alphabet)
    BY <2>3 DEF IsWritten
  <2> QED
    BY <1>1, <2>2, <2>3, <2>4, MeaningTyped
<1>4. M \in Seq(T) /\ Len(M) = m /\ \A i \in 1 .. m : M[i] = Meaning(its[i])
  BY <1>2, <1>3
<1> HIDE DEF M
<1>5. Upto(M, 0) = <<>>
  BY <1>4, UptoNone
<1>6. ASSUME NEW k \in 0 .. m
      PROVE  Upto(M, k) \in Seq(Alphabet) /\ Extended(Alphabet, Upto(M, k), Upto(M, m))
  <2>1. k \in Nat /\ k <= m /\ k <= Len(M) /\ m <= Len(M)
    BY <1>4
  <2> QED
    BY <1>1, <1>4, <2>1, UptoTyped, UptoGrows
<1>7. ASSUME NEW k \in 1 .. m PROVE Upto(M, k) = Upto(M, k - 1) \o Meaning(its[k])
  BY <1>4, UptoOne
<1>8. TextOf(GoodPart(its)) = Upto(M, m)
  <2>1. m \in 0 .. m
    OBVIOUS
  <2> QED
    BY <1>10, <2>1, TextBy DEF Said, M
<1> QED
  BY <1>5, <1>6, <1>7, <1>8 DEF Said, M

LEMMA RestIs ==
  ASSUME NEW its, GoodCall(its), NEW c \in Nat, c = Len(its)
  PROVE  /\ ArgumentsOf(its) = Rest(its, 0)
         /\ \A k \in 0 .. c : Rest(its, k) \in Seq(ArgSet)
         /\ \A k \in 1 .. c : Rest(its, k - 1) = Arguments(its[k]) \o Rest(its, k)
<1> DEFINE A == GivenAll(its)
<1>1. PICK T : T = Seq(ArgSet)
  OBVIOUS
<1>2. A = [i \in 1 .. c |-> Arguments(its[i])]
  BY DEF GivenAll
<1>3. \A i \in 1 .. c : Arguments(its[i]) \in T
  BY <1>1, ItemIs, ArgumentsAre
<1>4. A \in Seq(T) /\ Len(A) = c /\ \A i \in 1 .. c : A[i] = Arguments(its[i])
  BY <1>2, <1>3
<1>5. ArgumentsOf(its) = Flat(A)
  BY DEF ArgumentsOf, GivenAll
<1> HIDE DEF A
<1>6. SubSeq(A, 0 + 1, c) = A
  BY <1>4
<1>7. ASSUME NEW k \in 0 .. c PROVE SubSeq(A, k + 1, c) \in Seq(T)
  BY <1>4
<1>8. ASSUME NEW k \in 0 .. c PROVE Flat(SubSeq(A, k + 1, c)) \in Seq(ArgSet)
  BY <1>1, <1>7, FlatTyped
<1>9. ASSUME NEW k \in 1 .. c
      PROVE  Flat(SubSeq(A, (k - 1) + 1, c)) = Arguments(its[k]) \o Flat(SubSeq(A, k + 1, c))
  <2>1. SubSeq(A, (k - 1) + 1, c) = <<A[k]>> \o SubSeq(A, k + 1, c)
    BY <1>4
  <2>2. A[k] \in T /\ <<A[k]>> \in Seq(T)
    BY <1>4
  <2>3. SubSeq(A, k + 1, c) \in Seq(T)
    BY <1>7
  <2>4. Flat(<<A[k]>> \o SubSeq(A, k + 1, c)) = Flat(<<A[k]>>) \o Flat(SubSeq(A, k + 1, c))
    BY <1>1, <2>2, <2>3, FlatSplit
  <2>5. Flat(<<A[k]>>) = A[k]
    BY <1>1, <2>2, FlatOfOne
  <2> QED
    BY <1>4, <2>1, <2>4, <2>5
<1> QED
  BY <1>5, <1>6, <1>8, <1>9 DEF Rest, A

LEMMA StoredIs ==
  ASSUME NEW its, GoodCall(its), NEW m \in Nat, m = GoodLen(its)
  PROVE  /\ StoredBy(its, 0) = <<>>
         /\ \A k \in 1 .. m :
              its[k].conv # "n" => StoredBy(its, k) = StoredBy(its, k - 1)
         /\ \A k \in 1 .. m :
              its[k].conv = "n" =>
                StoredBy(its, k) = Append(StoredBy(its, k - 1), Len(Said(its, k - 1)))
         /\ StoredBy(its, m) = Flat(StoredAll(its))
<1> DEFINE S == StoredAll(its)
<1>1. PICK T : T = Seq(Int)
  OBVIOUS
<1>2. S = [i \in 1 .. m |->
             IF its[i].conv = "n" THEN <<Len(TextOf(SubSeq(its, 1, i - 1)))>> ELSE <<>>]
  BY DEF StoredAll
<1>3. ASSUME NEW i \in 1 .. m
      PROVE  S[i] = (IF its[i].conv = "n" THEN <<Len(Said(its, i - 1))>> ELSE <<>>)
             /\ S[i] \in T
  <2>1. PICK j \in 0 .. m : j = i - 1
    OBVIOUS
  <2>2. TextOf(SubSeq(its, 1, j)) = Said(its, j)
    BY TextBy
  <2>3. Len(Said(its, j)) \in Int
    <3>1. Said(its, j) \in Seq(Alphabet)
      BY SaidIs
    <3> QED
      BY <3>1
  <2>4. S[i] = IF its[i].conv = "n" THEN <<Len(Said(its, j))>> ELSE <<>>
    BY <1>2, <2>1, <2>2
  <2> HIDE DEF S
  <2>5. PICK x \in Int : x = Len(Said(its, j))
    BY <2>3
  <2>6. <<x>> \in Seq(Int) /\ <<>> \in Seq(Int)
    OBVIOUS
  <2> QED
    BY <1>1, <2>1, <2>4, <2>5, <2>6, Zenon
<1>4. S \in Seq(T) /\ Len(S) = m
  <2>1. S = [i \in 1 .. m |-> S[i]]
    BY <1>2
  <2> HIDE DEF S
  <2>2. S \in [1 .. m -> T]
    BY <1>3, <2>1
  <2> QED
    BY <2>2
<1> HIDE DEF S
<1>5. Upto(S, 0) = <<>>
  BY <1>4, UptoNone
<1>6. ASSUME NEW k \in 1 .. m
      PROVE  Upto(S, k) = Upto(S, k - 1) \o S[k] /\ Upto(S, k - 1) \in Seq(Int)
  <2>1. Upto(S, k) = Upto(S, k - 1) \o S[k]
    BY <1>4, UptoOne
  <2>2. PICK j \in Nat : j = k - 1 /\ j <= Len(S)
    BY <1>4
  <2>3. Upto(S, j) \in Seq(Int)
    BY <1>1, <1>4, <2>2, UptoTyped
  <2> QED
    BY <2>1, <2>2, <2>3
<1>7. ASSUME NEW k \in 1 .. m, its[k].conv # "n" PROVE Upto(S, k) = Upto(S, k - 1)
  <2>1. PICK s \in Seq(Int) : s = Upto(S, k - 1)
    BY <1>6
  <2>2. S[k] = <<>>
    BY <1>3, <1>7
  <2>3. s \o <<>> = s
    OBVIOUS
  <2> QED
    BY <1>6, <2>1, <2>2, <2>3
<1>8. ASSUME NEW k \in 1 .. m, its[k].conv = "n"
      PROVE  Upto(S, k) = Append(Upto(S, k - 1), Len(Said(its, k - 1)))
  <2>1. PICK s \in Seq(Int) : s = Upto(S, k - 1)
    BY <1>6
  <2>2. S[k] = <<Len(Said(its, k - 1))>>
    BY <1>3, <1>8
  <2>3. PICK x : x = Len(Said(its, k - 1))
    OBVIOUS
  <2>4. s \o <<x>> = Append(s, x)
    OBVIOUS
  <2> QED
    BY <1>6, <2>1, <2>2, <2>3, <2>4
<1>9. Flat(S) = Upto(S, m)
  BY <1>4, FlatIsUpto
<1> QED
  BY <1>5, <1>7, <1>8, <1>9 DEF StoredBy, S

-----------------------------------------------------------------------------
(***************************************************************************)
(* Where the parts of an item stand in the format.                         *)
(***************************************************************************)
\* The format shows the text s from position i on.
Shows(i, s) ==
  /\ i + Len(s) <= Len(format) + 1
  /\ \A j \in 1 .. Len(s) : Char(i + j - 1) = s[j]

LEMMA ShowsParts ==
  ASSUME NEW i \in Nat, NEW s \in Seq(Alphabet), NEW t \in Seq(Alphabet), Shows(i, s \o t),
         NEW f \in Nat, f = Len(format)
  PROVE  Shows(i, s) /\ Shows(i + Len(s), t)
<1>1. PICK a \in Nat : a = Len(s)
  OBVIOUS
<1>2. PICK c \in Nat : c = Len(t)
  OBVIOUS
<1>3. PICK u : u = s \o t
  OBVIOUS
<1>4. /\ Len(u) = a + c
      /\ \A j \in 1 .. a : u[j] = s[j]
      /\ \A j \in 1 .. c : u[a + j] = t[j]
  BY <1>1, <1>2, <1>3, Concat
<1>5. i + (a + c) <= f + 1 /\ \A j \in 1 .. a + c : Char(i + j - 1) = u[j]
  BY <1>3, <1>4 DEF Shows
<1>6. Shows(i, s)
  <2>1. ASSUME NEW j \in 1 .. a PROVE Char(i + j - 1) = s[j]
    <3>1. j \in 1 .. a + c
      OBVIOUS
    <3> QED
      BY <1>4, <1>5, <3>1
  <2> QED
    BY <1>1, <1>5, <2>1 DEF Shows
<1>7. Shows(i + a, t)
  <2>1. ASSUME NEW j \in 1 .. c PROVE Char((i + a) + j - 1) = t[j]
    <3>1. PICK k \in 1 .. a + c : k = a + j
      OBVIOUS
    <3>2. i + k - 1 = (i + a) + j - 1
      BY <3>1
    <3>3. Char(i + k - 1) = u[k] /\ u[k] = t[j]
      BY <1>4, <1>5, <3>1
    <3> QED
      BY <3>2, <3>3
  <2>2. (i + a) + c <= f + 1
    BY <1>5
  <2> QED
    BY <1>2, <2>1, <2>2 DEF Shows
<1> QED
  BY <1>1, <1>6, <1>7

LEMMA FormatTyped ==
  ASSUME NEW its, GoodCall(its), format = FormatOf(its)
  PROVE  format \in Seq(Alphabet) /\ Len(format) \in Nat
<1>1. PICK c \in Nat : c = Len(its)
  BY DEF GoodCall
<1>2. format = Before(its, c) /\ c \in 0 .. c
  BY <1>1, BeforeIs
<1>3. format \in Seq(Alphabet)
  BY <1>1, <1>2, BeforeIs
<1> QED
  BY <1>3

\* The characters of the format are no NUL.
LEMMA CharTyped ==
  ASSUME NEW its, GoodCall(its), format = FormatOf(its), NEW i \in Int
  PROVE  /\ i \in 1 .. Len(format) => Char(i) = format[i] /\ Char(i) \in Alphabet /\ Char(i) # NUL
         /\ i \notin 1 .. Len(format) => Char(i) = NUL
<1>1. format \in Seq(Alphabet) /\ Len(format) \in Nat
  BY FormatTyped
<1>2. NUL \notin Alphabet
  BY AlphabetAssumption DEF NUL
<1> QED
  BY <1>1, <1>2 DEF Char

LEMMA ItemShown ==
  ASSUME NEW its, GoodCall(its), format = FormatOf(its), NEW c \in Nat, c = Len(its),
         NEW k \in 1 .. c
  PROVE  /\ Here(its, k - 1) \in Nat \ {0} /\ Here(its, k) \in Nat
         /\ Here(its, k) = Here(its, k - 1) + Len(Rendered(its[k]))
         /\ Shows(Here(its, k - 1), Rendered(its[k]))
<1>1. PICK T : T = Alphabet
  OBVIOUS
<1>2. PICK r \in Seq(T) : r = Rendered(its[k])
  BY <1>1, ItemIs, RenderedTyped
<1>3. PICK l \in 0 .. c : l = k - 1
  OBVIOUS
<1>4. PICK b \in Seq(T) : b = Before(its, l)
  BY <1>1, BeforeIs
<1>5. PICK d \in Seq(T) : d = Before(its, k)
  <2>1. k \in 0 .. c
    OBVIOUS
  <2> QED
    BY <1>1, <2>1, BeforeIs
<1>6. d = b \o r
  BY <1>2, <1>3, <1>4, <1>5, BeforeIs
<1>7. PICK rest \in Seq(T) : format = d \o rest
  <2>1. k \in 0 .. c
    OBVIOUS
  <2>2. Extended(Alphabet, Before(its, k), FormatOf(its))
    BY <2>1, BeforeIs
  <2> QED
    BY <1>1, <1>5, <2>2 DEF Extended
<1>8. PICK x \in Nat : x = Len(b)
  OBVIOUS
<1>9. PICK y \in Nat : y = Len(r)
  OBVIOUS
<1>10. PICK z \in Nat : z = Len(rest)
  OBVIOUS
<1>11. Len(d) = x + y /\ \A j \in 1 .. y : d[x + j] = r[j]
  <2>1. Len(b \o r) = x + y
    BY <1>8, <1>9
  <2>2. ASSUME NEW j \in 1 .. y PROVE (b \o r)[x + j] = r[j]
    BY <1>8, <1>9
  <2> QED
    BY <1>6, <2>1, <2>2, Zenon
<1>12. PICK xy \in Nat : xy = x + y
  OBVIOUS
<1>13. Len(format) = xy + z /\ \A j \in 1 .. xy : format[j] = d[j]
  <2>1. Len(d) = xy
    BY <1>11, <1>12
  <2>2. Len(d \o rest) = xy + z
    BY <1>10, <2>1, ConcatLen
  <2>3. ASSUME NEW j \in 1 .. xy PROVE (d \o rest)[j] = d[j]
    BY <2>1
  <2> QED
    BY <1>7, <2>2, <2>3, Zenon
<1>14. Here(its, l) = x + 1 /\ Here(its, k) = xy + 1
  BY <1>4, <1>5, <1>8, <1>11, <1>12 DEF Here
<1>15. ASSUME NEW j \in 1 .. y PROVE Char((x + 1) + j - 1) = r[j]
  <2>1. PICK p \in 1 .. xy : p = x + j
    BY <1>12
  <2>2. (x + 1) + j - 1 = p /\ p \in 1 .. Len(format)
    BY <1>13, <2>1
  <2>3. Char(p) = format[p]
    BY <2>2 DEF Char
  <2>4. format[p] = d[p]
    BY <1>13
  <2>5. d[p] = r[j]
    BY <1>11, <2>1
  <2> QED
    BY <2>2, <2>3, <2>4, <2>5
<1>16. Shows(x + 1, r)
  BY <1>9, <1>12, <1>13, <1>15 DEF Shows
<1>17. x + 1 \in Nat \ {0} /\ xy + 1 \in Nat /\ xy + 1 = (x + 1) + y
  BY <1>12
<1>18. Here(its, k - 1) = x + 1 /\ y = Len(Rendered(its[k]))
  BY <1>2, <1>3, <1>9, <1>14, Zenon
<1> QED
  BY <1>2, <1>14, <1>16, <1>17, <1>18, Zenon

LEMMA EndShown ==
  ASSUME NEW its, GoodCall(its), format = FormatOf(its), NEW c \in Nat, c = Len(its)
  PROVE  Here(its, c) = Len(format) + 1 /\ Char(Here(its, c)) = NUL /\ Here(its, 0) = 1
<1>1. format = Before(its, c)
  BY BeforeIs
<1>2. PICK f \in Nat : f = Len(format)
  BY FormatTyped
<1>3. Here(its, c) = f + 1
  BY <1>1, <1>2 DEF Here
<1>4. f + 1 \notin 1 .. Len(format) /\ f + 1 \in Int
  BY <1>2
<1>5. Char(f + 1) = NUL
  BY <1>4, CharTyped
<1>6. Before(its, 0) = <<>>
  BY BeforeIs
<1>7. Here(its, 0) = 1
  BY <1>6 DEF Here
<1> QED
  BY <1>2, <1>3, <1>5, <1>7
-----------------------------------------------------------------------------
\* Where the parts of a conversion begin that begins at s.
WidthAt(s, item) == s + 1 + Len(item.flags)
PrecAt(s, item) == WidthAt(s, item) + Len(WidthText(item))
LengthAt(s, item) == PrecAt(s, item) + Len(PrecText(item))
ConvAt(s, item) == LengthAt(s, item) + Len(LengthText(item))

ConvChar(item) == IF item.conv = "none" THEN NUL ELSE item.conv

Stands(s, item) ==
  /\ Char(s) = "%"
  /\ Shows(s + 1, item.flags)
  /\ Shows(WidthAt(s, item), WidthText(item))
  /\ Shows(PrecAt(s, item), PrecText(item))
  /\ Shows(LengthAt(s, item), LengthText(item))
  /\ Char(ConvAt(s, item)) = ConvChar(item)

\* All of them are positions.
Placed(s, item) ==
  /\ s \in Nat /\ s >= 1
  /\ WidthAt(s, item) \in Nat /\ PrecAt(s, item) \in Nat
  /\ LengthAt(s, item) \in Nat /\ ConvAt(s, item) \in Nat
  /\ s + 1 <= WidthAt(s, item) /\ WidthAt(s, item) <= PrecAt(s, item)
  /\ PrecAt(s, item) <= LengthAt(s, item) /\ LengthAt(s, item) <= ConvAt(s, item)

LEMMA ItemPlaced ==
  ASSUME NEW item \in Item, IsWritten(item), item.conv # "text", NEW s \in Nat, s >= 1
  PROVE  Placed(s, item)
<1>1. PICK a \in Nat : a = Len(item.flags)
  BY FlagsTyped
<1>2. PICK b \in Nat : b = Len(WidthText(item))
  BY WidthTextTyped
<1>3. PICK c \in Nat : c = Len(PrecText(item))
  BY PrecTextTyped
<1>4. PICK d \in Nat : d = Len(LengthText(item))
  BY LengthTextTyped
<1>5. WidthAt(s, item) = s + 1 + a
  BY <1>1 DEF WidthAt
<1>6. PrecAt(s, item) = s + 1 + a + b
  BY <1>2, <1>5 DEF PrecAt
<1>7. LengthAt(s, item) = s + 1 + a + b + c
  BY <1>3, <1>6 DEF LengthAt
<1>8. ConvAt(s, item) = s + 1 + a + b + c + d
  BY <1>4, <1>7 DEF ConvAt
<1> QED
  BY <1>5, <1>6, <1>7, <1>8 DEF Placed

\* A text of six parts, the first a single character.
InSix(r, a, f, w, p, g, e) == r = a \o f \o w \o p \o g \o e /\ Len(a) = 1

SixShown(s, a, f, w, p, g, e) ==
  /\ Shows(s, a) /\ Shows(s + 1, f) /\ Shows(s + 1 + Len(f), w)
  /\ Shows(s + 1 + Len(f) + Len(w), p)
  /\ Shows(s + 1 + Len(f) + Len(w) + Len(p), g)
  /\ Shows(s + 1 + Len(f) + Len(w) + Len(p) + Len(g), e)

SixLong(s, r, f, w, p, g, e) ==
  s + Len(r) = (s + 1 + Len(f) + Len(w) + Len(p) + Len(g)) + Len(e)

LEMMA PartsShown ==
  ASSUME NEW s \in Nat, NEW a \in Seq(Alphabet), NEW f \in Seq(Alphabet),
         NEW w \in Seq(Alphabet), NEW p \in Seq(Alphabet), NEW g \in Seq(Alphabet),
         NEW e \in Seq(Alphabet), NEW l \in Nat, l = Len(format),
         NEW r, InSix(r, a, f, w, p, g, e), Shows(s, r)
  PROVE  /\ SixShown(s, a, f, w, p, g, e)
         /\ SixLong(s, r, f, w, p, g, e)
<1>1. r = a \o f \o w \o p \o g \o e
  BY Zenon DEF InSix
<1>2. Len(a) = 1
  BY Zenon DEF InSix
<1>3. PICK lf \in Nat : lf = Len(f)
  OBVIOUS
<1>4. PICK lw \in Nat : lw = Len(w)
  OBVIOUS
<1>5. PICK lp \in Nat : lp = Len(p)
  OBVIOUS
<1>6. PICK lg \in Nat : lg = Len(g)
  OBVIOUS
<1>7. PICK le \in Nat : le = Len(e)
  OBVIOUS
<1>8. \A x, y \in Seq(Alphabet) : x \o y \in Seq(Alphabet) /\ Len(x \o y) = Len(x) + Len(y)
  BY ConcatLen, Zenon
<1> DEFINE u1 == a \o f
           u2 == u1 \o w
           u3 == u2 \o p
           u4 == u3 \o g
<1>12. u1 \in Seq(Alphabet) /\ Len(u1) = 1 + lf
  <2>1. u1 \in Seq(Alphabet) /\ Len(u1) = Len(a) + Len(f)
    BY <1>8, Zenon
  <2> HIDE DEF u1
  <2> QED
    BY <1>2, <1>3, <2>1, Zenon
<1>13. u2 \in Seq(Alphabet) /\ Len(u2) = 1 + lf + lw
  BY <1>4, <1>8, <1>12, Zenon
<1>14. u3 \in Seq(Alphabet) /\ Len(u3) = 1 + lf + lw + lp
  BY <1>5, <1>8, <1>13, Zenon
<1>15. u4 \in Seq(Alphabet) /\ Len(u4) = 1 + lf + lw + lp + lg
  BY <1>6, <1>8, <1>14, Zenon
<1>16. Len(u4 \o e) = 1 + lf + lw + lp + lg + le
  BY <1>7, <1>8, <1>15, Zenon
<1>17. r = u4 \o e
  BY <1>1, Zenon
<1>9. \A x, y \in Seq(Alphabet) : Shows(s, x \o y) => Shows(s, x) /\ Shows(s + Len(x), y)
  BY ShowsParts
<1>18. Shows(s, u4) /\ Shows(s + Len(u4), e)
  <2> HIDE DEF u4
  <2> QED
    BY <1>9, <1>15, <1>17, Zenon
<1>19. Shows(s, u3) /\ Shows(s + Len(u3), g)
  <2> HIDE DEF u3
  <2> QED
    BY <1>9, <1>14, <1>18, Zenon
<1>20. Shows(s, u2) /\ Shows(s + Len(u2), p)
  <2> HIDE DEF u2
  <2> QED
    BY <1>9, <1>13, <1>19, Zenon
<1>21. Shows(s, u1) /\ Shows(s + Len(u1), w)
  <2> HIDE DEF u1
  <2> QED
    BY <1>9, <1>12, <1>20, Zenon
<1>22. Shows(s, a) /\ Shows(s + Len(a), f)
  BY <1>9, <1>21, Zenon
<1> HIDE DEF u1, u2, u3, u4
<1>23. s + Len(u1) = s + 1 + lf
  BY <1>12
<1>24. s + Len(u2) = s + 1 + lf + lw
  BY <1>13
<1>25. s + Len(u3) = s + 1 + lf + lw + lp
  BY <1>14
<1>26. s + Len(u4) = s + 1 + lf + lw + lp + lg
  BY <1>15
<1>27. SixShown(s, a, f, w, p, g, e)
  BY <1>2, <1>3, <1>4, <1>5, <1>6, <1>18, <1>19, <1>20, <1>21, <1>22, <1>23, <1>24, <1>25, <1>26,
     Zenon DEF SixShown
<1> QED
  <2>1. s + (1 + lf + lw + lp + lg + le) = (s + 1 + lf + lw + lp + lg) + le
    OBVIOUS
  <2> QED
    BY <1>3, <1>4, <1>5, <1>6, <1>7, <1>16, <1>17, <1>27, <2>1, Zenon DEF SixLong

LEMMA ItemStands ==
  ASSUME NEW its, GoodCall(its), format = FormatOf(its), NEW c \in Nat, c = Len(its),
         NEW k \in 1 .. c, NEW item \in Item, item = its[k], item.conv # "text",
         NEW s \in Nat, s = Here(its, k - 1)
  PROVE  /\ Placed(s, item) /\ Stands(s, item)
         /\ Here(its, k) = ConvAt(s, item) + (IF item.conv = "none" THEN 0 ELSE 1)
         /\ item.conv # "none" => \A p \in s .. ConvAt(s, item) : Char(p) # NUL
<1>1. IsWritten(item)
  BY ItemIs
<1>2. s >= 1 /\ Here(its, k) = s + Len(Rendered(item)) /\ Shows(s, Rendered(item))
  <2>1. /\ Here(its, k - 1) \in Nat \ {0}
        /\ Here(its, k) = Here(its, k - 1) + Len(Rendered(its[k]))
        /\ Shows(Here(its, k - 1), Rendered(its[k]))
    BY ItemShown, Zenon
  <2>2. s \in Nat \ {0} /\ Here(its, k) = s + Len(Rendered(item)) /\ Shows(s, Rendered(item))
    BY <2>1, Zenon
  <2> QED
    BY <2>2
<1>3. PICK a \in Seq(Alphabet) : a = <<"%">> /\ Len(a) = 1 /\ a[1] = "%"
  BY AlphabetHas, Texts12
<1>4. PICK f \in Seq(Alphabet) : f = item.flags
  BY <1>1, FlagsTyped
<1>5. PICK w \in Seq(Alphabet) : w = WidthText(item)
  BY <1>1, WidthTextTyped
<1>6. PICK p \in Seq(Alphabet) : p = PrecText(item)
  BY <1>1, PrecTextTyped
<1>7. PICK g \in Seq(Alphabet) : g = LengthText(item)
  BY <1>1, LengthTextTyped
<1>8. PICK e \in Seq(Alphabet) : e = ConvText(item) /\ Len(e) = IF item.conv = "none" THEN 0 ELSE 1
  BY <1>1, ConvTextTyped
<1>9. PICK l \in Nat : l = Len(format)
  BY FormatTyped
<1>10. Rendered(item) = a \o f \o w \o p \o g \o e
  BY <1>3, <1>4, <1>5, <1>6, <1>7, <1>8 DEF Rendered
<1>11. Placed(s, item)
  BY <1>1, <1>2, ItemPlaced
<1>12. /\ SixShown(s, a, f, w, p, g, e)
       /\ SixLong(s, Rendered(item), f, w, p, g, e)
  <2>1. InSix(Rendered(item), a, f, w, p, g, e)
    BY <1>3, <1>10, Zenon DEF InSix
  <2> QED
    BY <1>2, <1>9, <2>1, PartsShown
<1>23. s + 1 + Len(f) = WidthAt(s, item)
  BY <1>4, Zenon DEF WidthAt
<1>24. s + 1 + Len(f) + Len(w) = PrecAt(s, item)
  BY <1>5, <1>23, Zenon DEF PrecAt
<1>25. s + 1 + Len(f) + Len(w) + Len(p) = LengthAt(s, item)
  BY <1>6, <1>24, Zenon DEF LengthAt
<1>26. s + 1 + Len(f) + Len(w) + Len(p) + Len(g) = ConvAt(s, item)
  BY <1>7, <1>25, Zenon DEF ConvAt
<1>27. Char(s) = "%"
  <2>1. 1 \in 1 .. 1 /\ s + 1 - 1 = s
    OBVIOUS
  <2>2. Char(s + 1 - 1) = a[1]
    BY <1>3, <1>12, <2>1, Zenon DEF SixShown, Shows
  <2> QED
    BY <1>3, <2>1, <2>2, Zenon
<1>28. PICK q \in Nat : q = ConvAt(s, item)
  BY <1>11, Zenon DEF Placed
<1>29. s + Len(Rendered(item)) = q + Len(e)
  BY <1>12, <1>26, <1>28, Zenon DEF SixLong
<1>30. Here(its, k) = q + (IF item.conv = "none" THEN 0 ELSE 1)
  BY <1>2, <1>8, <1>29, Zenon
<1>31. Char(q) = ConvChar(item) /\ (item.conv # "none" => q <= l)
  <2>1. CASE item.conv = "none"
    <3>1. k = c
      BY <2>1, ItemIs
    <3>2. Here(its, k) = l + 1 /\ Char(Here(its, k)) = NUL
      BY <1>9, <3>1, EndShown, Zenon
    <3>3. q + 0 = q
      OBVIOUS
    <3>4. Here(its, k) = q
      BY <1>30, <2>1, <3>3, Zenon
    <3>5. Char(q) = NUL
      BY <3>2, <3>4, Zenon
    <3> QED
      BY <2>1, <3>5 DEF ConvChar
  <2>2. CASE item.conv # "none"
    <3>1. e = <<item.conv>> /\ Len(e) = 1
      BY <1>8, <2>2 DEF ConvText
    <3>2. e[1] = item.conv
      BY <3>1
    <3>3. Shows(q, e)
      BY <1>12, <1>26, <1>28, Zenon DEF SixShown
    <3>4. q + 1 <= l + 1 /\ Char(q + 1 - 1) = e[1]
      <4>1. 1 \in 1 .. 1
        OBVIOUS
      <4> QED
        BY <1>9, <3>1, <3>3, <4>1, Zenon DEF Shows
    <3>5. q + 1 - 1 = q /\ q <= l
      BY <3>4
    <3>6. Char(q) = ConvChar(item)
      BY <2>2, <3>2, <3>4, <3>5, Zenon DEF ConvChar
    <3> QED
      BY <3>5, <3>6
  <2> QED
    BY <2>1, <2>2
<1>32. item.conv # "none" => \A x \in s .. q : Char(x) # NUL
  <2> SUFFICES ASSUME item.conv # "none", NEW x \in s .. q PROVE Char(x) # NUL
    OBVIOUS
  <2>1. PICK y \in 1 .. l : y = x
    <3>1. q <= l
      BY <1>31
    <3>2. s >= 1
      BY <1>2
    <3>3. x \in 1 .. l
      BY <3>1, <3>2
    <3> QED
      BY <3>3
  <2>2. y \in Int /\ y \in 1 .. Len(format)
    BY <1>9
  <2> QED
    BY <2>1, <2>2, CharTyped, Zenon
<1>33. Stands(s, item)
  BY <1>4, <1>5, <1>6, <1>7, <1>12, <1>23, <1>24, <1>25, <1>27, <1>28, <1>31, Zenon
     DEF Stands, SixShown
<1> QED
  BY <1>11, <1>28, <1>30, <1>32, <1>33, Zenon

-----------------------------------------------------------------------------
(***************************************************************************)
(* The characters by which the parser tells the parts of a conversion.     *)
(***************************************************************************)
FirstFigure(v, b, digit) == \E d \in 1 .. b - 1 : DigitsBy(v, b, digit)[1] = digit[d + 1]

LEMMA FirstIs ==
  ASSUME NEW v \in Nat, NEW b \in Nat, NEW digit, Suits(b, digit), v # 0
  PROVE  FirstFigure(v, b, digit)
BY FirstDigit DEF FirstFigure

LEMMA NumberShown ==
  ASSUME NEW v \in Nat, v # 0, NEW i \in Nat, i >= 1, NEW l \in Nat, Len(format) = l,
         Shows(i, NumberText(v)), NEW e \in Nat, e = i + Len(NumberText(v)), ~IsDigit(Char(e))
  PROVE  NumberEnd(i) = e /\ NumberAt(i) = v /\ IsDigit(Char(i)) /\ Char(i) # "0"
<1>1. PICK b \in Nat : b = 10 /\ Suits(b, Lower)
  BY SuitsAll
<1>2. PICK c \in Nat : c = Count(v, b) /\ c >= 1
  BY <1>1, NumberTextTyped
<1>3. PICK D \in Seq(Alphabet) : D = NumberText(v) /\ Len(D) = c
  BY <1>1, <1>2, NumberTextTyped
<1>4. D = DigitsBy(v, b, Lower)
  BY <1>1, <1>3, NumberTexts
<1>5. i + c <= l + 1 /\ \A j \in 1 .. c : Char(i + j - 1) = D[j]
  BY <1>3 DEF Shows
<1>6. e = i + c
  BY <1>3
<1>7. ShowsNumber(v, i, c)
  BY <1>1, <1>4, <1>5, <1>6, Zenon DEF ShowsNumber
<1>8. NumberEnd(i) = i + c /\ NumberAt(i) = v
  BY <1>1, <1>2, <1>5, <1>7, ReadsNumber
<1>9. Char(i) = D[1]
  <2>1. 1 \in 1 .. c /\ i + 1 - 1 = i
    BY <1>2
  <2> QED
    BY <1>5, <2>1
<1>10. IsDigit(D[1]) /\ D[1] # "0"
  <2>4. \E d \in 1 .. b - 1 : DigitsBy(v, b, Lower)[1] = Lower[d + 1]
    <3>1. FirstFigure(v, b, Lower)
      BY <1>1, FirstIs
    <3> QED
      BY <3>1, Zenon DEF FirstFigure
  <2>1. PICK d \in 1 .. b - 1 : D[1] = Lower[d + 1]
    BY <1>4, <2>4, Zenon
  <2>2. d \in 0 .. 9
    BY <1>1, <2>1
  <2>3. D[1] # "0"
    BY <1>1, <1>4, FirstDigit
  <2> QED
    BY <2>1, <2>2, <2>3, LowerDigit
<1> QED
  BY <1>6, <1>8, <1>9, <1>10

\* A character that can only be the end of a conversion.
Ends(c) == c \notin DigitChars \cup FlagChars \cup LengthChars \cup {"*", "."}

LEMMA ConvCharIs ==
  ASSUME NEW item \in Item, IsWritten(item), item.conv # "text"
  PROVE  Ends(ConvChar(item)) /\ (ConvChar(item) = NUL <=> item.conv = "none")
<1>1. NUL \notin Alphabet
  BY AlphabetAssumption DEF NUL
<1>2. DigitChars \cup FlagChars \cup LengthChars \cup {"*", "."} \subseteq Alphabet
  BY AlphabetAssumption
<1>3. item.conv = "none" \/ item.conv \in Alphabet
  BY DEF Item
<1>4. item.conv \notin DigitChars \cup FlagChars \cup LengthChars \cup {"*", "."}
  BY DEF IsWritten
<1> HIDE DEF NUL, DigitChars, FlagChars, LengthChars
<1> QED
  BY <1>1, <1>2, <1>3, <1>4 DEF Ends, ConvChar

LengthShown(s, item) ==
  LET l == LengthAt(s, item)
  IN /\ item.length = "none" => Char(l) \notin LengthChars /\ ConvAt(s, item) = l
     /\ item.length \in {"hh", "ll"} =>
          /\ Char(l) = (IF item.length = "hh" THEN "h" ELSE "l") /\ Char(l + 1) = Char(l)
          /\ ConvAt(s, item) = l + 2
     /\ item.length \in {"h", "l", "z"} =>
          Char(l) = item.length /\ Char(l + 1) # Char(l) /\ ConvAt(s, item) = l + 1
     /\ Char(l) \notin DigitChars \cup FlagChars \cup {"*", "."}

LEMMA LengthIs ==
  ASSUME NEW item \in Item, IsWritten(item), item.conv # "text", NEW s \in Nat,
         Placed(s, item), Stands(s, item)
  PROVE  LengthShown(s, item)
<1>1. PICK l \in Nat : l = LengthAt(s, item)
  BY DEF Placed
<1>2. PICK q \in Nat : q = ConvAt(s, item)
  BY DEF Placed
<1>3. PICK g \in Seq(Alphabet) : g = LengthText(item)
  BY LengthTextTyped
<1>4. Shows(l, g)
  BY <1>1, <1>3 DEF Stands
<1>5. q = l + Len(g)
  BY <1>1, <1>2, <1>3 DEF ConvAt
<1>6. Ends(Char(q))
  BY <1>2, ConvCharIs DEF Stands
<1>7. item.length \in {"none", "hh", "h", "l", "ll", "z"}
  <2>1. item.length \in DOMAIN Word
    BY DEF Item
  <2> QED
    BY <2>1, WordIs
<1>8. CASE item.length = "none"
  <2>1. g = <<>>
    BY <1>3, <1>8 DEF LengthText
  <2>2. q = l
    BY <1>5, <2>1
  <2> QED
    BY <1>1, <1>2, <1>6, <1>8, <2>2 DEF LengthShown, Ends
<1>9. ASSUME NEW c, c \in {"h", "l"}, g = <<c, c>>
      PROVE  Char(l) = c /\ Char(l + 1) = c /\ q = l + 2
  <2>1. Len(g) = 2 /\ g[1] = c /\ g[2] = c
    BY <1>9
  <2>2. Char(l + 1 - 1) = g[1] /\ Char(l + 2 - 1) = g[2]
    BY <1>4, <2>1 DEF Shows
  <2>3. l + 1 - 1 = l /\ l + 2 - 1 = l + 1
    OBVIOUS
  <2> QED
    BY <1>5, <2>1, <2>2, <2>3
<1>10. ASSUME NEW c, g = <<c>>
      PROVE  Char(l) = c /\ q = l + 1
  <2>1. Len(g) = 1 /\ g[1] = c
    BY <1>10
  <2>2. Char(l + 1 - 1) = g[1]
    BY <1>4, <2>1 DEF Shows
  <2>3. l + 1 - 1 = l
    OBVIOUS
  <2> QED
    BY <1>5, <2>1, <2>2, <2>3
<1>11. "h" \notin DigitChars \cup FlagChars \cup {"*", "."}
  BY DEF DigitChars, FlagChars
<1>12. "l" \notin DigitChars \cup FlagChars \cup {"*", "."}
  BY DEF DigitChars, FlagChars
<1>13. "z" \notin DigitChars \cup FlagChars \cup {"*", "."}
  BY DEF DigitChars, FlagChars
<1>14. CASE item.length \in {"hh", "ll"}
  <2>1. PICK c : c = IF item.length = "hh" THEN "h" ELSE "l"
    OBVIOUS
  <2>2. g = <<c, c>>
    BY <1>3, <1>14, <2>1 DEF LengthText
  <2>3. Char(l) = c /\ Char(l + 1) = c /\ q = l + 2
    BY <1>9, <2>1, <2>2
  <2> QED
    BY <1>1, <1>2, <1>11, <1>12, <1>14, <2>1, <2>3 DEF LengthShown
<1>15. CASE item.length \in {"h", "l", "z"}
  <2>1. g = <<item.length>>
    BY <1>3, <1>15 DEF LengthText
  <2>2. Char(l) = item.length /\ q = l + 1
    BY <1>10, <2>1
  <2>3. item.length \in LengthChars
    BY <1>15 DEF LengthChars
  <2>4. Char(l + 1) # item.length
    BY <1>6, <2>2, <2>3 DEF Ends
  <2>5. item.length \notin DigitChars \cup FlagChars \cup {"*", "."}
    BY <1>11, <1>12, <1>13, <1>15
  <2> QED
    BY <1>1, <1>2, <1>15, <2>2, <2>4, <2>5 DEF LengthShown
<1> QED
  BY <1>7, <1>8, <1>14, <1>15

PrecShown(s, item) ==
  LET p == PrecAt(s, item)
      l == LengthAt(s, item)
  IN /\ item.prec = None => Char(p) # "." /\ l = p
     /\ item.prec # None => Char(p) = "."
     /\ (item.prec # None /\ "prec" \in item.star) => Char(p + 1) = "*" /\ l = p + 2
     /\ (item.prec # None /\ "prec" \notin item.star /\ item.prec = 0) =>
          ~IsDigit(Char(p + 1)) /\ Char(p + 1) # "*" /\ l = p + 1
     /\ (item.prec # None /\ "prec" \notin item.star /\ item.prec # 0) =>
          /\ IsDigit(Char(p + 1))
          /\ NumberEnd(p + 1) = l /\ NumberAt(p + 1) = item.prec
     /\ Char(p) \notin DigitChars \cup FlagChars \cup {"*"}

LEMMA PrecReads ==
  ASSUME NEW item \in Item, IsWritten(item), item.conv # "text", NEW s \in Nat,
         Placed(s, item), Stands(s, item), Len(format) \in Nat
  PROVE  PrecShown(s, item)
<1>1. PICK p \in Nat : p = PrecAt(s, item)
  BY DEF Placed
<1>2. PICK l \in Nat : l = LengthAt(s, item)
  BY DEF Placed
<1>3. PICK t \in Seq(Alphabet) : t = PrecText(item)
  BY PrecTextTyped
<1>4. Shows(p, t)
  BY <1>1, <1>3 DEF Stands
<1>5. l = p + Len(t)
  BY <1>1, <1>2, <1>3 DEF LengthAt
<1>6. Char(l) \notin DigitChars \cup FlagChars \cup {"*", "."}
  BY <1>2, LengthIs DEF LengthShown
<1>7. "." \notin DigitChars \cup FlagChars \cup {"*"}
  BY DEF DigitChars, FlagChars
<1>8. CASE item.prec = None
  <2>1. t = <<>>
    BY <1>3, <1>8 DEF PrecText
  <2>2. l = p
    BY <1>5, <2>1
  <2> QED
    BY <1>1, <1>2, <1>6, <1>8, <2>2 DEF PrecShown
<1>9. CASE item.prec # None /\ "prec" \in item.star
  <2>1. t = <<".", "*">>
    BY <1>3, <1>9 DEF PrecText
  <2>2. Len(t) = 2 /\ t[1] = "." /\ t[2] = "*"
    BY <2>1
  <2>3. Char(p + 1 - 1) = t[1] /\ Char(p + 2 - 1) = t[2]
    BY <1>4, <2>2 DEF Shows
  <2>4. p + 1 - 1 = p /\ p + 2 - 1 = p + 1
    OBVIOUS
  <2>5. Char(p) = "." /\ Char(p + 1) = "*" /\ l = p + 2
    BY <1>5, <2>2, <2>3, <2>4
  <2> QED
    BY <1>1, <1>2, <1>7, <1>9, <2>5 DEF PrecShown
<1>10. CASE item.prec # None /\ "prec" \notin item.star /\ item.prec = 0
  <2>1. t = <<".">>
    BY <1>3, <1>10 DEF PrecText
  <2>2. Len(t) = 1 /\ t[1] = "."
    BY <2>1
  <2>3. Char(p + 1 - 1) = t[1]
    BY <1>4, <2>2 DEF Shows
  <2>4. p + 1 - 1 = p
    OBVIOUS
  <2>5. Char(p) = "." /\ l = p + 1
    BY <1>5, <2>2, <2>3, <2>4
  <2> QED
    BY <1>1, <1>2, <1>6, <1>7, <1>10, <2>5 DEF PrecShown, IsDigit
<1>11. CASE item.prec # None /\ "prec" \notin item.star /\ item.prec # 0
  <2>1. item.prec \in Nat
    BY <1>11 DEF IsWritten
  <2>2. PICK v \in Nat : v = item.prec /\ v # 0
    BY <1>11, <2>1
  <2>3. PICK D \in Seq(Alphabet) : D = NumberText(v)
    BY <2>2, NumberTextTyped
  <2>4. PICK a \in Seq(Alphabet) : a = <<".">> /\ Len(a) = 1 /\ a[1] = "."
    <3>1. "." \in Alphabet
      BY AlphabetAssumption
    <3> QED
      BY <3>1, Texts12
  <2>5. t = a \o D
    BY <1>3, <1>11, <2>2, <2>3, <2>4 DEF PrecText
  <2>6. Shows(p, a) /\ Shows(p + 1, D)
    BY <1>4, <2>4, <2>5, ShowsParts
  <2>7. Char(p) = "."
    <3>1. 1 \in 1 .. 1 /\ p + 1 - 1 = p
      OBVIOUS
    <3> QED
      BY <2>4, <2>6, <3>1 DEF Shows
  <2>8. Len(t) = 1 + Len(D)
    BY <2>4, <2>5, ConcatLen
  <2>9. l = (p + 1) + Len(D)
    BY <1>5, <2>8
  <2>10. PICK i \in Nat : i = p + 1 /\ i >= 1
    OBVIOUS
  <2>11. ~IsDigit(Char(l))
    BY <1>6 DEF IsDigit
  <2>12. PICK f \in Nat : f = Len(format)
    OBVIOUS
  <2>13. NumberEnd(i) = l /\ NumberAt(i) = v /\ IsDigit(Char(i))
    <3>1. Shows(i, NumberText(v)) /\ l = i + Len(NumberText(v))
      BY <2>3, <2>6, <2>9, <2>10, Zenon
    <3> QED
      BY <2>2, <2>10, <2>11, <2>12, <3>1, NumberShown
  <2> QED
    BY <1>1, <1>2, <1>7, <1>11, <2>2, <2>7, <2>10, <2>13 DEF PrecShown
<1> QED
  BY <1>8, <1>9, <1>10, <1>11

WidthShown(s, item) ==
  LET w == WidthAt(s, item)
      p == PrecAt(s, item)
  IN /\ item.width = None => Char(w) # "*" /\ ~IsDigit(Char(w)) /\ p = w
     /\ (item.width # None /\ "width" \in item.star) => Char(w) = "*" /\ p = w + 1
     /\ (item.width # None /\ "width" \notin item.star) =>
          /\ IsDigit(Char(w)) /\ Char(w) # "0" /\ Char(w) # "*"
          /\ NumberEnd(w) = p /\ NumberAt(w) = item.width
     /\ Char(w) \notin FlagChars

LEMMA WidthReads ==
  ASSUME NEW item \in Item, IsWritten(item), item.conv # "text", NEW s \in Nat,
         Placed(s, item), Stands(s, item), Len(format) \in Nat
  PROVE  WidthShown(s, item)
<1>1. PICK p \in Nat : p = PrecAt(s, item)
  BY DEF Placed
<1>2. PICK w \in Nat : w = WidthAt(s, item) /\ w >= 1
  BY DEF Placed
<1>3. PICK t \in Seq(Alphabet) : t = WidthText(item)
  BY WidthTextTyped
<1>4. Shows(w, t)
  BY <1>2, <1>3 DEF Stands
<1>5. p = w + Len(t)
  BY <1>1, <1>2, <1>3 DEF PrecAt
<1>6. Char(p) \notin DigitChars \cup FlagChars \cup {"*"}
  BY <1>1, PrecReads DEF PrecShown
<1>8. CASE item.width = None
  <2>1. t = <<>>
    BY <1>3, <1>8 DEF WidthText
  <2>2. p = w
    BY <1>5, <2>1
  <2> QED
    BY <1>1, <1>2, <1>6, <1>8, <2>2 DEF WidthShown, IsDigit
<1>9. CASE item.width # None /\ "width" \in item.star
  <2>1. t = <<"*">>
    BY <1>3, <1>9 DEF WidthText
  <2>2. Len(t) = 1 /\ t[1] = "*"
    BY <2>1
  <2>3. Char(w + 1 - 1) = t[1]
    BY <1>4, <2>2 DEF Shows
  <2>4. w + 1 - 1 = w
    OBVIOUS
  <2>5. Char(w) = "*" /\ p = w + 1
    BY <1>5, <2>2, <2>3, <2>4
  <2>6. "*" \notin FlagChars
    BY DEF FlagChars
  <2> QED
    BY <1>1, <1>2, <1>9, <2>5, <2>6 DEF WidthShown
<1>10. CASE item.width # None /\ "width" \notin item.star
  <2>1. item.width \in Nat \ {0}
    BY <1>10 DEF IsWritten
  <2>2. PICK v \in Nat : v = item.width /\ v # 0
    BY <2>1
  <2>3. t = NumberText(v)
    BY <1>3, <1>10, <2>2 DEF WidthText
  <2>4. ~IsDigit(Char(p))
    BY <1>6 DEF IsDigit
  <2>5. PICK f \in Nat : f = Len(format)
    OBVIOUS
  <2>6. NumberEnd(w) = p /\ NumberAt(w) = v /\ IsDigit(Char(w)) /\ Char(w) # "0"
    BY <1>2, <1>4, <1>5, <2>2, <2>3, <2>4, <2>5, NumberShown
  <2>7. \A c \in DigitChars : c # "*" /\ (c # "0" => c \notin FlagChars)
    BY DEF DigitChars, FlagChars
  <2>8. Char(w) # "*" /\ Char(w) \notin FlagChars
    BY <2>6, <2>7 DEF IsDigit
  <2> QED
    BY <1>1, <1>2, <1>10, <2>2, <2>6, <2>8 DEF WidthShown
<1> QED
  BY <1>8, <1>9, <1>10

LEMMA FlagsRead1 ==
  ASSUME NEW item \in Item, NEW s \in Nat, Stands(s, item), NEW x \in 1 .. Len(item.flags)
  PROVE  Char(s + x) = item.flags[x] /\ item.flags[x] \in FlagChars
<1>1. PICK a \in Nat : a = Len(item.flags)
  BY FlagsTyped
<1>2. Char((s + 1) + x - 1) = item.flags[x]
  BY DEF Stands, Shows
<1>3. PICK y \in 1 .. a : y = x
  BY <1>1
<1>4. (s + 1) + y - 1 = s + y
  OBVIOUS
<1>5. item.flags[x] \in FlagChars
  <2> HIDE DEF FlagChars
  <2> QED
    BY FlagsTyped
<1> QED
  BY <1>2, <1>3, <1>4, <1>5

-----------------------------------------------------------------------------
(***************************************************************************)
(* Where the parser is in a conversion that begins at s, when rest are the *)
(* arguments of the later items.                                           *)
(***************************************************************************)
FlagsTo(item, x) == {item.flags[y] : y \in 1 .. x}

FlagStage(item, s, rest) ==
  /\ stage = "flags"
  /\ \E x \in 0 .. Len(item.flags) :
       pos = s + 1 + x /\ spec = [NoSpec EXCEPT !.flags = FlagsTo(item, x)]
  /\ args = WidthArg(item) \o (PrecArg(item) \o (OwnArg(item) \o rest))

WidthStage(item, s, rest) ==
  /\ stage = "width" /\ pos = WidthAt(s, item)
  /\ spec = [NoSpec EXCEPT !.flags = FlagsTo(item, Len(item.flags))]
  /\ args = WidthArg(item) \o (PrecArg(item) \o (OwnArg(item) \o rest))

\* A record of vprintf_parse_spec.
SpecIs(flags, width, prec, length) ==
  spec = [flags |-> flags, width |-> width, prec |-> prec, length |-> length]

PrecStage(item, s, rest) ==
  /\ stage = "prec" /\ pos = PrecAt(s, item)
  /\ item.width <= IntMax
  /\ \E flags, width :
       SpecIs(flags, width, None, "none") /\ FlagsRead(flags, item) /\ WidthIs(width, item)
  /\ args = PrecArg(item) \o (OwnArg(item) \o rest)

LengthStage(item, s, rest) ==
  /\ stage = "length" /\ pos = LengthAt(s, item)
  /\ item.width <= IntMax /\ item.prec <= IntMax
  /\ \E flags, width, prec :
       /\ SpecIs(flags, width, prec, "none")
       /\ FlagsRead(flags, item) /\ WidthIs(width, item) /\ PrecIs(prec, item)
  /\ args = OwnArg(item) \o rest

ConvStage(item, s, rest) ==
  /\ stage = "conv" /\ pos = ConvAt(s, item)
  /\ item.width <= IntMax /\ item.prec <= IntMax
  /\ AsWritten(spec, item)
  /\ args = OwnArg(item) \o rest

ReadingItem(item, s, rest) ==
  \/ FlagStage(item, s, rest) \/ WidthStage(item, s, rest) \/ PrecStage(item, s, rest)
  \/ LengthStage(item, s, rest) \/ ConvStage(item, s, rest)

\* The item that stands at s.
Parsable(item, s) ==
  /\ item \in Item /\ IsWritten(item) /\ HasArgument(item) /\ item.conv # "text"
  /\ s \in Nat /\ Placed(s, item) /\ Stands(s, item) /\ Len(format) \in Nat
  /\ item.conv # "none" => \A p \in s .. ConvAt(s, item) : Char(p) # NUL

LEMMA ShownAll ==
  ASSUME NEW item \in Item, NEW s \in Nat, Parsable(item, s)
  PROVE  /\ LengthShown(s, item) /\ PrecShown(s, item) /\ WidthShown(s, item)
         /\ Char(ConvAt(s, item)) = ConvChar(item)
         /\ Ends(ConvChar(item)) /\ (ConvChar(item) = NUL <=> item.conv = "none")
<1>1. IsWritten(item) /\ item.conv # "text" /\ Placed(s, item) /\ Stands(s, item)
      /\ Len(format) \in Nat
  BY DEF Parsable
<1>2. Char(ConvAt(s, item)) = ConvChar(item)
  BY <1>1 DEF Stands
<1> QED
  BY <1>1, <1>2, LengthIs, PrecReads, WidthReads, ConvCharIs

LEMMA HeadOfArgs ==
  ASSUME NEW a \in ArgSet, NEW r \in Seq(ArgSet)
  PROVE  Head(<<a>> \o r) = a /\ Tail(<<a>> \o r) = r
OBVIOUS

LEMMA NoArgs == \A r \in Seq(ArgSet) : <<>> \o r = r
OBVIOUS

LEMMA FlagSetMore ==
  ASSUME NEW item, NEW x \in Nat
  PROVE  FlagsTo(item, x + 1) = FlagsTo(item, x) \cup {item.flags[x + 1]}
<1>1. 1 .. x + 1 = (1 .. x) \cup {x + 1}
  OBVIOUS
<1> QED
  BY <1>1 DEF FlagsTo

LEMMA FlagSetIs ==
  ASSUME NEW item
  PROVE  \A c : c \in FlagsTo(item, Len(item.flags)) <=> HasFlag(item, c)
BY DEF FlagsTo, HasFlag

LEMMA FlagStep ==
  ASSUME NEW item \in Item, NEW s \in Nat, Parsable(item, s), NEW rest \in Seq(ArgSet),
         FlagStage(item, s, rest), Flag
  PROVE  FlagStage(item, s, rest)'
<1>1. PICK a \in Nat : a = Len(item.flags)
  BY FlagsTyped
<1>2. PICK x \in 0 .. a : pos = s + 1 + x /\ spec = [NoSpec EXCEPT !.flags = FlagsTo(item, x)]
  BY <1>1 DEF FlagStage
<1>3. Char(pos) \in FlagChars
  BY DEF Flag
<1>4. x # a
  <2> SUFFICES ASSUME x = a PROVE FALSE
    OBVIOUS
  <2>1. pos = WidthAt(s, item)
    BY <1>1, <1>2 DEF WidthAt
  <2>2. WidthShown(s, item)
    BY ShownAll
  <2> QED
    BY <1>3, <2>1, <2>2 DEF WidthShown
<1>5. PICK y \in 1 .. a : y = x + 1
  BY <1>4
<1>6. pos = s + y /\ pos + 1 = s + 1 + y
  BY <1>2, <1>5, SMTT(30)
<1>7. Char(pos) = item.flags[y]
  <2>1. Stands(s, item)
    BY DEF Parsable
  <2> QED
    BY <1>1, <1>6, <2>1, FlagsRead1
<1>8. FlagsTo(item, y) = FlagsTo(item, x) \cup {Char(pos)}
  <2>1. x \in Nat /\ y = x + 1
    BY <1>1, <1>5
  <2>2. FlagsTo(item, x + 1) = FlagsTo(item, x) \cup {item.flags[x + 1]}
    BY <2>1, FlagSetMore
  <2> QED
    BY <1>7, <2>1, <2>2, Zenon
<1>9. /\ spec' = [spec EXCEPT !.flags = @ \cup {Char(pos)}] /\ pos' = pos + 1
      /\ stage' = "flags" /\ args' = args
  BY DEF Flag, Parsed
<1>10. spec' = [NoSpec EXCEPT !.flags = FlagsTo(item, y)]
  <2>1. PICK f : f = FlagsTo(item, x)
    OBVIOUS
  <2>2. spec = [NoSpec EXCEPT !.flags = f] /\ FlagsTo(item, y) = f \cup {Char(pos)}
    BY <1>2, <1>8, <2>1, Zenon
  <2> QED
    BY <1>9, <2>2 DEF NoSpec
<1>11. pos' = s + 1 + y /\ y \in 0 .. Len(item.flags)
  BY <1>1, <1>6, <1>9
<1> QED
  BY <1>9, <1>10, <1>11 DEF FlagStage

LEMMA NoFlagStep ==
  ASSUME NEW item \in Item, NEW s \in Nat, Parsable(item, s), NEW rest \in Seq(ArgSet),
         FlagStage(item, s, rest), NoFlag
  PROVE  WidthStage(item, s, rest)'
<1>1. PICK a \in Nat : a = Len(item.flags)
  BY FlagsTyped
<1>2. PICK x \in 0 .. a : pos = s + 1 + x /\ spec = [NoSpec EXCEPT !.flags = FlagsTo(item, x)]
  BY <1>1 DEF FlagStage
<1>3. Char(pos) \notin FlagChars
  BY DEF NoFlag
<1>4. x = a
  <2> SUFFICES ASSUME x # a PROVE FALSE
    OBVIOUS
  <2>1. PICK y \in 1 .. a : y = x + 1
    OBVIOUS
  <2>2. pos = s + y
    BY <1>2, <2>1
  <2>3. Stands(s, item)
    BY DEF Parsable
  <2>4. Char(pos) = item.flags[y] /\ item.flags[y] \in FlagChars
    BY <1>1, <2>2, <2>3, FlagsRead1
  <2> QED
    BY <1>3, <2>4
<1>5. pos = WidthAt(s, item)
  BY <1>1, <1>2, <1>4 DEF WidthAt
<1>6. spec' = spec /\ pos' = pos /\ stage' = "width" /\ args' = args
  BY DEF NoFlag, Parsed
<1> QED
  BY <1>1, <1>2, <1>4, <1>5, <1>6 DEF WidthStage, FlagStage
-----------------------------------------------------------------------------
\* The width.
LEMMA WidthArgIs ==
  ASSUME NEW item \in Item, IsWritten(item), item.conv # "text"
  PROVE  /\ "width" \in item.star => item.width # None /\ item.width \in -IntMax .. IntMax
         /\ "prec" \in item.star => item.prec # None /\ item.prec \in -IntMax .. IntMax
<1>1. IntMax \in Nat /\ None = -IntMax - 1
  BY WordAssumption DEF None
<1>2. ~(None \in -IntMax .. IntMax)
  BY <1>1
<1>3. "width" \in item.star => item.width \in -IntMax .. IntMax
  BY DEF IsWritten
<1>4. "prec" \in item.star => item.prec \in -IntMax .. IntMax
  BY DEF IsWritten
<1> QED
  BY <1>2, <1>3, <1>4, Zenon

LEMMA NoneIs == None \in Int /\ None < 0 /\ None <= IntMax /\ IntMax \in Nat
BY WordAssumption DEF None

LEMMA FlagsReadIs ==
  ASSUME NEW item, item.width = None \/ ~(item.width < 0),
         NEW flags, flags = FlagsTo(item, Len(item.flags))
  PROVE  FlagsRead(flags, item)
<1>1. \A c : c \in flags <=> HasFlag(item, c)
  BY FlagSetIs
<1>2. LeftAligned(item) <=> HasFlag(item, "-")
  BY DEF LeftAligned
<1> QED
  BY <1>1, <1>2 DEF FlagsRead

LEMMA WidthStarStep ==
  ASSUME NEW item \in Item, NEW s \in Nat, Parsable(item, s), NEW rest \in Seq(ArgSet),
         WidthStage(item, s, rest), WidthStar
  PROVE  PrecStage(item, s, rest)'
<1>0. IsWritten(item) /\ item.conv # "text" /\ item.width \in Int
  BY DEF Parsable, Item
<1>1. pos = WidthAt(s, item) /\ Char(pos) = "*"
  BY DEF WidthStage, WidthStar
<1>2. PICK w \in Nat : w = WidthAt(s, item)
  BY DEF Parsable, Placed
<1>3. item.width # None /\ "width" \in item.star /\ PrecAt(s, item) = w + 1
  <2>1. WidthShown(s, item)
    BY ShownAll
  <2> QED
    BY <1>1, <1>2, <2>1 DEF WidthShown
<1>4. item.width \in -IntMax .. IntMax /\ IntMax \in Nat
  BY <1>0, <1>3, WidthArgIs, NoneIs
<1>5. PICK r \in Seq(ArgSet) : r = PrecArg(item) \o (OwnArg(item) \o rest)
  <2>1. PrecArg(item) \in Seq(ArgSet) /\ OwnArg(item) \in Seq(ArgSet)
    BY ArgumentsAre
  <2>2. OwnArg(item) \o rest \in Seq(ArgSet)
    BY <2>1, ConcatLen
  <2>3. PrecArg(item) \o (OwnArg(item) \o rest) \in Seq(ArgSet)
    BY <2>1, <2>2, ConcatLen
  <2> QED
    BY <2>3
<1>6. PICK a \in ArgSet : a = Arg(item.width, <<>>) /\ a.int = item.width
  <2>1. Arg(item.width, <<>>) \in ArgSet
    <3>1. <<>> \in Seq(Alphabet)
      BY EmptySeq, Zenon
    <3> QED
      BY <1>0, <3>1 DEF Arg, ArgSet
  <2>2. Arg(item.width, <<>>).int = item.width
    BY DEF Arg
  <2> QED
    BY <2>1, <2>2
<1>7. args = <<a>> \o r
  BY <1>3, <1>5, <1>6, Zenon DEF WidthStage, WidthArg
<1>8. Head(args) = a /\ Tail(args) = r
  BY <1>7, HeadOfArgs
<1>9. PICK n \in Int : n = item.width /\ n >= -IntMax /\ n <= IntMax
  BY <1>4
<1>10. /\ spec' = [spec EXCEPT !.width = IF n < 0 THEN 0 - n ELSE n,
                               !.flags = IF n < 0 THEN @ \cup {"-"} ELSE @]
       /\ pos' = pos + 1 /\ stage' = "prec" /\ args' = r
  BY <1>6, <1>8, <1>9 DEF WidthStar, Parsed
<1>11. PICK f : f = FlagsTo(item, Len(item.flags))
  OBVIOUS
<1>12. PICK flags : flags = IF n < 0 THEN f \cup {"-"} ELSE f
  OBVIOUS
<1>13. PICK width \in Nat : width = IF n < 0 THEN 0 - n ELSE n
  OBVIOUS
<1>14. spec' = [flags |-> flags, width |-> width, prec |-> None, length |-> "none"]
  <2>1. spec = [flags |-> f, width |-> None, prec |-> None, length |-> "none"]
    BY <1>11 DEF WidthStage, NoSpec
  <2> QED
    BY <1>10, <1>12, <1>13, <2>1
<1>15. FlagsRead(flags, item)
  <2>1. \A c : c \in f <=> HasFlag(item, c)
    BY <1>11, FlagSetIs
  <2>2. LeftAligned(item) <=> HasFlag(item, "-") \/ n < 0
    BY <1>3, <1>9 DEF LeftAligned
  <2> QED
    BY <1>12, <2>1, <2>2 DEF FlagsRead
<1>16. WidthIs(width, item)
  <2>1. Width(item) = width
    BY <1>3, <1>9, <1>13 DEF Width
  <2>2. width # None
    BY NoneIs
  <2> QED
    BY <1>3, <2>1, <2>2 DEF WidthIs
<1>17. pos' = PrecAt(s, item)
  BY <1>1, <1>2, <1>3, <1>10
<1> QED
  BY <1>5, <1>9, <1>10, <1>14, <1>15, <1>16, <1>17 DEF PrecStage, SpecIs

LEMMA WidthNumberStep ==
  ASSUME NEW item \in Item, NEW s \in Nat, Parsable(item, s), NEW rest \in Seq(ArgSet),
         WidthStage(item, s, rest), Stage("width"), IsWidth
  PROVE  /\ WidthNumber => PrecStage(item, s, rest)'
         /\ WidthTooLarge => ~IsGood(item)
<1>0. IsWritten(item) /\ item.conv # "text" /\ item.width \in Int
  BY DEF Parsable, Item
<1>1. pos = WidthAt(s, item) /\ IsDigit(Char(pos)) /\ Char(pos) # "0"
  BY DEF WidthStage, IsWidth
<1>2. "*" \notin DigitChars
  BY DEF DigitChars
<1>3. WidthShown(s, item)
  BY ShownAll
<1>4. item.width # None /\ "width" \notin item.star
  BY <1>1, <1>2, <1>3 DEF WidthShown, IsDigit
<1>5. NumberEnd(pos) = PrecAt(s, item) /\ NumberAt(pos) = item.width
  BY <1>1, <1>3, <1>4 DEF WidthShown
<1>6. item.width \in Nat \ {0}
  BY <1>0, <1>4 DEF IsWritten
<1>7. PICK n \in Nat : n = item.width
  BY <1>6
<1>8. ASSUME WidthTooLarge PROVE ~IsGood(item)
  <2>1. n > IntMax
    BY <1>5, <1>7, <1>8 DEF WidthTooLarge
  <2> QED
    BY <1>7, <2>1, NoneIs DEF IsGood
<1>9. ASSUME WidthNumber PROVE PrecStage(item, s, rest)'
  <2>1. PICK f : f = FlagsTo(item, Len(item.flags))
    OBVIOUS
  <2>2. spec = [flags |-> f, width |-> None, prec |-> None, length |-> "none"]
    BY <2>1 DEF WidthStage, NoSpec
  <2>3. spec' = [spec EXCEPT !.width = n] /\ pos' = PrecAt(s, item) /\ stage' = "prec"
        /\ args' = args /\ n <= IntMax
    BY <1>5, <1>7, <1>9 DEF WidthNumber, Parsed
  <2>4. spec' = [flags |-> f, width |-> n, prec |-> None, length |-> "none"]
    BY <2>2, <2>3
  <2>5. FlagsRead(f, item)
    BY <1>7, <2>1, FlagsReadIs
  <2>6. WidthIs(n, item)
    <3>1. Width(item) = n
      BY <1>4, <1>7 DEF Width
    <3>2. n # None
      BY NoneIs
    <3> QED
      BY <1>4, <3>1, <3>2 DEF WidthIs
  <2>7. args = PrecArg(item) \o (OwnArg(item) \o rest)
    <3>1. PrecArg(item) \in Seq(ArgSet) /\ OwnArg(item) \in Seq(ArgSet)
      BY ArgumentsAre
    <3>2. OwnArg(item) \o rest \in Seq(ArgSet)
      BY <3>1, ConcatLen
    <3>3. PrecArg(item) \o (OwnArg(item) \o rest) \in Seq(ArgSet)
      BY <3>1, <3>2, ConcatLen
    <3>4. WidthArg(item) = <<>>
      BY <1>4 DEF WidthArg
    <3> QED
      BY <3>3, <3>4, NoArgs DEF WidthStage
  <2> QED
    BY <1>7, <2>3, <2>4, <2>5, <2>6, <2>7 DEF PrecStage, SpecIs
<1> QED
  BY <1>8, <1>9

LEMMA NoWidthStep ==
  ASSUME NEW item \in Item, NEW s \in Nat, Parsable(item, s), NEW rest \in Seq(ArgSet),
         WidthStage(item, s, rest), NoWidth
  PROVE  PrecStage(item, s, rest)'
<1>0. IsWritten(item) /\ item.conv # "text" /\ item.width \in Int
  BY DEF Parsable, Item
<1>1. pos = WidthAt(s, item) /\ Char(pos) # "*" /\ ~IsWidth
  BY DEF WidthStage, NoWidth
<1>3. WidthShown(s, item)
  BY ShownAll
<1>4. item.width = None /\ PrecAt(s, item) = pos
  BY <1>1, <1>3 DEF WidthShown, IsWidth
<1>5. "width" \notin item.star
  BY <1>0, <1>4, WidthArgIs
<1>6. PICK f : f = FlagsTo(item, Len(item.flags))
  OBVIOUS
<1>7. SpecIs(f, None, None, "none")'
  <2>1. spec = [flags |-> f, width |-> None, prec |-> None, length |-> "none"]
    BY <1>6 DEF WidthStage, NoSpec
  <2>2. spec' = spec
    BY DEF NoWidth, Parsed
  <2> QED
    BY <2>1, <2>2 DEF SpecIs
<1>8. FlagsRead(f, item)
  BY <1>4, <1>6, FlagsReadIs
<1>9. WidthIs(None, item)
  BY <1>4 DEF WidthIs, Width
<1>10. args = PrecArg(item) \o (OwnArg(item) \o rest)
  <2>1. PrecArg(item) \in Seq(ArgSet) /\ OwnArg(item) \in Seq(ArgSet)
    BY ArgumentsAre
  <2>2. OwnArg(item) \o rest \in Seq(ArgSet)
    BY <2>1, ConcatLen
  <2>3. PrecArg(item) \o (OwnArg(item) \o rest) \in Seq(ArgSet)
    BY <2>1, <2>2, ConcatLen
  <2>4. WidthArg(item) = <<>>
    BY <1>5 DEF WidthArg
  <2> QED
    BY <2>3, <2>4, NoArgs DEF WidthStage
<1>11. pos' = pos /\ stage' = "prec" /\ args' = args
  BY DEF NoWidth, Parsed
<1>12. item.width <= IntMax
  BY <1>4, NoneIs
<1> QED
  BY <1>4, <1>7, <1>8, <1>9, <1>10, <1>11, <1>12 DEF PrecStage

\* The precision.
LEMMA OwnRest ==
  ASSUME NEW item \in Item, NEW rest \in Seq(ArgSet)
  PROVE  OwnArg(item) \o rest \in Seq(ArgSet)
<1>1. OwnArg(item) \in Seq(ArgSet)
  BY ArgumentsAre
<1> QED
  BY <1>1, ConcatLen

\* The precision has been read.
PrecRead(item, s, rest) ==
  /\ stage' = "length" /\ pos' = LengthAt(s, item)
  /\ item.prec <= IntMax
  /\ \E prec : spec' = [spec EXCEPT !.prec = prec] /\ PrecIs(prec, item)
  /\ args' = OwnArg(item) \o rest

LEMMA PrecReadStep ==
  ASSUME NEW item \in Item, NEW s \in Nat, NEW rest \in Seq(ArgSet),
         PrecStage(item, s, rest), PrecRead(item, s, rest)
  PROVE  LengthStage(item, s, rest)'
<1>1. PICK flags, width :
        SpecIs(flags, width, None, "none") /\ FlagsRead(flags, item) /\ WidthIs(width, item)
  BY DEF PrecStage
<1>2. PICK prec : spec' = [spec EXCEPT !.prec = prec] /\ PrecIs(prec, item)
  BY DEF PrecRead
<1>3. SpecIs(flags, width, prec, "none")'
  <2>1. spec = [flags |-> flags, width |-> width, prec |-> None, length |-> "none"]
    BY <1>1 DEF SpecIs
  <2>2. spec' = [flags |-> flags, width |-> width, prec |-> prec, length |-> "none"]
    BY <1>2, <2>1
  <2> QED
    BY <2>2 DEF SpecIs
<1>4. item.width <= IntMax
  BY DEF PrecStage
<1> QED
  BY <1>1, <1>2, <1>3, <1>4 DEF LengthStage, PrecRead

\* The specification has no precision before it is read.
LEMMA NoPrecYet ==
  ASSUME NEW item, NEW s, NEW rest, PrecStage(item, s, rest)
  PROVE  spec = [spec EXCEPT !.prec = None]
<1>1. PICK flags, width : SpecIs(flags, width, None, "none")
  BY DEF PrecStage
<1>2. spec = [flags |-> flags, width |-> width, prec |-> None, length |-> "none"]
  BY <1>1 DEF SpecIs
<1> QED
  BY <1>2

LEMMA PrecStarStep ==
  ASSUME NEW item \in Item, NEW s \in Nat, Parsable(item, s), NEW rest \in Seq(ArgSet),
         PrecStage(item, s, rest), PrecStar
  PROVE  PrecRead(item, s, rest)
<1>0. IsWritten(item) /\ item.conv # "text" /\ item.prec \in Int
  BY DEF Parsable, Item
<1>1. PICK p \in Nat : p = PrecAt(s, item)
  BY DEF Parsable, Placed
<1>2. pos = p /\ Char(p) = "." /\ Char(p + 1) = "*"
  BY <1>1 DEF PrecStage, PrecStar
<1>3. PrecShown(s, item)
  BY ShownAll
<1>4. item.prec # None
  BY <1>1, <1>2, <1>3 DEF PrecShown
<1>5. "*" \notin DigitChars
  BY DEF DigitChars
<1>6. "prec" \in item.star
  BY <1>1, <1>2, <1>3, <1>4, <1>5 DEF PrecShown, IsDigit
<1>7. LengthAt(s, item) = p + 2
  BY <1>1, <1>3, <1>4, <1>6 DEF PrecShown
<1>8. item.prec \in -IntMax .. IntMax
  BY <1>0, <1>6, WidthArgIs
<1>9. PICK r \in Seq(ArgSet) : r = OwnArg(item) \o rest
  BY OwnRest
<1>10. PICK a \in ArgSet : a = Arg(item.prec, <<>>) /\ a.int = item.prec
  <2>1. Arg(item.prec, <<>>) \in ArgSet
    <3>1. <<>> \in Seq(Alphabet)
      BY EmptySeq, Zenon
    <3> QED
      BY <1>0, <3>1 DEF Arg, ArgSet
  <2>2. Arg(item.prec, <<>>).int = item.prec
    BY DEF Arg
  <2> QED
    BY <2>1, <2>2
<1>11. args = <<a>> \o r
  BY <1>6, <1>9, <1>10, Zenon DEF PrecStage, PrecArg
<1>12. Head(args) = a /\ Tail(args) = r
  BY <1>11, HeadOfArgs
<1>13. PICK n \in Int : n = item.prec /\ n <= IntMax
  BY <1>8, NoneIs
<1>14. PICK prec : prec = IF n < 0 THEN None ELSE n
  OBVIOUS
<1>15. spec' = [spec EXCEPT !.prec = prec] /\ pos' = pos + 2 /\ stage' = "length" /\ args' = r
  BY <1>10, <1>12, <1>13, <1>14 DEF PrecStar, Parsed
<1>16. PrecIs(prec, item)
  <2>1. HasPrec(item) <=> n >= 0
    BY <1>4, <1>13 DEF HasPrec
  <2>2. None < 0 /\ None \in Int
    BY NoneIs
  <2> QED
    BY <1>13, <1>14, <2>1, <2>2 DEF PrecIs
<1>17. pos' = LengthAt(s, item)
  BY <1>2, <1>7, <1>15
<1> QED
  BY <1>9, <1>13, <1>15, <1>16, <1>17, Zenon DEF PrecRead

\* The arguments when the precision is in the format.
LEMMA NoPrecArg ==
  ASSUME NEW item \in Item, NEW s, NEW rest \in Seq(ArgSet),
         PrecStage(item, s, rest), "prec" \notin item.star
  PROVE  args = OwnArg(item) \o rest
<1>1. PICK r \in Seq(ArgSet) : r = OwnArg(item) \o rest
  BY OwnRest
<1>2. args = <<>> \o r
  BY <1>1, Zenon DEF PrecStage, PrecArg
<1> QED
  BY <1>1, <1>2, NoArgs

LEMMA PrecNumberStep ==
  ASSUME NEW item \in Item, NEW s \in Nat, Parsable(item, s), NEW rest \in Seq(ArgSet),
         PrecStage(item, s, rest), Char(pos) = ".", IsDigit(Char(pos + 1))
  PROVE  /\ PrecNumber => PrecRead(item, s, rest)
         /\ PrecTooLarge => ~IsGood(item)
<1>0. IsWritten(item) /\ item.conv # "text" /\ item.prec \in Int
  BY DEF Parsable, Item
<1>1. PICK p \in Nat : p = PrecAt(s, item)
  BY DEF Parsable, Placed
<1>2. pos = p /\ Char(p) = "." /\ IsDigit(Char(p + 1))
  BY <1>1 DEF PrecStage
<1>3. PrecShown(s, item)
  BY ShownAll
<1>4. "*" \notin DigitChars
  BY DEF DigitChars
<1>5. item.prec # None /\ "prec" \notin item.star /\ item.prec # 0
  BY <1>1, <1>2, <1>3, <1>4 DEF PrecShown, IsDigit
<1>6. NumberEnd(pos + 1) = LengthAt(s, item) /\ NumberAt(pos + 1) = item.prec
  BY <1>1, <1>2, <1>3, <1>5 DEF PrecShown
<1>7. PICK n \in Nat : n = item.prec
  BY <1>0, <1>5 DEF IsWritten
<1>8. ASSUME PrecTooLarge PROVE ~IsGood(item)
  <2>1. n > IntMax
    BY <1>6, <1>7, <1>8 DEF PrecTooLarge
  <2> QED
    BY <1>7, <2>1, NoneIs DEF IsGood
<1>9. ASSUME PrecNumber PROVE PrecRead(item, s, rest)
  <2>1. /\ spec' = [spec EXCEPT !.prec = n] /\ pos' = LengthAt(s, item) /\ stage' = "length"
        /\ args' = args /\ n <= IntMax
    BY <1>6, <1>7, <1>9 DEF PrecNumber, Parsed
  <2>2. PrecIs(n, item)
    <3>1. HasPrec(item)
      BY <1>5, <1>7 DEF HasPrec
    <3>2. n # None
      BY NoneIs
    <3> QED
      BY <1>7, <3>1, <3>2 DEF PrecIs
  <2>3. args = OwnArg(item) \o rest
    BY <1>5, NoPrecArg
  <2> QED
    BY <1>7, <2>1, <2>2, <2>3, Zenon DEF PrecRead
<1> QED
  BY <1>8, <1>9

LEMMA PrecZeroStep ==
  ASSUME NEW item \in Item, NEW s \in Nat, Parsable(item, s), NEW rest \in Seq(ArgSet),
         PrecStage(item, s, rest), PrecZero
  PROVE  PrecRead(item, s, rest)
<1>1. PICK p \in Nat : p = PrecAt(s, item)
  BY DEF Parsable, Placed
<1>2. pos = p /\ Char(p) = "." /\ ~IsDigit(Char(p + 1)) /\ Char(p + 1) # "*"
  BY <1>1 DEF PrecStage, PrecZero
<1>3. PrecShown(s, item)
  BY ShownAll
<1>4. item.prec # None /\ "prec" \notin item.star /\ item.prec = 0
  BY <1>1, <1>2, <1>3 DEF PrecShown
<1>5. LengthAt(s, item) = p + 1
  BY <1>1, <1>3, <1>4 DEF PrecShown
<1>6. spec' = [spec EXCEPT !.prec = 0] /\ pos' = pos + 1 /\ stage' = "length" /\ args' = args
  BY DEF PrecZero, Parsed
<1>7. PrecIs(0, item)
  <2>1. HasPrec(item)
    BY <1>4 DEF HasPrec
  <2> QED
    BY <1>4, <2>1 DEF PrecIs
<1>8. args = OwnArg(item) \o rest
  BY <1>4, NoPrecArg
<1>9. item.prec <= IntMax
  BY <1>4, NoneIs
<1>10. pos' = LengthAt(s, item)
  BY <1>2, <1>5, <1>6
<1> QED
  BY <1>6, <1>7, <1>8, <1>9, <1>10, Zenon DEF PrecRead

LEMMA NoPrecStep ==
  ASSUME NEW item \in Item, NEW s \in Nat, Parsable(item, s), NEW rest \in Seq(ArgSet),
         PrecStage(item, s, rest), NoPrec
  PROVE  PrecRead(item, s, rest)
<1>0. IsWritten(item) /\ item.conv # "text"
  BY DEF Parsable
<1>1. pos = PrecAt(s, item) /\ Char(pos) # "."
  BY DEF PrecStage, NoPrec
<1>2. PrecShown(s, item)
  BY ShownAll
<1>3. item.prec = None /\ LengthAt(s, item) = pos
  BY <1>1, <1>2 DEF PrecShown
<1>4. "prec" \notin item.star
  BY <1>0, <1>3, WidthArgIs
<1>5. spec' = [spec EXCEPT !.prec = None]
  <2>1. spec' = spec
    BY DEF NoPrec, Parsed
  <2> QED
    BY <2>1, NoPrecYet
<1>6. pos' = pos /\ stage' = "length" /\ args' = args
  BY DEF NoPrec, Parsed
<1>7. PrecIs(None, item)
  BY <1>3 DEF PrecIs, HasPrec
<1>8. args = OwnArg(item) \o rest
  BY <1>4, NoPrecArg
<1>9. item.prec <= IntMax
  BY <1>3, NoneIs
<1> QED
  BY <1>3, <1>5, <1>6, <1>7, <1>8, <1>9, Zenon DEF PrecRead
-----------------------------------------------------------------------------
\* The length.
LengthDone(item, s, rest) ==
  /\ stage' = "conv" /\ pos' = ConvAt(s, item)
  /\ spec' = [spec EXCEPT !.length = LengthRead(item)]
  /\ args' = args

LEMMA LengthDoneStep ==
  ASSUME NEW item \in Item, NEW s \in Nat, NEW rest \in Seq(ArgSet),
         LengthStage(item, s, rest), LengthDone(item, s, rest)
  PROVE  ConvStage(item, s, rest)'
<1>1. PICK flags, width, prec :
        /\ SpecIs(flags, width, prec, "none")
        /\ FlagsRead(flags, item) /\ WidthIs(width, item) /\ PrecIs(prec, item)
  BY DEF LengthStage
<1>2. PICK l : l = LengthRead(item)
  OBVIOUS
<1>3. spec = [flags |-> flags, width |-> width, prec |-> prec, length |-> "none"]
  BY <1>1 DEF SpecIs
<1>4. spec' = [spec EXCEPT !.length = l]
  BY <1>2 DEF LengthDone
<1>5. spec' = [flags |-> flags, width |-> width, prec |-> prec, length |-> l]
  BY <1>3, <1>4
<1>6. /\ spec'.flags = flags /\ spec'.width = width /\ spec'.prec = prec
      /\ spec'.length = l
  BY <1>5
<1>7. AsWritten(spec', item)
  BY <1>1, <1>2, <1>6, Zenon DEF AsWritten
<1>8. AsWritten(spec, item)'
  BY <1>7 DEF AsWritten, FlagsRead, WidthIs, PrecIs
<1>9. item.width <= IntMax /\ item.prec <= IntMax /\ args = OwnArg(item) \o rest
  BY DEF LengthStage
<1> QED
  BY <1>8, <1>9 DEF ConvStage, LengthDone

LEMMA LengthStep ==
  ASSUME NEW item \in Item, NEW s \in Nat, Parsable(item, s), NEW rest \in Seq(ArgSet),
         LengthStage(item, s, rest), Length
  PROVE  LengthDone(item, s, rest)
<1>1. PICK l \in Nat : l = LengthAt(s, item)
  BY DEF Parsable, Placed
<1>2. pos = l /\ Char(l) \in LengthChars
  BY <1>1 DEF LengthStage, Length
<1>3. LengthShown(s, item)
  BY ShownAll
<1>4. item.length \in {"none", "hh", "h", "l", "ll", "z"}
  <2>1. item.length \in DOMAIN Word
    BY DEF Item
  <2> QED
    BY <2>1, WordIs
<1>5. PICK q \in Nat : q = ConvAt(s, item)
  BY DEF Parsable, Placed
<1>6. item.length # "none"
  BY <1>1, <1>2, <1>3 DEF LengthShown
<1>7. PICK twice \in BOOLEAN : twice <=> Char(l) \in {"h", "l"} /\ Char(l + 1) = Char(l)
  OBVIOUS
<1>8. (twice <=> item.length \in {"hh", "ll"}) /\ q = (IF twice THEN l + 2 ELSE l + 1)
  <2>1. CASE item.length \in {"hh", "ll"}
    BY <1>1, <1>3, <1>5, <1>7, <2>1 DEF LengthShown
  <2>2. CASE item.length \in {"h", "l", "z"}
    BY <1>1, <1>3, <1>5, <1>7, <2>2 DEF LengthShown
  <2> QED
    BY <1>4, <1>6, <2>1, <2>2
<1>9. /\ Char(l) # "h" => LengthRead(item) = "none"
      /\ (Char(l) = "h" /\ twice) => LengthRead(item) = "hh"
      /\ (Char(l) = "h" /\ ~twice) => LengthRead(item) = "h"
  <2>1. CASE item.length = "hh"
    BY <1>1, <1>3, <1>8, <2>1 DEF LengthShown, LengthRead
  <2>2. CASE item.length = "ll"
    BY <1>1, <1>3, <1>8, <2>2 DEF LengthShown, LengthRead
  <2>3. CASE item.length \in {"h", "l", "z"}
    BY <1>1, <1>3, <1>8, <2>3 DEF LengthShown, LengthRead
  <2> QED
    BY <1>4, <1>6, <2>1, <2>2, <2>3
<1>10. PICK flags, width, prec : SpecIs(flags, width, prec, "none")
  BY DEF LengthStage
<1>11. spec = [flags |-> flags, width |-> width, prec |-> prec, length |-> "none"]
  BY <1>10 DEF SpecIs
<1>12. /\ spec' = [spec EXCEPT !.length = IF Char(l) # "h" THEN "none"
                                           ELSE IF twice THEN "hh" ELSE "h"]
       /\ pos' = (IF twice THEN l + 2 ELSE l + 1) /\ stage' = "conv" /\ args' = args
  <2>1. /\ spec' = [spec EXCEPT !.length = IF Char(l) # "h" THEN @
                                           ELSE IF twice THEN "hh" ELSE "h"]
        /\ pos' = (IF twice THEN l + 2 ELSE l + 1) /\ stage' = "conv" /\ args' = args
    BY <1>2, <1>7 DEF Length, Parsed
  <2>2. spec.length = "none"
    BY <1>11
  <2> QED
    BY <2>1, <2>2
<1>13. LengthRead(item) = IF Char(l) # "h" THEN "none" ELSE IF twice THEN "hh" ELSE "h"
  BY <1>9
<1> QED
  BY <1>5, <1>8, <1>12, <1>13 DEF LengthDone

LEMMA NoLengthStep ==
  ASSUME NEW item \in Item, NEW s \in Nat, Parsable(item, s), NEW rest \in Seq(ArgSet),
         LengthStage(item, s, rest), NoLength
  PROVE  LengthDone(item, s, rest)
<1>1. PICK l \in Nat : l = LengthAt(s, item)
  BY DEF Parsable, Placed
<1>2. pos = l /\ Char(l) \notin LengthChars
  BY <1>1 DEF LengthStage, NoLength
<1>3. LengthShown(s, item)
  BY ShownAll
<1>4. item.length \in {"none", "hh", "h", "l", "ll", "z"}
  <2>1. item.length \in DOMAIN Word
    BY DEF Item
  <2> QED
    BY <2>1, WordIs
<1>5. "h" \in LengthChars /\ "l" \in LengthChars /\ "z" \in LengthChars
  BY DEF LengthChars
<1>6. item.length = "none"
  <2>1. item.length \notin {"hh", "ll"}
    BY <1>1, <1>2, <1>3, <1>5 DEF LengthShown
  <2>2. item.length \notin {"h", "l", "z"}
    BY <1>1, <1>2, <1>3, <1>5 DEF LengthShown
  <2> QED
    BY <1>4, <2>1, <2>2
<1>7. ConvAt(s, item) = l
  BY <1>1, <1>3, <1>6 DEF LengthShown
<1>8. PICK flags, width, prec : SpecIs(flags, width, prec, "none")
  BY DEF LengthStage
<1>9. spec = [flags |-> flags, width |-> width, prec |-> prec, length |-> "none"]
  BY <1>8 DEF SpecIs
<1>10. spec = [spec EXCEPT !.length = "none"]
  BY <1>9
<1>11. LengthRead(item) = "none"
  BY <1>6 DEF LengthRead
<1>12. spec' = spec /\ pos' = pos /\ stage' = "conv" /\ args' = args
  BY DEF NoLength, Parsed
<1> QED
  BY <1>2, <1>7, <1>10, <1>11, <1>12, Zenon DEF LengthDone

\* The end of a conversion.
LEMMA NoEndInside ==
  ASSUME NEW item \in Item, NEW s \in Nat, Parsable(item, s), NEW rest \in Seq(ArgSet),
         ReadingItem(item, s, rest)
  PROVE  pos \in s .. ConvAt(s, item)
<1>1. Placed(s, item)
  BY DEF Parsable
<1>2. PICK w \in Nat : w = WidthAt(s, item) /\ s + 1 <= w
  BY <1>1 DEF Placed
<1>3. PICK p \in Nat : p = PrecAt(s, item) /\ w <= p
  BY <1>1, <1>2 DEF Placed
<1>4. PICK l \in Nat : l = LengthAt(s, item) /\ p <= l
  BY <1>1, <1>3 DEF Placed
<1>5. PICK q \in Nat : q = ConvAt(s, item) /\ l <= q
  BY <1>1, <1>4 DEF Placed
<1>6. CASE FlagStage(item, s, rest)
  <2>1. PICK a \in Nat : a = Len(item.flags)
    BY FlagsTyped
  <2>2. PICK x \in 0 .. a : pos = s + 1 + x
    BY <1>6, <2>1 DEF FlagStage
  <2>3. w = s + 1 + a
    BY <1>2, <2>1 DEF WidthAt
  <2> QED
    BY <1>2, <1>3, <1>4, <1>5, <2>2, <2>3
<1>7. CASE WidthStage(item, s, rest)
  BY <1>2, <1>3, <1>4, <1>5, <1>7 DEF WidthStage
<1>8. CASE PrecStage(item, s, rest)
  BY <1>2, <1>3, <1>4, <1>5, <1>8 DEF PrecStage
<1>9. CASE LengthStage(item, s, rest)
  BY <1>2, <1>3, <1>4, <1>5, <1>9 DEF LengthStage
<1>10. CASE ConvStage(item, s, rest)
  BY <1>2, <1>3, <1>4, <1>5, <1>10 DEF ConvStage
<1> QED
  BY <1>6, <1>7, <1>8, <1>9, <1>10 DEF ReadingItem

LEMMA EndInSpecStep ==
  ASSUME NEW item \in Item, NEW s \in Nat, Parsable(item, s), NEW rest \in Seq(ArgSet),
         ReadingItem(item, s, rest), EndInSpec
  PROVE  ~IsGood(item)
<1>1. pos \in s .. ConvAt(s, item) /\ Char(pos) = NUL
  BY NoEndInside DEF EndInSpec
<1>2. item.conv # "none" => \A p \in s .. ConvAt(s, item) : Char(p) # NUL
  BY DEF Parsable
<1>3. item.conv = "none"
  BY <1>1, <1>2, Zenon
<1> QED
  BY <1>3 DEF IsGood, Known

\* The character of the conversion.
LEMMA ConversionRead ==
  ASSUME NEW item \in Item, NEW s \in Nat, Parsable(item, s), NEW rest \in Seq(ArgSet),
         ConvStage(item, s, rest), Stage("conv")
  PROVE  /\ Char(pos) = item.conv /\ item.conv # "text" /\ item.conv # "none"
         /\ item.width <= IntMax /\ item.prec <= IntMax
<1>1. pos = ConvAt(s, item) /\ Char(pos) # NUL
  BY DEF ConvStage, Stage
<1>2. Char(pos) = ConvChar(item)
  BY <1>1, ShownAll
<1>3. item.conv # "text" /\ item.width <= IntMax /\ item.prec <= IntMax
  BY DEF Parsable, ConvStage
<1> QED
  BY <1>1, <1>2, <1>3, Zenon DEF ConvChar

LEMMA BadConversionStep ==
  ASSUME NEW item \in Item, NEW s \in Nat, Parsable(item, s), NEW rest \in Seq(ArgSet),
         ConvStage(item, s, rest), BadConversion
  PROVE  ~IsGood(item)
<1>1. Char(pos) = item.conv /\ item.conv # "text"
  BY ConversionRead DEF BadConversion
<1>2. item.conv \notin ConversionChars
  BY <1>1 DEF BadConversion
<1> QED
  BY <1>1, <1>2 DEF IsGood, Known, ConversionChars

\* A conversion has been read whole.
Converted(item, s, rest) ==
  /\ IsGood(item)
  /\ PiecesAre(todo', item)
  /\ args' = rest
  /\ pos' = ConvAt(s, item) + 1 /\ literal' = pos' /\ pc' = "write"
  /\ stored' = IF item.conv = "n"
                 THEN Append(stored, SignedOf(written, Word[LengthRead(item)])) ELSE stored

LEMMA ConvertStep ==
  ASSUME NEW item \in Item, NEW s \in Nat, Parsable(item, s), NEW rest \in Seq(ArgSet),
         ConvStage(item, s, rest), Convert
  PROVE  Converted(item, s, rest)
<1>1. /\ Char(pos) = item.conv /\ item.conv # "text" /\ item.conv # "none"
      /\ item.width <= IntMax /\ item.prec <= IntMax
  BY ConversionRead DEF Convert
<1>2. item.conv \in ConversionChars
  BY <1>1 DEF Convert
<1>3. IsGood(item)
  BY <1>1, <1>2 DEF IsGood, Known, ConversionChars
<1>4. HasArgument(item) /\ AsWritten(spec, item)
  BY DEF Parsable, ConvStage
<1>5. (Conv(item.conv) = "%" <=> item.conv = "%") /\ (Conv(item.conv) = "n" <=> item.conv = "n")
  BY DEF Conv
<1>6. PICK c : c = Conv(item.conv)
  OBVIOUS
<1>7. PICK arg : arg = IF c = "%" THEN Arg(0, <<>>) ELSE Head(args)
  OBVIOUS
<1>8. /\ todo' = Pieces(c, arg)
      /\ args' = (IF c = "%" THEN args ELSE Tail(args))
      /\ stored' = (IF c = "n" THEN Append(stored, SignedOf(written, Word[spec.length]))
                    ELSE stored)
      /\ pos' = pos + 1 /\ literal' = pos + 1 /\ pc' = "write"
  BY <1>1, <1>6, <1>7, Zenon DEF Convert
<1>9. args = OwnArg(item) \o rest
  BY DEF ConvStage
<1>10. args' = rest /\ (item.conv # "%" => ArgOf(arg, item))
  <2>1. CASE item.conv = "%"
    <3>1. OwnArg(item) = <<>>
      BY <2>1 DEF OwnArg
    <3>2. args = rest
      BY <1>9, <3>1, NoArgs
    <3> QED
      BY <1>5, <1>6, <1>8, <2>1, <3>2
  <2>2. CASE item.conv # "%"
    <3>1. PICK a \in ArgSet : a = Arg(item.int, item.str)
      <4>1. item.int \in Int /\ item.str \in Seq(Alphabet) \cup {Null}
        BY DEF Item
      <4> QED
        BY <4>1 DEF Arg, ArgSet
    <3>2. OwnArg(item) = <<a>>
      BY <1>1, <2>2, <3>1, Zenon DEF OwnArg
    <3>3. args = <<a>> \o rest
      BY <1>9, <3>2
    <3>4. Head(args) = a /\ Tail(args) = rest
      BY <3>3, HeadOfArgs
    <3>5. args' = rest /\ arg = a
      BY <1>5, <1>6, <1>7, <1>8, <2>2, <3>4, Zenon
    <3>6. ArgOf(a, item)
      BY <3>1 DEF ArgOf, Arg
    <3> QED
      BY <3>5, <3>6
  <2> QED
    BY <2>1, <2>2
<1>11. PiecesAre(Pieces(c, arg), item)
  BY <1>1, <1>3, <1>4, <1>6, <1>10, PiecesMean
<1>12. PiecesAre(todo', item)
  BY <1>8, <1>11, Zenon
<1>13. spec.length = LengthRead(item)
  BY <1>4 DEF AsWritten
<1>14. stored' = IF item.conv = "n"
                   THEN Append(stored, SignedOf(written, Word[LengthRead(item)])) ELSE stored
  BY <1>5, <1>6, <1>8, <1>13, Zenon
<1>15. pos' = ConvAt(s, item) + 1 /\ literal' = pos'
  BY <1>8 DEF ConvStage
<1> QED
  BY <1>3, <1>8, <1>10, <1>12, <1>14, <1>15 DEF Converted

\* A step of the parser that reads part of a conversion.
ParseSome ==
  \/ Flag \/ NoFlag \/ WidthStar \/ WidthNumber \/ NoWidth
  \/ PrecStar \/ PrecNumber \/ PrecZero \/ NoPrec \/ Length \/ NoLength

ParseBad == WidthTooLarge \/ PrecTooLarge \/ BadConversion \/ EndInSpec

LEMMA StageIs ==
  ASSUME NEW item, NEW s, NEW rest, ReadingItem(item, s, rest)
  PROVE  /\ stage = "flags" => FlagStage(item, s, rest)
         /\ stage = "width" => WidthStage(item, s, rest)
         /\ stage = "prec" => PrecStage(item, s, rest)
         /\ stage = "length" => LengthStage(item, s, rest)
         /\ stage = "conv" => ConvStage(item, s, rest)
<1>1. CASE FlagStage(item, s, rest)
  BY <1>1 DEF FlagStage
<1>2. CASE WidthStage(item, s, rest)
  BY <1>2 DEF WidthStage
<1>3. CASE PrecStage(item, s, rest)
  BY <1>3 DEF PrecStage
<1>4. CASE LengthStage(item, s, rest)
  BY <1>4 DEF LengthStage
<1>5. CASE ConvStage(item, s, rest)
  BY <1>5 DEF ConvStage
<1> QED
  BY <1>1, <1>2, <1>3, <1>4, <1>5 DEF ReadingItem

LEMMA ParseSomeStep ==
  ASSUME NEW item \in Item, NEW s \in Nat, Parsable(item, s), NEW rest \in Seq(ArgSet),
         ReadingItem(item, s, rest), ParseSome
  PROVE  ReadingItem(item, s, rest)'
<1>1. CASE Flag
  <2>1. FlagStage(item, s, rest)
    BY <1>1, StageIs DEF Flag, Stage
  <2> QED
    BY <1>1, <2>1, FlagStep DEF ReadingItem
<1>2. CASE NoFlag
  <2>1. FlagStage(item, s, rest)
    BY <1>2, StageIs DEF NoFlag, Stage
  <2> QED
    BY <1>2, <2>1, NoFlagStep DEF ReadingItem
<1>3. CASE WidthStar
  <2>1. WidthStage(item, s, rest)
    BY <1>3, StageIs DEF WidthStar, Stage
  <2> QED
    BY <1>3, <2>1, WidthStarStep DEF ReadingItem
<1>4. CASE WidthNumber
  <2>1. Stage("width") /\ IsWidth
    BY <1>4 DEF WidthNumber
  <2>2. WidthStage(item, s, rest)
    BY <2>1, StageIs DEF Stage
  <2> QED
    BY <1>4, <2>1, <2>2, WidthNumberStep DEF ReadingItem
<1>5. CASE NoWidth
  <2>1. WidthStage(item, s, rest)
    BY <1>5, StageIs DEF NoWidth, Stage
  <2> QED
    BY <1>5, <2>1, NoWidthStep DEF ReadingItem
<1>6. CASE PrecStar \/ PrecNumber \/ PrecZero \/ NoPrec
  <2>1. PrecStage(item, s, rest)
    BY <1>6, StageIs DEF PrecStar, PrecNumber, PrecZero, NoPrec, Stage
  <2>2. ASSUME PrecNumber PROVE PrecRead(item, s, rest)
    <3>1. Char(pos) = "." /\ IsDigit(Char(pos + 1))
      BY <2>2 DEF PrecNumber
    <3> QED
      BY <2>1, <2>2, <3>1, PrecNumberStep
  <2>3. PrecRead(item, s, rest)
    BY <1>6, <2>1, <2>2, PrecStarStep, PrecZeroStep, NoPrecStep
  <2> QED
    BY <2>1, <2>3, PrecReadStep DEF ReadingItem
<1>7. CASE Length \/ NoLength
  <2>1. LengthStage(item, s, rest)
    BY <1>7, StageIs DEF Length, NoLength, Stage
  <2>2. LengthDone(item, s, rest)
    BY <1>7, <2>1, LengthStep, NoLengthStep
  <2> QED
    BY <2>1, <2>2, LengthDoneStep DEF ReadingItem
<1> QED
  BY <1>1, <1>2, <1>3, <1>4, <1>5, <1>6, <1>7 DEF ParseSome

LEMMA ParseBadStep ==
  ASSUME NEW item \in Item, NEW s \in Nat, Parsable(item, s), NEW rest \in Seq(ArgSet),
         ReadingItem(item, s, rest), ParseBad
  PROVE  ~IsGood(item)
<1>1. CASE WidthTooLarge
  <2>1. Stage("width") /\ IsWidth
    BY <1>1 DEF WidthTooLarge
  <2>2. WidthStage(item, s, rest)
    BY <2>1, StageIs DEF Stage
  <2> QED
    BY <1>1, <2>1, <2>2, WidthNumberStep
<1>2. CASE PrecTooLarge
  <2>1. Char(pos) = "." /\ IsDigit(Char(pos + 1))
    BY <1>2 DEF PrecTooLarge
  <2>2. PrecStage(item, s, rest)
    BY <1>2, StageIs DEF PrecTooLarge, Stage
  <2> QED
    BY <1>2, <2>1, <2>2, PrecNumberStep
<1>3. CASE BadConversion
  <2>1. ConvStage(item, s, rest)
    BY <1>3, StageIs DEF BadConversion, Stage
  <2> QED
    BY <1>3, <2>1, BadConversionStep
<1>4. CASE EndInSpec
  BY <1>4, EndInSpecStep
<1> QED
  BY <1>1, <1>2, <1>3, <1>4 DEF ParseBad

LEMMA ConvertReads ==
  ASSUME NEW item \in Item, NEW s \in Nat, Parsable(item, s), NEW rest \in Seq(ArgSet),
         ReadingItem(item, s, rest), Convert
  PROVE  Converted(item, s, rest)
<1>1. ConvStage(item, s, rest)
  BY StageIs DEF Convert, Stage
<1> QED
  BY <1>1, ConvertStep

-----------------------------------------------------------------------------
(***************************************************************************)
(* The inductive invariant: k items of the call its have been taken care   *)
(* of.                                                                     *)
(***************************************************************************)
\* How much of l characters has room in the buffer.
Kept(l) == IF l < Room(size) THEN l ELSE Room(size)

\* The text g has been handed to write_str or write_fd, and all went well.
Handed(g) ==
  /\ g \in Seq(Alphabet) /\ written = Len(g)
  /\ size # File => /\ room = Room(size) - Kept(Len(g))
                    /\ buffer = [i \in 0 .. Kept(Len(g)) - 1 |-> g[i + 1]]
  /\ size = File => file = g

Unpadded(its) == \A i \in 1 .. Len(its) : ~Padded(its[i])

\* A write has not written all: the file lacks a part.
Broken(its, k) ==
  /\ size = File /\ rc \in {"ERR", "END"} /\ file \in Seq(Alphabet) /\ written = Len(file)
  /\ todo \in Seq(PieceSet)
  /\ Len(file) + Len(Joined(todo)) < Len(Said(its, k))
  /\ Unpadded(its) => todo = <<>> /\ file = SubSeq(Said(its, k), 1, Len(file))

\* The parser has read j characters of the text that comes next.
Within(its, k, j) ==
  j > 0 => k < Len(its) /\ its[k + 1].conv = "text" /\ j < Len(its[k + 1].str)

Scanned(its, k, j) ==
  Said(its, k) \o (IF j = 0 THEN <<>> ELSE SubSeq(its[k + 1].str, 1, j))

ScanningAt(its, k, j) ==
  /\ pos = Here(its, k) + j /\ literal \in 1 .. pos
  /\ Within(its, k, j)
  /\ \E g : Handed(g) /\ g \o SubSeq(format, literal, pos - 1) = Scanned(its, k, j)

Scanning(its, k) ==
  pc = "format" /\ rc = "OK" /\ args = Rest(its, k) /\ \E j \in Nat : ScanningAt(its, k, j)

Parsing(its, k) ==
  /\ pc = "spec" /\ rc = "OK" /\ k < Len(its) /\ its[k + 1].conv # "text"
  /\ Handed(Said(its, k))
  /\ ReadingItem(its[k + 1], Here(its, k), Rest(its, k + 1))

WritingWell(its, k) ==
  /\ rc = "OK" /\ todo \in Seq(PieceSet)
  /\ \E g : Handed(g) /\ g \o Joined(todo) = Said(its, k)
  /\ Unpadded(its) => Checked(todo)

Writing(its, k) ==
  /\ pc = "write" /\ pos = Here(its, k) /\ literal = pos /\ args = Rest(its, k)
  /\ WritingWell(its, k) \/ Broken(its, k)

Finishing(its, k) ==
  /\ pc = "finish"
  /\ \/ rc = "OK" /\ k = Len(its) /\ Handed(Said(its, k))
     \/ rc = "ERR" /\ k < Len(its) /\ ~IsGood(its[k + 1]) /\ Handed(Said(its, k))
     \/ Broken(its, k)

CallIs(its) ==
  /\ items = its /\ GoodCall(its) /\ format = FormatOf(its)
  /\ size \in Nat \cup {File}

Done(its, k) ==
  \/ Scanning(its, k) \/ Parsing(its, k) \/ Writing(its, k) \/ Finishing(its, k)
  \/ pc = "done" /\ StringResult /\ FileResult

DoneUpTo(its, k) ==
  /\ CallIs(its) /\ k \in 0 .. GoodLen(its) /\ stored = StoredBy(its, k)
  /\ Done(its, k)

PrintfInv == \E its, k : DoneUpTo(its, k)
-----------------------------------------------------------------------------
\* The call stays the same.
LEMMA CallStays ==
  ASSUME NEW its, CallIs(its), UNCHANGED <<call, format>>
  PROVE  CallIs(its)'
BY DEF CallIs, call

\* What has been handed on, while nothing is written.
LEMMA HandedStays ==
  ASSUME NEW g, Handed(g), UNCHANGED <<call, output>>
  PROVE  Handed(g)'
BY DEF Handed, Kept, call, output

\* The next item is a text, and the format shows it.
TextNext(its, k) ==
  /\ its[k + 1].str \in Seq(Alphabet \ {"%"}) \ {<<>>}
  /\ Here(its, k + 1) = Here(its, k) + Len(its[k + 1].str)
  /\ \A i \in 1 .. Len(its[k + 1].str) : Char(Here(its, k) + i - 1) = its[k + 1].str[i]

\* The format reads as the items say.
LEMMA NextIs ==
  ASSUME NEW its, GoodCall(its), format = FormatOf(its), NEW c \in Nat, c = Len(its),
         NEW k \in 0 .. c
  PROVE  /\ Here(its, k) \in Nat \ {0}
         /\ k = c => Char(Here(its, k)) = NUL
         /\ k < c /\ its[k + 1].conv # "text" => Char(Here(its, k)) = "%"
         /\ k < c /\ its[k + 1].conv = "text" => TextNext(its, k)
<1>1. CASE k = c
  <2>1. Here(its, c) = Len(format) + 1 /\ Char(Here(its, c)) = NUL
    BY EndShown
  <2>2. PICK f \in Nat : f = Len(format)
    BY FormatTyped
  <2>3. PICK s : s = Here(its, k)
    OBVIOUS
  <2>4. s = f + 1 /\ Char(s) = NUL
    BY <1>1, <2>1, <2>2, <2>3, Zenon
  <2>5. Here(its, k) \in Nat \ {0}
    BY <2>3, <2>4
  <2>6. ~(k < c)
    BY <1>1
  <2> QED
    BY <2>3, <2>4, <2>5, <2>6, Zenon
<1>2. CASE k < c
  <2>1. PICK l \in 1 .. c : l = k + 1 /\ l - 1 = k
    BY <1>2
  <2>2. PICK item \in Item : item = its[l] /\ IsWritten(item)
    BY <2>1, ItemIs
  <2>3. PICK s \in Nat : s = Here(its, k) /\ s # 0 /\ Here(its, l) = s + Len(Rendered(item))
                         /\ Shows(s, Rendered(item))
    <3>1. /\ Here(its, l - 1) \in Nat \ {0}
          /\ Here(its, l) = Here(its, l - 1) + Len(Rendered(its[l]))
          /\ Shows(Here(its, l - 1), Rendered(its[l]))
      BY ItemShown
    <3>2. /\ Here(its, k) \in Nat \ {0}
          /\ Here(its, l) = Here(its, k) + Len(Rendered(item))
          /\ Shows(Here(its, k), Rendered(item))
      BY <2>1, <2>2, <3>1, Zenon
    <3> QED
      BY <3>2
  <2>4. ASSUME item.conv # "text" PROVE Char(s) = "%"
    <3>1. s = Here(its, l - 1)
      BY <2>1, <2>3, Zenon
    <3>2. Stands(s, item)
      BY <2>2, <2>4, <3>1, ItemStands
    <3> QED
      BY <3>2 DEF Stands
  <2>5. ASSUME item.conv = "text"
        PROVE  /\ item.str \in Seq(Alphabet \ {"%"}) \ {<<>>}
               /\ Here(its, l) = s + Len(item.str)
               /\ \A i \in 1 .. Len(item.str) : Char(s + i - 1) = item.str[i]
    <3>1. item.str \in Seq(Alphabet \ {"%"}) \ {<<>>}
      BY <2>2, <2>5 DEF IsWritten
    <3>2. Rendered(item) = item.str
      BY <2>5 DEF Rendered
    <3> QED
      BY <2>3, <3>1, <3>2, Zenon DEF Shows
  <2>6. k # c
    BY <1>2
  <2>7. Here(its, k) \in Nat \ {0}
    BY <2>3
  <2> QED
    BY <2>1, <2>2, <2>3, <2>4, <2>5, <2>6, <2>7, Zenon DEF TextNext
<1> QED
  BY <1>1, <1>2

\* What the character at the parser tells of the item.
LEMMA AtItem ==
  ASSUME NEW its, GoodCall(its), format = FormatOf(its), NEW c \in Nat, c = Len(its),
         NEW k \in 0 .. c, NEW j \in Nat, Within(its, k, j), NEW p, p = Here(its, k) + j
  PROVE  /\ Char(p) \in {"%", NUL} => j = 0
         /\ Char(p) = "%" => k < c /\ its[k + 1].conv # "text"
         /\ Char(p) = NUL => k = c
         /\ Char(p) \notin {"%", NUL} =>
              /\ k < c /\ its[k + 1].conv = "text" /\ j + 1 <= Len(its[k + 1].str)
              /\ Char(p) = its[k + 1].str[j + 1]
<1>1. PICK s \in Nat : s = Here(its, k)
  BY NextIs
<1>2. p = s + j
  BY <1>1
<1>3. "%" # NUL
  BY DEF NUL
<1>4. CASE k = c
  <2>1. j = 0
    BY <1>4 DEF Within
  <2>2. Char(p) = NUL
    BY <1>1, <1>2, <1>4, <2>1, NextIs
  <2> QED
    BY <1>3, <1>4, <2>1, <2>2
<1>5. CASE k < c /\ its[k + 1].conv # "text"
  <2>1. j = 0
    BY <1>5 DEF Within
  <2>2. Char(p) = "%"
    BY <1>1, <1>2, <1>5, <2>1, NextIs
  <2> QED
    BY <1>3, <1>5, <2>1, <2>2
<1>6. CASE k < c /\ its[k + 1].conv = "text"
  <2>1. PICK t : t = its[k + 1].str
    OBVIOUS
  <2>2. /\ t \in Seq(Alphabet \ {"%"}) \ {<<>>}
        /\ \A i \in 1 .. Len(t) : Char(s + i - 1) = t[i]
    <3>1. /\ its[k + 1].str \in Seq(Alphabet \ {"%"}) \ {<<>>}
          /\ \A i \in 1 .. Len(its[k + 1].str) : Char(Here(its, k) + i - 1) = its[k + 1].str[i]
      <4>1. TextNext(its, k)
        BY <1>6, NextIs
      <4> QED
        BY <4>1, Zenon DEF TextNext
    <3> QED
      BY <1>1, <2>1, <3>1, Zenon
  <2>3. PICK d \in Nat : d = Len(t) /\ d > 0
    BY <2>2
  <2>4. j + 1 \in 1 .. d
    BY <1>6, <2>1, <2>3 DEF Within
  <2>5. Char(p) = t[j + 1]
    <3>1. s + (j + 1) - 1 = p
      BY <1>2
    <3> QED
      BY <2>2, <2>3, <2>4, <3>1
  <2>6. t[j + 1] \in Alphabet \ {"%"}
    BY <2>2, <2>3, <2>4
  <2>7. NUL \notin Alphabet
    BY AlphabetAssumption DEF NUL
  <2>8. Char(p) \notin {"%", NUL}
    BY <2>5, <2>6, <2>7
  <2> QED
    BY <1>6, <2>1, <2>3, <2>4, <2>5, <2>8
<1> QED
  BY <1>4, <1>5, <1>6

-----------------------------------------------------------------------------
(***************************************************************************)
(* The loop of vprintf_shared.                                             *)
(***************************************************************************)
LEMMA OneMore ==
  ASSUME NEW S, NEW f \in Seq(S), NEW a \in Nat, a >= 1, NEW b \in Nat, a <= b, b <= Len(f)
  PROVE  /\ SubSeq(f, a, b) = SubSeq(f, a, b - 1) \o <<f[b]>>
         /\ SubSeq(f, a, b - 1) \in Seq(S) /\ <<f[b]>> \in Seq(S)
<1>1. PICK c \in Nat : c = Len(f) /\ b <= c
  OBVIOUS
<1>2. \A i \in 1 .. c : f[i] \in S
  BY <1>1
<1>3. f[b] \in S
  BY <1>1, <1>2
<1>4. SubSeq(f, a, b - 1) \in Seq(S)
  BY <1>1
<1>5. SubSeq(f, a, b) = SubSeq(f, a, b - 1) \o <<f[b]>>
  BY <1>1, <1>2
<1> QED
  BY <1>3, <1>4, <1>5

LEMMA WholeText ==
  ASSUME NEW S, NEW t \in Seq(S), NEW d \in Nat, d = Len(t)
  PROVE  SubSeq(t, 1, d) = t
OBVIOUS

LEMMA NothingBehind == \A S : \A t \in Seq(S) : t \o <<>> = t
OBVIOUS

LEMMA PartTyped ==
  ASSUME NEW S, NEW t \in Seq(S), NEW a \in Nat, a >= 1, NEW b \in Int, b <= Len(t)
  PROVE  SubSeq(t, a, b) \in Seq(S)
OBVIOUS

Associates(s, t, u) == s \o (t \o u) = (s \o t) \o u

LEMMA Regroup ==
  ASSUME NEW s \in Seq(Alphabet), NEW t \in Seq(Alphabet), NEW u \in Seq(Alphabet)
  PROVE  Associates(s, t, u)
BY DEF Associates

SameText(s, t, u, v) == s \o t = u \o v

LEMMA BothMore ==
  ASSUME NEW s \in Seq(Alphabet), NEW t \in Seq(Alphabet), NEW u \in Seq(Alphabet),
         NEW v \in Seq(Alphabet), NEW e \in Seq(Alphabet), SameText(s, t, u, v)
  PROVE  SameText(s, t \o e, u, v \o e)
<1>1. Associates(s, t, e)
  BY Regroup
<1>2. Associates(u, v, e)
  BY Regroup
<1> QED
  BY <1>1, <1>2, Zenon DEF SameText, Associates

\* A good item can be taken care of.
LEMMA GoodNext ==
  ASSUME NEW its, GoodCall(its), NEW k \in 0 .. GoodLen(its), k < Len(its), IsGood(its[k + 1])
  PROVE  k + 1 \in 0 .. GoodLen(its)
<1>1. its \in Seq(Item)
  BY DEF GoodCall
<1>2. PICK c \in Nat : c = Len(its)
  BY <1>1
<1>3. PICK m \in 0 .. c : m = GoodLen(its) /\ IsGoodLen(its, m)
  BY <1>1, <1>2, GoodPartIs
<1>4. k # m
  BY <1>2, <1>3 DEF IsGoodLen
<1> QED
  BY <1>3, <1>4

LEMMA BadNext ==
  ASSUME NEW its, GoodCall(its), NEW k \in 0 .. GoodLen(its), k < Len(its), ~IsGood(its[k + 1])
  PROVE  k = GoodLen(its)
<1>1. its \in Seq(Item)
  BY DEF GoodCall
<1>2. PICK c \in Nat : c = Len(its)
  BY <1>1
<1>3. PICK m \in 0 .. c : m = GoodLen(its) /\ IsGoodLen(its, m)
  BY <1>1, <1>2, GoodPartIs
<1>4. \A i \in 1 .. m : IsGood(its[i])
  BY <1>3 DEF IsGoodLen
<1>5. k + 1 \notin 1 .. m
  BY <1>4
<1> QED
  BY <1>3, <1>5

\* What changes when the next item has been taken care of.
Taken(its, k) ==
  /\ Said(its, k) \in Seq(Alphabet) /\ Said(its, k + 1) \in Seq(Alphabet)
  /\ Said(its, k + 1) = Said(its, k) \o Meaning(its[k + 1])
  /\ Rest(its, k) \in Seq(ArgSet) /\ Rest(its, k + 1) \in Seq(ArgSet)
  /\ Rest(its, k) = Arguments(its[k + 1]) \o Rest(its, k + 1)
  /\ its[k + 1].conv # "n" => StoredBy(its, k + 1) = StoredBy(its, k)
  /\ its[k + 1].conv = "n" =>
       StoredBy(its, k + 1) = Append(StoredBy(its, k), Len(Said(its, k)))

LEMMA TakenIs ==
  ASSUME NEW its, GoodCall(its), NEW k \in Nat, k + 1 \in 0 .. GoodLen(its)
  PROVE  Taken(its, k)
<1>1. its \in Seq(Item)
  BY DEF GoodCall
<1>2. PICK c \in Nat : c = Len(its)
  BY <1>1
<1>3. PICK m \in 0 .. c : m = GoodLen(its)
  BY <1>1, <1>2, GoodPartIs
<1>4. PICK l \in 1 .. m : l = k + 1
  BY <1>3
<1>5. l - 1 = k /\ k \in 0 .. m /\ l \in 0 .. m
  BY <1>4
<1>6. Said(its, k) \in Seq(Alphabet) /\ Said(its, l) \in Seq(Alphabet)
  BY <1>3, <1>5, SaidIs
<1>7. Said(its, l) = Said(its, l - 1) \o Meaning(its[l])
  <2>1. \A y \in 1 .. m : Said(its, y) = Said(its, y - 1) \o Meaning(its[y])
    <3>1. m \in Nat
      BY <1>3
    <3> QED
      BY <1>3, <3>1, SaidIs, Zenon
  <2> QED
    BY <2>1, Zenon
<1>8. l \in 1 .. c /\ k \in 0 .. c /\ l \in 0 .. c
  BY <1>4, <1>5
<1>9. Rest(its, k) \in Seq(ArgSet) /\ Rest(its, l) \in Seq(ArgSet)
  BY <1>2, <1>8, RestIs
<1>10. Rest(its, l - 1) = Arguments(its[l]) \o Rest(its, l)
  BY <1>2, <1>8, RestIs
<1>11. its[l].conv # "n" => StoredBy(its, l) = StoredBy(its, l - 1)
  BY <1>3, <1>4, StoredIs
<1>12. its[l].conv = "n" => StoredBy(its, l) = Append(StoredBy(its, l - 1), Len(Said(its, l - 1)))
  BY <1>3, <1>4, StoredIs
<1> QED
  BY <1>4, <1>5, <1>6, <1>7, <1>9, <1>10, <1>11, <1>12, Zenon DEF Taken

LEMMA TextIsGood ==
  ASSUME NEW item \in Item, IsWritten(item), item.conv = "text"
  PROVE  IsGood(item) /\ Meaning(item) = item.str /\ Arguments(item) = <<>>
<1>1. item.star = {} /\ item.width = None /\ item.prec = None
  BY DEF IsWritten
<1>2. IsGood(item)
  BY <1>1, NoneIs DEF IsGood, Known
<1>3. Meaning(item) = item.str
  BY DEF Meaning
<1>4. Arguments(item) = <<>> \o <<>> \o <<>>
  BY <1>1, Zenon DEF Arguments
<1>5. <<>> \o <<>> = <<>>
  OBVIOUS
<1> QED
  BY <1>2, <1>3, <1>4, <1>5

LEMMA ScanStep ==
  ASSUME NEW its, CallIs(its), NEW k \in 0 .. GoodLen(its), stored = StoredBy(its, k),
         Scanning(its, k), Scan
  PROVE  \E l \in 0 .. GoodLen(its) : stored' = StoredBy(its, l) /\ Scanning(its, l)'
<1>0. GoodCall(its) /\ format = FormatOf(its) /\ its \in Seq(Item)
  BY DEF CallIs, GoodCall
<1>1. PICK c \in Nat : c = Len(its)
  BY <1>0
<1>2. PICK j \in Nat : ScanningAt(its, k, j)
  BY DEF Scanning
<1>3. PICK s \in Nat : s = Here(its, k)
  BY <1>0, <1>1, NextIs, GoodPartIs
<1>4. PICK p \in Nat : p = pos /\ p = s + j
  BY <1>2, <1>3 DEF ScanningAt
<1>5. Char(p) \notin {"%", NUL}
  BY <1>4 DEF Scan
<1>6. k \in 0 .. c
  BY <1>0, <1>1, GoodPartIs
<1>7. /\ k < c /\ its[k + 1].conv = "text" /\ j + 1 <= Len(its[k + 1].str)
      /\ Char(p) = its[k + 1].str[j + 1]
  <2>1. Within(its, k, j) /\ p = Here(its, k) + j
    BY <1>2, <1>3, <1>4 DEF ScanningAt
  <2> QED
    BY <1>0, <1>1, <1>5, <1>6, <2>1, AtItem
<1>8. PICK item \in Item : item = its[k + 1] /\ IsWritten(item)
  <2>1. k + 1 \in 1 .. Len(its)
    BY <1>1, <1>7
  <2> QED
    BY <1>0, <2>1, ItemIs
<1>9. IsGood(item) /\ Meaning(item) = item.str /\ Arguments(item) = <<>>
  BY <1>7, <1>8, TextIsGood
<1>10. k + 1 \in 0 .. GoodLen(its)
  BY <1>0, <1>1, <1>7, <1>8, <1>9, GoodNext
<1>11. Taken(its, k)
  BY <1>0, <1>10, TakenIs
<1>12. PICK t \in Seq(Alphabet) : t = item.str
  <2>1. item.str \in Seq(Alphabet)
    BY <1>7, <1>8 DEF IsWritten
  <2> QED
    BY <2>1
<1>13. PICK d \in Nat : d = Len(t) /\ j + 1 <= d
  BY <1>7, <1>8, <1>12
<1>14. PICK said \in Seq(Alphabet) : said = Said(its, k)
  BY <1>11 DEF Taken
<1>15. PICK i \in Nat : i = j + 1
  OBVIOUS
<1>16. p \in 1 .. Len(format) /\ format[p] = t[i] /\ format \in Seq(Alphabet)
       /\ Len(format) \in Nat
  <2>1. format \in Seq(Alphabet) /\ Len(format) \in Nat
    BY <1>0, FormatTyped
  <2>2. p \in 1 .. Len(format) /\ Char(p) = format[p]
    BY <1>0, <1>5, CharTyped
  <2> QED
    BY <1>7, <1>8, <1>12, <1>15, <2>1, <2>2
<1>17. PICK a \in 1 .. p : a = literal
  BY <1>2, <1>4 DEF ScanningAt
<1>18. PICK g : Handed(g) /\ g \o SubSeq(format, a, p - 1) = Scanned(its, k, j)
  BY <1>2, <1>4, <1>17 DEF ScanningAt
<1>19. g \in Seq(Alphabet)
  BY <1>18 DEF Handed
<1>20. PICK u \in Seq(Alphabet) : u = SubSeq(format, a, p - 1)
  <2>1. PICK f \in Seq(Alphabet) : f = format
    BY <1>16
  <2>2. a \in Nat /\ a >= 1 /\ p - 1 \in Int /\ p - 1 <= Len(f)
    BY <1>16, <1>17, <2>1
  <2>3. SubSeq(f, a, p - 1) \in Seq(Alphabet)
    BY <2>2, PartTyped
  <2> QED
    BY <2>1, <2>3
<1>21. PICK e \in Seq(Alphabet) : e = <<t[i]>> /\ SubSeq(format, a, p) = u \o e
  <2>1. a \in Nat /\ a >= 1 /\ a <= p /\ p <= Len(format)
    BY <1>16, <1>17
  <2>2. /\ SubSeq(format, a, p) = SubSeq(format, a, p - 1) \o <<format[p]>>
        /\ <<format[p]>> \in Seq(Alphabet)
    <3>1. PICK f \in Seq(Alphabet) : f = format
      BY <1>16
    <3>2. a \in Nat /\ a >= 1 /\ a <= p /\ p <= Len(f)
      BY <2>1, <3>1
    <3>3. SubSeq(f, a, p) = SubSeq(f, a, p - 1) \o <<f[p]>> /\ <<f[p]>> \in Seq(Alphabet)
      BY <3>2, OneMore
    <3> QED
      BY <3>1, <3>3, Zenon
  <2> QED
    BY <1>16, <1>20, <2>2, Zenon
<1>22. PICK v \in Seq(Alphabet) : v = SubSeq(t, 1, j)
  <2>1. SubSeq(t, 1, j) \in Seq(Alphabet)
    BY <1>13, PartTyped
  <2> QED
    BY <2>1
<1>23. SubSeq(t, 1, i) = v \o e
  <2>1. SubSeq(t, 1, i) = SubSeq(t, 1, i - 1) \o <<t[i]>>
    BY <1>13, <1>15, OneMore
  <2>2. i - 1 = j
    BY <1>15
  <2> QED
    BY <1>21, <1>22, <2>1, <2>2, Zenon
<1>24. Scanned(its, k, j) = said \o v
  <2>1. CASE j = 0
    <3>1. v = <<>>
      BY <1>22, <2>1
    <3> QED
      BY <1>14, <2>1, <3>1, Zenon DEF Scanned
  <2>2. CASE j # 0
    BY <1>8, <1>12, <1>14, <1>22, <2>2, Zenon DEF Scanned
  <2> QED
    BY <2>1, <2>2
<1>25. g \o SubSeq(format, a, p) = said \o SubSeq(t, 1, i)
  <2>1. g \o u = said \o v
    BY <1>18, <1>20, <1>24, Zenon
  <2>2. g \o (u \o e) = said \o (v \o e)
    <3>1. SameText(g, u, said, v)
      BY <2>1 DEF SameText
    <3>2. SameText(g, u \o e, said, v \o e)
      BY <1>19, <3>1, BothMore
    <3> QED
      BY <3>2, Zenon DEF SameText
  <2> QED
    BY <1>21, <1>23, <2>2, Zenon
<1>26. /\ pos' = p + 1 /\ literal' = a /\ pc' = "format" /\ rc' = "OK" /\ args' = Rest(its, k)
       /\ stored' = StoredBy(its, k) /\ format' = format
  BY <1>4, <1>17 DEF Scan, Scanning
<1>27. Handed(g)'
  BY <1>18, HandedStays DEF Scan
<1>28. pos' - 1 = p /\ literal' \in 1 .. pos'
  BY <1>17, <1>26
<1>29. CASE i < d
  <2>1. Within(its, k, i)
    BY <1>1, <1>7, <1>8, <1>12, <1>13, <1>29 DEF Within
  <2>2. Scanned(its, k, i) = said \o SubSeq(t, 1, i)
    <3>1. i # 0
      BY <1>15
    <3> QED
      BY <1>8, <1>12, <1>14, <3>1, Zenon DEF Scanned
  <2>3. pos' = Here(its, k) + i
    BY <1>3, <1>4, <1>15, <1>26
  <2>4. Handed(g)' /\ g \o SubSeq(format', literal', pos' - 1) = Scanned(its, k, i)
    BY <1>25, <1>26, <1>27, <1>28, <2>2, Zenon
  <2>5. ScanningAt(its, k, i)'
    BY <1>28, <2>1, <2>3, <2>4 DEF ScanningAt
  <2> QED
    BY <1>15, <1>26, <2>5 DEF Scanning
<1>30. CASE i = d
  <2>1. PICK l \in 0 .. GoodLen(its) : l = k + 1
    BY <1>10
  <2>2. Within(its, l, 0)
    BY DEF Within
  <2>3. pos' = Here(its, l) + 0
    <3>1. TextNext(its, k)
      BY <1>0, <1>1, <1>6, <1>7, NextIs
    <3>2. Here(its, l) = s + d
      BY <1>3, <1>8, <1>12, <1>13, <2>1, <3>1, Zenon DEF TextNext
    <3> QED
      BY <1>4, <1>15, <1>26, <1>30, <3>2
  <2>4. Scanned(its, l, 0) = said \o SubSeq(t, 1, i)
    <3>1. SubSeq(t, 1, i) = t
      BY <1>13, <1>30, WholeText
    <3>2. Said(its, l) = said \o t /\ Said(its, l) \in Seq(Alphabet)
      BY <1>8, <1>9, <1>11, <1>12, <1>14, <2>1, Zenon DEF Taken
    <3>3. Scanned(its, l, 0) = Said(its, l) \o <<>>
      BY DEF Scanned
    <3>4. Said(its, l) \o <<>> = Said(its, l)
      BY <3>2, NothingBehind
    <3> QED
      BY <3>1, <3>2, <3>3, <3>4, Zenon
  <2>5. Handed(g)' /\ g \o SubSeq(format', literal', pos' - 1) = Scanned(its, l, 0)
    BY <1>25, <1>26, <1>27, <1>28, <2>4, Zenon
  <2>6. ScanningAt(its, l, 0)'
    BY <1>28, <2>2, <2>3, <2>5 DEF ScanningAt
  <2>7. Rest(its, l) = Rest(its, k)
    <3>1. Rest(its, k) = <<>> \o Rest(its, l) /\ Rest(its, l) \in Seq(ArgSet)
      BY <1>8, <1>9, <1>11, <2>1, Zenon DEF Taken
    <3> QED
      BY <3>1, NoArgs
  <2>8. StoredBy(its, l) = StoredBy(its, k)
    <3>1. its[k + 1].conv # "n"
      BY <1>7
    <3> QED
      BY <1>11, <2>1, <3>1, Zenon DEF Taken
  <2> QED
    BY <1>26, <2>1, <2>6, <2>7, <2>8 DEF Scanning
<1> QED
  BY <1>13, <1>15, <1>29, <1>30

LEMMA SaidTyped ==
  ASSUME NEW its, GoodCall(its), NEW k \in 0 .. GoodLen(its)
  PROVE  Said(its, k) \in Seq(Alphabet) /\ k \in 0 .. Len(its) /\ Len(its) \in Nat
<1>1. its \in Seq(Item)
  BY DEF GoodCall
<1>2. PICK m \in 0 .. Len(its) : m = GoodLen(its)
  BY <1>1, GoodPartIs
<1>3. m \in Nat /\ Len(its) \in Nat
  BY <1>1, <1>2
<1>4. Said(its, k) \in Seq(Alphabet)
  BY <1>2, <1>3, SaidIs
<1> QED
  BY <1>1, <1>2, <1>3, <1>4

\* The parser is between two items.
LEMMA Between ==
  ASSUME NEW its, CallIs(its), NEW k \in 0 .. GoodLen(its), Scanning(its, k),
         Char(pos) \in {"%", NUL}
  PROVE  /\ pos = Here(its, k) /\ pos \in Nat \ {0} /\ literal \in 1 .. pos
         /\ \E g : Handed(g) /\ g \o SubSeq(format, literal, pos - 1) = Said(its, k)
         /\ Char(pos) = "%" => k < Len(its) /\ its[k + 1].conv # "text"
         /\ Char(pos) = NUL => k = Len(its)
<1>0. GoodCall(its) /\ format = FormatOf(its)
  BY DEF CallIs
<1>1. PICK c \in Nat : c = Len(its) /\ k \in 0 .. c
  BY <1>0, SaidTyped
<1>2. PICK j \in Nat : ScanningAt(its, k, j)
  BY DEF Scanning
<1>3. PICK s \in Nat \ {0} : s = Here(its, k)
  BY <1>0, <1>1, NextIs
<1>4. PICK p \in Nat : p = pos /\ p = s + j
  BY <1>2, <1>3 DEF ScanningAt
<1>5. Within(its, k, j) /\ p = Here(its, k) + j
  BY <1>2, <1>3, <1>4 DEF ScanningAt
<1>6. j = 0
  <2>1. Char(p) \in {"%", NUL}
    BY <1>4
  <2> QED
    BY <1>0, <1>1, <1>5, <2>1, AtItem
<1>7. (Char(p) = "%" => k < c /\ its[k + 1].conv # "text") /\ (Char(p) = NUL => k = c)
  BY <1>0, <1>1, <1>5, AtItem
<1>8. Scanned(its, k, j) = Said(its, k)
  <2>1. Scanned(its, k, j) = Said(its, k) \o <<>>
    BY <1>6 DEF Scanned
  <2>2. Said(its, k) \in Seq(Alphabet)
    BY <1>0, SaidTyped
  <2> QED
    BY <2>1, <2>2, NothingBehind
<1>9. \E g : Handed(g) /\ g \o SubSeq(format, literal, pos - 1) = Said(its, k)
  BY <1>2, <1>8 DEF ScanningAt
<1>10. literal \in 1 .. pos
  BY <1>2 DEF ScanningAt
<1>11. p = s
  BY <1>4, <1>6
<1>12. pos = Here(its, k) /\ pos \in Nat \ {0}
  BY <1>3, <1>4, <1>11
<1> QED
  BY <1>1, <1>4, <1>7, <1>9, <1>10, <1>12, Zenon

LEMMA LiteralStep ==
  ASSUME NEW its, CallIs(its), NEW k \in 0 .. GoodLen(its), Scanning(its, k), Literal
  PROVE  Writing(its, k)' /\ stored' = stored
<1>0. GoodCall(its) /\ format = FormatOf(its)
  BY DEF CallIs
<1>1. Char(pos) \in {"%", NUL}
  BY DEF Literal
<1>2. PICK p \in Nat \ {0} : p = pos /\ p = Here(its, k)
  BY <1>1, Between
<1>3. PICK a \in 1 .. p : a = literal
  BY <1>1, <1>2, Between
<1>4. PICK g : Handed(g) /\ g \o SubSeq(format, a, p - 1) = Said(its, k)
  BY <1>1, <1>2, <1>3, Between
<1>5. PICK u \in Seq(Alphabet) : u = SubSeq(format, a, p - 1)
  <2>1. PICK f \in Seq(Alphabet) : f = format /\ Len(f) \in Nat
    BY <1>0, FormatTyped
  <2>2. p - 1 <= Len(f)
    <3>2. ASSUME p - 1 > Len(f) PROVE FALSE
      <4>1. PICK c \in Nat : c = Len(its) /\ k \in 0 .. c
        BY <1>0, SaidTyped
      <4>2. PICK l \in Nat : l = Len(f)
        BY <2>1
      <4>3. PICK b \in Seq(Alphabet) : b = Before(its, k)
        BY <1>0, <4>1, BeforeIs
      <4>4. PICK r \in Seq(Alphabet) : f = b \o r
        <5>1. Extended(Alphabet, Before(its, k), FormatOf(its))
          BY <1>0, <4>1, BeforeIs
        <5> QED
          BY <1>0, <2>1, <4>3, <5>1 DEF Extended
      <4>5. Len(f) = Len(b) + Len(r)
        BY <4>4, ConcatLen
      <4>6. p = Len(b) + 1
        BY <1>2, <4>3 DEF Here
      <4>7. PICK x \in Nat : x = Len(b)
        OBVIOUS
      <4>8. PICK y \in Nat : y = Len(r)
        OBVIOUS
      <4> QED
        BY <3>2, <4>2, <4>5, <4>6, <4>7, <4>8
    <3> QED
      BY <1>2, <2>1, <3>2
  <2>3. SubSeq(f, a, p - 1) \in Seq(Alphabet)
    BY <1>3, <2>2, PartTyped
  <2> QED
    BY <2>1, <2>3
<1>6. PICK t : t = <<Piece(u)>>
  OBVIOUS
<1>7. t \in Seq(PieceSet) /\ Joined(t) = u
  BY <1>6, JoinedOne DEF Piece
<1>8. Checked(t)
  <2>1. Len(t) = 1 /\ t[1].skip = 0
    BY <1>6 DEF Piece
  <2> QED
    BY <2>1 DEF Checked
<1>9. /\ todo' = t /\ literal' = pos /\ pos' = pos /\ pc' = "write" /\ args' = args
      /\ rc' = rc /\ stored' = stored
  BY <1>2, <1>3, <1>5, <1>6 DEF Literal
<1>10. Handed(g)'
  BY <1>4, HandedStays DEF Literal
<1>11. rc = "OK" /\ args = Rest(its, k)
  BY DEF Scanning
<1>12. g \o Joined(t) = Said(its, k)
  BY <1>4, <1>5, <1>7, Zenon
<1>13. WritingWell(its, k)'
  BY <1>7, <1>8, <1>9, <1>10, <1>11, <1>12 DEF WritingWell
<1> QED
  BY <1>2, <1>9, <1>11, <1>13 DEF Writing

\* All that the parser has read has been written.
LEMMA NothingRead ==
  ASSUME NEW its, CallIs(its), NEW k \in 0 .. GoodLen(its), Scanning(its, k),
         Char(pos) \in {"%", NUL}, literal = pos
  PROVE  Handed(Said(its, k))
<1>1. PICK p \in Nat \ {0} : p = pos
  BY Between
<1>2. PICK g : Handed(g) /\ g \o SubSeq(format, p, p - 1) = Said(its, k)
  BY <1>1, Between
<1>3. SubSeq(format, p, p - 1) = <<>>
  BY <1>1
<1>4. g \in Seq(Alphabet)
  BY <1>2 DEF Handed
<1>5. g = Said(its, k)
  BY <1>2, <1>3, <1>4, NothingBehind
<1> QED
  BY <1>2, <1>5

LEMMA RegroupArgs ==
  ASSUME NEW s \in Seq(ArgSet), NEW t \in Seq(ArgSet), NEW u \in Seq(ArgSet)
  PROVE  Associates(s, t, u)
BY DEF Associates

\* The arguments of an item come before those of the later ones.
InOrder(item, a, r) == a = WidthArg(item) \o (PrecArg(item) \o (OwnArg(item) \o r))

LEMMA ArgsNext ==
  ASSUME NEW its, GoodCall(its), NEW k \in Nat, k < Len(its), NEW item, item = its[k + 1]
  PROVE  /\ Rest(its, k + 1) \in Seq(ArgSet)
         /\ InOrder(item, Rest(its, k), Rest(its, k + 1))
<1>1. PICK c \in Nat : c = Len(its)
  BY DEF GoodCall
<1>2. PICK l \in 1 .. c : l = k + 1 /\ l - 1 = k
  BY <1>1
<1>3. item \in Item
  BY <1>1, <1>2, ItemIs
<1>4. PICK r \in Seq(ArgSet) : r = Rest(its, l)
  <2>1. l \in 0 .. c
    BY <1>2
  <2> QED
    BY <1>1, <2>1, RestIs
<1>5. Rest(its, l - 1) = Arguments(its[l]) \o Rest(its, l)
  BY <1>1, <1>2, RestIs
<1>6. PICK T : T = Seq(ArgSet)
  OBVIOUS
<1>7. PICK w \in Seq(ArgSet) : w = WidthArg(item)
  BY <1>3, ArgumentsAre
<1>8. PICK p \in Seq(ArgSet) : p = PrecArg(item)
  BY <1>3, ArgumentsAre
<1>9. PICK o \in Seq(ArgSet) : o = OwnArg(item)
  BY <1>3, ArgumentsAre
<1>10. Arguments(item) = w \o p \o o
  BY <1>3, <1>7, <1>8, <1>9, ArgumentsAre
<1>11. (w \o p \o o) \o r = w \o (p \o (o \o r))
  <2>1. Associates(w, p, o \o r)
    <3>1. o \o r \in Seq(ArgSet)
      BY ConcatLen
    <3> QED
      BY <3>1, RegroupArgs
  <2>2. Associates(w \o p, o, r)
    <3>1. w \o p \in Seq(ArgSet)
      BY ConcatLen
    <3> QED
      BY <3>1, RegroupArgs
  <2> QED
    BY <2>1, <2>2, Zenon DEF Associates
<1> QED
  BY <1>2, <1>4, <1>5, <1>7, <1>8, <1>9, <1>10, <1>11, Zenon DEF InOrder

LEMMA NoSpecIs ==
  ASSUME NEW f, f = {}
  PROVE  NoSpec = [NoSpec EXCEPT !.flags = f]
<1>1. PICK e : e = NoSpec
  OBVIOUS
<1>2. e = [flags |-> {}, width |-> None, prec |-> None, length |-> "none"]
  BY <1>1 DEF NoSpec
<1>3. [e EXCEPT !.flags = f] = [flags |-> {}, width |-> None, prec |-> None, length |-> "none"]
  BY <1>2
<1> QED
  BY <1>1, <1>2, <1>3, Zenon

LEMMA StartSpecStep ==
  ASSUME NEW its, CallIs(its), NEW k \in 0 .. GoodLen(its), Scanning(its, k), StartSpec
  PROVE  Parsing(its, k)' /\ stored' = stored
<1>0. GoodCall(its)
  BY DEF CallIs
<1>1. Char(pos) = "%" /\ literal = pos
  BY DEF StartSpec
<1>2. k < Len(its) /\ its[k + 1].conv # "text" /\ pos = Here(its, k) /\ pos \in Nat
  BY <1>1, Between
<1>3. Handed(Said(its, k))
  BY <1>1, NothingRead
<1>4. PICK g : g = Said(its, k)
  OBVIOUS
<1>5. Handed(g)'
  BY <1>3, <1>4, HandedStays DEF StartSpec
<1>6. PICK item : item = its[k + 1]
  OBVIOUS
<1>7. PICK s \in Nat : s = Here(its, k)
  BY <1>2
<1>8. PICK r \in Seq(ArgSet) : r = Rest(its, k + 1) /\ InOrder(item, Rest(its, k), r)
  <2>1. k \in Nat
    BY <1>0, SaidTyped
  <2>2. Rest(its, k + 1) \in Seq(ArgSet) /\ InOrder(item, Rest(its, k), Rest(its, k + 1))
    BY <1>0, <1>2, <1>6, <2>1, ArgsNext
  <2> QED
    BY <2>2
<1>9. /\ pos' = pos + 1 /\ stage' = "flags" /\ spec' = NoSpec /\ pc' = "spec" /\ rc' = rc
      /\ args' = args /\ stored' = stored
  BY DEF StartSpec
<1>10. NoSpec = [NoSpec EXCEPT !.flags = FlagsTo(item, 0)]
  <2>1. PICK f : f = FlagsTo(item, 0)
    OBVIOUS
  <2>2. f = {}
    BY <2>1 DEF FlagsTo
  <2>3. NoSpec = [NoSpec EXCEPT !.flags = f]
    BY <2>2, NoSpecIs
  <2> QED
    BY <2>1, <2>3, Zenon
<1>11. rc = "OK" /\ args = Rest(its, k)
  BY DEF Scanning
<1>12. FlagStage(item, s, r)'
  <2>1. 0 \in 0 .. Len(item.flags)
    <3>1. k + 1 \in 1 .. Len(its)
      BY <1>0, <1>2 DEF GoodCall
    <3>2. item \in Item
      BY <1>0, <1>6, <3>1, ItemIs
    <3> QED
      BY <3>2, FlagsTyped
  <2>2. pos' = s + 1 + 0
    BY <1>2, <1>7, <1>9
  <2>3. args' = WidthArg(item) \o (PrecArg(item) \o (OwnArg(item) \o r))
    BY <1>8, <1>9, <1>11 DEF InOrder
  <2> QED
    BY <1>9, <1>10, <2>1, <2>2, <2>3 DEF FlagStage
<1>13. ReadingItem(item, s, r)'
  BY <1>12 DEF ReadingItem
<1>14. Handed(Said(its, k))'
  BY <1>4, <1>5
<1>15. ReadingItem(its[k + 1], Here(its, k), Rest(its, k + 1))'
  BY <1>6, <1>7, <1>8, <1>13
<1> QED
  BY <1>2, <1>9, <1>11, <1>14, <1>15 DEF Parsing

LEMMA EndOfFormatStep ==
  ASSUME NEW its, CallIs(its), NEW k \in 0 .. GoodLen(its), Scanning(its, k), EndOfFormat
  PROVE  Finishing(its, k)' /\ stored' = stored
<1>1. Char(pos) = NUL /\ literal = pos
  BY DEF EndOfFormat
<1>2. k = Len(its)
  BY <1>1, Between
<1>3. PICK g : g = Said(its, k) /\ Handed(g)
  BY <1>1, NothingRead
<1>4. Handed(g)'
  BY <1>3, HandedStays DEF EndOfFormat
<1>5. rc = "OK"
  BY DEF Scanning
<1>6. pc' = "finish" /\ rc' = rc /\ stored' = stored
  BY DEF EndOfFormat
<1>7. Handed(Said(its, k))'
  BY <1>3, <1>4
<1> QED
  BY <1>2, <1>5, <1>6, <1>7 DEF Finishing

LEMMA ContinueStep ==
  ASSUME NEW its, CallIs(its), NEW k \in 0 .. GoodLen(its), Writing(its, k), Continue
  PROVE  (Scanning(its, k) \/ Finishing(its, k))' /\ stored' = stored
<1>0. GoodCall(its) /\ format = FormatOf(its)
  BY DEF CallIs
<1>1. /\ pc' = (IF rc = "OK" THEN "format" ELSE "finish") /\ todo = <<>>
      /\ UNCHANGED <<call, parser, todo, rc, output, stored, ret>>
  BY DEF Continue
<1>2. stored' = stored /\ rc' = rc /\ args' = args /\ pos' = pos /\ literal' = literal
      /\ format' = format
  BY <1>1 DEF parser
<1>3. CASE WritingWell(its, k)
  <2>1. PICK g : Handed(g) /\ g \o Joined(todo) = Said(its, k)
    BY <1>3 DEF WritingWell
  <2>2. Handed(g)' /\ g \in Seq(Alphabet)
    <3>1. Handed(g)'
      BY <1>1, <2>1, HandedStays
    <3> QED
      BY <2>1, <3>1 DEF Handed
  <2>3. g = Said(its, k)
    BY <1>1, <2>1, <2>2, JoinedNone, NothingBehind
  <2>4. PICK s \in Nat \ {0} : s = Here(its, k)
    BY <1>0, SaidTyped, NextIs
  <2>5. pos' = s /\ literal' = s
    BY <1>2, <2>4 DEF Writing
  <2>6. SubSeq(format', literal', pos' - 1) = <<>>
    BY <2>4, <2>5
  <2>7. g \o SubSeq(format', literal', pos' - 1) = Scanned(its, k, 0)
    <3>1. Scanned(its, k, 0) = Said(its, k) \o <<>>
      BY DEF Scanned
    <3> QED
      BY <2>3, <2>6, <3>1, Zenon
  <2>8. ScanningAt(its, k, 0)'
    <3>1. Within(its, k, 0)
      BY DEF Within
    <3>2. pos' = Here(its, k) + 0 /\ literal' \in 1 .. pos'
      BY <2>4, <2>5
    <3> QED
      BY <2>2, <2>7, <3>1, <3>2 DEF ScanningAt
  <2>9. rc = "OK"
    BY <1>3 DEF WritingWell
  <2>10. args = Rest(its, k)
    BY DEF Writing
  <2> QED
    BY <1>1, <1>2, <2>8, <2>9, <2>10 DEF Scanning
<1>4. CASE Broken(its, k)
  <2>1. Broken(its, k)'
    BY <1>1, <1>4 DEF Broken, call, output
  <2>2. rc # "OK"
    BY <1>4 DEF Broken
  <2> QED
    BY <1>1, <1>2, <2>1, <2>2 DEF Finishing
<1> QED
  BY <1>3, <1>4 DEF Writing

-----------------------------------------------------------------------------
(***************************************************************************)
(* vprintf_parse_spec, and what it is called for.                          *)
(***************************************************************************)
\* The parser is in the conversion item, which begins at s; rest are the
\* arguments behind it.
InConversion(its, k, item, s, rest) ==
  /\ item \in Item /\ item = its[k + 1] /\ k < Len(its) /\ item.conv # "text"
  /\ s \in Nat /\ s = Here(its, k)
  /\ rest \in Seq(ArgSet) /\ rest = Rest(its, k + 1)
  /\ Parsable(item, s) /\ ReadingItem(item, s, rest)
  /\ Here(its, k + 1) = ConvAt(s, item) + (IF item.conv = "none" THEN 0 ELSE 1)

LEMMA ConversionIs ==
  ASSUME NEW its, CallIs(its), NEW k \in 0 .. GoodLen(its), Parsing(its, k)
  PROVE  \E item, s, rest : InConversion(its, k, item, s, rest)
<1>0. GoodCall(its) /\ format = FormatOf(its)
  BY DEF CallIs
<1>1. PICK c \in Nat : c = Len(its) /\ k \in 0 .. c /\ k < c
  BY <1>0, SaidTyped DEF Parsing
<1>2. PICK l \in 1 .. c : l = k + 1 /\ l - 1 = k
  BY <1>1
<1>3. PICK item \in Item : item = its[l] /\ IsWritten(item) /\ HasArgument(item)
  BY <1>0, <1>1, <1>2, ItemIs
<1>4. item.conv # "text"
  BY <1>2, <1>3 DEF Parsing
<1>5. PICK s \in Nat : s = Here(its, k)
  BY <1>0, <1>1, NextIs
<1>6. s = Here(its, l - 1)
  BY <1>2, <1>5, Zenon
<1>7. /\ Placed(s, item) /\ Stands(s, item)
      /\ Here(its, l) = ConvAt(s, item) + (IF item.conv = "none" THEN 0 ELSE 1)
      /\ item.conv # "none" => \A p \in s .. ConvAt(s, item) : Char(p) # NUL
  BY <1>0, <1>1, <1>2, <1>3, <1>4, <1>6, ItemStands
<1>8. Parsable(item, s)
  <2>1. Len(format) \in Nat
    BY <1>0, FormatTyped
  <2> QED
    BY <1>3, <1>4, <1>7, <2>1, Zenon DEF Parsable
<1>9. PICK rest \in Seq(ArgSet) : rest = Rest(its, l)
  <2>1. l \in 0 .. c
    BY <1>2
  <2> QED
    BY <1>0, <1>1, <2>1, RestIs
<1>10. ReadingItem(item, s, rest)
  BY <1>2, <1>3, <1>5, <1>9 DEF Parsing
<1>11. k < Len(its)
  BY <1>1
<1>12. Here(its, k + 1) = ConvAt(s, item) + (IF item.conv = "none" THEN 0 ELSE 1)
  BY <1>2, <1>7, Zenon
<1>13. item = its[k + 1] /\ rest = Rest(its, k + 1)
  BY <1>2, <1>3, <1>9, Zenon
<1>14. InConversion(its, k, item, s, rest)
  BY <1>4, <1>5, <1>8, <1>10, <1>11, <1>12, <1>13 DEF InConversion
<1> QED
  BY <1>14

LEMMA SomeLeaves ==
  ASSUME ParseSome
  PROVE  UNCHANGED <<call, format, literal, todo, rc, output, stored, ret, pc>>
BY DEF ParseSome, Flag, NoFlag, WidthStar, WidthNumber, NoWidth, PrecStar, PrecNumber,
       PrecZero, NoPrec, Length, NoLength, Parsed

LEMMA BadLeaves ==
  ASSUME ParseBad
  PROVE  rc' = "ERR" /\ pc' = "finish" /\ UNCHANGED <<call, parser, todo, output, stored, ret>>
BY DEF ParseBad, WidthTooLarge, PrecTooLarge, BadConversion, EndInSpec, Fail

LEMMA ParseSomeKeeps ==
  ASSUME NEW its, CallIs(its), NEW k \in 0 .. GoodLen(its), Parsing(its, k), ParseSome
  PROVE  Parsing(its, k)' /\ stored' = stored
<1>1. PICK item, s, rest : InConversion(its, k, item, s, rest)
  BY ConversionIs
<1>2. ReadingItem(item, s, rest)'
  BY <1>1, ParseSomeStep DEF InConversion
<1>3. ReadingItem(its[k + 1], Here(its, k), Rest(its, k + 1))'
  BY <1>1, <1>2 DEF InConversion
<1>4. PICK g : g = Said(its, k)
  OBVIOUS
<1>5. Handed(g)'
  BY <1>4, SomeLeaves, HandedStays DEF Parsing
<1>6. Handed(Said(its, k))'
  BY <1>4, <1>5
<1>7. pc' = pc /\ rc' = rc /\ stored' = stored
  BY SomeLeaves
<1> QED
  BY <1>3, <1>6, <1>7 DEF Parsing

LEMMA ParseBadKeeps ==
  ASSUME NEW its, CallIs(its), NEW k \in 0 .. GoodLen(its), Parsing(its, k), ParseBad
  PROVE  Finishing(its, k)' /\ stored' = stored
<1>1. PICK item, s, rest : InConversion(its, k, item, s, rest)
  BY ConversionIs
<1>2. ~IsGood(item)
  BY <1>1, ParseBadStep DEF InConversion
<1>3. ~IsGood(its[k + 1]) /\ k < Len(its)
  BY <1>1, <1>2 DEF InConversion
<1>4. PICK g : g = Said(its, k)
  OBVIOUS
<1>5. Handed(g)'
  BY <1>4, BadLeaves, HandedStays DEF Parsing
<1>6. Handed(Said(its, k))'
  BY <1>4, <1>5
<1>7. pc' = "finish" /\ rc' = "ERR" /\ stored' = stored
  BY BadLeaves
<1> QED
  BY <1>3, <1>6, <1>7 DEF Finishing

\* %n stores what has been written as it is.
LEMMA StoresLength ==
  ASSUME NEW its, GoodCall(its), NEW k \in Nat, k + 1 \in 0 .. GoodLen(its),
         its[k + 1].conv = "n"
  PROVE  SignedOf(Len(Said(its, k)), Word[LengthRead(its[k + 1])]) = Len(Said(its, k))
<1>1. its \in Seq(Item)
  BY DEF GoodCall
<1>2. PICK m \in Nat : m = GoodLen(its)
  BY <1>1, GoodPartIs
<1>3. PICK l \in 1 .. m : l = k + 1 /\ l - 1 = k /\ k \in 0 .. m
  BY <1>2
<1>4. Len(TextOf(SubSeq(its, 1, l - 1))) < Word[LengthRead(its[l])] \div 2
  <2>1. \A i \in 1 .. Len(GoodPart(its)) :
          its[i].conv = "n" =>
            Len(TextOf(SubSeq(its, 1, i - 1))) < Word[LengthRead(its[i])] \div 2
    BY DEF GoodCall
  <2>2. l \in 1 .. Len(GoodPart(its))
    BY <1>2, <1>3 DEF GoodLen
  <2>3. its[l].conv = "n"
    BY <1>3
  <2> QED
    BY <2>1, <2>2, <2>3, Zenon
<1>5. PICK t \in Seq(Alphabet) : t = Said(its, k)
  BY <1>2, <1>3, SaidIs
<1>6. PICK w \in Nat : w = Len(t)
  OBVIOUS
<1>7. PICK size1 \in Nat : size1 = Word[LengthRead(its[l])]
  <2>1. LengthRead(its[l]) \in {"none", "hh", "h"}
    BY DEF LengthRead
  <2>2. LengthRead(its[l]) \in DOMAIN Word
    BY <2>1, WordAssumption
  <2>3. Word[LengthRead(its[l])] \in Nat
    BY <2>2, WordIs
  <2> QED
    BY <2>3
<1>8. w < size1 \div 2
  <2>1. TextOf(SubSeq(its, 1, k)) = t
    BY <1>2, <1>3, <1>5, TextBy
  <2> QED
    BY <1>3, <1>4, <1>6, <1>7, <2>1, Zenon
<1>9. size1 >= 2 * (w + 1)
  <2>1. PICK h \in Nat : h = size1 \div 2 /\ 2 * h <= size1
    OBVIOUS
  <2> QED
    BY <1>8, <2>1
<1>10. SignedOf(w, size1) = w
  BY <1>9, SmallIs
<1> QED
  BY <1>3, <1>5, <1>6, <1>7, <1>10, Zenon

LEMMA ConvertKeeps ==
  ASSUME NEW its, CallIs(its), NEW k \in 0 .. GoodLen(its), stored = StoredBy(its, k),
         Parsing(its, k), Convert
  PROVE  /\ k + 1 \in 0 .. GoodLen(its) /\ stored' = StoredBy(its, k + 1)
         /\ Writing(its, k + 1)'
<1>0. GoodCall(its)
  BY DEF CallIs
<1>1. PICK item, s, rest : InConversion(its, k, item, s, rest)
  BY ConversionIs
<1>2. Converted(item, s, rest)
  BY <1>1, ConvertReads DEF InConversion
<1>3. IsGood(item) /\ PiecesAre(todo', item) /\ args' = rest
  BY <1>2 DEF Converted
<1>4. k \in Nat
  BY <1>0, SaidTyped
<1>5. k + 1 \in 0 .. GoodLen(its)
  BY <1>0, <1>1, <1>3, GoodNext DEF InConversion
<1>6. Taken(its, k)
  BY <1>0, <1>4, <1>5, TakenIs
<1>7. PICK l : l = k + 1
  OBVIOUS
<1>8. PICK g \in Seq(Alphabet) : g = Said(its, k)
  BY <1>0, SaidTyped
<1>9. Handed(g) /\ written = Len(g)
  BY <1>8 DEF Parsing, Handed
<1>10. /\ pos' = Here(its, l) /\ literal' = pos' /\ pc' = "write"
  <2>1. item.conv # "none"
    BY <1>3 DEF IsGood, Known
  <2>2. Here(its, l) = ConvAt(s, item) + 1
    BY <1>1, <1>7, <2>1 DEF InConversion
  <2> QED
    BY <1>2, <2>2 DEF Converted
<1>11. stored' = StoredBy(its, l)
  <2>1. CASE item.conv = "n"
    <3>1. stored' = Append(stored, SignedOf(Len(g), Word[LengthRead(item)]))
      BY <1>2, <1>9, <2>1 DEF Converted
    <3>2. item = its[k + 1]
      BY <1>1 DEF InConversion
    <3>3. SignedOf(Len(g), Word[LengthRead(item)]) = Len(g)
      <4>1. SignedOf(Len(Said(its, k)), Word[LengthRead(its[k + 1])]) = Len(Said(its, k))
        BY <1>0, <1>4, <1>5, <2>1, <3>2, StoresLength
      <4> QED
        BY <1>8, <3>2, <4>1, Zenon
    <3>4. StoredBy(its, l) = Append(StoredBy(its, k), Len(g))
      BY <1>6, <1>7, <1>8, <2>1, <3>2, Zenon DEF Taken
    <3> QED
      BY <3>1, <3>3, <3>4, Zenon
  <2>2. CASE item.conv # "n"
    <3>1. stored' = stored
      BY <1>2, <2>2 DEF Converted
    <3>2. item = its[k + 1]
      BY <1>1 DEF InConversion
    <3>3. StoredBy(its, l) = StoredBy(its, k)
      BY <1>6, <1>7, <2>2, <3>2, Zenon DEF Taken
    <3> QED
      BY <3>1, <3>3, Zenon
  <2> QED
    BY <2>1, <2>2
<1>12. rc' = "OK" /\ UNCHANGED <<call, output>>
  BY DEF Convert, Parsing
<1>13. Handed(g)'
  BY <1>9, <1>12, HandedStays
<1>14. WritingWell(its, l)'
  <2>1. todo' \in Seq(PieceSet) /\ Joined(todo') = Meaning(item)
    BY <1>3 DEF PiecesAre
  <2>2. item = its[k + 1]
    BY <1>1 DEF InConversion
  <2>3. g \o Joined(todo') = Said(its, l)
    BY <1>6, <1>7, <1>8, <2>1, <2>2, Zenon DEF Taken
  <2>4. Unpadded(its) => Checked(todo')
    <3>1. k + 1 \in 1 .. Len(its)
      BY <1>0, <1>1, <1>4 DEF InConversion, GoodCall
    <3>2. Unpadded(its) => ~Padded(item)
      BY <2>2, <3>1, Zenon DEF Unpadded
    <3> QED
      BY <1>3, <3>2 DEF PiecesAre
  <2>5. (\E h : Handed(h) /\ h \o Joined(todo) = Said(its, l))'
    BY <1>13, <2>3
  <2> QED
    BY <1>12, <2>1, <2>4, <2>5 DEF WritingWell, Checked
<1>15. args' = Rest(its, l)
  BY <1>1, <1>3, <1>7 DEF InConversion
<1>16. Writing(its, l)'
  BY <1>10, <1>14, <1>15 DEF Writing
<1> QED
  BY <1>5, <1>7, <1>11, <1>16, Zenon

-----------------------------------------------------------------------------
(***************************************************************************)
(* Writing: write_str, write_fd, and a piece of what is to be written.     *)
(***************************************************************************)
LEMMA RoomIs ==
  ASSUME NEW z \in Nat
  PROVE  Room(z) \in Nat /\ (z = 0 => Room(z) = 0) /\ (z # 0 => Room(z) = z - 1)
BY DEF Room

LEMMA StrHanded ==
  ASSUME size \in Nat, NEW g, Handed(g), NEW t \in Seq(Alphabet), WriteStr(t), UNCHANGED call
  PROVE  Handed(g \o t)' /\ rc' = rc
<1>1. g \in Seq(Alphabet) /\ size # File /\ written = Len(g)
  <2>1. size # File
    BY DEF File
  <2> QED
    BY <2>1 DEF Handed
<1>2. PICK l \in Nat : l = Len(g)
  BY <1>1
<1>3. PICK d \in Nat : d = Len(t)
  OBVIOUS
<1>4. PICK R \in Nat : R = Room(size)
  BY RoomIs
<1>5. PICK a \in Nat : a = IF l < R THEN l ELSE R
  OBVIOUS
<1>6. a = Kept(Len(g)) /\ room = R - a /\ buffer = [i \in 0 .. a - 1 |-> g[i + 1]]
  BY <1>1, <1>2, <1>4, <1>5 DEF Handed, Kept
<1>7. PICK e \in Nat : e = IF d < R - a THEN d ELSE R - a
  <2>1. PICK b \in Nat : b = R - a
    <3>1. a <= R
      BY <1>5
    <3>2. R - a \in Nat
      BY <3>1
    <3> QED
      BY <3>2
  <2>2. (IF d < b THEN d ELSE b) \in Nat
    OBVIOUS
  <2> QED
    BY <2>1, <2>2
<1>8. R - room = a
  BY <1>5, <1>6
<1>9. /\ written' = l + d /\ room' = R - (a + e) /\ rc' = rc
      /\ buffer' = [i \in DOMAIN buffer \cup a .. a + e - 1 |->
                      IF i < a THEN buffer[i] ELSE t[i - a + 1]]
  <2>1. e = IF Len(t) < room THEN Len(t) ELSE room
    BY <1>3, <1>6, <1>7, Zenon
  <2>2. /\ written' = written + d /\ room' = room - e /\ rc' = rc
        /\ buffer' = [i \in DOMAIN buffer \cup a .. a + e - 1 |->
                        IF i < a THEN buffer[i] ELSE t[i - a + 1]]
    BY <1>3, <1>4, <1>8, <2>1, Zenon DEF WriteStr
  <2>3. room - e = R - (a + e)
    BY <1>6
  <2> QED
    BY <1>1, <1>2, <2>2, <2>3, Zenon
<1>10. PICK y \in Nat : y = a + e
  OBVIOUS
<1>11. PICK u \in Seq(Alphabet) : u = g \o t /\ Len(u) = l + d
  BY <1>1, <1>2, <1>3, ConcatLen
<1>12. PICK w \in Nat : w = l + d
  OBVIOUS
<1>13. y = IF w < R THEN w ELSE R
  BY <1>5, <1>7, <1>10, <1>12
<1>14. /\ \A i \in 1 .. l : u[i] = g[i]
       /\ \A i \in 1 .. d : u[l + i] = t[i]
  <2>1. ASSUME NEW i \in 1 .. l PROVE (g \o t)[i] = g[i]
    BY <1>1, <1>2
  <2>2. ASSUME NEW i \in 1 .. d PROVE (g \o t)[l + i] = t[i]
    BY <1>1, <1>2, <1>3
  <2> QED
    BY <1>11, <2>1, <2>2, Zenon
<1>15. DOMAIN buffer \cup a .. a + e - 1 = 0 .. y - 1
  <2>1. DOMAIN buffer = 0 .. a - 1
    BY <1>6
  <2>2. (0 .. a - 1) \cup (a .. a + e - 1) = 0 .. y - 1
    BY <1>10
  <2> QED
    BY <2>1, <2>2
<1>16. ASSUME NEW i \in 0 .. y - 1
       PROVE  (IF i < a THEN buffer[i] ELSE t[i - a + 1]) = u[i + 1]
  <2>1. CASE i < a
    <3>1. i \in 0 .. a - 1 /\ i + 1 \in 1 .. l
      BY <1>5, <2>1
    <3>2. buffer[i] = g[i + 1]
      BY <1>6, <3>1
    <3>3. u[i + 1] = g[i + 1]
      BY <1>14, <3>1
    <3> QED
      BY <2>1, <3>2, <3>3
  <2>2. CASE ~(i < a)
    <3>1. e > 0
      BY <1>10, <2>2
    <3>2. a = l
      BY <1>5, <1>7, <3>1
    <3>3. PICK j \in 1 .. d : j = i - a + 1
      BY <1>7, <1>10, <2>2
    <3>4. l + j = i + 1
      BY <3>2, <3>3
    <3>5. u[l + j] = t[j]
      BY <1>14
    <3> QED
      BY <2>2, <3>3, <3>4, <3>5, Zenon
  <2> QED
    BY <2>1, <2>2
<1>17. buffer' = [i \in 0 .. y - 1 |-> u[i + 1]]
  <2>1. buffer' = [i \in 0 .. y - 1 |-> IF i < a THEN buffer[i] ELSE t[i - a + 1]]
    BY <1>9, <1>15, Zenon
  <2> QED
    BY <1>16, <2>1
<1>18. size' = size
  BY DEF call
<1>19. Kept(Len(u))' = y
  BY <1>4, <1>11, <1>12, <1>13, <1>18 DEF Kept
<1>20. Room(size') = R
  BY <1>4, <1>18
<1>21. Handed(u)'
  <2>1. written' = Len(u)
    BY <1>9, <1>11
  <2>2. room' = R - y
    BY <1>9, <1>10
  <2> QED
    BY <1>1, <1>17, <1>18, <1>19, <1>20, <2>1, <2>2 DEF Handed
<1> QED
  BY <1>9, <1>11, <1>21

\* What write_fd leaves when x characters have been written.
Reaches(t, n, x) ==
  /\ file' = file \o SubSeq(t, 1, x) /\ file' \in Seq(Alphabet)
  /\ Len(file') = Len(file) + x /\ written' = Len(file')
  /\ n = Len(t) => x = Len(t) /\ rc' = rc /\ file' = file \o t
  /\ n # Len(t) => x < Len(t) /\ rc' \in {"ERR", "END"}

LEMMA FdWrites ==
  ASSUME NEW t \in Seq(Alphabet), NEW n \in -1 .. Len(t), t = <<>> => n = 0,
         file \in Seq(Alphabet), written = Len(file), WriteFd(t, n)
  PROVE  \E x \in 0 .. Len(t) : Reaches(t, n, x)
<1>1. PICK d \in Nat : d = Len(t)
  OBVIOUS
<1>2. PICK f \in Seq(Alphabet) : f = file
  OBVIOUS
<1>3. PICK l \in Nat : l = Len(f)
  OBVIOUS
<1>4. CASE n = -1
  <2>1. d # 0
    BY <1>1, <1>4
  <2>2. file' = f /\ written' = l /\ rc' = "ERR"
    BY <1>2, <1>3, <1>4 DEF WriteFd
  <2>3. SubSeq(t, 1, 0) = <<>>
    OBVIOUS
  <2>4. f \o SubSeq(t, 1, 0) = f
    BY <2>3, NothingBehind
  <2>5. n # d /\ 0 < d /\ l = l + 0
    BY <1>4, <2>1
  <2>6. Reaches(t, n, 0)
    BY <1>1, <1>2, <1>3, <2>2, <2>4, <2>5 DEF Reaches
  <2> QED
    BY <2>6
<1>5. CASE n # -1
  <2>1. PICK x \in 0 .. d : x = n
    BY <1>1, <1>5
  <2>2. PICK p \in Seq(Alphabet) : p = SubSeq(t, 1, x) /\ Len(p) = x
    <3>1. SubSeq(t, 1, x) \in Seq(Alphabet)
      BY <1>1, PartTyped
    <3>2. Len(SubSeq(t, 1, x)) = x
      BY <1>1
    <3> QED
      BY <3>1, <3>2
  <2>3. file' = f \o p /\ written' = l + x
        /\ rc' = CASE n = -1 -> "ERR" [] n = Len(t) -> rc [] OTHER -> "END"
    BY <1>2, <1>3, <1>5, <2>1, <2>2 DEF WriteFd
  <2>4. f \o p \in Seq(Alphabet) /\ Len(f \o p) = l + x
    BY <1>3, <2>2, ConcatLen
  <2>5. n = d => p = t
    BY <1>1, <2>1, <2>2, WholeText
  <2>6. n = d => rc' = rc
    BY <1>1, <1>5, <2>3
  <2>7. n # d => x < d /\ rc' = "END"
    <3>1. ASSUME n # d PROVE rc' = "END"
      BY <1>1, <1>5, <2>3, <3>1
    <3> QED
      BY <2>1, <3>1
  <2>8. n = d => x = d
    BY <2>1
  <2>9. Len(file') = Len(file) + x /\ written' = Len(file') /\ file' \in Seq(Alphabet)
    BY <1>2, <1>3, <2>3, <2>4, Zenon
  <2>10. Reaches(t, n, x)
    BY <1>1, <1>2, <2>2, <2>3, <2>5, <2>6, <2>7, <2>8, <2>9, Zenon DEF Reaches
  <2> QED
    BY <1>1, <2>10
<1> QED
  BY <1>4, <1>5

\* The first of the pieces, and what is left after it.
HeadIs(p, c) ==
  /\ c >= 1 /\ Head(p) = p[1] /\ p[1].text \in Seq(Alphabet) /\ p[1].skip \in Nat
  /\ SubSeq(p, 2, c) \in Seq(PieceSet)
  /\ Joined(p) = p[1].text \o Joined(SubSeq(p, 2, c))

LEMMA FirstPiece ==
  ASSUME NEW p \in Seq(PieceSet), p # <<>>, NEW c \in Nat, c = Len(p)
  PROVE  HeadIs(p, c)
<1>1. c >= 1 /\ Head(p) = p[1] /\ p[1] \in PieceSet
  OBVIOUS
<1>2. p[1].text \in Seq(Alphabet) /\ p[1].skip \in Nat
  BY <1>1 DEF PieceSet
<1>3. SubSeq(p, 2, c) \in Seq(PieceSet)
  BY JoinedRest
<1>4. PICK i \in Nat : i = 1
  OBVIOUS
<1>5. Joined(SubSeq(p, i, c)) = p[i].text \o Joined(SubSeq(p, i + 1, c))
  <2>1. i >= 1 /\ i <= c
    BY <1>1, <1>4
  <2> QED
    BY <2>1, JoinedRest, Zenon
<1>6. SubSeq(p, i, c) = p /\ i + 1 = 2
  BY <1>4
<1> QED
  BY <1>1, <1>2, <1>3, <1>4, <1>5, <1>6, Zenon DEF HeadIs

\* Two parts of a sequence that meet.
Meets(p, i, j, c) == SubSeq(p, i, c) = SubSeq(p, i, j - 1) \o SubSeq(p, j, c)

LEMMA PartsMeet ==
  ASSUME NEW p \in Seq(PieceSet), NEW c \in Nat, c = Len(p), NEW i \in Nat, i >= 1,
         NEW j \in Nat, i <= j, j <= c
  PROVE  Meets(p, i, j, c)
BY DEF Meets

\* If more pieces are left out, no more is written.
LEMMA LessLeft ==
  ASSUME NEW p \in Seq(PieceSet), NEW c \in Nat, c = Len(p), NEW i \in Nat, i >= 1,
         NEW j \in Nat, i <= j
  PROVE  /\ SubSeq(p, j, c) \in Seq(PieceSet)
         /\ Len(Joined(SubSeq(p, j, c))) <= Len(Joined(SubSeq(p, i, c)))
<1>1. SubSeq(p, j, c) \in Seq(PieceSet) /\ (j > c => SubSeq(p, j, c) = <<>>)
  BY JoinedRest
<1>2. PICK r \in Seq(PieceSet) : r = SubSeq(p, j, c)
  BY <1>1
<1>3. PICK q \in Seq(PieceSet) : q = SubSeq(p, i, c)
  BY JoinedRest
<1>4. PICK x \in Nat : x = Len(Joined(r))
  BY JoinedTyped
<1>5. PICK y \in Nat : y = Len(Joined(q))
  BY JoinedTyped
<1>6. CASE j > c
  <2>1. r = <<>>
    BY <1>1, <1>2, <1>6
  <2>2. Joined(r) = <<>>
    BY <2>1, JoinedNone
  <2>3. x = 0
    BY <1>4, <2>2
  <2> QED
    BY <1>1, <1>2, <1>3, <1>4, <1>5, <2>3
<1>7. CASE ~(j > c)
  <2>1. PICK h \in Seq(PieceSet) : h = SubSeq(p, i, j - 1)
    <3>1. j - 1 \in Int /\ j - 1 <= Len(p)
      BY <1>7
    <3>2. SubSeq(p, i, j - 1) \in Seq(PieceSet)
      BY <3>1, PartTyped
    <3> QED
      BY <3>2
  <2>2. q = h \o r
    <3>1. j <= c
      BY <1>7
    <3>2. Meets(p, i, j, c)
      BY <3>1, PartsMeet
    <3> QED
      BY <1>2, <1>3, <2>1, <3>2, Zenon DEF Meets
  <2>3. Joined(q) = Joined(h) \o Joined(r)
    BY <2>2, JoinedSplit
  <2>4. PICK z \in Nat : z = Len(Joined(h))
    BY JoinedTyped
  <2>5. Len(Joined(h) \o Joined(r)) = Len(Joined(h)) + Len(Joined(r))
    BY JoinedTyped, ConcatLen
  <2>6. y = z + x
    BY <1>4, <1>5, <2>3, <2>4, <2>5, Zenon
  <2>7. x <= y
    BY <2>6
  <2> QED
    BY <1>1, <1>2, <1>3, <1>4, <1>5, <2>7, Zenon
<1> QED
  BY <1>6, <1>7

\* The pieces are checked: after the first, the others are, and a failure ends all.
LEMMA CheckedRest ==
  ASSUME NEW p \in Seq(PieceSet), p # <<>>, NEW c \in Nat, c = Len(p), Checked(p)
  PROVE  Checked(SubSeq(p, 2, c)) /\ SubSeq(p, 2 + p[1].skip, c) = <<>>
<1>1. c >= 1
  OBVIOUS
<1>2. \A i \in 1 .. c : p[i].skip = c - i
  BY DEF Checked
<1>3. p[1].skip = c - 1
  BY <1>1, <1>2
<1>4. 2 + p[1].skip > c /\ 2 + p[1].skip \in Nat
  BY <1>1, <1>3
<1>5. SubSeq(p, 2 + p[1].skip, c) = <<>>
  BY <1>4
<1>6. PICK q : q = SubSeq(p, 2, c)
  OBVIOUS
<1>7. Len(q) = c - 1 /\ \A i \in 1 .. c - 1 : q[i] = p[i + 1]
  BY <1>1, <1>6
<1>8. ASSUME NEW i \in 1 .. c - 1 PROVE q[i].skip = c - 1 - i
  <2>1. PICK j \in 1 .. c : j = i + 1
    OBVIOUS
  <2>2. q[i] = p[j] /\ p[j].skip = c - j
    BY <1>2, <1>7, <2>1
  <2>3. c - j = c - 1 - i
    BY <2>1
  <2> QED
    BY <2>2, <2>3
<1>9. Checked(q)
  BY <1>7, <1>8 DEF Checked
<1> QED
  BY <1>5, <1>6, <1>9

\* u is s and then t.
JoinIs(u, s, t, a, c) ==
  /\ u \in Seq(Alphabet) /\ u = s \o t /\ Len(u) = a + c
  /\ \A i \in 1 .. a : u[i] = s[i]
  /\ \A i \in 1 .. c : u[a + i] = t[i]

LEMMA JoinedIs ==
  ASSUME NEW s \in Seq(Alphabet), NEW t \in Seq(Alphabet), NEW a \in Nat, NEW c \in Nat,
         Len(s) = a, Len(t) = c
  PROVE  JoinIs(s \o t, s, t, a, c)
<1>1. s \o t \in Seq(Alphabet) /\ Len(s \o t) = a + c
  BY ConcatLen
<1>2. ASSUME NEW i \in 1 .. a PROVE (s \o t)[i] = s[i]
  OBVIOUS
<1>3. ASSUME NEW i \in 1 .. c PROVE (s \o t)[a + i] = t[i]
  OBVIOUS
<1> QED
  BY <1>1, <1>2, <1>3, Zenon DEF JoinIs

\* The beginning of a text of two parts.
BeginIs(g, t, j, x, y) == SubSeq(g \o (t \o j), 1, y) = g \o SubSeq(t, 1, x)

LEMMA BeginsWith ==
  ASSUME NEW g \in Seq(Alphabet), NEW t \in Seq(Alphabet), NEW j \in Seq(Alphabet),
         NEW x \in 0 .. Len(t), NEW y \in Nat, y = Len(g) + x
  PROVE  BeginIs(g, t, j, x, y)
<1>1. PICK l \in Nat : l = Len(g)
  OBVIOUS
<1>2. PICK d \in Nat : d = Len(t)
  OBVIOUS
<1>3. PICK e \in Nat : e = Len(j)
  OBVIOUS
<1>4. PICK u : JoinIs(u, t, j, d, e)
  <2>1. JoinIs(t \o j, t, j, d, e)
    BY <1>2, <1>3, JoinedIs
  <2> QED
    BY <2>1
<1>5. PICK de \in Nat : de = d + e
  OBVIOUS
<1>6. PICK v : JoinIs(v, g, u, l, de)
  <2>1. JoinIs(g \o u, g, u, l, de)
    <3>1. u \in Seq(Alphabet) /\ Len(u) = de
      BY <1>4, <1>5 DEF JoinIs
    <3> QED
      BY <1>1, <3>1, JoinedIs
  <2> QED
    BY <2>1
<1>7. PICK p \in Seq(Alphabet) : p = SubSeq(t, 1, x) /\ Len(p) = x /\ \A i \in 1 .. x : p[i] = t[i]
  <2>1. SubSeq(t, 1, x) \in Seq(Alphabet)
    BY <1>2, PartTyped
  <2>2. Len(SubSeq(t, 1, x)) = x /\ \A i \in 1 .. x : SubSeq(t, 1, x)[i] = t[i]
    BY <1>2
  <2> QED
    BY <2>1, <2>2
<1>8. PICK q : JoinIs(q, g, p, l, x)
  <2>1. JoinIs(g \o p, g, p, l, x)
    <3>1. x \in Nat
      BY <1>2
    <3> QED
      BY <1>1, <1>7, <3>1, JoinedIs
  <2> QED
    BY <2>1
<1>9. x <= d /\ y = l + x /\ y <= l + de
  BY <1>1, <1>2, <1>5
<1>10. PICK r \in Seq(Alphabet) : r = SubSeq(v, 1, y) /\ Len(r) = y
                                /\ \A i \in 1 .. y : r[i] = v[i]
  <2>1. y <= Len(v)
    BY <1>6, <1>9 DEF JoinIs
  <2>2. SubSeq(v, 1, y) \in Seq(Alphabet)
    BY <1>6, <2>1, PartTyped DEF JoinIs
  <2>3. Len(SubSeq(v, 1, y)) = y /\ \A i \in 1 .. y : SubSeq(v, 1, y)[i] = v[i]
    BY <1>6, <2>1 DEF JoinIs
  <2> QED
    BY <2>2, <2>3
<1>11. ASSUME NEW i \in 1 .. y PROVE r[i] = q[i]
  <2>1. CASE i <= l
    <3>1. i \in 1 .. l
      BY <2>1
    <3>2. v[i] = g[i] /\ q[i] = g[i]
      BY <1>6, <1>8, <3>1, Zenon DEF JoinIs
    <3> QED
      BY <1>10, <3>2, Zenon
  <2>2. CASE ~(i <= l)
    <3>1. PICK z \in 1 .. x : z = i - l
      BY <1>9, <2>2
    <3>2. i = l + z /\ z \in 1 .. d /\ z \in 1 .. de
      BY <1>5, <1>9, <3>1
    <3>3. v[l + z] = u[z] /\ u[z] = t[z] /\ q[l + z] = p[z] /\ p[z] = t[z]
      BY <1>4, <1>6, <1>7, <1>8, <3>2 DEF JoinIs
    <3> QED
      BY <1>10, <3>2, <3>3
  <2> QED
    BY <2>1, <2>2
<1>12. r = q
  <2>1. q \in Seq(Alphabet) /\ Len(q) = y
    BY <1>8, <1>9 DEF JoinIs
  <2>2. \A i \in 1 .. y : r[i] = q[i]
    BY <1>11
  <2> QED
    BY <1>10, <2>1, <2>2
<1> QED
  BY <1>4, <1>6, <1>7, <1>8, <1>10, <1>12, Zenon DEF JoinIs, BeginIs

-----------------------------------------------------------------------------
(***************************************************************************)
(* A piece of what is to be written.                                       *)
(***************************************************************************)
WritesPiece(p, c) ==
  /\ p # <<>> /\ UNCHANGED <<call, parser, stored, ret, pc>>
  /\ size # File => WriteStr(p[1].text)
  /\ size = File => \E n \in -1 .. Len(p[1].text) :
                      (p[1].text = <<>> => n = 0) /\ WriteFd(p[1].text, n)
  /\ rc' = "OK" => todo' = SubSeq(p, 2, c)
  /\ rc' # "OK" => todo' = SubSeq(p, 2 + p[1].skip, c)

LEMMA WriteIs ==
  ASSUME NEW p \in Seq(PieceSet), p = todo, NEW c \in Nat, c = Len(p), Write
  PROVE  WritesPiece(p, c)
<1>1. p # <<>> /\ UNCHANGED <<call, parser, stored, ret, pc>>
  BY DEF Write
<1>2. HeadIs(p, c)
  BY <1>1, FirstPiece
<1>3. PICK t \in Seq(Alphabet) : t = p[1].text
  BY <1>2 DEF HeadIs
<1>4. PICK x \in Nat : x = p[1].skip
  BY <1>2 DEF HeadIs
<1>5. Head(todo) = p[1]
  BY <1>2 DEF HeadIs
<1>6. size # File => WriteStr(t)
  BY <1>3, <1>5 DEF Write
<1>7. size = File => \E n \in -1 .. Len(t) : (t = <<>> => n = 0) /\ WriteFd(t, n)
  <2>1. size = File => \E n \in IF t = <<>> THEN {0} ELSE -1 .. Len(t) : WriteFd(t, n)
    BY <1>3, <1>5 DEF Write
  <2>2. ASSUME NEW n \in IF t = <<>> THEN {0} ELSE -1 .. Len(t)
        PROVE  n \in -1 .. Len(t) /\ (t = <<>> => n = 0)
    OBVIOUS
  <2> QED
    BY <2>1, <2>2
<1>8. todo' = SubSeq(p, 2 + (IF rc' = "OK" THEN 0 ELSE x), c)
  BY <1>4, <1>5 DEF Write
<1>9. rc' = "OK" => todo' = SubSeq(p, 2, c)
  BY <1>8
<1>10. rc' # "OK" => todo' = SubSeq(p, 2 + x, c)
  BY <1>8
<1> QED
  BY <1>1, <1>3, <1>4, <1>6, <1>7, <1>9, <1>10, Zenon DEF WritesPiece

\* Writing to a buffer does not fail.
LEMMA StrKeeps ==
  ASSUME NEW its, CallIs(its), NEW k \in 0 .. GoodLen(its), WritingWell(its, k), Write,
         size # File
  PROVE  WritingWell(its, k)'
<1>1. PICK p \in Seq(PieceSet) : p = todo
  BY DEF WritingWell
<1>2. PICK c \in Nat : c = Len(p)
  OBVIOUS
<1>3. WritesPiece(p, c)
  BY <1>1, <1>2, WriteIs
<1>4. p # <<>> /\ UNCHANGED call
  BY <1>3 DEF WritesPiece
<1>5. HeadIs(p, c)
  BY <1>2, <1>4, FirstPiece
<1>6. PICK t \in Seq(Alphabet) : t = p[1].text
  BY <1>5 DEF HeadIs
<1>7. PICK r \in Seq(PieceSet) : r = SubSeq(p, 2, c)
  BY <1>5 DEF HeadIs
<1>8. PICK j \in Seq(Alphabet) : j = Joined(r)
  BY JoinedTyped
<1>9. Joined(p) = t \o j
  BY <1>5, <1>6, <1>7, <1>8, Zenon DEF HeadIs
<1>10. PICK g \in Seq(Alphabet) : Handed(g) /\ g \o Joined(p) = Said(its, k)
  BY <1>1 DEF WritingWell, Handed
<1>11. WriteStr(t)
  BY <1>3, <1>6 DEF WritesPiece
<1>12. Handed(g \o t)' /\ rc' = rc
  <2>1. size \in Nat
    BY DEF CallIs
  <2> QED
    BY <1>4, <1>10, <1>11, <2>1, StrHanded
<1>13. (g \o t) \o j = Said(its, k)
  <2>1. Associates(g, t, j)
    BY Regroup
  <2> QED
    BY <1>9, <1>10, <2>1, Zenon DEF Associates
<1>14. rc' = "OK"
  BY <1>12 DEF WritingWell
<1>15. todo' = r
  BY <1>3, <1>7, <1>14, Zenon DEF WritesPiece
<1>16. Unpadded(its) => Checked(r)
  BY <1>1, <1>2, <1>4, <1>7, CheckedRest DEF WritingWell
<1>17. PICK u : u = g \o t
  OBVIOUS
<1>18. Handed(u)' /\ u \o Joined(r) = Said(its, k)
  BY <1>8, <1>12, <1>13, <1>17
<1> QED
  BY <1>14, <1>15, <1>16, <1>18 DEF WritingWell

\* A piece that goes to the file: what it was, what is left, and the answer of write.
GoesToFile(t, j, q, n, x) ==
  /\ x \in 0 .. Len(t) /\ Reaches(t, n, x)
  /\ n = Len(t) /\ rc = "OK" => Joined(todo') = j
  /\ todo' = q /\ Len(Joined(q)) <= Len(j)
  /\ Joined(todo) = t \o j

LEMMA FileIs ==
  ASSUME NEW p \in Seq(PieceSet), p = todo, NEW c \in Nat, c = Len(p), Write,
         size = File, file \in Seq(Alphabet), written = Len(file)
  PROVE  \E t \in Seq(Alphabet), j \in Seq(Alphabet), q \in Seq(PieceSet), n \in Int, x \in Nat :
           GoesToFile(t, j, q, n, x)
<1>1. WritesPiece(p, c)
  BY WriteIs
<1>2. HeadIs(p, c)
  BY <1>1, FirstPiece DEF WritesPiece
<1>3. PICK t \in Seq(Alphabet) : t = p[1].text
  BY <1>2 DEF HeadIs
<1>4. PICK y \in Nat : y = p[1].skip
  BY <1>2 DEF HeadIs
<1>5. PICK r \in Seq(PieceSet) : r = SubSeq(p, 2, c)
  BY <1>2 DEF HeadIs
<1>6. PICK j \in Seq(Alphabet) : j = Joined(r)
  BY JoinedTyped
<1>7. Joined(p) = t \o j
  BY <1>2, <1>3, <1>5, <1>6, Zenon DEF HeadIs
<1>8. PICK n \in -1 .. Len(t) : (t = <<>> => n = 0) /\ WriteFd(t, n)
  BY <1>1, <1>3 DEF WritesPiece
<1>9. PICK x \in 0 .. Len(t) : Reaches(t, n, x)
  BY <1>8, FdWrites
<1>10. n = Len(t) => rc' = rc
  BY <1>9 DEF Reaches
<1>11. rc' = "OK" => todo' = r
  BY <1>1, <1>5, Zenon DEF WritesPiece
<1>12. PICK z \in Nat : z = 2 + y /\ 2 <= z
  OBVIOUS
<1>13. rc' # "OK" => todo' = SubSeq(p, z, c)
  BY <1>1, <1>4, <1>12, Zenon DEF WritesPiece
<1>14. PICK b \in Nat : b = 2 /\ b >= 1 /\ b <= z
  BY <1>12
<1>15. /\ SubSeq(p, z, c) \in Seq(PieceSet)
       /\ Len(Joined(SubSeq(p, z, c))) <= Len(Joined(SubSeq(p, b, c)))
  BY <1>14, LessLeft
<1>16. todo' \in Seq(PieceSet) /\ Len(Joined(todo')) <= Len(j)
  <2>1. CASE rc' = "OK"
    <3>1. PICK d \in Nat : d = Len(j)
      OBVIOUS
    <3> QED
      BY <1>6, <1>11, <2>1, <3>1
  <2>2. CASE rc' # "OK"
    BY <1>5, <1>6, <1>13, <1>14, <1>15, <2>2, Zenon
  <2> QED
    BY <2>1, <2>2
<1>17. n = Len(t) /\ rc = "OK" => Joined(todo') = j
  BY <1>6, <1>10, <1>11
<1>18. PICK q \in Seq(PieceSet) : q = todo'
  BY <1>16
<1>19. x \in Nat /\ n \in Int
  OBVIOUS
<1>20. GoesToFile(t, j, q, n, x)
  BY <1>7, <1>9, <1>16, <1>17, <1>18, Zenon DEF GoesToFile
<1> QED
  BY <1>19, <1>20

\* After a failure no more is written than was left.
LEMMA BrokenStays ==
  ASSUME NEW its, CallIs(its), NEW k \in 0 .. GoodLen(its), Broken(its, k), Write
  PROVE  Broken(its, k)'
<1>1. PICK p \in Seq(PieceSet) : p = todo
  BY DEF Broken
<1>2. PICK c \in Nat : c = Len(p)
  OBVIOUS
<1>3. WritesPiece(p, c)
  BY <1>1, <1>2, WriteIs
<1>4. size' = size /\ todo # <<>>
  BY <1>1, <1>3 DEF WritesPiece, call
<1>5. /\ size = File /\ rc \in {"ERR", "END"} /\ file \in Seq(Alphabet) /\ written = Len(file)
      /\ Len(file) + Len(Joined(todo)) < Len(Said(its, k))
      /\ ~Unpadded(its)
  BY <1>4 DEF Broken
<1>6. PICK t \in Seq(Alphabet), j \in Seq(Alphabet), q \in Seq(PieceSet), n \in Int, x \in Nat :
        GoesToFile(t, j, q, n, x)
  BY <1>1, <1>2, <1>5, FileIs
<1>7. /\ Reaches(t, n, x) /\ todo' = q /\ Len(Joined(q)) <= Len(j) /\ Joined(todo) = t \o j
      /\ x \in 0 .. Len(t)
  BY <1>6 DEF GoesToFile
<1>8. rc' \in {"ERR", "END"} /\ file' \in Seq(Alphabet) /\ written' = Len(file')
      /\ Len(file') = Len(file) + x
  BY <1>5, <1>7 DEF Reaches
<1>9. Len(file') + Len(Joined(q)) < Len(Said(its, k))
  <2>1. PICK a \in Nat : a = Len(t)
    OBVIOUS
  <2>2. PICK b \in Nat : b = Len(j)
    OBVIOUS
  <2>3. PICK l \in Nat : l = Len(file)
    BY <1>5
  <2>4. PICK e \in Nat : e = Len(Joined(q))
    BY JoinedTyped
  <2>5. PICK w \in Nat : w = Len(Said(its, k))
    BY SaidTyped DEF CallIs
  <2>6. Len(Joined(todo)) = a + b
    BY <1>7, <2>1, <2>2, ConcatLen, Zenon
  <2>7. l + (a + b) < w
    BY <1>5, <2>3, <2>5, <2>6
  <2>8. e <= b /\ x <= a
    BY <1>7, <2>1, <2>2, <2>4
  <2>9. l + x + e < w
    BY <2>7, <2>8
  <2> QED
    BY <1>8, <2>3, <2>4, <2>5, <2>9
<1>10. Unpadded(its)' <=> Unpadded(its)
  BY DEF Unpadded
<1> QED
  BY <1>4, <1>5, <1>7, <1>8, <1>9 DEF Broken

\* A write to the file writes all, or it leaves a gap and the rest is given up.
LEMMA FileKeeps ==
  ASSUME NEW its, CallIs(its), NEW k \in 0 .. GoodLen(its), WritingWell(its, k), Write,
         size = File
  PROVE  (WritingWell(its, k) \/ Broken(its, k))'
<1>1. PICK p \in Seq(PieceSet) : p = todo
  BY DEF WritingWell
<1>2. PICK c \in Nat : c = Len(p)
  OBVIOUS
<1>3. WritesPiece(p, c)
  BY <1>1, <1>2, WriteIs
<1>4. size' = size /\ p # <<>>
  BY <1>3 DEF WritesPiece, call
<1>5. PICK g \in Seq(Alphabet) : Handed(g) /\ g \o Joined(p) = Said(its, k)
  BY <1>1 DEF WritingWell, Handed
<1>6. file = g /\ written = Len(g)
  BY <1>5 DEF Handed
<1>7. PICK t \in Seq(Alphabet), j \in Seq(Alphabet), q \in Seq(PieceSet), n \in Int, x \in Nat :
        GoesToFile(t, j, q, n, x)
  BY <1>1, <1>2, <1>6, FileIs
<1>8. /\ Reaches(t, n, x) /\ todo' = q /\ Len(Joined(q)) <= Len(j) /\ Joined(p) = t \o j
      /\ x \in 0 .. Len(t)
  BY <1>1, <1>7 DEF GoesToFile
<1>9. rc = "OK" /\ (Unpadded(its) => Checked(p))
  BY <1>1 DEF WritingWell
<1>10. Unpadded(its) /\ rc' = "OK" => Checked(q)
  <2>1. rc' = "OK" => q = SubSeq(p, 2, c)
    BY <1>3, <1>8 DEF WritesPiece
  <2>2. Unpadded(its) => Checked(SubSeq(p, 2, c))
    BY <1>2, <1>4, <1>9, CheckedRest
  <2> QED
    BY <2>1, <2>2, Zenon
<1>11. Unpadded(its) /\ rc' # "OK" => q = <<>>
  <2>1. rc' # "OK" => q = SubSeq(p, 2 + p[1].skip, c)
    BY <1>3, <1>8 DEF WritesPiece
  <2>2. Unpadded(its) => SubSeq(p, 2 + p[1].skip, c) = <<>>
    BY <1>2, <1>4, <1>9, CheckedRest
  <2> QED
    BY <2>1, <2>2, Zenon
<1>12. CASE n = Len(t)
  <2>1. rc' = "OK" /\ file' = g \o t /\ written' = Len(file') /\ file' \in Seq(Alphabet)
    BY <1>6, <1>8, <1>9, <1>12 DEF Reaches
  <2>2. Joined(q) = j
    BY <1>7, <1>8, <1>9, <1>12 DEF GoesToFile
  <2>3. PICK u \in Seq(Alphabet) : u = g \o t
    BY <2>1
  <2>4. Handed(u)'
    BY <1>4, <2>1, <2>3 DEF Handed
  <2>5. u \o Joined(q) = Said(its, k)
    <3>1. Associates(g, t, j)
      BY Regroup
    <3> QED
      BY <1>5, <1>8, <2>2, <2>3, <3>1, Zenon DEF Associates
  <2> QED
    BY <1>8, <1>10, <2>1, <2>4, <2>5 DEF WritingWell
<1>13. CASE n # Len(t)
  <2>1. /\ rc' \in {"ERR", "END"} /\ file' \in Seq(Alphabet) /\ written' = Len(file')
        /\ Len(file') = Len(g) + x /\ x < Len(t) /\ file' = g \o SubSeq(t, 1, x)
    BY <1>6, <1>8, <1>13 DEF Reaches
  <2>2. Len(file') + Len(Joined(q)) < Len(Said(its, k))
    <3>1. PICK a \in Nat : a = Len(t)
      OBVIOUS
    <3>2. PICK b \in Nat : b = Len(j)
      OBVIOUS
    <3>3. PICK l \in Nat : l = Len(g)
      OBVIOUS
    <3>4. PICK e \in Nat : e = Len(Joined(q))
      BY JoinedTyped
    <3>5. Len(t \o j) = a + b /\ t \o j \in Seq(Alphabet)
      BY <3>1, <3>2, ConcatLen
    <3>6. Len(g \o (t \o j)) = l + (a + b)
      <4>1. PICK v \in Seq(Alphabet) : v = t \o j
        BY <3>5
      <4>2. Len(g \o v) = Len(g) + Len(v)
        BY ConcatLen
      <4> QED
        BY <3>3, <3>5, <4>1, <4>2, Zenon
    <3>7. Len(Said(its, k)) = l + (a + b)
      BY <1>5, <1>8, <3>6, Zenon
    <3>8. x < a /\ e <= b
      BY <1>8, <2>1, <3>1, <3>2, <3>4
    <3>9. l + x + e < l + (a + b)
      BY <3>8
    <3> QED
      BY <2>1, <3>3, <3>4, <3>7, <3>9
  <2>3. file' = SubSeq(Said(its, k), 1, Len(file'))
    <3>1. PICK y \in Nat : y = Len(g) + x
      OBVIOUS
    <3>2. BeginIs(g, t, j, x, y)
      BY <1>8, <3>1, BeginsWith
    <3> QED
      BY <1>5, <1>8, <2>1, <3>1, <3>2, Zenon DEF BeginIs
  <2>4. rc' # "OK"
    BY <2>1
  <2>5. Broken(its, k)'
    BY <1>4, <1>8, <1>11, <2>1, <2>2, <2>3, <2>4 DEF Broken
  <2> QED
    BY <2>5
<1> QED
  BY <1>12, <1>13

LEMMA WriteStep ==
  ASSUME NEW its, CallIs(its), NEW k \in 0 .. GoodLen(its), Writing(its, k), Write
  PROVE  Writing(its, k)' /\ stored' = stored
<1>1. pc' = pc /\ pos' = pos /\ literal' = literal /\ args' = args /\ stored' = stored
  BY DEF Write, parser
<1>2. (WritingWell(its, k) \/ Broken(its, k))'
  <2>1. CASE WritingWell(its, k)
    BY <2>1, StrKeeps, FileKeeps
  <2>2. CASE Broken(its, k)
    BY <2>2, BrokenStays
  <2> QED
    BY <2>1, <2>2 DEF Writing
<1> QED
  BY <1>1, <1>2 DEF Writing

-----------------------------------------------------------------------------
(***************************************************************************)
(* The end of a call.                                                      *)
(***************************************************************************)
\* What the first k items of a call are to the whole.
PartOf(its, k, m, M) ==
  /\ m = GoodLen(its) /\ M = TextOf(GoodPart(its))
  /\ k = m => Said(its, k) = M
  /\ Len(Said(its, k)) <= Len(M)
  /\ \A y \in 0 .. Len(Said(its, k)) : SubSeq(Said(its, k), 1, y) = SubSeq(M, 1, y)
  /\ k = Len(its) => k = m /\ GoodPart(its) = its
  /\ k < Len(its) /\ ~IsGood(its[k + 1]) => k = m /\ GoodPart(its) # its
  /\ StoredBy(its, m) = Flat(StoredAll(its))

LEMMA PrefixOf ==
  ASSUME NEW s \in Seq(Alphabet), NEW r \in Seq(Alphabet), NEW t, t = s \o r
  PROVE  /\ Len(s) <= Len(t)
         /\ \A y \in 0 .. Len(s) : SubSeq(s, 1, y) = SubSeq(t, 1, y)
OBVIOUS

LEMMA PartIs ==
  ASSUME NEW its, GoodCall(its), NEW k \in 0 .. GoodLen(its)
  PROVE  \E m \in Nat, M \in Seq(Alphabet) : PartOf(its, k, m, M)
<1>1. its \in Seq(Item)
  BY DEF GoodCall
<1>2. PICK c \in Nat : c = Len(its)
  BY <1>1
<1>3. PICK m \in 0 .. c : m = GoodLen(its) /\ GoodPart(its) = SubSeq(its, 1, m)
  BY <1>1, <1>2, GoodPartIs
<1>4. m \in Nat /\ k \in 0 .. m
  BY <1>3
<1>5. /\ \A x \in 0 .. m : Said(its, x) \in Seq(Alphabet)
      /\ \A x \in 0 .. m : Extended(Alphabet, Said(its, x), Said(its, m))
      /\ TextOf(GoodPart(its)) = Said(its, m)
  BY <1>3, <1>4, SaidIs
<1>6. PICK M \in Seq(Alphabet) : M = TextOf(GoodPart(its)) /\ M = Said(its, m)
  BY <1>4, <1>5
<1>7. PICK s \in Seq(Alphabet) : s = Said(its, k)
  BY <1>4, <1>5
<1>8. PICK r \in Seq(Alphabet) : M = s \o r
  <2>1. Extended(Alphabet, s, M)
    BY <1>4, <1>5, <1>6, <1>7, Zenon
  <2> QED
    BY <2>1 DEF Extended
<1>9. Len(s) <= Len(M) /\ \A y \in 0 .. Len(s) : SubSeq(s, 1, y) = SubSeq(M, 1, y)
  BY <1>8, PrefixOf
<1>10. k = c => k = m /\ GoodPart(its) = its
  <2>1. k = c => k = m
    BY <1>3, <1>4
  <2>2. SubSeq(its, 1, c) = its
    BY <1>1, <1>2, WholeText
  <2> QED
    BY <1>3, <2>1, <2>2
<1>11. k < c /\ ~IsGood(its[k + 1]) => k = m /\ GoodPart(its) # its
  <2>1. ASSUME k < c, ~IsGood(its[k + 1]) PROVE k = m
    BY <1>2, <1>3, <2>1, BadNext
  <2>2. m < c => SubSeq(its, 1, m) # its
    <3>1. Len(SubSeq(its, 1, m)) = m
      BY <1>1, <1>2, <1>3
    <3> QED
      BY <1>2, <3>1
  <2> QED
    BY <1>3, <2>1, <2>2
<1>12. StoredBy(its, m) = Flat(StoredAll(its))
  BY <1>3, <1>4, StoredIs
<1>13. PartOf(its, k, m, M)
  BY <1>2, <1>3, <1>6, <1>7, <1>9, <1>10, <1>11, <1>12, Zenon DEF PartOf
<1> QED
  BY <1>4, <1>13

\* The NUL is put behind what had room.
LEMMA NulPut ==
  ASSUME NEW M \in Seq(Alphabet), Handed(M), size \in Nat, Finish
  PROVE  buffer' = IF size = 0 THEN <<>>
                   ELSE LET n == IF Len(M) < size THEN Len(M) ELSE size - 1
                        IN [i \in 0 .. n |-> IF i = n THEN NUL ELSE M[i + 1]]
<1>1. size # File
  BY DEF File
<1>2. PICK l \in Nat : l = Len(M)
  OBVIOUS
<1>3. PICK R \in Nat : R = Room(size) /\ (size = 0 => R = 0) /\ (size # 0 => R = size - 1)
  BY RoomIs
<1>4. PICK a \in Nat : a = IF l < R THEN l ELSE R
  OBVIOUS
<1>5. room = R - a /\ buffer = [i \in 0 .. a - 1 |-> M[i + 1]]
  BY <1>1, <1>2, <1>3, <1>4 DEF Handed, Kept
<1>6. CASE size = 0
  <2>1. a = 0
    BY <1>3, <1>4, <1>6
  <2>2. 0 .. a - 1 = {}
    BY <2>1
  <2>3. buffer = <<>>
    BY <1>5, <2>2
  <2>4. buffer' = buffer
    BY <1>6 DEF Finish
  <2> QED
    BY <1>6, <2>3, <2>4
<1>7. CASE size # 0
  <2>1. a = IF l < size THEN l ELSE size - 1
    BY <1>3, <1>4, <1>7
  <2>2. size - 1 - room = a
    BY <1>3, <1>4, <1>5, <1>7
  <2>3. buffer' = [i \in DOMAIN buffer \cup {a} |-> IF i = a THEN NUL ELSE buffer[i]]
    <3>1. ~(size <= 0)
      BY <1>7
    <3> QED
      BY <2>2, <3>1 DEF Finish
  <2>4. DOMAIN buffer \cup {a} = 0 .. a
    <3>1. DOMAIN buffer = 0 .. a - 1
      BY <1>5
    <3> QED
      BY <3>1
  <2>5. ASSUME NEW i \in 0 .. a
        PROVE  (IF i = a THEN NUL ELSE buffer[i]) = IF i = a THEN NUL ELSE M[i + 1]
    BY <1>5
  <2>6. buffer' = [i \in 0 .. a |-> IF i = a THEN NUL ELSE buffer[i]]
    BY <2>3, <2>4, Zenon
  <2>7. buffer' = [i \in 0 .. a |-> IF i = a THEN NUL ELSE M[i + 1]]
    BY <2>5, <2>6
  <2> QED
    BY <1>2, <1>7, <2>1, <2>7, Zenon
<1> QED
  BY <1>6, <1>7

\* How a call ends when all that was meant has been written.
LEMMA FinishWell ==
  ASSUME NEW its, CallIs(its), NEW M \in Seq(Alphabet), M = TextOf(GoodPart(its)),
         Handed(M), stored = Flat(StoredAll(its)),
         rc \in {"OK", "ERR"}, rc = "OK" <=> GoodPart(its) = its, Finish
  PROVE  StringResult' /\ FileResult'
<1>1. /\ items' = its /\ size' = size /\ file' = file /\ stored' = stored
      /\ ret' = IF rc = "ERR" THEN -1 ELSE written
  BY DEF Finish, call, CallIs
<1>2. PICK l \in Nat : l = Len(M)
  OBVIOUS
<1>3. written = l
  BY <1>2 DEF Handed
<1>4. Meant' = M /\ (AllGood' <=> GoodPart(its) = its)
  BY <1>1 DEF Meant, AllGood
<1>5. ret' = IF AllGood' THEN l ELSE -1
  BY <1>1, <1>3, <1>4
<1>6. StringResult'
  <2> SUFFICES ASSUME size # File PROVE StringResult'
    BY <1>1 DEF StringResult
  <2>1. size \in Nat
    BY DEF CallIs
  <2>2. buffer' = IF size = 0 THEN <<>>
                  ELSE LET n == IF Len(M) < size THEN Len(M) ELSE size - 1
                       IN [i \in 0 .. n |-> IF i = n THEN NUL ELSE M[i + 1]]
    BY <2>1, NulPut
  <2>3. stored' = Flat([i \in 1 .. Len(GoodPart(its)) |->
                         IF its[i].conv = "n" THEN <<Len(TextOf(SubSeq(its, 1, i - 1)))>>
                         ELSE <<>>])
    BY <1>1 DEF StoredAll, GoodLen
  <2> QED
    BY <1>1, <1>2, <1>4, <1>5, <2>2, <2>3, Zenon DEF StringResult
<1>7. FileResult'
  <2> SUFFICES ASSUME size = File PROVE FileResult'
    BY <1>1 DEF FileResult
  <2>1. file' = M
    BY <1>1 DEF Handed
  <2>2. ret' \in {-1, Len(file')} /\ (ret' = Len(M) <=> AllGood')
    BY <1>2, <1>5, <2>1
  <2>3. Len(file') <= Len(M) /\ file' = SubSeq(M, 1, Len(file'))
    BY <1>2, <2>1, WholeText
  <2> QED
    BY <1>4, <2>1, <2>2, <2>3, Zenon DEF FileResult
<1> QED
  BY <1>6, <1>7

\* How a call ends when the file has a gap.
LEMMA FinishBroken ==
  ASSUME NEW its, CallIs(its), NEW k \in 0 .. GoodLen(its), Broken(its, k), Finish
  PROVE  StringResult' /\ FileResult'
<1>1. /\ items' = its /\ size' = size /\ file' = file
      /\ ret' = IF rc = "ERR" THEN -1 ELSE written
  BY DEF Finish, call, CallIs
<1>2. PICK m \in Nat, M \in Seq(Alphabet) : PartOf(its, k, m, M)
  BY PartIs DEF CallIs
<1>3. PICK s \in Seq(Alphabet) : s = Said(its, k)
  BY SaidTyped DEF CallIs
<1>4. /\ M = TextOf(GoodPart(its)) /\ Len(s) <= Len(M)
      /\ \A y \in 0 .. Len(s) : SubSeq(s, 1, y) = SubSeq(M, 1, y)
  BY <1>2, <1>3 DEF PartOf
<1>5. /\ size = File /\ rc \in {"ERR", "END"} /\ file \in Seq(Alphabet) /\ written = Len(file)
      /\ todo \in Seq(PieceSet) /\ Len(file) + Len(Joined(todo)) < Len(s)
      /\ Unpadded(its) => file = SubSeq(s, 1, Len(file))
  BY <1>3 DEF Broken
<1>6. PICK f \in Nat : f = Len(file)
  BY <1>5
<1>7. PICK d \in Nat : d = Len(s)
  OBVIOUS
<1>8. PICK l \in Nat : l = Len(M)
  OBVIOUS
<1>9. f < d /\ d <= l
  <2>1. PICK e \in Nat : e = Len(Joined(todo))
    BY <1>5, JoinedTyped
  <2>2. f + e < d
    BY <1>5, <1>6, <1>7, <2>1
  <2> QED
    BY <1>4, <1>7, <1>8, <2>2
<1>10. Meant' = M
  BY <1>1, <1>4 DEF Meant
<1>11. file' # M /\ ret' # l /\ ret' \in {-1, f} /\ Len(file') = f
  BY <1>1, <1>5, <1>6, <1>8, <1>9
<1>12. Unpadded(its) => file' = SubSeq(M, 1, f)
  <2>1. SubSeq(s, 1, f) = SubSeq(M, 1, f)
    <3>1. f \in 0 .. d
      BY <1>9
    <3> QED
      BY <1>4, <1>7, <3>1
  <2> QED
    BY <1>1, <1>5, <1>6, <2>1
<1>13. f <= l
  BY <1>9
<1>14. StringResult'
  BY <1>1, <1>5 DEF StringResult
<1>15. FileResult'
  BY <1>1, <1>8, <1>10, <1>11, <1>12, <1>13, Zenon DEF FileResult, Unpadded
<1> QED
  BY <1>14, <1>15

LEMMA FinishStep ==
  ASSUME NEW its, CallIs(its), NEW k \in 0 .. GoodLen(its), stored = StoredBy(its, k),
         Finishing(its, k), Finish
  PROVE  pc' = "done" /\ StringResult' /\ FileResult' /\ stored' = stored
<1>1. pc' = "done" /\ stored' = stored
  BY DEF Finish
<1>2. PICK m \in Nat, M \in Seq(Alphabet) : PartOf(its, k, m, M)
  BY PartIs DEF CallIs
<1>3. ASSUME k = m, rc \in {"OK", "ERR"}, rc = "OK" <=> GoodPart(its) = its,
             Handed(Said(its, k))
      PROVE  StringResult' /\ FileResult'
  <2>1. Said(its, k) = M /\ M = TextOf(GoodPart(its)) /\ StoredBy(its, m) = Flat(StoredAll(its))
    BY <1>2, <1>3 DEF PartOf
  <2>2. Handed(M)
    BY <1>3, <2>1
  <2>3. stored = Flat(StoredAll(its))
    BY <1>3, <2>1
  <2> QED
    BY <1>3, <2>1, <2>2, <2>3, FinishWell
<1>4. CASE rc = "OK" /\ k = Len(its) /\ Handed(Said(its, k))
  <2>1. k = m /\ GoodPart(its) = its
    BY <1>2, <1>4 DEF PartOf
  <2> QED
    BY <1>1, <1>3, <1>4, <2>1
<1>5. CASE rc = "ERR" /\ k < Len(its) /\ ~IsGood(its[k + 1]) /\ Handed(Said(its, k))
  <2>1. k = m /\ GoodPart(its) # its
    BY <1>2, <1>5 DEF PartOf
  <2> QED
    BY <1>1, <1>3, <1>5, <2>1
<1>6. CASE Broken(its, k)
  BY <1>1, <1>6, FinishBroken
<1> QED
  BY <1>4, <1>5, <1>6 DEF Finishing

-----------------------------------------------------------------------------
(***************************************************************************)
(* The theorems.                                                           *)
(***************************************************************************)
LEMMA InitHolds == Init => PrintfInv
<1> SUFFICES ASSUME Init PROVE PrintfInv
  OBVIOUS
<1>1. PICK c \in Calls : items = c.items /\ size = c.size
  BY DEF Init
<1>2. PICK its : its = items
  OBVIOUS
<1>3. GoodCall(its) /\ size \in Nat \cup {File}
  BY <1>1, <1>2, PrintfAssumption
<1>4. its \in Seq(Item)
  BY <1>3 DEF GoodCall
<1>5. PICK m \in Nat : m = GoodLen(its) /\ 0 \in 0 .. m
  BY <1>4, GoodPartIs
<1>6. Said(its, 0) = <<>> /\ StoredBy(its, 0) = <<>>
  BY <1>3, <1>5, SaidIs, StoredIs
<1>7. PICK l \in Nat : l = Len(its)
  BY <1>4
<1>8. Before(its, 0) = <<>> /\ ArgumentsOf(its) = Rest(its, 0)
  BY <1>3, <1>7, BeforeIs, RestIs
<1>9. Here(its, 0) = 1
  BY <1>8 DEF Here
<1>10. Handed(<<>>)
  <2>1. PICK R \in Nat : R = Room(size)
    <3>1. Room(-1) \in Nat
      BY DEF Room
    <3> QED
      BY <1>3, <3>1, RoomIs DEF File
  <2>2. Kept(0) = 0 /\ Len(<<>>) = 0
    BY <2>1 DEF Kept
  <2>3. [i \in 0 .. 0 - 1 |-> <<>>[i + 1]] = <<>>
    OBVIOUS
  <2>4. written = 0 /\ room = R - 0 /\ buffer = <<>> /\ file = <<>>
    BY <2>1 DEF Init
  <2>5. <<>> \in Seq(Alphabet)
    OBVIOUS
  <2> QED
    BY <2>1, <2>2, <2>3, <2>4, <2>5, Zenon DEF Handed
<1>11. ScanningAt(its, 0, 0)
  <2>1. pos = Here(its, 0) + 0 /\ literal \in 1 .. pos
    BY <1>9 DEF Init
  <2>2. Within(its, 0, 0)
    BY DEF Within
  <2>3. <<>> \o SubSeq(format, literal, pos - 1) = Scanned(its, 0, 0)
    <3>1. SubSeq(format, 1, 0) = <<>>
      <4>1. format \in Seq(Alphabet)
        BY <1>2, <1>3, FormatTyped DEF Init
      <4> QED
        BY <4>1
    <3>2. literal = 1 /\ pos - 1 = 0
      BY DEF Init
    <3>3. Scanned(its, 0, 0) = <<>> \o <<>>
      BY <1>6 DEF Scanned
    <3> QED
      BY <3>1, <3>2, <3>3, Zenon
  <2> QED
    BY <1>10, <2>1, <2>2, <2>3 DEF ScanningAt
<1>12. Scanning(its, 0)
  <2>1. pc = "format" /\ rc = "OK" /\ args = Rest(its, 0)
    BY <1>2, <1>8 DEF Init
  <2> QED
    BY <1>11, <2>1 DEF Scanning
<1>13. CallIs(its) /\ stored = StoredBy(its, 0)
  BY <1>2, <1>3, <1>6 DEF CallIs, Init
<1>14. DoneUpTo(its, 0)
  BY <1>5, <1>12, <1>13 DEF DoneUpTo, Done
<1> QED
  BY <1>14 DEF PrintfInv

LEMMA Stutters ==
  ASSUME NEW its, NEW k, DoneUpTo(its, k), UNCHANGED vars
  PROVE  DoneUpTo(its, k)'
<1>1. /\ items' = items /\ size' = size /\ format' = format /\ args' = args /\ pos' = pos
      /\ literal' = literal /\ stage' = stage /\ spec' = spec /\ todo' = todo /\ rc' = rc
      /\ written' = written /\ room' = room /\ buffer' = buffer /\ file' = file
      /\ stored' = stored /\ ret' = ret /\ pc' = pc
  BY DEF vars, call, parser, output
<1>2. \A g : Handed(g) => Handed(g)'
  BY <1>1 DEF Handed, Kept
<1>3. ASSUME Scanning(its, k) PROVE Scanning(its, k)'
  BY <1>1, <1>2, <1>3, Zenon DEF Scanning, ScanningAt
<1>4. ASSUME Parsing(its, k) PROVE Parsing(its, k)'
  <2>1. Handed(Said(its, k))'
    <3>1. PICK g : g = Said(its, k)
      OBVIOUS
    <3>2. Handed(g)'
      BY <1>2, <1>4, <3>1 DEF Parsing
    <3> QED
      BY <3>1, <3>2
  <2>2. PICK item, s, r : item = its[k + 1] /\ s = Here(its, k) /\ r = Rest(its, k + 1)
    OBVIOUS
  <2>3. ReadingItem(item, s, r)
    BY <1>4, <2>2 DEF Parsing
  <2>4. ReadingItem(item, s, r)'
    <3>1. FlagStage(item, s, r) => FlagStage(item, s, r)'
      BY <1>1 DEF FlagStage
    <3>2. WidthStage(item, s, r) => WidthStage(item, s, r)'
      BY <1>1 DEF WidthStage
    <3>3. PrecStage(item, s, r) => PrecStage(item, s, r)'
      BY <1>1 DEF PrecStage, SpecIs
    <3>4. LengthStage(item, s, r) => LengthStage(item, s, r)'
      BY <1>1 DEF LengthStage, SpecIs
    <3>5. ConvStage(item, s, r) => ConvStage(item, s, r)'
      BY <1>1 DEF ConvStage
    <3> QED
      BY <2>3, <3>1, <3>2, <3>3, <3>4, <3>5 DEF ReadingItem
  <2> QED
    BY <1>1, <1>4, <2>1, <2>2, <2>4, Zenon DEF Parsing
<1>5. ASSUME Broken(its, k) PROVE Broken(its, k)'
  BY <1>1, <1>5 DEF Broken
<1>6. ASSUME Writing(its, k) PROVE Writing(its, k)'
  <2>1. ASSUME WritingWell(its, k) PROVE WritingWell(its, k)'
    BY <1>1, <1>2, <2>1 DEF WritingWell
  <2> QED
    BY <1>1, <1>5, <1>6, <2>1 DEF Writing
<1>7. ASSUME Finishing(its, k) PROVE Finishing(its, k)'
  <2>1. PICK g : g = Said(its, k)
    OBVIOUS
  <2>2. Handed(g) => Handed(g)'
    BY <1>2
  <2>3. Handed(Said(its, k)) => Handed(Said(its, k))'
    BY <2>1, <2>2
  <2> QED
    BY <1>1, <1>5, <1>7, <2>3 DEF Finishing
<1>8. ASSUME StringResult /\ FileResult PROVE StringResult' /\ FileResult'
  BY <1>1, <1>8 DEF StringResult, FileResult, Meant, AllGood
<1>9. Done(its, k)'
  BY <1>1, <1>3, <1>4, <1>6, <1>7, <1>8 DEF DoneUpTo, Done
<1>10. CallIs(its)'
  BY <1>1 DEF DoneUpTo, CallIs
<1> QED
  BY <1>1, <1>9, <1>10 DEF DoneUpTo

\* What a step leaves of the call.
LEMMA CallKept ==
  ASSUME NEW its, CallIs(its), Next
  PROVE  CallIs(its)'
<1>1. UNCHANGED <<call, format>>
  BY DEF Next, Scan, Literal, StartSpec, EndOfFormat, Parse, Flag, NoFlag, WidthStar,
         WidthNumber, WidthTooLarge, NoWidth, PrecStar, PrecNumber, PrecTooLarge, PrecZero,
         NoPrec, Length, NoLength, Convert, BadConversion, EndInSpec, Parsed, Fail, Write,
         Continue, Finish, parser
<1> QED
  BY <1>1, CallStays

LEMMA NextHolds ==
  ASSUME NEW its, NEW k, DoneUpTo(its, k), Next
  PROVE  \E l : DoneUpTo(its, l)'
<1>1. CallIs(its) /\ k \in 0 .. GoodLen(its) /\ stored = StoredBy(its, k) /\ Done(its, k)
  BY DEF DoneUpTo
<1>2. CallIs(its)'
  BY <1>1, CallKept
<1>3. ASSUME NEW l, l \in 0 .. GoodLen(its), stored' = StoredBy(its, l), Done(its, l)'
      PROVE  \E x : DoneUpTo(its, x)'
  <2>1. DoneUpTo(its, l)'
    BY <1>2, <1>3 DEF DoneUpTo
  <2> QED
    BY <2>1
<1>4. ASSUME stored' = stored, Done(its, k)' PROVE \E x : DoneUpTo(its, x)'
  <2>1. stored' = StoredBy(its, k)
    BY <1>1, <1>4
  <2> QED
    BY <1>1, <1>3, <1>4, <2>1
<1>5. CASE Scan
  <2>1. Scanning(its, k)
    BY <1>1, <1>5 DEF Done, Scan, Parsing, Writing, Finishing
  <2>2. PICK l \in 0 .. GoodLen(its) : stored' = StoredBy(its, l) /\ Scanning(its, l)'
    BY <1>1, <1>5, <2>1, ScanStep
  <2>3. Done(its, l)'
    BY <2>2 DEF Done
  <2> QED
    BY <1>3, <2>2, <2>3
<1>6. CASE Literal
  <2>1. Scanning(its, k)
    BY <1>1, <1>6 DEF Done, Literal, Parsing, Writing, Finishing
  <2> QED
    BY <1>1, <1>4, <1>6, <2>1, LiteralStep DEF Done
<1>7. CASE StartSpec
  <2>1. Scanning(its, k)
    BY <1>1, <1>7 DEF Done, StartSpec, Parsing, Writing, Finishing
  <2> QED
    BY <1>1, <1>4, <1>7, <2>1, StartSpecStep DEF Done
<1>8. CASE EndOfFormat
  <2>1. Scanning(its, k)
    BY <1>1, <1>8 DEF Done, EndOfFormat, Parsing, Writing, Finishing
  <2> QED
    BY <1>1, <1>4, <1>8, <2>1, EndOfFormatStep DEF Done
<1>9. CASE Parse
  <2>1. Parsing(its, k)
    <3>1. pc = "spec"
      BY <1>9 DEF Parse, Flag, NoFlag, WidthStar, WidthNumber, WidthTooLarge, NoWidth, PrecStar,
             PrecNumber, PrecTooLarge, PrecZero, NoPrec, Length, NoLength, Convert,
             BadConversion, EndInSpec, Stage
    <3> QED
      BY <1>1, <3>1 DEF Done, Scanning, Writing, Finishing
  <2>2. CASE ParseSome
    BY <1>1, <1>4, <2>1, <2>2, ParseSomeKeeps DEF Done
  <2>3. CASE ParseBad
    BY <1>1, <1>4, <2>1, <2>3, ParseBadKeeps DEF Done
  <2>4. CASE Convert
    <3>1. PICK l : l = k + 1
      OBVIOUS
    <3>2. l \in 0 .. GoodLen(its) /\ stored' = StoredBy(its, l) /\ Writing(its, l)'
      <4>1. k + 1 \in 0 .. GoodLen(its) /\ stored' = StoredBy(its, k + 1) /\ Writing(its, k + 1)'
        BY <1>1, <2>1, <2>4, ConvertKeeps
      <4> QED
        BY <3>1, <4>1
    <3>3. Done(its, l)'
      BY <3>2 DEF Done
    <3> QED
      BY <1>3, <3>2, <3>3
  <2> QED
    BY <1>9, <2>2, <2>3, <2>4 DEF Parse, ParseSome, ParseBad
<1>10. CASE Write
  <2>1. Writing(its, k)
    BY <1>1, <1>10 DEF Done, Write, Parsing, Scanning, Finishing
  <2> QED
    BY <1>1, <1>4, <1>10, <2>1, WriteStep DEF Done
<1>11. CASE Continue
  <2>1. Writing(its, k)
    BY <1>1, <1>11 DEF Done, Continue, Parsing, Scanning, Finishing
  <2> QED
    BY <1>1, <1>4, <1>11, <2>1, ContinueStep DEF Done
<1>12. CASE Finish
  <2>1. Finishing(its, k)
    BY <1>1, <1>12 DEF Done, Finish, Parsing, Scanning, Writing
  <2> QED
    BY <1>1, <1>4, <1>12, <2>1, FinishStep DEF Done
<1> QED
  BY <1>5, <1>6, <1>7, <1>8, <1>9, <1>10, <1>11, <1>12 DEF Next

\* Every call is between two of its items, or in one, and has written what the items
\* before it mean, whatever vprintf_parse_spec and the two functions that write do next.
THEOREM PrintfInvHolds == Spec => []PrintfInv
<1>1. PrintfInv /\ [Next]_vars => PrintfInv'
  <2> SUFFICES ASSUME PrintfInv, [Next]_vars PROVE PrintfInv'
    OBVIOUS
  <2>1. PICK its, k : DoneUpTo(its, k)
    BY DEF PrintfInv
  <2>2. CASE Next
    <3>1. PICK l : DoneUpTo(its, l)'
      BY <2>1, <2>2, NextHolds
    <3> QED
      BY <3>1 DEF PrintfInv
  <2>3. CASE UNCHANGED vars
    <3>1. DoneUpTo(its, k)'
      BY <2>1, <2>3, Stutters
    <3> QED
      BY <3>1 DEF PrintfInv
  <2> QED
    BY <2>2, <2>3
<1> QED
  BY <1>1, InitHolds, PTL DEF Spec

LEMMA ResultsAre == PrintfInv => StringResult /\ FileResult
<1> SUFFICES ASSUME PrintfInv PROVE StringResult /\ FileResult
  OBVIOUS
<1>1. PICK its, k : Done(its, k)
  BY DEF PrintfInv, DoneUpTo
<1>2. CASE pc = "done"
  BY <1>1, <1>2 DEF Done, Scanning, Parsing, Writing, Finishing
<1>3. CASE pc # "done"
  BY <1>3 DEF StringResult, FileResult
<1> QED
  BY <1>2, <1>3

\* vsnprintf, for any format, arguments and buffer size: the length or -1, the text that
\* fits and a NUL, nothing behind it, and the lengths that %n stores.
THEOREM StringResultHolds == Spec => []StringResult
BY PrintfInvHolds, ResultsAre, PTL

\* vfprintf over a kernel that writes less than asked or fails at any call: the length is
\* returned exactly if all has reached the file, and without padding nothing is written
\* after a gap.
THEOREM FileResultHolds == Spec => []FileResult
BY PrintfInvHolds, ResultsAre, PTL
=============================================================================
