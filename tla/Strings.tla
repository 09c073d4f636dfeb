------------------------------ MODULE Strings ------------------------------
(***************************************************************************)
(* string.c: functions on memory and on strings.  Memory is a function of  *)
(* the addresses 0 .. Size - 1; a string is an address, and ends before    *)
(* the next zero.  A char is signed.  A loop is named by the place where   *)
(* it stops, and a loop that stores by the order of its stores.            *)
(*                                                                         *)
(* Each function is called once, on any memory in which it stays; strtok   *)
(* is called again and again.                                              *)
(***************************************************************************)
EXTENDS Integers, Sequences, SequencesExt

CONSTANTS
  Size,     \* of the memory: a bound
  Letters,  \* the chars besides 0
  NoText    \* as in Tokens

ASSUME StringsAssumption ==
  Size \in Nat \ {0} /\ Letters \subseteq Int \ {0}

VARIABLES
  sfn,    \* the function that was called, "none" before
  arg,    \* its arguments: p and q, the char c, the size n
  mem,
  sret,   \* its result: an address, a length or the sign of a comparison
  saved,  \* strtok's state
  toks,   \* history: the addresses of the tokens it has returned
  mem0    \* history: the memory before

stringVars == <<sfn, arg, mem, sret, saved, toks, mem0>>

Null == 0 - 1
Addresses == 0 .. Size - 1
NoArgs == [p |-> 0, q |-> 0, c |-> 0, n |-> 0]

StringsInit ==
  /\ mem \in [Addresses -> Letters \cup {0}]
  /\ mem[Size - 1] = 0
  /\ sfn = "none" /\ arg = NoArgs /\ sret = Null /\ saved = Null
  /\ toks = <<>> /\ mem0 = mem
\* Nothing is going to be called.
StringsIdle == StringsInit /\ mem = [s \in Addresses |-> 0]
-----------------------------------------------------------------------------
(***************************************************************************)
(* The loops.                                                              *)
(***************************************************************************)

\* The first address from p on at which Stop holds.
First(p, Stop(_)) ==
  CHOOSE s \in p .. Size : Stop(s) /\ \A r \in p .. s - 1 : ~Stop(r)

Strlen(m, p) == First(p, LAMBDA s : m[s] = 0) - p
Chars(m, p) == {m[s] : s \in p .. p + Strlen(m, p) - 1}

\* memchr, and strchr and strrchr, which find the zero too.
Memchr(m, p, c, n) ==
  LET s == First(p, LAMBDA r : r = p + n \/ m[r] = c)
  IN  IF s = p + n THEN Null ELSE s

Strchr(m, p, c) ==
  LET s == First(p, LAMBDA r : m[r] \in {c, 0})
  IN  IF m[s] = c THEN s ELSE Null

Strrchr(m, p, c) ==
  LET found == {s \in p .. p + Strlen(m, p) : m[s] = c}
  IN  IF found = {} THEN Null ELSE CHOOSE s \in found : \A r \in found : r <= s

Sign(l, r) == IF l < r THEN 0 - 1 ELSE 1

Memcmp(m, p, q, n) ==
  LET d == First(0, LAMBDA k : k = n \/ m[p + k] # m[q + k])
  IN  IF d = n THEN 0 ELSE Sign(m[p + d], m[q + d])

\* strcmp is strncmp without a bound.
Strncmp(m, p, q, n) ==
  LET d == First(0, LAMBDA k : k = n \/ m[p + k] # m[q + k] \/ m[p + k] = 0)
  IN  IF d = n \/ m[p + d] = m[q + d] THEN 0 ELSE Sign(m[p + d], m[q + d])

Strspn(m, p, set) == First(p, LAMBDA s : m[s] = 0 \/ m[s] \notin set) - p
Strcspn(m, p, set) == First(p, LAMBDA s : m[s] = 0 \/ m[s] \in set) - p

Strpbrk(m, p, set) ==
  LET s == p + Strcspn(m, p, set)
  IN  IF m[s] = 0 THEN Null ELSE s

\* strstr tries every place that has the first char of the string it looks
\* for, until the rest of the text is too short for it.
Strstr(m, p, q) ==
  LET len == Strlen(m, q)
      Stops(s) == s = Null \/ s + len > p + Strlen(m, p) \/ Memcmp(m, s, q, len) = 0
      try[k \in 0 .. Size] ==
        IF k = 0 THEN Strchr(m, p, m[q])
        ELSE IF Stops(try[k - 1]) THEN try[k - 1] ELSE Strchr(m, try[k - 1] + 1, m[q])
      s == try[Size]
  IN  IF len = 0 THEN p
      ELSE IF s = Null \/ s + len > p + Strlen(m, p) THEN Null ELSE s
-----------------------------------------------------------------------------
(***************************************************************************)
(* The stores.                                                             *)
(***************************************************************************)
CopyByte(m, p, q) == [m EXCEPT ![p] = m[q]]

Forward(m, p, q, n) ==
  LET copied[k \in 0 .. n] ==
        IF k = 0 THEN m ELSE CopyByte(copied[k - 1], p + k - 1, q + k - 1)
  IN  copied[n]

Backward(m, p, q, n) ==
  LET copied[k \in 0 .. n] ==
        IF k = 0 THEN m ELSE CopyByte(copied[k - 1], p + n - k, q + n - k)
  IN  copied[n]

Set(m, p, c, n) == [s \in Addresses |-> IF s \in p .. p + n - 1 THEN c ELSE m[s]]

\* A mutation: the bytes are copied upwards in any case.
MemmoveUp(m, p, q, n) == Forward(m, p, q, n)

\* memcpy if it can be, and otherwise from the end that is not in the way.
Memmove(m, p, q, n) ==
  IF p + n <= q \/ q + n < p THEN Forward(m, p, q, n)
  ELSE IF q < p THEN Backward(m, p, q, n)
  ELSE Forward(m, p, q, n)

Shorter(j, k) == IF j < k THEN j ELSE k

\* strncpy fills up with zeroes and may leave no zero at the end.
Strncpy(m, p, q, n) ==
  LET len == Shorter(Strlen(m, q), n)
  IN  Set(Forward(m, p, q, len), p + len, 0, n - len)

\* strncat always ends with a zero; strcat is strncat without a bound, and
\* strcpy is strcat to an empty string.
Strncat(m, p, q, n) ==
  LET to == p + Strlen(m, p)
      len == Shorter(Strlen(m, q), n)
  IN  Set(Forward(m, to, q, len), to + len, 0, 1)

\* malloc has given p: memchr of the zero says how much is copied.
Strndup(m, p, q, n) ==
  LET end == Memchr(m, q, 0, n)
      len == IF end = Null THEN n ELSE end - q
  IN  Forward(Set(m, p + len, 0, 1), p, q, len)
-----------------------------------------------------------------------------
(***************************************************************************)
(* The calls.  A function that has restrict in its signature is called on  *)
(* bytes that do not overlap, and every function has the room it needs.    *)
(***************************************************************************)
Room(p, n) == p + n <= Size
Apart(p, n, q, k) == p + n <= q \/ q + k <= p

Args(p, q, n) == [p |-> p, q |-> q, c |-> 0, n |-> n]
CharArgs(p, c, n) == [p |-> p, q |-> 0, c |-> c, n |-> n]

Calls(f, a) == sfn' = f /\ arg' = a /\ UNCHANGED <<saved, toks, mem0>>
Finds(f, a, r) == Calls(f, a) /\ sret' = r /\ UNCHANGED mem
Stores(f, a, m) == Calls(f, a) /\ sret' = a.p /\ mem' = m

CallMemory(p, q, n) ==
  /\ sfn = "none" /\ Room(p, n) /\ Room(q, n)
  /\ \/ Stores("memmove", Args(p, q, n), Memmove(mem, p, q, n))
     \/ Finds("memcmp", Args(p, q, n), Memcmp(mem, p, q, n))

CallMemchr(p, c, n) ==
  /\ sfn = "none" /\ Room(p, n)
  /\ Finds("memchr", CharArgs(p, c, n), Memchr(mem, p, c, n))

\* What is at q is read up to its zero; to is the length of p's string.
CallCopy(p, q, n) ==
  LET len == Shorter(Strlen(mem, q), n)
      to == Strlen(mem, p)
      Fits(s, k) == Room(s, k) /\ Apart(s, k, q, Strlen(mem, q) + 1)
  IN  /\ sfn = "none"
      /\ \/ Fits(p, n) /\ Stores("strncpy", Args(p, q, n), Strncpy(mem, p, q, n))
         \/ /\ Fits(p, to + len + 1)
            /\ Stores("strncat", Args(p, q, n), Strncat(mem, p, q, n))
         \/ Fits(p, len + 1) /\ Stores("strndup", Args(p, q, n), Strndup(mem, p, q, n))

CallChar(p, c) ==
  /\ sfn = "none"
  /\ \/ Finds("strchr", CharArgs(p, c, 0), Strchr(mem, p, c))
     \/ Finds("strrchr", CharArgs(p, c, 0), Strrchr(mem, p, c))

CallFind(p, q) ==
  /\ sfn = "none"
  /\ \/ Finds("strspn", Args(p, q, 0), Strspn(mem, p, Chars(mem, q)))
     \/ Finds("strcspn", Args(p, q, 0), Strcspn(mem, p, Chars(mem, q)))
     \/ Finds("strpbrk", Args(p, q, 0), Strpbrk(mem, p, Chars(mem, q)))
     \/ Finds("strstr", Args(p, q, 0), Strstr(mem, p, q))

CallStrncmp(p, q, n) ==
  /\ sfn = "none"
  /\ Finds("strncmp", Args(p, q, n), Strncmp(mem, p, q, n))

\* A mutation: the state is left at the delimiter that was overwritten.
StrtokAtDelim(str, delims) ==
  LET t == str + Strspn(mem, str, delims)
      end == t + Strcspn(mem, t, delims)
  IN  IF mem[t] = 0 THEN /\ saved' = Null /\ sret' = Null
                         /\ UNCHANGED <<mem, toks>>
      ELSE /\ sret' = t /\ toks' = Append(toks, t)
           /\ saved' = end
           /\ mem' = [mem EXCEPT ![end] = 0]

\* strtok_r: the delimiter behind the token becomes its end.
Strtok(str, delims) ==
  LET t == str + Strspn(mem, str, delims)
      end == t + Strcspn(mem, t, delims)
  IN  IF mem[t] = 0 THEN /\ saved' = Null /\ sret' = Null
                         /\ UNCHANGED <<mem, toks>>
      ELSE /\ sret' = t /\ toks' = Append(toks, t)
           /\ saved' = IF mem[end] = 0 THEN end ELSE end + 1
           /\ mem' = [mem EXCEPT ![end] = 0]

\* The program does not call it again after it has returned NULL: the state is
\* NULL then, and strspn would read at it.
CallStrtok(delims) ==
  /\ \/ sfn = "none" /\ Strtok(0, delims)
     \/ sfn = "strtok" /\ saved # Null /\ Strtok(saved, delims)
  /\ sfn' = "strtok"
  /\ UNCHANGED <<arg, mem0>>

StringsNext ==
  \/ \E p, q \in Addresses, n \in 0 .. Size :
       CallMemory(p, q, n) \/ CallCopy(p, q, n) \/ CallStrncmp(p, q, n)
  \/ \E p, q \in Addresses : CallFind(p, q)
  \/ \E p \in Addresses, c \in Letters \cup {0} : CallChar(p, c)
  \/ \E p \in Addresses, c \in Letters \cup {0}, n \in 0 .. Size : CallMemchr(p, c, n)
  \/ \E delims \in SUBSET Letters : CallStrtok(delims)

StringsSpec == StringsInit /\ [][StringsNext]_stringVars
-----------------------------------------------------------------------------
(***************************************************************************)
(* What the standard says, in terms of the strings.                        *)
(***************************************************************************)
StringAt(m, p) == [k \in 1 .. Strlen(m, p) |-> m[p + k - 1]]
BytesAt(m, p, n) == [k \in 1 .. n |-> m[p + k - 1]]
Cut(s, n) == SubSeq(s, 1, Shorter(Len(s), n))

\* Nothing but the n bytes at p has changed.
KeepsAllBut(p, n) == \A s \in Addresses \ (p .. p + n - 1) : mem[s] = mem0[s]

\* memmove copies what was there before, however the two places overlap;
\* strncpy fills up, and strncat and strndup end with a zero, and none of
\* them stores a byte too many.
StoresRight ==
  LET s == StringAt(mem0, arg.p)
      u == Cut(StringAt(mem0, arg.q), arg.n)
  IN  /\ sfn = "memmove" =>
           KeepsAllBut(arg.p, arg.n) /\ BytesAt(mem, arg.p, arg.n) = BytesAt(mem0, arg.q, arg.n)
      /\ sfn = "strncpy" =>
           /\ KeepsAllBut(arg.p, arg.n)
           /\ BytesAt(mem, arg.p, arg.n) = u \o [k \in 1 .. arg.n - Len(u) |-> 0]
      /\ sfn = "strncat" =>
           KeepsAllBut(arg.p, Len(s) + Len(u) + 1) /\ StringAt(mem, arg.p) = s \o u
      /\ sfn = "strndup" =>
           KeepsAllBut(arg.p, Len(u) + 1) /\ StringAt(mem, arg.p) = u

\* The order of two sequences of chars.
Less(s, u) ==
  \E k \in 1 .. Len(u) :
    /\ Cut(s, k - 1) = Cut(u, k - 1)
    /\ k <= Len(s) => s[k] < u[k]

Order(s, u) == IF s = u THEN 0 ELSE IF Less(s, u) THEN 0 - 1 ELSE 1

\* r is the least place in the set, or NULL.
IsLeast(r, set) == IF set = {} THEN r = Null ELSE r \in set /\ \A s \in set : r <= s

\* Searches find the first place (strrchr the last) where what they look for
\* is, at the very end too, and comparisons order the strings.
FindsRight ==
  LET s == StringAt(mem0, arg.p)
      u == StringAt(mem0, arg.q)
      at(k) == arg.p + k - 1
      Starts(k) == SubSeq(s, k, k + Len(u) - 1) = u
  IN  /\ sfn = "memchr" => IsLeast(sret, {r \in arg.p .. arg.p + arg.n - 1 : mem0[r] = arg.c})
      /\ sfn = "strchr" => IsLeast(sret, {r \in arg.p .. arg.p + Len(s) : mem0[r] = arg.c})
      /\ sfn = "strrchr" =>
           IF arg.c \in Range(s) \cup {0}
           THEN /\ sret \in arg.p .. arg.p + Len(s) /\ mem0[sret] = arg.c
                /\ arg.c \notin {mem0[r] : r \in sret + 1 .. arg.p + Len(s)}
           ELSE sret = Null
      /\ sfn = "memcmp" =>
           sret = Order(BytesAt(mem0, arg.p, arg.n), BytesAt(mem0, arg.q, arg.n))
      /\ sfn = "strncmp" => sret = Order(Cut(s, arg.n), Cut(u, arg.n))
      /\ sfn = "strspn" =>
           /\ Range(Cut(s, sret)) \subseteq Range(u)
           /\ sret = Len(s) \/ s[sret + 1] \notin Range(u)
      /\ sfn = "strcspn" =>
           /\ Range(Cut(s, sret)) \cap Range(u) = {}
           /\ sret = Len(s) \/ s[sret + 1] \in Range(u)
      /\ sfn = "strpbrk" => IsLeast(sret, {at(k) : k \in {j \in 1 .. Len(s) : s[j] \in Range(u)}})
      /\ sfn = "strstr" =>
           IsLeast(sret, {at(k) : k \in {j \in 1 .. Len(s) - Len(u) + 1 : Starts(j)}})

StringsRight == StoresRight /\ FindsRight

\* strtok cuts a text into its tokens, and those it has returned stay what
\* they are when later calls store into the text.
Cutting ==
  INSTANCE Tokens WITH
    text <- IF sfn # "strtok" THEN StringAt(mem0, 0)
            ELSE IF saved = Null THEN NoText ELSE StringAt(mem, saved),
    tokens <- [k \in DOMAIN toks |-> StringAt(mem, toks[k])]
CutsTokens == Cutting!Spec
=============================================================================
