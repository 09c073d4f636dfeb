----------------------------- MODULE StdioProofs -----------------------------
(***************************************************************************)
(* Streams own their descriptors, and read and write their files in order, *)
(* whatever the number of threads, streams, files and descriptors, and     *)
(* whatever the kernel refuses or cuts short.  The second half, about what *)
(* is in the files, rests on the first: two streams have two descriptors,  *)
(* so a call moves the position of its own stream only.                    *)
(***************************************************************************)
EXTENDS Stdio, TLAPS, WellFoundedInduction, SequenceTheorems

\* open gives the lowest descriptor that is free.
LEMMA LowestFdIsFree ==
  ASSUME Fds \ DOMAIN fds # {}
  PROVE  LowestFd \in Fds \ DOMAIN fds
  <1> DEFINE free == Fds \ DOMAIN fds
  <1>1. free \subseteq Nat
      BY FdsAssumption
  <1>2. PICK d \in free : \A e \in free : <<e, d>> \notin OpToRel(<, Nat)
      BY <1>1, WFMin, NatLessThanWellFounded
  <1>3. \A e \in free : ~(e < d)
      BY <1>1, <1>2, Zenon DEF OpToRel
  <1>4. \A e \in free : d <= e
      BY <1>1, <1>3
  <1> QED BY <1>4 DEF LowestFd

-----------------------------------------------------------------------------
(***************************************************************************)
(* The invariant: a FILE in fopen or fclose is not held, one in fgets or   *)
(* fputs is, and no two calls have the same.                               *)
(***************************************************************************)
Types ==
  /\ held \subseteq DOMAIN file
  /\ \A f \in DOMAIN file : "fd" \in DOMAIN file[f]
  /\ \A t \in DOMAIN call : {"at", "f"} \subseteq DOMAIN call[t]

Calls ==
  \A t \in DOMAIN call :
    \/ call[t].at \in {"open", "free"} /\ call[t].f \in DOMAIN file \ held
    \/ call[t].at \in {"gets", "newline"} /\ call[t].f \in held

Alone == \A t, u \in DOMAIN call : call[t].f = call[u].f => t = u

IInv == Types /\ Calls /\ Alone /\ StreamsOwnFds

\* The step leaves descriptors and streams alone, but for positions and flags.
SameFds ==
  /\ held' = held
  /\ DOMAIN fds' = DOMAIN fds
  /\ DOMAIN file' = DOMAIN file
  /\ \A f \in DOMAIN file : "fd" \in DOMAIN file'[f] /\ file'[f].fd = file[f].fd

LEMMA ReadsSameFds ==
  ASSUME IInv, NEW f \in held, NEW r, Reads(f, r), UNCHANGED held
  PROVE  SameFds
  BY DEF IInv, Types, Reads, SameFds

LEMMA WritesSameFds ==
  ASSUME IInv, NEW f \in held, NEW s, NEW k, Writes(f, s, k), UNCHANGED held
  PROVE  SameFds
  BY DEF IInv, Types, Writes, SameFds

\* What a call of a thread can do to the others' while descriptors stay.
LEMMA CallBegins ==
  ASSUME IInv, SameFds, NEW t, Idle(t), NEW f \in held \ Busy, NEW rec,
         {"at", "f"} \subseteq DOMAIN rec, rec.at \in {"gets", "newline"}, rec.f = f,
         Begin(t, rec)
  PROVE  IInv'
  <1>1. /\ DOMAIN call' = DOMAIN call \cup {t} /\ call'[t] = rec
        /\ \A u \in DOMAIN call : u # t /\ call'[u] = call[u]
      BY DEF Begin, Put, Idle
  <1>2. \A u \in DOMAIN call : call[u].f # f
      BY DEF Busy
  <1>3. Types' /\ Calls' /\ Alone'
      BY <1>1, <1>2 DEF IInv, Types, Calls, Alone, SameFds
  <1>4. StreamsOwnFds'
      BY <1>1 DEF IInv, Types, StreamsOwnFds, SameFds
  <1> QED BY <1>3, <1>4 DEF IInv

LEMMA CallReturns ==
  ASSUME IInv, SameFds, NEW t \in DOMAIN call, call[t].at \in {"gets", "newline"}, Return(t)
  PROVE  IInv'
  <1>1. /\ DOMAIN call' = DOMAIN call \ {t}
        /\ \A u \in DOMAIN call' : call'[u] = call[u]
      BY DEF Return, Restrict
  <1>2. Types' /\ Calls' /\ Alone'
      BY <1>1 DEF IInv, Types, Calls, Alone, SameFds
  <1>3. StreamsOwnFds'
      BY <1>1 DEF IInv, Types, StreamsOwnFds, SameFds
  <1> QED BY <1>2, <1>3 DEF IInv

LEMMA CallStays ==
  ASSUME IInv, SameFds, DOMAIN call' = DOMAIN call,
         \A t \in DOMAIN call : /\ {"at", "f"} \subseteq DOMAIN call'[t]
                                /\ call'[t].at = call[t].at /\ call'[t].f = call[t].f
  PROVE  IInv'
  <1>1. Types' /\ Calls' /\ Alone'
      BY DEF IInv, Types, Calls, Alone, SameFds
  <1>2. StreamsOwnFds'
      BY DEF IInv, Types, StreamsOwnFds, SameFds
  <1> QED BY <1>1, <1>2 DEF IInv
-----------------------------------------------------------------------------
LEMMA IInvInit == Init => IInv
  <1> SUFFICES ASSUME Init PROVE IInv
      OBVIOUS
  <1>1. /\ DOMAIN fds = Range(Standard) /\ DOMAIN file = DOMAIN Standard
        /\ held = DOMAIN Standard /\ DOMAIN call = {}
        /\ \A f \in DOMAIN Standard : "fd" \in DOMAIN file[f] /\ file[f].fd = Standard[f]
      BY DEF Init
  <1>2. Types /\ Calls /\ Alone
      BY <1>1 DEF Types, Calls, Alone
  <1>3. \A f, g \in DOMAIN Standard : Standard[f] = Standard[g] => f = g
      BY StandardAssumption DEF IsInjective
  <1>4. StreamsOwnFds
      BY <1>1, <1>3 DEF StreamsOwnFds, Range
  <1> QED BY <1>2, <1>4 DEF IInv

LEMMA FopenKeeps ==
  ASSUME IInv, NEW t, NEW name, NEW mode, NEW f, Fopen(t, name, mode, f)
  PROVE  IInv'
  <1> DEFINE rec == [at |-> "open", f |-> f, name |-> name, flags |-> Flags(Parse(mode))]
  <1>1. /\ DOMAIN file' = DOMAIN file \cup {f} /\ f \notin DOMAIN file
        /\ "fd" \in DOMAIN file'[f]
        /\ \A g \in DOMAIN file : file'[g] = file[g]
        /\ UNCHANGED <<fds, held>>
      BY DEF Fopen, Put, kernelVars
  <1>2. /\ t \notin DOMAIN call
        /\ DOMAIN call' = DOMAIN call \cup {t}
        /\ {"at", "f"} \subseteq DOMAIN call'[t] /\ call'[t].at = "open" /\ call'[t].f = f
        /\ \A u \in DOMAIN call : call'[u] = call[u]
    <2>1. t \notin DOMAIN call /\ call' = Put(call, t, rec)
        BY DEF Fopen, Begin, Idle
    <2> QED BY <2>1 DEF Put
  <1>3. Types' /\ Calls' /\ Alone'
      BY <1>1, <1>2 DEF IInv, Types, Calls, Alone
  <1>4. StreamsOwnFds'
      BY <1>1, <1>2 DEF IInv, Types, StreamsOwnFds
  <1> QED BY <1>3, <1>4 DEF IInv

\* fopen that fails and fclose give the FILE back.
LEMMA FreeKeeps ==
  ASSUME IInv, NEW t, OpenFails(t) \/ FreeFile(t)
  PROVE  IInv'
  <1> DEFINE f == call[t].f
  <1>1. /\ t \in DOMAIN call /\ call[t].at \in {"open", "free"}
        /\ DOMAIN file' = DOMAIN file \ {f}
        /\ \A g \in DOMAIN file' : file'[g] = file[g]
        /\ DOMAIN call' = DOMAIN call \ {t}
        /\ \A u \in DOMAIN call' : call'[u] = call[u]
        /\ UNCHANGED <<fds, held>>
      BY DEF OpenFails, FreeFile, Return, Restrict, kernelVars
  <1>2. f \in DOMAIN file \ held
      BY <1>1 DEF IInv, Calls
  <1>3. \A u \in DOMAIN call' : call[u].f # f
      BY <1>1 DEF IInv, Alone
  <1>4. Types' /\ Calls' /\ Alone'
      BY <1>1, <1>2, <1>3 DEF IInv, Types, Calls, Alone
  <1>5. StreamsOwnFds'
      BY <1>1, <1>2, <1>3 DEF IInv, Types, StreamsOwnFds
  <1> QED BY <1>4, <1>5 DEF IInv

LEMMA OpenKeeps ==
  ASSUME IInv, NEW t, Open(t)
  PROVE  IInv'
  <1> DEFINE f == call[t].f
  <1>1. LowestFd \in Fds \ DOMAIN fds
      BY LowestFdIsFree DEF Open
  <1>2. /\ t \in DOMAIN call /\ call[t].at = "open"
        /\ DOMAIN fds' = DOMAIN fds \cup {LowestFd}
        /\ file' = [file EXCEPT ![f].fd = LowestFd]
        /\ held' = held \cup {f}
        /\ DOMAIN call' = DOMAIN call \ {t}
        /\ \A u \in DOMAIN call' : call'[u] = call[u]
      BY DEF Open, Return, Restrict, Put
  <1>3. f \in DOMAIN file \ held
      BY <1>2 DEF IInv, Calls
  <1>4. /\ DOMAIN file' = DOMAIN file
        /\ file'[f].fd = LowestFd /\ "fd" \in DOMAIN file'[f]
        /\ \A g \in DOMAIN file \ {f} : file'[g] = file[g]
      BY <1>2, <1>3 DEF IInv, Types
  <1>5. \A u \in DOMAIN call' : call[u].f # f
      BY <1>2 DEF IInv, Alone
  <1>6. Types' /\ Calls' /\ Alone'
      BY <1>2, <1>3, <1>4, <1>5 DEF IInv, Types, Calls, Alone
  <1>7. StreamsOwnFds'
      BY <1>1, <1>2, <1>3, <1>4, <1>5 DEF IInv, Types, StreamsOwnFds
  <1> QED BY <1>6, <1>7 DEF IInv

\* The descriptor goes before the FILE does.
LEMMA FcloseKeeps ==
  ASSUME IInv, NEW t, NEW f, Fclose(t, f)
  PROVE  IInv'
  <1>1. /\ f \in held \ Busy /\ t \notin DOMAIN call
        /\ DOMAIN fds' = DOMAIN fds \ {file[f].fd}
        /\ held' = held \ {f} /\ UNCHANGED file
        /\ DOMAIN call' = DOMAIN call \cup {t}
        /\ {"at", "f"} \subseteq DOMAIN call'[t] /\ call'[t].at = "free" /\ call'[t].f = f
        /\ \A u \in DOMAIN call : call'[u] = call[u]
      BY DEF Fclose, Free, Idle, Begin, Put, Restrict
  <1>2. \A u \in DOMAIN call : call[u].f # f
      BY <1>1 DEF Busy
  <1>3. Types' /\ Calls' /\ Alone'
      BY <1>1, <1>2 DEF IInv, Types, Calls, Alone
  <1>4. StreamsOwnFds'
      BY <1>1, <1>2 DEF IInv, Types, StreamsOwnFds
  <1> QED BY <1>3, <1>4 DEF IInv

LEMMA ReadKeeps ==
  ASSUME IInv, NEW t, NEW f, NEW n,
         Fread(t, f, n) \/ Fgets(t, f, n) \/ FgetsByte(t)
  PROVE  IInv'
  <1>1. CASE Fread(t, f, n)
    <2>1. SameFds
        BY <1>1, ReadsSameFds DEF Fread, Free, SameFds, IInv, Types, kernelVars
    <2> QED BY <1>1, <2>1, CallStays DEF Fread, IInv, Types
  <1>2. CASE Fgets(t, f, n)
    <2>1. SameFds
        BY <1>2 DEF Fgets, SameFds, IInv, Types, kernelVars
    <2> QED BY <1>2, <2>1, CallBegins DEF Fgets, Free
  <1>3. CASE FgetsByte(t)
    <2>1. /\ t \in DOMAIN call /\ call[t].at = "gets" /\ call[t].f \in held
        BY <1>3 DEF FgetsByte, IInv, Calls
    <2>2. PICK r : /\ Reads(call[t].f, r) /\ UNCHANGED held
                   /\ call' = [call EXCEPT ![t].buf = @ \o r] \/ Return(t)
        BY <1>3 DEF FgetsByte
    <2>3. SameFds
        BY <2>1, <2>2, ReadsSameFds
    <2>4. CASE call' = [call EXCEPT ![t].buf = @ \o r]
        BY <2>1, <2>3, <2>4, CallStays DEF IInv, Types
    <2> QED BY <2>1, <2>2, <2>3, <2>4, CallReturns
  <1> QED BY <1>1, <1>2, <1>3

LEMMA WriteKeeps ==
  ASSUME IInv, NEW t, NEW f, NEW s,
         Fwrite(t, f, s) \/ Fputs(t, f, s) \/ FputsNewline(t)
  PROVE  IInv'
  <1>1. CASE Fwrite(t, f, s)
    <2>1. SameFds
        BY <1>1, WritesSameFds DEF Fwrite, Free
    <2> QED BY <1>1, <2>1, CallStays DEF Fwrite, IInv, Types
  <1>2. CASE Fputs(t, f, s)
    <2> DEFINE rec == [at |-> "newline", f |-> f]
    <2>1. f \in held \ Busy /\ Idle(t) /\ UNCHANGED held
        BY <1>2 DEF Fputs, Free
    <2>2. \/ UNCHANGED <<kernelVars, file>>
          \/ \E k : Writes(f, s, k)
        BY <1>2 DEF Fputs
    <2>3. SameFds
        BY <2>1, <2>2, WritesSameFds DEF SameFds, IInv, Types, kernelVars
    <2>4. UNCHANGED call \/ Begin(t, rec)
        BY <1>2 DEF Fputs
    <2>5. CASE UNCHANGED call
        BY <2>3, <2>5, CallStays DEF IInv, Types
    <2>6. CASE Begin(t, rec)
        BY <2>1, <2>3, <2>6, CallBegins
    <2> QED BY <2>4, <2>5, <2>6
  <1>3. CASE FputsNewline(t)
    <2>1. /\ t \in DOMAIN call /\ call[t].at = "newline" /\ call[t].f \in held
        BY <1>3 DEF FputsNewline, IInv, Calls
    <2>2. PICK k : Writes(call[t].f, <<Newline>>, k) /\ UNCHANGED held /\ Return(t)
        BY <1>3 DEF FputsNewline
    <2>3. SameFds
        BY <2>1, <2>2, WritesSameFds
    <2> QED BY <2>1, <2>2, <2>3, CallReturns
  <1> QED BY <1>1, <1>2, <1>3

LEMMA ClearerrKeeps ==
  ASSUME IInv, NEW t, NEW f, Clearerr(t, f)
  PROVE  IInv'
  <1>1. SameFds
      BY DEF Clearerr, SameFds, IInv, Types, kernelVars, Free
  <1> QED BY <1>1, CallStays DEF Clearerr, IInv, Types

LEMMA IInvStep == IInv /\ [Next]_vars => IInv'
  <1> SUFFICES ASSUME IInv, [Next]_vars PROVE IInv'
      OBVIOUS
  <1>1. CASE UNCHANGED vars
      BY <1>1 DEF vars, kernelVars, IInv, Types, Calls, Alone, StreamsOwnFds
  <1>2. CASE Next
    <2>1. PICK t \in Threads :
            \/ Steps(t)
            \/ \E name \in Names, mode \in ModeStrings, f \in Streams : Fopen(t, name, mode, f)
            \/ \E f \in held :
                 \/ Fclose(t, f) \/ Clearerr(t, f)
                 \/ \E n \in Counts : Fread(t, f, n) \/ Fgets(t, f, n)
                 \/ \E s \in Texts : Fwrite(t, f, s) \/ Fputs(t, f, s)
        BY <1>2 DEF Next
    <2>2. CASE Steps(t)
        BY <2>2, FreeKeeps, OpenKeeps, ReadKeeps, WriteKeeps DEF Steps
    <2> QED BY <2>1, <2>2, FopenKeeps, FcloseKeeps, ClearerrKeeps, ReadKeeps, WriteKeeps
  <1> QED BY <1>1, <1>2

\* fopen and fclose leak no descriptor and share none, and no FILE is lost,
\* whatever the kernel refuses (file.c).
THEOREM StreamsOwnFdsHolds == Spec => []StreamsOwnFds
  <1>1. IInv => StreamsOwnFds
      BY DEF IInv
  <1> QED BY IInvInit, IInvStep, <1>1, PTL DEF Spec
-----------------------------------------------------------------------------
(***************************************************************************)
(* What the streams say of their files.  A stream whose file nobody else   *)
(* has written has a log; a call moves the position and changes the file   *)
(* of its own stream only, and it forgets the logs that it would falsify.  *)
(***************************************************************************)
Char == Bytes \cup {Zero}
Text(f) == disk[Desc(f).name]
OpenFlags == [read : BOOLEAN, write : BOOLEAN, creat : BOOLEAN, trunc : BOOLEAN,
              app : BOOLEAN, excl : BOOLEAN]

KernelTypes ==
  /\ \A name \in DOMAIN disk : disk[name] \in Seq(Char)
  /\ \A d \in DOMAIN fds : fds[d] \in [name : DOMAIN disk, pos : Nat, read : BOOLEAN,
                                       write : BOOLEAN, app : BOOLEAN]
  /\ \A f \in DOMAIN file : file[f] \in [fd : Fds \cup {NoFd}, eof : BOOLEAN, err : BOOLEAN]

Pieces == [text : Seq(Char), short : BOOLEAN]
Logs == [bytes : Seq(Char), said : Seq(Pieces), tail : Seq(Pieces)]

LogTypes ==
  /\ DOMAIN log \subseteq held
  /\ \A f \in DOMAIN log : log[f] \in Logs

Gets(t, f) == t \in DOMAIN call /\ call[t].at = "gets" /\ call[t].f = f
Puts(t, f) == t \in DOMAIN call /\ call[t].at = "newline" /\ call[t].f = f

\* A buffer has room for one more byte and the NUL, and a fgets that has met an
\* error has returned.
CallTyped(t) ==
  /\ call[t].at = "open" => call[t].flags \in OpenFlags
  /\ call[t].at = "gets" =>
       /\ call[t] \in [at : {"gets"}, f : held, n : Nat, buf : Seq(Char)]
       /\ Len(call[t].buf) + 1 < call[t].n
       /\ ~file[call[t].f].err
  /\ call[t].at = "newline" => call[t] \in [at : {"newline"}, f : held]

\* A stream that only reads was given the file up to its position, but for the
\* bytes that a failed call has dropped.
ReadKept(f) ==
  LET given == log[f].bytes
  IN  /\ Len(given) <= Desc(f).pos /\ Desc(f).pos <= Len(Text(f))
      /\ \A i \in 1 .. Len(given) : given[i] = Text(f)[i]
      /\ ~file[f].err /\ (\A t : ~Gets(t, f)) => Len(given) = Desc(f).pos
      /\ \A t : Gets(t, f) =>
           /\ Len(given) + Len(call[t].buf) = Desc(f).pos
           /\ \A i \in 1 .. Len(call[t].buf) : call[t].buf[i] = Text(f)[Len(given) + i]

\* The text is what the log says, but for some of what is to be written; or all
\* of that but the newline.
Told(text, lg) ==
  \E m \in 0 .. Len(lg.tail) :
    /\ m = Len(lg.tail) => m = 0
    /\ MadeOf(text, lg.bytes, lg.said \o SubSeq(lg.tail, 1, m))

Halfway(text, lg) ==
  \E n \in Nat :
    /\ Len(lg.tail) = n + 1 /\ lg.tail[n + 1] = Piece(<<Newline>>, 1)
    /\ MadeOf(text, lg.bytes, lg.said \o SubSeq(lg.tail, 1, n))

\* A stream that writes is at the end of its file, and something is left to be
\* written while fputs is at it or because the stream has stopped.
WriteKept(f) ==
  /\ ~Desc(f).app => Desc(f).pos = Len(Text(f))
  /\ Told(Text(f), log[f])
  /\ log[f].tail # <<>> /\ (\A t : ~Puts(t, f)) => Stopped(f)
  /\ (\E t : Puts(t, f)) => Halfway(Text(f), log[f])

LogKept(f) == /\ Desc(f).write => WriteKept(f)
              /\ ~Desc(f).write => ReadKept(f)

DataInv ==
  /\ KernelTypes
  /\ LogTypes
  /\ \A t \in DOMAIN call : CallTyped(t)
  /\ \A f \in DOMAIN log : LogKept(f)

\* The step has nothing to do with f.
Untouched(f) ==
  /\ file'[f] = file[f] /\ Desc(f)' = Desc(f) /\ Text(f)' = Text(f) /\ log'[f] = log[f]
  /\ \A t : Gets(t, f)' <=> Gets(t, f)
  /\ \A t : Puts(t, f)' <=> Puts(t, f)
  /\ \A t : Gets(t, f) \/ Puts(t, f) => call'[t] = call[t]

LEMMA LogFrame ==
  ASSUME NEW f, LogKept(f), Untouched(f)
  PROVE  LogKept(f)'
  <1> DEFINE given == log[f].bytes
             d == Desc(f)
             text == Text(f)
  <1>1. /\ file'[f] = file[f] /\ d' = d /\ text' = text /\ log'[f] = log[f]
        /\ \A t : Gets(t, f)' <=> Gets(t, f)
        /\ \A t : Puts(t, f)' <=> Puts(t, f)
        /\ \A t : Gets(t, f) \/ Puts(t, f) => call'[t] = call[t]
      BY DEF Untouched
  <1>2. ASSUME ReadKept(f)
        PROVE  ReadKept(f)'
    <2> HIDE DEF d, text
    <2>1. /\ Len(given) <= d.pos /\ d.pos <= Len(text)
          /\ \A i \in 1 .. Len(given) : given[i] = text[i]
          /\ ~file[f].err /\ (\A t : ~Gets(t, f)) => Len(given) = d.pos
          /\ \A t : Gets(t, f) =>
               /\ Len(given) + Len(call[t].buf) = d.pos
               /\ \A i \in 1 .. Len(call[t].buf) : call[t].buf[i] = text[Len(given) + i]
        BY <1>2 DEF ReadKept, d, text
    <2>2. /\ (Len(given) <= d.pos /\ d.pos <= Len(text))'
          /\ (\A i \in 1 .. Len(given) : given[i] = text[i])'
          /\ (~file[f].err /\ (\A t : ~Gets(t, f)) => Len(given) = d.pos)'
        BY <1>1, <2>1
    <2>3. (\A t : Gets(t, f) =>
             /\ Len(given) + Len(call[t].buf) = d.pos
             /\ \A i \in 1 .. Len(call[t].buf) : call[t].buf[i] = text[Len(given) + i])'
      <3> SUFFICES ASSUME NEW t, Gets(t, f)'
                   PROVE  (/\ Len(given) + Len(call[t].buf) = d.pos
                           /\ \A i \in 1 .. Len(call[t].buf) :
                                call[t].buf[i] = text[Len(given) + i])'
          OBVIOUS
      <3>1. Gets(t, f) /\ call'[t] = call[t]
          BY <1>1
      <3>2. given' = given /\ d' = d /\ text' = text
          BY <1>1
      <3>3. /\ Len(given) + Len(call[t].buf) = d.pos
            /\ \A i \in 1 .. Len(call[t].buf) : call[t].buf[i] = text[Len(given) + i]
          BY <2>1, <3>1
      <3> QED BY <3>1, <3>2, <3>3, Zenon
    <2> QED BY <2>2, <2>3 DEF ReadKept, d, text
  <1>3. ASSUME WriteKept(f)
        PROVE  WriteKept(f)'
      BY <1>1, <1>3 DEF WriteKept, Stopped
  <1> QED BY <1>1, <1>2, <1>3 DEF LogKept

\* A held stream has a descriptor, and the descriptor a file.
LEMMA HeldTyped ==
  ASSUME IInv, DataInv, NEW f \in held
  PROVE  /\ f \in DOMAIN file /\ file[f].fd \in DOMAIN fds /\ Desc(f).name \in DOMAIN disk
         /\ file[f] \in [fd : Fds \cup {NoFd}, eof : BOOLEAN, err : BOOLEAN]
         /\ Desc(f) \in [name : DOMAIN disk, pos : Nat, read : BOOLEAN,
                         write : BOOLEAN, app : BOOLEAN]
         /\ Text(f) \in Seq(Char) /\ Len(Text(f)) \in Nat /\ Desc(f).pos \in Nat
  BY LenProperties
     DEF IInv, Types, StreamsOwnFds, DataInv, KernelTypes, Desc, Text

\* The first elements of a sequence.
LEMMA SubSeqFirst ==
  ASSUME NEW S, NEW s \in Seq(S), NEW k \in 0 .. Len(s)
  PROVE  /\ SubSeq(s, 1, k) \in Seq(S) /\ Len(SubSeq(s, 1, k)) = k
         /\ \A i \in 1 .. k : SubSeq(s, 1, k)[i] = s[i]
  <1>1. Len(s) \in Nat /\ k \in Nat
      BY LenProperties
  <1>2. \A i \in 1 .. k : s[i] \in S
      BY <1>1, ElementOfSeq
  <1>3. /\ SubSeq(s, 1, k) \in Seq(S)
        /\ Len(SubSeq(s, 1, k)) = IF 1 <= k THEN k - 1 + 1 ELSE 0
        /\ \A i \in 1 .. k - 1 + 1 : SubSeq(s, 1, k)[i] = s[1 + i - 1]
      BY <1>1, <1>2, SubSeqProperties
  <1>4. \A i \in 1 .. k : i \in 1 .. k - 1 + 1 /\ 1 + i - 1 = i
      BY <1>1
  <1>5. (IF 1 <= k THEN k - 1 + 1 ELSE 0) = k
      BY <1>1
  <1> QED BY <1>3, <1>4, <1>5

LEMMA PieceTyped ==
  ASSUME NEW s \in Seq(Char), NEW k
  PROVE  Piece(s, k) \in Pieces /\ Piece(s, k).text = s
  BY DEF Piece, Pieces

\* A text that grows has its first elements still, ...
LEMMA LongerText ==
  ASSUME NEW S, NEW text \in Seq(S), NEW more \in Seq(S)
  PROVE  /\ text \o more \in Seq(S) /\ Len(text \o more) = Len(text) + Len(more)
         /\ Len(text) \in Nat /\ Len(more) \in Nat
         /\ \A i \in 1 .. Len(text) : (text \o more)[i] = text[i]
         /\ \A i \in 1 .. Len(more) : (text \o more)[Len(text) + i] = more[i]
  <1>1. /\ text \o more \in Seq(S) /\ Len(text \o more) = Len(text) + Len(more)
        /\ \A i \in 1 .. Len(text) + Len(more) :
             (text \o more)[i] = IF i <= Len(text) THEN text[i] ELSE more[i - Len(text)]
        /\ Len(text) \in Nat /\ Len(more) \in Nat
      BY ConcatProperties, LenProperties
  <1>2. ASSUME NEW i \in 1 .. Len(more)
        PROVE  (text \o more)[Len(text) + i] = more[i]
    <2>1. /\ Len(text) + i \in 1 .. Len(text) + Len(more) /\ ~(Len(text) + i <= Len(text))
          /\ Len(text) + i - Len(text) = i
        BY <1>1
    <2> QED BY <1>1, <2>1
  <1> QED BY <1>1, <1>2

\* ... and its pieces.
LEMMA PieceStays ==
  ASSUME NEW text \in Seq(Char), NEW more \in Seq(Char), NEW from \in Nat,
         NEW to \in 0 .. Len(text), NEW s, PartOf(text, from, to, s)
  PROVE  PartOf(text \o more, from, to, s)
  <1>1. Len(text) \in Nat /\ \A i \in 1 .. Len(text) : (text \o more)[i] = text[i]
      BY LongerText
  <1>2. \A j \in 1 .. to - from : from + j \in 1 .. Len(text)
      BY <1>1
  <1> QED BY <1>1, <1>2 DEF PartOf

\* A text is made of itself and no pieces, ...
LEMMA MadeOfStart ==
  ASSUME NEW text \in Seq(Char)
  PROVE  MadeOf(text, text, <<>>)
  <1>1. Len(text) \in Nat /\ Len(<<>>) = 0
      BY LenProperties, EmptySeq
  <1>2. PartOf(text, 0, Len(text), text)
      BY <1>1 DEF PartOf
  <1> DEFINE ends == [i \in 0 .. 0 |-> Len(text)]
  <1>3. ends \in [0 .. 0 -> Len(text) .. Len(text)] /\ ends[0] = Len(text)
      BY <1>1
  <1> HIDE DEF ends
  <1> QED BY <1>1, <1>2, <1>3 DEF MadeOf

\* ... and when it grows by a piece, that is one more.
LEMMA MadeOfMore ==
  ASSUME NEW text \in Seq(Char), NEW bytes \in Seq(Char), NEW pieces \in Seq(Pieces),
         NEW piece \in Pieces, NEW more \in Seq(Char), MadeOf(text, bytes, pieces),
         PieceAt(text \o more, Len(text), Len(text \o more), piece)
  PROVE  MadeOf(text \o more, bytes, pieces \o <<piece>>)
  <1> DEFINE text2 == text \o more
             pieces2 == pieces \o <<piece>>
  <1>1. PICK n \in Nat, l \in Nat, l2 \in Nat, b \in Nat :
          n = Len(pieces) /\ l = Len(text) /\ l2 = Len(text2) /\ b = Len(bytes) /\ l <= l2
      BY LenProperties, LongerText
  <1>2. /\ Len(pieces2) = n + 1 /\ pieces2[n + 1] = piece
        /\ \A i \in 1 .. n : pieces2[i] = pieces[i]
    <2>1. <<piece>> \in Seq(Pieces) /\ Len(<<piece>>) = 1 /\ <<piece>>[1] = piece
        OBVIOUS
    <2> QED BY <1>1, <2>1, LongerText
  <1> HIDE DEF text2, pieces2
  <1>3. PICK ends \in [0 .. n -> b .. l] :
          /\ PartOf(text, 0, b, bytes)
          /\ ends[0] = b /\ ends[n] = l
          /\ \A i \in 1 .. n : PieceAt(text, ends[i - 1], ends[i], pieces[i])
      BY <1>1 DEF MadeOf
  <1>4. b <= l /\ \A i \in 0 .. n : ends[i] \in 0 .. l /\ ends[i] \in b .. l
    <2>1. \A i \in 0 .. n : ends[i] \in b .. l
        OBVIOUS
    <2>2. 0 \in 0 .. n /\ b \in Nat /\ l \in Nat
        BY <1>1
    <2> QED BY <2>1, <2>2
  <1> DEFINE ends2 == [i \in 0 .. n + 1 |-> IF i = n + 1 THEN l2 ELSE ends[i]]
  <1>5. /\ ends2 \in [0 .. n + 1 -> b .. l2]
        /\ ends2[n + 1] = l2 /\ \A i \in 0 .. n : ends2[i] = ends[i]
    <2>1. ASSUME NEW i \in 0 .. n + 1
          PROVE  (IF i = n + 1 THEN l2 ELSE ends[i]) \in b .. l2
      <3>1. i # n + 1 => i \in 0 .. n
          BY <1>1
      <3>2. l2 \in b .. l2 /\ b .. l \subseteq b .. l2
          BY <1>1, <1>4
      <3> QED BY <1>4, <3>1, <3>2
    <2>2. \A i \in 0 .. n : i \in 0 .. n + 1 /\ i # n + 1
        BY <1>1
    <2>3. n + 1 \in 0 .. n + 1
        BY <1>1
    <2> QED BY <2>1, <2>2, <2>3
  <1> HIDE DEF ends2
  <1>6. PartOf(text2, 0, b, bytes)
    <2>1. b \in 0 .. Len(text)
        BY <1>1, <1>4
    <2> QED BY <1>3, <2>1, PieceStays DEF text2
  <1>7. ASSUME NEW i \in 1 .. n + 1
        PROVE  PieceAt(text2, ends2[i - 1], ends2[i], pieces2[i])
    <2>1. CASE i = n + 1
      <3>1. i - 1 = n /\ n \in 0 .. n
          BY <1>1, <2>1
      <3>2. ends2[i - 1] = l /\ ends2[i] = l2 /\ pieces2[i] = piece
          BY <1>2, <1>3, <1>5, <2>1, <3>1
      <3> QED BY <1>1, <3>2 DEF text2
    <2>2. CASE i # n + 1
      <3>1. i \in 1 .. n /\ i \in 0 .. n /\ i - 1 \in 0 .. n
        <4>1. n \in Nat /\ i \in 1 .. n + 1 /\ i # n + 1
            BY <1>1, <2>2
        <4> QED BY ONLY <4>1
      <3>2. ends2[i - 1] = ends[i - 1] /\ ends2[i] = ends[i] /\ pieces2[i] = pieces[i]
          BY <1>2, <1>5, <3>1
      <3>3. PieceAt(text, ends[i - 1], ends[i], pieces[i])
          BY <1>3, <3>1
      <3>4. ends[i - 1] \in Nat /\ ends[i] \in 0 .. Len(text)
          BY <1>1, <1>4, <3>1
      <3>5. PartOf(text2, ends[i - 1], ends[i], pieces[i].text)
          BY <3>3, <3>4, PieceStays DEF text2, PieceAt
      <3> QED BY <3>2, <3>3, <3>5 DEF PieceAt
    <2> QED BY <2>1, <2>2
  <1>8. /\ Len(pieces2) = n + 1 /\ Len(text2) = l2 /\ Len(bytes) = b
        /\ ends2[0] = b
      BY <1>1, <1>2, <1>3, <1>5
  <1>9. MadeOf(text2, bytes, pieces2)
      BY <1>5, <1>6, <1>7, <1>8, Zenon DEF MadeOf
  <1> QED BY <1>9 DEF text2, pieces2

\* What the kernel takes of s is a piece.
LEMMA MadeOfTaken ==
  ASSUME NEW text \in Seq(Char), NEW bytes \in Seq(Char), NEW pieces \in Seq(Pieces),
         NEW s \in Seq(Char), NEW k \in 1 .. Len(s), MadeOf(text, bytes, pieces)
  PROVE  MadeOf(text \o SubSeq(s, 1, k), bytes, pieces \o <<Piece(s, k)>>)
  <1> DEFINE more == SubSeq(s, 1, k)
             text2 == text \o more
  <1>1. Len(s) \in Nat /\ k \in Nat /\ k \in 0 .. Len(s) /\ k # 0
      BY LenProperties
  <1>2. more \in Seq(Char) /\ Len(more) = k /\ \A i \in 1 .. k : more[i] = s[i]
      BY <1>1, SubSeqFirst
  <1> HIDE DEF more
  <1>3. PICK l \in Nat : l = Len(text)
      BY LenProperties
  <1>4. Len(text2) = l + k /\ \A j \in 1 .. k : text2[l + j] = s[j]
    <2>1. /\ Len(text2) = Len(text) + Len(more)
          /\ \A j \in 1 .. Len(more) : text2[Len(text) + j] = more[j]
      <3>1. text \in Seq(Char) /\ more \in Seq(Char)
          BY <1>2
      <3> QED BY ONLY <3>1, LongerText
    <2> QED BY <1>2, <1>3, <2>1
  <1> HIDE DEF text2
  <1>5. PartOf(text2, l, l + k, s)
    <2>1. l + k - l = k /\ l <= l + k /\ k <= Len(s)
        BY <1>1
    <2> QED BY <1>4, <2>1 DEF PartOf
  <1>6. Piece(s, k) \in Pieces /\ Piece(s, k).text = s
        /\ Piece(s, k).short = (k \in 1 .. Len(s) - 1)
      BY PieceTyped DEF Piece
  <1>7. IF Piece(s, k).short THEN l + k # l ELSE l + k - l = Len(s)
    <2>1. l + k # l /\ l + k - l = k
        BY <1>1
    <2>2. k \in 1 .. Len(s) - 1 \/ k = Len(s)
        BY <1>1
    <2> QED BY <1>6, <2>1, <2>2
  <1>8. PieceAt(text2, l, l + k, Piece(s, k))
      BY <1>5, <1>6, <1>7 DEF PieceAt
  <1> QED BY <1>2, <1>3, <1>4, <1>6, <1>8, MadeOfMore DEF text2, more

\* Of what is to be written nothing is there, ...
LEMMA ToldNothing ==
  ASSUME NEW text, NEW lg \in Logs, MadeOf(text, lg.bytes, lg.said)
  PROVE  Told(text, lg)
  <1>1. lg.said \in Seq(Pieces) /\ lg.tail \in Seq(Pieces) /\ Len(lg.tail) \in Nat
      BY LenProperties DEF Logs
  <1>2. SubSeq(lg.tail, 1, 0) = <<>> /\ lg.said \o <<>> = lg.said
      BY <1>1, SubSeqEmpty, ConcatEmptySeq
  <1>3. 0 \in 0 .. Len(lg.tail)
      BY <1>1
  <1> QED BY <1>2, <1>3 DEF Told

\* ... and when there is nothing to be written, all that was is.
LEMMA ToldAll ==
  ASSUME NEW text, NEW lg \in Logs, Told(text, lg), lg.tail = <<>>
  PROVE  MadeOf(text, lg.bytes, lg.said)
  <1>1. lg.said \in Seq(Pieces) /\ Len(<<>>) = 0
      BY EmptySeq DEF Logs
  <1>2. PICK m \in 0 .. 0 : MadeOf(text, lg.bytes, lg.said \o SubSeq(<<>>, 1, m))
      BY <1>1 DEF Told
  <1>3. m = 0 /\ SubSeq(<<>>, 1, m) = <<>> /\ lg.said \o <<>> = lg.said
      BY <1>1, <1>2, SubSeqEmpty, ConcatEmptySeq
  <1> QED BY <1>2, <1>3

\* A stream that has written nothing yet.
LEMMA ToldAtStart ==
  ASSUME NEW text \in Seq(Char), NEW lg \in Logs, lg.bytes = text, lg.said = <<>>
  PROVE  Told(text, lg)
  BY MadeOfStart, ToldNothing

\* Before the newline some of what is to be written is there.
LEMMA ToldHalfway ==
  ASSUME NEW text, NEW lg \in Logs, Halfway(text, lg)
  PROVE  Told(text, lg)
  <1>1. PICK n \in Nat : Len(lg.tail) = n + 1
                          /\ MadeOf(text, lg.bytes, lg.said \o SubSeq(lg.tail, 1, n))
      BY DEF Halfway
  <1>2. n \in 0 .. Len(lg.tail) /\ n # Len(lg.tail)
      BY <1>1
  <1> QED BY <1>1, <1>2 DEF Told

\* A fputs that has only its newline to write, or has written its text.
LEMMA HalfwayEmpty ==
  ASSUME NEW text, NEW lg \in Logs, lg.tail = <<Piece(<<Newline>>, 1)>>,
         MadeOf(text, lg.bytes, lg.said)
  PROVE  Halfway(text, lg)
  <1> DEFINE nl == Piece(<<Newline>>, 1)
  <1>1. lg.said \in Seq(Pieces) /\ Len(<<nl>>) = 0 + 1 /\ <<nl>>[0 + 1] = nl
      BY DEF Logs
  <1>2. SubSeq(lg.tail, 1, 0) = <<>> /\ lg.said \o <<>> = lg.said
      BY <1>1, SubSeqEmpty, ConcatEmptySeq
  <1> QED BY <1>1, <1>2, 0 \in Nat DEF Halfway

LEMMA HalfwayText ==
  ASSUME NEW text, NEW lg \in Logs, NEW piece \in Pieces,
         lg.tail = <<piece, Piece(<<Newline>>, 1)>>,
         MadeOf(text, lg.bytes, lg.said \o <<piece>>)
  PROVE  Halfway(text, lg)
  <1> DEFINE nl == Piece(<<Newline>>, 1)
             tail == <<piece, nl>>
  <1>1. tail \in Seq(Pieces) /\ Len(tail) = 1 + 1 /\ tail[1 + 1] = nl /\ tail[1] = piece
    <2>1. nl \in Pieces
      <3>1. <<Newline>> \in Seq(Char)
          BY BytesAssumption DEF Char
      <3> QED BY <3>1, PieceTyped
    <2> HIDE DEF nl
    <2> QED BY <2>1
  <1> HIDE DEF nl, tail
  <1>2. /\ SubSeq(tail, 1, 1) \in Seq(Pieces) /\ Len(SubSeq(tail, 1, 1)) = 1
        /\ SubSeq(tail, 1, 1)[1] = piece
    <2>1. 1 \in 0 .. Len(tail) /\ 1 \in 1 .. 1
        BY <1>1
    <2> QED BY <1>1, <2>1, SubSeqFirst
  <1>3. <<piece>> \in Seq(Pieces) /\ Len(<<piece>>) = 1 /\ <<piece>>[1] = piece
      OBVIOUS
  <1>4. SubSeq(tail, 1, 1) = <<piece>>
    <2>1. \A i \in 1 .. 1 : SubSeq(tail, 1, 1)[i] = <<piece>>[i]
        BY <1>2, <1>3
    <2> QED BY <1>2, <1>3, <2>1, SeqEqual
  <1>5. lg.tail = tail
      BY DEF tail, nl
  <1> QED BY <1>1, <1>4, <1>5, 1 \in Nat DEF Halfway, nl

\* The newline completes it.
LEMMA ToldNewline ==
  ASSUME NEW text \in Seq(Char), NEW lg \in Logs, Halfway(text, lg)
  PROVE  MadeOf(text \o <<Newline>>, lg.bytes, lg.said \o lg.tail)
  <1> DEFINE nl == Piece(<<Newline>>, 1)
  <1>1. PICK n \in Nat : /\ Len(lg.tail) = n + 1 /\ lg.tail[n + 1] = nl
                         /\ MadeOf(text, lg.bytes, lg.said \o SubSeq(lg.tail, 1, n))
      BY DEF Halfway
  <1>2. PICK bytes \in Seq(Char), said \in Seq(Pieces), tail \in Seq(Pieces) :
          bytes = lg.bytes /\ said = lg.said /\ tail = lg.tail
      BY DEF Logs
  <1>3. PICK first \in Seq(Pieces) :
          /\ Len(first) = n /\ \A i \in 1 .. n : first[i] = tail[i]
          /\ first = SubSeq(tail, 1, n)
    <2>1. n \in 0 .. Len(tail)
        BY <1>1, <1>2
    <2> QED BY <1>2, <2>1, SubSeqFirst
  <1>4. PICK one \in Seq(Char) : one = <<Newline>> /\ Len(one) = 1 /\ SubSeq(one, 1, 1) = one
    <2>1. Newline \in Char
        BY BytesAssumption DEF Char
    <2>2. <<Newline>> \in Seq(Char) /\ Len(<<Newline>>) = 1
        BY <2>1
    <2>3. SubSeq(<<Newline>>, 1, Len(<<Newline>>)) = <<Newline>>
        BY <2>2, SubSeqFull
    <2> QED BY <2>2, <2>3
  <1>5. nl \in Pieces
      BY <1>4, PieceTyped
  <1> HIDE DEF nl
  <1>6. PICK last \in Seq(Pieces) : last = <<nl>> /\ Len(last) = 1 /\ last[1] = nl
    <2>1. <<nl>> \in Seq(Pieces) /\ Len(<<nl>>) = 1 /\ <<nl>>[1] = nl
        BY ONLY <1>5
    <2> QED BY <2>1, Zenon
  <1>7. MadeOf(text \o one, bytes, (said \o first) \o last)
    <2>1. said \o first \in Seq(Pieces) /\ 1 \in 1 .. Len(one)
        BY <1>4, ConcatProperties
    <2>2. MadeOf(text, bytes, said \o first)
        BY <1>1, <1>2, <1>3
    <2>3. MadeOf(text \o SubSeq(one, 1, 1), bytes, (said \o first) \o <<Piece(one, 1)>>)
        BY <2>1, <2>2, MadeOfTaken
    <2> QED BY <1>4, <1>6, <2>3 DEF nl
  <1>8. first \o last = tail
    <2>1. /\ first \o last \in Seq(Pieces) /\ Len(first \o last) = n + 1
          /\ \A i \in 1 .. n : (first \o last)[i] = first[i]
          /\ \A i \in 1 .. 1 : (first \o last)[n + i] = last[i]
        BY <1>3, <1>6, LongerText
    <2>2. (first \o last)[n + 1] = nl
        BY <1>6, <2>1
    <2>3. \A i \in 1 .. n + 1 : i \in 1 .. n \/ i = n + 1
        OBVIOUS
    <2>4. \A i \in 1 .. n + 1 : (first \o last)[i] = tail[i]
        BY <1>1, <1>2, <1>3, <2>1, <2>2, <2>3
    <2> QED BY <1>1, <1>2, <2>1, <2>4, SeqEqual
  <1>9. (said \o first) \o last = said \o (first \o last)
    <2>1. said \in Seq(Pieces) /\ first \in Seq(Pieces) /\ last \in Seq(Pieces)
        OBVIOUS
    <2> QED BY ONLY <2>1, ConcatAssociative, SMTT(20)
  <1> QED BY <1>2, <1>4, <1>7, <1>8, <1>9

LEMMA DataInit == Init => DataInv
  <1> SUFFICES ASSUME NEW there \in SUBSET Names, NEW old \in Texts,
                 disk = [name \in there |-> old],
                 fds \in [Range(Standard) ->
                   {[name |-> name, pos |-> 0, read |-> FALSE, write |-> TRUE, app |-> TRUE]
                      : name \in there}],
                 file = [f \in DOMAIN Standard |->
                           [fd |-> Standard[f], eof |-> FALSE, err |-> FALSE]],
                 held = DOMAIN Standard, call = << >>,
                 log = [f \in DOMAIN Standard |-> [bytes |-> old, said |-> <<>>, tail |-> <<>>]]
               PROVE  DataInv
      BY DEF Init
  <1>1. old \in Seq(Char) /\ <<>> \in Seq(Char)
      BY TextsAssumption, SeqMonotonic, EmptySeq DEF Char
  <1>2. \A f \in DOMAIN Standard : Standard[f] \in Fds /\ Standard[f] \in DOMAIN fds
      BY StandardAssumption DEF Range
  <1>3. KernelTypes
    <2>1. \A name \in DOMAIN disk : disk[name] \in Seq(Char)
        BY <1>1
    <2>2. \A d \in DOMAIN fds : \E name \in there :
            fds[d] = [name |-> name, pos |-> 0, read |-> FALSE, write |-> TRUE, app |-> TRUE]
        OBVIOUS
    <2>3. \A d \in DOMAIN fds : fds[d] \in [name : DOMAIN disk, pos : Nat, read : BOOLEAN,
                                            write : BOOLEAN, app : BOOLEAN]
      <3> SUFFICES ASSUME NEW d \in DOMAIN fds, NEW name \in there,
                     fds[d] = [name |-> name, pos |-> 0, read |-> FALSE, write |-> TRUE,
                               app |-> TRUE]
                   PROVE  fds[d] \in [name : DOMAIN disk, pos : Nat, read : BOOLEAN,
                                     write : BOOLEAN, app : BOOLEAN]
          BY <2>2
      <3>1. name \in DOMAIN disk
          OBVIOUS
      <3> QED BY <3>1
    <2>4. \A f \in DOMAIN file : file[f] \in [fd : Fds \cup {NoFd}, eof : BOOLEAN, err : BOOLEAN]
        BY <1>2
    <2> QED BY <2>1, <2>3, <2>4 DEF KernelTypes
  <1>4. LogTypes
    <2>1. <<>> \in Seq(Pieces)
        BY EmptySeq
    <2>2. [bytes |-> old, said |-> <<>>, tail |-> <<>>] \in Logs
        BY <1>1, <2>1 DEF Logs
    <2>3. \A f \in DOMAIN log : log[f] = [bytes |-> old, said |-> <<>>, tail |-> <<>>]
        OBVIOUS
    <2> QED BY <2>2, <2>3 DEF LogTypes
  <1>5. DOMAIN call = {}
      OBVIOUS
  <1>6. ASSUME NEW f \in DOMAIN log
        PROVE  LogKept(f)
    <2>1. Desc(f).write /\ Desc(f).app /\ Text(f) = old /\ log[f].bytes = old
          /\ log[f].said = <<>> /\ log[f].tail = <<>>
        BY <1>2 DEF Desc, Text
    <2>2. Told(old, log[f])
        BY <1>1, <1>4, <2>1, ToldAtStart DEF LogTypes
    <2> QED BY <1>5, <2>1, <2>2 DEF LogKept, WriteKept, Puts
  <1> QED BY <1>3, <1>4, <1>5, <1>6 DEF DataInv
-----------------------------------------------------------------------------
\* The elements of a sequence from a place on.
LEMMA SubSeqRest ==
  ASSUME NEW S, NEW s \in Seq(S), NEW p \in Nat
  PROVE  /\ SubSeq(s, p + 1, Len(s)) \in Seq(S)
         /\ Len(SubSeq(s, p + 1, Len(s))) = IF p < Len(s) THEN Len(s) - p ELSE 0
         /\ \A i \in 1 .. Len(s) - p : SubSeq(s, p + 1, Len(s))[i] = s[p + i]
  <1> DEFINE rest == SubSeq(s, p + 1, Len(s))
  <1>1. Len(s) \in Nat
      BY LenProperties
  <1>2. \A i \in p + 1 .. Len(s) : s[i] \in S
      BY <1>1, ElementOfSeq
  <1>3. /\ rest \in Seq(S)
        /\ Len(rest) = IF p + 1 <= Len(s) THEN Len(s) - (p + 1) + 1 ELSE 0
        /\ \A i \in 1 .. Len(s) - (p + 1) + 1 : rest[i] = s[p + 1 + i - 1]
      BY <1>1, <1>2, SubSeqProperties
  <1> HIDE DEF rest
  <1>4. \A i \in 1 .. Len(s) - p : i \in 1 .. Len(s) - (p + 1) + 1 /\ p + 1 + i - 1 = p + i
      BY <1>1
  <1>5. \A i \in 1 .. Len(s) - p : rest[i] = s[p + i]
      BY <1>3, <1>4
  <1>6. Len(rest) = IF p < Len(s) THEN Len(s) - p ELSE 0
      BY <1>1, <1>3
  <1> QED BY <1>3, <1>5, <1>6 DEF rest

\* What the kernel may give for a read of n bytes: the bytes at the position.
LEMMA ReadGives ==
  ASSUME NEW d, disk[d.name] \in Seq(Char), d.pos \in Nat,
         NEW n \in Nat \ {0}, NEW r \in ReadResults(d, n), r # NoBytes
  PROVE  LET text == disk[d.name]
         IN  /\ r \in Seq(Char) /\ Len(r) \in 0 .. n
             /\ d.pos <= Len(text) => d.pos + Len(r) <= Len(text)
             /\ \A i \in 1 .. Len(r) : r[i] = text[d.pos + i]
  <1> DEFINE text == disk[d.name]
             rest == SubSeq(text, d.pos + 1, Len(text))
             most == IF n < Len(rest) THEN n ELSE Len(rest)
  <1>1. r = <<>> \/ \E k \in 1 .. most : r = SubSeq(rest, 1, k)
      BY DEF ReadResults
  <1>2. /\ rest \in Seq(Char) /\ Len(text) \in Nat
        /\ Len(rest) = IF d.pos < Len(text) THEN Len(text) - d.pos ELSE 0
        /\ \A i \in 1 .. Len(text) - d.pos : rest[i] = text[d.pos + i]
      BY SubSeqRest, LenProperties
  <1> HIDE DEF rest, text
  <1>3. most \in Nat /\ most <= n /\ most <= Len(rest) /\ Len(rest) \in Nat
      BY <1>2, LenProperties
  <1> HIDE DEF most
  <1>4. CASE r = <<>>
      BY <1>2, <1>4, EmptySeq DEF text
  <1>5. CASE \E k \in 1 .. most : r = SubSeq(rest, 1, k)
    <2>1. PICK k \in 1 .. most : r = SubSeq(rest, 1, k)
        BY <1>5
    <2>2. k \in 0 .. Len(rest) /\ k \in 0 .. n /\ 0 < k
        BY <1>3, <2>1
    <2>3. r \in Seq(Char) /\ Len(r) = k /\ \A i \in 1 .. k : r[i] = rest[i]
        BY <1>2, <2>1, <2>2, SubSeqFirst
    <2>4. d.pos + k <= Len(text) /\ \A i \in 1 .. k : i \in 1 .. Len(text) - d.pos
        BY <1>2, <1>3, <2>2
    <2>5. \A i \in 1 .. Len(r) : r[i] = text[d.pos + i]
        BY <1>2, <2>3, <2>4
    <2> QED BY <2>2, <2>3, <2>4, <2>5 DEF text
  <1> QED BY <1>1, <1>4, <1>5

\* A write of nothing leaves a file alone, one at its end adds to it, and what
\* is in a file are bytes and zeroes.
LEMMA OverwriteNothing ==
  ASSUME NEW text \in Seq(Char), NEW pos \in Nat
  PROVE  Overwrite(text, pos, <<>>) = text
  <1>1. Len(text) \in Nat /\ Longer(Len(text), 0) = Len(text) /\ Len(<<>>) = 0
        /\ DOMAIN text = 1 .. Len(text)
      BY LenProperties, EmptySeq DEF Longer
  <1>2. Overwrite(text, pos, <<>>) = [i \in 1 .. Len(text) |-> text[i]]
      BY <1>1 DEF Overwrite
  <1>3. text = [i \in 1 .. Len(text) |-> text[i]]
      BY LenProperties
  <1> QED BY <1>2, <1>3

LEMMA OverwriteTyped ==
  ASSUME NEW text \in Seq(Char), NEW pos \in Nat, NEW s \in Seq(Char)
  PROVE  Overwrite(text, pos, s) \in Seq(Char)
  <1> DEFINE n == Longer(Len(text), IF s = <<>> THEN 0 ELSE pos + Len(s))
             e(i) == IF pos < i /\ i <= pos + Len(s) THEN s[i - pos]
                     ELSE IF i <= Len(text) THEN text[i] ELSE Zero
  <1>1. Len(text) \in Nat /\ Len(s) \in Nat /\ n \in Nat
      BY LenProperties DEF Longer
  <1>2. \A i \in 1 .. n : e(i) \in Char
    <2> SUFFICES ASSUME NEW i \in 1 .. n
                 PROVE  e(i) \in Char
        OBVIOUS
    <2>1. Zero \in Char
        BY DEF Char
    <2>2. pos < i /\ i <= pos + Len(s) => s[i - pos] \in Char
        BY <1>1, ElementOfSeq
    <2>3. i <= Len(text) => text[i] \in Char
        BY <1>1, ElementOfSeq
    <2> QED BY <2>1, <2>2, <2>3
  <1>3. Overwrite(text, pos, s) = [i \in 1 .. n |-> e(i)]
      BY DEF Overwrite
  <1> HIDE DEF n, e
  <1>4. [i \in 1 .. n |-> e(i)] \in Seq(Char)
      BY <1>1, <1>2, IsASeq
  <1> QED BY <1>3, <1>4

LEMMA OverwriteAtEnd ==
  ASSUME NEW text \in Seq(Char), NEW s \in Seq(Char)
  PROVE  Overwrite(text, Len(text), s) = text \o s
  <1> DEFINE new == Overwrite(text, Len(text), s)
  <1>1. Len(text) \in Nat /\ Len(s) \in Nat
      BY LenProperties
  <1>2. /\ text \o s \in Seq(Char) /\ Len(text \o s) = Len(text) + Len(s)
        /\ \A i \in 1 .. Len(text) + Len(s) :
             (text \o s)[i] = IF i <= Len(text) THEN text[i] ELSE s[i - Len(text)]
      BY ConcatProperties
  <1>3. Longer(Len(text), IF s = <<>> THEN 0 ELSE Len(text) + Len(s)) = Len(text) + Len(s)
    <2>1. s = <<>> => Len(s) = 0
        BY EmptySeq
    <2> QED BY <1>1, <2>1 DEF Longer
  <1>4. new = [i \in 1 .. Len(text) + Len(s) |->
                 IF Len(text) < i /\ i <= Len(text) + Len(s) THEN s[i - Len(text)]
                 ELSE IF i <= Len(text) THEN text[i] ELSE Zero]
      BY <1>3 DEF Overwrite
  <1>5. new \in Seq(Char) /\ Len(new) = Len(text) + Len(s)
    <2>1. new \in Seq(Char)
        BY <1>1, OverwriteTyped
    <2>2. DOMAIN new = 1 .. Len(text) + Len(s)
        BY <1>4
    <2>3. DOMAIN new = 1 .. Len(new) /\ Len(new) \in Nat
        BY <2>1, LenProperties
    <2> QED BY <1>1, <2>1, <2>2, <2>3
  <1>6. \A i \in 1 .. Len(new) : new[i] = (text \o s)[i]
      BY <1>1, <1>2, <1>4, <1>5
  <1> QED BY <1>2, <1>5, <1>6, SeqEqual
-----------------------------------------------------------------------------
\* What a read does to the kernel and to the flags of its stream.
LEMMA ReadEffect ==
  ASSUME IInv, DataInv, NEW f \in held, NEW n \in Nat \ {0},
         NEW r \in ReadResults(Desc(f), n), Reads(f, r), UNCHANGED held
  PROVE  /\ KernelTypes' /\ SameFds
         /\ Text(f)' = Text(f)
         /\ Desc(f)' = [Desc(f) EXCEPT !.pos = @ + (IF r = NoBytes THEN 0 ELSE Len(r))]
         /\ file'[f].err <=> file[f].err \/ r = NoBytes
         /\ file'[f].eof <=> file[f].eof \/ r = <<>>
         /\ \A g \in held \ {f} :
              file'[g] = file[g] /\ Desc(g)' = Desc(g) /\ Text(g)' = Text(g)
  <1> DEFINE d == Desc(f)
             k == IF r = NoBytes THEN 0 ELSE Len(r)
  <1>1. SameFds
      BY ReadsSameFds
  <1>2. /\ f \in DOMAIN file /\ file[f].fd \in DOMAIN fds /\ d = fds[file[f].fd]
        /\ file[f] \in [fd : Fds \cup {NoFd}, eof : BOOLEAN, err : BOOLEAN]
        /\ d \in [name : DOMAIN disk, pos : Nat, read : BOOLEAN, write : BOOLEAN, app : BOOLEAN]
        /\ Text(f) = disk[d.name] /\ Text(f) \in Seq(Char)
      BY HeldTyped DEF Desc, Text
  <1>3. k \in Nat
      BY <1>2, ReadGives
  <1>4. /\ disk' = disk
        /\ file' = [file EXCEPT ![f].err = @ \/ r = NoBytes, ![f].eof = @ \/ r = <<>>]
        /\ fds' = IF r = NoBytes THEN fds ELSE [fds EXCEPT ![file[f].fd].pos = @ + Len(r)]
      BY DEF Reads
  <1>5. /\ file'[f].fd = file[f].fd
        /\ file'[f].err = (file[f].err \/ r = NoBytes)
        /\ file'[f].eof = (file[f].eof \/ r = <<>>)
        /\ file'[f] \in [fd : Fds \cup {NoFd}, eof : BOOLEAN, err : BOOLEAN]
        /\ DOMAIN file' = DOMAIN file /\ \A g \in DOMAIN file \ {f} : file'[g] = file[g]
      BY <1>2, <1>4
  <1>6. /\ fds'[file[f].fd] = [d EXCEPT !.pos = @ + k]
        /\ DOMAIN fds' = DOMAIN fds /\ \A e \in DOMAIN fds \ {file[f].fd} : fds'[e] = fds[e]
    <2>1. CASE r = NoBytes
      <3>1. [d EXCEPT !.pos = @ + 0] = d
          BY <1>2
      <3> QED BY <1>2, <1>4, <2>1, <3>1
    <2>2. CASE r # NoBytes
        BY <1>2, <1>4, <2>2
    <2> QED BY <2>1, <2>2
  <1>7. [d EXCEPT !.pos = @ + k] \in
          [name : DOMAIN disk, pos : Nat, read : BOOLEAN, write : BOOLEAN, app : BOOLEAN]
      BY <1>2, <1>3
  <1>8. KernelTypes'
    <2>1. \A name \in DOMAIN disk' : disk'[name] \in Seq(Char)
        BY <1>4 DEF DataInv, KernelTypes
    <2>2. \A e \in DOMAIN fds' : fds'[e] \in
            [name : DOMAIN disk', pos : Nat, read : BOOLEAN, write : BOOLEAN, app : BOOLEAN]
        BY <1>4, <1>6, <1>7 DEF DataInv, KernelTypes
    <2>3. \A g \in DOMAIN file' : file'[g] \in
            [fd : Fds \cup {NoFd}, eof : BOOLEAN, err : BOOLEAN]
        BY <1>5 DEF DataInv, KernelTypes
    <2> QED BY <2>1, <2>2, <2>3 DEF KernelTypes
  <1>9. Desc(f)' = [d EXCEPT !.pos = @ + k]
      BY <1>5, <1>6 DEF Desc
  <1>10. Text(f)' = Text(f)
      BY <1>2, <1>4, <1>9 DEF Text
  <1>11. ASSUME NEW g \in held \ {f}
         PROVE  file'[g] = file[g] /\ Desc(g)' = Desc(g) /\ Text(g)' = Text(g)
    <2>1. file'[g] = file[g] /\ file[g].fd \in DOMAIN fds /\ file[g].fd # file[f].fd
        BY <1>5 DEF IInv, Types, StreamsOwnFds
    <2>2. Desc(g)' = Desc(g)
        BY <1>6, <2>1 DEF Desc
    <2> QED BY <1>4, <2>1, <2>2 DEF Text
  <1>12. /\ file'[f].err <=> file[f].err \/ r = NoBytes
         /\ file'[f].eof <=> file[f].eof \/ r = <<>>
      BY <1>5
  <1> QED BY <1>1, <1>8, <1>9, <1>10, <1>11, <1>12

\* The same of a write: it adds to the file if it is at its end, and if nothing
\* was written the stream has stopped.
LEMMA WriteEffect ==
  ASSUME IInv, DataInv, NEW f \in held, NEW s \in Seq(Char),
         NEW k \in WriteResults(Desc(f), Len(s)), Writes(f, s, k), UNCHANGED held
  PROVE  /\ KernelTypes' /\ SameFds
         /\ k \in {Failed, 0} \cup 1 .. Len(s)
         /\ k # Failed => Desc(f).write
         /\ Desc(f)' = [Desc(f) EXCEPT !.pos = IF k = Failed THEN @ ELSE Place(Desc(f)) + k]
         /\ Place(Desc(f)) = Len(Text(f)) =>
              Text(f)' = Text(f) \o (IF k = Failed THEN <<>> ELSE SubSeq(s, 1, k))
         /\ k \in {Failed, 0} => Text(f)' = Text(f) /\ Stopped(f)'
         /\ file[f].err => file'[f].err
         /\ ~Desc(f).write => file'[f].err
         /\ \A g \in held \ {f} :
              /\ file'[g] = file[g] /\ Desc(g)' = Desc(g)
              /\ k \in {Failed, 0} \/ Desc(g).name # Desc(f).name => Text(g)' = Text(g)
  <1> DEFINE d == Desc(f)
             pos == Place(d)
             put == Written(s, k)
             pos2 == IF k = Failed THEN d.pos ELSE pos + k
  <1>1. SameFds
      BY WritesSameFds
  <1>2. /\ f \in DOMAIN file /\ file[f].fd \in DOMAIN fds /\ d = fds[file[f].fd]
        /\ file[f] \in [fd : Fds \cup {NoFd}, eof : BOOLEAN, err : BOOLEAN]
        /\ d \in [name : DOMAIN disk, pos : Nat, read : BOOLEAN, write : BOOLEAN, app : BOOLEAN]
        /\ Text(f) = disk[d.name] /\ Text(f) \in Seq(Char) /\ Len(Text(f)) \in Nat
      BY HeldTyped DEF Desc, Text
  <1>3. Len(s) \in Nat /\ Failed \notin Nat
      BY LenProperties DEF Failed
  <1>4. k \in {Failed} \cup 0 .. Len(s) /\ (k # Failed => d.write)
      BY DEF WriteResults
  <1>5. pos \in Nat /\ (k # Failed => k \in Nat) /\ pos2 \in Nat
      BY <1>2, <1>3, <1>4 DEF Place
  <1>6. put \in Seq(Char) /\ (k \in {Failed, 0} => put = <<>>)
        /\ put = IF k = Failed THEN <<>> ELSE SubSeq(s, 1, k)
    <2>1. <<>> \in Seq(Char) /\ (k = 0 => SubSeq(s, 1, k) = <<>>)
        BY SubSeqEmpty, EmptySeq
    <2>2. k # Failed => SubSeq(s, 1, k) \in Seq(Char)
        BY <1>4, SubSeqFirst
    <2> QED BY <2>1, <2>2 DEF Written
  <1> HIDE DEF pos, put, pos2
  <1>7. /\ disk' = [disk EXCEPT ![d.name] = Overwrite(@, pos, put)]
        /\ fds' = IF k = Failed THEN fds ELSE [fds EXCEPT ![file[f].fd].pos = pos + k]
        /\ file' = [file EXCEPT ![f].err = @ \/ k = Failed, ![f].eof = @ \/ k = 0]
      BY DEF Writes, pos, put
  <1>8. /\ file'[f].fd = file[f].fd
        /\ file'[f].err = (file[f].err \/ k = Failed) /\ file'[f].eof = (file[f].eof \/ k = 0)
        /\ file'[f] \in [fd : Fds \cup {NoFd}, eof : BOOLEAN, err : BOOLEAN]
        /\ DOMAIN file' = DOMAIN file /\ \A g \in DOMAIN file \ {f} : file'[g] = file[g]
      BY <1>2, <1>7
  <1>9. /\ fds'[file[f].fd] = [d EXCEPT !.pos = pos2]
        /\ DOMAIN fds' = DOMAIN fds /\ \A e \in DOMAIN fds \ {file[f].fd} : fds'[e] = fds[e]
    <2>1. CASE k = Failed
      <3>1. [d EXCEPT !.pos = d.pos] = d
          BY <1>2
      <3> QED BY <1>2, <1>7, <2>1, <3>1 DEF pos2
    <2>2. CASE k # Failed
        BY <1>2, <1>7, <2>2 DEF pos2
    <2> QED BY <2>1, <2>2
  <1>10. Overwrite(Text(f), pos, put) \in Seq(Char)
      BY <1>2, <1>5, <1>6, OverwriteTyped DEF pos2
  <1>11. /\ DOMAIN disk' = DOMAIN disk /\ disk'[d.name] = Overwrite(Text(f), pos, put)
         /\ \A name \in DOMAIN disk \ {d.name} : disk'[name] = disk[name]
      BY <1>2, <1>7
  <1>12. [d EXCEPT !.pos = pos2] \in
           [name : DOMAIN disk, pos : Nat, read : BOOLEAN, write : BOOLEAN, app : BOOLEAN]
      BY <1>2, <1>5
  <1>13. KernelTypes'
    <2>1. \A name \in DOMAIN disk' : disk'[name] \in Seq(Char)
        BY <1>10, <1>11 DEF DataInv, KernelTypes
    <2>2. \A e \in DOMAIN fds' : fds'[e] \in
            [name : DOMAIN disk', pos : Nat, read : BOOLEAN, write : BOOLEAN, app : BOOLEAN]
        BY <1>9, <1>11, <1>12 DEF DataInv, KernelTypes
    <2>3. \A g \in DOMAIN file' : file'[g] \in
            [fd : Fds \cup {NoFd}, eof : BOOLEAN, err : BOOLEAN]
        BY <1>8 DEF DataInv, KernelTypes
    <2> QED BY <2>1, <2>2, <2>3 DEF KernelTypes
  <1>14. Desc(f)' = [d EXCEPT !.pos = pos2] /\ Text(f)' = Overwrite(Text(f), pos, put)
      BY <1>2, <1>8, <1>9, <1>11 DEF Desc, Text
  <1>15. pos = Len(Text(f)) => Text(f)' = Text(f) \o put
      BY <1>2, <1>6, <1>14, OverwriteAtEnd
  <1>16. k \in {Failed, 0} => Text(f)' = Text(f) /\ Stopped(f)'
    <2>1. k \in {Failed, 0} => Text(f)' = Text(f)
        BY <1>2, <1>5, <1>6, <1>14, OverwriteNothing
    <2>2. k \in {Failed, 0} => Stopped(f)'
        BY <1>8 DEF Stopped
    <2> QED BY <2>1, <2>2
  <1>17. \A g \in held \ {f} :
           /\ file'[g] = file[g] /\ Desc(g)' = Desc(g)
           /\ k \in {Failed, 0} \/ Desc(g).name # d.name => Text(g)' = Text(g)
    <2> SUFFICES ASSUME NEW g \in held \ {f}
                 PROVE  /\ file'[g] = file[g] /\ Desc(g)' = Desc(g)
                        /\ k \in {Failed, 0} \/ Desc(g).name # d.name => Text(g)' = Text(g)
        OBVIOUS
    <2>1. file'[g] = file[g] /\ Desc(g)' = Desc(g) /\ Desc(g).name \in DOMAIN disk
        BY <1>8, <1>9, HeldTyped DEF IInv, Types, StreamsOwnFds, Desc
    <2>2. k \in {Failed, 0} => disk'[d.name] = disk[d.name]
        BY <1>2, <1>5, <1>6, <1>11, OverwriteNothing
    <2> QED BY <1>11, <2>1, <2>2 DEF Text
  <1> QED BY <1>1, <1>3, <1>4, <1>6, <1>8, <1>13, <1>14, <1>15, <1>16, <1>17 DEF pos, pos2
-----------------------------------------------------------------------------
\* Only t is in a call on f, and only that call changes.
CallOn(t, f) ==
  /\ \A u : u # t => (u \in DOMAIN call' <=> u \in DOMAIN call)
  /\ \A u \in DOMAIN call \ {t} : call'[u] = call[u] /\ call[u].f # f
  /\ t \in DOMAIN call => call[t].f = f
  /\ t \in DOMAIN call' => call'[t].f = f

\* Whatever a call does to f, the other streams and calls do not notice.
LEMMA OthersKept ==
  ASSUME IInv, DataInv, NEW t, NEW f, CallOn(t, f), KernelTypes', LogTypes',
         \A g \in held \ {f} : g \in held' /\ file'[g] = file[g],
         \A g \in DOMAIN log' \ {f} :
           g \in DOMAIN log /\ log'[g] = log[g] /\ Desc(g)' = Desc(g) /\ Text(g)' = Text(g),
         t \in DOMAIN call' => CallTyped(t)',
         f \in DOMAIN log' => LogKept(f)'
  PROVE  DataInv'
  <1>1. ASSUME NEW g \in DOMAIN log' \ {f}
        PROVE  LogKept(g)'
    <2>1. LogKept(g) /\ g \in held
        BY DEF DataInv, LogTypes
    <2>2. \A u : (Gets(u, g)' <=> Gets(u, g)) /\ (Puts(u, g)' <=> Puts(u, g))
        BY DEF CallOn, Gets, Puts
    <2>3. \A u : Gets(u, g) \/ Puts(u, g) => call'[u] = call[u]
        BY DEF CallOn, Gets, Puts
    <2>4. Untouched(g)
        BY <2>1, <2>2, <2>3 DEF Untouched
    <2> QED BY <2>1, <2>4, LogFrame
  <1>2. ASSUME NEW u \in DOMAIN call' \ {t}
        PROVE  CallTyped(u)'
    <2>1. u \in DOMAIN call /\ call'[u] = call[u] /\ call[u].f # f /\ CallTyped(u)
        BY DEF CallOn, DataInv
    <2>2. call[u].at \in {"gets", "newline"} => call[u].f \in held
        BY <2>1 DEF IInv, Calls
    <2> QED BY <2>1, <2>2 DEF CallTyped
  <1> QED BY <1>1, <1>2 DEF DataInv

\* How a call leaves the log of its stream.
LEMMA GivenLog ==
  ASSUME IInv, LogTypes, NEW f, NEW s \in Seq(Char), NEW F,
         log' = Forget(Given(f, s), F) \/ (F = {} /\ log' = Given(f, s))
  PROVE  /\ DOMAIN log' = DOMAIN log \ F
         /\ \A g \in DOMAIN log' \ {f} : log'[g] = log[g]
         /\ f \in DOMAIN log' /\ Desc(f).write => log'[f] = log[f]
         /\ f \in DOMAIN log' /\ ~Desc(f).write => log'[f].bytes = log[f].bytes \o s
         /\ \A g \in DOMAIN log' : log'[g] \in Logs
  <1> DEFINE new == [bytes |-> log[f].bytes \o s, said |-> log[f].said, tail |-> log[f].tail]
  <1>1. /\ DOMAIN log' = DOMAIN log \ F
        /\ \A g \in DOMAIN log' \ {f} : log'[g] = log[g]
      BY DEF Forget, Given, Restrict
  <1>2. f \in DOMAIN log' /\ Desc(f).write => log'[f] = log[f]
      BY <1>1 DEF Forget, Given, Restrict
  <1>3. f \in DOMAIN log' /\ ~Desc(f).write => log'[f] = new
    <2>1. SUFFICES ASSUME f \in DOMAIN log', ~Desc(f).write
                   PROVE  log'[f] = new
        OBVIOUS
    <2>2. f \in DOMAIN log /\ log[f] \in Logs
        BY <1>1, <2>1 DEF LogTypes
    <2>3. log'[f] = [log[f] EXCEPT !.bytes = @ \o s]
        BY <2>1, <2>2 DEF Forget, Given, Restrict
    <2> QED BY <2>2, <2>3 DEF Logs
  <1>4. \A g \in DOMAIN log' : log[g] \in Logs
      BY <1>1 DEF LogTypes
  <1>5. f \in DOMAIN log' => new \in Logs
    <2>1. SUFFICES ASSUME f \in DOMAIN log'
                   PROVE  new \in Logs
        OBVIOUS
    <2>2. log[f].bytes \o s \in Seq(Char)
        BY <1>4, <2>1, ConcatProperties DEF Logs
    <2> QED BY <1>4, <2>1, <2>2 DEF Logs
  <1>6. f \in DOMAIN log' => log'[f] \in Logs
      BY <1>2, <1>3, <1>4, <1>5
  <1>7. f \in DOMAIN log' /\ ~Desc(f).write => log'[f].bytes = log[f].bytes \o s
      BY <1>3
  <1> HIDE DEF new
  <1> QED BY <1>1, <1>2, <1>4, <1>6, <1>7

LEMMA NotedLog ==
  ASSUME IInv, LogTypes, NEW f, NEW done \in Seq(Pieces), NEW left \in Seq(Pieces), NEW F,
         log' = Forget(Noted(f, done, left), F) \/ (F = {} /\ log' = Noted(f, done, left))
  PROVE  /\ DOMAIN log' = DOMAIN log \ F
         /\ \A g \in DOMAIN log' \ {f} : log'[g] = log[g]
         /\ f \in DOMAIN log' /\ Desc(f).write =>
              /\ log'[f].bytes = log[f].bytes
              /\ log'[f].said = log[f].said \o done /\ log'[f].tail = left
         /\ f \in DOMAIN log' /\ ~Desc(f).write => log'[f] = log[f]
         /\ \A g \in DOMAIN log' : log'[g] \in Logs
  <1> DEFINE new == [bytes |-> log[f].bytes, said |-> log[f].said \o done, tail |-> left]
  <1>1. /\ DOMAIN log' = DOMAIN log \ F
        /\ \A g \in DOMAIN log' \ {f} : log'[g] = log[g]
      BY DEF Forget, Noted, Restrict
  <1>2. f \in DOMAIN log' /\ ~Desc(f).write => log'[f] = log[f]
      BY <1>1 DEF Forget, Noted, Restrict
  <1>3. f \in DOMAIN log' /\ Desc(f).write => log'[f] = new
    <2>1. SUFFICES ASSUME f \in DOMAIN log', Desc(f).write
                   PROVE  log'[f] = new
        OBVIOUS
    <2>2. f \in DOMAIN log /\ log[f] \in Logs
        BY <1>1, <2>1 DEF LogTypes
    <2>3. log'[f] = [log[f] EXCEPT !.said = @ \o done, !.tail = left]
        BY <2>1, <2>2 DEF Forget, Noted, Restrict
    <2> QED BY <2>2, <2>3 DEF Logs
  <1>4. \A g \in DOMAIN log' : log[g] \in Logs
      BY <1>1 DEF LogTypes
  <1>5. f \in DOMAIN log' => new \in Logs
    <2>1. SUFFICES ASSUME f \in DOMAIN log'
                   PROVE  new \in Logs
        OBVIOUS
    <2>2. log[f].said \o done \in Seq(Pieces)
        BY <1>4, <2>1, ConcatProperties DEF Logs
    <2> QED BY <1>4, <2>1, <2>2 DEF Logs
  <1>6. f \in DOMAIN log' => log'[f] \in Logs
      BY <1>2, <1>3, <1>4, <1>5
  <1>7. f \in DOMAIN log' /\ Desc(f).write =>
          /\ log'[f].bytes = log[f].bytes
          /\ log'[f].said = log[f].said \o done /\ log'[f].tail = left
      BY <1>3
  <1> HIDE DEF new
  <1> QED BY <1>1, <1>2, <1>4, <1>6, <1>7

\* With no other stream to forget.
LEMMA NotedAll ==
  ASSUME IInv, LogTypes, NEW f, NEW done \in Seq(Pieces), NEW left \in Seq(Pieces),
         log' = Noted(f, done, left)
  PROVE  /\ DOMAIN log' = DOMAIN log
         /\ \A g \in DOMAIN log' \ {f} : log'[g] = log[g]
         /\ f \in DOMAIN log' /\ Desc(f).write =>
              /\ log'[f].bytes = log[f].bytes
              /\ log'[f].said = log[f].said \o done /\ log'[f].tail = left
         /\ f \in DOMAIN log' /\ ~Desc(f).write => log'[f] = log[f]
         /\ \A g \in DOMAIN log' : log'[g] \in Logs
  <1> DEFINE new == [bytes |-> log[f].bytes, said |-> log[f].said \o done, tail |-> left]
  <1>1. /\ DOMAIN log' = DOMAIN log
        /\ \A g \in DOMAIN log' \ {f} : log'[g] = log[g]
      BY DEF Noted
  <1>2. ASSUME f \in DOMAIN log'
        PROVE  /\ ~Desc(f).write => log'[f] = log[f]
               /\ Desc(f).write => log'[f] = new
               /\ new \in Logs
    <2>1. f \in DOMAIN log /\ log[f] \in Logs
        BY <1>1, <1>2 DEF LogTypes
    <2>2. ~Desc(f).write => log'[f] = log[f]
        BY <2>1 DEF Noted
    <2>3. Desc(f).write => log'[f] = [log[f] EXCEPT !.said = @ \o done, !.tail = left]
        BY <2>1 DEF Noted
    <2>4. Desc(f).write => log'[f] = new
      <3>1. SUFFICES ASSUME Desc(f).write
                     PROVE  log'[f] = new
          OBVIOUS
      <3>2. log'[f] = [log[f] EXCEPT !.said = @ \o done, !.tail = left]
          BY <2>3, <3>1
      <3> QED BY <2>1, <3>2 DEF Logs
    <2>5. log[f].said \o done \in Seq(Pieces)
        BY <2>1, ConcatProperties DEF Logs
    <2>6. new \in Logs
        BY <2>1, <2>5 DEF Logs
    <2> HIDE DEF new
    <2> QED BY <2>2, <2>4, <2>6
  <1>3. f \in DOMAIN log' /\ Desc(f).write =>
          /\ log'[f].bytes = log[f].bytes
          /\ log'[f].said = log[f].said \o done /\ log'[f].tail = left
      BY <1>2
  <1> HIDE DEF new
  <1>4. \A g \in DOMAIN log' : log'[g] \in Logs
      BY <1>1, <1>2 DEF LogTypes
  <1> QED BY <1>1, <1>2, <1>3, <1>4

\* Forgetting alone.
LEMMA ForgetLog ==
  ASSUME LogTypes, NEW F, NEW lg, lg = Forget(log, F)
  PROVE  /\ DOMAIN lg = DOMAIN log \ F
         /\ \A g \in DOMAIN lg : lg[g] = log[g]
         /\ \A g \in DOMAIN lg : lg[g] \in Logs
  BY DEF Forget, Restrict, LogTypes
-----------------------------------------------------------------------------
\* fopen that has only its FILE yet, and one that fails; the end of fclose.
LEMMA FopenData ==
  ASSUME IInv, DataInv, NEW t, NEW name, NEW mode, NEW f, Fopen(t, name, mode, f)
  PROVE  DataInv'
  <1> DEFINE rec == [at |-> "open", f |-> f, name |-> name, flags |-> Flags(Parse(mode))]
  <1>1. /\ file' = Put(file, f, [fd |-> NoFd, eof |-> FALSE, err |-> FALSE])
        /\ f \notin DOMAIN file /\ f \notin held /\ t \notin DOMAIN call
        /\ call' = Put(call, t, rec)
        /\ UNCHANGED <<disk, fds, held, log>>
      BY DEF Fopen, Idle, Begin, kernelVars, IInv, Types
  <1>2. /\ DOMAIN file' = DOMAIN file \cup {f}
        /\ file'[f] = [fd |-> NoFd, eof |-> FALSE, err |-> FALSE]
        /\ \A g \in DOMAIN file : file'[g] = file[g]
      BY <1>1 DEF Put
  <1>3. /\ DOMAIN call' = DOMAIN call \cup {t} /\ call'[t] = rec
        /\ \A u \in DOMAIN call : call'[u] = call[u]
      BY <1>1 DEF Put
  <1>4. CallOn(t, f)
    <2>1. \A u \in DOMAIN call : call[u].f \in DOMAIN file
        BY DEF IInv, Types, Calls
    <2> QED BY <1>1, <1>3, <2>1 DEF CallOn
  <1>5. KernelTypes'
    <2>1. /\ \A nm \in DOMAIN disk' : disk'[nm] \in Seq(Char)
          /\ \A d \in DOMAIN fds' : fds'[d] \in
               [name : DOMAIN disk', pos : Nat, read : BOOLEAN, write : BOOLEAN, app : BOOLEAN]
        BY <1>1 DEF DataInv, KernelTypes
    <2>2. \A g \in DOMAIN file' : file'[g] \in
            [fd : Fds \cup {NoFd}, eof : BOOLEAN, err : BOOLEAN]
      <3>1. \A g \in DOMAIN file : file'[g] \in
              [fd : Fds \cup {NoFd}, eof : BOOLEAN, err : BOOLEAN]
          BY <1>2 DEF DataInv, KernelTypes
      <3>2. file'[f] \in [fd : Fds \cup {NoFd}, eof : BOOLEAN, err : BOOLEAN]
          BY <1>2
      <3> QED BY <1>2, <3>1, <3>2
    <2> QED BY <2>1, <2>2 DEF KernelTypes
  <1>6. LogTypes' /\ f \notin DOMAIN log'
      BY <1>1 DEF DataInv, LogTypes
  <1>7. CallTyped(t)'
    <2>1. Flags(Parse(mode)) \in OpenFlags
        BY DEF Flags, OpenFlags
    <2> QED BY <1>3, <2>1 DEF CallTyped
  <1>8. /\ \A g \in held \ {f} : g \in held' /\ file'[g] = file[g]
        /\ \A g \in DOMAIN log' \ {f} :
             g \in DOMAIN log /\ log'[g] = log[g] /\ Desc(g)' = Desc(g) /\ Text(g)' = Text(g)
      BY <1>1, <1>2 DEF DataInv, LogTypes, IInv, Types, Desc, Text
  <1> QED BY <1>4, <1>5, <1>6, <1>7, <1>8, OthersKept

LEMMA FreeData ==
  ASSUME IInv, DataInv, NEW t, OpenFails(t) \/ FreeFile(t)
  PROVE  DataInv'
  <1> DEFINE f == call[t].f
  <1>1. /\ t \in DOMAIN call /\ call[t].at \in {"open", "free"}
        /\ DOMAIN file' = DOMAIN file \ {f}
        /\ \A g \in DOMAIN file' : file'[g] = file[g]
        /\ DOMAIN call' = DOMAIN call \ {t}
        /\ \A u \in DOMAIN call' : call'[u] = call[u]
        /\ UNCHANGED <<disk, fds, held, log>>
      BY DEF OpenFails, FreeFile, Return, Restrict, kernelVars
  <1>2. f \notin held
      BY <1>1 DEF IInv, Calls
  <1>3. CallOn(t, f)
      BY <1>1 DEF CallOn, IInv, Alone
  <1>4. KernelTypes' /\ LogTypes' /\ f \notin DOMAIN log' /\ t \notin DOMAIN call'
      BY <1>1, <1>2 DEF DataInv, KernelTypes, LogTypes
  <1>5. /\ \A g \in held \ {f} : g \in held' /\ file'[g] = file[g]
        /\ \A g \in DOMAIN log' \ {f} :
             g \in DOMAIN log /\ log'[g] = log[g] /\ Desc(g)' = Desc(g) /\ Text(g)' = Text(g)
      BY <1>1 DEF DataInv, LogTypes, IInv, Types, Desc, Text
  <1> QED BY <1>3, <1>4, <1>5, OthersKept

\* A stream that is opened to be read is at the start of the file, one that
\* truncates or appends knows what is in it; the logs of the streams whose file
\* it truncates are forgotten.
LEMMA OpenData ==
  ASSUME IInv, DataInv, NEW t, Open(t)
  PROVE  DataInv'
  <1> DEFINE c == call[t]
             fd == LowestFd
             there == c.name \in DOMAIN disk
             now == IF there /\ ~c.flags.trunc THEN disk[c.name] ELSE <<>>
             kept == Forget(log, IF c.flags.trunc THEN On(c.name) ELSE {})
             rec == [bytes |-> IF c.flags.write THEN now ELSE <<>>, said |-> <<>>, tail |-> <<>>]
             new == [name |-> c.name, pos |-> 0, read |-> c.flags.read,
                     write |-> c.flags.write, app |-> c.flags.app]
  <1>1. PICK f : f = c.f
      OBVIOUS
  <1>2. fd \in Fds \ DOMAIN fds
      BY LowestFdIsFree DEF Open
  <1>3. /\ t \in DOMAIN call /\ c.at = "open"
        /\ disk' = Put(disk, c.name, now)
        /\ fds' = Put(fds, fd, new)
        /\ file' = [file EXCEPT ![f].fd = fd]
        /\ held' = held \cup {f}
        /\ log' = IF c.flags.write /\ ~c.flags.trunc /\ ~c.flags.app THEN kept
                  ELSE Put(kept, f, rec)
        /\ Return(t)
      BY <1>1 DEF Open
  <1>4. f \in DOMAIN file \ held /\ c.flags \in OpenFlags
      BY <1>1, <1>3 DEF IInv, Calls, DataInv, CallTyped
  <1> HIDE DEF fd, now, new, kept
  <1>5. /\ DOMAIN file' = DOMAIN file /\ \A g \in DOMAIN file \ {f} : file'[g] = file[g]
        /\ file'[f].fd = fd
        /\ file'[f] \in [fd : Fds \cup {NoFd}, eof : BOOLEAN, err : BOOLEAN]
    <2>1. file[f] \in [fd : Fds \cup {NoFd}, eof : BOOLEAN, err : BOOLEAN]
        BY <1>4 DEF DataInv, KernelTypes
    <2> QED BY <1>2, <1>3, <1>4, <2>1
  <1>6. /\ DOMAIN fds' = DOMAIN fds \cup {fd} /\ fds'[fd] = new
        /\ \A e \in DOMAIN fds : fds'[e] = fds[e]
      BY <1>2, <1>3 DEF Put
  <1>7. /\ DOMAIN disk' = DOMAIN disk \cup {c.name} /\ disk'[c.name] = now
        /\ \A name \in DOMAIN disk \ {c.name} : disk'[name] = disk[name]
      BY <1>3 DEF Put
  <1>8. now \in Seq(Char)
      BY EmptySeq DEF DataInv, KernelTypes, now
  <1>9. /\ new \in [name : DOMAIN disk', pos : Nat, read : BOOLEAN,
                    write : BOOLEAN, app : BOOLEAN]
        /\ new.name = c.name /\ new.pos = 0
        /\ new.write = c.flags.write /\ new.app = c.flags.app
      BY <1>4, <1>7 DEF OpenFlags, new
  <1>10. KernelTypes'
    <2>1. \A name \in DOMAIN disk' : disk'[name] \in Seq(Char)
        BY <1>7, <1>8 DEF DataInv, KernelTypes
    <2>2. \A e \in DOMAIN fds' : fds'[e] \in
            [name : DOMAIN disk', pos : Nat, read : BOOLEAN, write : BOOLEAN, app : BOOLEAN]
      <3>1. \A e \in DOMAIN fds : fds[e] \in
              [name : DOMAIN disk', pos : Nat, read : BOOLEAN, write : BOOLEAN, app : BOOLEAN]
          BY <1>7 DEF DataInv, KernelTypes
      <3> QED BY <1>6, <1>9, <3>1
    <2>3. \A g \in DOMAIN file' : file'[g] \in
            [fd : Fds \cup {NoFd}, eof : BOOLEAN, err : BOOLEAN]
        BY <1>5 DEF DataInv, KernelTypes
    <2> QED BY <2>1, <2>2, <2>3 DEF KernelTypes
  <1>11. /\ kept = Forget(log, IF c.flags.trunc THEN On(c.name) ELSE {})
         /\ DOMAIN kept \subseteq DOMAIN log
         /\ \A g \in DOMAIN kept : kept[g] = log[g] /\ (c.flags.trunc => g \notin On(c.name))
         /\ f \notin DOMAIN log
      BY <1>4 DEF Forget, Restrict, DataInv, LogTypes, kept
  <1>12. /\ DOMAIN log' \subseteq DOMAIN kept \cup {f}
         /\ \A g \in DOMAIN log' \ {f} : g \in DOMAIN kept /\ log'[g] = log[g]
         /\ f \in DOMAIN log' => /\ log'[f] = rec
                                 /\ ~(c.flags.write /\ ~c.flags.trunc /\ ~c.flags.app)
      BY <1>3, <1>11 DEF Put
  <1>13. rec \in Logs
    <2>1. <<>> \in Seq(Pieces) /\ <<>> \in Seq(Char)
        BY EmptySeq
    <2> QED BY <1>8, <2>1 DEF Logs
  <1>14. LogTypes'
    <2>1. DOMAIN log' \subseteq held'
        BY <1>3, <1>11, <1>12 DEF DataInv, LogTypes
    <2>2. \A g \in DOMAIN log' \ {f} : log'[g] \in Logs
        BY <1>11, <1>12 DEF DataInv, LogTypes
    <2>3. f \in DOMAIN log' => log'[f] \in Logs
        BY <1>12, <1>13
    <2> QED BY <2>1, <2>2, <2>3 DEF LogTypes
  <1>15. CallOn(t, f) /\ t \notin DOMAIN call' /\ \A u \in DOMAIN call' : call'[u].f # f
      BY <1>1, <1>3 DEF CallOn, Return, Restrict, IInv, Alone
  <1>16. \A g \in held \ {f} : g \in held' /\ file'[g] = file[g]
      BY <1>3, <1>5 DEF IInv, Types
  <1>17. ASSUME NEW g \in DOMAIN log' \ {f}
         PROVE  g \in DOMAIN log /\ log'[g] = log[g] /\ Desc(g)' = Desc(g) /\ Text(g)' = Text(g)
    <2>1. g \in DOMAIN log /\ g \in held /\ log'[g] = log[g] /\ g \in DOMAIN kept
        BY <1>11, <1>12 DEF DataInv, LogTypes
    <2>2. file'[g] = file[g] /\ file[g].fd \in DOMAIN fds /\ Desc(g).name \in DOMAIN disk
        BY <1>16, <2>1, HeldTyped
    <2>3. Desc(g)' = Desc(g)
        BY <1>6, <2>2 DEF Desc
    <2>4. Desc(g).name = c.name => now = disk[c.name]
        BY <1>11, <2>1, <2>2 DEF On, now
    <2> QED BY <1>7, <2>1, <2>2, <2>3, <2>4 DEF Text
  <1>18. ASSUME f \in DOMAIN log'
         PROVE  LogKept(f)'
    <2>1. Desc(f)' = new
        BY <1>5, <1>6 DEF Desc
    <2>2. Text(f)' = now
        BY <1>7, <1>9, <2>1 DEF Text
    <2>3. /\ log'[f].bytes = (IF c.flags.write THEN now ELSE <<>>) /\ log'[f].said = <<>>
          /\ log'[f].tail = <<>> /\ log'[f] \in Logs
        BY <1>12, <1>13, <1>18
    <2>4. \A u : ~Gets(u, f)' /\ ~Puts(u, f)'
        BY <1>15 DEF Gets, Puts
    <2>5. ASSUME new.write
          PROVE  WriteKept(f)'
      <3>1. ~new.app => now = <<>>
          BY <1>4, <1>9, <1>12, <1>18, <2>5 DEF OpenFlags, now
      <3>2. log'[f].bytes = now /\ Len(<<>>) = 0
          BY <1>9, <2>3, <2>5, EmptySeq
      <3>3. ~Desc(f)'.app => Desc(f)'.pos = Len(Text(f)')
          BY <1>9, <2>2, <2>1, <3>1, <3>2
      <3>4. Told(Text(f), log[f])'
          BY <1>8, <2>2, <2>3, <3>2, ToldAtStart
      <3> QED BY <2>3, <2>4, <3>3, <3>4 DEF WriteKept
    <2>6. ASSUME ~new.write
          PROVE  ReadKept(f)'
      <3>1. log'[f].bytes = <<>> /\ Len(log'[f].bytes) = 0 /\ Len(now) \in Nat
          BY <1>8, <1>9, <2>3, <2>6, EmptySeq, LenProperties
      <3>2. Desc(f)'.pos = 0
          BY <1>9, <2>1
      <3> QED BY <2>2, <2>4, <3>1, <3>2 DEF ReadKept
    <2>7. Desc(f)'.write = new.write
        BY <2>1
    <2> QED BY <2>5, <2>6, <2>7 DEF LogKept
  <1> QED BY <1>10, <1>14, <1>15, <1>16, <1>17, <1>18, OthersKept

LEMMA FcloseData ==
  ASSUME IInv, DataInv, NEW t, NEW f, Fclose(t, f)
  PROVE  DataInv'
  <1>1. /\ f \in held \ Busy /\ t \notin DOMAIN call
        /\ fds' = Restrict(fds, DOMAIN fds \ {file[f].fd})
        /\ held' = held \ {f} /\ log' = Forget(log, {f}) /\ UNCHANGED <<disk, file>>
        /\ DOMAIN call' = DOMAIN call \cup {t}
        /\ call'[t].at = "free" /\ call'[t].f = f
        /\ \A u \in DOMAIN call : call'[u] = call[u]
      BY DEF Fclose, Free, Idle, Begin, Put
  <1>2. /\ DOMAIN fds' = DOMAIN fds \ {file[f].fd}
        /\ \A e \in DOMAIN fds' : fds'[e] = fds[e]
      BY <1>1 DEF Restrict
  <1>3. CallOn(t, f)
      BY <1>1 DEF CallOn, Busy
  <1>4. CallTyped(t)'
    <2>1. call'[t].at = "free"
        BY <1>1
    <2> QED BY <2>1 DEF CallTyped
  <1>5. /\ DOMAIN log' = DOMAIN log \ {f}
        /\ \A g \in DOMAIN log' : log'[g] = log[g]
    <2>1. log' = Forget(log, {f})
        BY <1>1
    <2> QED BY <2>1 DEF Forget, Restrict
  <1>6. KernelTypes'
      BY <1>1, <1>2 DEF DataInv, KernelTypes
  <1>7. LogTypes'
      BY <1>1, <1>5 DEF DataInv, LogTypes
  <1>8. ASSUME NEW g \in DOMAIN log' \ {f}
        PROVE  g \in DOMAIN log /\ log'[g] = log[g] /\ Desc(g)' = Desc(g) /\ Text(g)' = Text(g)
    <2>1. g \in DOMAIN log /\ g \in held /\ log'[g] = log[g]
        BY <1>5 DEF DataInv, LogTypes
    <2>2. file[g].fd \in DOMAIN fds'
        BY <1>1, <1>2, <2>1 DEF IInv, StreamsOwnFds
    <2>3. Desc(g)' = Desc(g)
        BY <1>1, <1>2, <2>2 DEF Desc
    <2> QED BY <1>1, <2>1, <2>3 DEF Text
  <1> QED BY <1>1, <1>3, <1>5, <1>6, <1>8, <1>4, <1>7, OthersKept

\* clearerr after the end of the file changes nothing that is known.
LEMMA ClearerrData ==
  ASSUME IInv, DataInv, NEW t, NEW f, Clearerr(t, f)
  PROVE  DataInv'
  <1>1. /\ f \in held \ Busy /\ t \notin DOMAIN call /\ UNCHANGED <<disk, fds, held, call>>
        /\ file' = [file EXCEPT ![f].eof = FALSE, ![f].err = FALSE]
        /\ log' = IF f \in DOMAIN log /\ (file[f].err \/ log[f].tail # <<>>)
                  THEN Forget(log, {f}) ELSE log
      BY DEF Clearerr, Free, Idle, kernelVars
  <1>2. f \in DOMAIN file /\ file[f] \in [fd : Fds \cup {NoFd}, eof : BOOLEAN, err : BOOLEAN]
      BY <1>1, HeldTyped
  <1>3. /\ DOMAIN file' = DOMAIN file /\ \A g \in DOMAIN file \ {f} : file'[g] = file[g]
        /\ file'[f].fd = file[f].fd
        /\ file'[f] \in [fd : Fds \cup {NoFd}, eof : BOOLEAN, err : BOOLEAN]
      BY <1>1, <1>2
  <1>4. CallOn(t, f)
      BY <1>1 DEF CallOn, Busy
  <1>5. KernelTypes'
      BY <1>1, <1>3 DEF DataInv, KernelTypes
  <1>6. /\ DOMAIN log' \subseteq DOMAIN log
        /\ \A g \in DOMAIN log' : log'[g] = log[g]
        /\ f \in DOMAIN log' => ~file[f].err /\ log[f].tail = <<>>
    <2>1. CASE f \in DOMAIN log /\ (file[f].err \/ log[f].tail # <<>>)
      <3>1. log' = Forget(log, {f})
          BY <1>1, <2>1
      <3> QED BY <3>1 DEF Forget, Restrict
    <2>2. CASE ~(f \in DOMAIN log /\ (file[f].err \/ log[f].tail # <<>>))
        BY <1>1, <2>2
    <2> QED BY <2>1, <2>2
  <1>7. LogTypes'
      BY <1>1, <1>6 DEF DataInv, LogTypes
  <1>8. \A g \in held : Desc(g)' = Desc(g) /\ Text(g)' = Text(g)
      BY <1>1, <1>3 DEF IInv, Types, Desc, Text
  <1>9. \A u : /\ ~Gets(u, f) /\ ~Puts(u, f) /\ ~Gets(u, f)' /\ ~Puts(u, f)'
      BY <1>1 DEF Gets, Puts, Busy
  <1>10. ASSUME f \in DOMAIN log'
         PROVE  LogKept(f)'
    <2>1. LogKept(f) /\ Desc(f)' = Desc(f) /\ Text(f)' = Text(f) /\ log'[f] = log[f]
          /\ ~file[f].err /\ log[f].tail = <<>>
        BY <1>1, <1>6, <1>8, <1>10 DEF DataInv
    <2>2. WriteKept(f) => WriteKept(f)'
        BY <1>9, <2>1 DEF WriteKept
    <2>3. ReadKept(f) => ReadKept(f)'
        BY <1>9, <2>1 DEF ReadKept
    <2> QED BY <2>1, <2>2, <2>3 DEF LogKept
  <1>11. \A g \in DOMAIN log' \ {f} :
           g \in DOMAIN log /\ log'[g] = log[g] /\ Desc(g)' = Desc(g) /\ Text(g)' = Text(g)
      BY <1>6, <1>8 DEF DataInv, LogTypes
  <1> QED BY <1>1, <1>3, <1>4, <1>5, <1>7, <1>10, <1>11, OthersKept DEF IInv, Types
-----------------------------------------------------------------------------
\* Bytes that agree with a text up to a place, and those that a read adds.
LEMMA AddedBytes ==
  ASSUME NEW text, NEW old \in Seq(Char), NEW r \in Seq(Char), NEW at \in Nat,
         \A i \in 1 .. Len(old) : old[i] = text[at + i],
         \A i \in 1 .. Len(r) : r[i] = text[at + Len(old) + i]
  PROVE  /\ old \o r \in Seq(Char) /\ Len(old \o r) = Len(old) + Len(r)
         /\ \A i \in 1 .. Len(old \o r) : (old \o r)[i] = text[at + i]
  <1>1. /\ old \o r \in Seq(Char) /\ Len(old \o r) = Len(old) + Len(r)
        /\ \A i \in 1 .. Len(old) + Len(r) :
             (old \o r)[i] = IF i <= Len(old) THEN old[i] ELSE r[i - Len(old)]
        /\ Len(old) \in Nat /\ Len(r) \in Nat
      BY ConcatProperties, LenProperties
  <1>2. ASSUME NEW i \in 1 .. Len(old) + Len(r)
        PROVE  (old \o r)[i] = text[at + i]
    <2>1. CASE i <= Len(old)
        BY <1>1, <2>1
    <2>2. CASE i > Len(old)
      <3>1. i - Len(old) \in 1 .. Len(r) /\ at + Len(old) + (i - Len(old)) = at + i
          BY <1>1, <2>2
      <3> QED BY <1>1, <2>2, <3>1
    <2> QED BY <1>1, <2>1, <2>2
  <1> QED BY <1>1, <1>2

LEMMA JoinedBytes ==
  ASSUME NEW text, NEW old \in Seq(Char), NEW r \in Seq(Char),
         \A i \in 1 .. Len(old) : old[i] = text[i],
         \A i \in 1 .. Len(r) : r[i] = text[Len(old) + i]
  PROVE  /\ Len(old \o r) = Len(old) + Len(r)
         /\ \A i \in 1 .. Len(old \o r) : (old \o r)[i] = text[i]
  <1>1. Len(old) \in Nat /\ Len(r) \in Nat /\ Len(old \o r) \in Nat
      BY ConcatProperties, LenProperties
  <1>2. /\ \A i \in 1 .. Len(old) : old[i] = text[0 + i]
        /\ \A i \in 1 .. Len(r) : r[i] = text[0 + Len(old) + i]
      BY <1>1
  <1>3. /\ Len(old \o r) = Len(old) + Len(r)
        /\ \A i \in 1 .. Len(old \o r) : (old \o r)[i] = text[0 + i]
      BY <1>2, AddedBytes
  <1> QED BY <1>1, <1>3

\* A read of a stream that writes too finds it at the end, or does not matter.
LEMMA WriterReads ==
  ASSUME IInv, DataInv, NEW f \in held, Desc(f).write, WriteKept(f), NEW n \in Nat \ {0},
         NEW r \in ReadResults(Desc(f), n), Reads(f, r), UNCHANGED held,
         log'[f] = log[f], \A u : ~Puts(u, f) /\ ~Puts(u, f)'
  PROVE  WriteKept(f)'
  <1> DEFINE k == IF r = NoBytes THEN 0 ELSE Len(r)
  <1>1. /\ Text(f)' = Text(f) /\ Desc(f)' = [Desc(f) EXCEPT !.pos = @ + k]
        /\ file'[f].err <=> file[f].err \/ r = NoBytes
        /\ file'[f].eof <=> file[f].eof \/ r = <<>>
      BY ReadEffect
  <1>2. /\ Desc(f) \in [name : DOMAIN disk, pos : Nat, read : BOOLEAN,
                        write : BOOLEAN, app : BOOLEAN]
        /\ Text(f) \in Seq(Char) /\ Len(Text(f)) \in Nat /\ Desc(f).pos \in Nat
      BY HeldTyped
  <1>3. Desc(f).pos = Len(Text(f)) => k = 0
      BY <1>2, ReadGives DEF Text
  <1> HIDE DEF k
  <1>4. Desc(f)'.app = Desc(f).app /\ Desc(f)'.pos = Desc(f).pos + k
      BY <1>1, <1>2
  <1>5. ~Desc(f)'.app => Desc(f)'.pos = Len(Text(f)')
      BY <1>1, <1>2, <1>3, <1>4 DEF WriteKept
  <1>6. Stopped(f) => Stopped(f)'
      BY <1>1 DEF Stopped
  <1>7. Told(Text(f), log[f])'
    <2>1. Told(Text(f), log[f]) /\ log'[f] = log[f]
        BY DEF WriteKept
    <2> QED BY <1>1, <2>1 DEF Told
  <1>8. log'[f].tail # <<>> => Stopped(f)'
      BY <1>6 DEF WriteKept
  <1> QED BY <1>5, <1>7, <1>8 DEF WriteKept

\* What a read leaves to be shown of a call.
LEMMA ReadFrame ==
  ASSUME IInv, DataInv, NEW t, NEW f \in held, NEW n \in Nat \ {0},
         NEW r \in ReadResults(Desc(f), n), Reads(f, r), UNCHANGED held, CallOn(t, f),
         DOMAIN log' \subseteq DOMAIN log, \A g \in DOMAIN log' \ {f} : log'[g] = log[g],
         \A g \in DOMAIN log' : log'[g] \in Logs,
         t \in DOMAIN call' => CallTyped(t)',
         f \in DOMAIN log' => LogKept(f)'
  PROVE  DataInv'
  <1>1. KernelTypes' /\ \A g \in held \ {f} :
          file'[g] = file[g] /\ Desc(g)' = Desc(g) /\ Text(g)' = Text(g)
      BY ReadEffect
  <1>2. LogTypes' /\ DOMAIN log \subseteq held
      BY DEF DataInv, LogTypes
  <1>3. \A g \in DOMAIN log' \ {f} :
          g \in DOMAIN log /\ log'[g] = log[g] /\ Desc(g)' = Desc(g) /\ Text(g)' = Text(g)
      BY <1>1, <1>2
  <1> QED BY <1>1, <1>2, <1>3, OthersKept

\* fread gives the bytes at the position; of a stopped stream the program
\* knows nothing after it.
LEMMA FreadData ==
  ASSUME IInv, DataInv, NEW t, NEW f, NEW n \in Nat \ {0}, Fread(t, f, n)
  PROVE  DataInv'
  <1>1. f \in held \ Busy /\ t \notin DOMAIN call /\ UNCHANGED <<held, call>>
      BY DEF Fread, Free, Idle
  <1>2. CallOn(t, f) /\ \A u : ~Gets(u, f) /\ ~Puts(u, f) /\ ~Gets(u, f)' /\ ~Puts(u, f)'
      BY <1>1 DEF CallOn, Busy, Gets, Puts
  <1>3. CASE Stopped(f) /\ log' = Forget(log, {f}) /\ UNCHANGED <<kernelVars, file>>
    <2>1. UNCHANGED <<disk, fds, file>> /\ KernelTypes'
        BY <1>3 DEF kernelVars, DataInv, KernelTypes
    <2>2. /\ DOMAIN log' = DOMAIN log \ {f} /\ \A g \in DOMAIN log' : log'[g] = log[g]
          /\ \A g \in DOMAIN log' : log'[g] \in Logs
        BY <1>3, ForgetLog DEF DataInv
    <2>3. LogTypes'
        BY <1>1, <2>2 DEF DataInv, LogTypes
    <2>4. \A g \in DOMAIN log' \ {f} :
            g \in DOMAIN log /\ log'[g] = log[g] /\ Desc(g)' = Desc(g) /\ Text(g)' = Text(g)
        BY <2>1, <2>2 DEF Desc, Text
    <2> QED BY <1>1, <1>2, <2>1, <2>2, <2>3, <2>4, OthersKept
  <1>4. ASSUME ~Stopped(f), NEW r \in ReadResults(Desc(f), n), Reads(f, r),
               log' = IF r = NoBytes THEN log ELSE Forget(Given(f, r), Short(f, Len(r), n))
        PROVE  DataInv'
    <2> DEFINE d == Desc(f)
               text == Text(f)
               k == IF r = NoBytes THEN 0 ELSE Len(r)
               given == log[f].bytes
    <2>1. text' = text /\ d' = [d EXCEPT !.pos = @ + k]
        BY <1>1, <1>4, ReadEffect
    <2>2. /\ d \in [name : DOMAIN disk, pos : Nat, read : BOOLEAN,
                    write : BOOLEAN, app : BOOLEAN]
          /\ text \in Seq(Char) /\ Len(text) \in Nat /\ d.pos \in Nat
        BY <1>1, HeldTyped
    <2>3. r # NoBytes => /\ r \in Seq(Char) /\ Len(r) \in Nat
                         /\ d.pos <= Len(text) => d.pos + Len(r) <= Len(text)
                         /\ \A i \in 1 .. Len(r) : r[i] = text[d.pos + i]
        BY <1>4, <2>2, ReadGives, LenProperties DEF Text
    <2>4. /\ DOMAIN log' \subseteq DOMAIN log /\ \A g \in DOMAIN log' \ {f} : log'[g] = log[g]
          /\ \A g \in DOMAIN log' : log'[g] \in Logs
          /\ f \in DOMAIN log' /\ (r = NoBytes \/ d.write) => log'[f] = log[f]
          /\ f \in DOMAIN log' /\ r # NoBytes /\ ~d.write => log'[f].bytes = given \o r
      <3>1. CASE r = NoBytes
          BY <1>4, <3>1 DEF DataInv, LogTypes
      <3>2. CASE r # NoBytes
        <4>1. log' = Forget(Given(f, r), Short(f, Len(r), n)) /\ r \in Seq(Char) /\ LogTypes
            BY <1>4, <2>3, <3>2 DEF DataInv
        <4>2. /\ DOMAIN log' = DOMAIN log \ Short(f, Len(r), n)
              /\ \A g \in DOMAIN log' \ {f} : log'[g] = log[g]
              /\ f \in DOMAIN log' /\ Desc(f).write => log'[f] = log[f]
              /\ f \in DOMAIN log' /\ ~Desc(f).write => log'[f].bytes = log[f].bytes \o r
              /\ \A g \in DOMAIN log' : log'[g] \in Logs
            BY <4>1, GivenLog
        <4> QED BY <3>2, <4>2
      <3> QED BY <3>1, <3>2
    <2>5. ASSUME f \in DOMAIN log', ~d.write
          PROVE  ReadKept(f)'
      <3>1. /\ f \in DOMAIN log /\ given \in Seq(Char) /\ Len(given) \in Nat /\ ~file[f].err
          BY <1>4, <2>4, <2>5, LenProperties DEF DataInv, LogTypes, Logs, Stopped
      <3>2. /\ Len(given) = d.pos /\ d.pos <= Len(text)
            /\ \A i \in 1 .. Len(given) : given[i] = text[i]
          BY <1>2, <2>5, <3>1 DEF DataInv, LogKept, ReadKept
      <3>3. /\ Len(log'[f].bytes) = d'.pos /\ d'.pos \in Nat /\ d'.pos <= Len(text')
            /\ \A i \in 1 .. Len(log'[f].bytes) : log'[f].bytes[i] = text'[i]
        <4> HIDE DEF d, text, given
        <4>1. CASE r = NoBytes
          <5>1. log'[f].bytes = given /\ d'.pos = d.pos
              BY <2>1, <2>2, <2>4, <2>5, <4>1 DEF given
          <5> QED BY <2>1, <2>2, <3>2, <5>1
        <4>2. CASE r # NoBytes
          <5>1. log'[f].bytes = given \o r /\ d'.pos = d.pos + Len(r)
              BY <2>1, <2>2, <2>4, <2>5, <4>2
          <5>2. \A i \in 1 .. Len(r) : r[i] = text[Len(given) + i]
              BY <2>3, <3>2, <4>2
          <5>3. /\ Len(given \o r) = Len(given) + Len(r)
                /\ \A i \in 1 .. Len(given \o r) : (given \o r)[i] = text[i]
              BY <2>3, <3>1, <3>2, <4>2, <5>2, JoinedBytes
          <5>4. Len(given \o r) = d.pos + Len(r) /\ d.pos + Len(r) <= Len(text)
                /\ d.pos + Len(r) \in Nat
              BY <2>2, <2>3, <3>2, <4>2, <5>3
          <5> QED BY <2>1, <5>1, <5>3, <5>4
        <4> QED BY <4>1, <4>2
      <3> QED BY <1>2, <3>3 DEF ReadKept
    <2>6. ASSUME f \in DOMAIN log', d.write
          PROVE  WriteKept(f)'
      <3>1. WriteKept(f) /\ log'[f] = log[f]
          BY <2>4, <2>6 DEF DataInv, LogKept
      <3> QED BY <1>1, <1>2, <1>4, <2>6, <3>1, WriterReads
    <2>7. d'.write = d.write
        BY <2>1, <2>2
    <2>8. f \in DOMAIN log' => LogKept(f)'
        BY <2>5, <2>6, <2>7 DEF LogKept
    <2> QED BY <1>1, <1>2, <1>4, <2>4, <2>8, ReadFrame
  <1> QED BY <1>3, <1>4 DEF Fread

\* fgets starts with an empty buffer, on a stream that has no error.
LEMMA FgetsData ==
  ASSUME IInv, DataInv, NEW t, NEW f, NEW n \in Nat \ {0}, Fgets(t, f, n)
  PROVE  DataInv'
  <1> DEFINE rec == [at |-> "gets", f |-> f, n |-> n, buf |-> <<>>]
  <1>1. /\ f \in held \ Busy /\ t \notin DOMAIN call /\ ~Stopped(f) /\ n > 1
        /\ call' = Put(call, t, rec)
        /\ UNCHANGED <<disk, fds, file, held, log>>
      BY DEF Fgets, Free, Idle, Begin, kernelVars
  <1>2. /\ DOMAIN call' = DOMAIN call \cup {t} /\ call'[t] = rec
        /\ \A u \in DOMAIN call : u # t /\ call'[u] = call[u]
      BY <1>1 DEF Put
  <1>3. rec.at = "gets" /\ rec.f = f /\ rec.n = n /\ rec.buf = <<>> /\ Len(rec.buf) = 0
      BY EmptySeq
  <1>4. /\ CallOn(t, f)
        /\ \A u : ~Gets(u, f) /\ ~Puts(u, f) /\ ~Puts(u, f)' /\ (Gets(u, f)' => u = t)
      BY <1>1, <1>2, <1>3 DEF CallOn, Busy, Gets, Puts
  <1>5. KernelTypes' /\ LogTypes'
      BY <1>1 DEF DataInv, KernelTypes, LogTypes
  <1>6. CallTyped(t)'
    <2>1. rec \in [at : {"gets"}, f : held', n : Nat, buf : Seq(Char)]
        BY <1>1, EmptySeq
    <2>2. ~file'[f].err
        BY <1>1 DEF Stopped
    <2> HIDE DEF rec
    <2> QED BY <1>1, <1>2, <1>3, <2>1, <2>2 DEF CallTyped
  <1>7. \A g : Desc(g)' = Desc(g) /\ Text(g)' = Text(g)
      BY <1>1 DEF Desc, Text
  <1>8. ASSUME f \in DOMAIN log'
        PROVE  LogKept(f)'
    <2>1. f \in DOMAIN log /\ LogKept(f) /\ ~file[f].err /\ log' = log /\ file' = file
        BY <1>1, <1>8 DEF DataInv, Stopped
    <2>2. WriteKept(f) => WriteKept(f)'
        BY <1>4, <1>7, <2>1 DEF WriteKept, Stopped
    <2>3. ASSUME ReadKept(f)
          PROVE  ReadKept(f)'
      <3> DEFINE given == log[f].bytes
      <3>1. /\ Len(given) = Desc(f).pos /\ Desc(f).pos <= Len(Text(f))
            /\ \A i \in 1 .. Len(given) : given[i] = Text(f)[i]
          BY <1>4, <2>1, <2>3 DEF ReadKept
      <3>2. given \in Seq(Char) /\ Len(given) \in Nat
          BY <2>1, LenProperties DEF DataInv, LogTypes, Logs
      <3> HIDE DEF rec
      <3>3. \A u : Gets(u, f)' => Len(call'[u].buf) = 0
          BY <1>2, <1>3, <1>4
      <3>4. \A u : Gets(u, f)' =>
              /\ Len(given) + Len(call'[u].buf) = Desc(f).pos
              /\ \A i \in 1 .. Len(call'[u].buf) : call'[u].buf[i] = Text(f)[Len(given) + i]
          BY <3>1, <3>2, <3>3
      <3>5. given' = given /\ Len(given) <= Desc(f).pos
          BY <2>1, <3>1, <3>2
      <3> HIDE DEF given
      <3> QED BY <1>7, <3>1, <3>4, <3>5 DEF ReadKept, given
    <2> QED BY <1>7, <2>1, <2>2, <2>3 DEF LogKept
  <1>9. \A g \in DOMAIN log' \ {f} :
          g \in DOMAIN log /\ log'[g] = log[g] /\ Desc(g)' = Desc(g) /\ Text(g)' = Text(g)
      BY <1>1, <1>7
  <1> QED BY <1>1, <1>4, <1>5, <1>6, <1>8, <1>9, OthersKept

\* A turn of its loop adds a byte to the buffer, or gives the buffer to the
\* program, or drops it for an error.
LEMMA FgetsByteData ==
  ASSUME IInv, DataInv, NEW t, FgetsByte(t)
  PROVE  DataInv'
  <1>1. PICK f : f = call[t].f
      OBVIOUS
  <1> DEFINE buf == call[t].buf
             text == Text(f)
             given == log[f].bytes
  <1>2. t \in DOMAIN call /\ call[t].at = "gets" /\ f \in held /\ UNCHANGED held
      BY <1>1 DEF FgetsByte, IInv, Calls
  <1>3. PICK r \in ReadResults(Desc(f), 1) :
          /\ Reads(f, r)
          /\ IF r \notin {NoBytes, <<>>, <<Newline>>} /\ Len(buf) + 1 < call[t].n - 1
             THEN call' = [call EXCEPT ![t].buf = @ \o r] /\ UNCHANGED log
             ELSE Return(t) /\ log' = IF r = NoBytes THEN log ELSE Given(f, buf \o r)
      BY <1>1 DEF FgetsByte
  <1>4. /\ call[t] \in [at : {"gets"}, f : held, n : Nat, buf : Seq(Char)]
        /\ ~file[f].err /\ Len(buf) + 1 < call[t].n /\ Len(buf) \in Nat /\ call[t].n \in Nat
      BY <1>1, <1>2, LenProperties DEF DataInv, CallTyped
  <1>5. \A u \in DOMAIN call : u # t => call[u].f # f
      BY <1>1, <1>2 DEF IInv, Alone
  <1>6. Gets(t, f) /\ \A u : ~Puts(u, f) /\ (Gets(u, f) => u = t)
      BY <1>1, <1>2, <1>5 DEF Gets, Puts
  <1>7. Text(f)' = text
      BY <1>2, <1>3, ReadEffect
  <1>8. /\ Desc(f) \in [name : DOMAIN disk, pos : Nat, read : BOOLEAN,
                        write : BOOLEAN, app : BOOLEAN]
        /\ text \in Seq(Char) /\ Len(text) \in Nat /\ Desc(f).pos \in Nat
      BY <1>2, HeldTyped
  <1>9. buf \in Seq(Char)
      BY <1>4
  <1>10. r # NoBytes =>
          /\ r \in Seq(Char) /\ Len(r) \in 0 .. 1
          /\ Desc(f).pos <= Len(text) => Desc(f).pos + Len(r) <= Len(text)
          /\ \A i \in 1 .. Len(r) : r[i] = text[Desc(f).pos + i]
    <2>1. SUFFICES ASSUME r # NoBytes
                   PROVE  /\ r \in Seq(Char) /\ Len(r) \in 0 .. 1
                          /\ Desc(f).pos <= Len(text) => Desc(f).pos + Len(r) <= Len(text)
                          /\ \A i \in 1 .. Len(r) : r[i] = text[Desc(f).pos + i]
        OBVIOUS
    <2>2. disk[Desc(f).name] \in Seq(Char) /\ text = disk[Desc(f).name] /\ 1 \in Nat \ {0}
        BY <1>8 DEF Text
    <2> HIDE DEF text
    <2>3. ASSUME NEW n \in Nat \ {0}, r \in ReadResults(Desc(f), n)
          PROVE  /\ r \in Seq(Char) /\ Len(r) \in 0 .. n
                 /\ Desc(f).pos <= Len(text) => Desc(f).pos + Len(r) <= Len(text)
                 /\ \A i \in 1 .. Len(r) : r[i] = text[Desc(f).pos + i]
      <3>1. /\ r \in Seq(Char) /\ Len(r) \in 0 .. n
            /\ Desc(f).pos <= Len(disk[Desc(f).name]) =>
                 Desc(f).pos + Len(r) <= Len(disk[Desc(f).name])
            /\ \A i \in 1 .. Len(r) : r[i] = disk[Desc(f).name][Desc(f).pos + i]
        <4>1. Desc(f).pos \in Nat /\ disk[Desc(f).name] \in Seq(Char)
            BY <1>8, <2>2
        <4> QED BY <2>1, <2>3, <4>1, ReadGives
      <3> QED BY <2>2, <3>1
    <2> QED BY <1>3, <2>2, <2>3
  <1>11. Desc(f)'.write = Desc(f).write
      BY <1>2, <1>3, <1>8, ReadEffect
  <1>12. r # NoBytes => Desc(f)'.pos = Desc(f).pos + Len(r)
      BY <1>2, <1>3, <1>8, ReadEffect
  <1>13. r = NoBytes => Desc(f)'.pos = Desc(f).pos /\ file'[f].err
    <2>1. r = NoBytes => Desc(f)'.pos = Desc(f).pos
        BY <1>2, <1>3, <1>8, ReadEffect
    <2>2. r = NoBytes => file'[f].err
        BY <1>2, <1>3, ReadEffect
    <2> QED BY <2>1, <2>2
  <1>14. r # NoBytes => ~file'[f].err
      BY <1>2, <1>3, <1>4, ReadEffect
  \* What the reader of a log has been given so far, and what is in the buffer.
  <1>15. ASSUME f \in DOMAIN log, ~Desc(f).write
         PROVE  /\ given \in Seq(Char) /\ Len(given) \in Nat
                /\ Len(given) + Len(buf) = Desc(f).pos /\ Desc(f).pos <= Len(text)
                /\ \A i \in 1 .. Len(given) : given[i] = text[i]
                /\ \A i \in 1 .. Len(buf) : buf[i] = text[Len(given) + i]
    <2>1. ReadKept(f) /\ given \in Seq(Char)
        BY <1>15 DEF DataInv, LogTypes, Logs, LogKept
    <2> QED BY <1>6, <2>1, LenProperties DEF ReadKept
  <1>16. r # NoBytes => buf \o r \in Seq(Char) /\ Len(buf \o r) = Len(buf) + Len(r)
      BY <1>10, <1>9, ConcatProperties
  <1> DEFINE line == buf \o r
  <1> HIDE DEF buf, text, given, line
  <1>17. r # NoBytes /\ f \in DOMAIN log /\ ~Desc(f).write =>
           \A i \in 1 .. Len(line) : line[i] = text[Len(given) + i]
    <2>1. SUFFICES ASSUME r # NoBytes, f \in DOMAIN log, ~Desc(f).write
                   PROVE  \A i \in 1 .. Len(line) : line[i] = text[Len(given) + i]
        OBVIOUS
    <2>2. r \in Seq(Char) /\ \A i \in 1 .. Len(r) : r[i] = text[Len(given) + Len(buf) + i]
        BY <1>10, <1>15, <2>1
    <2> QED BY <1>15, <1>9, <2>1, <2>2, AddedBytes DEF line
  <1>18. CASE r \notin {NoBytes, <<>>, <<Newline>>} /\ Len(buf) + 1 < call[t].n - 1
    <2>1. call' = [call EXCEPT ![t].buf = @ \o r] /\ log' = log /\ r # NoBytes
        BY <1>3, <1>18
    <2>2. /\ DOMAIN call' = DOMAIN call /\ call'[t] = [call[t] EXCEPT !.buf = @ \o r]
          /\ \A u \in DOMAIN call \ {t} : call'[u] = call[u]
        BY <1>2, <2>1
    <2>3. line \in Seq(Char) /\ Len(line) = Len(buf) + Len(r)
        BY <1>16, <2>1 DEF line
    <2>4. /\ call'[t] \in [at : {"gets"}, f : held, n : Nat, buf : Seq(Char)]
          /\ call'[t].at = "gets" /\ call'[t].f = f /\ call'[t].n = call[t].n
          /\ call'[t].buf = line
        BY <1>1, <1>4, <2>2, <2>3 DEF buf, line
    <2>5. CallOn(t, f) /\ \A u : ~Puts(u, f)' /\ (Gets(u, f)' => u = t)
        BY <1>1, <1>2, <1>5, <2>2, <2>4 DEF CallOn, Puts, Gets
    <2>6. CallTyped(t)'
      <3>1. Len(line) + 1 < call[t].n
        <4>1. Len(r) \in 0 .. 1
            BY <1>10, <2>1
        <4>2. Len(buf) \in Nat /\ call[t].n \in Nat
            BY <1>4
        <4>3. Len(buf) + 1 < call[t].n - 1 /\ Len(line) = Len(buf) + Len(r)
            BY <1>18, <2>3
        <4>4. \A b, m \in Nat, l \in 0 .. 1 : b + 1 < m - 1 => b + l + 1 < m
            OBVIOUS
        <4> QED BY <4>1, <4>2, <4>3, <4>4
      <3> QED BY <1>2, <1>14, <2>1, <2>4, <3>1 DEF CallTyped
    <2>7. ASSUME f \in DOMAIN log, ~Desc(f).write
          PROVE  ReadKept(f)'
      <3>1. /\ Len(given) + Len(line) = Desc(f)'.pos /\ Desc(f)'.pos <= Len(text)
            /\ Len(given) <= Desc(f)'.pos
          BY <1>4, <1>10, <1>12, <1>15, <2>1, <2>3, <2>7
      <3>2. \A i \in 1 .. Len(line) : line[i] = text[Len(given) + i]
          BY <1>17, <2>1, <2>7
      <3>3. given' = given /\ Gets(t, f)'
          BY <1>2, <2>1, <2>2, <2>4 DEF given, Gets
      <3>4. \A u : Gets(u, f)' =>
              /\ Len(given) + Len(call'[u].buf) = Desc(f)'.pos
              /\ \A i \in 1 .. Len(call'[u].buf) : call'[u].buf[i] = text[Len(given) + i]
        <4> SUFFICES ASSUME NEW u, Gets(u, f)'
                     PROVE  /\ Len(given) + Len(call'[u].buf) = Desc(f)'.pos
                            /\ \A i \in 1 .. Len(call'[u].buf) :
                                 call'[u].buf[i] = text[Len(given) + i]
            OBVIOUS
        <4>1. call'[u].buf = line
            BY <2>4, <2>5
        <4> QED BY <3>1, <3>2, <4>1
      <3> QED BY <1>7, <1>15, <2>7, <3>1, <3>3, <3>4 DEF ReadKept, given, text
    <2>8. ASSUME f \in DOMAIN log, Desc(f).write
          PROVE  WriteKept(f)'
      <3>1. WriteKept(f)
          BY <2>8 DEF DataInv, LogKept
      <3> QED BY <1>2, <1>3, <1>6, <2>1, <2>5, <2>8, <3>1, WriterReads
    <2>9. f \in DOMAIN log' => LogKept(f)'
        BY <1>11, <2>1, <2>7, <2>8 DEF LogKept
    <2>10. \A g \in DOMAIN log' : log'[g] \in Logs
        BY <2>1 DEF DataInv, LogTypes
    <2> QED BY <1>2, <1>3, <2>1, <2>5, <2>6, <2>9, <2>10, ReadFrame
  <1>19. CASE ~(r \notin {NoBytes, <<>>, <<Newline>>} /\ Len(buf) + 1 < call[t].n - 1)
    <2>1. Return(t) /\ log' = IF r = NoBytes THEN log ELSE Given(f, line)
        BY <1>3, <1>19 DEF buf, line
    <2>2. /\ DOMAIN call' = DOMAIN call \ {t}
          /\ \A u \in DOMAIN call' : call'[u] = call[u]
        BY <2>1 DEF Return, Restrict
    <2>3. CallOn(t, f) /\ \A u : ~Puts(u, f)' /\ ~Gets(u, f)'
        BY <1>1, <1>2, <1>5, <2>2 DEF CallOn, Puts, Gets
    <2>4. r # NoBytes => line \in Seq(Char) /\ Len(line) = Len(buf) + Len(r)
        BY <1>16 DEF line
    <2>5. /\ DOMAIN log' \subseteq DOMAIN log /\ \A g \in DOMAIN log' \ {f} : log'[g] = log[g]
          /\ \A g \in DOMAIN log' : log'[g] \in Logs
          /\ f \in DOMAIN log' /\ (r = NoBytes \/ Desc(f).write) => log'[f] = log[f]
          /\ f \in DOMAIN log' /\ r # NoBytes /\ ~Desc(f).write =>
               log'[f].bytes = given \o line
      <3>1. CASE r = NoBytes
          BY <2>1, <3>1 DEF DataInv, LogTypes
      <3>2. CASE r # NoBytes
        <4>1. log' = Given(f, line) /\ line \in Seq(Char) /\ LogTypes
            BY <2>1, <2>4, <3>2 DEF DataInv, line
        <4> QED BY <3>2, <4>1, GivenLog DEF given
      <3> QED BY <3>1, <3>2
    <2>6. ASSUME f \in DOMAIN log', ~Desc(f).write
          PROVE  ReadKept(f)'
      <3>1. f \in DOMAIN log
          BY <2>5, <2>6
      <3>2. CASE r = NoBytes
        <4>1. log'[f].bytes = given /\ Desc(f)'.pos = Desc(f).pos /\ file'[f].err
            BY <1>13, <2>5, <2>6, <3>2 DEF given
        <4>2. Len(given) <= Desc(f).pos
            BY <1>4, <1>15, <2>6, <3>1
        <4> QED BY <1>7, <1>15, <2>3, <2>6, <3>1, <4>1, <4>2 DEF ReadKept, text
      <3>3. CASE r # NoBytes
        <4>1. log'[f].bytes = given \o line
            BY <2>5, <2>6, <3>3
        <4>2. /\ given \in Seq(Char) /\ Len(given) \in Nat
              /\ Len(given) + Len(buf) = Desc(f).pos /\ Desc(f).pos <= Len(text)
              /\ \A i \in 1 .. Len(given) : given[i] = text[i]
            BY <1>15, <2>6, <3>1
        <4>3. line \in Seq(Char) /\ Len(line) = Len(buf) + Len(r) /\ Len(r) \in Nat
              /\ Desc(f)'.pos = Desc(f).pos + Len(r)
              /\ Desc(f).pos + Len(r) <= Len(text)
            BY <1>10, <1>12, <2>4, <3>3, <4>2
        <4>4. \A i \in 1 .. Len(line) : line[i] = text[Len(given) + i]
            BY <1>17, <2>6, <3>1, <3>3
        <4>5. /\ Len(given \o line) = Len(given) + Len(line)
              /\ \A i \in 1 .. Len(given \o line) : (given \o line)[i] = text[i]
            BY <4>2, <4>3, <4>4, JoinedBytes
        <4>6. /\ Len(given \o line) = Desc(f)'.pos /\ Desc(f)'.pos <= Len(text)
              /\ Desc(f)'.pos \in Nat
            BY <1>4, <1>8, <4>2, <4>3, <4>5
        <4>7. /\ Len(log'[f].bytes) <= Desc(f)'.pos /\ Len(log'[f].bytes) = Desc(f)'.pos
              /\ \A i \in 1 .. Len(log'[f].bytes) : log'[f].bytes[i] = text[i]
            BY <4>1, <4>5, <4>6
        <4> QED BY <1>7, <2>3, <4>6, <4>7 DEF ReadKept, text
      <3> QED BY <3>2, <3>3
    <2>7. ASSUME f \in DOMAIN log', Desc(f).write
          PROVE  WriteKept(f)'
      <3>1. WriteKept(f) /\ log'[f] = log[f]
          BY <2>5, <2>7 DEF DataInv, LogKept
      <3> QED BY <1>2, <1>3, <1>6, <2>3, <2>7, <3>1, WriterReads
    <2>8. (f \in DOMAIN log' => LogKept(f)') /\ t \notin DOMAIN call'
        BY <1>11, <2>2, <2>6, <2>7 DEF LogKept
    <2>9. r \in ReadResults(Desc(f), 1) /\ Reads(f, r)
        BY <1>3
    <2> QED BY <1>2, <2>3, <2>5, <2>8, <2>9, ReadFrame
  <1> QED BY <1>18, <1>19
-----------------------------------------------------------------------------
\* What a write leaves to be shown of a call: the streams whose file it has
\* changed have no log any more.
LEMMA WriteFrame ==
  ASSUME IInv, DataInv, NEW t, NEW f \in held, NEW s \in Seq(Char),
         NEW k \in WriteResults(Desc(f), Len(s)), Writes(f, s, k), UNCHANGED held, CallOn(t, f),
         DOMAIN log' \subseteq DOMAIN log \ Disturbed(f, k),
         \A g \in DOMAIN log' \ {f} : log'[g] = log[g],
         \A g \in DOMAIN log' : log'[g] \in Logs,
         t \in DOMAIN call' => CallTyped(t)',
         f \in DOMAIN log' => LogKept(f)'
  PROVE  DataInv'
  <1>1. /\ KernelTypes'
        /\ \A g \in held \ {f} :
             /\ file'[g] = file[g] /\ Desc(g)' = Desc(g)
             /\ k \in {Failed, 0} \/ Desc(g).name # Desc(f).name => Text(g)' = Text(g)
      BY WriteEffect
  <1>2. DOMAIN log \subseteq held
      BY DEF DataInv, LogTypes
  <1>3. LogTypes'
      BY <1>2 DEF LogTypes
  <1>4. ASSUME NEW g \in DOMAIN log' \ {f}
        PROVE  g \in DOMAIN log /\ log'[g] = log[g] /\ Desc(g)' = Desc(g) /\ Text(g)' = Text(g)
    <2>1. g \in DOMAIN log /\ g \in held \ {f} /\ g \notin Disturbed(f, k)
        BY <1>2
    <2>2. k \in {Failed, 0} \/ Desc(g).name # Desc(f).name
        BY <2>1 DEF Disturbed, On
    <2> QED BY <1>1, <2>1, <2>2
  <1> QED BY <1>1, <1>3, <1>4, OthersKept

\* A stream that is not stopped and is in no call has written all that it was to
\* write, and it writes at the end of its file.
LEMMA WriterAtEnd ==
  ASSUME IInv, DataInv, NEW f \in DOMAIN log, Desc(f).write
  PROVE  /\ WriteKept(f) /\ Place(Desc(f)) = Len(Text(f))
         /\ log[f] \in Logs /\ log[f].bytes \in Seq(Char) /\ log[f].said \in Seq(Pieces)
         /\ ~Stopped(f) /\ (\A t : ~Puts(t, f)) =>
              log[f].tail = <<>> /\ MadeOf(Text(f), log[f].bytes, log[f].said)
  <1>1. WriteKept(f) /\ log[f] \in Logs
      BY DEF DataInv, LogKept, LogTypes
  <1>2. Place(Desc(f)) = Len(Text(f))
      BY <1>1 DEF WriteKept, Place, Text
  <1>3. ASSUME ~Stopped(f), \A t : ~Puts(t, f)
        PROVE  log[f].tail = <<>> /\ MadeOf(Text(f), log[f].bytes, log[f].said)
    <2>1. log[f].tail = <<>> /\ Told(Text(f), log[f])
        BY <1>1, <1>3 DEF WriteKept
    <2> QED BY <1>1, <2>1, ToldAll
  <1>4. log[f].bytes \in Seq(Char) /\ log[f].said \in Seq(Pieces)
      BY <1>1 DEF Logs
  <1> QED BY <1>1, <1>2, <1>3, <1>4

\* The kernel refuses a write to a stream that only reads.
LEMMA ReaderWrites ==
  ASSUME IInv, DataInv, NEW f \in DOMAIN log, ~Desc(f).write, NEW s \in Seq(Char),
         NEW k \in WriteResults(Desc(f), Len(s)), Writes(f, s, k), UNCHANGED held,
         log'[f] = log[f], \A t : ~Gets(t, f) /\ ~Gets(t, f)'
  PROVE  k = Failed /\ LogKept(f)'
  <1>1. f \in held /\ ReadKept(f)
      BY DEF DataInv, LogKept, LogTypes
  <1>2. /\ k = Failed /\ file'[f].err
        /\ Desc(f)' = [Desc(f) EXCEPT !.pos = IF k = Failed THEN @ ELSE Place(Desc(f)) + k]
        /\ k \in {Failed, 0} => Text(f)' = Text(f)
      BY <1>1, WriteEffect
  <1>3. Desc(f) \in [name : DOMAIN disk, pos : Nat, read : BOOLEAN,
                     write : BOOLEAN, app : BOOLEAN]
      BY <1>1, HeldTyped
  <1>4. Desc(f)'.pos = Desc(f).pos /\ Desc(f)'.write = Desc(f).write /\ Text(f)' = Text(f)
      BY <1>2, <1>3
  <1>5. ReadKept(f)'
      BY <1>1, <1>2, <1>4 DEF ReadKept
  <1> QED BY <1>2, <1>4, <1>5 DEF LogKept

\* What a write does to a stream that writes, in a log that knows its file.
LEMMA WriterWrites ==
  ASSUME IInv, DataInv, NEW f \in DOMAIN log, Desc(f).write, NEW s \in Seq(Char),
         NEW k \in WriteResults(Desc(f), Len(s)), Writes(f, s, k), UNCHANGED held
  PROVE  /\ Desc(f)'.write
         /\ ~Desc(f)'.app => Desc(f)'.pos = Len(Text(f)')
         /\ k \in {Failed, 0} => Text(f)' = Text(f) /\ Stopped(f)'
         /\ k \notin {Failed, 0} =>
              k \in 1 .. Len(s) /\ Text(f)' = Text(f) \o SubSeq(s, 1, k)
  <1> DEFINE text == Text(f)
             d == Desc(f)
  <1>1. f \in held
      BY DEF DataInv, LogTypes
  <1>2. /\ d \in [name : DOMAIN disk, pos : Nat, read : BOOLEAN, write : BOOLEAN, app : BOOLEAN]
        /\ text \in Seq(Char) /\ Len(text) \in Nat /\ Len(s) \in Nat /\ Failed \notin Nat
      BY <1>1, HeldTyped, LenProperties DEF Failed
  <1>3. Place(d) = Len(text) /\ (~d.app => d.pos = Len(text))
      BY WriterAtEnd DEF WriteKept
  <1>4. /\ k \in {Failed, 0} \cup 1 .. Len(s)
        /\ Desc(f)' = [d EXCEPT !.pos = IF k = Failed THEN @ ELSE Place(d) + k]
        /\ Place(d) = Len(text) =>
             Text(f)' = text \o (IF k = Failed THEN <<>> ELSE SubSeq(s, 1, k))
        /\ k \in {Failed, 0} => Text(f)' = text /\ Stopped(f)'
      BY <1>1, WriteEffect
  <1> HIDE DEF text, d
  <1>5. /\ Desc(f)'.write = d.write /\ Desc(f)'.app = d.app
        /\ k # Failed => Desc(f)'.pos = Len(text) + k
        /\ k = Failed => Desc(f)'.pos = d.pos
      BY <1>2, <1>3, <1>4
  <1>6. CASE k \in {Failed, 0}
    <2>1. ~d.app => Desc(f)'.pos = Len(text)
        BY <1>2, <1>3, <1>5, <1>6
    <2> QED BY <1>4, <1>5, <1>6, <2>1 DEF d, text
  <1>7. CASE k \notin {Failed, 0}
    <2>1. k \in 1 .. Len(s) /\ k \in 0 .. Len(s) /\ k \in Nat
        BY <1>2, <1>4, <1>7
    <2>2. Text(f)' = text \o SubSeq(s, 1, k)
        BY <1>3, <1>4, <1>7
    <2>3. Len(text \o SubSeq(s, 1, k)) = Len(text) + k
        BY <1>2, <2>1, SubSeqFirst, ConcatProperties
    <2>4. Desc(f)'.pos = Len(Text(f)')
        BY <1>5, <1>7, <2>2, <2>3
    <2> QED BY <1>5, <1>7, <2>1, <2>2, <2>4 DEF d, text
  <1> QED BY <1>6, <1>7

\* fwrite adds a piece to the file, or it stops the stream and adds nothing.
LEMMA FwriteData ==
  ASSUME IInv, DataInv, NEW t, NEW f, NEW s \in Texts, Fwrite(t, f, s)
  PROVE  DataInv'
  <1>1. PICK k \in WriteResults(Desc(f), Len(s)) :
          /\ Writes(f, s, k)
          /\ log' = Forget(IF k \in {Failed, 0} THEN Noted(f, <<>>, <<Piece(s, k)>>)
                           ELSE Noted(f, <<Piece(s, k)>>, <<>>),
                           Disturbed(f, k))
      BY DEF Fwrite
  <1>2. /\ f \in held \ Busy /\ ~Stopped(f) /\ s # <<>> /\ t \notin DOMAIN call
        /\ UNCHANGED <<held, call>>
      BY DEF Fwrite, Free, Idle
  <1>3. /\ CallOn(t, f) /\ t \notin DOMAIN call'
        /\ \A u : ~Gets(u, f) /\ ~Puts(u, f) /\ ~Gets(u, f)' /\ ~Puts(u, f)'
      BY <1>2 DEF CallOn, Busy, Gets, Puts
  <1>4. s \in Seq(Char) /\ LogTypes
      BY TextsAssumption, SeqMonotonic DEF Char, DataInv
  <1>5. Piece(s, k) \in Pieces
      BY <1>4, PieceTyped
  <1> DEFINE one == <<Piece(s, k)>>
             done == IF k \in {Failed, 0} THEN <<>> ELSE one
             left == IF k \in {Failed, 0} THEN one ELSE <<>>
  <1>6. log' = Forget(Noted(f, done, left), Disturbed(f, k))
      BY <1>1
  <1>7. done \in Seq(Pieces) /\ left \in Seq(Pieces)
    <2>1. one \in Seq(Pieces) /\ <<>> \in Seq(Pieces)
        BY ONLY <1>5, EmptySeq
    <2> QED BY <2>1
  <1> HIDE DEF done, left
  <1>8. /\ DOMAIN log' = DOMAIN log \ Disturbed(f, k)
        /\ \A g \in DOMAIN log' \ {f} : log'[g] = log[g]
        /\ f \in DOMAIN log' /\ Desc(f).write =>
             /\ log'[f].bytes = log[f].bytes
             /\ log'[f].said = log[f].said \o done /\ log'[f].tail = left
        /\ f \in DOMAIN log' /\ ~Desc(f).write => log'[f] = log[f]
        /\ \A g \in DOMAIN log' : log'[g] \in Logs
      BY <1>4, <1>6, <1>7, NotedLog
  <1>9. ASSUME f \in DOMAIN log', Desc(f).write
        PROVE  LogKept(f)'
    <2>1. f \in DOMAIN log
        BY <1>8, <1>9
    <2>2. /\ Desc(f)'.write
          /\ ~Desc(f)'.app => Desc(f)'.pos = Len(Text(f)')
          /\ k \in {Failed, 0} => Text(f)' = Text(f) /\ Stopped(f)'
          /\ k \notin {Failed, 0} =>
               k \in 1 .. Len(s) /\ Text(f)' = Text(f) \o SubSeq(s, 1, k)
        BY <1>1, <1>2, <1>4, <1>9, <2>1, WriterWrites
    <2>3. /\ log[f].bytes \in Seq(Char) /\ log[f].said \in Seq(Pieces)
          /\ MadeOf(Text(f), log[f].bytes, log[f].said) /\ Text(f) \in Seq(Char)
      <3>1. Text(f) \in Seq(Char)
          BY <1>2, HeldTyped
      <3> QED BY <1>2, <1>3, <1>9, <2>1, <3>1, WriterAtEnd
    <2>4. /\ log'[f].bytes = log[f].bytes /\ log'[f].said = log[f].said \o done
          /\ log'[f].tail = left /\ log'[f] \in Logs
        BY <1>8, <1>9
    <2>5. MadeOf(Text(f)', log'[f].bytes, log'[f].said)
      <3>1. CASE k \in {Failed, 0}
        <4>1. log'[f].said = log[f].said
            BY <2>3, <2>4, <3>1, ConcatEmptySeq DEF done
        <4> QED BY <2>2, <2>3, <2>4, <3>1, <4>1
      <3>2. CASE k \notin {Failed, 0}
        <4>1. log'[f].said = log[f].said \o one
            BY <2>4, <3>2 DEF done
        <4>2. k \in 1 .. Len(s) /\ Text(f)' = Text(f) \o SubSeq(s, 1, k)
            BY <2>2, <3>2
        <4>3. MadeOf(Text(f) \o SubSeq(s, 1, k), log[f].bytes, log[f].said \o one)
            BY <1>4, <2>3, <4>2, MadeOfTaken
        <4> QED BY <2>4, <4>1, <4>2, <4>3
      <3> QED BY <3>1, <3>2
    <2>6. log'[f].tail # <<>> => Stopped(f)'
        BY <2>2, <2>4 DEF left
    <2>7. Told(Text(f), log[f])'
        BY <2>4, <2>5, ToldNothing
    <2>8. WriteKept(f)'
        BY <1>3, <2>2, <2>6, <2>7 DEF WriteKept
    <2> QED BY <2>2, <2>8 DEF LogKept
  <1>10. ASSUME f \in DOMAIN log', ~Desc(f).write
         PROVE  LogKept(f)'
    <2>1. f \in DOMAIN log /\ log'[f] = log[f]
        BY <1>8, <1>10
    <2> QED BY <1>1, <1>2, <1>3, <1>4, <1>10, <2>1, ReaderWrites
  <1> QED BY <1>1, <1>2, <1>3, <1>4, <1>8, <1>9, <1>10, WriteFrame

\* fputs writes a piece of the text and has the newline to write.
LEMMA FputsData ==
  ASSUME IInv, DataInv, NEW t, NEW f, NEW s \in Texts, Fputs(t, f, s)
  PROVE  DataInv'
  <1> DEFINE rec == [at |-> "newline", f |-> f]
             nl == Piece(<<Newline>>, 1)
  <1>1. f \in held \ Busy /\ ~Stopped(f) /\ t \notin DOMAIN call /\ UNCHANGED held
      BY DEF Fputs, Free, Idle
  <1>2. s \in Seq(Char) /\ LogTypes
      BY TextsAssumption, SeqMonotonic DEF Char, DataInv
  <1>3. nl \in Pieces /\ <<>> \in Seq(Pieces)
    <2>1. <<Newline>> \in Seq(Char)
        BY BytesAssumption DEF Char
    <2> QED BY <2>1, PieceTyped, EmptySeq
  <1>4. \A u : ~Gets(u, f) /\ ~Puts(u, f)
      BY <1>1 DEF Busy, Gets, Puts
  <1>5. ASSUME Begin(t, rec)
        PROVE  /\ CallOn(t, f) /\ CallTyped(t)' /\ Puts(t, f)'
               /\ \A u : ~Gets(u, f)' /\ (Puts(u, f)' => u = t)
    <2>1. rec \in [at : {"newline"}, f : held']
        BY <1>1
    <2>2. rec.at = "newline" /\ rec.f = f
        OBVIOUS
    <2> HIDE DEF rec
    <2>3. /\ DOMAIN call' = DOMAIN call \cup {t} /\ call'[t] = rec
          /\ \A u \in DOMAIN call : u # t /\ call'[u] = call[u]
        BY <1>1, <1>5 DEF Begin, Put
    <2> QED BY <1>1, <2>1, <2>2, <2>3 DEF CallOn, CallTyped, Gets, Puts, Busy
  <1>6. ASSUME UNCHANGED call
        PROVE  /\ CallOn(t, f) /\ t \notin DOMAIN call'
               /\ \A u : ~Gets(u, f)' /\ ~Puts(u, f)'
      BY <1>1, <1>4, <1>6 DEF CallOn, Gets, Puts, Busy
  <1>7. CASE s = <<>> /\ Begin(t, rec) /\ log' = Noted(f, <<>>, <<nl>>)
             /\ UNCHANGED <<kernelVars, file>>
    <2>1. UNCHANGED <<disk, fds, file>>
        BY <1>7 DEF kernelVars
    <2>2. /\ DOMAIN log' = DOMAIN log
          /\ \A g \in DOMAIN log' \ {f} : log'[g] = log[g]
          /\ f \in DOMAIN log' /\ Desc(f).write =>
               /\ log'[f].bytes = log[f].bytes
               /\ log'[f].said = log[f].said \o <<>> /\ log'[f].tail = <<nl>>
          /\ f \in DOMAIN log' /\ ~Desc(f).write => log'[f] = log[f]
          /\ \A g \in DOMAIN log' : log'[g] \in Logs
      <3>1. DOMAIN log \ {} = DOMAIN log /\ log' = Noted(f, <<>>, <<nl>>)
          BY <1>7
      <3> HIDE DEF nl
      <3>2. <<nl>> \in Seq(Pieces)
          BY ONLY <1>3
      <3> DEFINE left == <<nl>>
      <3>3. left \in Seq(Pieces) /\ log' = Noted(f, <<>>, left)
          BY <3>1, <3>2
      <3> HIDE DEF left
      <3>4. /\ DOMAIN log' = DOMAIN log
            /\ \A g \in DOMAIN log' \ {f} : log'[g] = log[g]
            /\ f \in DOMAIN log' /\ Desc(f).write =>
                 /\ log'[f].bytes = log[f].bytes
                 /\ log'[f].said = log[f].said \o <<>> /\ log'[f].tail = left
            /\ f \in DOMAIN log' /\ ~Desc(f).write => log'[f] = log[f]
            /\ \A g \in DOMAIN log' : log'[g] \in Logs
          BY <1>2, <1>3, <3>3, NotedAll
      <3> QED BY <3>4 DEF left
    <2>3. KernelTypes' /\ LogTypes' /\ \A g : Desc(g)' = Desc(g) /\ Text(g)' = Text(g)
        BY <1>1, <2>1, <2>2 DEF DataInv, KernelTypes, LogTypes, Desc, Text
    <2>4. ASSUME f \in DOMAIN log', Desc(f).write
          PROVE  WriteKept(f)'
      <3>1. f \in DOMAIN log
          BY <2>2, <2>4
      <3>2. /\ MadeOf(Text(f), log[f].bytes, log[f].said) /\ WriteKept(f)
            /\ log[f].said \in Seq(Pieces)
          BY <1>1, <1>4, <2>4, <3>1, WriterAtEnd
      <3>3. /\ log'[f].bytes = log[f].bytes /\ log'[f].said = log[f].said
            /\ log'[f].tail = <<nl>> /\ log'[f] \in Logs
          BY <2>2, <2>4, <3>2, ConcatEmptySeq
      <3>4. MadeOf(Text(f)', log'[f].bytes, log'[f].said)
          BY <2>3, <3>2, <3>3
      <3>5. Halfway(Text(f), log[f])' /\ Told(Text(f), log[f])'
          BY <3>3, <3>4, HalfwayEmpty, ToldNothing
      <3>6. ~Desc(f)'.app => Desc(f)'.pos = Len(Text(f)')
          BY <2>3, <3>2 DEF WriteKept
      <3> QED BY <1>5, <1>7, <3>5, <3>6 DEF WriteKept
    <2>5. ASSUME f \in DOMAIN log', ~Desc(f).write
          PROVE  ReadKept(f)'
      <3>1. ReadKept(f) /\ log'[f] = log[f] /\ file' = file
          BY <2>1, <2>2, <2>5 DEF DataInv, LogKept
      <3> QED BY <1>4, <1>5, <1>7, <2>3, <3>1 DEF ReadKept
    <2>6. f \in DOMAIN log' => LogKept(f)'
        BY <2>3, <2>4, <2>5 DEF LogKept
    <2> QED BY <1>1, <1>5, <1>7, <2>1, <2>2, <2>3, <2>6, OthersKept
  <1>8. ASSUME NEW k \in WriteResults(Desc(f), Len(s)), Writes(f, s, k),
               IF k \in {Failed, 0} THEN UNCHANGED call ELSE Begin(t, rec),
               log' = Forget(Noted(f, <<>>, <<Piece(s, k), nl>>), Disturbed(f, k))
        PROVE  DataInv'
    <2> DEFINE line == <<Piece(s, k), nl>>
    <2>1. Piece(s, k) \in Pieces
        BY <1>2, PieceTyped
    <2>2. line \in Seq(Pieces) /\ line # <<>>
      <3> HIDE DEF nl
      <3>1. Len(line) = 2 /\ Len(<<>>) = 0
          BY EmptySeq
      <3> QED BY <1>3, <2>1, <3>1
    <2> HIDE DEF rec, line
    <2>3. /\ DOMAIN log' = DOMAIN log \ Disturbed(f, k)
          /\ \A g \in DOMAIN log' \ {f} : log'[g] = log[g]
          /\ f \in DOMAIN log' /\ Desc(f).write =>
               /\ log'[f].bytes = log[f].bytes
               /\ log'[f].said = log[f].said \o <<>> /\ log'[f].tail = line
          /\ f \in DOMAIN log' /\ ~Desc(f).write => log'[f] = log[f]
          /\ \A g \in DOMAIN log' : log'[g] \in Logs
      <3>1. log' = Forget(Noted(f, <<>>, line), Disturbed(f, k))
          BY <1>8 DEF line
      <3> QED BY <1>2, <1>3, <2>2, <3>1, NotedLog
    <2>4. CallOn(t, f) /\ (t \in DOMAIN call' => CallTyped(t)') /\ \A u : ~Gets(u, f)'
        BY <1>5, <1>6, <1>8
    <2>5. ASSUME f \in DOMAIN log', Desc(f).write
          PROVE  LogKept(f)'
      <3>1. f \in DOMAIN log /\ Text(f) \in Seq(Char)
          BY <1>1, <2>3, <2>5, HeldTyped
      <3>2. /\ Desc(f)'.write
            /\ ~Desc(f)'.app => Desc(f)'.pos = Len(Text(f)')
            /\ k \in {Failed, 0} => Text(f)' = Text(f) /\ Stopped(f)'
            /\ k \notin {Failed, 0} =>
                 k \in 1 .. Len(s) /\ Text(f)' = Text(f) \o SubSeq(s, 1, k)
          BY <1>1, <1>2, <1>8, <2>5, <3>1, WriterWrites
      <3>3. /\ log[f].bytes \in Seq(Char) /\ log[f].said \in Seq(Pieces)
            /\ MadeOf(Text(f), log[f].bytes, log[f].said)
          BY <1>1, <1>4, <2>5, <3>1, WriterAtEnd
      <3>4. /\ log'[f].bytes = log[f].bytes /\ log'[f].said = log[f].said
            /\ log'[f].tail = line /\ log'[f] \in Logs
          BY <2>3, <2>5, <3>3, ConcatEmptySeq
      <3>5. CASE k \in {Failed, 0}
        <4>1. (\A u : ~Puts(u, f)') /\ Stopped(f)'
            BY <1>6, <1>8, <3>2, <3>5
        <4>2. MadeOf(Text(f)', log'[f].bytes, log'[f].said)
            BY <3>2, <3>3, <3>4, <3>5
        <4>3. Told(Text(f), log[f])'
            BY <3>4, <4>2, ToldNothing
        <4>4. WriteKept(f)'
            BY <3>2, <4>1, <4>3 DEF WriteKept
        <4> QED BY <3>2, <4>4 DEF LogKept
      <3>6. CASE k \notin {Failed, 0}
        <4>1. Puts(t, f)'
            BY <1>5, <1>8, <3>6
        <4>2. k \in 1 .. Len(s) /\ Text(f)' = Text(f) \o SubSeq(s, 1, k)
            BY <3>2, <3>6
        <4>3. MadeOf(Text(f) \o SubSeq(s, 1, k), log[f].bytes, log[f].said \o <<Piece(s, k)>>)
            BY <1>2, <3>1, <3>3, <4>2, MadeOfTaken
        <4>4. MadeOf(Text(f)', log'[f].bytes, log'[f].said \o <<Piece(s, k)>>)
            BY <3>4, <4>2, <4>3
        <4>5. Halfway(Text(f), log[f])'
            BY <2>1, <3>4, <4>4, HalfwayText DEF line
        <4>6. Told(Text(f), log[f])'
            BY <3>4, <4>5, ToldHalfway
        <4>7. WriteKept(f)'
            BY <3>2, <4>1, <4>5, <4>6 DEF WriteKept
        <4> QED BY <3>2, <4>7 DEF LogKept
      <3> QED BY <3>5, <3>6
    <2>6. ASSUME f \in DOMAIN log', ~Desc(f).write
          PROVE  LogKept(f)'
      <3>1. f \in DOMAIN log /\ log'[f] = log[f]
          BY <2>3, <2>6
      <3> QED BY <1>1, <1>2, <1>4, <1>8, <2>4, <2>6, <3>1, ReaderWrites
    <2> QED BY <1>1, <1>2, <1>8, <2>3, <2>4, <2>5, <2>6, WriteFrame
  <1> QED BY <1>7, <1>8 DEF Fputs

\* The newline completes what fputs was to write, or the stream stops and the
\* newline is still to be written.
LEMMA FputsNewlineData ==
  ASSUME IInv, DataInv, NEW t, FputsNewline(t)
  PROVE  DataInv'
  <1>1. PICK f, nl : f = call[t].f /\ nl = <<Newline>>
      OBVIOUS
  <1>2. PICK k \in WriteResults(Desc(f), 1) :
          /\ Writes(f, nl, k)
          /\ log' = Forget(IF k = 1 THEN Finished(f) ELSE log, Disturbed(f, k))
      BY <1>1 DEF FputsNewline
  <1>3. t \in DOMAIN call /\ call[t].at = "newline" /\ f \in held /\ UNCHANGED held
      BY <1>1 DEF FputsNewline, IInv, Calls
  <1>4. /\ DOMAIN call' = DOMAIN call \ {t}
        /\ \A u \in DOMAIN call' : call'[u] = call[u]
        /\ \A u \in DOMAIN call : u # t => call[u].f # f
      BY <1>1, <1>3 DEF FputsNewline, Return, Restrict, IInv, Alone
  <1>5. /\ CallOn(t, f) /\ t \notin DOMAIN call' /\ Puts(t, f)
        /\ \A u : ~Gets(u, f) /\ ~Gets(u, f)' /\ ~Puts(u, f)'
      BY <1>1, <1>3, <1>4 DEF CallOn, Gets, Puts
  <1>6. nl \in Seq(Char) /\ Len(nl) = 1 /\ LogTypes
    <2>1. Newline \in Char
        BY BytesAssumption DEF Char
    <2> QED BY <1>1, <2>1 DEF DataInv
  <1>7. k \in WriteResults(Desc(f), Len(nl))
      BY <1>2, <1>6
  <1>8. k \in {Failed, 0, 1}
    <2>1. k \in {Failed, 0} \cup 1 .. Len(nl)
        BY <1>2, <1>3, <1>6, <1>7, WriteEffect
    <2> QED BY <1>6, <2>1
  <1>9. /\ DOMAIN log' = DOMAIN log \ Disturbed(f, k)
        /\ \A g \in DOMAIN log' \ {f} : log'[g] = log[g]
        /\ \A g \in DOMAIN log' : log'[g] \in Logs
        /\ f \in DOMAIN log' /\ Desc(f).write /\ k = 1 =>
             /\ log'[f].bytes = log[f].bytes
             /\ log'[f].said = log[f].said \o log[f].tail /\ log'[f].tail = <<>>
        /\ f \in DOMAIN log' /\ (~Desc(f).write \/ k # 1) => log'[f] = log[f]
    <2>1. CASE k = 1 /\ f \in DOMAIN log
      <3>1. log' = Forget(Noted(f, log[f].tail, <<>>), Disturbed(f, k))
          BY <1>2, <2>1 DEF Finished
      <3>2. log[f].tail \in Seq(Pieces) /\ <<>> \in Seq(Pieces)
          BY <1>6, <2>1, EmptySeq DEF LogTypes, Logs
      <3>3. /\ DOMAIN log' = DOMAIN log \ Disturbed(f, k)
            /\ \A g \in DOMAIN log' \ {f} : log'[g] = log[g]
            /\ f \in DOMAIN log' /\ Desc(f).write =>
                 /\ log'[f].bytes = log[f].bytes
                 /\ log'[f].said = log[f].said \o log[f].tail /\ log'[f].tail = <<>>
            /\ f \in DOMAIN log' /\ ~Desc(f).write => log'[f] = log[f]
            /\ \A g \in DOMAIN log' : log'[g] \in Logs
          BY <1>6, <3>1, <3>2, NotedLog
      <3> QED BY <2>1, <3>3
    <2>2. CASE ~(k = 1 /\ f \in DOMAIN log)
      <3>1. log' = Forget(log, Disturbed(f, k))
          BY <1>2, <2>2 DEF Finished
      <3>2. /\ DOMAIN log' = DOMAIN log \ Disturbed(f, k)
            /\ \A g \in DOMAIN log' : log'[g] = log[g]
            /\ \A g \in DOMAIN log' : log'[g] \in Logs
          BY <1>6, <3>1, ForgetLog
      <3> QED BY <2>2, <3>2
    <2> QED BY <2>1, <2>2
  <1>10. ASSUME f \in DOMAIN log', Desc(f).write
         PROVE  LogKept(f)'
    <2>1. f \in DOMAIN log /\ Text(f) \in Seq(Char)
        BY <1>3, <1>9, <1>10, HeldTyped
    <2>2. /\ Desc(f)'.write
          /\ ~Desc(f)'.app => Desc(f)'.pos = Len(Text(f)')
          /\ k \in {Failed, 0} => Text(f)' = Text(f) /\ Stopped(f)'
          /\ k \notin {Failed, 0} =>
               k \in 1 .. Len(nl) /\ Text(f)' = Text(f) \o SubSeq(nl, 1, k)
        BY <1>2, <1>3, <1>6, <1>7, <1>10, <2>1, WriterWrites
    <2>3. Halfway(Text(f), log[f]) /\ Told(Text(f), log[f]) /\ log[f] \in Logs
      <3>1. WriteKept(f) /\ log[f] \in Logs
          BY <1>10, <2>1, WriterAtEnd
      <3> QED BY <1>5, <3>1 DEF WriteKept
    <2>4. CASE k = 1
      <3>1. /\ log'[f].bytes = log[f].bytes /\ log'[f].said = log[f].said \o log[f].tail
            /\ log'[f].tail = <<>> /\ log'[f] \in Logs
          BY <1>9, <1>10, <2>4
      <3>2. Text(f)' = Text(f) \o <<Newline>>
        <4>1. k \notin {Failed, 0}
            BY <2>4 DEF Failed
        <4>2. SubSeq(nl, 1, Len(nl)) = nl
            BY <1>6, SubSeqFull
        <4> QED BY <1>1, <1>6, <2>2, <2>4, <4>1, <4>2
      <3>3. MadeOf(Text(f)', log'[f].bytes, log'[f].said)
          BY <2>1, <2>3, <3>1, <3>2, ToldNewline
      <3>4. Told(Text(f), log[f])'
          BY <3>1, <3>3, ToldNothing
      <3>5. WriteKept(f)'
          BY <1>5, <2>2, <3>1, <3>4 DEF WriteKept
      <3> QED BY <2>2, <3>5 DEF LogKept
    <2>5. CASE k # 1
      <3>1. log'[f] = log[f] /\ Text(f)' = Text(f) /\ Stopped(f)'
          BY <1>8, <1>9, <1>10, <2>2, <2>5
      <3>2. Told(Text(f), log[f])'
          BY <2>3, <3>1 DEF Told
      <3>3. WriteKept(f)'
          BY <1>5, <2>2, <3>1, <3>2 DEF WriteKept
      <3> QED BY <2>2, <3>3 DEF LogKept
    <2> QED BY <2>4, <2>5
  <1>11. ASSUME f \in DOMAIN log', ~Desc(f).write
         PROVE  LogKept(f)'
    <2>1. f \in DOMAIN log /\ log'[f] = log[f]
        BY <1>9, <1>11
    <2>2. ASSUME NEW u
          PROVE  ~Gets(u, f) /\ ~Gets(u, f)'
        BY <1>5
    <2> QED BY <1>2, <1>3, <1>6, <1>7, <1>11, <2>1, <2>2, ReaderWrites
  <1> QED BY <1>2, <1>3, <1>5, <1>6, <1>7, <1>9, <1>10, <1>11, WriteFrame
-----------------------------------------------------------------------------
LEMMA DataStep == IInv /\ DataInv /\ [Next]_vars => DataInv'
  <1> SUFFICES ASSUME IInv, DataInv, [Next]_vars PROVE DataInv'
      OBVIOUS
  <1>1. CASE UNCHANGED vars
    <2>1. UNCHANGED <<disk, fds, file, held, call, log>>
        BY <1>1 DEF vars, kernelVars
    <2>2. KernelTypes' /\ LogTypes' /\ \A t \in DOMAIN call' : CallTyped(t)'
        BY <2>1 DEF DataInv, KernelTypes, LogTypes, CallTyped
    <2>3. ASSUME NEW f \in DOMAIN log'
          PROVE  LogKept(f)'
      <3>1. LogKept(f) /\ Untouched(f)
          BY <2>1, <2>3 DEF DataInv, Untouched, Desc, Text, Gets, Puts
      <3> QED BY <3>1, LogFrame
    <2> QED BY <2>2, <2>3 DEF DataInv
  <1>2. CASE Next
    <2>1. PICK t \in Threads :
            \/ Steps(t)
            \/ \E name \in Names, mode \in ModeStrings, f \in Streams : Fopen(t, name, mode, f)
            \/ \E f \in held :
                 \/ Fclose(t, f) \/ Clearerr(t, f)
                 \/ \E n \in Counts : Fread(t, f, n) \/ Fgets(t, f, n)
                 \/ \E s \in Texts : Fwrite(t, f, s) \/ Fputs(t, f, s)
        BY <1>2 DEF Next
    <2>2. CASE Steps(t)
        BY <2>2, FreeData, OpenData, FgetsByteData, FputsNewlineData DEF Steps
    <2>3. CASE \E f \in held, n \in Counts : Fread(t, f, n) \/ Fgets(t, f, n)
        BY <2>3, FreadData, FgetsData, CountsAssumption
    <2>4. CASE \E f \in held, s \in Texts : Fwrite(t, f, s) \/ Fputs(t, f, s)
        BY <2>4, FwriteData, FputsData
    <2> QED BY <2>1, <2>2, <2>3, <2>4, FopenData, FcloseData, ClearerrData
  <1> QED BY <1>1, <1>2

LEMMA DataInvHolds == Spec => [](IInv /\ DataInv)
  BY IInvInit, IInvStep, DataInit, DataStep, PTL DEF Spec

\* What is in the buffer of the call that a stream is in.
LEMMA InBufferIs ==
  ASSUME IInv, NEW f
  PROVE  /\ \A t : Gets(t, f) => InBuffer(f) = call[t].buf
         /\ (\A t : ~Gets(t, f)) => InBuffer(f) = <<>>
  <1>1. ASSUME NEW t, Gets(t, f)
        PROVE  InBuffer(f) = call[t].buf
    <2>1. t \in DOMAIN call /\ call[t].f = f /\ call[t].at = "gets"
        BY <1>1 DEF Gets
    <2>2. \A u \in DOMAIN call : call[u].f = f => u = t
        BY <2>1 DEF IInv, Alone
    <2>3. (CHOOSE u \in DOMAIN call : call[u].f = f) = t
        BY <2>1, <2>2
    <2> QED BY <2>1, <2>3 DEF InBuffer
  <1>2. ASSUME \A t : ~Gets(t, f)
        PROVE  InBuffer(f) = <<>>
      BY <1>2 DEF InBuffer, Gets
  <1> QED BY <1>1, <1>2

\* A sequence whose elements are the first of a text.
LEMMA FirstOfText ==
  ASSUME NEW text \in Seq(Char), NEW pos \in 0 .. Len(text), NEW given \in Seq(Char),
         Len(given) <= pos, \A i \in 1 .. Len(given) : given[i] = text[i]
  PROVE  /\ IsPrefix(given, SubSeq(text, 1, pos))
         /\ Len(given) = pos => given = SubSeq(text, 1, pos)
  <1> DEFINE taken == SubSeq(text, 1, pos)
  <1>1. /\ taken \in Seq(Char) /\ Len(taken) = pos /\ \A i \in 1 .. pos : taken[i] = text[i]
        /\ Len(given) \in Nat /\ pos \in Nat
      BY SubSeqFirst, LenProperties
  <1> HIDE DEF taken
  <1>2. \A i \in 1 .. Len(given) : given[i] = taken[i]
      BY <1>1
  <1>3. Len(given) = pos => given = taken
      BY <1>1, <1>2, SeqEqual
  <1>4. IsPrefix(given, taken)
      BY <1>1, <1>2 DEF IsPrefix
  <1> QED BY <1>3, <1>4 DEF taken

\* A stream that reads has been given its file in order, each byte once, but
\* for what a failed fgets has dropped; and fgets stays in its buffer (fread,
\* fgetc and fgets of stdio.c).
THEOREM ReadsInOrderHolds == Spec => []ReadsInOrder
  <1>1. IInv /\ DataInv => ReadsInOrder
    <2>1. SUFFICES ASSUME IInv, DataInv
                   PROVE  ReadsInOrder
        OBVIOUS
    <2>2. ASSUME NEW f \in DOMAIN log, ~Desc(f).write
          PROVE  LET taken == SubSeq(disk[Desc(f).name], 1, Desc(f).pos)
                     given == log[f].bytes \o InBuffer(f)
                 IN  IF file[f].err THEN IsPrefix(given, taken) ELSE given = taken
      <3> DEFINE text == Text(f)
                 pos == Desc(f).pos
                 known == log[f].bytes
                 given == known \o InBuffer(f)
      <3>1. ReadKept(f) /\ f \in held /\ known \in Seq(Char)
          BY <2>1, <2>2 DEF DataInv, LogKept, LogTypes, Logs
      <3>2. /\ text \in Seq(Char) /\ Len(text) \in Nat /\ pos \in Nat /\ pos <= Len(text)
            /\ Len(known) \in Nat /\ Len(known) <= pos
            /\ \A i \in 1 .. Len(known) : known[i] = text[i]
          BY <2>1, <3>1, HeldTyped, LenProperties DEF ReadKept
      <3>3. CASE \E t : Gets(t, f)
        <4>1. PICK t : Gets(t, f)
            BY <3>3
        <4>2. /\ InBuffer(f) = call[t].buf /\ call[t].buf \in Seq(Char) /\ ~file[f].err
            BY <2>1, <4>1, InBufferIs DEF Gets, DataInv, CallTyped
        <4>3. /\ Len(known) + Len(InBuffer(f)) = pos
              /\ \A i \in 1 .. Len(InBuffer(f)) : InBuffer(f)[i] = text[Len(known) + i]
          <5>1. /\ Len(known) + Len(call[t].buf) = pos
                /\ \A i \in 1 .. Len(call[t].buf) : call[t].buf[i] = text[Len(known) + i]
              BY <3>1, <4>1 DEF ReadKept
          <5> HIDE DEF known, text, pos
          <5> QED BY <4>2, <5>1
        <4> HIDE DEF text, pos, known
        <4>4. Len(given) = pos /\ \A i \in 1 .. Len(given) : given[i] = text[i]
            BY <3>1, <3>2, <4>2, <4>3, JoinedBytes
        <4>5. given \in Seq(Char)
            BY <3>1, <4>2, ConcatProperties
        <4> HIDE DEF given
        <4>6. given = SubSeq(text, 1, pos)
            BY <3>2, <4>4, <4>5, FirstOfText
        <4> QED BY <4>2, <4>6 DEF given, known, pos, text, Text
      <3>4. CASE \A t : ~Gets(t, f)
        <4>1. given = known
            BY <2>1, <3>1, <3>4, InBufferIs, ConcatEmptySeq
        <4>2. ~file[f].err => Len(known) = pos
            BY <3>1, <3>4 DEF ReadKept
        <4> HIDE DEF text, pos, known, given
        <4>3. /\ IsPrefix(known, SubSeq(text, 1, pos))
              /\ Len(known) = pos => known = SubSeq(text, 1, pos)
            BY <3>1, <3>2, FirstOfText
        <4> QED BY <4>1, <4>2, <4>3 DEF given, known, pos, text, Text
      <3> QED BY <3>3, <3>4
    <2>3. ASSUME NEW t \in DOMAIN call, call[t].at = "gets"
          PROVE  Len(call[t].buf) < call[t].n
      <3>1. /\ call[t] \in [at : {"gets"}, f : held, n : Nat, buf : Seq(Char)]
            /\ Len(call[t].buf) + 1 < call[t].n
          BY <2>1, <2>3 DEF DataInv, CallTyped
      <3>2. Len(call[t].buf) \in Nat /\ call[t].n \in Nat
          BY <3>1, LenProperties
      <3> QED BY <3>1, <3>2
    <2> QED BY <2>2, <2>3 DEF ReadsInOrder
  <1> QED BY <1>1, DataInvHolds, PTL

\* The file of a stream that writes holds what it held and then, in order, what
\* the calls have said that they wrote: all of it if the kernel took all, and a
\* beginning that is not empty if it took less, which fwrite and fputs do not tell
\* (stdio.c:66, 133); and of what is being written or has failed at most the text
\* of a fputs without its newline.
THEOREM WritesInOrderHolds == Spec => []WritesInOrder
  <1>1. IInv /\ DataInv => WritesInOrder
      BY DEF DataInv, LogKept, WriteKept, Told, WritesInOrder, Text
  <1> QED BY <1>1, DataInvHolds, PTL
=============================================================================
