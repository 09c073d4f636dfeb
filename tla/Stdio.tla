------------------------------- MODULE Stdio -------------------------------
(***************************************************************************)
(* Streams: fopen and fclose (file.c), and reading and writing (stdio.c),  *)
(* over files that the kernel keeps.  There is no buffer: each fread and   *)
(* each fwrite is one system call, fgetc and fputc are those of one byte,  *)
(* fgets is a loop of fgetc, fputs is an fwrite and an fputc.  Threads     *)
(* call the functions at the same time, each on a stream of its own (the   *)
(* streams have no lock), but several streams may be open on one file.     *)
(*                                                                         *)
(* The kernel may fail any call, read and write less than asked, and write *)
(* nothing.  fflush does nothing; feof and ferror read a flag.             *)
(***************************************************************************)
EXTENDS Modes, SequencesExt

CONSTANTS
  Threads,
  Names,      \* of files
  Streams,    \* the FILE objects: those of malloc and the standard ones
  Standard,   \* the descriptor of each standard stream: 1 for stdout
  Fds,        \* the descriptors of the process: a bound, RLIMIT_NOFILE
  Bytes,      \* the bytes that programs write
  Newline, Zero,
  MaxLen,     \* how long a file can get: a bound, a full disk
  ModeStrings, Texts, Counts  \* what programs pass to fopen, fputs and fgets

ASSUME BytesAssumption == Newline \in Bytes /\ Zero \notin Bytes
ASSUME CountsAssumption == Counts \subseteq Nat \ {0}
ASSUME TextsAssumption == Texts \subseteq Seq(Bytes)
ASSUME FdsAssumption == Fds \subseteq Nat
ASSUME StandardAssumption ==
  DOMAIN Standard \subseteq Streams /\ Range(Standard) \subseteq Fds /\ IsInjective(Standard)

VARIABLES
  disk,   \* kernel: the contents of each file that exists
  fds,    \* kernel: the open descriptors
  file,   \* struct FILE of each stream that is allocated
  held,   \* the streams that the program may use: opened and not yet closed
  call,   \* where each thread is that is in a call of several steps
  log     \* history: what the program knows of each stream, see below

kernelVars == <<disk, fds>>
vars == <<kernelVars, file, held, call, log>>

NoFd == 0 - 1
Failed == 0 - 1        \* a write that returns -1
NoBytes == <<"fail">>  \* a read that returns -1

\* The function with v at x, where it had a value or not.
Put(fun, x, v) == [y \in DOMAIN fun \cup {x} |-> IF y = x THEN v ELSE fun[y]]

Desc(f) == fds[file[f].fd]
On(name) == {f \in held : Desc(f).name = name}
Busy == {call[t].f : t \in DOMAIN call}

\* A mutation: fread and fwrite test the end of the file only.
StoppedAtEof(f) == file[f].eof

\* The stream has met its end or an error and nobody has called clearerr.
Stopped(f) == file[f].eof \/ file[f].err

Idle(t) == t \notin DOMAIN call
Free(t, f) == Idle(t) /\ f \in held \ Busy
Begin(t, record) == call' = Put(call, t, record)
Return(t) == call' = Restrict(call, DOMAIN call \ {t})

\* The files that exist hold some text; the standard streams append to them.
Init ==
  \E there \in SUBSET Names, old \in Texts :
    /\ disk = [name \in there |-> old]
    /\ fds \in [Range(Standard) ->
                  {[name |-> name, pos |-> 0, read |-> FALSE, write |-> TRUE, app |-> TRUE]
                     : name \in there}]
    /\ file = [f \in DOMAIN Standard |-> [fd |-> Standard[f], eof |-> FALSE, err |-> FALSE]]
    /\ held = DOMAIN Standard
    /\ call = << >>
    /\ log = [f \in DOMAIN Standard |-> [bytes |-> old, said |-> <<>>, tail |-> <<>>]]
-----------------------------------------------------------------------------
(***************************************************************************)
(* The kernel.                                                             *)
(***************************************************************************)

\* What read may give for n bytes: fewer, but none only at the end.
ReadResults(d, n) ==
  LET rest == SubSeq(disk[d.name], d.pos + 1, Len(disk[d.name]))
      most == IF n < Len(rest) THEN n ELSE Len(rest)
  IN  {NoBytes} \cup
      (IF ~d.read THEN {} ELSE IF most = 0 THEN {<<>>}
       ELSE {SubSeq(rest, 1, k) : k \in 1 .. most})

Place(d) == IF d.app THEN Len(disk[d.name]) ELSE d.pos

\* How many of n bytes write may write: none counts as an end of file.
WriteResults(d, n) ==
  IF ~d.write THEN {Failed} ELSE {Failed} \cup {k \in 0 .. n : Place(d) + k <= MaxLen}

Longer(m, n) == IF m > n THEN m ELSE n

\* A write past the end fills the gap with zeroes.
Overwrite(old, pos, s) ==
  [i \in 1 .. Longer(Len(old), IF s = <<>> THEN 0 ELSE pos + Len(s)) |->
     IF pos < i /\ i <= pos + Len(s) THEN s[i - pos]
     ELSE IF i <= Len(old) THEN old[i] ELSE Zero]

\* read, of which fread keeps the flags; r is what the kernel gave.
Reads(f, r) ==
  /\ fds' = IF r = NoBytes THEN fds ELSE [fds EXCEPT ![file[f].fd].pos = @ + Len(r)]
  /\ file' = [file EXCEPT ![f].err = @ \/ r = NoBytes, ![f].eof = @ \/ r = <<>>]
  /\ UNCHANGED disk

Written(s, k) == IF k = Failed THEN <<>> ELSE SubSeq(s, 1, k)

\* write, of which fwrite keeps the flags; k is how much the kernel wrote.
Writes(f, s, k) ==
  LET d == Desc(f)
  IN  /\ disk' = [disk EXCEPT ![d.name] = Overwrite(@, Place(d), Written(s, k))]
      /\ fds' = IF k = Failed THEN fds ELSE [fds EXCEPT ![file[f].fd].pos = Place(d) + k]
      /\ file' = [file EXCEPT ![f].err = @ \/ k = Failed, ![f].eof = @ \/ k = 0]

-----------------------------------------------------------------------------
(***************************************************************************)
(* What the calls have said of a stream: if it only reads, the bytes that  *)
(* they gave; if it writes, the contents of its file when it was opened    *)
(* (bytes), what the calls that succeeded say they have written since      *)
(* (said), and what the call that is writing, or has failed, was to write  *)
(* (tail).  A piece of these is what one fwrite was given, and whether the *)
(* kernel took less of it, which fwrite does not tell: it returns the full *)
(* count, and so the test of fputs for a short write never fails.          *)
(*                                                                         *)
(* There is a log as long as no other stream has written to the file or    *)
(* truncated it, no fread was short (it returns the full count, too), fread*)
(* was not called when the stream was stopped (it returns -1 as a size_t)  *)
(* and no error was cleared.                                               *)
(***************************************************************************)
Forget(lg, F) == Restrict(lg, DOMAIN lg \ F)

Given(f, s) ==
  IF f \in DOMAIN log /\ ~Desc(f).write THEN [log EXCEPT ![f].bytes = @ \o s] ELSE log

Piece(s, k) == [text |-> s, short |-> k \in 1 .. Len(s) - 1]

Noted(f, done, left) ==
  IF f \in DOMAIN log /\ Desc(f).write
  THEN [log EXCEPT ![f].said = @ \o done, ![f].tail = left] ELSE log

\* All that was to be written is.
Finished(f) == IF f \in DOMAIN log THEN Noted(f, log[f].tail, <<>>) ELSE log

\* The other streams of the file, if a write of k bytes has changed it.
Disturbed(f, k) == IF k \in {Failed, 0} THEN {} ELSE On(Desc(f).name) \ {f}

\* This stream, if it was given k of n bytes and fread returns n.
Short(f, k, n) == IF k \in 1 .. n - 1 THEN {f} ELSE {}
-----------------------------------------------------------------------------
(***************************************************************************)
(* fopen and fclose.  A mode that parse_mode refuses, and a malloc that    *)
(* fails, end fopen before it has done anything.                           *)
(***************************************************************************)
Fopen(t, name, mode, f) ==
  /\ Idle(t) /\ f \in Streams \ (DOMAIN Standard \cup DOMAIN file)
  /\ Parse(mode).valid
  /\ file' = Put(file, f, [fd |-> NoFd, eof |-> FALSE, err |-> FALSE])
  /\ Begin(t, [at |-> "open", f |-> f, name |-> name, flags |-> Flags(Parse(mode))])
  /\ UNCHANGED <<kernelVars, held, log>>

\* A mutation: the FILE is not freed.
OpenFailsNoFree(t) ==
  /\ t \in DOMAIN call /\ call[t].at = "open"
  /\ Return(t)
  /\ UNCHANGED <<kernelVars, file, held, log>>

\* open fails, for whatever reason: fopen frees the FILE.
OpenFails(t) ==
  /\ t \in DOMAIN call /\ call[t].at = "open"
  /\ file' = Restrict(file, DOMAIN file \ {call[t].f})
  /\ Return(t)
  /\ UNCHANGED <<kernelVars, held, log>>

LowestFd == CHOOSE d \in Fds \ DOMAIN fds : \A e \in Fds \ DOMAIN fds : d <= e

Open(t) ==
  /\ t \in DOMAIN call /\ call[t].at = "open"
  /\ Fds \ DOMAIN fds # {}
  /\ LET c == call[t]
         there == c.name \in DOMAIN disk
         now == IF there /\ ~c.flags.trunc THEN disk[c.name] ELSE <<>>
     IN  /\ there => ~(c.flags.creat /\ c.flags.excl)
         /\ ~there => c.flags.creat
         /\ disk' = Put(disk, c.name, now)
         /\ fds' = Put(fds, LowestFd, [name |-> c.name, pos |-> 0, read |-> c.flags.read,
                                       write |-> c.flags.write, app |-> c.flags.app])
         /\ file' = [file EXCEPT ![c.f].fd = LowestFd]
         /\ held' = held \cup {c.f}
         /\ log' = LET kept == Forget(log, IF c.flags.trunc THEN On(c.name) ELSE {})
                   IN  IF c.flags.write /\ ~c.flags.trunc /\ ~c.flags.app THEN kept
                       ELSE Put(kept, c.f, [bytes |-> IF c.flags.write THEN now ELSE <<>>,
                                            said |-> <<>>, tail |-> <<>>])
  /\ Return(t)

\* fclose: the kernel gives the descriptor up even if close fails.  (What
\* fclose returns is the opposite of what close says.)  The program does not
\* close a standard stream, which malloc has not given.
Fclose(t, f) ==
  /\ Free(t, f) /\ f \notin DOMAIN Standard
  /\ fds' = Restrict(fds, DOMAIN fds \ {file[f].fd})
  /\ held' = held \ {f}
  /\ log' = Forget(log, {f})
  /\ Begin(t, [at |-> "free", f |-> f])
  /\ UNCHANGED <<disk, file>>

FreeFile(t) ==
  /\ t \in DOMAIN call /\ call[t].at = "free"
  /\ file' = Restrict(file, DOMAIN file \ {call[t].f})
  /\ Return(t)
  /\ UNCHANGED <<kernelVars, held, log>>

\* The file position is the kernel's, so reading goes on after clearerr.
Clearerr(t, f) ==
  /\ Free(t, f)
  /\ Stopped(f)
  /\ file' = [file EXCEPT ![f].eof = FALSE, ![f].err = FALSE]
  /\ log' = IF f \in DOMAIN log /\ (file[f].err \/ log[f].tail # <<>>)
            THEN Forget(log, {f}) ELSE log
  /\ UNCHANGED <<kernelVars, held, call>>
-----------------------------------------------------------------------------
(***************************************************************************)
(* Reading.                                                                *)
(***************************************************************************)

\* fread of n bytes, and fgetc, which is fread of one.
Fread(t, f, n) ==
  /\ Free(t, f)
  /\ \/ /\ Stopped(f)
        /\ n > 1
        /\ log' = Forget(log, {f})
        /\ UNCHANGED <<kernelVars, file>>
     \/ /\ ~Stopped(f)
        /\ \E r \in ReadResults(Desc(f), n) :
             /\ Reads(f, r)
             /\ log' = IF r = NoBytes THEN log ELSE Forget(Given(f, r), Short(f, Len(r), n))
  /\ UNCHANGED <<held, call>>

\* fgets: of a stopped stream it returns at once, with an empty string if
\* there is no error; the same for a buffer that holds just the NUL.
Fgets(t, f, n) ==
  /\ Free(t, f)
  /\ ~Stopped(f)
  /\ n > 1
  /\ Begin(t, [at |-> "gets", f |-> f, n |-> n, buf |-> <<>>])
  /\ UNCHANGED <<kernelVars, file, held, log>>

\* A mutation: the loop looks for the end of the buffer after it has read.
FgetcThenTest(t) ==
  /\ t \in DOMAIN call /\ call[t].at = "gets"
  /\ LET c == call[t]
     IN  \E r \in ReadResults(Desc(c.f), 1) :
           /\ Reads(c.f, r)
           /\ IF r \notin {NoBytes, <<>>, <<Newline>>} /\ Len(c.buf) < c.n - 1
              THEN call' = [call EXCEPT ![t].buf = @ \o r] /\ UNCHANGED log
              ELSE /\ Return(t)
                   /\ log' = IF r = NoBytes THEN log ELSE
                        Given(c.f, c.buf \o (IF Len(c.buf) < c.n - 1 THEN r ELSE <<>>))
  /\ UNCHANGED held

\* One turn of its loop.  An error empties the buffer and returns NULL; the
\* end of the file, a newline or a full buffer return the string.
FgetsByte(t) ==
  /\ t \in DOMAIN call /\ call[t].at = "gets"
  /\ LET c == call[t]
     IN  \E r \in ReadResults(Desc(c.f), 1) :
           /\ Reads(c.f, r)
           /\ IF r \notin {NoBytes, <<>>, <<Newline>>} /\ Len(c.buf) + 1 < c.n - 1
              THEN call' = [call EXCEPT ![t].buf = @ \o r] /\ UNCHANGED log
              ELSE /\ Return(t)
                   /\ log' = IF r = NoBytes THEN log ELSE Given(c.f, c.buf \o r)
  /\ UNCHANGED held
-----------------------------------------------------------------------------
(***************************************************************************)
(* Writing.  A stream that is stopped refuses and stays as it is.          *)
(***************************************************************************)

\* fwrite of the bytes s, and fputc, which is fwrite of one.
Fwrite(t, f, s) ==
  /\ Free(t, f)
  /\ s # <<>> /\ ~Stopped(f)
  /\ \E k \in WriteResults(Desc(f), Len(s)) :
       /\ Writes(f, s, k)
       /\ log' = Forget(IF k \in {Failed, 0} THEN Noted(f, <<>>, <<Piece(s, k)>>)
                        ELSE Noted(f, <<Piece(s, k)>>, <<>>),
                        Disturbed(f, k))
  /\ UNCHANGED <<held, call>>

\* fputs writes the text, of which it accepts a short write, ...
Fputs(t, f, s) ==
  /\ Free(t, f) /\ ~Stopped(f)
  /\ \/ /\ s = <<>>
        /\ Begin(t, [at |-> "newline", f |-> f])
        /\ log' = Noted(f, <<>>, <<Piece(<<Newline>>, 1)>>)
        /\ UNCHANGED <<kernelVars, file>>
     \/ /\ s # <<>>
        /\ \E k \in WriteResults(Desc(f), Len(s)) :
             /\ Writes(f, s, k)
             /\ IF k \in {Failed, 0} THEN UNCHANGED call
                ELSE Begin(t, [at |-> "newline", f |-> f])
             /\ log' = Forget(Noted(f, <<>>, <<Piece(s, k), Piece(<<Newline>>, 1)>>),
                              Disturbed(f, k))
  /\ UNCHANGED held

\* ... and then a newline.
FputsNewline(t) ==
  /\ t \in DOMAIN call /\ call[t].at = "newline"
  /\ LET f == call[t].f
     IN  \E k \in WriteResults(Desc(f), 1) :
           /\ Writes(f, <<Newline>>, k)
           /\ log' = Forget(IF k = 1 THEN Finished(f) ELSE log, Disturbed(f, k))
  /\ Return(t)
  /\ UNCHANGED held
-----------------------------------------------------------------------------
Steps(t) ==
  \/ OpenFails(t) \/ Open(t) \/ FreeFile(t) \/ FgetsByte(t) \/ FputsNewline(t)

Next ==
  \E t \in Threads :
    \/ Steps(t)
    \/ \E name \in Names, mode \in ModeStrings, f \in Streams : Fopen(t, name, mode, f)
    \/ \E f \in held :
         \/ Fclose(t, f) \/ Clearerr(t, f)
         \/ \E n \in Counts : Fread(t, f, n) \/ Fgets(t, f, n)
         \/ \E s \in Texts : Fwrite(t, f, s) \/ Fputs(t, f, s)

Spec == Init /\ [][Next]_vars
-----------------------------------------------------------------------------
\* No descriptor leaks and none is shared: a stream that the program holds has
\* a descriptor of its own, every descriptor has its stream, and every FILE is
\* held, or a fopen or fclose has it; whatever fails, and although the kernel
\* gives a descriptor that one thread is closing to another that opens.
StreamsOwnFds ==
  /\ \A f \in held : file[f].fd \in DOMAIN fds
  /\ \A f, g \in held : file[f].fd = file[g].fd => f = g
  /\ \A d \in DOMAIN fds : \E f \in held : file[f].fd = d
  /\ \A f \in DOMAIN file :
       f \in held \/ \E t \in DOMAIN call : call[t].f = f /\ call[t].at \in {"open", "free"}

\* What a fgets in progress has in its buffer.
InBuffer(f) ==
  IF \E t \in DOMAIN call : call[t].at = "gets" /\ call[t].f = f
  THEN call[CHOOSE t \in DOMAIN call : call[t].f = f].buf ELSE <<>>

\* Reading a file from its start, with fgetc, fread and fgets in any order and
\* clearerr in between, gives its bytes in order, each once: none is lost when
\* a call returns early, unless an error says so.  A line fits in its buffer.
ReadsInOrder ==
  /\ \A f \in DOMAIN log : ~Desc(f).write =>
       LET taken == SubSeq(disk[Desc(f).name], 1, Desc(f).pos)
           given == log[f].bytes \o InBuffer(f)
       IN  IF file[f].err THEN IsPrefix(given, taken) ELSE given = taken
  /\ \A t \in DOMAIN call : call[t].at = "gets" => Len(call[t].buf) < call[t].n

\* The places from + 1 to to of the text have the first bytes of s.
PartOf(text, from, to, s) ==
  /\ from <= to /\ to - from <= Len(s)
  /\ \A j \in 1 .. to - from : text[from + j] = s[j]

\* There is all of the piece, or some of it if it is short.
PieceAt(text, from, to, piece) ==
  /\ PartOf(text, from, to, piece.text)
  /\ IF piece.short THEN to # from ELSE to - from = Len(piece.text)

\* The text is the bytes and then the pieces.
MadeOf(text, bytes, pieces) ==
  \E ends \in [0 .. Len(pieces) -> Len(bytes) .. Len(text)] :
    /\ PartOf(text, 0, Len(bytes), bytes)
    /\ ends[0] = Len(bytes) /\ ends[Len(pieces)] = Len(text)
    /\ \A i \in 1 .. Len(pieces) : PieceAt(text, ends[i - 1], ends[i], pieces[i])

\* A file that a single stream writes holds what it held before, and then in order
\* what the calls have said that they wrote: all of it if the kernel took all, and
\* some of it but at least a byte if the kernel took less, which the calls do not
\* tell.  After that there may be the text, never the newline, of an fputs that is
\* at it or has failed, and nothing of a failed fwrite: nothing is written after a
\* failed call until clearerr.  A fopen that fails, or that does not truncate,
\* leaves the file as it is.
WritesInOrder ==
  \A f \in DOMAIN log : Desc(f).write =>
    LET said == log[f].said
        tail == log[f].tail
    IN  \E m \in 0 .. Len(tail) :
          /\ m = Len(tail) => m = 0
          /\ MadeOf(disk[Desc(f).name], log[f].bytes, said \o SubSeq(tail, 1, m))
=============================================================================
