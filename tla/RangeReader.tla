---------------------------- MODULE RangeReader ----------------------------
(***************************************************************************)
(* Reading one file of a Maven server (repo/maven/readseek.go, access.go): *)
(* GetReader probes once whether the server supports ranges, and returns a *)
(* reader over range requests or one over a buffered copy.  A request for  *)
(* the registry opens a reader, seeks as http.ServeContent does or not at  *)
(* all, reads to the end or as far as it needs, and closes it.  Every call *)
(* to the server is a step: the file may be replaced or removed, and the   *)
(* call may fail, between any two.                                         *)
(*                                                                         *)
(* A byte is the era of the file it comes from and its offset there.       *)
(***************************************************************************)
EXTENDS Integers, Sequences, FiniteSets

CONSTANTS
  Histories,   \* the lengths the file may have, one after the other
  Servers,     \* the kinds of server
  Lengths,     \* the Content-Length a server may give its 404 page
  MaxRead,     \* the longest buffer passed to Read
  MaxFrom,     \* the largest first byte a client asks for
  MaxReaders,  \* how many readers are opened, one after the other
  MaxFaults    \* how many calls to the server fail

\* The length of a file that is not there, and of an answer without one.
Unknown == -1

Asks == {"copy", "peek", "serve", "manifest"}

\* What a server does:
\*   advertises: HEAD answers Accept-Ranges: bytes
\*   sized:      HEAD answers a Content-Length
\*   honours:    a range is answered with 206, else with 200 and the whole file
\*   partial:    a 206 may hold less than was asked for
\*   lenient:    a range that starts at the end is answered with nothing, else 416
Kinds == [advertises : BOOLEAN, sized : BOOLEAN, honours : BOOLEAN,
          partial : BOOLEAN, lenient : BOOLEAN]

ASSUME HistoryAssumption ==
  \A h \in Histories : h \in Seq(Nat \cup {Unknown}) /\ h # <<>>
ASSUME ServerAssumption == Servers \subseteq Kinds
ASSUME LengthAssumption == Lengths \subseteq Nat \cup {Unknown} /\ Lengths # {}
ASSUME BoundAssumption  == /\ MaxRead \in Nat \ {0} /\ MaxFrom \in Nat
                           /\ MaxReaders \in Nat /\ MaxFaults \in Nat

VARIABLES
  server,    \* the kind of server
  lengths,   \* the lengths the file has, one after the other
  era,       \* which of them it has now
  supports,  \* access.supportsRanges: what the only probe found
  pc,        \* where the request is
  ask, from, \* what it is for, and the first byte its client wants
  seeks,     \* the seeks it makes before it reads
  mode,      \* which of the two readers it has
  size, pos, \* rangeReadSeekCloser.size and pos
  body,      \* rangeReadSeekCloser.body: the open response, what is left of it
  room,      \* what is left of Read's buffer when it fetches again
  todo,      \* what io.CopyN has still to copy
  out,       \* the bytes read
  status,    \* how the request ended
  opened,    \* readers opened so far
  faults,    \* calls failed so far
  eras,      \* history: the eras of the file since the request began
  trouble,   \* history: a call of the request has failed
  bodies     \* history: the bodies it has read from since it began to read

world   == <<server, lengths>>
reader  == <<mode, size, pos, body, room>>
request == <<ask, from, seeks, todo, out, status>>
history == <<eras, trouble, bodies>>
vars    == <<world, era, supports, pc, request, reader, opened, faults, history>>

NoBody == [era |-> 0, at |-> 0, end |-> 0]
Bodies == [era : 0..Len(lengths), at : Nat, end : Nat]

Least(a, b) == IF a < b THEN a ELSE b

There == lengths[era] # Unknown
Left(b) == b.end - b.at

\* The answers to GET with "Range: bytes=start-": none if it is refused.
Answers(start) ==
  IF ~There THEN {}
  ELSE IF ~server.honours THEN {[era |-> era, at |-> 0, end |-> lengths[era]]}
  ELSE IF start < lengths[era]
  THEN {[era |-> era, at |-> start, end |-> e] :
          e \in IF server.partial THEN start + 1..lengths[era] ELSE {lengths[era]}}
  ELSE IF server.lenient THEN {[era |-> era, at |-> start, end |-> start]}
  ELSE {}

GoTo(l)  == pc' = l
Works    == UNCHANGED <<faults, trouble>>
Fails    == faults < MaxFaults /\ faults' = faults + 1 /\ trouble' = TRUE

----------------------------------------------------------------------------
Init ==
  /\ server \in Servers
  /\ lengths \in Histories
  /\ era = 1
  /\ supports = "unknown"
  /\ pc = "idle"
  /\ ask = "copy" /\ from = 0 /\ seeks = <<>> /\ todo = 0 /\ out = <<>>
  /\ status = "none"
  /\ mode = "none" /\ size = 0 /\ pos = 0 /\ body = NoBody /\ room = 0
  /\ opened = 0
  /\ faults = 0
  /\ eras = {} /\ trouble = FALSE /\ bodies = 0

\* The file is published again, or removed by a rollback.
Change ==
  /\ era < Len(lengths)
  /\ era' = era + 1
  /\ eras' = IF pc = "idle" THEN eras ELSE eras \cup {era + 1}
  /\ UNCHANGED <<world, supports, pc, request, reader, opened, faults, trouble,
                 bodies>>

\* http.ServeContent seeks to the end for the length and back to the start, and
\* to the first byte of a range; the manifest endpoint tries a seek before.
Seeks(a, f) ==
  (IF a = "manifest" THEN <<"start">> ELSE <<>>)
  \o (IF a \in {"serve", "manifest"} THEN <<"end", "start">> ELSE <<>>)
  \o (IF f > 0 THEN <<"from">> ELSE <<>>)

\* A reader is asked for: by EncodeBase64, LoadMetadata, Checksum or the
\* extraction, which copy the file; by the tools version or Package.json, which
\* read as far as they need; or to serve an archive or a manifest.
GetReader ==
  /\ pc = "idle"
  /\ opened < MaxReaders
  /\ opened' = opened + 1
  /\ \E a \in Asks, f \in 0..MaxFrom :
       /\ a \in {"copy", "peek"} => f = 0
       /\ ask' = a /\ from' = f /\ seeks' = Seeks(a, f)
  /\ GoTo(CASE supports = "unknown" -> "probe"
            [] supports = "yes" -> "head"
            [] supports = "no" -> "buffer")
  /\ todo' = 0 /\ out' = <<>> /\ status' = "none"
  /\ mode' = "none" /\ size' = 0 /\ pos' = 0 /\ body' = NoBody /\ room' = 0
  /\ eras' = {era} /\ trouble' = FALSE /\ bodies' = 0
  /\ UNCHANGED <<world, era, supports, faults>>

\* The probe asks for the file itself and does not look at the status: a 404 page
\* may say the same as a file.  What it finds stays for the life of the process, and
\* a probe that fails finds that ranges are not supported.
CheckRangeSupport ==
  /\ pc = "probe"
  /\ \/ /\ Works
        /\ \/ server.advertises /\ supports' = "yes"
           \/ ~(There /\ server.advertises) /\ supports' = "no"
     \/ Fails /\ supports' = "no"
  /\ GoTo(IF supports' = "yes" THEN "head" ELSE "buffer")
  /\ UNCHANGED <<world, era, request, reader, opened, eras, bodies>>

\* Mutant of HeadSize: an answer without Content-Length is not looked for.
HeadSizeUnchecked ==
  /\ pc = "head"
  /\ \/ /\ Works
        /\ \E n \in IF ~There THEN Lengths
                    ELSE IF server.sized THEN {lengths[era]} ELSE {Unknown} :
             GoTo("first") /\ size' = n
     \/ Fails /\ GoTo("buffer") /\ UNCHANGED size
  /\ UNCHANGED <<world, era, supports, request, mode, pos, body, room, opened,
                 eras, bodies>>

\* newRangeReadSeekCloser asks for the length.  HEAD does not look at the
\* status: of a file that is not there it takes the length of the 404 page.
HeadSize ==
  /\ pc = "head"
  /\ \/ /\ Works
        /\ \E n \in IF ~There THEN Lengths
                    ELSE IF server.sized THEN {lengths[era]} ELSE {Unknown} :
             IF n = Unknown THEN GoTo("buffer") /\ UNCHANGED size
             ELSE GoTo("first") /\ size' = n
     \/ Fails /\ GoTo("buffer") /\ UNCHANGED size
  /\ UNCHANGED <<world, era, supports, request, mode, pos, body, room, opened,
                 eras, bodies>>

\* Mutant of FetchFirst: GetReader fails if the first fetch does.
FetchFirstOrFail ==
  /\ pc = "first"
  /\ \/ /\ Works
        /\ body' \in Answers(0)
        /\ mode' = "range" /\ bodies' = 1
        /\ GoTo("seek")
        /\ UNCHANGED status
     \/ /\ \/ Works /\ Answers(0) = {}
           \/ Fails
        /\ status' = "error"
        /\ GoTo("close")
        /\ UNCHANGED <<body, mode, bodies>>
  /\ UNCHANGED <<world, era, supports, ask, from, seeks, todo, out, size, pos,
                 room, opened, eras>>

\* It fetches the file from its start; if that is refused GetReader buffers.
FetchFirst ==
  /\ pc = "first"
  /\ \/ /\ Works
        /\ body' \in Answers(0)
        /\ mode' = "range" /\ bodies' = 1
        /\ GoTo("seek")
     \/ /\ \/ Works /\ Answers(0) = {}
           \/ Fails
        /\ GoTo("buffer")
        /\ UNCHANGED <<body, mode, bodies>>
  /\ UNCHANGED <<world, era, supports, request, size, pos, room, opened, eras>>

\* Mutant of Buffer: the length is the one HEAD gave, if it did.
BufferWithOldSize ==
  /\ pc = "buffer"
  /\ Works
  /\ There
  /\ body' = [era |-> era, at |-> 0, end |-> lengths[era]]
  /\ size' = IF size = 0 THEN lengths[era] ELSE size
  /\ mode' = "buffer" /\ bodies' = 1
  /\ GoTo("seek")
  /\ UNCHANGED <<world, era, supports, request, pos, room, opened, eras>>

\* newBufferedReadSeekCloser: one GET, read to its end.
Buffer ==
  /\ pc = "buffer"
  /\ \/ /\ Works
        /\ There
        /\ body' = [era |-> era, at |-> 0, end |-> lengths[era]]
        /\ size' = lengths[era]
        /\ mode' = "buffer" /\ bodies' = 1
        /\ GoTo("seek")
        /\ UNCHANGED status
     \/ /\ \/ Works /\ ~There
           \/ Fails
        /\ status' = "error"
        /\ GoTo("close")
        /\ UNCHANGED <<body, size, mode, bodies>>
  /\ UNCHANGED <<world, era, supports, ask, from, seeks, todo, out, pos, room,
                 opened, eras>>

\* Where the next seek goes: it does not go past the end.
Target ==
  CASE seeks[1] = "start" -> 0
    [] seeks[1] = "end" -> size
    [] seeks[1] = "from" -> Least(from, size)

\* A client asked for a range past the end: http.ServeContent answers 416, or
\* the whole of a file that is empty.
PastEnd == seeks # <<>> /\ seeks[1] = "from" /\ from >= size

OutOfRange ==
  /\ pc = "seek"
  /\ PastEnd
  /\ status' = IF size = 0 THEN "ok" ELSE "unsatisfiable"
  /\ GoTo("close")
  /\ UNCHANGED <<world, era, supports, ask, from, seeks, todo, out, reader,
                 opened, faults, history>>

\* Seek moves at once and fetches from there, even at the end; in the buffer it
\* only moves.  If the fetch is refused there is no body left, and the request
\* is answered with an error.
Seek ==
  /\ pc = "seek"
  /\ seeks # <<>>
  /\ ~PastEnd
  /\ pos' = Target
  /\ \/ /\ Works
        /\ body' \in IF mode = "buffer" THEN {[body EXCEPT !.at = Target]}
                     ELSE Answers(Target)
        /\ seeks' = Tail(seeks)
        /\ UNCHANGED <<pc, status>>
     \/ /\ mode = "range"
        /\ \/ Works /\ Answers(Target) = {}
           \/ Fails
        /\ body' = NoBody
        /\ status' = "error"
        /\ GoTo("close")
        /\ UNCHANGED seeks
  /\ UNCHANGED <<world, era, supports, ask, from, todo, out, mode, size, room,
                 opened, eras, bodies>>

\* There is nothing to seek any more.  A response to a client is promised the
\* rest of the file.
Begin ==
  /\ pc = "seek"
  /\ seeks = <<>>
  /\ todo' = size - pos
  /\ GoTo("read")
  /\ UNCHANGED <<world, era, supports, ask, from, seeks, out, status, reader,
                 opened, faults, history>>

\* How much the caller takes: io.CopyN no more than was promised.
Served    == ask \in {"serve", "manifest"}
Wanted(p) == IF Served THEN Least(p, todo) ELSE p

Take(b, n) ==
  /\ out' = out \o [i \in 1..n |-> [era |-> b.era, at |-> b.at + i - 1]]
  /\ pos' = pos + n
  /\ todo' = IF Served THEN todo - n ELSE todo

\* Mutant of Read: the end of a body is the end of the file.
ReadOneBody ==
  /\ pc = "read"
  /\ Served => todo > 0
  /\ \E p \in 1..MaxRead :
       LET n == Least(Wanted(p), Left(body))
       IN /\ Take(body, n)
          /\ body' = [body EXCEPT !.at = @ + n]
          /\ GoTo(IF n = 0 THEN "end" ELSE "read")
  /\ UNCHANGED <<world, era, supports, ask, from, seeks, status, mode, size,
                 room, opened, faults, history>>

\* Read returns bytes of the open body, perhaps with the end of it.  If that is
\* not the end of the file Read goes on to fetch the rest; the end of the buffer
\* is the end.
Read ==
  /\ pc = "read"
  /\ Served => todo > 0
  /\ \E p \in 1..MaxRead, end \in BOOLEAN :
       LET n == Least(Wanted(p), Left(body))
       IN /\ end => n = Left(body)
          /\ n = 0 => end
          /\ mode = "buffer" /\ end => n = 0
          /\ Take(body, n)
          /\ IF end /\ mode = "range" /\ pos + n < size
             THEN /\ body' = NoBody
                  /\ room' = Wanted(p) - n
                  /\ GoTo("refetch")
             ELSE /\ body' = [body EXCEPT !.at = @ + n]
                  /\ UNCHANGED room
                  /\ GoTo(IF end THEN "end" ELSE "read")
  /\ UNCHANGED <<world, era, supports, ask, from, seeks, status, mode, size,
                 opened, faults, history>>

\* Mutant of Refetch: the file is fetched from its start again.
RefetchFromStart ==
  /\ pc = "refetch"
  /\ Works
  /\ \E b \in Answers(0) : Take(b, 0) /\ body' = b
  /\ GoTo("read")
  /\ bodies' = bodies + 1
  /\ room' = 0
  /\ UNCHANGED <<world, era, supports, ask, from, seeks, status, mode, size,
                 opened, eras>>

\* Mutant of Refetch: a fetch that is refused is tried again.
RefetchUntilAnswered ==
  /\ pc = "refetch"
  /\ Works
  /\ \/ /\ \E b \in Answers(pos) : Take(b, 0) /\ body' = b
        /\ GoTo("read")
        /\ bodies' = bodies + 1
     \/ Answers(pos) = {} /\ UNCHANGED <<pc, out, pos, todo, body, bodies>>
  /\ UNCHANGED <<world, era, supports, ask, from, seeks, status, mode, size,
                 room, opened, eras>>

\* The rest is fetched and as much of it read as the buffer has room for.  The
\* end of this body is taken for the end of the file; so is a fetch that fails.
Refetch ==
  /\ pc = "refetch"
  /\ \/ /\ Works
        /\ \E b \in Answers(pos), end \in BOOLEAN :
             LET n == Least(room, Left(b))
             IN /\ end => n = Left(b)
                /\ room > 0 /\ n = 0 => end
                /\ Take(b, n)
                /\ body' = [b EXCEPT !.at = @ + n]
                /\ GoTo(IF end THEN "end" ELSE "read")
        /\ bodies' = bodies + 1
     \/ /\ \/ Works /\ Answers(pos) = {}
           \/ Fails
        /\ GoTo("end")
        /\ UNCHANGED <<out, pos, todo, body, bodies>>
  /\ room' = 0
  /\ UNCHANGED <<world, era, supports, ask, from, seeks, status, mode, size,
                 opened, eras>>

\* The connection breaks while the body is read.  A response that has begun is
\* cut short.
ReadFails ==
  /\ pc = "read"
  /\ mode = "range"
  /\ Served => todo > 0
  /\ Fails
  /\ status' = IF Served THEN "cut" ELSE "error"
  /\ GoTo("close")
  /\ UNCHANGED <<world, era, supports, ask, from, seeks, todo, out, reader,
                 opened, eras, bodies>>

\* The end has been read, or all that was promised, or all that is needed.  A
\* response shorter than promised is cut.
Finish ==
  /\ \/ pc = "end"
     \/ pc = "read" /\ Served /\ todo = 0
     \/ pc = "read" /\ ask = "peek" /\ out # <<>>
  /\ status' = IF Served /\ todo > 0 THEN "cut" ELSE "ok"
  /\ GoTo("close")
  /\ UNCHANGED <<world, era, supports, ask, from, seeks, todo, out, reader,
                 opened, faults, history>>

\* The reader is closed, and its body with it.
Close ==
  /\ pc = "close"
  /\ body' = NoBody
  /\ GoTo("idle")
  /\ UNCHANGED <<world, era, supports, request, mode, size, pos, room, opened,
                 faults, history>>

Handle == \/ CheckRangeSupport \/ HeadSize \/ FetchFirst \/ Buffer \/ OutOfRange
          \/ Seek \/ Begin \/ Read \/ Refetch \/ ReadFails \/ Finish \/ Close

\* No more readers are wanted.
Quiet == pc = "idle" /\ opened = MaxReaders /\ UNCHANGED vars

Next == Change \/ GetReader \/ Handle \/ Quiet

Spec     == Init /\ [][Next]_vars
FairSpec == Spec /\ WF_vars(Handle /\ UNCHANGED faults)

----------------------------------------------------------------------------
TypeOK ==
  /\ server \in Kinds
  /\ lengths \in Seq(Nat \cup {Unknown})
  /\ era \in 1..Len(lengths)
  /\ supports \in {"unknown", "yes", "no"}
  /\ pc \in {"idle", "probe", "head", "first", "buffer", "seek", "read",
             "refetch", "end", "close"}
  /\ ask \in Asks
  /\ from \in Nat
  /\ seeks \in Seq({"start", "end", "from"})
  /\ mode \in {"none", "range", "buffer"}
  /\ size \in Nat /\ pos \in Nat
  /\ body \in Bodies
  /\ room \in Nat /\ todo \in Int
  /\ out \in Seq([era : 1..Len(lengths), at : Nat])
  /\ status \in {"none", "ok", "error", "cut", "unsatisfiable"}
  /\ opened \in Nat /\ faults \in 0..MaxFaults
  /\ eras \subseteq 1..Len(lengths)
  /\ trouble \in BOOLEAN
  /\ bodies \in Nat

\* Whatever was sought, refetched or lost on the way, the bytes handed out are
\* consecutive bytes of the file from the first one wanted, if the server sends
\* the range it is asked for; and from any other server if the whole file was
\* asked for and came in one body.
BytesAreConsecutive ==
  server.honours \/ mode = "buffer" \/ (from = 0 /\ bodies <= 1) =>
    \A i \in 1..Len(out) : out[i].at = from + i - 1

\* The part of a file of length n that was asked for.
Rest(n) == IF from < n THEN n - from ELSE 0

\* Of a file that is not changed meanwhile a complete answer has every byte.  A
\* reader over ranges may only take the middle of a file for its end if a call
\* has failed, or the server has sent less than the range twice; and then no
\* client is told that the response is complete.
CompleteIsWhole ==
  pc = "close" /\ status = "ok" /\ ask # "peek" /\ Cardinality(eras) = 1 =>
    \/ \E e \in eras : Len(out) = Rest(lengths[e])
    \/ /\ ask = "copy" /\ mode = "range"
       /\ trouble \/ (server.partial /\ bodies > 1)

\* A buffered copy is of one state of the file, however often it changes while
\* it is handed out, and has all of it.
BufferIsOneState ==
  pc = "close" /\ mode = "buffer" /\ status = "ok" /\ ask # "peek" =>
    \E e \in eras : /\ \A i \in 1..Len(out) : out[i].era = e
                    /\ Len(out) = Rest(lengths[e])

\* A request is answered with an error only if the file was not there all the
\* time, a call of this very request failed (one that failed earlier, the probe
\* of the range support included, does no harm), or the server refuses a range
\* that starts at the end, as http.ServeContent's first seek makes Seek ask for.
\* That the file is replaced by a shorter one is no cause of its own.
ErrorsHaveACause ==
  pc = "close" /\ status = "error" =>
    \/ trouble
    \/ \E e \in eras : lengths[e] = Unknown
    \/ Served /\ mode = "range" /\ server.honours /\ ~server.lenient

\* Every request comes to an end, though a body that ends early is fetched again.
EveryReadEnds == pc # "idle" ~> pc = "idle"
=============================================================================
