------------------------------- MODULE Readers -------------------------------
(***************************************************************************)
(* The read endpoints of one release, GET .../{version}.zip and            *)
(* GET .../{version} (controller/downloadsourcearchive.go, info.go), next  *)
(* to the publish endpoint of Publish.  A request asks whether the archive *)
(* is there, then reads several files one after the other: the checksum,   *)
(* the signature and the metadata it answers with and the archive it       *)
(* sends are each read anew, and publishes go on in between.               *)
(*                                                                         *)
(* An object is read in one call.  A file is read piece by piece through a *)
(* handle: what is written to it in the meantime is seen, and removing it  *)
(* leaves the handle what it was opened on.                                *)
(***************************************************************************)
EXTENDS Publish

CONSTANT Readers  \* the read requests

VARIABLES
  asks,     \* the endpoint a request is for
  rpc,      \* where its handler is
  steps,    \* what it has still to read: the first is the one it is reading
  got,      \* what it has read
  data,     \* what it has read of the file it is reading
  next,     \* the piece of it that is read next
  limit,    \* the last piece it is going to read
  lost,     \* what its handle was left when the file was removed
  status,   \* the response
  promised, \* history: the publish accepted, having run alone, before it began
  refused   \* history: the publishes rolled back completely before it began

handle   == <<data, next, limit, lost>>
reading  == <<asks, rpc, steps, got, handle, status, promised, refused>>
allVars  == <<vars, reading>>

Endpoints == {"download", "info"}
Slots     == {"digest", "signature", "metadata", "body"}

\* What is read for each endpoint, in order: <<what for, which file>>.
Plan(e) ==
  IF e = "download"
  THEN << <<"digest", "source.zip">>, <<"signature", "source.sig">>,
          <<"body", "source.zip">> >>
  ELSE << <<"metadata", "metadata.json">>, <<"signature", "source.sig">>,
          <<"digest", "source.zip">> >>

\* The content of a file that could not be read.
Missing == <<>>

Slot(g) == Head(steps[g])[1]
File(g) == Head(steps[g])[2]

\* The pieces of a file of content c: it ends where nothing more was written.
Length(c) ==
  IF c = Empty THEN 0
  ELSE CHOOSE k \in 1..Chunks : c[k] # Nobody /\ \A j \in k + 1..Chunks : c[j] = Nobody

\* What the next piece of g's file may be.  Publishes that were writing to the
\* file when it was removed go on writing to it.
Detached(g) == lost[g] # Missing
Piece(g) ==
  IF Detached(g)
  THEN {lost[g][next[g]]} \cup
       {q \in Requests : pc[q] = "copy" /\ ~linked[q] /\ Current(q) = File(g)}
  ELSE {bytes[File(g)][next[g]]}

Move(g, label) == rpc' = [rpc EXCEPT ![g] = label]

CloseFile(g) == /\ data' = [data EXCEPT ![g] = Empty]
                /\ next' = [next EXCEPT ![g] = 1]
                /\ limit' = [limit EXCEPT ![g] = 0]
                /\ lost' = [lost EXCEPT ![g] = Missing]

----------------------------------------------------------------------------
EndpointsInit ==
  /\ Init
  /\ asks \in [Readers -> Endpoints]
  /\ rpc = [g \in Readers |-> "idle"]
  /\ steps = [g \in Readers |-> <<>>]
  /\ got = [g \in Readers |-> [s \in Slots |-> Missing]]
  /\ data = [g \in Readers |-> Empty]
  /\ next = [g \in Readers |-> 1]
  /\ limit = [g \in Readers |-> 0]
  /\ lost = [g \in Readers |-> Missing]
  /\ status = [g \in Readers |-> "none"]
  /\ promised = [g \in Readers |-> {}]
  /\ refused = [g \in Readers |-> {}]

\* A request arrives, and its handler asks whether the archive exists.
Ask(g) ==
  /\ rpc[g] = "idle"
  /\ \/ /\ Exists("source.zip", TRUE)
        /\ steps' = [steps EXCEPT ![g] = Plan(asks[g])]
        /\ Move(g, "open")
        /\ UNCHANGED status
     \/ /\ Exists("source.zip", FALSE)
        /\ status' = [status EXCEPT ![g] = "notfound"]
        /\ Move(g, "done")
        /\ UNCHANGED steps
  /\ promised' = [promised EXCEPT ![g] =
       {p \in Requests : Published(p) /\ Alone(p) /\ package[p] = "source.zip"}]
  /\ refused' = [refused EXCEPT ![g] =
       {p \in Requests : /\ pc[p] = "done" /\ answer[p] \in RolledBack
                         /\ left[p] = {}}]
  /\ UNCHANGED <<server, storage, pc, rest, zip, writer, unzip, stored, package,
                 answer, crashes, history, asks, got, handle>>

\* The objects of the release are gone when its package is listed, and it has no
\* other release: the package is not found.
PackageGone(g) ==
  /\ rpc[g] = "open"
  /\ asks[g] = "info" /\ steps[g] = Plan("info")
  /\ Buffered /\ files = {}
  /\ status' = [status EXCEPT ![g] = "notfound"]
  /\ steps' = [steps EXCEPT ![g] = <<>>]
  /\ Move(g, "done")
  /\ UNCHANGED <<vars, asks, got, handle, promised, refused>>

\* The file is opened, and for the archive sent its length is asked for; an
\* object is read.
OpenFile(g) ==
  /\ rpc[g] = "open"
  /\ steps[g] # <<>>
  /\ File(g) \in files
  /\ IF Buffered
     THEN data' = [data EXCEPT ![g] = bytes[File(g)]] /\ UNCHANGED limit
     ELSE limit' = [limit EXCEPT ![g] = Chunks] /\ UNCHANGED data
  /\ Move(g, IF ~Buffered /\ Slot(g) = "body" THEN "measure" ELSE "read")
  /\ UNCHANGED <<vars, asks, steps, got, next, lost, status, promised, refused>>

\* http.ServeContent seeks to the end, and will send what is before it.
Measure(g) ==
  /\ rpc[g] = "measure"
  /\ limit' = [limit EXCEPT ![g] =
                 Length(IF Detached(g) THEN lost[g] ELSE bytes[File(g)])]
  /\ Move(g, "read")
  /\ UNCHANGED <<vars, asks, steps, got, data, next, lost, status, promised,
                 refused>>

\* Mutant of ReadPiece: it does not stop at the length asked for.
ReadPastEnd(g) ==
  /\ rpc[g] = "read"
  /\ next' = [next EXCEPT ![g] = @ + 1]
  /\ UNCHANGED <<vars, asks, rpc, steps, got, data, limit, lost, status, promised,
                 refused>>

\* The next piece is read.
ReadPiece(g) ==
  /\ rpc[g] = "read"
  /\ next[g] <= limit[g]
  /\ \E c \in Piece(g) : data' = [data EXCEPT ![g][next[g]] = c]
  /\ next' = [next EXCEPT ![g] = @ + 1]
  /\ UNCHANGED <<vars, asks, rpc, steps, got, limit, lost, status, promised,
                 refused>>

\* The file has been read: its end, or the last piece wanted, is reached.
EndFile(g) ==
  /\ rpc[g] = "read"
  /\ \/ next[g] > limit[g]
     \/ \A k \in next[g]..Chunks :
          Nobody = IF Detached(g) THEN lost[g][k] ELSE bytes[File(g)][k]
  /\ got' = [got EXCEPT ![g][Slot(g)] = data[g]]
  /\ steps' = [steps EXCEPT ![g] = Tail(@)]
  /\ CloseFile(g)
  /\ Move(g, "open")
  /\ UNCHANGED <<vars, asks, status, promised, refused>>

\* The file is not there or cannot be read: a response without the archive's
\* checksum, signature or metadata is still one, but there is none without the
\* archive.
CannotOpen(g) ==
  /\ rpc[g] = "open"
  /\ steps[g] # <<>>
  /\ \/ File(g) \notin files /\ UNCHANGED faults
     \/ Fault("read")
  /\ IF Slot(g) = "body"
     THEN /\ status' = [status EXCEPT ![g] = "error"]
          /\ steps' = [steps EXCEPT ![g] = <<>>]
          /\ Move(g, "done")
     ELSE /\ steps' = [steps EXCEPT ![g] = Tail(@)]
          /\ UNCHANGED <<status, rpc>>
  /\ UNCHANGED <<server, storage, pc, rest, zip, writer, unzip, stored, package,
                 answer, crashes, history, asks, got, handle, promised,
                 refused>>

\* A read breaks off.  The response is cut short if the archive was being sent.
ReadFails(g) ==
  /\ rpc[g] = "read"
  /\ next[g] <= limit[g]
  /\ Fault("read")
  /\ CloseFile(g)
  /\ IF Slot(g) = "body"
     THEN /\ status' = [status EXCEPT ![g] = "cut"]
          /\ steps' = [steps EXCEPT ![g] = <<>>]
          /\ Move(g, "done")
     ELSE /\ steps' = [steps EXCEPT ![g] = Tail(@)]
          /\ Move(g, "open")
          /\ UNCHANGED status
  /\ UNCHANGED <<server, storage, pc, rest, zip, writer, unzip, stored, package,
                 answer, crashes, history, asks, got, promised, refused>>

Respond(g) ==
  /\ rpc[g] = "open"
  /\ steps[g] = <<>>
  /\ status' = [status EXCEPT ![g] = "ok"]
  /\ Move(g, "done")
  /\ UNCHANGED <<vars, asks, steps, got, handle, promised, refused>>

Read(g) == \/ Ask(g) \/ PackageGone(g) \/ OpenFile(g) \/ Measure(g)
           \/ ReadPiece(g) \/ EndFile(g) \/ CannotOpen(g) \/ ReadFails(g)
           \/ Respond(g)

\* A step of the publish endpoint.  What a handle is open on when the file is
\* removed stays readable through it.
PublishStep ==
  /\ \E p \in Requests : RefuseRequest(p) \/ Receive(p) \/ Handle(p)
  /\ lost' = [g \in Readers |->
                IF /\ rpc[g] \in {"measure", "read"}
                   /\ ~Detached(g) /\ File(g) \in files \ files'
                THEN bytes[File(g)] ELSE lost[g]]
  /\ UNCHANGED <<asks, rpc, steps, got, data, next, limit, status, promised,
                 refused>>

\* The server process ends, and no response that was not complete ever is.
EndpointsCrash ==
  /\ Crash
  /\ rpc' = [g \in Readers |-> IF rpc[g] = "idle" THEN "idle" ELSE "done"]
  /\ status' = [g \in Readers |->
                  IF rpc[g] \in {"open", "measure", "read"} THEN "cut"
                  ELSE status[g]]
  /\ steps' = [g \in Readers |-> <<>>]
  /\ data' = [g \in Readers |-> Empty]
  /\ next' = [g \in Readers |-> 1]
  /\ limit' = [g \in Readers |-> 0]
  /\ lost' = [g \in Readers |-> Missing]
  /\ UNCHANGED <<asks, got, promised, refused>>

EndpointsQuiet ==
  /\ Quiet
  /\ \A g \in Readers : rpc[g] = "done"
  /\ UNCHANGED reading

EndpointsNext ==
  \/ \E g \in Readers : Read(g)
  \/ PublishStep
  \/ EndpointsCrash
  \/ EndpointsQuiet

EndpointsSpec == EndpointsInit /\ [][EndpointsNext]_allVars

----------------------------------------------------------------------------
ReadersTypeOK ==
  /\ asks \in [Readers -> Endpoints]
  /\ rpc \in [Readers -> {"idle", "open", "measure", "read", "done"}]
  /\ steps \in [Readers -> Seq(Slots \X Files)]
  /\ got \in [Readers -> [Slots -> Content \cup {Missing}]]
  /\ data \in [Readers -> Content]
  /\ next \in [Readers -> 1..Chunks + 1]
  /\ limit \in [Readers -> 0..Chunks]
  /\ lost \in [Readers -> Content \cup {Missing}]
  /\ status \in [Readers -> {"none", "ok", "notfound", "error", "cut"}]
  /\ promised \in [Readers -> SUBSET Requests]
  /\ refused \in [Readers -> SUBSET Requests]

\* Once a publish that ran alone has been accepted, whoever asks for its archive
\* gets it whole, and whoever asks for a checksum gets the archive's, however
\* many publishes are refused, rolled back or cut off while the answer is being
\* put together from several reads.
AcceptedIsServed ==
  \A g \in Readers : \A p \in promised[g] : rpc[g] = "done" =>
     /\ status[g] # "notfound"
     /\ status[g] = "error" => faults > 0
     /\ got[g]["digest"] \in {Missing, Whole(p)}
     /\ asks[g] = "download" /\ status[g] = "ok" => got[g]["body"] = Whole(p)

\* No answer that was begun after a publish had been rolled back has a byte of
\* it: no archive, checksum, metadata or signature of a refused release is
\* served, though handles outlive the files they were opened on.
RefusedIsNotServed ==
  \A g \in Readers : \A p \in refused[g], s \in Slots : p \notin Range(got[g][s])

\* "Digest: a cryptographic digest of the source archive": a download that is
\* answered has the digest of the archive sent.
DigestIsOfBody ==
  \A g \in Readers :
     asks[g] = "download" /\ status[g] = "ok" /\ got[g]["digest"] # Missing =>
        got[g]["digest"] = got[g]["body"]
=============================================================================
