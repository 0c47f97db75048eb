------------------------------- MODULE Publish -------------------------------
(***************************************************************************)
(* The publish endpoint, PUT /{scope}/{package}/{version}, of one release: *)
(* the handler of every request (controller/publish.go), running           *)
(* concurrently with the others, over the release's files as the storage   *)
(* backend keeps them (repo/files, repo/s3, repo/maven).  Releases share   *)
(* no file, so one release is modelled.                                    *)
(*                                                                         *)
(* A request is named by a member of Requests, which also stands for the   *)
(* bytes it sends.  The bytes of a file are written in Chunks pieces.      *)
(* A part of the multipart body is named by the file it is stored under:   *)
(* UploadElement.FileName depends on the part's form name and media type   *)
(* only, so a source archive that is not application/zip ("source.other")  *)
(* and one that is ("source.zip") are different files.  Of the manifests in*)
(* an archive only what the code tells apart is kept: Package.swift, an    *)
(* alternate, Package.json, and the first and the last in another case.    *)
(***************************************************************************)
EXTENDS Integers, Sequences, FiniteSets, Functions

CONSTANTS
  Requests,      \* the publish requests of the release
  Nobody,        \* the owner of bytes nobody has written
  Uploads,       \* the bodies a client may send: sequences of parts
  Archives,      \* the sets of manifests a source archive may hold
  Backends,      \* the storage backends the server may be configured with
  JsonPolicies,  \* the values requirePackageJson may be configured with
  BaseUrls,      \* whether the address the server is configured with is a URL
  Chunks,        \* pieces a file is written in
  MaxActive,     \* publishes in flight at once
  FaultKinds,    \* the storage calls that may fail
  MaxFaults,     \* how many of them fail
  MaxCrashes     \* how often the server process ends and is started again

Sources   == {"source.zip", "source.other"}
Elements  == Sources \cup {"source.sig", "metadata.json", "metadata.sig"}
Manifests == {"Package.swift", "Package@swift-5.swift", "Package.json",
              "package.swift", "package.json"}
Files     == Elements \cup Manifests

\* A part with a form name validateUploadType refuses, and the place where the
\* body stops being a multipart form (or the client goes away).
Parts == Elements \cup {"custom", "broken"}

ASSUME NobodyAssumption  == Nobody \notin Requests
ASSUME UploadAssumption  == Uploads \subseteq Seq(Parts)
ASSUME ArchiveAssumption == Archives \subseteq SUBSET Manifests
ASSUME ServerAssumption  == /\ Backends \subseteq {"file", "s3", "maven"}
                            /\ JsonPolicies \subseteq BOOLEAN
                            /\ BaseUrls \subseteq BOOLEAN
ASSUME ChunksAssumption  == Chunks \in Nat \ {0}
ASSUME BoundsAssumption  == /\ MaxFaults \in Nat
                            /\ MaxCrashes \in Nat

VARIABLES
  backend,      \* server.repo.type
  requireJson,  \* server.packageCollections.requirePackageJson
  baseUrl,      \* server.hostname and server.port make a URL
  files,        \* the files of the release that exist
  bytes,        \* what each file holds: the owner of every chunk
  pc,           \* where the handler of a request is
  rest,         \* the parts of the body not yet stored
  zip,          \* the manifests inside the request's source archive
  at,           \* chunks of the current part copied to its writer
  linked,       \* the writer's open file is the one its path names
  src,          \* whose archive ExtractManifestFiles has opened
  todo,         \* its manifests not yet extracted
  stored,       \* storedElements; during cleanup, what is still to be removed
  package,      \* packageElement
  answer,       \* the response
  faults,       \* storage calls failed so far
  crashes,      \* crashes so far
  before,       \* history: while in flight, the files there when it arrived
  left,         \* history: files whose removal the cleanup did not achieve
  rivals        \* history: requests in flight together with the request

server  == <<backend, requireJson, baseUrl>>
storage == <<files, bytes>>
writer  == <<at, linked>>
unzip   == <<src, todo>>
history == <<before, left, rivals>>
vars == <<server, storage, pc, rest, zip, writer, unzip, stored, package,
          answer, faults, crashes, history>>

----------------------------------------------------------------------------
\* Storage.

Content == [1..Chunks -> Requests \cup {Nobody}]
Prefix(p, n) == [k \in 1..Chunks |-> IF k <= n THEN p ELSE Nobody]
Whole(p)     == Prefix(p, Chunks)
Empty        == Prefix(Nobody, Chunks)

\* An object store: GetWriter buffers, Close uploads.
Buffered == backend # "file"

\* Creates the file f, or replaces it, with content c.
Put(f, c) == /\ files' = files \cup {f}
             /\ bytes' = [bytes EXCEPT ![f] = c]

\* One storage call fails, within the bounds.
Fault(kind) == /\ kind \in FaultKinds
               /\ faults < MaxFaults
               /\ faults' = faults + 1

\* repo.Exists(f) answers yes.  A failing Stat is read as "exists", a failing
\* HEAD as "does not exist".
Exists(f, yes) ==
  \/ yes = (f \in files) /\ UNCHANGED faults
  \/ ~Buffered /\ f \notin files /\ yes = TRUE /\ Fault("stat")
  \/ Buffered /\ f \in files /\ yes = FALSE /\ Fault("head")

----------------------------------------------------------------------------
\* Requests.

Active(p)  == pc[p] \notin {"idle", "done"}
InFlight   == {p \in Requests : Active(p)}
Current(p) == Head(rest[p])

GoTo(p, label) == pc' = [pc EXCEPT ![p] = label]
Answer(p, a)   == answer' = [answer EXCEPT ![p] = a]

\* The handler returns, and its variables are gone with it.
Return(p) == /\ GoTo(p, "done")
             /\ rest' = [rest EXCEPT ![p] = <<>>]
             /\ stored' = [stored EXCEPT ![p] = <<>>]
             /\ at' = [at EXCEPT ![p] = 0]
             /\ before' = [before EXCEPT ![p] = {}]

Stop(p, a) == Answer(p, a) /\ Return(p)

\* Mutant of ExtractedManifests: Package.json is forgotten.
ManifestsWithoutJson ==
  (IF backend = "maven" THEN <<>> ELSE <<"Package@swift-5.swift">>)
    \o <<"Package.swift">>

\* What cleanupStoredElements removes after the stored elements: the alternate
\* manifests GetAlternativeManifests lists (none on Maven), Package.swift and
\* Package.json.
ExtractedManifests ==
  (IF backend = "maven" THEN <<>> ELSE <<"Package@swift-5.swift">>)
    \o <<"Package.swift", "Package.json">>

\* The response is an error; the elements stored so far are to be removed.
CleanupStoredElements(p, elements, a) ==
  /\ Answer(p, a)
  /\ stored' = [stored EXCEPT ![p] = elements \o ExtractedManifests]
  /\ GoTo(p, "cleanup")

----------------------------------------------------------------------------
Init ==
  /\ backend \in Backends
  /\ requireJson \in JsonPolicies
  /\ baseUrl \in BaseUrls
  /\ files = {}
  /\ bytes = [f \in Files |-> Empty]
  /\ pc = [p \in Requests |-> "idle"]
  /\ rest = [p \in Requests |-> <<>>]
  /\ zip = [p \in Requests |-> {}]
  /\ at = [p \in Requests |-> 0]
  /\ linked = [p \in Requests |-> FALSE]
  /\ src = [p \in Requests |-> Nobody]
  /\ todo = [p \in Requests |-> {}]
  /\ stored = [p \in Requests |-> <<>>]
  /\ package = [p \in Requests |-> "none"]
  /\ answer = [p \in Requests |-> "none"]
  /\ faults = 0
  /\ crashes = 0
  /\ before = [p \in Requests |-> {}]
  /\ left = [p \in Requests |-> {}]
  /\ rivals = [p \in Requests |-> {}]

\* The request is not JSON-versioned, names no valid scope or package, or is
\* not a multipart form.
RefuseRequest(p) ==
  /\ pc[p] = "idle"
  /\ Stop(p, "invalid")
  /\ UNCHANGED <<server, storage, zip, linked, unzip, package, faults,
                 crashes, left, rivals>>

\* A well-formed request arrives.
Receive(p) ==
  /\ pc[p] = "idle"
  /\ Cardinality(InFlight) < MaxActive
  /\ \E u \in Uploads, z \in Archives :
       /\ rest' = [rest EXCEPT ![p] = u]
       /\ zip' = [zip EXCEPT ![p] = z]
  /\ GoTo(p, "parts")
  /\ before' = [before EXCEPT ![p] = files]
  /\ rivals' = [q \in Requests |->
                  IF q = p THEN InFlight
                  ELSE IF Active(q) THEN rivals[q] \cup {p} ELSE rivals[q]]
  /\ UNCHANGED <<server, storage, writer, unzip, stored, package, answer,
                 faults, crashes, left>>

\* Mutant of MalformedForm: a failing NextPart is skipped, and fails again.
MalformedFormSkipped(p) ==
  /\ pc[p] = "parts" /\ rest[p] # <<>>
  /\ Current(p) = "broken"
  /\ UNCHANGED vars

\* reader.NextPart finds no further part and no end of the form.
MalformedForm(p) ==
  /\ pc[p] = "parts" /\ rest[p] # <<>>
  /\ Current(p) = "broken"
  /\ Stop(p, "malformed")
  /\ UNCHANGED <<server, storage, zip, linked, unzip, package, faults,
                 crashes, left, rivals>>

\* Mutant of UnsupportedPart: what was stored is not handed to the cleanup.
UnsupportedPartForgets(p) ==
  /\ pc[p] = "parts" /\ rest[p] # <<>>
  /\ Current(p) = "custom"
  /\ CleanupStoredElements(p, <<>>, "unsupported")
  /\ UNCHANGED <<server, storage, rest, zip, writer, unzip, package, faults,
                 crashes, history>>

\* validateUploadType refuses the part.
UnsupportedPart(p) ==
  /\ pc[p] = "parts" /\ rest[p] # <<>>
  /\ Current(p) = "custom"
  /\ CleanupStoredElements(p, stored[p], "unsupported")
  /\ UNCHANGED <<server, storage, rest, zip, writer, unzip, package, faults,
                 crashes, history>>

\* Mutant of ElementExists: the element is returned beside the error.
ElementExistsReturned(p) ==
  /\ pc[p] = "parts" /\ rest[p] # <<>>
  /\ Current(p) \in Elements
  /\ Exists(Current(p), TRUE)
  /\ CleanupStoredElements(p, Append(stored[p], Current(p)), "conflict")
  /\ UNCHANGED <<server, storage, rest, zip, writer, unzip, package, crashes,
                 history>>

\* The element exists: the part is refused and no element returned.
ElementExists(p) ==
  /\ pc[p] = "parts" /\ rest[p] # <<>>
  /\ Current(p) \in Elements
  /\ Exists(Current(p), TRUE)
  /\ CleanupStoredElements(p, stored[p], "conflict")
  /\ UNCHANGED <<server, storage, rest, zip, writer, unzip, package, crashes,
                 history>>

\* Mutant of ElementIsNew: Exists is not asked.
ElementUnchecked(p) ==
  /\ pc[p] = "parts" /\ rest[p] # <<>>
  /\ Current(p) \in Elements
  /\ GoTo(p, "open")
  /\ UNCHANGED <<server, storage, rest, zip, writer, unzip, stored, package,
                 answer, faults, crashes, history>>

ElementIsNew(p) ==
  /\ pc[p] = "parts" /\ rest[p] # <<>>
  /\ Current(p) \in Elements
  /\ Exists(Current(p), FALSE)
  /\ GoTo(p, "open")
  /\ UNCHANGED <<server, storage, rest, zip, writer, unzip, stored, package,
                 answer, crashes, history>>

\* GetWriter: a file is created or truncated in place, an object is not touched.
OpenWriter(p) ==
  /\ pc[p] = "open"
  /\ IF Buffered THEN UNCHANGED storage ELSE Put(Current(p), Empty)
  /\ at' = [at EXCEPT ![p] = 0]
  /\ linked' = [linked EXCEPT ![p] = ~Buffered]
  /\ GoTo(p, "copy")
  /\ UNCHANGED <<server, rest, zip, unzip, stored, package, answer, faults,
                 crashes, history>>

OpenFails(p) ==
  /\ pc[p] = "open"
  /\ ~Buffered
  /\ Fault("open")
  /\ CleanupStoredElements(p, Append(stored[p], Current(p)), "failed")
  /\ UNCHANGED <<server, storage, rest, zip, writer, unzip, package, crashes,
                 history>>

\* Mutant of CopyChunk: it does not stop at the end of the part.
CopyPastEnd(p) ==
  /\ pc[p] = "copy"
  /\ at' = [at EXCEPT ![p] = @ + 1]
  /\ UNCHANGED <<server, storage, pc, rest, zip, linked, unzip, stored, package,
                 answer, faults, crashes, history>>

\* io.Copy moves a chunk of the part into the writer.
CopyChunk(p) ==
  /\ pc[p] = "copy"
  /\ at[p] < Chunks
  /\ at' = [at EXCEPT ![p] = @ + 1]
  /\ bytes' = IF linked[p]
              THEN [bytes EXCEPT ![Current(p)] =
                      [@ EXCEPT ![at[p] + 1] = p]]
              ELSE bytes
  /\ UNCHANGED <<server, files, pc, rest, zip, linked, unzip, stored, package,
                 answer, faults, crashes, history>>

\* Mutant of CopyFails: the element that failed is not returned.
CopyFailsForgets(p) ==
  /\ pc[p] = "copy"
  /\ Fault("copy")
  /\ \/ Buffered /\ Put(Current(p), Prefix(p, at[p]))
     \/ UNCHANGED storage
  /\ linked' = [linked EXCEPT ![p] = FALSE]
  /\ CleanupStoredElements(p, stored[p], "failed")
  /\ UNCHANGED <<server, rest, zip, at, unzip, package, crashes, history>>

\* The client stops sending or a write fails.  The writer is closed all the
\* same, and closing an object's writer uploads what was copied so far.
CopyFails(p) ==
  /\ pc[p] = "copy"
  /\ Fault("copy")
  /\ \/ Buffered /\ Put(Current(p), Prefix(p, at[p]))
     \/ UNCHANGED storage
  /\ linked' = [linked EXCEPT ![p] = FALSE]
  /\ CleanupStoredElements(p, Append(stored[p], Current(p)), "failed")
  /\ UNCHANGED <<server, rest, zip, at, unzip, package, crashes, history>>

\* writer.Close succeeds: the element is stored.
CloseWriter(p) ==
  /\ pc[p] = "copy"
  /\ at[p] = Chunks
  /\ IF Buffered THEN Put(Current(p), Whole(p)) ELSE UNCHANGED storage
  /\ linked' = [linked EXCEPT ![p] = FALSE]
  /\ stored' = [stored EXCEPT ![p] = Append(@, Current(p))]
  /\ package' = [package EXCEPT ![p] =
                   IF Current(p) \in Sources THEN Current(p) ELSE @]
  /\ rest' = [rest EXCEPT ![p] = Tail(@)]
  /\ GoTo(p, IF Current(p) = "source.zip" THEN "unzip" ELSE "parts")
  /\ UNCHANGED <<server, zip, at, unzip, answer, faults, crashes, history>>

\* Mutant of CloseFails: the element that failed is not returned.
CloseFailsForgets(p) ==
  /\ pc[p] = "copy"
  /\ at[p] = Chunks
  /\ Fault("close")
  /\ \/ Buffered /\ Put(Current(p), Whole(p))
     \/ UNCHANGED storage
  /\ linked' = [linked EXCEPT ![p] = FALSE]
  /\ CleanupStoredElements(p, stored[p], "failed")
  /\ UNCHANGED <<server, rest, zip, at, unzip, package, crashes, history>>

\* writer.Close fails; an upload that timed out may have been applied.
CloseFails(p) ==
  /\ pc[p] = "copy"
  /\ at[p] = Chunks
  /\ Fault("close")
  /\ \/ Buffered /\ Put(Current(p), Whole(p))
     \/ UNCHANGED storage
  /\ linked' = [linked EXCEPT ![p] = FALSE]
  /\ CleanupStoredElements(p, Append(stored[p], Current(p)), "failed")
  /\ UNCHANGED <<server, rest, zip, at, unzip, package, crashes, history>>

\* ExtractManifestFiles opens the archive its path names now.  The directory of
\* a zip file is at its end: it lists the manifests of whoever wrote that.
OpenArchive(p) ==
  /\ pc[p] = "unzip"
  /\ LET owner == bytes["source.zip"][Chunks] IN
       /\ owner # Nobody
       /\ src' = [src EXCEPT ![p] = owner]
       /\ todo' = [todo EXCEPT ![p] = zip[owner]]
  /\ GoTo(p, "extract")
  /\ UNCHANGED <<server, storage, rest, zip, writer, stored, package, answer,
                 faults, crashes, history>>

\* The archive cannot be read: logged, and the publish goes on.
OpenArchiveFails(p) ==
  /\ pc[p] = "unzip"
  /\ \/ bytes["source.zip"][Chunks] = Nobody /\ UNCHANGED faults
     \/ Fault("unzip")
  /\ GoTo(p, "parts")
  /\ UNCHANGED <<server, storage, rest, zip, writer, unzip, stored, package,
                 answer, crashes, history>>

\* The file a manifest is written to.  Its name in the archive may be in any case,
\* and the file backend keeps it.  The object stores call every Package.json that,
\* and the path of a manifest on Maven is in lower case throughout.
StoredAs(m) ==
  CASE m = "package.json" /\ Buffered -> "Package.json"
    [] m = "package.swift" /\ backend = "maven" -> "Package.swift"
    [] OTHER -> m

\* One manifest of the archive is written beside it, replacing what is there.
ExtractManifest(p) ==
  /\ pc[p] = "extract"
  /\ \E m \in todo[p] :
       /\ Put(StoredAs(m), Whole(src[p]))
       /\ todo' = [todo EXCEPT ![p] = @ \ {m}]
  /\ UNCHANGED <<server, pc, rest, zip, writer, src, stored, package, answer,
                 faults, crashes, history>>

\* A manifest that cannot be written: a file stays empty and ends the
\* extraction, an object is skipped.
ExtractManifestFails(p) ==
  /\ pc[p] = "extract"
  /\ Fault("extract")
  /\ \E m \in todo[p] :
       IF Buffered
       THEN /\ todo' = [todo EXCEPT ![p] = @ \ {m}]
            /\ UNCHANGED storage
       ELSE /\ todo' = [todo EXCEPT ![p] = {}]
            /\ UNCHANGED storage \/ Put(StoredAs(m), Empty)
  /\ UNCHANGED <<server, pc, rest, zip, writer, src, stored, package, answer,
                 crashes, history>>

\* The archive was overwritten while it was being read: the next entry cannot be
\* opened, which ends the extraction.
ArchiveChanged(p) ==
  /\ pc[p] = "extract"
  /\ todo[p] # {}
  /\ ~Buffered /\ bytes["source.zip"] # Whole(src[p])
  /\ todo' = [todo EXCEPT ![p] = {}]
  /\ UNCHANGED <<server, storage, pc, rest, zip, writer, src, stored, package,
                 answer, faults, crashes, history>>

EndExtract(p) ==
  /\ pc[p] = "extract"
  /\ todo[p] = {}
  /\ src' = [src EXCEPT ![p] = Nobody]
  /\ GoTo(p, "parts")
  /\ UNCHANGED <<server, storage, rest, zip, writer, todo, stored, package,
                 answer, faults, crashes, history>>

\* The form has ended.  Package.json may be required; nobody asks whose it is.  If
\* no Location can be made the answer is 500, and what is stored stays.
Accept(p) ==
  /\ pc[p] = "parts" /\ rest[p] = <<>>
  /\ package[p] # "none"
  /\ IF requireJson THEN Exists("Package.json", TRUE) ELSE UNCHANGED faults
  /\ Stop(p, IF baseUrl THEN "created" ELSE "nolocation")
  /\ UNCHANGED <<server, storage, zip, linked, unzip, package, crashes,
                 left, rivals>>

RequiredJsonMissing(p) ==
  /\ pc[p] = "parts" /\ rest[p] = <<>>
  /\ package[p] # "none"
  /\ requireJson /\ Exists("Package.json", FALSE)
  /\ CleanupStoredElements(p, stored[p], "nojson")
  /\ UNCHANGED <<server, storage, rest, zip, writer, unzip, package, crashes,
                 history>>

NothingToStore(p) ==
  /\ pc[p] = "parts" /\ rest[p] = <<>>
  /\ package[p] = "none"
  /\ Stop(p, "nothing")
  /\ UNCHANGED <<server, storage, zip, linked, unzip, package, faults,
                 crashes, left, rivals>>

\* The cleanup removes the next file if it exists.  Writers that hold it open
\* go on writing to a file no path names.
RemoveNext(p) ==
  /\ pc[p] = "cleanup" /\ stored[p] # <<>>
  /\ LET f == Head(stored[p]) IN
       /\ files' = files \ {f}
       /\ bytes' = [bytes EXCEPT ![f] = Empty]
       /\ linked' = [q \in Requests |->
                       linked[q] /\ ~(pc[q] = "copy" /\ Current(q) = f)]
  /\ stored' = [stored EXCEPT ![p] = Tail(@)]
  /\ UNCHANGED <<server, pc, rest, zip, at, unzip, package, answer, faults,
                 crashes, history>>

\* Removing it fails, or the backend cannot tell that it is there: logged.
RemoveFails(p) ==
  /\ pc[p] = "cleanup" /\ stored[p] # <<>>
  /\ Fault("remove")
  /\ left' = [left EXCEPT ![p] = @ \cup {Head(stored[p])}]
  /\ stored' = [stored EXCEPT ![p] = Tail(@)]
  /\ UNCHANGED <<server, storage, pc, rest, zip, writer, unzip, package,
                 answer, crashes, before, rivals>>

EndCleanup(p) ==
  /\ pc[p] = "cleanup" /\ stored[p] = <<>>
  /\ Return(p)
  /\ UNCHANGED <<server, storage, zip, linked, unzip, package, answer, faults,
                 crashes, left, rivals>>

\* The server process ends: every request in flight is gone, with its buffers
\* and its cleanup.  It is started again with the same configuration.
Crash ==
  /\ crashes < MaxCrashes
  /\ InFlight # {}
  /\ crashes' = crashes + 1
  /\ pc' = [p \in Requests |-> IF Active(p) THEN "done" ELSE pc[p]]
  /\ answer' = [p \in Requests |->
                  IF Active(p) /\ answer[p] = "none" THEN "lost" ELSE answer[p]]
  /\ left' = [p \in Requests |->
                IF pc[p] = "cleanup" THEN left[p] \cup Range(stored[p])
                ELSE left[p]]
  /\ rest' = [p \in Requests |-> <<>>]
  /\ stored' = [p \in Requests |-> <<>>]
  /\ at' = [p \in Requests |-> 0]
  /\ linked' = [p \in Requests |-> FALSE]
  /\ src' = [p \in Requests |-> Nobody]
  /\ todo' = [p \in Requests |-> {}]
  /\ before' = [p \in Requests |-> {}]
  /\ UNCHANGED <<server, storage, zip, package, faults, rivals>>

Handle(p) ==
  \/ MalformedForm(p) \/ UnsupportedPart(p)
  \/ ElementExists(p) \/ ElementIsNew(p)
  \/ OpenWriter(p) \/ OpenFails(p)
  \/ CopyChunk(p) \/ CopyFails(p)
  \/ CloseWriter(p) \/ CloseFails(p)
  \/ OpenArchive(p) \/ OpenArchiveFails(p)
  \/ ExtractManifest(p) \/ ExtractManifestFails(p)
  \/ ArchiveChanged(p) \/ EndExtract(p)
  \/ Accept(p) \/ RequiredJsonMissing(p) \/ NothingToStore(p)
  \/ RemoveNext(p) \/ RemoveFails(p) \/ EndCleanup(p)

\* Every request has been answered.
Quiet == (\A p \in Requests : pc[p] = "done") /\ UNCHANGED vars

Next ==
  \/ \E p \in Requests : RefuseRequest(p) \/ Receive(p) \/ Handle(p)
  \/ Crash
  \/ Quiet

\* The runtime schedules every handler, the storage calls return and the client
\* sends its body or closes the connection.  No request has to arrive.
Fairness == \A p \in Requests : WF_vars(Handle(p))

Spec == Init /\ [][Next]_vars /\ Fairness

----------------------------------------------------------------------------
Labels  == {"idle", "parts", "open", "copy", "unzip", "extract", "cleanup",
            "done"}
RolledBack == {"unsupported", "conflict", "failed", "nojson"}
Answers == RolledBack \cup
           {"none", "created", "malformed", "nothing", "nolocation", "invalid",
            "lost"}

TypeOK ==
  /\ backend \in {"file", "s3", "maven"}
  /\ requireJson \in BOOLEAN
  /\ baseUrl \in BOOLEAN
  /\ files \subseteq Files
  /\ bytes \in [Files -> Content]
  /\ pc \in [Requests -> Labels]
  /\ rest \in [Requests -> Seq(Parts)]
  /\ zip \in [Requests -> SUBSET Manifests]
  /\ at \in [Requests -> 0..Chunks]
  /\ linked \in [Requests -> BOOLEAN]
  /\ src \in [Requests -> Requests \cup {Nobody}]
  /\ todo \in [Requests -> SUBSET Manifests]
  /\ stored \in [Requests -> Seq(Files)]
  /\ package \in [Requests -> Sources \cup {"none"}]
  /\ answer \in [Requests -> Answers]
  /\ faults \in 0..MaxFaults
  /\ crashes \in 0..MaxCrashes
  /\ before \in [Requests -> SUBSET Files]
  /\ left \in [Requests -> SUBSET Files]
  /\ rivals \in [Requests -> SUBSET Requests]

----------------------------------------------------------------------------
\* No other publish of the release was in flight together with p's.
Alone(p) == rivals[p] = {}

Published(p) == answer[p] = "created"

\* Nothing has gone wrong that leaves files behind: no two publishes raced and
\* no cleanup was cut short.
Undisturbed == \A p \in Requests : Alone(p) /\ left[p] = {}

\* A publish that ran alone and was answered 201 is served from then on, whole
\* and unchanged: later publishes, racing with each other, failing, rolled back
\* or cut off by a crash, neither replace nor remove its archive (the Exists
\* check of storeElements, and what it hands to the cleanup).
AcceptedAloneIsServed ==
  \A p \in Requests : Published(p) /\ Alone(p) =>
     package[p] \in files /\ bytes[package[p]] = Whole(p)

\* However publishes interleave, once a request has been refused and cleaned up
\* after, no byte of any part it sent is in the release, except in files whose
\* removal failed (the element storeElements returns beside its errors).
RefusedPartsAreGone ==
  \A p \in Requests : pc[p] = "done" /\ answer[p] \in RolledBack =>
     \A f \in Elements \ left[p] : p \notin Range(bytes[f])

\* Manifests that are extracted but not found by the cleanup.  Extraction takes
\* their names in any case, the cleanup in the usual one alone; and on Maven
\* GetAlternativeManifests finds no alternates.
Overlooked ==
  CASE backend = "file"  -> {"package.swift", "package.json"}
    [] backend = "s3"    -> {"package.swift"}
    [] backend = "maven" -> {"Package@swift-5.swift"}

\* The manifests served are those of the archive served: none is left of an
\* archive that was rolled back (ExtractManifestFiles and the cleanup's list),
\* but for those the cleanup overlooks.  A manifest whose extraction failed may
\* be empty.
ManifestsMatchArchive ==
  Undisturbed /\ InFlight = {} =>
     \A m \in (Manifests \ Overlooked) \cap files :
        "source.zip" \in files /\ bytes[m] \in {Empty, bytes["source.zip"]}

\* With requirePackageJson, a source archive accepted has a Package.json of its
\* own, under a name that makes it one: the check after the last part asks the
\* storage, not the archive.
RequiredJsonIsOwn ==
  Undisturbed /\ faults = 0 =>
     \A p \in Requests :
        Published(p) /\ requireJson /\ package[p] = "source.zip" =>
           \E m \in zip[p] : StoredAs(m) = "Package.json"

\* When a publish that ran alone has been rolled back, the release has no file
\* it did not have when the request arrived, but for failed removals and the
\* manifests the cleanup overlooks.
RollbackAddsNothing ==
  [][\A p \in Requests :
       pc[p] = "cleanup" /\ pc'[p] = "done" /\ Alone(p) =>
          files' \subseteq before[p] \cup left'[p] \cup Overlooked]_vars

\* Every publish that arrives is answered and its handler returns.
EveryPublishEnds == \A p \in Requests : Active(p) ~> pc[p] = "done"

----------------------------------------------------------------------------
\* The inductive invariant behind AcceptedAloneIsServed, proved in PublishProofs
\* for backends whose Exists never misses a file.

\* A handler that is storing a part has one to store.
Uploading ==
  \A p \in Requests : pc[p] \in {"open", "copy"} =>
     rest[p] # <<>> /\ Current(p) \in Elements

\* Only a handler that has stored an archive and returned has answered 201; one
\* that is not running has nothing to remove, and one that has not run has
\* stored nothing.
Returned ==
  \A p \in Requests : /\ Published(p) => pc[p] = "done" /\ package[p] # "none"
                      /\ ~Active(p) => stored[p] = <<>>
                      /\ pc[p] = "idle" => package[p] = "none"

\* Requests in flight together know of each other.
Met == \A p, q \in Requests :
          p # q /\ Active(p) /\ Active(q) => q \in rivals[p]

\* A publish on its own finds in the file what it has copied.
CopiedAlone ==
  \A p \in Requests : pc[p] = "copy" /\ Alone(p) /\ ~Buffered =>
     /\ linked[p] /\ Current(p) \in files
     /\ bytes[Current(p)] = Prefix(p, at[p])

\* p, on its own, has stored a source archive and not given it up.
Claims(p) ==
  /\ Alone(p)
  /\ package[p] # "none"
  /\ pc[p] \in {"parts", "open", "copy", "unzip", "extract"} \/ Published(p)

\* Then the archive is whole, nobody writes to it and nobody else will remove it.
Kept ==
  \A p \in Requests : Claims(p) =>
     /\ package[p] \in files /\ bytes[package[p]] = Whole(p)
     /\ \A q \in Requests :
          /\ pc[q] \in {"open", "copy"} => Current(q) # package[p]
          /\ q # p => package[p] \notin Range(stored[q])

IInv == TypeOK /\ Uploading /\ Returned /\ Met /\ CopiedAlone /\ Kept

----------------------------------------------------------------------------
\* What the responses say of a release, "Cache-Control: public, immutable": a
\* manifest of a release published alone is never changed or removed.
ManifestsAreImmutable ==
  [][\A p \in Requests, m \in Manifests :
       Published(p) /\ Alone(p) /\ package[p] = "source.zip" /\ m \in files =>
          m \in files' /\ bytes'[m] = bytes[m]]_vars

\* 409: "an existing release already exists, or the release is still
\* processing".  Two publishes of one archive are never both answered 201.
OnePublishAccepted ==
  \A p, q \in Requests :
     Published(p) /\ Published(q) /\ package[p] = package[q] => p = q

\* cleanupStoredElements "removes all stored elements and extracted manifest
\* files when a publish operation needs to be rolled back": whatever the reason
\* a publish that ran alone is refused for, it adds no file to the release.
RefusedAddsNothing ==
  [][\A p \in Requests :
       Active(p) /\ pc'[p] = "done" /\ Alone(p)
         /\ answer'[p] \in RolledBack \cup {"malformed", "nothing", "nolocation"} =>
            files' \subseteq before[p] \cup left'[p]]_vars

\* What a client may rely on, when publishes do not overlap (MaxActive = 1):
\* Publish implements ReleaseRegistry.  An archive is served if its file is
\* there, and damaged if the file is not wholly one request's.
Damaged == "damaged"
Served == [f \in Sources |->
             IF f \notin files THEN Nobody
             ELSE IF \E p \in Requests : bytes[f] = Whole(p)
                  THEN CHOOSE p \in Requests : bytes[f] = Whole(p)
                  ELSE Damaged]
Verdict == [p \in Requests |->
              IF answer[p] = "none" THEN "pending"
              ELSE IF answer[p] = "created" THEN package[p]
              ELSE IF answer[p] = "lost" THEN "lost" ELSE "refused"]

Registry == INSTANCE ReleaseRegistry
              WITH served <- Served, verdict <- Verdict

RegistrySpec == Registry!Spec
=============================================================================
