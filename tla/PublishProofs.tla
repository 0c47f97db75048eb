---------------------------- MODULE PublishProofs ----------------------------
(***************************************************************************)
(* Proofs about Publish, for every value of its constants.                 *)
(***************************************************************************)
EXTENDS Publish, TLAPS


----------------------------------------------------------------------------
\* Helpers: what the operators the actions are built from do to the types.

\* What the names of files and parts are not: the kinds do not overlap.
LEMMA FileFacts ==
  /\ Elements \subseteq Files /\ Elements \subseteq Parts
  /\ Manifests \subseteq Files /\ Sources \subseteq Elements
  /\ "custom" \notin Elements /\ "broken" \notin Elements
  BY DEF Files, Elements, Sources, Manifests, Parts

\* The contents of files (Prefix, Whole, Empty) have their type.
LEMMA ContentFacts ==
  /\ \A p \in Requests \cup {Nobody}, n \in Nat : Prefix(p, n) \in Content
  /\ \A p \in Requests \cup {Nobody} : Whole(p) \in Content
  /\ Empty \in Content
  /\ \A c \in Content, k \in Nat, p \in Requests :
        [c EXCEPT ![k] = p] \in Content
  /\ \A c \in Content : c[Chunks] \in Requests \cup {Nobody}
<1>1. \A p \in Requests \cup {Nobody}, n \in Nat : Prefix(p, n) \in Content
  BY DEF Content, Prefix
<1>2. \A p \in Requests \cup {Nobody} : Whole(p) \in Content
  BY <1>1, ChunksAssumption DEF Whole
<1>3. Empty \in Content
  BY <1>1, ChunksAssumption DEF Empty
<1>4. \A c \in Content, k \in Nat, p \in Requests :
         [c EXCEPT ![k] = p] \in Content
  BY DEF Content
<1>5. \A c \in Content : c[Chunks] \in Requests \cup {Nobody}
  BY ChunksAssumption DEF Content
<1> QED
  BY <1>1, <1>2, <1>3, <1>4, <1>5

\* Copying the next chunk extends what has been copied.
LEMMA PrefixGrows ==
  ASSUME NEW p, NEW n \in Nat
  PROVE  [Prefix(p, n) EXCEPT ![n + 1] = p] = Prefix(p, n + 1)
<1> DEFINE old == Prefix(p, n)
           new == [old EXCEPT ![n + 1] = p]
<1>1. DOMAIN new = 1..Chunks /\ DOMAIN Prefix(p, n + 1) = 1..Chunks
  BY DEF Prefix
<1>2. \A k \in 1..Chunks : new[k] = Prefix(p, n + 1)[k]
  BY ChunksAssumption DEF Prefix
<1>3. new = [k \in 1..Chunks |-> new[k]]
  BY DEF Prefix
<1>4. Prefix(p, n + 1) = [k \in 1..Chunks |-> Prefix(p, n + 1)[k]]
  BY DEF Prefix
<1> HIDE DEF new
<1>5. new = Prefix(p, n + 1)
  BY <1>2, <1>3, <1>4
<1> QED
  BY <1>5 DEF new

\* The manifests the cleanup removes are manifests.
LEMMA ManifestsRemoved == ExtractedManifests \in Seq(Manifests)
<1>1. <<"Package.swift", "Package.json">> \in Seq(Manifests)
  BY DEF Manifests
<1>2. <<"Package@swift-5.swift">> \in Seq(Manifests) /\ <<>> \in Seq(Manifests)
  BY DEF Manifests
<1> QED
  BY <1>1, <1>2 DEF ExtractedManifests

\* The file a manifest is written to is a manifest.
LEMMA StoredAsTyped == ASSUME NEW m \in Manifests PROVE StoredAs(m) \in Manifests
  BY DEF StoredAs, Manifests

\* Manifests may be removed like any other file.
LEMMA ManifestsAreFiles == ASSUME NEW s \in Seq(Manifests) PROVE s \in Seq(Files)
  BY FileFacts

\* A handler moves to a label.
LEMMA MoveTyped ==
  ASSUME TypeOK, NEW p, NEW l \in Labels, GoTo(p, l)
  PROVE  pc' \in [Requests -> Labels]
  BY DEF TypeOK, GoTo

\* Entering the cleanup (publish.go:83-89) keeps the types.
LEMMA CleanupTyped ==
  ASSUME TypeOK, NEW p, NEW s \in Seq(Files), NEW a \in Answers,
         CleanupStoredElements(p, s, a)
  PROVE  /\ pc' \in [Requests -> Labels]
         /\ stored' \in [Requests -> Seq(Files)]
         /\ answer' \in [Requests -> Answers]
<1>1. s \o ExtractedManifests \in Seq(Files)
  BY ManifestsRemoved, ManifestsAreFiles
<1> QED
  BY <1>1 DEF TypeOK, CleanupStoredElements, GoTo, Answer, Labels

\* The return of a handler keeps the types.
LEMMA ReturnTyped ==
  ASSUME TypeOK, NEW p, Return(p)
  PROVE  /\ pc' \in [Requests -> Labels]
         /\ rest' \in [Requests -> Seq(Parts)]
         /\ stored' \in [Requests -> Seq(Files)]
         /\ at' \in [Requests -> 0..Chunks]
         /\ before' \in [Requests -> SUBSET Files]
<1>1. pc' \in [Requests -> Labels]
  BY DEF TypeOK, Return, GoTo, Labels
<1>2. <<>> \in Seq(Parts) /\ <<>> \in Seq(Files) /\ 0 \in 0..Chunks
  BY ChunksAssumption
<1>3. rest' \in [Requests -> Seq(Parts)]
  BY <1>2 DEF TypeOK, Return
<1>4. stored' \in [Requests -> Seq(Files)]
  BY <1>2 DEF TypeOK, Return
<1>5. at' \in [Requests -> 0..Chunks]
  BY <1>2 DEF TypeOK, Return
<1>6. before' \in [Requests -> SUBSET Files]
  BY DEF TypeOK, Return
<1> QED
  BY <1>1, <1>3, <1>4, <1>5, <1>6

\* Creating or replacing a file keeps the types of the storage.
LEMMA PutTyped ==
  ASSUME TypeOK, NEW f \in Files, NEW c \in Content, Put(f, c)
  PROVE  files' \subseteq Files /\ bytes' \in [Files -> Content]
  BY DEF TypeOK, Put

\* A failing call stays within the bound on faults.
LEMMA FaultTyped ==
  ASSUME TypeOK, NEW k, Fault(k) PROVE faults' \in 0..MaxFaults
  BY BoundsAssumption DEF TypeOK, Fault

\* So does asking Exists, failing or not.
LEMMA ExistsTyped ==
  ASSUME TypeOK, NEW f, NEW yes, Exists(f, yes) PROVE faults' \in 0..MaxFaults
  BY FaultTyped DEF TypeOK, Exists

\* A handler that is storing has an element to store.
LEMMA CurrentTyped ==
  ASSUME TypeOK, Uploading, NEW p \in Requests, pc[p] \in {"open", "copy"}
  PROVE  /\ Current(p) \in Elements /\ Current(p) \in Files
         /\ Tail(rest[p]) \in Seq(Parts)
         /\ Append(stored[p], Current(p)) \in Seq(Files)
  BY FileFacts DEF TypeOK, Uploading

----------------------------------------------------------------------------
\* The process starts with every variable in its type.
LEMMA TypedInit == Init => TypeOK /\ Uploading
<1> SUFFICES ASSUME Init PROVE TypeOK /\ Uploading
  OBVIOUS
<1>1. bytes \in [Files -> Content]
  BY ContentFacts DEF Init
<1>2. pc \in [Requests -> Labels] /\ answer \in [Requests -> Answers]
  BY DEF Init, Labels, Answers
<1>3. at \in [Requests -> 0..Chunks]
  BY ChunksAssumption DEF Init
<1>4. faults \in 0..MaxFaults /\ crashes \in 0..MaxCrashes
  BY BoundsAssumption DEF Init
<1>5. TypeOK
  BY <1>1, <1>2, <1>3, <1>4, ServerAssumption DEF Init, TypeOK
<1> QED
  BY <1>5 DEF Init, Uploading

\* No step of the endpoint takes a variable out of its type: one step per action.
LEMMA TypedNext == TypeOK /\ Uploading /\ [Next]_vars => TypeOK'
<1> SUFFICES ASSUME TypeOK, Uploading, [Next]_vars PROVE TypeOK'
  OBVIOUS
<1> USE DEF server, storage, writer, unzip, history
<1>1. ASSUME NEW p \in Requests, RefuseRequest(p) PROVE TypeOK'
  <2>1. Return(p) /\ answer' = [answer EXCEPT ![p] = "invalid"]
    BY <1>1 DEF RefuseRequest, Stop, Answer
  <2>2. answer' \in [Requests -> Answers]
    BY <2>1 DEF TypeOK, Answers
  <2> QED
    BY <1>1, <2>1, <2>2, ReturnTyped DEF RefuseRequest, TypeOK
<1>2. ASSUME NEW p \in Requests, Receive(p) PROVE TypeOK'
  <2>1. pc' \in [Requests -> Labels]
    BY <1>2, MoveTyped DEF Receive, Labels
  <2>2. rest' \in [Requests -> Seq(Parts)] /\ zip' \in [Requests -> SUBSET Manifests]
    BY <1>2, UploadAssumption, ArchiveAssumption DEF Receive, TypeOK
  <2>3. before' \in [Requests -> SUBSET Files]
    BY <1>2 DEF Receive, TypeOK
  <2>4. rivals' \in [Requests -> SUBSET Requests]
    BY <1>2 DEF Receive, TypeOK, InFlight
  <2> QED
    BY <1>2, <2>1, <2>2, <2>3, <2>4 DEF Receive, TypeOK
<1>3. ASSUME NEW p \in Requests, MalformedForm(p) PROVE TypeOK'
  <2>1. Return(p) /\ answer' = [answer EXCEPT ![p] = "malformed"]
    BY <1>3 DEF MalformedForm, Stop, Answer
  <2>2. answer' \in [Requests -> Answers]
    BY <2>1 DEF TypeOK, Answers
  <2> QED
    BY <1>3, <2>1, <2>2, ReturnTyped DEF MalformedForm, TypeOK
<1>4. ASSUME NEW p \in Requests, UnsupportedPart(p) PROVE TypeOK'
  <2>1. CleanupStoredElements(p, stored[p], "unsupported")
    BY <1>4 DEF UnsupportedPart
  <2>2. stored[p] \in Seq(Files) /\ "unsupported" \in Answers
    BY DEF TypeOK, Answers, RolledBack
  <2> QED
    BY <1>4, <2>1, <2>2, CleanupTyped DEF UnsupportedPart, TypeOK
<1>5. ASSUME NEW p \in Requests, ElementExists(p) PROVE TypeOK'
  <2>1. CleanupStoredElements(p, stored[p], "conflict")
    BY <1>5 DEF ElementExists
  <2>2. stored[p] \in Seq(Files) /\ "conflict" \in Answers
    BY DEF TypeOK, Answers, RolledBack
  <2>3. faults' \in 0..MaxFaults
    BY <1>5, ExistsTyped DEF ElementExists
  <2> QED
    BY <1>5, <2>1, <2>2, <2>3, CleanupTyped DEF ElementExists, TypeOK
<1>6. ASSUME NEW p \in Requests, ElementIsNew(p) PROVE TypeOK'
  <2>1. pc' \in [Requests -> Labels]
    BY <1>6, MoveTyped DEF ElementIsNew, Labels
  <2>2. faults' \in 0..MaxFaults
    BY <1>6, ExistsTyped DEF ElementIsNew
  <2> QED
    BY <1>6, <2>1, <2>2 DEF ElementIsNew, TypeOK
<1>7. ASSUME NEW p \in Requests, OpenWriter(p) PROVE TypeOK'
  <2>1. pc' \in [Requests -> Labels]
    BY <1>7, MoveTyped DEF OpenWriter, Labels
  <2>2. files' \subseteq Files /\ bytes' \in [Files -> Content]
    BY <1>7, CurrentTyped, ContentFacts, PutTyped DEF OpenWriter, TypeOK
  <2>3. at' \in [Requests -> 0..Chunks]
    BY <1>7, ChunksAssumption DEF OpenWriter, TypeOK
  <2>4. linked' \in [Requests -> BOOLEAN]
    BY <1>7 DEF OpenWriter, TypeOK, Buffered
  <2> QED
    BY <1>7, <2>1, <2>2, <2>3, <2>4 DEF OpenWriter, TypeOK
<1>8. ASSUME NEW p \in Requests, OpenFails(p) PROVE TypeOK'
  <2>1. CleanupStoredElements(p, Append(stored[p], Current(p)), "failed")
    BY <1>8 DEF OpenFails
  <2>2. Append(stored[p], Current(p)) \in Seq(Files) /\ "failed" \in Answers
    BY <1>8, CurrentTyped DEF OpenFails, Answers, RolledBack
  <2>3. faults' \in 0..MaxFaults
    BY <1>8, FaultTyped DEF OpenFails
  <2> QED
    BY <1>8, <2>1, <2>2, <2>3, CleanupTyped DEF OpenFails, TypeOK
<1>9. ASSUME NEW p \in Requests, CopyChunk(p) PROVE TypeOK'
  <2>1. bytes' \in [Files -> Content]
    <3>1. Current(p) \in Files /\ at[p] + 1 \in Nat
      BY <1>9, CurrentTyped, ChunksAssumption DEF CopyChunk, TypeOK
    <3>2. [bytes[Current(p)] EXCEPT ![at[p] + 1] = p] \in Content
      BY <3>1, ContentFacts DEF TypeOK
    <3> QED
      BY <1>9, <3>2 DEF CopyChunk, TypeOK
  <2>2. at' \in [Requests -> 0..Chunks]
    BY <1>9, ChunksAssumption DEF CopyChunk, TypeOK
  <2> QED
    BY <1>9, <2>1, <2>2 DEF CopyChunk, TypeOK
<1>10. ASSUME NEW p \in Requests, CopyFails(p) PROVE TypeOK'
  <2>1. CleanupStoredElements(p, Append(stored[p], Current(p)), "failed")
    BY <1>10 DEF CopyFails
  <2>2. Append(stored[p], Current(p)) \in Seq(Files) /\ "failed" \in Answers
    BY <1>10, CurrentTyped DEF CopyFails, Answers, RolledBack
  <2>3. faults' \in 0..MaxFaults
    BY <1>10, FaultTyped DEF CopyFails
  <2>4. files' \subseteq Files /\ bytes' \in [Files -> Content]
    BY <1>10, CurrentTyped, ContentFacts, PutTyped DEF CopyFails, TypeOK
  <2>5. linked' \in [Requests -> BOOLEAN]
    BY <1>10 DEF CopyFails, TypeOK
  <2> QED
    BY <1>10, <2>1, <2>2, <2>3, <2>4, <2>5, CleanupTyped DEF CopyFails, TypeOK
<1>11. ASSUME NEW p \in Requests, CloseWriter(p) PROVE TypeOK'
  <2>1. pc' \in [Requests -> Labels]
    BY <1>11, MoveTyped DEF CloseWriter, Labels
  <2>2. files' \subseteq Files /\ bytes' \in [Files -> Content]
    BY <1>11, CurrentTyped, ContentFacts, PutTyped DEF CloseWriter, TypeOK
  <2>3. stored' \in [Requests -> Seq(Files)] /\ rest' \in [Requests -> Seq(Parts)]
    BY <1>11, CurrentTyped DEF CloseWriter, TypeOK
  <2>4. package' \in [Requests -> Sources \cup {"none"}]
    BY <1>11 DEF CloseWriter, TypeOK
  <2>5. linked' \in [Requests -> BOOLEAN]
    BY <1>11 DEF CloseWriter, TypeOK
  <2> QED
    BY <1>11, <2>1, <2>2, <2>3, <2>4, <2>5 DEF CloseWriter, TypeOK
<1>12. ASSUME NEW p \in Requests, CloseFails(p) PROVE TypeOK'
  <2>1. CleanupStoredElements(p, Append(stored[p], Current(p)), "failed")
    BY <1>12 DEF CloseFails
  <2>2. Append(stored[p], Current(p)) \in Seq(Files) /\ "failed" \in Answers
    BY <1>12, CurrentTyped DEF CloseFails, Answers, RolledBack
  <2>3. faults' \in 0..MaxFaults
    BY <1>12, FaultTyped DEF CloseFails
  <2>4. files' \subseteq Files /\ bytes' \in [Files -> Content]
    BY <1>12, CurrentTyped, ContentFacts, PutTyped DEF CloseFails, TypeOK
  <2>5. linked' \in [Requests -> BOOLEAN]
    BY <1>12 DEF CloseFails, TypeOK
  <2> QED
    BY <1>12, <2>1, <2>2, <2>3, <2>4, <2>5, CleanupTyped DEF CloseFails, TypeOK
<1>13. ASSUME NEW p \in Requests, OpenArchive(p) PROVE TypeOK'
  <2>1. pc' \in [Requests -> Labels]
    BY <1>13, MoveTyped DEF OpenArchive, Labels
  <2>2. bytes["source.zip"][Chunks] \in Requests
    BY <1>13, ContentFacts DEF OpenArchive, TypeOK, Files, Elements, Sources
  <2>3. src' \in [Requests -> Requests \cup {Nobody}]
        /\ todo' \in [Requests -> SUBSET Manifests]
    BY <1>13, <2>2 DEF OpenArchive, TypeOK
  <2> QED
    BY <1>13, <2>1, <2>3 DEF OpenArchive, TypeOK
<1>14. ASSUME NEW p \in Requests, OpenArchiveFails(p) PROVE TypeOK'
  <2>1. pc' \in [Requests -> Labels]
    BY <1>14, MoveTyped DEF OpenArchiveFails, Labels
  <2>2. faults' \in 0..MaxFaults
    BY <1>14, FaultTyped DEF OpenArchiveFails, TypeOK
  <2> QED
    BY <1>14, <2>1, <2>2 DEF OpenArchiveFails, TypeOK
<1>15. ASSUME NEW p \in Requests, ExtractManifest(p) PROVE TypeOK'
  <2>1. PICK m \in todo[p] : Put(StoredAs(m), Whole(src[p]))
    BY <1>15 DEF ExtractManifest
  <2>2. StoredAs(m) \in Files /\ Whole(src[p]) \in Content
    BY StoredAsTyped, FileFacts, ContentFacts DEF TypeOK
  <2>3. files' \subseteq Files /\ bytes' \in [Files -> Content]
    BY <2>1, <2>2, PutTyped
  <2>4. todo' \in [Requests -> SUBSET Manifests]
    BY <1>15 DEF ExtractManifest, TypeOK
  <2> QED
    BY <1>15, <2>3, <2>4 DEF ExtractManifest, TypeOK
<1>16. ASSUME NEW p \in Requests, ExtractManifestFails(p) PROVE TypeOK'
  <2>1. \/ UNCHANGED storage
        \/ \E m \in todo[p] : Put(StoredAs(m), Empty)
    BY <1>16 DEF ExtractManifestFails
  <2>2. \A m \in todo[p] : StoredAs(m) \in Files
    BY StoredAsTyped, FileFacts DEF TypeOK
  <2>3. files' \subseteq Files /\ bytes' \in [Files -> Content]
    BY <2>1, <2>2, ContentFacts, PutTyped DEF TypeOK
  <2>4. todo' \in [Requests -> SUBSET Manifests]
    <3>1. \E T \in SUBSET Manifests : todo' = [todo EXCEPT ![p] = T]
      BY <1>16 DEF ExtractManifestFails, TypeOK
    <3> QED
      BY <3>1 DEF TypeOK
  <2>5. faults' \in 0..MaxFaults
    BY <1>16, FaultTyped DEF ExtractManifestFails
  <2> QED
    BY <1>16, <2>3, <2>4, <2>5 DEF ExtractManifestFails, TypeOK
<1>17. ASSUME NEW p \in Requests, ArchiveChanged(p) PROVE TypeOK'
  <2>1. todo' \in [Requests -> SUBSET Manifests]
    BY <1>17 DEF ArchiveChanged, TypeOK
  <2> QED
    BY <1>17, <2>1 DEF ArchiveChanged, TypeOK
<1>18. ASSUME NEW p \in Requests, EndExtract(p) PROVE TypeOK'
  <2>1. pc' \in [Requests -> Labels]
    BY <1>18, MoveTyped DEF EndExtract, Labels
  <2>2. src' \in [Requests -> Requests \cup {Nobody}]
    BY <1>18 DEF EndExtract, TypeOK
  <2> QED
    BY <1>18, <2>1, <2>2 DEF EndExtract, TypeOK
<1>19. ASSUME NEW p \in Requests, Accept(p) PROVE TypeOK'
  <2>1. Return(p) /\ \E a \in {"created", "nolocation"} : answer' = [answer EXCEPT ![p] = a]
    BY <1>19 DEF Accept, Stop, Answer
  <2>2. answer' \in [Requests -> Answers]
    BY <2>1 DEF TypeOK, Answers
  <2>3. faults' \in 0..MaxFaults
    BY <1>19, ExistsTyped DEF Accept, TypeOK
  <2> QED
    BY <1>19, <2>1, <2>2, <2>3, ReturnTyped DEF Accept, TypeOK
<1>20. ASSUME NEW p \in Requests, RequiredJsonMissing(p) PROVE TypeOK'
  <2>1. CleanupStoredElements(p, stored[p], "nojson")
    BY <1>20 DEF RequiredJsonMissing
  <2>2. stored[p] \in Seq(Files) /\ "nojson" \in Answers
    BY DEF TypeOK, Answers, RolledBack
  <2>3. faults' \in 0..MaxFaults
    BY <1>20, ExistsTyped DEF RequiredJsonMissing
  <2> QED
    BY <1>20, <2>1, <2>2, <2>3, CleanupTyped DEF RequiredJsonMissing, TypeOK
<1>21. ASSUME NEW p \in Requests, NothingToStore(p) PROVE TypeOK'
  <2>1. Return(p) /\ answer' = [answer EXCEPT ![p] = "nothing"]
    BY <1>21 DEF NothingToStore, Stop, Answer
  <2>2. answer' \in [Requests -> Answers]
    BY <2>1 DEF TypeOK, Answers
  <2> QED
    BY <1>21, <2>1, <2>2, ReturnTyped DEF NothingToStore, TypeOK
<1>22. ASSUME NEW p \in Requests, RemoveNext(p) PROVE TypeOK'
  <2>1. files' \subseteq Files /\ bytes' \in [Files -> Content]
    BY <1>22, ContentFacts DEF RemoveNext, TypeOK
  <2>2. linked' \in [Requests -> BOOLEAN]
    BY <1>22 DEF RemoveNext, TypeOK
  <2>3. stored' \in [Requests -> Seq(Files)]
    BY <1>22 DEF RemoveNext, TypeOK
  <2> QED
    BY <1>22, <2>1, <2>2, <2>3 DEF RemoveNext, TypeOK
<1>23. ASSUME NEW p \in Requests, RemoveFails(p) PROVE TypeOK'
  <2>1. left' \in [Requests -> SUBSET Files]
    BY <1>23 DEF RemoveFails, TypeOK
  <2>2. stored' \in [Requests -> Seq(Files)]
    BY <1>23 DEF RemoveFails, TypeOK
  <2>3. faults' \in 0..MaxFaults
    BY <1>23, FaultTyped DEF RemoveFails
  <2> QED
    BY <1>23, <2>1, <2>2, <2>3 DEF RemoveFails, TypeOK
<1>24. ASSUME NEW p \in Requests, EndCleanup(p) PROVE TypeOK'
  <2>1. Return(p)
    BY <1>24 DEF EndCleanup
  <2> QED
    BY <1>24, <2>1, ReturnTyped DEF EndCleanup, TypeOK
<1>25. CASE Crash
  <2>1. pc' \in [Requests -> Labels] /\ answer' \in [Requests -> Answers]
    BY <1>25 DEF Crash, TypeOK, Labels, Answers
  <2>2. rest' \in [Requests -> Seq(Parts)] /\ stored' \in [Requests -> Seq(Files)]
    BY <1>25 DEF Crash
  <2>3. at' \in [Requests -> 0..Chunks]
    BY <1>25, ChunksAssumption DEF Crash
  <2>4. \A p \in Requests : Range(stored[p]) \subseteq Files
    BY DEF TypeOK, Range
  <2>5. left' \in [Requests -> SUBSET Files]
    BY <1>25, <2>4 DEF Crash, TypeOK
  <2>6. crashes' \in 0..MaxCrashes
    BY <1>25, BoundsAssumption DEF Crash, TypeOK
  <2> QED
    BY <1>25, <2>1, <2>2, <2>3, <2>5, <2>6 DEF Crash, TypeOK
<1>26. CASE UNCHANGED vars
  BY <1>26 DEF vars, TypeOK
<1> QED
  BY <1>1, <1>2, <1>3, <1>4, <1>5, <1>6, <1>7, <1>8, <1>9, <1>10, <1>11, <1>12, <1>13, <1>14, <1>15, <1>16, <1>17, <1>18, <1>19, <1>20, <1>21, <1>22, <1>23, <1>24, <1>25, <1>26
  DEF Next, Handle, Quiet

----------------------------------------------------------------------------
\* What a step of a handler can change.

\* The parts of the step's definition.
LEMMA HandleCases ==
  ASSUME NEW p, Handle(p)
  PROVE  \/ pc[p] \in {"parts", "open", "copy", "unzip", "extract"}
         \/ pc[p] = "cleanup"
  BY DEF Handle, MalformedForm, UnsupportedPart, ElementExists, ElementIsNew,
         OpenWriter, OpenFails, CopyChunk, CopyFails, CloseWriter, CloseFails,
         OpenArchive, OpenArchiveFails, ExtractManifest, ExtractManifestFails,
         ArchiveChanged, EndExtract, Accept, RequiredJsonMissing,
         NothingToStore, RemoveNext, RemoveFails, EndCleanup

\* It leaves the other handlers' variables alone.
LEMMA OthersUnchanged ==
  ASSUME TypeOK, NEW p \in Requests, Handle(p), NEW q \in Requests, q # p
  PROVE  /\ pc'[q] = pc[q] /\ rest'[q] = rest[q] /\ stored'[q] = stored[q]
         /\ package'[q] = package[q] /\ answer'[q] = answer[q]
         /\ rivals' = rivals /\ backend' = backend
<1> USE DEF TypeOK, GoTo, Answer, Return, Stop, CleanupStoredElements, server,
            storage, writer, unzip, history
<1>1. MalformedForm(p) \/ UnsupportedPart(p) \/ ElementExists(p)
        \/ ElementIsNew(p) \/ OpenWriter(p) \/ OpenFails(p)
      => /\ pc'[q] = pc[q] /\ rest'[q] = rest[q] /\ stored'[q] = stored[q]
         /\ package'[q] = package[q] /\ answer'[q] = answer[q]
         /\ rivals' = rivals /\ backend' = backend
  BY DEF MalformedForm, UnsupportedPart, ElementExists, ElementIsNew,
         OpenWriter, OpenFails
<1>2. CopyChunk(p) \/ CopyFails(p) \/ CloseWriter(p) \/ CloseFails(p)
        \/ OpenArchive(p) \/ OpenArchiveFails(p)
      => /\ pc'[q] = pc[q] /\ rest'[q] = rest[q] /\ stored'[q] = stored[q]
         /\ package'[q] = package[q] /\ answer'[q] = answer[q]
         /\ rivals' = rivals /\ backend' = backend
  BY DEF CopyChunk, CopyFails, CloseWriter, CloseFails, OpenArchive,
         OpenArchiveFails
<1>5. ExtractManifest(p) \/ ExtractManifestFails(p) \/ ArchiveChanged(p)
      => /\ pc'[q] = pc[q] /\ rest'[q] = rest[q] /\ stored'[q] = stored[q]
         /\ package'[q] = package[q] /\ answer'[q] = answer[q]
         /\ rivals' = rivals /\ backend' = backend
  BY DEF ExtractManifest, ExtractManifestFails, ArchiveChanged
<1>3. EndExtract(p) \/ RequiredJsonMissing(p)
      => /\ pc'[q] = pc[q] /\ rest'[q] = rest[q] /\ stored'[q] = stored[q]
         /\ package'[q] = package[q] /\ answer'[q] = answer[q]
         /\ rivals' = rivals /\ backend' = backend
  BY DEF EndExtract, RequiredJsonMissing
<1>6. Accept(p)
      => /\ pc'[q] = pc[q] /\ rest'[q] = rest[q] /\ stored'[q] = stored[q]
         /\ package'[q] = package[q] /\ answer'[q] = answer[q]
         /\ rivals' = rivals /\ backend' = backend
  BY DEF Accept
<1>4. NothingToStore(p) \/ RemoveNext(p) \/ RemoveFails(p) \/ EndCleanup(p)
      => /\ pc'[q] = pc[q] /\ rest'[q] = rest[q] /\ stored'[q] = stored[q]
         /\ package'[q] = package[q] /\ answer'[q] = answer[q]
         /\ rivals' = rivals /\ backend' = backend
  BY DEF NothingToStore, RemoveNext, RemoveFails, EndCleanup
<1> QED
  BY <1>1, <1>2, <1>3, <1>4, <1>5, <1>6 DEF Handle

\* Of the elements it changes none but the one being stored, or the next one to
\* be removed.
LEMMA ElementsTouched ==
  ASSUME TypeOK, NEW p \in Requests, Handle(p), NEW f \in Elements,
         pc[p] \in {"open", "copy"} => f # Current(p),
         pc[p] = "cleanup" /\ stored[p] # <<>> => f # Head(stored[p])
  PROVE  (f \in files' <=> f \in files) /\ bytes'[f] = bytes[f]
<1> USE FileFacts DEF TypeOK, Put, storage
<1>1. MalformedForm(p) \/ UnsupportedPart(p) \/ ElementExists(p)
        \/ ElementIsNew(p) \/ OpenFails(p)
      => (f \in files' <=> f \in files) /\ bytes'[f] = bytes[f]
  BY DEF MalformedForm, UnsupportedPart, ElementExists, ElementIsNew, OpenFails
<1>6. ASSUME OpenWriter(p)
      PROVE  (f \in files' <=> f \in files) /\ bytes'[f] = bytes[f]
  <2>1. f # Current(p)
    BY <1>6 DEF OpenWriter
  <2>2. UNCHANGED storage \/ Put(Current(p), Empty)
    BY <1>6 DEF OpenWriter
  <2> QED
    BY <2>1, <2>2
<1>2. CopyChunk(p) \/ CopyFails(p) \/ CloseWriter(p) \/ CloseFails(p)
        \/ OpenArchive(p) \/ OpenArchiveFails(p)
      => (f \in files' <=> f \in files) /\ bytes'[f] = bytes[f]
  BY DEF CopyChunk, CopyFails, CloseWriter, CloseFails, OpenArchive,
         OpenArchiveFails
<1>3. \A m \in todo[p] : StoredAs(m) # f
  <2>1. f \notin Manifests
    BY DEF Elements, Sources, Manifests
  <2> QED
    BY <2>1, StoredAsTyped
<1>4. ArchiveChanged(p) \/ EndExtract(p) \/ Accept(p) \/ RequiredJsonMissing(p)
      => (f \in files' <=> f \in files) /\ bytes'[f] = bytes[f]
  BY DEF ArchiveChanged, EndExtract, Accept, RequiredJsonMissing
<1>7. ExtractManifest(p) => (f \in files' <=> f \in files) /\ bytes'[f] = bytes[f]
  BY <1>3 DEF ExtractManifest
<1>8. ExtractManifestFails(p)
      => (f \in files' <=> f \in files) /\ bytes'[f] = bytes[f]
  BY <1>3 DEF ExtractManifestFails
<1>5. NothingToStore(p) \/ RemoveNext(p) \/ RemoveFails(p) \/ EndCleanup(p)
      => (f \in files' <=> f \in files) /\ bytes'[f] = bytes[f]
  BY DEF NothingToStore, RemoveNext, RemoveFails, EndCleanup
<1> QED
  BY <1>1, <1>2, <1>4, <1>5, <1>6, <1>7, <1>8 DEF Handle

\* It starts to store a part only if Exists has said that it is new.
LEMMA StoringSteps ==
  ASSUME TypeOK, NEW p \in Requests, Handle(p), pc'[p] \in {"open", "copy"}
  PROVE  /\ rest'[p] = rest[p] /\ stored'[p] = stored[p]
         /\ \/ ElementIsNew(p)
            \/ pc[p] \in {"open", "copy"} /\ (OpenWriter(p) \/ CopyChunk(p))
<1> USE DEF TypeOK, GoTo, Answer, Return, Stop, CleanupStoredElements
<1>1. ~(MalformedForm(p) \/ UnsupportedPart(p) \/ ElementExists(p)
          \/ OpenFails(p) \/ CopyFails(p) \/ CloseWriter(p) \/ CloseFails(p))
  BY DEF MalformedForm, UnsupportedPart, ElementExists, OpenFails, CopyFails,
         CloseWriter, CloseFails
<1>2. ~(OpenArchive(p) \/ OpenArchiveFails(p) \/ ExtractManifest(p)
          \/ ExtractManifestFails(p) \/ ArchiveChanged(p) \/ EndExtract(p)
          \/ Accept(p) \/ RequiredJsonMissing(p))
  BY DEF OpenArchive, OpenArchiveFails, ExtractManifest, ExtractManifestFails,
         ArchiveChanged, EndExtract, Accept, RequiredJsonMissing
<1>3. ~(NothingToStore(p) \/ RemoveNext(p) \/ RemoveFails(p) \/ EndCleanup(p))
  BY DEF NothingToStore, RemoveNext, RemoveFails, EndCleanup
<1>4. ElementIsNew(p) \/ OpenWriter(p) \/ CopyChunk(p)
  BY <1>1, <1>2, <1>3 DEF Handle
<1> QED
  BY <1>4 DEF ElementIsNew, OpenWriter, CopyChunk

\* The kinds of step a handler takes, by what they do to its own variables: it
\* goes on, stores an element (CloseWriter), rolls back, removes or returns.
Running == {"parts", "open", "copy", "unzip", "extract"}

GoesOn(p) == /\ pc[p] \in Running
             /\ UNCHANGED pc \/ \E l \in Running : GoTo(p, l)
             /\ UNCHANGED <<stored, package, answer>>

RollsBack(p) ==
  /\ pc[p] \in Running
  /\ \E a \in RolledBack :
       \/ CleanupStoredElements(p, stored[p], a)
       \/ /\ pc[p] \in {"open", "copy"}
          /\ CleanupStoredElements(p, Append(stored[p], Current(p)), a)
  /\ UNCHANGED package

Removes(p) == /\ pc[p] = "cleanup" /\ stored[p] # <<>>
              /\ stored' = [stored EXCEPT ![p] = Tail(@)]
              /\ UNCHANGED <<pc, package, answer>>

Returns(p) == /\ pc[p] \in Running \cup {"cleanup"}
              /\ Return(p)
              /\ pc[p] = "cleanup" => UNCHANGED answer
              /\ pc[p] # "cleanup" =>
                   (answer'[p] = "created" => package[p] # "none")
              /\ UNCHANGED package

\* The steps of a handler by what they do to the archive it has stored: none
\* but the closing of a writer gives it one.
LEMMA HandleKinds ==
  ASSUME TypeOK, NEW p \in Requests, Handle(p)
  PROVE  GoesOn(p) \/ CloseWriter(p) \/ RollsBack(p) \/ Removes(p) \/ Returns(p)
<1> USE DEF Running
<1>1. MalformedForm(p) \/ Accept(p) \/ NothingToStore(p) \/ EndCleanup(p)
      => Returns(p)
  <2> USE DEF TypeOK, Returns, Stop, Answer
  <2>1. MalformedForm(p) => Returns(p)
    BY DEF MalformedForm
  <2>2. Accept(p) => Returns(p)
    BY DEF Accept
  <2>3. NothingToStore(p) => Returns(p)
    BY DEF NothingToStore
  <2>4. EndCleanup(p) => Returns(p)
    BY DEF EndCleanup
  <2> QED
    BY <2>1, <2>2, <2>3, <2>4
<1>2. UnsupportedPart(p) \/ ElementExists(p) \/ RequiredJsonMissing(p)
      => RollsBack(p)
  BY DEF UnsupportedPart, ElementExists, RequiredJsonMissing, RollsBack,
         RolledBack
<1>3. OpenFails(p) \/ CopyFails(p) \/ CloseFails(p) => RollsBack(p)
  BY DEF OpenFails, CopyFails, CloseFails, RollsBack, RolledBack
<1>4. RemoveNext(p) \/ RemoveFails(p) => Removes(p)
  BY DEF RemoveNext, RemoveFails, Removes
<1>5. ElementIsNew(p) \/ OpenWriter(p) \/ CopyChunk(p) \/ OpenArchive(p)
        \/ OpenArchiveFails(p) \/ EndExtract(p)
      => GoesOn(p)
  BY DEF ElementIsNew, OpenWriter, CopyChunk, OpenArchive, OpenArchiveFails,
         EndExtract, GoesOn
<1>6. ExtractManifest(p) \/ ExtractManifestFails(p) \/ ArchiveChanged(p)
      => GoesOn(p)
  BY DEF ExtractManifest, ExtractManifestFails, ArchiveChanged, GoesOn
<1> QED
  BY <1>1, <1>2, <1>3, <1>4, <1>5, <1>6 DEF Handle

\* No step puts an archive into what is stored or to be removed but the one
\* that the handler is storing.
LEMMA StoredSteps ==
  ASSUME TypeOK, Uploading, NEW p \in Requests, Handle(p), NEW f \in Sources,
         pc[p] \in {"open", "copy"} => f # Current(p),
         f \notin Range(stored[p])
  PROVE  f \notin Range(stored'[p])
<1>1. stored[p] \in Seq(Files) /\ DOMAIN stored = Requests
  BY DEF TypeOK
<1>2. ASSUME NEW s \in Seq(Files), f \notin Range(s)
      PROVE  f \notin Range(s \o ExtractedManifests)
  <2>1. ExtractedManifests \in Seq(Manifests) /\ f \notin Manifests
    BY ManifestsRemoved DEF Sources, Manifests
  <2>2. \A i \in 1..Len(ExtractedManifests) : ExtractedManifests[i] # f
    BY <2>1
  <2>3. \A i \in 1..Len(s) : s[i] # f
    BY <1>2 DEF Range
  <2> QED
    BY <2>1, <2>2, <2>3 DEF Range
<1>3. ASSUME NEW g \in Files, g # f PROVE f \notin Range(Append(stored[p], g))
  BY <1>1, <1>3 DEF Range
<1>4. CASE GoesOn(p)
  BY <1>4 DEF GoesOn
<1>5. CASE CloseWriter(p)
  <2>1. pc[p] = "copy" /\ stored'[p] = Append(stored[p], Current(p))
    BY <1>5, <1>1 DEF CloseWriter
  <2> QED
    BY <2>1, <1>3, CurrentTyped
<1>6. CASE RollsBack(p)
  <2>1. \/ stored'[p] = stored[p] \o ExtractedManifests
        \/ /\ pc[p] \in {"open", "copy"}
           /\ stored'[p] = Append(stored[p], Current(p)) \o ExtractedManifests
    BY <1>6, <1>1 DEF RollsBack, CleanupStoredElements
  <2> QED
    BY <2>1, <1>1, <1>2, <1>3, CurrentTyped
<1>7. CASE Removes(p)
  <2>1. stored[p] # <<>> /\ stored'[p] = Tail(stored[p])
    BY <1>7, <1>1 DEF Removes
  <2> QED
    BY <2>1, <1>1 DEF Range
<1>8. CASE Returns(p)
  BY <1>8, <1>1 DEF Returns, Return, Range
<1> QED
  BY <1>4, <1>5, <1>6, <1>7, <1>8, HandleKinds

----------------------------------------------------------------------------
\* The parts of the inductive invariant.

\* A handler that is storing a part goes on having one.
LEMMA UploadingNext == TypeOK /\ Uploading /\ [Next]_vars => Uploading'
<1> SUFFICES ASSUME TypeOK, Uploading, [Next]_vars, NEW q \in Requests,
                    pc'[q] \in {"open", "copy"}
             PROVE  rest'[q] # <<>> /\ Head(rest'[q]) \in Elements
  BY DEF Uploading, Current
<1> USE DEF TypeOK
<1>1. ASSUME NEW p \in Requests, RefuseRequest(p) \/ Receive(p)
      PROVE  p # q /\ pc'[q] = pc[q] /\ rest'[q] = rest[q]
  BY <1>1 DEF RefuseRequest, Receive, Stop, Return, GoTo
<1>2. ASSUME NEW p \in Requests, p # q, Handle(p)
      PROVE  pc'[q] = pc[q] /\ rest'[q] = rest[q]
  BY <1>2, OthersUnchanged
<1>3. ASSUME Handle(q)
      PROVE  rest'[q] # <<>> /\ Head(rest'[q]) \in Elements
  <2>1. rest'[q] = rest[q] /\ (ElementIsNew(q) \/ pc[q] \in {"open", "copy"})
    BY <1>3, StoringSteps
  <2> QED
    BY <2>1 DEF ElementIsNew, Uploading, Current
<1>4. ~Crash
  BY DEF Crash, Active
<1>5. CASE UNCHANGED vars
  BY <1>5 DEF vars, Uploading, Current
<1> QED
  BY <1>1, <1>2, <1>3, <1>4, <1>5 DEF Next, Quiet, Uploading, Current

\* Only handlers that have stored an archive and returned have answered 201.
LEMMA ReturnedNext == TypeOK /\ Returned /\ [Next]_vars => Returned'
<1> SUFFICES ASSUME TypeOK, Returned, [Next]_vars, NEW q \in Requests
             PROVE  /\ answer'[q] = "created" =>
                         pc'[q] = "done" /\ package'[q] # "none"
                    /\ pc'[q] \in {"idle", "done"} => stored'[q] = <<>>
                    /\ pc'[q] = "idle" => package'[q] = "none"
  BY DEF Returned, Published, Active
<1> USE DEF TypeOK, Returned, Published, Active
<1>1. ASSUME NEW p \in Requests, RefuseRequest(p) PROVE q = p =>
        pc'[q] = "done" /\ stored'[q] = <<>>
  BY <1>1 DEF RefuseRequest, Stop, Return, GoTo
<1>2. ASSUME NEW p \in Requests, RefuseRequest(p) PROVE q # p =>
        /\ pc'[q] = pc[q] /\ stored'[q] = stored[q]
        /\ answer'[q] = answer[q] /\ package'[q] = package[q]
  BY <1>2 DEF RefuseRequest, Stop, Return, GoTo, Answer
<1>3. ASSUME NEW p \in Requests, Receive(p) PROVE
        /\ q = p => pc'[q] = "parts"
        /\ q # p => pc'[q] = pc[q]
        /\ UNCHANGED <<stored, package, answer>> /\ pc[p] = "idle"
  BY <1>3 DEF Receive, GoTo
<1>4. ASSUME NEW p \in Requests, p # q, Handle(p)
      PROVE  /\ pc'[q] = pc[q] /\ stored'[q] = stored[q]
             /\ answer'[q] = answer[q] /\ package'[q] = package[q]
  BY <1>4, OthersUnchanged
<1>5. ASSUME Handle(q)
      PROVE  /\ answer'[q] = "created" =>
                  pc'[q] = "done" /\ package'[q] # "none"
             /\ pc'[q] \in {"idle", "done"} => stored'[q] = <<>>
             /\ pc'[q] # "idle"
  <2> USE DEF Running, GoTo
  <2>1. CASE GoesOn(q)
    BY <2>1 DEF GoesOn
  <2>2. CASE CloseWriter(q)
    BY <2>2 DEF CloseWriter
  <2>3. CASE RollsBack(q)
    BY <2>3 DEF RollsBack, CleanupStoredElements, Answer, RolledBack
  <2>4. CASE Removes(q)
    BY <2>4 DEF Removes
  <2>5. CASE Returns(q)
    <3>1. pc'[q] = "done" /\ stored'[q] = <<>> /\ package'[q] = package[q]
      BY <2>5 DEF Returns, Return
    <3>2. answer[q] # "created"
      BY <2>5 DEF Returns
    <3>3. CASE pc[q] = "cleanup"
      BY <2>5, <3>1, <3>2, <3>3 DEF Returns
    <3>4. CASE pc[q] # "cleanup"
      BY <2>5, <3>1, <3>4 DEF Returns
    <3> QED
      BY <3>3, <3>4
  <2> QED
    BY <1>5, <2>1, <2>2, <2>3, <2>4, <2>5, HandleKinds
<1>6. ASSUME Crash
      PROVE  /\ answer'[q] = "created" => answer[q] = "created"
             /\ pc'[q] = "done" \/ pc'[q] = pc[q]
             /\ stored'[q] = <<>> /\ package'[q] = package[q]
  BY <1>6 DEF Crash
<1>7. CASE UNCHANGED vars
  BY <1>7 DEF vars
<1>8. ASSUME NEW p \in Requests, RefuseRequest(p)
      PROVE  answer'[p] # "created"
  BY <1>8 DEF RefuseRequest, Stop, Answer
<1> QED
  BY <1>1, <1>2, <1>3, <1>4, <1>5, <1>6, <1>7, <1>8 DEF Next, Quiet

\* Requests in flight together know of each other.
LEMMA MetNext == TypeOK /\ Met /\ [Next]_vars => Met'
<1> SUFFICES ASSUME TypeOK, Met, [Next]_vars,
                    NEW p \in Requests, NEW q \in Requests, p # q,
                    pc'[p] \notin {"idle", "done"}, pc'[q] \notin {"idle", "done"}
             PROVE  q \in rivals'[p]
  BY DEF Met, Active
<1> USE DEF TypeOK, Met, Active
<1>1. ASSUME NEW r \in Requests, RefuseRequest(r) PROVE q \in rivals'[p]
  BY <1>1 DEF RefuseRequest, Stop, Return, GoTo, history
<1>2. ASSUME NEW r \in Requests, Receive(r) PROVE q \in rivals'[p]
  <2>1. \A s \in Requests \ {r} : pc'[s] = pc[s]
    BY <1>2 DEF Receive, GoTo
  <2>2. rivals'[p] = IF p = r THEN InFlight
                     ELSE IF Active(p) THEN rivals[p] \cup {r} ELSE rivals[p]
    BY <1>2 DEF Receive
  <2> QED
    BY <2>1, <2>2 DEF InFlight
<1>3. ASSUME NEW r \in Requests, Handle(r) PROVE q \in rivals'[p]
  <2>1. \A s \in Requests \ {r} : pc'[s] = pc[s]
    BY <1>3, OthersUnchanged
  <2>2. Active(r) /\ rivals' = rivals
    <3>1. Active(r)
      BY <1>3, HandleCases
    <3>2. rivals' = rivals
      BY <1>3, OthersUnchanged
    <3> QED
      BY <3>1, <3>2
  <2> QED
    BY <2>1, <2>2
<1>4. ~Crash
  BY DEF Crash
<1>5. CASE UNCHANGED vars
  BY <1>5 DEF vars, history
<1> QED
  BY <1>1, <1>2, <1>3, <1>4, <1>5 DEF Next, Quiet

\* A handler on its own is disturbed by no other handler's step, nor by a
\* request that arrives.
LEMMA NotDisturbed ==
  ASSUME TypeOK, Met, NEW p \in Requests, NEW q \in Requests, p # q,
         Active(q), Handle(p) \/ Receive(p)
  PROVE  rivals'[q] # {}
<1>1. ASSUME Handle(p) PROVE rivals'[q] # {}
  <2>1. Active(p)
    BY <1>1, HandleCases DEF Active
  <2>2. rivals' = rivals
    BY <1>1, OthersUnchanged
  <2> QED
    BY <2>1, <2>2 DEF Met
<1>2. ASSUME Receive(p) PROVE rivals'[q] # {}
  BY <1>2 DEF Receive, TypeOK
<1> QED
  BY <1>1, <1>2

\* A publish on its own finds in the file what it has copied.
LEMMA CopiedAloneNext ==
  TypeOK /\ Uploading /\ Met /\ CopiedAlone /\ [Next]_vars => CopiedAlone'
<1> SUFFICES ASSUME TypeOK, Uploading, Met, CopiedAlone, [Next]_vars,
                    NEW q \in Requests,
                    pc'[q] = "copy", rivals'[q] = {}, backend' = "file"
             PROVE  /\ linked'[q] /\ Head(rest'[q]) \in files'
                    /\ bytes'[Head(rest'[q])] = Prefix(q, at'[q])
  BY DEF CopiedAlone, Alone, Buffered, Current, Prefix
<1> USE DEF TypeOK
<1>1. ASSUME NEW p \in Requests, RefuseRequest(p)
      PROVE  /\ p # q /\ pc'[q] = pc[q] /\ rest'[q] = rest[q] /\ at'[q] = at[q]
             /\ UNCHANGED <<linked, rivals, backend, files, bytes>>
  BY <1>1 DEF RefuseRequest, Stop, Return, GoTo, server, storage, history
<1>2. ASSUME NEW p \in Requests, Receive(p) PROVE FALSE
  <2>1. p # q /\ pc'[q] = pc[q]
    BY <1>2 DEF Receive, GoTo
  <2> QED
    BY <1>2, <2>1, NotDisturbed DEF Active
<1>3. ASSUME NEW p \in Requests, Handle(p) PROVE p = q
  <2> SUFFICES ASSUME p # q PROVE FALSE
    OBVIOUS
  <2>1. pc'[q] = pc[q]
    BY <1>3, OthersUnchanged
  <2> QED
    BY <1>3, <2>1, NotDisturbed DEF Active
<1>4. ASSUME Handle(q)
      PROVE  /\ linked'[q] /\ Head(rest'[q]) \in files'
             /\ bytes'[Head(rest'[q])] = Prefix(q, at'[q])
  <2>1. pc[q] \in {"open", "copy"} /\ (OpenWriter(q) \/ CopyChunk(q))
    BY <1>4, StoringSteps DEF ElementIsNew, GoTo
  <2>2. Current(q) \in Files
    BY <2>1, CurrentTyped
  <2>3. CASE OpenWriter(q)
    <3>1. backend = "file"
      BY <2>3 DEF OpenWriter, server
    <3>2. Put(Current(q), Empty) /\ at'[q] = 0 /\ linked'[q] /\ rest' = rest
      BY <2>3, <3>1 DEF OpenWriter, Buffered
    <3>3. Empty = Prefix(q, 0)
      BY ChunksAssumption DEF Empty, Prefix
    <3> QED
      BY <2>2, <3>2, <3>3 DEF Put, Current
  <2>4. CASE CopyChunk(q)
    <3>1. backend = "file" /\ pc[q] = "copy" /\ rivals[q] = {}
      BY <2>4 DEF CopyChunk, server, history
    <3>2. /\ linked[q] /\ Current(q) \in files
          /\ bytes[Current(q)] = Prefix(q, at[q])
      BY <3>1 DEF CopiedAlone, Alone, Buffered
    <3>3. /\ bytes'[Current(q)] = [bytes[Current(q)] EXCEPT ![at[q] + 1] = q]
          /\ at'[q] = at[q] + 1
          /\ UNCHANGED <<linked, files, rest>>
      BY <2>2, <2>4, <3>2 DEF CopyChunk
    <3>4. [Prefix(q, at[q]) EXCEPT ![at[q] + 1] = q] = Prefix(q, at[q] + 1)
      <4>1. at[q] \in Nat
        BY ChunksAssumption
      <4> QED
        BY <4>1, PrefixGrows
    <3> QED
      BY <3>2, <3>3, <3>4 DEF Current
  <2> QED
    BY <2>1, <2>3, <2>4
<1>5. ~Crash
  BY DEF Crash, Active
<1>6. CASE UNCHANGED vars
  BY <1>6 DEF vars, server, storage, writer, history, CopiedAlone, Alone,
              Buffered, Current
<1>7. ASSUME NEW p \in Requests, RefuseRequest(p)
      PROVE  /\ linked'[q] /\ Head(rest'[q]) \in files'
             /\ bytes'[Head(rest'[q])] = Prefix(q, at'[q])
  BY <1>1, <1>7 DEF CopiedAlone, Alone, Buffered, Current
<1> QED
  BY <1>2, <1>3, <1>4, <1>5, <1>6, <1>7 DEF Next, Quiet

\* A publish that still claims its archive after a step of its own claimed it
\* before, or has just closed the archive's writer.
LEMMA ClaimedBefore ==
  ASSUME TypeOK, Returned, NEW q \in Requests, Handle(q),
         rivals'[q] = {}, package'[q] # "none",
         pc'[q] \in Running \/ answer'[q] = "created"
  PROVE  \/ Claims(q) /\ package'[q] = package[q] /\ pc[q] \in Running
         \/ CloseWriter(q) /\ package'[q] = Current(q) /\ Current(q) \in Sources
<1> USE DEF TypeOK, Running
<1>1. rivals[q] = {}
  BY DEF Handle, MalformedForm, UnsupportedPart, ElementExists, ElementIsNew,
         OpenWriter, OpenFails, CopyChunk, CopyFails, CloseWriter, CloseFails,
         OpenArchive, OpenArchiveFails, ExtractManifest, ExtractManifestFails,
         ArchiveChanged, EndExtract, Accept, RequiredJsonMissing,
         NothingToStore, RemoveNext, RemoveFails, EndCleanup, history
<1>2. pc[q] # "done" /\ answer[q] # "created"
  BY HandleCases DEF Returned, Published
<1>3. CASE GoesOn(q)
  BY <1>1, <1>3 DEF GoesOn, Claims, Alone
<1>4. CASE CloseWriter(q)
  BY <1>1, <1>4 DEF CloseWriter, Claims, Alone
<1>5. ~RollsBack(q)
  BY DEF RollsBack, CleanupStoredElements, Answer, GoTo, RolledBack
<1>6. ~Removes(q)
  BY <1>2 DEF Removes
<1>7. CASE Returns(q)
  BY <1>1, <1>2, <1>7 DEF Returns, Return, GoTo, Claims, Alone
<1> QED
  BY <1>3, <1>4, <1>5, <1>6, <1>7, HandleKinds

\* What Kept says of p's archive g.
Safe(p, g) ==
  /\ g \in files /\ bytes[g] = Whole(p)
  /\ \A q \in Requests :
       /\ pc[q] \in {"open", "copy"} => Head(rest[q]) # g
       /\ q # p => g \notin Range(stored[q])

\* Kept, archive by archive.
LEMMA KeptSafe ==
  ASSUME Kept, NEW p \in Requests, Claims(p) PROVE Safe(p, package[p])
  BY DEF Kept, Safe, Current

\* Exists misses no file in a step: its HEAD cannot fail, or no call does.
NoneMissed == "head" \notin FaultKinds \/ UNCHANGED faults

\* An archive that is safe stays safe when another handler takes a step in which
\* Exists misses no file.
LEMMA SafeFromOthers ==
  ASSUME TypeOK, Uploading, NoneMissed,
         NEW p \in Requests, NEW q \in Requests, Handle(p), NEW g \in Sources,
         Safe(q, g), p = q => pc[p] \in Running
  PROVE  Safe(q, g)'
<1>1. pc[p] \in {"open", "copy"} => g # Current(p)
  BY DEF Safe, Current
<1>2. pc[p] = "cleanup" /\ stored[p] # <<>> => g # Head(stored[p])
  <2> SUFFICES ASSUME pc[p] = "cleanup", stored[p] # <<>>
               PROVE  g # Head(stored[p])
    OBVIOUS
  <2>1. g \notin Range(stored[p])
    BY DEF Safe, Running
  <2> QED
    BY <2>1 DEF TypeOK, Range
<1>3. g \in files' /\ bytes'[g] = Whole(q)
  BY <1>1, <1>2, ElementsTouched, FileFacts DEF Safe
<1>4. ASSUME NEW r \in Requests, pc'[r] \in {"open", "copy"}
      PROVE  Head(rest'[r]) # g
  <2>1. CASE r # p
    BY <1>4, <2>1, OthersUnchanged DEF Safe
  <2>2. CASE r = p
    <3>1. rest'[p] = rest[p] /\ (ElementIsNew(p) \/ pc[p] \in {"open", "copy"})
      BY <1>4, <2>2, StoringSteps
    <3>2. ASSUME ElementIsNew(p) PROVE Current(p) # g
      BY <3>2, BoundsAssumption
      DEF ElementIsNew, Exists, Fault, Safe, NoneMissed, TypeOK
    <3> QED
      BY <1>1, <2>2, <3>1, <3>2 DEF Current
  <2> QED
    BY <2>1, <2>2
<1>5. ASSUME NEW r \in Requests, r # q PROVE g \notin Range(stored'[r])
  <2>1. CASE r # p
    BY <1>5, <2>1, OthersUnchanged DEF Safe
  <2>2. CASE r = p
    BY <1>1, <1>5, <2>2, StoredSteps DEF Safe
  <2> QED
    BY <2>1, <2>2
<1> QED
  BY <1>3, <1>4, <1>5 DEF Safe, Whole, Prefix

\* An archive whose writer its handler, on its own, has just closed is safe.
LEMMA SafeWhenClosed ==
  ASSUME TypeOK, Uploading, Returned, Met, CopiedAlone, NEW q \in Requests,
         CloseWriter(q), rivals'[q] = {},
         NEW g \in Sources, g = Current(q)
  PROVE  Safe(q, g)'
<1> USE DEF TypeOK
<1>1. /\ pc[q] = "copy" /\ at[q] = Chunks /\ rivals[q] = {}
      /\ pc'[q] \in {"unzip", "parts"}
      /\ \A r \in Requests \ {q} :
           pc'[r] = pc[r] /\ rest'[r] = rest[r] /\ stored'[r] = stored[r]
  BY DEF CloseWriter, GoTo, history
<1>2. g \in files' /\ bytes'[g] = Whole(q)
  <2>1. CASE Buffered
    BY <2>1, FileFacts DEF CloseWriter, Put
  <2>2. CASE ~Buffered
    BY <1>1, <2>2 DEF CloseWriter, storage, CopiedAlone, Alone, Whole
  <2> QED
    BY <2>1, <2>2
<1>3. \A r \in Requests \ {q} : ~Active(r)
  BY <1>1 DEF Met, Active
<1>4. ASSUME NEW r \in Requests, pc'[r] \in {"open", "copy"} PROVE FALSE
  BY <1>1, <1>3, <1>4 DEF Active
<1>5. ASSUME NEW r \in Requests, r # q PROVE g \notin Range(stored'[r])
  <2>1. stored'[r] = <<>>
    BY <1>1, <1>3, <1>5 DEF Returned
  <2> QED
    BY <2>1 DEF Range
<1> QED
  BY <1>2, <1>4, <1>5 DEF Safe, Whole, Prefix

\* A step in which every handler stands still, returns, or begins, and storage
\* does not change, leaves an archive that is safe as it is.
LEMMA SafeAtRest ==
  ASSUME NEW q \in Requests, NEW g, Safe(q, g), UNCHANGED storage,
         \A r \in Requests :
            /\ pc'[r] \in {"open", "copy"} => UNCHANGED <<pc[r], rest[r]>>
            /\ stored'[r] \in {stored[r], <<>>}
  PROVE  Safe(q, g)'
  BY DEF Safe, storage, Range, Whole, Prefix

\* What a publish on its own has stored and not given up stays whole.
LEMMA KeptNext ==
  NoneMissed /\ TypeOK /\ Uploading /\ Returned /\ Met /\ CopiedAlone /\ Kept
    /\ [Next]_vars => Kept'
<1> SUFFICES ASSUME NoneMissed,
                    TypeOK, Uploading, Returned, Met, CopiedAlone, Kept,
                    [Next]_vars,
                    NEW q \in Requests, rivals'[q] = {}, package'[q] # "none",
                    pc'[q] \in Running \/ answer'[q] = "created"
             PROVE  \E g \in Sources : g = package'[q] /\ Safe(q, g)'
  <2>1. \A q \in Requests : Claims(q)' =>
          /\ rivals'[q] = {} /\ package'[q] # "none"
          /\ pc'[q] \in Running \/ answer'[q] = "created"
    BY DEF Claims, Alone, Published, Running
  <2>2. ASSUME NEW q \in Requests, NEW g \in Sources, g = package'[q], Safe(q, g)'
        PROVE  /\ package'[q] \in files' /\ bytes'[package'[q]] = Whole(q)
               /\ \A r \in Requests :
                    /\ pc'[r] \in {"open", "copy"} => Head(rest'[r]) # package'[q]
                    /\ r # q => package'[q] \notin Range(stored'[r])
    BY <2>2 DEF Safe, Whole, Prefix
  <2> QED
    BY <2>1, <2>2 DEF Kept, Current, Whole, Prefix
<1>1. package[q] \in Sources \cup {"none"}
  BY DEF TypeOK
<1>2. ASSUME Claims(q), package'[q] = package[q],
             \A r \in Requests :
                /\ pc'[r] \in {"open", "copy"} => UNCHANGED <<pc[r], rest[r]>>
                /\ stored'[r] \in {stored[r], <<>>},
             UNCHANGED storage
      PROVE  \E g \in Sources : g = package'[q] /\ Safe(q, g)'
  <2>1. PICK g \in Sources : g = package[q]
    BY <1>1, <1>2 DEF Claims
  <2>2. Safe(q, g)
    BY <1>2, <2>1, KeptSafe
  <2>3. Safe(q, g)'
    BY <1>2, <2>2, SafeAtRest
  <2> QED
    BY <1>2, <2>1, <2>3
<1>3. ASSUME NEW p \in Requests, Handle(p)
      PROVE  \E g \in Sources : g = package'[q] /\ Safe(q, g)'
  <2>1. CASE p = q /\ ~(Claims(q) /\ package'[q] = package[q] /\ pc[q] \in Running)
    <3>1. CloseWriter(q) /\ package'[q] = Current(q) /\ Current(q) \in Sources
      BY <1>3, <2>1, ClaimedBefore
    <3>2. PICK g \in Sources : g = Current(q)
      BY <3>1
    <3>3. Safe(q, g)'
      BY <3>1, <3>2, SafeWhenClosed
    <3> QED
      BY <3>1, <3>2, <3>3
  <2>2. CASE p = q => Claims(q) /\ package'[q] = package[q] /\ pc[q] \in Running
    <3>1. Claims(q) /\ package'[q] = package[q]
      <4>1. CASE p = q
        BY <2>2, <4>1
      <4>2. CASE p # q
        BY <1>3, <4>2, OthersUnchanged DEF Claims, Alone, Published, Running
      <4> QED
        BY <4>1, <4>2
    <3>2. PICK g \in Sources : g = package[q]
      BY <1>1, <3>1 DEF Claims
    <3>3. Safe(q, g)
      BY <3>1, <3>2, KeptSafe
    <3>4. Safe(q, g)'
      BY <1>3, <2>2, <3>3, SafeFromOthers
    <3> QED
      BY <3>1, <3>2, <3>4
  <2> QED
    BY <2>1, <2>2
<1>4. ASSUME NEW p \in Requests, Receive(p)
      PROVE  \E g \in Sources : g = package'[q] /\ Safe(q, g)'
  <2>1. /\ UNCHANGED <<package, stored, answer>> /\ UNCHANGED storage
        /\ pc[p] = "idle" /\ pc'[p] = "parts"
        /\ \A r \in Requests \ {p} : pc'[r] = pc[r] /\ rest'[r] = rest[r]
    BY <1>4 DEF Receive, GoTo, TypeOK, storage
  <2>2. p # q
    BY <2>1 DEF Returned
  <2>3. ~Active(q)
    BY <1>4, <2>2, NotDisturbed
  <2>4. rivals'[q] = rivals[q]
    BY <1>4, <2>2, <2>3 DEF Receive
  <2>5. Claims(q)
    BY <2>1, <2>2, <2>4 DEF Claims, Alone, Published, Running
  <2> QED
    BY <1>2, <2>1, <2>5
<1>5. ASSUME NEW p \in Requests, RefuseRequest(p)
      PROVE  \E g \in Sources : g = package'[q] /\ Safe(q, g)'
  <2>1. /\ UNCHANGED <<package, rivals>> /\ UNCHANGED storage
        /\ pc[p] = "idle" /\ pc'[p] = "done" /\ stored'[p] = <<>>
        /\ \A r \in Requests \ {p} :
             /\ pc'[r] = pc[r] /\ rest'[r] = rest[r] /\ stored'[r] = stored[r]
             /\ answer'[r] = answer[r]
    BY <1>5 DEF RefuseRequest, Stop, Return, GoTo, Answer, TypeOK, storage, history
  <2>2. p # q
    BY <2>1 DEF Returned
  <2>3. Claims(q)
    BY <2>1, <2>2 DEF Claims, Alone, Published, Running
  <2> QED
    BY <1>2, <2>1, <2>3
<1>6. ASSUME Crash
      PROVE  \E g \in Sources : g = package'[q] /\ Safe(q, g)'
  <2>1. /\ UNCHANGED <<package, rivals>> /\ UNCHANGED storage
        /\ \A r \in Requests :
             /\ pc'[r] \notin Running /\ stored'[r] = <<>>
             /\ answer'[r] = "created" => answer[r] = "created"
    BY <1>6 DEF Crash, Active, Running
  <2>2. Claims(q)
    BY <2>1 DEF Claims, Alone, Published
  <2> QED
    BY <1>2, <2>1, <2>2 DEF Running
<1>7. CASE UNCHANGED vars
  <2>1. Claims(q)
    BY <1>7 DEF vars, history, Claims, Alone, Published, Running
  <2> QED
    BY <1>2, <1>7, <2>1 DEF vars
<1> QED
  BY <1>3, <1>4, <1>5, <1>6, <1>7 DEF Next, Quiet

----------------------------------------------------------------------------
\* Type correctness: in every reachable state of the publish endpoint every
\* variable has its type, and a handler that is storing a part has one.
THEOREM TypeCorrect == Spec => []TypeOK
<1>1. Init => TypeOK /\ Uploading
  BY TypedInit
<1>2. (TypeOK /\ Uploading) /\ [Next]_vars => (TypeOK /\ Uploading)'
  BY TypedNext, UploadingNext
<1> QED
  BY <1>1, <1>2, PTL DEF Spec

\* If Exists never misses a file that is there, a publish that ran alone and was
\* answered 201 is served from then on, whole and unchanged, whatever other
\* publishes, faults and crashes follow (publish.go:145-151, 214-250).
THEOREM AcceptedStays ==
  "head" \notin FaultKinds => (Spec => []AcceptedAloneIsServed)
<1> SUFFICES ASSUME "head" \notin FaultKinds PROVE Spec => []AcceptedAloneIsServed
  OBVIOUS
<1>1. Init => IInv
  <2> SUFFICES ASSUME Init PROVE IInv
    OBVIOUS
  <2>1. TypeOK /\ Uploading
    BY TypedInit
  <2>2. Returned /\ Met /\ CopiedAlone /\ Kept
    BY DEF Init, Returned, Met, CopiedAlone, Kept, Claims, Published, Active
  <2> QED
    BY <2>1, <2>2 DEF IInv
<1>2. IInv /\ [Next]_vars => IInv'
  BY TypedNext, UploadingNext, ReturnedNext, MetNext, CopiedAloneNext, KeptNext
  DEF IInv, NoneMissed
<1>3. IInv => AcceptedAloneIsServed
  <2> SUFFICES ASSUME IInv, NEW p \in Requests, Published(p), Alone(p)
               PROVE  package[p] \in files /\ bytes[package[p]] = Whole(p)
    BY DEF AcceptedAloneIsServed
  <2>1. package[p] # "none"
    BY DEF IInv, Returned
  <2> QED
    BY <2>1 DEF IInv, Kept, Claims
<1> QED
  BY <1>1, <1>2, <1>3, PTL DEF Spec
=============================================================================
