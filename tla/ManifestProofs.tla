---------------------------- MODULE ManifestProofs ----------------------------
(***************************************************************************)
(* Proofs about the manifests the publish endpoint extracts beside the     *)
(* source archive and removes with it, for every value of Publish's        *)
(* constants, and that Publish implements ReleaseRegistry when publishes   *)
(* do not overlap.                                                         *)
(***************************************************************************)
EXTENDS RollbackProofs, FiniteSetTheorems

----------------------------------------------------------------------------
\* Exists has missed no file: its HEAD cannot fail, or no call has failed.
NeverMissed == "head" \notin FaultKinds \/ faults = 0

\* The manifests the cleanup removes: on Maven, not the alternates.
Removable == Range(ExtractedManifests)

\* The cleanup removes an archive before its manifests.
ManifestsFollow ==
  \A p \in Requests : pc[p] = "cleanup" =>
     \A i \in 1..Len(stored[p]) : stored[p][i] \in Elements =>
        \A m \in Removable : \E j \in (i + 1)..Len(stored[p]) : stored[p][j] = m

\* A handler that extracts has stored its archive, and on its own it is its own
\* archive that it has opened.
Unzipping ==
  \A p \in Requests :
    /\ pc[p] \in {"unzip", "extract"} => package[p] = "source.zip"
    /\ pc[p] = "extract" /\ Alone(p) /\ NeverMissed =>
         src[p] = p /\ todo[p] \subseteq zip[p]

\* Who writes an archive, when nothing has been disturbed, finds no manifests.
Fresh ==
  NeverMissed /\ Undisturbed =>
    \A p \in Requests : pc[p] \in {"open", "copy"} /\ Current(p) = "source.zip" =>
       Removable \cap files = {}

\* Nothing having been disturbed, a manifest is the archive's, or is going to be
\* removed.
Matched ==
  NeverMissed /\ Undisturbed =>
    \A m \in Removable \cap files :
       \/ "source.zip" \in files /\ bytes[m] \in {Empty, bytes["source.zip"]}
       \/ \E p \in Requests : pc[p] = "cleanup" /\ m \in Range(stored[p])

\* No call having failed, a manifest was in the archive of whoever wrote it.
Extracted ==
  faults = 0 /\ Undisturbed =>
    \A m \in Manifests \cap files : \E r \in Requests :
       /\ pc[r] # "idle" /\ bytes[m] = Whole(r)
       /\ \E e \in zip[r] : StoredAs(e) = m

\* Every manifest there is has been extracted.
Named == Manifests \cap files \subseteq Extractable

\* A request that has not arrived has met no other.
Unmet == \A p \in Requests : pc[p] = "idle" => rivals[p] = {}

LEMMA UnmetNext == TypeOK /\ Unmet /\ [Next]_vars => Unmet'
<1> SUFFICES ASSUME TypeOK, Unmet, [Next]_vars, NEW q \in Requests, pc'[q] = "idle"
             PROVE  rivals'[q] = {}
  BY DEF Unmet
<1> USE DEF TypeOK
<1>1. ASSUME NEW p \in Requests, Handle(p) PROVE pc[q] = "idle" /\ rivals' = rivals
  <2>1. pc'[p] # "idle"
    <3>1. GoesOn(p) \/ CloseWriter(p) \/ RollsBack(p) => pc'[p] # "idle"
      BY DEF GoesOn, CloseWriter, RollsBack, CleanupStoredElements, GoTo, Running
    <3>2. Removes(p) \/ EndCleanup(p) \/ Return(p) => pc'[p] # "idle"
      BY DEF Removes, EndCleanup, Return, GoTo
    <3> QED
      BY <1>1, <3>1, <3>2, AnswerSteps
  <2>2. rivals' = rivals
    BY <1>1, RivalsSteps
  <2> QED
    BY <1>1, <2>1, <2>2, OthersUnchanged
<1>2. ASSUME NEW p \in Requests, RefuseRequest(p) \/ Receive(p)
      PROVE  pc[q] = "idle" /\ rivals'[q] = rivals[q]
  BY <1>2 DEF RefuseRequest, Receive, Stop, Return, GoTo, Active, history
<1>3. Crash => pc[q] = "idle" /\ rivals' = rivals
  BY DEF Crash, Active
<1>4. UNCHANGED vars => pc[q] = "idle" /\ rivals' = rivals
  BY DEF vars, history
<1> QED
  BY <1>1, <1>2, <1>3, <1>4 DEF Next, Quiet, Unmet

\* What has been missed or disturbed stays so.
LEMMA UndisturbedBefore ==
  ASSUME TypeOK, Unmet, [Next]_vars
  PROVE  /\ NeverMissed' => NeverMissed /\ NoneMissed
         /\ faults' = 0 => faults = 0
         /\ Undisturbed' => Undisturbed
         /\ \A p \in Requests : Alone(p)' => Alone(p)
<1> USE DEF TypeOK
<1>1. faults' = faults \/ faults' = faults + 1
  <2>1. ASSUME NEW p \in Requests, Handle(p)
        PROVE  faults' = faults \/ faults' = faults + 1
    BY <2>1 DEF Handle, MalformedForm, UnsupportedPart, ElementExists,
       ElementIsNew, OpenWriter, OpenFails, CopyChunk, CopyFails, CloseWriter,
       CloseFails, OpenArchive, OpenArchiveFails, ExtractManifest,
       ExtractManifestFails, ArchiveChanged, EndExtract, Accept,
       RequiredJsonMissing, NothingToStore, RemoveNext, RemoveFails, EndCleanup,
       Exists, Fault
  <2> QED
    BY <2>1 DEF Next, RefuseRequest, Receive, Crash, Quiet, vars
<1>2. faults \in Nat
  BY BoundsAssumption
<1>3. \A p \in Requests : rivals[p] \subseteq rivals'[p] /\ left[p] \subseteq left'[p]
  <2>1. ASSUME NEW p \in Requests, Handle(p), NEW q \in Requests
        PROVE  rivals[q] \subseteq rivals'[q] /\ left[q] \subseteq left'[q]
    <3>1. rivals' = rivals
      BY <2>1, RivalsSteps
    <3> QED
      BY <2>1, <3>1, LeftSteps
  <2>2. ASSUME NEW p \in Requests, Receive(p), NEW q \in Requests
        PROVE  rivals[q] \subseteq rivals'[q] /\ left[q] \subseteq left'[q]
    <3>1. CASE q # p
      BY <2>2, <3>1 DEF Receive
    <3>2. CASE q = p
      BY <2>2, <3>2 DEF Receive, Unmet
    <3> QED
      BY <3>1, <3>2
  <2>3. ASSUME NEW p \in Requests, RefuseRequest(p), NEW q \in Requests
        PROVE  rivals[q] \subseteq rivals'[q] /\ left[q] \subseteq left'[q]
    BY <2>3 DEF RefuseRequest
  <2>4. ASSUME Crash, NEW q \in Requests
        PROVE  rivals[q] \subseteq rivals'[q] /\ left[q] \subseteq left'[q]
    BY <2>4 DEF Crash
  <2>5. UNCHANGED vars => UNCHANGED <<left, rivals>>
    BY DEF vars, history
  <2> QED
    BY <2>1, <2>2, <2>3, <2>4, <2>5 DEF Next, Quiet
<1>4. (\A p \in Requests : Alone(p)' => Alone(p)) /\ (Undisturbed' => Undisturbed)
  <2>1. \A p \in Requests : rivals'[p] = {} => rivals[p] = {}
    BY <1>3
  <2>2. \A p \in Requests : left'[p] = {} => left[p] = {}
    BY <1>3
  <2> QED
    BY <2>1, <2>2 DEF Alone, Undisturbed
<1> QED
  BY <1>1, <1>2, <1>4 DEF NeverMissed, NoneMissed

\* When nothing is disturbed, the handler that takes a step is the only one in
\* flight, and it removes what it sets out to remove.
LEMMA LoneHandler ==
  ASSUME TypeOK, Met, Unmet, [Next]_vars, NEW p \in Requests, Handle(p),
         Undisturbed'
  PROVE  /\ Undisturbed /\ Alone(p) /\ ~RemoveFails(p)
         /\ \A q \in Requests : Active(q) => q = p
<1>1. Undisturbed
  BY UndisturbedBefore
<1>2. ~RemoveFails(p)
  <2>1. RemoveFails(p) => left'[p] # {}
    <3>1. left \in [Requests -> SUBSET Files]
      BY DEF TypeOK
    <3> QED
      BY <3>1 DEF RemoveFails
  <2> QED
    BY <2>1 DEF Undisturbed
<1>3. ASSUME NEW q \in Requests, Active(q), q # p PROVE FALSE
  <2>1. rivals'[q] # {}
    BY <1>3, NotDisturbed
  <2> QED
    BY <2>1 DEF Undisturbed, Alone
<1> QED
  BY <1>1, <1>2, <1>3 DEF Undisturbed

\* Nor does a request arrive while another is in flight.
LEMMA LoneArrival ==
  ASSUME TypeOK, Met, NEW p \in Requests, Receive(p), Undisturbed',
         NEW q \in Requests
  PROVE  ~Active(q)
<1> SUFFICES ASSUME Active(q) PROVE FALSE
  OBVIOUS
<1>1. q # p
  BY DEF Receive, Active
<1>2. rivals'[q] # {}
  BY <1>1, NotDisturbed
<1> QED
  BY <1>2 DEF Undisturbed, Alone

\* Of the manifests, a handler changes the one it extracts, which is then as in
\* the archive or, after a fault, empty, and the one it removes.
LEMMA ManifestsTouched ==
  ASSUME TypeOK, Uploading, NEW p \in Requests, Handle(p), NEW m \in Manifests,
         m \in files'
  PROVE  \/ m \in files /\ bytes'[m] = bytes[m] /\ (RemoveNext(p) => m # Head(stored[p]))
         \/ /\ pc[p] = "extract" /\ \E e \in todo[p] : StoredAs(e) = m
            /\ bytes'[m] \in {Empty, Whole(src[p])}
            /\ UNCHANGED faults => bytes'[m] = Whole(src[p])
<1> USE FileFacts DEF TypeOK, Put, storage
<1>0. pc[p] \in {"open", "copy"} => m # Current(p)
  <2>1. m \notin Elements
    BY DEF Manifests, Elements, Sources
  <2> QED
    BY <2>1 DEF Uploading
<1>1. MalformedForm(p) \/ UnsupportedPart(p) \/ ElementExists(p)
        \/ ElementIsNew(p) \/ OpenFails(p)
      => m \in files /\ bytes'[m] = bytes[m]
  BY DEF MalformedForm, UnsupportedPart, ElementExists, ElementIsNew, OpenFails
<1>2. ASSUME OpenWriter(p)
      PROVE  m \in files /\ bytes'[m] = bytes[m]
  <2>1. m # Current(p)
    BY <1>0, <1>2 DEF OpenWriter
  <2>2. UNCHANGED storage \/ Put(Current(p), Empty)
    BY <1>2 DEF OpenWriter
  <2> QED
    BY <1>2, <2>1, <2>2 DEF OpenWriter
<1>3. CopyChunk(p) \/ CopyFails(p) \/ CloseWriter(p) \/ CloseFails(p)
        \/ OpenArchive(p) \/ OpenArchiveFails(p)
      => m \in files /\ bytes'[m] = bytes[m]
  BY <1>0 DEF CopyChunk, CopyFails, CloseWriter, CloseFails, OpenArchive,
         OpenArchiveFails
<1>4. ASSUME ExtractManifest(p)
      PROVE  \/ m \in files /\ bytes'[m] = bytes[m]
             \/ /\ pc[p] = "extract" /\ \E e \in todo[p] : StoredAs(e) = m
                /\ bytes'[m] = Whole(src[p])
  <2>1. PICK n \in todo[p] : Put(StoredAs(n), Whole(src[p]))
    BY <1>4 DEF ExtractManifest
  <2>2. pc[p] = "extract"
    BY <1>4 DEF ExtractManifest
  <2> QED
    BY <2>1, <2>2
<1>5. ASSUME ExtractManifestFails(p)
      PROVE  \/ m \in files /\ bytes'[m] = bytes[m]
             \/ /\ pc[p] = "extract" /\ \E e \in todo[p] : StoredAs(e) = m
                /\ bytes'[m] = Empty /\ faults' # faults
  <2>1. PICK n \in todo[p] : UNCHANGED storage \/ Put(StoredAs(n), Empty)
    BY <1>5 DEF ExtractManifestFails
  <2>2. pc[p] = "extract" /\ faults' # faults
    BY <1>5, BoundsAssumption DEF ExtractManifestFails, Fault
  <2> QED
    BY <2>1, <2>2
<1>6. ArchiveChanged(p) \/ EndExtract(p) \/ Accept(p) \/ RequiredJsonMissing(p)
        \/ NothingToStore(p) \/ RemoveFails(p) \/ EndCleanup(p)
      => m \in files /\ bytes'[m] = bytes[m]
  BY DEF ArchiveChanged, EndExtract, Accept, RequiredJsonMissing,
         NothingToStore, RemoveFails, EndCleanup
<1>7. RemoveNext(p) => m \in files /\ bytes'[m] = bytes[m] /\ m # Head(stored[p])
  BY DEF RemoveNext
<1> QED
  BY <1>1, <1>2, <1>3, <1>4, <1>5, <1>6, <1>7 DEF Handle
----------------------------------------------------------------------------
\* The steps preserve what the manifests' invariant is made of.

\* The manifests the cleanup removes depend on the configuration only.
LEMMA RemovableSteps ==
  ASSUME [Next]_vars PROVE Removable' = Removable /\ Removable \subseteq Manifests
<1>1. backend' = backend
  BY ServerSteps
<1>2. ExtractedManifests' = ExtractedManifests
  BY <1>1 DEF ExtractedManifests
<1>3. Removable' = Removable
  BY <1>2 DEF Removable, Range
<1> QED
  BY <1>3, AllRemoved DEF Removable, Manifests

\* Manifests get into the release only by extraction.
LEMMA NamedNext == TypeOK /\ Uploading /\ Named /\ [Next]_vars => Named'
<1> SUFFICES ASSUME TypeOK, Uploading, Named, [Next]_vars,
                    NEW m \in Manifests, m \in files'
             PROVE  m \in Extractable
  BY ServerSteps, ExtractableSteps DEF Named
<1>1. ASSUME NEW p \in Requests, Handle(p) PROVE m \in files \cup Extractable
  <2>1. m \notin Elements
    BY DEF Manifests, Elements, Sources
  <2>2. pc[p] \in {"open", "copy"} => m # Current(p)
    BY <2>1 DEF Uploading
  <2> QED
    BY <1>1, <2>2, FilesSteps
<1>2. (\E p \in Requests : RefuseRequest(p) \/ Receive(p)) \/ Crash \/ UNCHANGED vars
      => files' = files
  BY DEF RefuseRequest, Receive, Crash, vars, storage
<1> QED
  BY <1>1, <1>2 DEF Next, Quiet, Named

\* The cleanup goes on removing archives before manifests.
LEMMA ManifestsFollowNext ==
  TypeOK /\ Uploading /\ ManifestsFollow /\ [Next]_vars => ManifestsFollow'
<1> DEFINE Follows(s) ==
             \A i \in 1..Len(s) : s[i] \in Elements =>
                \A m \in Removable : \E j \in (i + 1)..Len(s) : s[j] = m
<1> SUFFICES ASSUME TypeOK, Uploading, ManifestsFollow, [Next]_vars,
                    NEW q \in Requests, pc'[q] = "cleanup"
             PROVE  Follows(stored'[q])
  BY RemovableSteps DEF ManifestsFollow
<1> USE DEF TypeOK
<1>1. ASSUME NEW s \in Seq(Files), Follows(s), s # <<>> PROVE Follows(Tail(s))
  <2> SUFFICES ASSUME NEW i \in 1..Len(Tail(s)), Tail(s)[i] \in Elements,
                      NEW m \in Removable
               PROVE  \E j \in (i + 1)..Len(Tail(s)) : Tail(s)[j] = m
    OBVIOUS
  <2>1. Len(Tail(s)) = Len(s) - 1 /\ i + 1 \in 1..Len(s) /\ Tail(s)[i] = s[i + 1]
    BY <1>1
  <2>2. PICK j \in (i + 2)..Len(s) : s[j] = m
    BY <1>1, <2>1
  <2>3. j - 1 \in (i + 1)..Len(Tail(s)) /\ Tail(s)[j - 1] = s[j]
    BY <1>1, <2>1, <2>2
  <2> QED
    BY <2>2, <2>3
<1>2. ASSUME NEW s \in Seq(Files) PROVE Follows(s \o ExtractedManifests)
  <2>1. ExtractedManifests \in Seq(Manifests)
    BY ManifestsRemoved
  <2>2. Manifests \cap Elements = {}
    BY DEF Manifests, Elements, Sources
  <2> SUFFICES ASSUME NEW i \in 1..Len(s \o ExtractedManifests),
                      (s \o ExtractedManifests)[i] \in Elements,
                      NEW m \in Removable
               PROVE  \E j \in (i + 1)..Len(s \o ExtractedManifests) :
                         (s \o ExtractedManifests)[j] = m
    OBVIOUS
  <2>3. Len(s \o ExtractedManifests) = Len(s) + Len(ExtractedManifests)
    BY <2>1
  <2>4. i <= Len(s)
    <3> SUFFICES ASSUME i > Len(s) PROVE FALSE
      BY <2>3
    <3>1. (s \o ExtractedManifests)[i] = ExtractedManifests[i - Len(s)]
          /\ i - Len(s) \in 1..Len(ExtractedManifests)
      BY <2>1, <2>3
    <3>2. ExtractedManifests[i - Len(s)] \in Manifests
      BY <2>1, <3>1
    <3> QED
      BY <2>2, <3>1, <3>2
  <2>5. PICK k \in 1..Len(ExtractedManifests) : ExtractedManifests[k] = m
    BY <2>1 DEF Removable, Range
  <2>6. /\ Len(s) + k \in (i + 1)..Len(s \o ExtractedManifests)
        /\ (s \o ExtractedManifests)[Len(s) + k] = m
    BY <2>1, <2>3, <2>4, <2>5
  <2> QED
    BY <2>6
<1>3. pc[q] = "cleanup" => Follows(stored[q])
  BY DEF ManifestsFollow
<1> HIDE DEF Follows
<1>4. ASSUME NEW p \in Requests, Handle(p), p # q PROVE Follows(stored'[q])
  BY <1>3, <1>4, OthersUnchanged
<1>5. ASSUME Handle(q) PROVE Follows(stored'[q])
  <2>1. CASE RollsBack(q)
    <3>1. \/ stored'[q] = stored[q] \o ExtractedManifests
          \/ /\ pc[q] \in {"open", "copy"}
             /\ stored'[q] = Append(stored[q], Current(q)) \o ExtractedManifests
      BY <2>1 DEF RollsBack, CleanupStoredElements
    <3> QED
      BY <1>2, <3>1, CurrentTyped
  <2>2. CASE Removes(q)
    BY <1>1, <1>3, <2>2 DEF Removes
  <2>3. GoesOn(q) \/ CloseWriter(q) \/ EndCleanup(q) \/ Return(q)
        => pc'[q] # "cleanup"
    BY DEF GoesOn, CloseWriter, EndCleanup, Return, GoTo, Running
  <2> QED
    BY <1>5, <2>1, <2>2, <2>3, AnswerSteps
<1>6. ASSUME NEW p \in Requests, RefuseRequest(p) \/ Receive(p)
      PROVE  pc[q] = "cleanup" /\ stored'[q] = stored[q]
  BY <1>6 DEF RefuseRequest, Receive, Stop, Return, GoTo
<1>7. ~Crash
  BY DEF Crash, Active
<1>8. UNCHANGED vars => pc[q] = "cleanup" /\ stored'[q] = stored[q]
  BY DEF vars
<1> QED
  BY <1>3, <1>4, <1>5, <1>6, <1>7, <1>8 DEF Next, Quiet

\* A handler on its own is disturbed neither by a step of another nor by one that
\* is refused: only its own steps change what it does.
LEMMA AloneSteps ==
  ASSUME TypeOK, Met, [Next]_vars, NEW q \in Requests, Active(q)', Alone(q)'
  PROVE  \/ Handle(q)
         \/ Receive(q)
         \/ /\ UNCHANGED <<pc[q], rest[q], stored[q], package[q], src[q], todo[q]>>
            /\ UNCHANGED <<zip, storage, backend>>
            /\ \E p \in Requests : RefuseRequest(p)
         \/ UNCHANGED vars
<1> USE DEF TypeOK
<1>1. ASSUME NEW p \in Requests, Handle(p) PROVE p = q
  <2> SUFFICES ASSUME p # q PROVE FALSE
    OBVIOUS
  <2>1. Active(q)
    BY <1>1, OthersUnchanged DEF Active
  <2> QED
    BY <1>1, <2>1, NotDisturbed DEF Alone
<1>2. ASSUME NEW p \in Requests, Receive(p) PROVE p = q
  <2> SUFFICES ASSUME p # q PROVE FALSE
    OBVIOUS
  <2>1. Active(q)
    BY <1>2 DEF Receive, GoTo, Active
  <2> QED
    BY <1>2, <2>1, NotDisturbed DEF Alone
<1>3. ASSUME NEW p \in Requests, RefuseRequest(p)
      PROVE  /\ UNCHANGED <<pc[q], rest[q], stored[q], package[q], src[q], todo[q]>>
             /\ UNCHANGED <<zip, storage, backend>>
  <2>1. p # q
    BY <1>3 DEF RefuseRequest, Stop, Return, GoTo, Active
  <2> QED
    BY <1>3, <2>1 DEF RefuseRequest, Stop, Return, GoTo, server, unzip
<1>4. ~Crash
  BY DEF Crash, Active
<1> QED
  BY <1>1, <1>2, <1>3, <1>4 DEF Next, Quiet
\* A handler comes to the manifests of an archive by storing it as source.zip and
\* opening it; then there are fewer and fewer.
LEMMA UnzipSteps ==
  ASSUME TypeOK, NEW p \in Requests, Handle(p), pc'[p] \in {"unzip", "extract"}
  PROVE  \/ CloseWriter(p) /\ Current(p) = "source.zip" /\ pc'[p] = "unzip"
         \/ OpenArchive(p)
         \/ /\ pc[p] = "extract" /\ package' = package /\ src' = src
            /\ todo'[p] \subseteq todo[p]
<1> USE DEF TypeOK, GoTo, Return
<1>1. GoesOn(p) \/ CloseWriter(p)
  <2>1. ~RollsBack(p) /\ ~Removes(p) /\ ~Return(p)
    BY DEF RollsBack, CleanupStoredElements, Removes
  <2> QED
    BY <2>1, AnswerSteps DEF EndCleanup
<1>2. CASE CloseWriter(p)
  BY <1>2 DEF CloseWriter
<1>3. CASE GoesOn(p)
  <2>1. ~(MalformedForm(p) \/ UnsupportedPart(p) \/ ElementExists(p)
          \/ ElementIsNew(p) \/ OpenWriter(p) \/ OpenFails(p))
    BY DEF MalformedForm, UnsupportedPart, ElementExists, ElementIsNew,
           OpenWriter, OpenFails, Stop, CleanupStoredElements
  <2>2. ~(CopyChunk(p) \/ CopyFails(p) \/ CloseFails(p) \/ OpenArchiveFails(p)
          \/ EndExtract(p) \/ Accept(p) \/ RequiredJsonMissing(p))
    BY DEF CopyChunk, CopyFails, CloseFails, OpenArchiveFails, EndExtract, Accept,
           RequiredJsonMissing, Stop, CleanupStoredElements
  <2>3. ~(NothingToStore(p) \/ RemoveNext(p) \/ RemoveFails(p) \/ EndCleanup(p))
    BY DEF NothingToStore, RemoveNext, RemoveFails, EndCleanup, Stop
  <2>4. ExtractManifest(p) \/ ExtractManifestFails(p) \/ ArchiveChanged(p)
        => /\ pc[p] = "extract" /\ package' = package /\ src' = src
           /\ todo'[p] \subseteq todo[p]
    BY DEF ExtractManifest, ExtractManifestFails, ArchiveChanged
  <2> QED
    BY <1>2, <2>1, <2>2, <2>3, <2>4 DEF Handle
<1> QED
  BY <1>1, <1>2, <1>3

\* On its own a handler opens the archive it has stored.
LEMMA UnzippingNext ==
  TypeOK /\ Met /\ Unmet /\ (NeverMissed => Kept) /\ Unzipping /\ [Next]_vars
    => Unzipping'
<1> SUFFICES ASSUME TypeOK, Met, Unmet, NeverMissed => Kept, Unzipping,
                    [Next]_vars, NEW q \in Requests,
                    pc'[q] \in {"unzip", "extract"}
             PROVE  /\ package'[q] = "source.zip"
                    /\ pc'[q] = "extract" /\ Alone(q)' /\ NeverMissed' =>
                         src'[q] = q /\ todo'[q] \subseteq zip'[q]
  BY DEF Unzipping
<1> USE DEF TypeOK
<1>1. package'[q] = "source.zip"
  <2>1. ASSUME NEW p \in Requests, Handle(p) PROVE package'[q] = "source.zip"
    <3>1. CASE p # q
      BY <2>1, <3>1, OthersUnchanged DEF Unzipping
    <3>2. CASE p = q
      <4>1. CloseWriter(p) /\ Current(p) = "source.zip"
            => package'[p] = "source.zip"
        BY DEF CloseWriter, Sources
      <4>2. OpenArchive(p) => pc[p] = "unzip" /\ package' = package
        BY DEF OpenArchive
      <4> QED
        BY <2>1, <3>2, <4>1, <4>2, UnzipSteps DEF Unzipping
    <3> QED
      BY <3>1, <3>2
  <2>2. ASSUME NEW p \in Requests, RefuseRequest(p) \/ Receive(p)
        PROVE  pc'[q] = pc[q] /\ package' = package
    BY <2>2 DEF RefuseRequest, Receive, Stop, Return, GoTo
  <2>3. ~Crash
    BY DEF Crash, Active
  <2>4. UNCHANGED vars => pc' = pc /\ package' = package
    BY DEF vars
  <2> QED
    BY <2>1, <2>2, <2>3, <2>4 DEF Next, Quiet, Unzipping
<1>2. ASSUME pc'[q] = "extract", Alone(q)', NeverMissed'
      PROVE  src'[q] = q /\ todo'[q] \subseteq zip'[q]
  <2>1. NeverMissed /\ Alone(q) /\ Kept
    BY <1>2, UndisturbedBefore
  <2>2. CASE Handle(q)
    <3>1. zip' = zip
      BY <2>2, ServerSteps
    <3>2. CASE OpenArchive(q)
      <4>1. pc[q] = "unzip" /\ package[q] = "source.zip"
        BY <3>2 DEF OpenArchive, Unzipping
      <4>2. bytes["source.zip"] = Whole(q)
        BY <2>1, <4>1 DEF Kept, Claims
      <4>3. bytes["source.zip"][Chunks] = q
        BY <4>2, ChunksAssumption DEF Whole, Prefix
      <4> QED
        BY <3>1, <3>2, <4>3 DEF OpenArchive
    <3>3. CASE pc[q] = "extract" /\ src' = src /\ todo'[q] \subseteq todo[q]
      BY <2>1, <3>1, <3>3 DEF Unzipping
    <3> QED
      BY <1>2, <2>2, <3>2, <3>3, UnzipSteps
  <2>3. ~Receive(q)
    BY <1>2 DEF Receive, GoTo
  <2>4. CASE UNCHANGED <<pc[q], src[q], todo[q], zip>>
    BY <1>2, <2>1, <2>4 DEF Unzipping
  <2>5. UNCHANGED vars => UNCHANGED <<pc[q], src[q], todo[q], zip>>
    BY DEF vars, unzip
  <2>6. Active(q)'
    BY <1>2 DEF Active
  <2> QED
    BY <1>2, <2>2, <2>3, <2>4, <2>5, <2>6, AloneSteps
<1> QED
  BY <1>1, <1>2

\* No archive is written over or beside manifests.
LEMMA FreshNext ==
  TypeOK /\ Uploading /\ Met /\ Unmet /\ Fresh /\ Matched /\ [Next]_vars
    => Fresh'
<1> SUFFICES ASSUME TypeOK, Uploading, Met, Unmet, Fresh, Matched, [Next]_vars,
                    NeverMissed', Undisturbed', NEW q \in Requests,
                    pc'[q] \in {"open", "copy"}, Head(rest'[q]) = "source.zip",
                    NEW m \in Removable, m \in files'
             PROVE  FALSE
  BY RemovableSteps DEF Fresh, Current
<1> USE DEF TypeOK
<1>1. NeverMissed /\ NoneMissed /\ Undisturbed
  BY UndisturbedBefore
<1>2. m \in Manifests
  BY RemovableSteps
<1>3. ~Handle(q)
  <2> SUFFICES ASSUME Handle(q) PROVE FALSE
    OBVIOUS
  <2>1. /\ rest'[q] = rest[q]
        /\ ElementIsNew(q) \/ pc[q] \in {"open", "copy"}
    BY StoringSteps
  <2>2. Current(q) = "source.zip"
    BY <2>1 DEF Current
  <2>3. ASSUME ElementIsNew(q) PROVE FALSE
    <3>1. "source.zip" \notin files /\ files' = files /\ pc[q] = "parts"
      BY <1>1, <2>2, <2>3, BoundsAssumption
      DEF ElementIsNew, Exists, Fault, NoneMissed, storage
    <3>2. PICK p \in Requests : pc[p] = "cleanup"
      BY <1>1, <1>2, <3>1 DEF Matched
    <3>3. p = q
      BY <3>2, LoneHandler DEF Active
    <3> QED
      BY <3>1, <3>2, <3>3
  <2>4. ASSUME pc[q] \in {"open", "copy"} PROVE FALSE
    <3>1. m \in files
      BY <1>2, <2>4, ManifestsTouched
    <3> QED
      BY <1>1, <1>2, <2>2, <2>4, <3>1 DEF Fresh
  <2> QED
    BY <2>1, <2>3, <2>4
<1>4. ~Receive(q)
  BY DEF Receive, GoTo
<1>5. CASE UNCHANGED <<pc[q], rest[q], storage>>
  BY <1>1, <1>2, <1>5 DEF Fresh, Current, storage
<1>6. Active(q)' /\ Alone(q)'
  BY DEF Active, Undisturbed
<1>7. UNCHANGED vars => UNCHANGED <<pc[q], rest[q], storage>>
  BY DEF vars
<1> QED
  BY <1>3, <1>4, <1>5, <1>6, <1>7, AloneSteps
\* Nothing being disturbed, the manifests that are there are the archive's.
LEMMA MatchedNext ==
  TypeOK /\ Uploading /\ Met /\ Unmet /\ (NeverMissed => Kept)
    /\ ManifestsFollow /\ Unzipping /\ Fresh /\ Matched /\ [Next]_vars
    => Matched'
<1> SUFFICES ASSUME TypeOK, Uploading, Met, Unmet, NeverMissed => Kept,
                    ManifestsFollow, Unzipping, Fresh, Matched, [Next]_vars,
                    NeverMissed', Undisturbed',
                    NEW m \in Removable, m \in files'
             PROVE  \/ /\ "source.zip" \in files'
                       /\ bytes'[m] \in {Empty, bytes'["source.zip"]}
                    \/ \E p \in Requests : pc'[p] = "cleanup" /\ m \in Range(stored'[p])
  BY RemovableSteps DEF Matched, Empty, Prefix, Range
<1> USE DEF TypeOK
<1>1. NeverMissed /\ Undisturbed /\ Kept
  BY UndisturbedBefore
<1>2. m \in Manifests /\ "source.zip" \in Elements /\ "source.zip" \in Sources
  BY RemovableSteps DEF Elements, Sources
<1>3. ASSUME m \in files
      PROVE  \/ "source.zip" \in files /\ bytes[m] \in {Empty, bytes["source.zip"]}
             \/ \E p \in Requests : pc[p] = "cleanup" /\ m \in Range(stored[p])
  BY <1>1, <1>3 DEF Matched
<1>4. ASSUME NEW p \in Requests, Handle(p)
      PROVE  \/ /\ "source.zip" \in files'
                /\ bytes'[m] \in {Empty, bytes'["source.zip"]}
             \/ pc'[p] = "cleanup" /\ m \in Range(stored'[p])
  <2>1. Alone(p) /\ ~RemoveFails(p) /\ \A q \in Requests : Active(q) => q = p
    BY <1>4, LoneHandler
  <2>2. stored[p] \in Seq(Files)
    OBVIOUS
  <2>3. CASE /\ pc[p] = "extract"
             /\ bytes'[m] \in {Empty, Whole(src[p])}
    <3>1. package[p] = "source.zip" /\ src[p] = p
      BY <1>1, <2>1, <2>3 DEF Unzipping
    <3>2. "source.zip" \in files /\ bytes["source.zip"] = Whole(p)
      BY <1>1, <2>1, <2>3, <3>1 DEF Kept, Claims
    <3>3. "source.zip" \in files' /\ bytes'["source.zip"] = bytes["source.zip"]
      BY <1>2, <1>4, <2>3, <3>2, ElementsTouched
    <3> QED
      BY <2>3, <3>1, <3>2, <3>3
  <2>4. CASE /\ m \in files /\ bytes'[m] = bytes[m]
             /\ RemoveNext(p) => m # Head(stored[p])
    <3>1. ASSUME pc[p] = "cleanup", stored[p] # <<>>
          PROVE  /\ RemoveNext(p) /\ pc'[p] = "cleanup"
                 /\ stored'[p] = Tail(stored[p])
                 /\ Range(stored[p]) = {Head(stored[p])} \cup Range(stored'[p])
      <4>1. RemoveNext(p) \/ RemoveFails(p)
        BY <1>4, <3>1 DEF Handle, MalformedForm, UnsupportedPart, ElementExists,
           ElementIsNew, OpenWriter, OpenFails, CopyChunk, CopyFails, CloseWriter,
           CloseFails, OpenArchive, OpenArchiveFails, ExtractManifest,
           ExtractManifestFails, ArchiveChanged, EndExtract, Accept,
           RequiredJsonMissing, NothingToStore, EndCleanup
      <4>2. RemoveNext(p) /\ pc' = pc /\ stored'[p] = Tail(stored[p])
        BY <2>1, <4>1 DEF RemoveNext
      <4> QED
        BY <2>2, <3>1, <4>2, RangeFacts
    <3>2. CASE \E r \in Requests : pc[r] = "cleanup" /\ m \in Range(stored[r])
      <4>1. pc[p] = "cleanup" /\ m \in Range(stored[p])
        BY <2>1, <3>2 DEF Active
      <4>2. stored[p] # <<>>
        BY <4>1 DEF Range
      <4> QED
        BY <2>4, <3>1, <4>1, <4>2
    <3>3. CASE "source.zip" \in files /\ bytes[m] \in {Empty, bytes["source.zip"]}
      <4>1. CASE pc[p] \in {"open", "copy"} /\ Current(p) = "source.zip"
        BY <1>1, <2>4, <4>1 DEF Fresh
      <4>2. CASE pc[p] = "cleanup" /\ stored[p] # <<>> /\ Head(stored[p]) = "source.zip"
        <5>1. 1 \in 1..Len(stored[p]) /\ stored[p][1] \in Elements
          BY <1>2, <2>2, <4>2
        <5>2. PICK j \in (1 + 1)..Len(stored[p]) : stored[p][j] = m
          <6>1. \A i \in 1..Len(stored[p]) : stored[p][i] \in Elements =>
                  \E j \in (i + 1)..Len(stored[p]) : stored[p][j] = m
            BY <4>2 DEF ManifestsFollow
          <6> QED
            BY <5>1, <6>1
        <5>3. m \in Range(stored[p]) /\ m # Head(stored[p])
          BY <1>2, <2>2, <4>2, <5>2 DEF Range, Manifests, Elements, Sources
        <5> QED
          BY <3>1, <4>2, <5>3
      <4>3. CASE ~(pc[p] \in {"open", "copy"} /\ Current(p) = "source.zip")
                 /\ ~(pc[p] = "cleanup" /\ stored[p] # <<>>
                      /\ Head(stored[p]) = "source.zip")
        <5>1. "source.zip" \in files' /\ bytes'["source.zip"] = bytes["source.zip"]
          BY <1>2, <1>4, <3>3, <4>3, ElementsTouched
        <5> QED
          BY <2>4, <3>3, <5>1
      <4> QED
        BY <4>1, <4>2, <4>3
    <3> QED
      BY <1>3, <2>4, <3>2, <3>3
  <2> QED
    BY <1>2, <1>4, <2>3, <2>4, ManifestsTouched
<1>5. ASSUME NEW p \in Requests, RefuseRequest(p) \/ Receive(p)
      PROVE  /\ UNCHANGED storage
             /\ \A q \in Requests : pc[q] = "cleanup" =>
                  pc'[q] = pc[q] /\ stored'[q] = stored[q]
  BY <1>5 DEF RefuseRequest, Receive, Stop, Return, GoTo
<1>6. ASSUME Crash
      PROVE  /\ UNCHANGED storage
             /\ \A q \in Requests : pc[q] = "cleanup" => Range(stored[q]) = {}
  BY <1>6 DEF Crash, Undisturbed
<1>7. UNCHANGED vars => UNCHANGED <<storage, pc, stored>>
  BY DEF vars
<1> QED
  BY <1>3, <1>4, <1>5, <1>6, <1>7 DEF Next, Quiet, storage

\* A handler does not go back to where it began.
LEMMA NeverIdle ==
  ASSUME TypeOK, NEW p \in Requests, Handle(p) PROVE pc'[p] # "idle"
<1>1. GoesOn(p) \/ CloseWriter(p) \/ RollsBack(p) \/ Removes(p) \/ Return(p)
  BY AnswerSteps DEF EndCleanup
<1> QED
  BY <1>1 DEF GoesOn, CloseWriter, RollsBack, CleanupStoredElements, Removes,
     Return, GoTo, Running, TypeOK

\* No call having failed, a manifest was in the archive of whoever wrote it.
LEMMA ExtractedNext ==
  TypeOK /\ Uploading /\ Met /\ Unmet /\ Unzipping /\ Extracted /\ [Next]_vars
    => Extracted'
<1> SUFFICES ASSUME TypeOK, Uploading, Met, Unmet, Unzipping, Extracted,
                    [Next]_vars
             PROVE  Extracted'
  OBVIOUS
<1>0. backend' = backend
  BY ServerSteps
<1>7. /\ \A e : StoredAs(e)' = StoredAs(e)
      /\ \A r : Whole(r)' = Whole(r)
  BY <1>0 DEF StoredAs, Buffered, Whole, Prefix
<1> SUFFICES ASSUME faults' = 0, Undisturbed', NEW m \in Manifests, m \in files'
             PROVE  \E r \in Requests :
                       /\ pc'[r] # "idle" /\ bytes'[m] = Whole(r)
                       /\ \E e \in zip'[r] : StoredAs(e) = m
  <2> SUFFICES ASSUME faults' = 0, Undisturbed', NEW m \in Manifests \cap files'
               PROVE  \E r \in Requests :
                         /\ pc'[r] # "idle" /\ bytes'[m] = Whole(r)'
                         /\ \E e \in zip'[r] : StoredAs(e)' = m
    BY DEF Extracted, Manifests
  <2> QED
    BY <1>7
<1> USE DEF TypeOK
<1>1. NeverMissed /\ faults = 0 /\ Undisturbed
  BY UndisturbedBefore DEF NeverMissed
<1>2. m \in files => \E r \in Requests :
        /\ pc[r] # "idle" /\ bytes[m] = Whole(r)
        /\ \E e \in zip[r] : StoredAs(e) = m
  BY <1>1 DEF Extracted
<1>3. ASSUME NEW p \in Requests, Handle(p)
      PROVE  \E r \in Requests :
                /\ pc'[r] # "idle" /\ bytes'[m] = Whole(r)
                /\ \E e \in zip'[r] : StoredAs(e) = m
  <2>1. zip' = zip /\ Alone(p)
    BY <1>3, ServerSteps, LoneHandler
  <2>2. CASE /\ pc[p] = "extract" /\ \E e \in todo[p] : StoredAs(e) = m
             /\ bytes'[m] = Whole(src[p])
    <3>1. src[p] = p /\ \E e \in zip[p] : StoredAs(e) = m
      BY <1>1, <2>1, <2>2 DEF Unzipping
    <3>2. pc'[p] # "idle"
      BY <1>3, NeverIdle
    <3> QED
      BY <2>1, <2>2, <3>1, <3>2
  <2>3. CASE m \in files /\ bytes'[m] = bytes[m]
    <3>1. PICK r \in Requests : /\ pc[r] # "idle" /\ bytes[m] = Whole(r)
                                /\ \E e \in zip[r] : StoredAs(e) = m
      BY <1>2, <2>3
    <3>2. pc'[r] # "idle"
      <4>1. CASE r # p
        BY <1>3, <3>1, <4>1, OthersUnchanged
      <4>2. CASE r = p
        BY <1>3, <4>2, NeverIdle
      <4> QED
        BY <4>1, <4>2
    <3> QED
      BY <2>1, <2>3, <3>1, <3>2
  <2> QED
    BY <1>1, <1>3, <2>2, <2>3, ManifestsTouched
<1>4. ASSUME NEW p \in Requests, RefuseRequest(p) \/ Receive(p)
      PROVE  /\ UNCHANGED storage
             /\ \A q \in Requests : pc[q] # "idle" =>
                  pc'[q] # "idle" /\ zip'[q] = zip[q]
  BY <1>4 DEF RefuseRequest, Receive, Stop, Return, GoTo
<1>5. ASSUME Crash
      PROVE  /\ UNCHANGED <<storage, zip>>
             /\ \A q \in Requests : pc[q] # "idle" => pc'[q] # "idle"
  BY <1>5 DEF Crash
<1>6. UNCHANGED vars => UNCHANGED <<storage, zip, pc>>
  BY DEF vars
<1> QED
  BY <1>2, <1>3, <1>4, <1>5, <1>6 DEF Next, Quiet, storage
\* What is written to a file tells whose it is.
LEMMA WholeFacts ==
  /\ \A p \in Requests : Whole(p) # Empty
  /\ \A p, q \in Requests : Whole(p) = Whole(q) => p = q
<1>1. \A p \in Requests : Whole(p)[1] = p /\ Empty[1] = Nobody
  BY ChunksAssumption DEF Whole, Empty, Prefix
<1> QED
  BY <1>1, NobodyAssumption

\* A publish is answered 201 by Accept, and by nothing else.
LEMMA AcceptedBy ==
  ASSUME TypeOK, Returned, NEW p \in Requests, Handle(p), answer'[p] = "created"
  PROVE  Accept(p)
<1> USE DEF TypeOK
<1>1. answer[p] # "created"
  BY HandleCases DEF Returned, Published
<1>2. ~(GoesOn(p) \/ CloseWriter(p) \/ RollsBack(p) \/ Removes(p) \/ EndCleanup(p))
  BY <1>1 DEF GoesOn, CloseWriter, RollsBack, CleanupStoredElements, Answer,
     RolledBack, Removes, EndCleanup
<1>3. pc[p] = "parts" /\ Return(p)
  BY <1>2, AnswerSteps
<1>4. ~(MalformedForm(p) \/ NothingToStore(p))
  BY DEF MalformedForm, NothingToStore, Stop, Answer
<1> QED
  BY <1>3, <1>4 DEF Handle, UnsupportedPart, ElementExists,
     ElementIsNew, OpenWriter, OpenFails, CopyChunk, CopyFails, CloseWriter,
     CloseFails, OpenArchive, OpenArchiveFails, ExtractManifest,
     ExtractManifestFails, ArchiveChanged, EndExtract,
     RequiredJsonMissing, RemoveNext, RemoveFails, EndCleanup,
     Return, GoTo, CleanupStoredElements

\* With nothing disturbed and no fault, the Package.json Accept finds is the one
\* of the archive accepted.
LEMMA JsonIsOwnNext ==
  TypeOK /\ Uploading /\ Returned /\ Met /\ Unmet /\ (NeverMissed => Kept)
    /\ Matched /\ Extracted /\ RequiredJsonIsOwn /\ [Next]_vars
    => RequiredJsonIsOwn'
<1>0. [Next]_vars => backend' = backend
  BY ServerSteps
<1> SUFFICES ASSUME TypeOK, Uploading, Returned, Met, Unmet, NeverMissed => Kept,
                    Matched, Extracted, RequiredJsonIsOwn, [Next]_vars,
                    Undisturbed', faults' = 0, NEW q \in Requests,
                    answer'[q] = "created", requireJson', package'[q] = "source.zip"
             PROVE  \E e \in zip'[q] : StoredAs(e) = "Package.json"
  BY <1>0 DEF RequiredJsonIsOwn, Published, StoredAs, Buffered
<1> USE DEF TypeOK
<1>1. NeverMissed /\ faults = 0 /\ Undisturbed /\ Kept /\ requireJson
  BY UndisturbedBefore, ServerSteps DEF NeverMissed
<1>2. answer[q] = "created" /\ package[q] = "source.zip" 
      => \E e \in zip[q] : StoredAs(e) = "Package.json"
  BY <1>1 DEF RequiredJsonIsOwn, Published
<1>3. ASSUME Accept(q) PROVE \E e \in zip[q] : StoredAs(e) = "Package.json"
  <2>0. Handle(q) /\ pc[q] = "parts" /\ package[q] = "source.zip"
    BY <1>3 DEF Handle, Accept
  <2>1. "Package.json" \in files
    BY <1>1, <1>3, BoundsAssumption DEF Accept, Exists, Fault
  <2>2. "Package.json" \in Removable /\ "Package.json" \in Manifests
    BY AllRemoved DEF Removable, Manifests
  <2>3. Alone(q) /\ \A r \in Requests : Active(r) => r = q
    BY <2>0, LoneHandler
  <2>4. \A r \in Requests : pc[r] # "cleanup"
    BY <2>0, <2>3 DEF Active
  <2>5. bytes["Package.json"] \in {Empty, bytes["source.zip"]}
    BY <1>1, <2>1, <2>2, <2>4 DEF Matched
  <2>6. bytes["source.zip"] = Whole(q)
    BY <1>1, <2>0, <2>3 DEF Kept, Claims
  <2>7. PICK r \in Requests : /\ bytes["Package.json"] = Whole(r)
                              /\ \E e \in zip[r] : StoredAs(e) = "Package.json"
    BY <1>1, <2>1, <2>2 DEF Extracted
  <2> QED
    BY <2>5, <2>6, <2>7, WholeFacts
<1>4. ASSUME NEW p \in Requests, Handle(p) PROVE \E e \in zip'[q] : StoredAs(e) = "Package.json"
  <2>1. zip' = zip
    BY <1>4, ServerSteps
  <2>2. CASE p # q
    BY <1>2, <1>4, <2>1, <2>2, OthersUnchanged
  <2>3. CASE p = q
    BY <1>3, <1>4, <2>1, <2>3, AcceptedBy
  <2> QED
    BY <2>2, <2>3
<1>5. ASSUME NEW p \in Requests, RefuseRequest(p)
      PROVE  answer[q] = "created" /\ package' = package /\ zip' = zip
  BY <1>5 DEF RefuseRequest, Stop, Answer
<1>6. ASSUME NEW p \in Requests, Receive(p)
      PROVE  answer[q] = "created" /\ package' = package /\ zip'[q] = zip[q]
  BY <1>6 DEF Receive, Returned, Published
<1>7. Crash => answer[q] = "created" /\ package' = package /\ zip' = zip
  BY DEF Crash
<1>8. UNCHANGED vars => answer' = answer /\ package' = package /\ zip' = zip
  BY DEF vars
<1> QED
  BY <1>2, <1>4, <1>5, <1>6, <1>7, <1>8 DEF Next, Quiet

----------------------------------------------------------------------------
\* The inductive invariant behind what is said of the manifests.
ManifestInv ==
  /\ TypeOK /\ Uploading /\ Returned /\ Met /\ Unmet /\ CopiedAlone
  /\ NeverMissed => Kept
  /\ ManifestsFollow /\ Unzipping /\ Fresh /\ Matched /\ Extracted /\ Named
  /\ RequiredJsonIsOwn

LEMMA ManifestInvInit == Init => ManifestInv
<1> SUFFICES ASSUME Init PROVE ManifestInv
  OBVIOUS
<1>1. TypeOK /\ Uploading
  BY TypedInit
<1>2. Returned /\ Met /\ Unmet /\ CopiedAlone /\ Kept
  BY DEF Init, Returned, Met, Unmet, CopiedAlone, Kept, Claims, Published, Active
<1>3. ManifestsFollow /\ Unzipping /\ Fresh /\ Matched /\ Extracted /\ Named
      /\ RequiredJsonIsOwn
  BY DEF Init, ManifestsFollow, Unzipping, Fresh, Matched, Extracted, Named,
     RequiredJsonIsOwn, Published
<1> QED
  BY <1>1, <1>2, <1>3 DEF ManifestInv

LEMMA ManifestInvNext == ManifestInv /\ [Next]_vars => ManifestInv'
<1> SUFFICES ASSUME ManifestInv, [Next]_vars PROVE ManifestInv'
  OBVIOUS
<1> USE DEF ManifestInv
<1>1. TypeOK' /\ Uploading' /\ Returned' /\ Met' /\ Unmet' /\ CopiedAlone'
  BY TypedNext, UploadingNext, ReturnedNext, MetNext, UnmetNext, CopiedAloneNext
<1>2. NeverMissed' => Kept'
  BY KeptNext, UndisturbedBefore
<1>3. /\ ManifestsFollow' /\ Unzipping' /\ Fresh' /\ Matched' /\ Extracted'
      /\ Named'
  BY ManifestsFollowNext, UnzippingNext, FreshNext, MatchedNext, ExtractedNext,
     NamedNext
<1>4. RequiredJsonIsOwn'
  BY JsonIsOwnNext
<1> QED
  BY <1>1, <1>2, <1>3, <1>4

\* Nothing having been disturbed, and no request being in flight, the manifests
\* of the release are those of its archive or empty, but for those the cleanup of
\* the backend overlooks, where Exists misses no file (files/filerepo.go:43-63,
\* publish.go:223-249).
THEOREM ManifestsMatch == "head" \notin FaultKinds => (Spec => []ManifestsMatchArchive)
<1> SUFFICES ASSUME "head" \notin FaultKinds PROVE Spec => []ManifestsMatchArchive
  OBVIOUS
<1>1. ManifestInv => ManifestsMatchArchive
  <2> SUFFICES ASSUME ManifestInv, Undisturbed, InFlight = {},
                      NEW m \in Manifests \ Overlooked, m \in files
               PROVE  "source.zip" \in files /\ bytes[m] \in {Empty, bytes["source.zip"]}
    BY DEF ManifestsMatchArchive
  <2>1. m \in Removable
    BY DEF ManifestInv, Named, Extractable, Removable
  <2>2. \A p \in Requests : pc[p] # "cleanup"
    BY DEF InFlight, Active
  <2> QED
    BY <2>1, <2>2 DEF ManifestInv, Matched, NeverMissed
<1> QED
  BY <1>1, ManifestInvInit, ManifestInvNext, PTL DEF Spec

\* With requirePackageJson, nothing having been disturbed and no call having
\* failed, a source archive that is accepted has a Package.json of its own, on
\* every backend (publish.go:98-111).
THEOREM JsonIsOwn == Spec => []RequiredJsonIsOwn
<1>1. ManifestInv => RequiredJsonIsOwn
  BY DEF ManifestInv
<1> QED
  BY <1>1, ManifestInvInit, ManifestInvNext, PTL DEF Spec

----------------------------------------------------------------------------
(* Publish implements ReleaseRegistry: the initial states map to initial   *)
(* states, and every step of the publish endpoint to a step of the         *)
(* registry or to none.                                                    *)

\* One request is in flight at a time, and none has ever met another.
Sole == /\ \A p \in Requests : Alone(p)
        /\ \A p, q \in Requests : Active(p) /\ Active(q) => p = q

\* Then a request is received only when none is in flight.
LEMMA SoleNext == MaxActive = 1 /\ TypeOK /\ Sole /\ [Next]_vars => Sole'
<1> SUFFICES ASSUME MaxActive = 1, TypeOK, Sole, [Next]_vars PROVE Sole'
  OBVIOUS
<1> USE DEF TypeOK, Sole, Alone, Active
<1>1. ASSUME NEW p \in Requests, Receive(p) PROVE Sole'
  <2>1. InFlight = {}
    <3> SUFFICES ASSUME NEW q \in InFlight PROVE FALSE
      OBVIOUS
    <3>1. InFlight = {q}
      BY DEF InFlight
    <3>2. Cardinality(InFlight) = 1
      BY <3>1, FS_Singleton
    <3> QED
      BY <1>1, <3>2 DEF Receive
  <2>2. rivals' = rivals
    BY <1>1, <2>1 DEF Receive, InFlight
  <2>3. \A q \in Requests : q # p => pc'[q] \in {"idle", "done"}
    BY <1>1, <2>1 DEF Receive, GoTo, InFlight
  <2> QED
    BY <2>2, <2>3
<1>2. ASSUME NEW p \in Requests, Handle(p) PROVE Sole'
  <2>1. Active(p)
    BY <1>2, HandleCases
  <2>2. rivals' = rivals
    BY <1>2, RivalsSteps
  <2>3. \A q \in Requests : q # p => pc'[q] = pc[q]
    BY <1>2, OthersUnchanged
  <2> QED
    BY <2>1, <2>2, <2>3
<1>3. ASSUME NEW p \in Requests, RefuseRequest(p) PROVE Sole'
  BY <1>3 DEF RefuseRequest, Stop, Return, GoTo
<1>4. CASE Crash
  BY <1>4 DEF Crash
<1>5. CASE UNCHANGED vars
  BY <1>5 DEF vars, history
<1> QED
  BY <1>1, <1>2, <1>3, <1>4, <1>5 DEF Next, Quiet

----------------------------------------------------------------------------
\* The mapping.

\* What is served of a file that is there or not and holds c.
ServedOf(there, c) ==
  IF ~there THEN Nobody
  ELSE IF \E p \in Requests : c = Whole(p)
       THEN CHOOSE p \in Requests : c = Whole(p)
       ELSE Damaged

\* Served of each archive depends on its file and its bytes.
LEMMA ServedFacts ==
  /\ Served = [f \in Sources |-> ServedOf(f \in files, bytes[f])]
  /\ Served' = [f \in Sources |-> ServedOf(f \in files', bytes'[f])]
  /\ \A there, c : ServedOf(there, c) \in Requests \cup {Nobody, Damaged}
  /\ \A p \in Requests : ServedOf(TRUE, Whole(p)) = p
<1>1. Served = [f \in Sources |-> ServedOf(f \in files, bytes[f])]
  BY DEF Served, ServedOf
<1>2. Served' = [f \in Sources |-> ServedOf(f \in files', bytes'[f])]
  BY DEF Served, ServedOf, Whole, Prefix
<1>3. \A there, c : ServedOf(there, c) \in Requests \cup {Nobody, Damaged}
  BY DEF ServedOf
<1>4. \A p \in Requests : ServedOf(TRUE, Whole(p)) = p
  BY WholeFacts DEF ServedOf
<1> QED
  BY <1>1, <1>2, <1>3, <1>4

\* An archive that has been accepted is nobody's to change.
LEMMA NotPromised ==
  ASSUME TypeOK, Returned, Kept, Sole, NEW p \in Requests, Handle(p),
         NEW f \in Sources,
         \/ pc[p] \in {"open", "copy"} /\ f = Current(p)
         \/ pc[p] = "cleanup" /\ stored[p] # <<>> /\ f = Head(stored[p])
  PROVE  ~Registry!Accepted(f)
<1> SUFFICES ASSUME NEW q \in Requests, Verdict[q] = f PROVE FALSE
  BY DEF Registry!Accepted
<1>1. answer[q] = "created" /\ package[q] = f
  BY DEF Verdict, Sources
<1>2. Claims(q)
  BY <1>1 DEF Sole, Claims, Published, Sources
<1>3. p # q
  BY <1>1, HandleCases DEF Returned, Published
<1>4. f \notin Range(stored[p])
  BY <1>1, <1>2, <1>3 DEF Kept
<1>5. stored[p] # <<>> => Head(stored[p]) \in Range(stored[p])
  BY RangeFacts DEF TypeOK
<1> QED
  BY <1>1, <1>2, <1>4, <1>5 DEF Kept
\* A step of a handler changes what is served of one archive at most, and of none
\* that has been accepted.
LEMMA ServedSteps ==
  ASSUME TypeOK, Uploading, Returned, Kept, Sole, NEW p \in Requests, Handle(p)
  PROVE  \/ Served' = Served
         \/ \E f \in Sources, s \in Requests \cup {Nobody, Damaged} :
              ~Registry!Accepted(f) /\ Served' = [Served EXCEPT ![f] = s]
<1> USE DEF TypeOK
<1>1. ASSUME NEW f \in Sources,
             \A g \in Sources \ {f} : (g \in files' <=> g \in files) /\ bytes'[g] = bytes[g]
      PROVE  \E s \in Requests \cup {Nobody, Damaged} :
                Served' = [Served EXCEPT ![f] = s]
  <2> DEFINE s == ServedOf(f \in files', bytes'[f])
  <2>1. s \in Requests \cup {Nobody, Damaged}
    BY ServedFacts
  <2>2. \A g \in Sources \ {f} :
          ServedOf(g \in files', bytes'[g]) = ServedOf(g \in files, bytes[g])
    <3> SUFFICES ASSUME NEW g \in Sources \ {f}
                 PROVE  ServedOf(g \in files', bytes'[g]) = ServedOf(g \in files, bytes[g])
      OBVIOUS
    <3>1. (g \in files') = (g \in files) /\ bytes'[g] = bytes[g]
      BY <1>1
    <3> QED
      BY <3>1
  <2>3. Served' = [g \in Sources |-> IF g = f THEN s ELSE ServedOf(g \in files, bytes[g])]
    BY <2>2, ServedFacts
  <2>4. Served = [g \in Sources |-> ServedOf(g \in files, bytes[g])]
    BY ServedFacts
  <2> HIDE DEF s
  <2> QED
    BY <2>1, <2>3, <2>4
<1>2. ASSUME NEW f \in Sources,
             \/ pc[p] \in {"open", "copy"} /\ f = Current(p)
             \/ pc[p] = "cleanup" /\ stored[p] # <<>> /\ f = Head(stored[p])
      PROVE  \E s \in Requests \cup {Nobody, Damaged} :
                ~Registry!Accepted(f) /\ Served' = [Served EXCEPT ![f] = s]
  <2>1. ~Registry!Accepted(f)
    BY <1>2, NotPromised
  <2>2. \A g \in Sources \ {f} :
          (g \in files' <=> g \in files) /\ bytes'[g] = bytes[g]
    BY <1>2, ElementsTouched, FileFacts
  <2> QED
    BY <1>1, <2>1, <2>2
<1>3. ASSUME ~\E f \in Sources :
                \/ pc[p] \in {"open", "copy"} /\ f = Current(p)
                \/ pc[p] = "cleanup" /\ stored[p] # <<>> /\ f = Head(stored[p])
      PROVE  Served' = Served
  <2>1. \A g \in Sources : (g \in files') = (g \in files) /\ bytes'[g] = bytes[g]
    <3> SUFFICES ASSUME NEW g \in Sources
                 PROVE  (g \in files' <=> g \in files) /\ bytes'[g] = bytes[g]
      OBVIOUS
    <3>1. /\ pc[p] \in {"open", "copy"} => g # Current(p)
          /\ pc[p] = "cleanup" /\ stored[p] # <<>> => g # Head(stored[p])
      BY <1>3
    <3> QED
      BY <3>1, ElementsTouched, FileFacts
  <2>2. \A g \in Sources :
          ServedOf(g \in files', bytes'[g]) = ServedOf(g \in files, bytes[g])
    BY <2>1
  <2> QED
    BY <2>2, ServedFacts
<1> QED
  BY <1>2, <1>3

\* What a step of a handler tells its client, if anything.
LEMMA VerdictSteps ==
  ASSUME TypeOK, Returned, Answered, NEW p \in Requests, Handle(p)
  PROVE  \/ Verdict' = Verdict
         \/ Verdict[p] = "pending" /\ Verdict' = [Verdict EXCEPT ![p] = "refused"]
         \/ Accept(p) /\ answer'[p] = "created"
<1> USE DEF TypeOK
<1>1. \A q \in Requests : q # p => Verdict'[q] = Verdict[q]
  BY OthersUnchanged DEF Verdict
<1>0. /\ Verdict = [q \in Requests |-> Verdict[q]]
      /\ Verdict' = [q \in Requests |-> Verdict'[q]]
  BY DEF Verdict
<1>2. ASSUME Verdict'[p] = Verdict[p] PROVE Verdict' = Verdict
  BY <1>0, <1>1, <1>2
<1>3. ASSUME pc[p] \in Running, answer'[p] \in RolledBack \cup {"malformed", "nothing", "nolocation"}
      PROVE  Verdict[p] = "pending" /\ Verdict' = [Verdict EXCEPT ![p] = "refused"]
  <2>1. Verdict[p] = "pending" /\ Verdict'[p] = "refused"
    BY <1>3 DEF Answered, Verdict, RolledBack
  <2> QED
    BY <1>0, <1>1, <2>1
<1>4. CASE GoesOn(p) \/ Removes(p) \/ EndCleanup(p)
  <2>1. answer' = answer /\ package' = package
    BY <1>4 DEF GoesOn, Removes, EndCleanup
  <2> QED
    BY <1>2, <2>1 DEF Verdict
<1>5. CASE CloseWriter(p)
  <2>1. answer' = answer /\ answer[p] = "none"
    BY <1>5 DEF CloseWriter, Answered, Running
  <2> QED
    BY <1>2, <2>1 DEF Verdict
<1>6. CASE RollsBack(p)
  BY <1>3, <1>6 DEF RollsBack, CleanupStoredElements, Answer
<1>7. CASE pc[p] = "parts" /\ answer'[p] \in {"malformed", "created", "nothing", "nolocation"}
  BY <1>3, <1>7, AcceptedBy DEF Running
<1> QED
  BY <1>4, <1>5, <1>6, <1>7, AnswerSteps

\* An archive that is accepted is served, and no other publish of it has been
\* accepted.
LEMMA AcceptSteps ==
  ASSUME TypeOK, Returned, Answered, Kept, Sole, NEW p \in Requests, Accept(p),
         answer'[p] = "created"
  PROVE  \E f \in Sources : Registry!Accept(p, f)
<1> USE DEF TypeOK
<1>1. /\ pc[p] = "parts" /\ package[p] # "none" /\ UNCHANGED <<storage, package>>
      /\ answer' = [answer EXCEPT ![p] = "created"]
  <2>1. \E a : answer' = [answer EXCEPT ![p] = a]
    BY DEF Accept, Stop, Answer
  <2> QED
    BY <2>1 DEF Accept
<1>2. PICK f \in Sources : f = package[p]
  BY <1>1
<1>3. Claims(p) /\ answer[p] = "none"
  BY <1>1 DEF Claims, Sole, Answered, Running
<1>4. f \in files /\ bytes[f] = Whole(p)
  BY <1>2, <1>3 DEF Kept
<1>5. Served[f] = p
  <2>1. (f \in files) = TRUE
    BY <1>4
  <2> QED
    BY <1>4, <2>1, ServedFacts
<1>6. Served' = Served
  BY <1>1, ServedFacts DEF storage
<1>7. Verdict[p] = "pending" /\ Verdict' = [Verdict EXCEPT ![p] = f]
  BY <1>1, <1>2, <1>3 DEF Verdict
<1>8. ASSUME NEW q \in Requests, Verdict[q] = f PROVE FALSE
  <2>1. answer[q] = "created" /\ package[q] = f
    BY <1>8 DEF Verdict, Sources
  <2>2. Claims(q)
    BY <2>1 DEF Claims, Sole, Published, Sources
  <2>3. bytes[f] = Whole(q)
    BY <2>1, <2>2 DEF Kept
  <2> QED
    BY <1>3, <1>4, <2>1, <2>3, WholeFacts
<1>9. ~Registry!Accepted(f)
  BY <1>8 DEF Registry!Accepted
<1> QED
  BY <1>5, <1>6, <1>7, <1>9 DEF Registry!Accept

\* Requests that are told the same, while what is served changes as it may.
LEMMA RejectSteps ==
  ASSUME NEW P \in SUBSET {p \in Requests : Verdict[p] = "pending"},
         NEW why \in {"refused", "lost"},
         Verdict' = [p \in Requests |-> IF p \in P THEN why ELSE Verdict[p]],
         \/ Served' = Served
         \/ \E f \in Sources, s \in Requests \cup {Nobody, Damaged} :
              ~Registry!Accepted(f) /\ Served' = [Served EXCEPT ![f] = s]
  PROVE  Registry!Reject
  BY DEF Registry!Reject

----------------------------------------------------------------------------
RegistryInv == IInv /\ Answered /\ Sole

\* Every step of the publish endpoint is one of the registry, or none.
LEMMA StepsImplement ==
  RegistryInv /\ [Next]_vars => [Registry!Next]_(Registry!vars)
<1> SUFFICES ASSUME RegistryInv, [Next]_vars
             PROVE  \/ Registry!Next
                    \/ Served' = Served /\ Verdict' = Verdict
  BY DEF Registry!vars
<1> USE DEF RegistryInv, IInv, TypeOK
<1>1. ASSUME NEW p \in Requests, Handle(p)
      PROVE  Registry!Next \/ (Served' = Served /\ Verdict' = Verdict)
  <2>1. \/ Served' = Served
        \/ \E f \in Sources, s \in Requests \cup {Nobody, Damaged} :
             ~Registry!Accepted(f) /\ Served' = [Served EXCEPT ![f] = s]
    BY <1>1, ServedSteps
  <2>2. CASE Verdict' = Verdict
    BY <2>1, <2>2 DEF Registry!Next, Registry!Change
  <2>3. CASE Verdict[p] = "pending" /\ Verdict' = [Verdict EXCEPT ![p] = "refused"]
    <3> DEFINE P == {p}
    <3>1. P \in SUBSET {q \in Requests : Verdict[q] = "pending"}
      BY <2>3
    <3>2. Verdict' = [q \in Requests |-> IF q \in P THEN "refused" ELSE Verdict[q]]
      BY <2>3 DEF Verdict
    <3> HIDE DEF P
    <3>3. Registry!Reject
      BY <2>1, <3>1, <3>2, RejectSteps
    <3>4. Registry!Next
      BY <3>3 DEF Registry!Next
    <3> QED
      BY <3>4
  <2>4. CASE Accept(p) /\ answer'[p] = "created"
    <3>1. \E f \in Sources : Registry!Accept(p, f)
      BY <2>4, AcceptSteps
    <3>2. Registry!Next
      BY <3>1 DEF Registry!Next
    <3> QED
      BY <3>2
  <2> QED
    BY <1>1, <2>2, <2>3, <2>4, VerdictSteps
<1>2. ASSUME UNCHANGED storage PROVE Served' = Served
  BY <1>2, ServedFacts DEF storage
<1>3. ASSUME NEW p \in Requests, RefuseRequest(p) PROVE Registry!Next
  <2> DEFINE P == {p}
  <2>1. answer[p] = "none" /\ package' = package /\ UNCHANGED storage
        /\ answer' = [answer EXCEPT ![p] = "invalid"]
    BY <1>3 DEF RefuseRequest, Stop, Answer, Answered
  <2>2. P \in SUBSET {q \in Requests : Verdict[q] = "pending"}
    BY <2>1 DEF Verdict
  <2>3. Verdict' = [q \in Requests |-> IF q \in P THEN "refused" ELSE Verdict[q]]
    BY <2>1 DEF Verdict
  <2> HIDE DEF P
  <2>4. Registry!Reject
    BY <1>2, <2>1, <2>2, <2>3, RejectSteps
  <2> QED
    BY <2>4 DEF Registry!Next
<1>4. ASSUME NEW p \in Requests, Receive(p) PROVE Served' = Served /\ Verdict' = Verdict
  BY <1>2, <1>4 DEF Receive, Verdict
<1>5. ASSUME Crash PROVE Registry!Next
  <2> DEFINE P == {p \in Requests : Active(p) /\ answer[p] = "none"}
  <2>1. /\ package' = package /\ UNCHANGED storage
        /\ answer' = [p \in Requests |-> IF p \in P THEN "lost" ELSE answer[p]]
    BY <1>5 DEF Crash
  <2>2. P \in SUBSET {q \in Requests : Verdict[q] = "pending"}
    BY DEF Verdict
  <2>3. Verdict' = [q \in Requests |-> IF q \in P THEN "lost" ELSE Verdict[q]]
    BY <2>1 DEF Verdict
  <2> HIDE DEF P
  <2>4. Registry!Reject
    BY <1>2, <2>1, <2>2, <2>3, RejectSteps
  <2> QED
    BY <2>4 DEF Registry!Next
<1>6. UNCHANGED vars => Served' = Served /\ Verdict' = Verdict
  BY <1>2 DEF vars, Verdict
<1> QED
  BY <1>1, <1>3, <1>4, <1>5, <1>6 DEF Next, Quiet

\* Where publishes do not overlap and Exists misses no file, the publish endpoint
\* implements ReleaseRegistry: an archive is a register that is written until the
\* first publish of it is accepted and never after, and who is told 201 is
\* served.
THEOREM RegistryImplemented ==
  MaxActive = 1 /\ "head" \notin FaultKinds => (Spec => RegistrySpec)
<1> SUFFICES ASSUME MaxActive = 1, "head" \notin FaultKinds
             PROVE  Spec => RegistrySpec
  OBVIOUS
<1>1. Init => RegistryInv
  <2> SUFFICES ASSUME Init PROVE RegistryInv
    OBVIOUS
  <2>1. TypeOK /\ Uploading
    BY TypedInit
  <2>2. Returned /\ Met /\ CopiedAlone /\ Kept /\ Answered /\ Sole
    BY DEF Init, Returned, Met, CopiedAlone, Kept, Claims, Published, Active,
       Answered, Sole, Alone
  <2> QED
    BY <2>1, <2>2 DEF RegistryInv, IInv
<1>2. RegistryInv /\ [Next]_vars => RegistryInv'
  BY TypedNext, UploadingNext, ReturnedNext, MetNext, CopiedAloneNext, KeptNext,
     AnsweredNext, SoleNext
  DEF RegistryInv, IInv, NoneMissed
<1>3. Init => Registry!Init
  <2> SUFFICES ASSUME Init PROVE Registry!Init
    OBVIOUS
  <2>1. \A f \in Sources : f \notin files
    BY DEF Init
  <2> QED
    BY <2>1 DEF Init, Registry!Init, Served, Verdict
<1>4. RegistryInv /\ [Next]_vars => [Registry!Next]_(Registry!vars)
  BY StepsImplement
<1> QED
  BY <1>1, <1>2, <1>3, <1>4, PTL DEF Spec, RegistrySpec, Registry!Spec
=============================================================================
