---------------------------- MODULE RollbackProofs ----------------------------
(***************************************************************************)
(* Proofs about what a publish that is refused leaves behind, for every    *)
(* value of Publish's constants.                                           *)
(***************************************************************************)
EXTENDS PublishProofs

----------------------------------------------------------------------------
\* Invariants that hold however publishes interleave.

\* A request that has not ended has not been answered, but for one that is
\* cleaning up: it has been refused.
Answered ==
  \A p \in Requests :
    /\ pc[p] \in Running \cup {"idle"} => answer[p] = "none"
    /\ pc[p] = "cleanup" => answer[p] \in RolledBack

\* Every byte of a part that a request has sent is in the file it is writing, or
\* in one that it has stored or is going to remove or could not remove, as long
\* as the request can still be refused.
Traced ==
  \A p \in Requests, f \in Elements : p \in Range(bytes[f]) =>
     \/ f \in Range(stored[p])
     \/ pc[p] = "copy" /\ f = Current(p)
     \/ f \in left[p]
     \/ pc[p] = "done" /\ answer[p] \notin RolledBack

\* Ranges of the sequences the cleanup works on.
LEMMA RangeFacts ==
  ASSUME NEW S, NEW s \in Seq(S)
  PROVE  /\ \A t \in Seq(S) : Range(s \o t) = Range(s) \cup Range(t)
         /\ \A x \in S : Range(Append(s, x)) = Range(s) \cup {x}
         /\ s # <<>> => Range(s) = {Head(s)} \cup Range(Tail(s))
         /\ Range(s) \subseteq S
<1>1. ASSUME NEW t \in Seq(S) PROVE Range(s \o t) = Range(s) \cup Range(t)
  <2>1. \A i \in 1..Len(s) : (s \o t)[i] = s[i] /\ i \in DOMAIN (s \o t)
    OBVIOUS
  <2>2. \A i \in 1..Len(t) :
          (s \o t)[i + Len(s)] = t[i] /\ i + Len(s) \in DOMAIN (s \o t)
    OBVIOUS
  <2>3. \A i \in DOMAIN (s \o t) : (s \o t)[i] \in Range(s) \cup Range(t)
    BY DEF Range
  <2>4. ASSUME NEW x \in Range(s) PROVE x \in Range(s \o t)
    <3>1. PICK i \in 1..Len(s) : s[i] = x
      BY DEF Range
    <3> QED
      BY <2>1, <3>1 DEF Range
  <2>5. ASSUME NEW x \in Range(t) PROVE x \in Range(s \o t)
    <3>1. PICK i \in 1..Len(t) : t[i] = x
      BY DEF Range
    <3> QED
      BY <2>2, <3>1 DEF Range
  <2>6. Range(s \o t) \subseteq Range(s) \cup Range(t)
    BY <2>3 DEF Range
  <2> QED
    BY <2>4, <2>5, <2>6
<1>2. ASSUME NEW x \in S PROVE Range(Append(s, x)) = Range(s) \cup {x}
  <2>1. \A i \in 1..Len(s) : Append(s, x)[i] = s[i]
    OBVIOUS
  <2>2. DOMAIN Append(s, x) = 1..Len(s) + 1 /\ Append(s, x)[Len(s) + 1] = x
    OBVIOUS
  <2> QED
    BY <2>1, <2>2 DEF Range
<1>3. ASSUME s # <<>> PROVE Range(s) = {Head(s)} \cup Range(Tail(s))
  <2>1. DOMAIN s = 1..Len(s) /\ Len(s) > 0 /\ Head(s) = s[1]
    BY <1>3
  <2>2. DOMAIN Tail(s) = 1..Len(s) - 1 /\ \A i \in 1..Len(s) - 1 : Tail(s)[i] = s[i + 1]
    BY <1>3
  <2>3. \A i \in 1..Len(s) :
          i = 1 \/ (i - 1 \in 1..Len(s) - 1 /\ s[i] = Tail(s)[i - 1])
    BY <2>1, <2>2
  <2>4. ASSUME NEW x \in Range(s) PROVE x = Head(s) \/ x \in Range(Tail(s))
    <3>1. PICK i \in 1..Len(s) : s[i] = x
      BY <2>1 DEF Range
    <3> QED
      BY <2>1, <2>2, <2>3, <3>1 DEF Range
  <2>5. \A i \in 1..Len(s) - 1 : i + 1 \in 1..Len(s)
    BY <2>1
  <2>6. Head(s) \in Range(s) /\ \A x \in Range(Tail(s)) : x \in Range(s)
    BY <2>1, <2>2, <2>5 DEF Range
  <2> QED
    BY <2>4, <2>6
<1>4. Range(s) \subseteq S
  BY DEF Range
<1> QED
  BY <1>1, <1>2, <1>3, <1>4

\* Bytes of a part get into an element only while its handler copies it, and the
\* cleanup takes all of them out of the file it removes (publish.go:228-236).
LEMMA BytesSteps ==
  ASSUME TypeOK, Uploading, NEW p \in Requests, Handle(p), NEW f \in Elements,
         NEW q \in Requests, q \in Range(bytes'[f])
  PROVE  \/ /\ q \in Range(bytes[f])
            /\ RemoveNext(p) => f # Head(stored[p])
         \/ q = p /\ pc[p] = "copy" /\ f = Current(p)
<1> USE FileFacts DEF TypeOK
<1>0. q # Nobody /\ \A n \in Nat : q \in Range(Prefix(p, n)) => q = p
  BY NobodyAssumption DEF Range, Prefix
<1>1. q \notin Range(Empty) /\ (q \in Range(Whole(p)) => q = p)
  BY <1>0 DEF Range, Empty, Whole, Prefix
<1>2. CASE pc[p] \in {"open", "copy"} /\ f = Current(p)
  <2>0. ~RemoveNext(p)
    BY <1>2 DEF RemoveNext
  <2>1. OpenWriter(p) \/ OpenFails(p) \/ CopyChunk(p) \/ CopyFails(p)
          \/ CloseWriter(p) \/ CloseFails(p)
    BY <1>2 DEF Handle, MalformedForm, UnsupportedPart, ElementExists,
       ElementIsNew, OpenArchive, OpenArchiveFails, ExtractManifest,
       ExtractManifestFails, ArchiveChanged, EndExtract, Accept,
       RequiredJsonMissing, NothingToStore, RemoveNext, RemoveFails, EndCleanup
  <2>2. CASE OpenWriter(p)
    BY <1>1, <1>2, <2>0, <2>2 DEF OpenWriter, Put, storage
  <2>3. CASE OpenFails(p)
    BY <2>0, <2>3 DEF OpenFails, storage
  <2>4. CASE CopyChunk(p)
    <3>1. \/ bytes' = bytes
          \/ bytes'[f] = [bytes[f] EXCEPT ![at[p] + 1] = p]
      BY <1>2, <2>4 DEF CopyChunk
    <3>2. Range([bytes[f] EXCEPT ![at[p] + 1] = p]) \subseteq Range(bytes[f]) \cup {p}
      BY DEF Range
    <3>3. pc[p] = "copy"
      BY <2>4 DEF CopyChunk
    <3> QED
      BY <1>2, <2>0, <3>1, <3>2, <3>3
  <2>5. CASE CopyFails(p)
    <3>1. bytes'[f] = bytes[f] \/ bytes'[f] = Prefix(p, at[p])
      BY <1>2, <2>5 DEF CopyFails, Put, storage
    <3>2. at[p] \in Nat /\ pc[p] = "copy"
      BY <2>5, ChunksAssumption DEF CopyFails
    <3> QED
      BY <1>0, <1>2, <2>0, <3>1, <3>2
  <2>6. CASE CloseWriter(p) \/ CloseFails(p)
    <3>1. bytes'[f] = bytes[f] \/ bytes'[f] = Whole(p)
      BY <1>2, <2>6 DEF CloseWriter, CloseFails, Put, storage
    <3>2. pc[p] = "copy"
      BY <2>6 DEF CloseWriter, CloseFails
    <3> QED
      BY <1>1, <1>2, <2>0, <3>1, <3>2
  <2> QED
    BY <2>1, <2>2, <2>3, <2>4, <2>5, <2>6
<1>3. CASE pc[p] = "cleanup" /\ stored[p] # <<>> /\ f = Head(stored[p])
  <2>1. RemoveNext(p) \/ RemoveFails(p)
    BY <1>3 DEF Handle, MalformedForm, UnsupportedPart, ElementExists,
       ElementIsNew, OpenWriter, OpenFails, CopyChunk, CopyFails, CloseWriter,
       CloseFails, OpenArchive, OpenArchiveFails, ExtractManifest,
       ExtractManifestFails, ArchiveChanged, EndExtract, Accept,
       RequiredJsonMissing, NothingToStore, EndCleanup
  <2>2. RemoveNext(p) => bytes'[f] = Empty
    BY <1>3 DEF RemoveNext
  <2>3. RemoveFails(p) => bytes' = bytes
    BY DEF RemoveFails, storage
  <2> QED
    BY <1>1, <2>1, <2>2, <2>3
<1>4. CASE /\ pc[p] \in {"open", "copy"} => f # Current(p)
           /\ pc[p] = "cleanup" /\ stored[p] # <<>> => f # Head(stored[p])
  <2>1. bytes'[f] = bytes[f]
    BY <1>4, ElementsTouched
  <2>2. RemoveNext(p) => f # Head(stored[p])
    BY <1>4 DEF RemoveNext
  <2> QED
    BY <2>1, <2>2
<1> QED
  BY <1>2, <1>3, <1>4

\* A handler adds to what could not be removed only what it fails to remove.
LEMMA LeftSteps ==
  ASSUME TypeOK, NEW p \in Requests, Handle(p)
  PROVE  /\ \A q \in Requests : left[q] \subseteq left'[q]
         /\ left' = left \/ RemoveFails(p)
<1>1. left' = left \/ RemoveFails(p)
  BY DEF Handle, MalformedForm, UnsupportedPart, ElementExists, ElementIsNew,
       OpenWriter, OpenFails, CopyChunk, CopyFails, CloseWriter, CloseFails,
       OpenArchive, OpenArchiveFails, ExtractManifest, ExtractManifestFails,
       ArchiveChanged, EndExtract, Accept, RequiredJsonMissing, NothingToStore,
       RemoveNext, EndCleanup, history
<1>2. RemoveFails(p) => \A q \in Requests : left[q] \subseteq left'[q]
  BY DEF RemoveFails, TypeOK
<1> QED
  BY <1>1, <1>2

\* What the handler does with its answer.
LEMMA AnswerSteps ==
  ASSUME TypeOK, NEW p \in Requests, Handle(p)
  PROVE  \/ GoesOn(p) \/ CloseWriter(p) \/ RollsBack(p) \/ Removes(p)
         \/ EndCleanup(p)
         \/ /\ pc[p] = "parts" /\ Return(p) /\ UNCHANGED storage
            /\ answer'[p] \in {"malformed", "created", "nothing", "nolocation"}
<1>1. MalformedForm(p) \/ Accept(p) \/ NothingToStore(p)
      => /\ pc[p] = "parts" /\ Return(p) /\ UNCHANGED storage
         /\ answer'[p] \in {"malformed", "created", "nothing", "nolocation"}
  BY DEF MalformedForm, Accept, NothingToStore, Stop, Answer, TypeOK
<1>2. UnsupportedPart(p) \/ ElementExists(p) \/ RequiredJsonMissing(p)
      => RollsBack(p)
  BY DEF UnsupportedPart, ElementExists, RequiredJsonMissing, RollsBack,
         RolledBack, Running
<1>3. OpenFails(p) \/ CopyFails(p) \/ CloseFails(p) => RollsBack(p)
  BY DEF OpenFails, CopyFails, CloseFails, RollsBack, RolledBack, Running
<1>4. RemoveNext(p) \/ RemoveFails(p) => Removes(p)
  BY DEF RemoveNext, RemoveFails, Removes
<1>5. ElementIsNew(p) \/ OpenWriter(p) \/ CopyChunk(p) \/ OpenArchive(p)
        \/ OpenArchiveFails(p) \/ EndExtract(p)
      => GoesOn(p)
  BY DEF ElementIsNew, OpenWriter, CopyChunk, OpenArchive, OpenArchiveFails,
         EndExtract, GoesOn, Running
<1>6. ExtractManifest(p) \/ ExtractManifestFails(p) \/ ArchiveChanged(p)
      => GoesOn(p)
  BY DEF ExtractManifest, ExtractManifestFails, ArchiveChanged, GoesOn, Running
<1> QED
  BY <1>1, <1>2, <1>3, <1>4, <1>5, <1>6 DEF Handle

\* Only handlers that are cleaning up, or have returned, have an answer.
LEMMA AnsweredNext == TypeOK /\ Answered /\ [Next]_vars => Answered'
<1> SUFFICES ASSUME TypeOK, Answered, [Next]_vars, NEW q \in Requests
             PROVE  /\ pc'[q] \in Running \cup {"idle"} => answer'[q] = "none"
                    /\ pc'[q] = "cleanup" => answer'[q] \in RolledBack
  BY DEF Answered
<1> USE DEF TypeOK, Answered, GoTo, Return
<1>1. ASSUME NEW p \in Requests, RefuseRequest(p) \/ Receive(p)
      PROVE  /\ pc'[q] \in Running \cup {"idle"} => answer'[q] = "none"
             /\ pc'[q] = "cleanup" => answer'[q] \in RolledBack
  BY <1>1 DEF RefuseRequest, Receive, Stop, Answer, Running
<1>2. ASSUME NEW p \in Requests, Handle(p)
      PROVE  /\ pc'[q] \in Running \cup {"idle"} => answer'[q] = "none"
             /\ pc'[q] = "cleanup" => answer'[q] \in RolledBack
  <2>1. CASE p # q
    BY <1>2, <2>1, OthersUnchanged
  <2>2. CASE p = q
    <3>1. CASE GoesOn(p)
      BY <2>2, <3>1 DEF GoesOn, Running
    <3>2. CASE CloseWriter(p)
      BY <2>2, <3>2 DEF CloseWriter, Running
    <3>3. CASE RollsBack(p)
      BY <2>2, <3>3 DEF RollsBack, CleanupStoredElements, Answer, Running
    <3>4. CASE Removes(p)
      BY <2>2, <3>4 DEF Removes
    <3>5. CASE Return(p)
      BY <2>2, <3>5 DEF Running
    <3> QED
      BY <1>2, <3>1, <3>2, <3>3, <3>4, <3>5, AnswerSteps DEF EndCleanup
  <2> QED
    BY <2>1, <2>2
<1>3. CASE Crash
  BY <1>3 DEF Crash, Active, Running
<1>4. CASE UNCHANGED vars
  BY <1>4 DEF vars
<1> QED
  BY <1>1, <1>2, <1>3, <1>4 DEF Next, Quiet

\* Bytes stay traced when their handler takes a step.
LEMMA TracedOwn ==
  ASSUME TypeOK, Uploading, Answered, Traced, NEW p \in Requests, Handle(p),
         NEW f \in Elements, p \in Range(bytes'[f])
  PROVE  \/ f \in Range(stored'[p])
         \/ pc'[p] = "copy" /\ f = Head(rest'[p])
         \/ f \in left'[p]
         \/ pc'[p] = "done" /\ answer'[p] \notin RolledBack
<1> USE DEF TypeOK
<1>1. /\ \/ f \in Range(stored[p])
         \/ pc[p] = "copy" /\ f = Current(p)
         \/ f \in left[p]
      /\ RemoveNext(p) => f # Head(stored[p])
  <2>1. RemoveNext(p) => pc[p] # "copy"
    BY DEF RemoveNext
  <2>2. pc[p] # "done"
    BY HandleCases
  <2> QED
    BY <2>1, <2>2, BytesSteps DEF Traced
<1>2. f \in left[p] => f \in left'[p]
  BY LeftSteps
<1>3. stored[p] \in Seq(Files) /\ ExtractedManifests \in Seq(Files)
  BY ManifestsRemoved, ManifestsAreFiles
<1>6. \A s \in Seq(Files) : Range(s) \subseteq Range(s \o ExtractedManifests)
  BY <1>3, RangeFacts
<1>4. CASE pc[p] = "copy" /\ f = Current(p)
  <2>1. Current(p) \in Files /\ Append(stored[p], Current(p)) \in Seq(Files)
    BY <1>4, CurrentTyped
  <2>2. Current(p) \in Range(Append(stored[p], Current(p)))
    BY <1>3, <2>1, RangeFacts
  <2>7. Current(p) \in Range(Append(stored[p], Current(p)) \o ExtractedManifests)
    BY <1>6, <2>1, <2>2
  <2>3. CopyChunk(p) \/ CopyFails(p) \/ CloseWriter(p) \/ CloseFails(p)
    BY <1>4 DEF Handle, MalformedForm, UnsupportedPart, ElementExists,
       ElementIsNew, OpenWriter, OpenFails, OpenArchive, OpenArchiveFails,
       ExtractManifest, ExtractManifestFails, ArchiveChanged, EndExtract, Accept,
       RequiredJsonMissing, NothingToStore, RemoveNext, RemoveFails, EndCleanup
  <2>4. CopyChunk(p) => pc'[p] = "copy" /\ rest' = rest
    BY <1>4 DEF CopyChunk
  <2>5. CopyFails(p) \/ CloseFails(p)
        => stored'[p] = Append(stored[p], Current(p)) \o ExtractedManifests
    BY DEF CopyFails, CloseFails, CleanupStoredElements
  <2>6. CloseWriter(p) => stored'[p] = Append(stored[p], Current(p))
    BY DEF CloseWriter
  <2> QED
    BY <1>4, <2>2, <2>3, <2>4, <2>5, <2>6, <2>7 DEF Current
<1>5. CASE f \in Range(stored[p])
  <2>1. CASE GoesOn(p)
    BY <1>5, <2>1 DEF GoesOn
  <2>2. CASE CloseWriter(p)
    <3>1. Current(p) \in Files /\ stored'[p] = Append(stored[p], Current(p))
      BY <2>2, CurrentTyped DEF CloseWriter
    <3> QED
      BY <1>3, <1>5, <3>1, RangeFacts
  <2>3. CASE RollsBack(p)
    <3>1. \/ stored'[p] = stored[p] \o ExtractedManifests
          \/ /\ pc[p] \in {"open", "copy"}
             /\ stored'[p] = Append(stored[p], Current(p)) \o ExtractedManifests
      BY <2>3 DEF RollsBack, CleanupStoredElements
    <3>2. CASE stored'[p] = stored[p] \o ExtractedManifests
      BY <1>3, <1>5, <3>2, RangeFacts
    <3>3. CASE /\ pc[p] \in {"open", "copy"}
               /\ stored'[p] = Append(stored[p], Current(p)) \o ExtractedManifests
      <4>1. Current(p) \in Files /\ Append(stored[p], Current(p)) \in Seq(Files)
        BY <3>3, CurrentTyped
      <4>2. f \in Range(Append(stored[p], Current(p)))
        BY <1>3, <1>5, <4>1, RangeFacts
      <4>3. f \in Range(Append(stored[p], Current(p)) \o ExtractedManifests)
        BY <1>6, <4>1, <4>2
      <4> QED
        BY <3>3, <4>3
    <3> QED
      BY <3>1, <3>2, <3>3
  <2>4. CASE Removes(p)
    <3>1. stored[p] # <<>> /\ stored'[p] = Tail(stored[p])
      BY <2>4 DEF Removes
    <3>2. f = Head(stored[p]) \/ f \in Range(stored'[p])
      BY <1>3, <1>5, <3>1, RangeFacts
    <3>3. RemoveNext(p) \/ RemoveFails(p)
      BY <2>4 DEF Removes, Handle, MalformedForm, UnsupportedPart, ElementExists,
         ElementIsNew, OpenWriter, OpenFails, CopyChunk, CopyFails, CloseWriter,
         CloseFails, OpenArchive, OpenArchiveFails, ExtractManifest,
         ExtractManifestFails, ArchiveChanged, EndExtract, Accept,
         RequiredJsonMissing, NothingToStore, EndCleanup
    <3>4. RemoveFails(p) => Head(stored[p]) \in left'[p]
      BY DEF RemoveFails
    <3> QED
      BY <1>1, <3>2, <3>3, <3>4
  <2>5. CASE EndCleanup(p)
    BY <1>5, <2>5 DEF EndCleanup, Range
  <2>6. CASE Return(p) /\ answer'[p] \in {"malformed", "created", "nothing", "nolocation"}
    BY <2>6 DEF Return, GoTo, RolledBack
  <2> QED
    BY <2>1, <2>2, <2>3, <2>4, <2>5, <2>6, AnswerSteps
<1> QED
  BY <1>1, <1>2, <1>4, <1>5

\* Every byte of a request stays traced.
LEMMA TracedNext ==
  TypeOK /\ Uploading /\ Returned /\ Answered /\ Traced /\ [Next]_vars
    => Traced'
<1> SUFFICES ASSUME TypeOK, Uploading, Returned, Answered, Traced, [Next]_vars,
                    NEW q \in Requests, NEW f \in Elements, q \in Range(bytes'[f])
             PROVE  \/ f \in Range(stored'[q])
                    \/ pc'[q] = "copy" /\ f = Head(rest'[q])
                    \/ f \in left'[q]
                    \/ pc'[q] = "done" /\ answer'[q] \notin RolledBack
  BY DEF Traced, Current
<1> USE DEF TypeOK
<1>1. ASSUME UNCHANGED <<bytes, left, answer>>, UNCHANGED <<pc[q], rest[q]>>,
             stored'[q] = stored[q]
      PROVE  \/ f \in Range(stored'[q])
             \/ pc'[q] = "copy" /\ f = Head(rest'[q])
             \/ f \in left'[q]
             \/ pc'[q] = "done" /\ answer'[q] \notin RolledBack
  BY <1>1 DEF Traced, Current
<1>2. ASSUME NEW p \in Requests, Handle(p)
      PROVE  \/ f \in Range(stored'[q])
             \/ pc'[q] = "copy" /\ f = Head(rest'[q])
             \/ f \in left'[q]
             \/ pc'[q] = "done" /\ answer'[q] \notin RolledBack
  <2>1. CASE p = q
    BY <1>2, <2>1, TracedOwn
  <2>2. CASE p # q
    <3>1. q \in Range(bytes[f])
      BY <1>2, <2>2, BytesSteps
    <3>2. left[q] \subseteq left'[q]
      BY <1>2, LeftSteps
    <3>3. /\ pc'[q] = pc[q] /\ rest'[q] = rest[q] /\ stored'[q] = stored[q]
          /\ answer'[q] = answer[q]
      BY <1>2, <2>2, OthersUnchanged
    <3> QED
      BY <3>1, <3>2, <3>3 DEF Traced, Current
  <2> QED
    BY <2>1, <2>2
<1>3. ASSUME NEW p \in Requests, RefuseRequest(p)
      PROVE  \/ f \in Range(stored'[q])
             \/ pc'[q] = "copy" /\ f = Head(rest'[q])
             \/ f \in left'[q]
             \/ pc'[q] = "done" /\ answer'[q] \notin RolledBack
  <2>1. UNCHANGED <<bytes, left>> /\ pc'[p] = "done" /\ answer'[p] = "invalid"
    BY <1>3 DEF RefuseRequest, Stop, Return, GoTo, Answer, storage
  <2>2. p # q => /\ pc'[q] = pc[q] /\ rest'[q] = rest[q] /\ stored'[q] = stored[q]
                 /\ answer'[q] = answer[q]
    BY <1>3 DEF RefuseRequest, Stop, Return, GoTo, Answer
  <2> QED
    BY <2>1, <2>2 DEF Traced, Current, RolledBack
<1>4. ASSUME NEW p \in Requests, Receive(p)
      PROVE  \/ f \in Range(stored'[q])
             \/ pc'[q] = "copy" /\ f = Head(rest'[q])
             \/ f \in left'[q]
             \/ pc'[q] = "done" /\ answer'[q] \notin RolledBack
  <2>1. UNCHANGED <<bytes, left, stored, answer>> /\ pc[p] = "idle"
    BY <1>4 DEF Receive, storage
  <2>2. p # q => pc'[q] = pc[q] /\ rest'[q] = rest[q]
    BY <1>4 DEF Receive, GoTo
  <2> QED
    BY <2>1, <2>2 DEF Traced, Current
<1>5. CASE Crash
  <2>1. /\ bytes' = bytes
        /\ left'[q] = IF pc[q] = "cleanup" THEN left[q] \cup Range(stored[q])
                      ELSE left[q]
        /\ pc[q] # "idle" => pc'[q] = "done"
        /\ pc[q] = "idle" => pc'[q] = "idle"
        /\ answer'[q] = IF Active(q) /\ answer[q] = "none" THEN "lost" ELSE answer[q]
    BY <1>5 DEF Crash, Active, storage
  <2>2. CASE pc[q] \in Running
    BY <2>1, <2>2 DEF Answered, Active, Running, RolledBack
  <2>3. CASE pc[q] \in {"idle", "done"}
    <3>1. f \notin Range(stored[q])
      BY <2>3 DEF Returned, Active, Range
    <3> QED
      BY <2>1, <2>3, <3>1 DEF Traced, Active
  <2>4. CASE pc[q] = "cleanup"
    BY <2>1, <2>4 DEF Traced, Active
  <2> QED
    BY <2>2, <2>3, <2>4 DEF Labels, Running
<1>6. CASE UNCHANGED vars
  BY <1>1, <1>6 DEF vars, storage, history
<1> QED
  BY <1>2, <1>3, <1>4, <1>5, <1>6 DEF Next, Quiet

\* However publishes interleave, crash and fail, once a request has been refused
\* and cleaned up after, no byte of a part it sent is in the release, except in
\* files whose removal failed (publish.go:83-107, 214-250).
THEOREM RefusedAreGone == Spec => []RefusedPartsAreGone
<1> DEFINE Inv == TypeOK /\ Uploading /\ Returned /\ Answered /\ Traced
<1>1. Init => Inv
  <2> SUFFICES ASSUME Init PROVE Inv
    OBVIOUS
  <2>1. TypeOK /\ Uploading
    BY TypedInit
  <2>2. Returned /\ Answered
    BY DEF Init, Returned, Answered, Published, Active
  <2>3. \A p \in Requests : p \notin Range(Empty)
    BY NobodyAssumption DEF Range, Empty, Prefix
  <2>4. Traced
    BY <2>3, FileFacts DEF Init, Traced
  <2> QED
    BY <2>1, <2>2, <2>4
<1>2. Inv /\ [Next]_vars => Inv'
  BY TypedNext, UploadingNext, ReturnedNext, AnsweredNext, TracedNext
<1>3. Inv => RefusedPartsAreGone
  <2> SUFFICES ASSUME Inv, NEW p \in Requests, pc[p] = "done",
                      answer[p] \in RolledBack, NEW f \in Elements \ left[p]
               PROVE  p \notin Range(bytes[f])
    BY DEF RefusedPartsAreGone
  <2>1. f \notin Range(stored[p])
    BY DEF Returned, Active, Range
  <2> QED
    BY <2>1 DEF Traced
<1> QED
  BY <1>1, <1>2, <1>3, PTL DEF Spec

----------------------------------------------------------------------------
\* What a publish on its own adds to the release.

\* The files an extraction may write: those the cleanup removes, and those it
\* overlooks.
Extractable == Range(ExtractedManifests) \cup Overlooked

\* The files of the release, while a publish runs alone, are those it found, its
\* own and those of its archive; while it cleans up, those it found, those it is
\* going to remove, those it could not and the manifests it overlooks.
Added ==
  \A p \in Requests : Alone(p) =>
    /\ pc[p] \in Running =>
         files \subseteq before[p] \cup Range(stored[p]) \cup Extractable
                           \cup (IF pc[p] = "copy" THEN {Current(p)} ELSE {})
    /\ pc[p] = "cleanup" =>
         files \subseteq before[p] \cup Range(stored[p]) \cup left[p]
                           \cup Overlooked

\* The cleanup removes Package.swift, Package.json and, except on Maven, the
\* alternates.
LEMMA AllRemoved ==
  Range(ExtractedManifests) =
    IF backend = "maven" THEN {"Package.swift", "Package.json"}
    ELSE {"Package@swift-5.swift", "Package.swift", "Package.json"}
<1>1. /\ <<"Package@swift-5.swift">> \in Seq(Manifests) /\ <<>> \in Seq(Manifests)
      /\ <<"Package.swift", "Package.json">> \in Seq(Manifests)
  BY DEF Manifests
<1>2. /\ Range(<<"Package@swift-5.swift">>) = {"Package@swift-5.swift"}
      /\ Range(<<"Package.swift", "Package.json">>) = {"Package.swift", "Package.json"}
      /\ Range(<<>>) = {}
  BY DEF Range
<1>3. CASE backend = "maven"
  <2>1. ExtractedManifests = <<>> \o <<"Package.swift", "Package.json">>
    BY <1>3 DEF ExtractedManifests
  <2>2. Range(ExtractedManifests) = {} \cup {"Package.swift", "Package.json"}
    BY <1>1, <1>2, <2>1, RangeFacts
  <2> QED
    BY <1>3, <2>2
<1>4. CASE backend # "maven"
  <2>1. ExtractedManifests
          = <<"Package@swift-5.swift">> \o <<"Package.swift", "Package.json">>
    BY <1>4 DEF ExtractedManifests
  <2>3. \A s, t \in Seq(Manifests) : Range(s \o t) = Range(s) \cup Range(t)
    BY RangeFacts
  <2>2. Range(ExtractedManifests)
          = Range(<<"Package@swift-5.swift">>) \cup Range(<<"Package.swift", "Package.json">>)
    BY <1>1, <2>1, <2>3
  <2> QED
    BY <1>2, <1>4, <2>2
<1> QED
  BY <1>3, <1>4

\* Every manifest is extracted to a file the cleanup removes or overlooks.
LEMMA StoredAsExtractable ==
  ASSUME TypeOK, NEW m \in Manifests
  PROVE  StoredAs(m) \in Extractable
<1>1. CASE backend = "file"
  BY <1>1, AllRemoved DEF Extractable, Overlooked, StoredAs, Buffered, Manifests
<1>2. CASE backend = "s3"
  BY <1>2, AllRemoved DEF Extractable, Overlooked, StoredAs, Buffered, Manifests
<1>3. CASE backend = "maven"
  BY <1>3, AllRemoved DEF Extractable, Overlooked, StoredAs, Buffered, Manifests
<1> QED
  BY <1>1, <1>2, <1>3 DEF TypeOK

\* Which those are depends on the backend alone.
LEMMA ExtractableSteps ==
  ASSUME backend' = backend
  PROVE  Extractable' = Extractable /\ Overlooked' = Overlooked
BY DEF Extractable, Overlooked, ExtractedManifests

\* A handler adds to the release the element it is storing, or a manifest.
LEMMA FilesSteps ==
  ASSUME TypeOK, NEW p \in Requests, Handle(p), NEW f \in files'
  PROVE  \/ f \in files /\ (RemoveNext(p) => f # Head(stored[p]))
         \/ pc[p] \in {"open", "copy"} /\ f = Current(p)
         \/ pc[p] = "extract" /\ f \in Extractable
<1> USE DEF TypeOK, Put, storage
<1>1. MalformedForm(p) \/ UnsupportedPart(p) \/ ElementExists(p)
        \/ ElementIsNew(p) \/ OpenFails(p)
      => f \in files /\ ~RemoveNext(p)
  BY DEF MalformedForm, UnsupportedPart, ElementExists, ElementIsNew, OpenFails,
         RemoveNext
<1>2. OpenWriter(p) \/ CopyChunk(p) \/ CopyFails(p) \/ CloseWriter(p) \/ CloseFails(p)
      => \/ f \in files /\ ~RemoveNext(p)
         \/ pc[p] \in {"open", "copy"} /\ f = Current(p)
  <2>1. OpenWriter(p) \/ CopyChunk(p) \/ CopyFails(p) \/ CloseWriter(p) \/ CloseFails(p)
        => pc[p] \in {"open", "copy"} /\ ~RemoveNext(p)
    BY DEF OpenWriter, CopyChunk, CopyFails, CloseWriter, CloseFails, RemoveNext
  <2>2. OpenWriter(p) \/ CopyChunk(p) => f \in files \cup {Current(p)}
    BY DEF OpenWriter, CopyChunk
  <2>3. CopyFails(p) => f \in files \cup {Current(p)}
    BY DEF CopyFails
  <2>4. CloseWriter(p) \/ CloseFails(p) => f \in files \cup {Current(p)}
    BY DEF CloseWriter, CloseFails
  <2> QED
    BY <2>1, <2>2, <2>3, <2>4
<1>3. OpenArchive(p) \/ OpenArchiveFails(p) \/ ArchiveChanged(p) \/ EndExtract(p)
        \/ Accept(p) \/ RequiredJsonMissing(p) \/ NothingToStore(p)
        \/ RemoveFails(p) \/ EndCleanup(p)
      => f \in files /\ (RemoveNext(p) => f # Head(stored[p]))
  <2>1. RemoveNext(p) => files' = files \ {Head(stored[p])}
    BY DEF RemoveNext
  <2> QED
    BY <2>1 DEF OpenArchive, OpenArchiveFails, ArchiveChanged, EndExtract, Accept,
         RequiredJsonMissing, NothingToStore, RemoveFails, EndCleanup
<1>4. ExtractManifest(p) \/ ExtractManifestFails(p)
      => \/ f \in files /\ ~RemoveNext(p)
         \/ pc[p] = "extract" /\ f \in Extractable
  <2>1. ExtractManifest(p) \/ ExtractManifestFails(p)
        => pc[p] = "extract" /\ ~RemoveNext(p)
    BY DEF ExtractManifest, ExtractManifestFails, RemoveNext
  <2>2. \A m \in todo[p] : StoredAs(m) \in Extractable
    BY StoredAsExtractable
  <2>3. ExtractManifest(p) => f \in files \cup Extractable
    BY <2>2 DEF ExtractManifest
  <2>4. ExtractManifestFails(p) => f \in files \cup Extractable
    BY <2>2 DEF ExtractManifestFails
  <2> QED
    BY <2>1, <2>3, <2>4
<1>5. RemoveNext(p) => f \in files /\ f # Head(stored[p])
  BY DEF RemoveNext
<1> QED
  BY <1>1, <1>2, <1>3, <1>4, <1>5 DEF Handle

\* What was there when a request arrived is remembered until its handler returns.
LEMMA BeforeSteps ==
  ASSUME TypeOK, NEW p \in Requests, Handle(p)
  PROVE  before' = before \/ Return(p)
BY DEF Handle, MalformedForm, UnsupportedPart, ElementExists, ElementIsNew,
       OpenWriter, OpenFails, CopyChunk, CopyFails, CloseWriter, CloseFails,
       OpenArchive, OpenArchiveFails, ExtractManifest, ExtractManifestFails,
       ArchiveChanged, EndExtract, Accept, RequiredJsonMissing, NothingToStore,
       RemoveNext, RemoveFails, EndCleanup, Stop, history

\* It stops copying only by closing the writer, or by rolling back.
LEMMA CopySteps ==
  ASSUME TypeOK, NEW p \in Requests, Handle(p), GoesOn(p)
  PROVE  /\ pc[p] = "copy" => pc'[p] = "copy" /\ rest' = rest
         /\ pc[p] = "open" => pc'[p] = "copy" /\ rest' = rest
<1>1. pc[p] = "copy" => CopyChunk(p)
  BY DEF Handle, MalformedForm, UnsupportedPart, ElementExists, ElementIsNew,
       OpenWriter, OpenFails, CopyFails, CloseWriter, CloseFails,
       OpenArchive, OpenArchiveFails, ExtractManifest, ExtractManifestFails,
       ArchiveChanged, EndExtract, Accept, RequiredJsonMissing, NothingToStore,
       RemoveNext, RemoveFails, EndCleanup, GoesOn, CleanupStoredElements, GoTo,
       Running, TypeOK, Answer
<1>2. pc[p] = "open" => OpenWriter(p)
  BY DEF Handle, MalformedForm, UnsupportedPart, ElementExists, ElementIsNew,
       OpenFails, CopyChunk, CopyFails, CloseWriter, CloseFails,
       OpenArchive, OpenArchiveFails, ExtractManifest, ExtractManifestFails,
       ArchiveChanged, EndExtract, Accept, RequiredJsonMissing, NothingToStore,
       RemoveNext, RemoveFails, EndCleanup, GoesOn, CleanupStoredElements, GoTo,
       Running, TypeOK, Answer
<1> QED
  BY <1>1, <1>2 DEF CopyChunk, OpenWriter, GoTo, TypeOK

\* No step of a handler makes it meet another.
LEMMA RivalsSteps == ASSUME NEW p, Handle(p) PROVE rivals' = rivals
BY DEF Handle, MalformedForm, UnsupportedPart, ElementExists, ElementIsNew,
       OpenWriter, OpenFails, CopyChunk, CopyFails, CloseWriter, CloseFails,
       OpenArchive, OpenArchiveFails, ExtractManifest, ExtractManifestFails,
       ArchiveChanged, EndExtract, Accept, RequiredJsonMissing, NothingToStore,
       RemoveNext, RemoveFails, EndCleanup, history

\* The configuration stays what it is, and what a handler has been sent.
LEMMA ServerSteps ==
  ASSUME [Next]_vars
  PROVE  /\ backend' = backend /\ requireJson' = requireJson
         /\ \A p \in Requests : Handle(p) => zip' = zip
<1>1. ASSUME NEW p \in Requests, Handle(p) PROVE server' = server /\ zip' = zip
  BY <1>1 DEF Handle, MalformedForm, UnsupportedPart, ElementExists,
     ElementIsNew, OpenWriter, OpenFails, CopyChunk, CopyFails, CloseWriter,
     CloseFails, OpenArchive, OpenArchiveFails, ExtractManifest,
     ExtractManifestFails, ArchiveChanged, EndExtract, Accept,
     RequiredJsonMissing, NothingToStore, RemoveNext, RemoveFails, EndCleanup
<1> QED
  BY <1>1 DEF Next, RefuseRequest, Receive, Crash, Quiet, vars, server

\* A handler that runs alone keeps account of what it adds.
LEMMA AddedOwn ==
  ASSUME TypeOK, Uploading, Added, NEW p \in Requests, Handle(p),
         Alone(p)
  PROVE  /\ pc'[p] \in Running =>
              files' \subseteq before'[p] \cup Range(stored'[p]) \cup Extractable
                       \cup (IF pc'[p] = "copy" THEN {Head(rest'[p])} ELSE {})
         /\ pc'[p] = "cleanup" =>
              files' \subseteq before'[p] \cup Range(stored'[p]) \cup left'[p]
                           \cup Overlooked
<1> DEFINE held == before[p] \cup Range(stored[p])
<1> USE DEF TypeOK
<1>1. /\ stored[p] \in Seq(Files) /\ ExtractedManifests \in Seq(Files)
      /\ Extractable = Range(ExtractedManifests) \cup Overlooked
  BY ManifestsRemoved, ManifestsAreFiles DEF Extractable
<1>2. pc[p] \in Running =>
        files \subseteq held \cup Extractable
                          \cup (IF pc[p] = "copy" THEN {Current(p)} ELSE {})
  BY DEF Added
<1>3. pc[p] = "cleanup" => files \subseteq held \cup left[p] \cup Overlooked
  BY DEF Added
<1>4. left[p] \subseteq left'[p]
  BY LeftSteps
<1>5. CASE GoesOn(p)
  <2>1. /\ pc[p] \in Running /\ pc'[p] \in Running /\ stored' = stored
        /\ before' = before
    BY <1>5, BeforeSteps DEF GoesOn, GoTo, Return, Running
  <2>2. files' \subseteq held \cup Extractable
          \cup (IF pc[p] \in {"open", "copy"} THEN {Current(p)} ELSE {})
    BY <1>2, <2>1, FilesSteps
  <2>3. pc[p] \in {"open", "copy"} => pc'[p] = "copy" /\ Head(rest'[p]) = Current(p)
    BY <1>5, CopySteps DEF Current
  <2> QED
    BY <2>1, <2>2, <2>3 DEF Running
<1>6. CASE CloseWriter(p)
  <2>1. /\ pc[p] = "copy" /\ pc'[p] \in {"parts", "unzip"} /\ Current(p) \in Files
        /\ stored'[p] = Append(stored[p], Current(p)) /\ before' = before
    BY <1>6, CurrentTyped DEF CloseWriter, GoTo, history
  <2>2. Range(stored'[p]) = Range(stored[p]) \cup {Current(p)}
    BY <1>1, <2>1, RangeFacts
  <2>3. files' \subseteq held \cup Extractable \cup {Current(p)}
    BY <1>2, <2>1, FilesSteps DEF Running
  <2> QED
    BY <2>1, <2>2, <2>3
<1>7. CASE RollsBack(p)
  <2>1. pc[p] \in Running /\ pc'[p] = "cleanup"
    BY <1>7 DEF RollsBack, CleanupStoredElements, GoTo
  <2>2. before' = before
    BY <1>7, <2>1, BeforeSteps DEF Return, GoTo
  <2>3. files' \subseteq held \cup Extractable
          \cup (IF pc[p] \in {"open", "copy"} THEN {Current(p)} ELSE {})
    BY <1>2, <2>1, FilesSteps
  <2>4. \A s \in Seq(Files) : Range(s \o ExtractedManifests) = Range(s) \cup Range(ExtractedManifests)
    BY <1>1, RangeFacts
  <2>5. CASE stored'[p] = stored[p] \o ExtractedManifests /\ pc[p] \notin {"open", "copy"}
    <3>1. Range(stored'[p]) = Range(stored[p]) \cup Range(ExtractedManifests)
      BY <1>1, <2>4, <2>5
    <3> QED
      BY <1>1, <2>1, <2>2, <2>3, <2>5, <3>1 DEF Running
  <2>6. CASE /\ pc[p] \in {"open", "copy"}
             /\ stored'[p] = Append(stored[p], Current(p)) \o ExtractedManifests
    <3>1. Current(p) \in Files /\ Append(stored[p], Current(p)) \in Seq(Files)
      BY <2>6, CurrentTyped
    <3>2. Range(Append(stored[p], Current(p))) = Range(stored[p]) \cup {Current(p)}
      BY <1>1, <3>1, RangeFacts
    <3>3. Range(stored'[p]) = Range(stored[p]) \cup {Current(p)} \cup Range(ExtractedManifests)
      BY <2>4, <2>6, <3>1, <3>2
    <3> QED
      BY <1>1, <2>1, <2>2, <2>3, <3>3 DEF Running
  <2>7. \/ stored'[p] = stored[p] \o ExtractedManifests /\ pc[p] \notin {"open", "copy"}
        \/ /\ pc[p] \in {"open", "copy"}
           /\ stored'[p] = Append(stored[p], Current(p)) \o ExtractedManifests
    <3>1. pc[p] \in {"open", "copy"} => OpenFails(p) \/ CopyFails(p) \/ CloseFails(p)
      BY <2>1 DEF Handle, MalformedForm, UnsupportedPart, ElementExists,
         ElementIsNew, OpenWriter, CopyChunk, CloseWriter, OpenArchive,
         OpenArchiveFails, ExtractManifest, ExtractManifestFails, ArchiveChanged,
         EndExtract, Accept, RequiredJsonMissing, NothingToStore, RemoveNext,
         RemoveFails, EndCleanup, GoTo
    <3>2. OpenFails(p) \/ CopyFails(p) \/ CloseFails(p)
          => stored'[p] = Append(stored[p], Current(p)) \o ExtractedManifests
      BY DEF OpenFails, CopyFails, CloseFails, CleanupStoredElements
    <3> QED
      BY <1>7, <3>1, <3>2 DEF RollsBack, CleanupStoredElements
  <2> QED
    BY <2>5, <2>6, <2>7
<1>8. CASE Removes(p)
  <2>1. /\ pc[p] = "cleanup" /\ pc'[p] = "cleanup" /\ stored[p] # <<>>
        /\ stored'[p] = Tail(stored[p])
    BY <1>8 DEF Removes
  <2>2. Range(stored[p]) = {Head(stored[p])} \cup Range(stored'[p])
    BY <1>1, <2>1, RangeFacts
  <2>3. before' = before
    BY <2>1, BeforeSteps DEF Return, GoTo
  <2>4. RemoveNext(p) \/ RemoveFails(p)
    BY <2>1 DEF Handle, MalformedForm, UnsupportedPart, ElementExists,
       ElementIsNew, OpenWriter, OpenFails, CopyChunk, CopyFails, CloseWriter,
       CloseFails, OpenArchive, OpenArchiveFails, ExtractManifest,
       ExtractManifestFails, ArchiveChanged, EndExtract, Accept,
       RequiredJsonMissing, NothingToStore, EndCleanup
  <2>5. RemoveFails(p) => Head(stored[p]) \in left'[p]
    BY DEF RemoveFails
  <2>6. \A f \in files' : f \in files /\ (RemoveNext(p) => f # Head(stored[p]))
    BY <2>1, FilesSteps
  <2> QED
    BY <1>3, <1>4, <2>1, <2>2, <2>3, <2>4, <2>5, <2>6 DEF Running
<1>9. CASE Return(p)
  BY <1>9 DEF Return, GoTo, Running
<1> QED
  BY <1>5, <1>6, <1>7, <1>8, <1>9, AnswerSteps DEF EndCleanup

\* A publish on its own keeps account of what it adds.
LEMMA AddedNext ==
  TypeOK /\ Uploading /\ Met /\ Added /\ [Next]_vars => Added'
<1> SUFFICES ASSUME TypeOK, Uploading, Met, Added, [Next]_vars,
                    NEW q \in Requests, rivals'[q] = {}
             PROVE  /\ pc'[q] \in Running =>
                         files' \subseteq before'[q] \cup Range(stored'[q]) \cup Extractable
                           \cup (IF pc'[q] = "copy" THEN {Head(rest'[q])} ELSE {})
                    /\ pc'[q] = "cleanup" =>
                         files' \subseteq before'[q] \cup Range(stored'[q]) \cup left'[q]
                           \cup Overlooked
  BY ServerSteps, ExtractableSteps DEF Added, Alone, Current
<1> USE DEF TypeOK
<1>1. ASSUME UNCHANGED <<files, left, backend, rivals>>,
             UNCHANGED <<pc[q], rest[q], stored[q], before[q]>>
      PROVE  /\ pc'[q] \in Running =>
                  files' \subseteq before'[q] \cup Range(stored'[q]) \cup Extractable
                           \cup (IF pc'[q] = "copy" THEN {Head(rest'[q])} ELSE {})
             /\ pc'[q] = "cleanup" =>
                  files' \subseteq before'[q] \cup Range(stored'[q]) \cup left'[q]
                           \cup Overlooked
  BY <1>1 DEF Added, Alone, Current
<1>2. CASE pc'[q] \in {"idle", "done"}
  BY <1>2 DEF Running
<1>3. ASSUME NEW p \in Requests, Handle(p), pc'[q] \notin {"idle", "done"}
      PROVE  p = q /\ Alone(q)
  <2>1. ASSUME p # q PROVE FALSE
    <3>1. Active(q)
      BY <1>3, <2>1, OthersUnchanged DEF Active
    <3> QED
      BY <1>3, <2>1, <3>1, NotDisturbed
  <2>2. rivals' = rivals
    BY <1>3, RivalsSteps
  <2> QED
    BY <2>1, <2>2 DEF Alone
<1>4. ASSUME NEW p \in Requests, RefuseRequest(p), pc'[q] \notin {"idle", "done"}
      PROVE  /\ UNCHANGED <<files, left, backend, rivals>>
             /\ UNCHANGED <<pc[q], rest[q], stored[q], before[q]>>
  BY <1>4 DEF RefuseRequest, Stop, Return, GoTo, server, storage, history
<1>5. ASSUME NEW p \in Requests, Receive(p), pc'[q] \notin {"idle", "done"}
      PROVE  pc'[q] = "parts" /\ files' \subseteq before'[q]
  <2>1. p = q
    <3> SUFFICES ASSUME p # q PROVE FALSE
      OBVIOUS
    <3>1. Active(q)
      BY <1>5 DEF Receive, GoTo, Active
    <3> QED
      BY <1>5, <3>1, NotDisturbed
  <2> QED
    BY <1>5, <2>1 DEF Receive, GoTo, storage
<1>6. Crash => pc'[q] \in {"idle", "done"}
  BY DEF Crash, Active
<1>7. CASE UNCHANGED vars
  BY <1>1, <1>7 DEF vars, server, storage, history
<1>8. ASSUME NEW p \in Requests, Handle(p), pc'[q] \notin {"idle", "done"}
      PROVE  /\ pc'[q] \in Running =>
                  files' \subseteq before'[q] \cup Range(stored'[q]) \cup Extractable
                           \cup (IF pc'[q] = "copy" THEN {Head(rest'[q])} ELSE {})
             /\ pc'[q] = "cleanup" =>
                  files' \subseteq before'[q] \cup Range(stored'[q]) \cup left'[q]
                           \cup Overlooked
  <2>1. p = q /\ Alone(q)
    BY <1>3, <1>8
  <2> QED
    BY <1>8, <2>1, AddedOwn
<1>9. ASSUME NEW p \in Requests, Receive(p), pc'[q] \notin {"idle", "done"}
      PROVE  /\ pc'[q] \in Running =>
                  files' \subseteq before'[q] \cup Range(stored'[q]) \cup Extractable
                           \cup (IF pc'[q] = "copy" THEN {Head(rest'[q])} ELSE {})
             /\ pc'[q] = "cleanup" =>
                  files' \subseteq before'[q] \cup Range(stored'[q]) \cup left'[q]
                           \cup Overlooked
  BY <1>5, <1>9
<1> QED
  BY <1>1, <1>2, <1>4, <1>6, <1>7, <1>8, <1>9 DEF Next, Quiet

\* When a publish that ran alone has been rolled back, or its rollback has been cut
\* off by a crash, the release has no file it did not have when the request
\* arrived, but for those whose removal failed and the manifests the cleanup of the
\* backend overlooks (publish.go:214-250, files/utils.go:42).
THEOREM RollbackAdds == Spec => RollbackAddsNothing
<1> DEFINE Inv == TypeOK /\ Uploading /\ Met /\ Added
           Adds == \A p \in Requests :
                     pc[p] = "cleanup" /\ pc'[p] = "done" /\ Alone(p) =>
                        files' \subseteq before[p] \cup left'[p] \cup Overlooked
<1>1. Init => Inv
  <2> SUFFICES ASSUME Init PROVE Inv
    OBVIOUS
  <2>1. TypeOK /\ Uploading
    BY TypedInit
  <2>2. Met /\ Added
    BY DEF Init, Met, Added, Active, Running
  <2> QED
    BY <2>1, <2>2
<1>3. Inv /\ [Next]_vars => Inv'
  BY TypedNext, UploadingNext, MetNext, AddedNext
<1>4. Inv /\ [Next]_vars => Adds
  <2> SUFFICES ASSUME Inv, [Next]_vars, NEW q \in Requests,
                      pc[q] = "cleanup", pc'[q] = "done", Alone(q)
               PROVE  files' \subseteq before[q] \cup left'[q] \cup Overlooked
    OBVIOUS
  <2>1. files \subseteq before[q] \cup Range(stored[q]) \cup left[q] \cup Overlooked
    BY DEF Added
  <2>2. ASSUME NEW p \in Requests, Handle(p) PROVE EndCleanup(q)
    <3>1. p = q
      BY <2>2, OthersUnchanged DEF TypeOK
    <3> QED
      BY <2>2, <3>1 DEF Handle, MalformedForm, UnsupportedPart, ElementExists,
         ElementIsNew, OpenWriter, OpenFails, CopyChunk, CopyFails, CloseWriter,
         CloseFails, OpenArchive, OpenArchiveFails, ExtractManifest,
         ExtractManifestFails, ArchiveChanged, EndExtract, Accept,
         RequiredJsonMissing, NothingToStore, RemoveNext, RemoveFails
  <2>3. EndCleanup(q) => files' = files /\ left' = left /\ stored[q] = <<>>
    BY DEF EndCleanup, storage
  <2>4. Crash => files' = files /\ left'[q] = left[q] \cup Range(stored[q])
    BY DEF Crash, storage
  <2>5. ~\E p \in Requests : RefuseRequest(p) \/ Receive(p)
    BY DEF RefuseRequest, Receive, Stop, Return, GoTo, TypeOK
  <2>6. vars' # vars
    BY DEF vars
  <2> QED
    BY <2>1, <2>2, <2>3, <2>4, <2>5, <2>6 DEF Next, Quiet, Range
<1> QED
  BY <1>1, <1>3, <1>4, PTL DEF Spec, RollbackAddsNothing
=============================================================================
