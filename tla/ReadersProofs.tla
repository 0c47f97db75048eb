---------------------------- MODULE ReadersProofs ----------------------------
(***************************************************************************)
(* Proofs about the read endpoints of a release next to its publishes, for *)
(* every value of the constants of Readers.                                *)
(***************************************************************************)
EXTENDS Readers, RollbackProofs, WellFoundedInduction

----------------------------------------------------------------------------
\* What the endpoints do to each other.

\* A read changes nothing of the publish endpoint but the count of faults.
Untouched == UNCHANGED <<server, storage, pc, rest, zip, writer, unzip, stored,
                         package, answer, crashes, history>>

LEMMA ReadSteps ==
  ASSUME TypeOK, NEW g \in Readers, Read(g)
  PROVE  Untouched /\ faults' \in 0..MaxFaults /\ faults <= faults'
<1> USE DEF Untouched
<1>1. ASSUME UNCHANGED vars
      PROVE  Untouched /\ faults' \in 0..MaxFaults /\ faults <= faults'
  BY <1>1, BoundsAssumption DEF vars, TypeOK
<1>2. CASE Ask(g)
  BY <1>2, ExistsTyped, BoundsAssumption DEF Ask, Exists, Fault, TypeOK
<1>3. CASE CannotOpen(g)
  BY <1>3, FaultTyped, BoundsAssumption DEF CannotOpen, Fault, TypeOK
<1>4. CASE ReadFails(g)
  BY <1>4, FaultTyped, BoundsAssumption DEF ReadFails, Fault, TypeOK
<1>5. PackageGone(g) \/ OpenFile(g) \/ Measure(g) \/ ReadPiece(g) \/ EndFile(g)
        \/ Respond(g) => UNCHANGED vars
  BY DEF PackageGone, OpenFile, Measure, ReadPiece, EndFile, Respond
<1> QED
  BY <1>1, <1>2, <1>3, <1>4, <1>5 DEF Read

\* Each step of the endpoints is one of the publish endpoint, or a read.
LEMMA EndpointsSteps ==
  ASSUME TypeOK, [EndpointsNext]_allVars
  PROVE  \/ [Next]_vars /\ (PublishStep \/ EndpointsCrash \/ UNCHANGED reading)
         \/ \E g \in Readers : Read(g)
  BY DEF EndpointsNext, PublishStep, EndpointsCrash, EndpointsQuiet, Next,
         allVars

\* What is proved about the publish endpoint holds next to its readers, if a read
\* does not disturb it.
PublishInv == TypeOK /\ Uploading /\ Returned /\ Answered /\ Traced

LEMMA PublishInvNext == PublishInv /\ [EndpointsNext]_allVars => PublishInv'
<1> SUFFICES ASSUME PublishInv, [EndpointsNext]_allVars PROVE PublishInv'
  OBVIOUS
<1>1. CASE [Next]_vars
  BY <1>1, TypedNext, UploadingNext, ReturnedNext, AnsweredNext, TracedNext
  DEF PublishInv
<1>2. ASSUME NEW g \in Readers, Read(g) PROVE PublishInv'
  <2>1. Untouched /\ faults' \in 0..MaxFaults
    BY <1>2, ReadSteps DEF PublishInv
  <2>2. TypeOK'
    BY <2>1 DEF PublishInv, TypeOK, Untouched, server, storage, writer, unzip,
       history
  <2>3. Uploading' /\ Returned' /\ Answered'
    BY <2>1 DEF PublishInv, Uploading, Returned, Answered, Untouched, Current,
       Published, Active
  <2>4. Traced'
    BY <2>1 DEF PublishInv, Traced, Untouched, storage, history, Current, Range
  <2> QED
    BY <2>2, <2>3, <2>4 DEF PublishInv
<1> QED
  BY <1>1, <1>2, EndpointsSteps DEF PublishInv

----------------------------------------------------------------------------
\* Types.

\* A set of numbers has a least one.
LEMMA Least ==
  ASSUME NEW T, T \subseteq Nat, T # {}
  PROVE  \E x \in T : \A y \in T : x <= y
<1> DEFINE R == OpToRel(<, Nat)
<1>1. IsWellFoundedOn(R, Nat)
  BY NatLessThanWellFounded
<1>2. \A x, y \in Nat : x < y => <<x, y>> \in R
  BY DEF OpToRel
<1> HIDE DEF R
<1>3. PICK x \in T : \A y \in T : ~ (<<y, x>> \in R)
  BY <1>1, WFMin
<1>4. ASSUME NEW y \in T PROVE x <= y
  <2>1. x \in Nat /\ y \in Nat /\ ~ (<<y, x>> \in R)
    BY <1>3, <1>4
  <2>2. ~ (y < x)
    BY <1>2, <2>1
  <2> QED
    BY <2>1, <2>2
<1> QED
  BY <1>4

\* What http.ServeContent takes for the length of a file is the last piece of it
\* that has been written.
LEMMA LengthFacts ==
  /\ \A c \in Content : Length(c) \in 0..Chunks
  /\ \A p \in Requests : Length(Whole(p)) = Chunks
<1>1. ASSUME NEW c \in Content, c # Empty
      PROVE  \E k \in 1..Chunks :
                c[k] # Nobody /\ \A j \in k + 1..Chunks : c[j] = Nobody
  <2> DEFINE T == {n \in 0..Chunks - 1 : c[Chunks - n] # Nobody}
  <2>1. PICK k \in 1..Chunks : c[k] # Nobody
    <3> SUFFICES ASSUME \A k \in 1..Chunks : c[k] = Nobody PROVE FALSE
      OBVIOUS
    <3>1. c = [k \in 1..Chunks |-> c[k]]
      BY DEF Content
    <3>2. c = [k \in 1..Chunks |-> Nobody]
      BY <3>1
    <3> QED
      BY <1>1, <3>2 DEF Empty, Prefix
  <2>2. Chunks - k \in T /\ T \subseteq Nat
    BY <2>1, ChunksAssumption
  <2>3. PICK n \in T : \A m \in T : n <= m
    <3> HIDE DEF T
    <3>1. T # {}
      BY <2>2
    <3> QED
      BY <2>2, <3>1, Least
  <2>4. Chunks - n \in 1..Chunks /\ c[Chunks - n] # Nobody
    BY <2>3, ChunksAssumption
  <2>5. ASSUME NEW j \in (Chunks - n) + 1..Chunks, c[j] # Nobody PROVE FALSE
    <3>1. Chunks - j \in T
      BY <2>4, <2>5, ChunksAssumption
    <3> QED
      BY <2>3, <2>4, <2>5, <3>1, ChunksAssumption
  <2> QED
    BY <2>4, <2>5
<1>2. \A c \in Content : Length(c) \in 0..Chunks
  BY <1>1, ChunksAssumption DEF Length
<1>3. ASSUME NEW p \in Requests PROVE Length(Whole(p)) = Chunks
  <2>1. \A k \in 1..Chunks : Whole(p)[k] = p /\ Empty[k] = Nobody
    BY DEF Whole, Empty, Prefix
  <2>2. Whole(p) # Empty /\ p # Nobody
    BY <2>1, ChunksAssumption, NobodyAssumption
  <2>3. \A k \in 1..Chunks :
          (Whole(p)[k] # Nobody /\ \A j \in k + 1..Chunks : Whole(p)[j] = Nobody)
            <=> k = Chunks
    BY <2>1, <2>2, ChunksAssumption
  <2> QED
    BY <2>2, <2>3, ChunksAssumption DEF Length
<1> QED
  BY <1>2, <1>3

\* What is read is made of elements of the release.
LEMMA PlanFacts ==
  \A e \in Endpoints :
    /\ Plan(e) \in Seq(Slots \X Elements)
    /\ Plan(e) # <<>>
<1> DEFINE digest == <<"digest", "source.zip">>
           signature == <<"signature", "source.sig">>
           metadata == <<"metadata", "metadata.json">>
           body == <<"body", "source.zip">>
<1>1. {digest, signature, metadata, body} \subseteq Slots \X Elements
  BY DEF Slots, Elements, Sources
<1>2. Plan("download") = <<digest, signature, body>>
  BY DEF Plan
<1>3. Plan("info") = <<metadata, signature, digest>>
  BY DEF Plan
<1> HIDE DEF digest, signature, metadata, body
<1>4. ASSUME NEW S, NEW a \in S, NEW b \in S, NEW c \in S
      PROVE  <<a, b, c>> \in Seq(S) /\ <<a, b, c>> # <<>>
  OBVIOUS
<1>5. /\ digest \in Slots \X Elements /\ signature \in Slots \X Elements
      /\ metadata \in Slots \X Elements /\ body \in Slots \X Elements
  BY <1>1
<1>6. Plan("download") \in Seq(Slots \X Elements) /\ Plan("download") # <<>>
  <2>1. /\ <<digest, signature, body>> \in Seq(Slots \X Elements)
        /\ <<digest, signature, body>> # <<>>
    BY <1>4, <1>5
  <2> QED
    BY <1>2, <2>1
<1>7. Plan("info") \in Seq(Slots \X Elements) /\ Plan("info") # <<>>
  <2>1. /\ <<metadata, signature, digest>> \in Seq(Slots \X Elements)
        /\ <<metadata, signature, digest>> # <<>>
    BY <1>4, <1>5
  <2> QED
    BY <1>3, <2>1
<1> QED
  BY <1>6, <1>7 DEF Endpoints

\* The files wanted are elements; a reader that waits has nothing open and one
\* that has not begun has read nothing.
Waiting ==
  \A g \in Readers :
    /\ steps[g] \in Seq(Slots \X Elements)
    /\ rpc[g] \in {"measure", "read"} => steps[g] # <<>>
    /\ rpc[g] \in {"idle", "open"} =>
         data[g] = Empty /\ next[g] = 1 /\ limit[g] = 0 /\ lost[g] = Missing
    /\ rpc[g] = "idle" =>
         /\ got[g] = [s \in Slots |-> Missing] /\ status[g] = "none"
         /\ promised[g] = {} /\ refused[g] = {}
\* The invariant of the readers: types, and Waiting.
ReadersInv == PublishInv /\ ReadersTypeOK /\ Waiting

LEMMA ReadersInvInit == EndpointsInit => ReadersInv
<1> SUFFICES ASSUME EndpointsInit PROVE ReadersInv
  OBVIOUS
<1>1. Init
  BY DEF EndpointsInit
<1>2. PublishInv
  <2>1. TypeOK /\ Uploading
    BY <1>1, TypedInit
  <2>2. Returned /\ Answered
    BY <1>1 DEF Init, Returned, Answered, Published, Active, Running
  <2>3. \A p \in Requests : p \notin Range(Empty)
    BY NobodyAssumption DEF Range, Empty, Prefix
  <2>4. Traced
    BY <1>1, <2>3, FileFacts DEF Init, Traced
  <2> QED
    BY <2>1, <2>2, <2>4 DEF PublishInv
<1>3. Empty \in Content /\ 1 \in 1..Chunks + 1 /\ 0 \in 0..Chunks
  BY ContentFacts, ChunksAssumption
<1>4. ReadersTypeOK
  BY <1>3 DEF EndpointsInit, ReadersTypeOK
<1>5. Waiting
  BY DEF EndpointsInit, Waiting
<1> QED
  BY <1>2, <1>4, <1>5 DEF ReadersInv

\* The first of the files wanted, and the others.
LEMMA StepsFacts ==
  ASSUME Waiting, NEW g \in Readers
  PROVE  /\ steps[g] # <<>> => /\ Slot(g) \in Slots /\ File(g) \in Elements
                               /\ Tail(steps[g]) \in Seq(Slots \X Elements)
         /\ steps[g] \in Seq(Slots \X Files)
         /\ \A s \in Seq(Slots \X Elements) : s \in Seq(Slots \X Files)
<1>1. \A s \in Seq(Slots \X Elements) : s \in Seq(Slots \X Files)
  BY FileFacts
<1>2. steps[g] # <<>> => Head(steps[g]) \in Slots \X Elements
  BY DEF Waiting
<1>3. steps[g] \in Seq(Slots \X Elements)
  BY DEF Waiting
<1>4. steps[g] # <<>> => Tail(steps[g]) \in Seq(Slots \X Elements)
  BY <1>3
<1>5. steps[g] # <<>> => Slot(g) \in Slots /\ File(g) \in Elements
  BY <1>2 DEF Slot, File
<1>6. steps[g] \in Seq(Slots \X Files)
  BY <1>1, <1>3
<1> QED
  BY <1>1, <1>4, <1>5, <1>6

\* What the next piece of a file may be.
LEMMA PieceFacts ==
  ASSUME TypeOK, ReadersTypeOK, Waiting, NEW g \in Readers, rpc[g] = "read",
         next[g] <= limit[g]
  PROVE  Piece(g) \subseteq Requests \cup {Nobody} /\ next[g] \in 1..Chunks
<1>1. next[g] \in 1..Chunks /\ File(g) \in Files
  BY StepsFacts, FileFacts, ChunksAssumption DEF ReadersTypeOK, Waiting
<1>2. \A c \in Content : c[next[g]] \in Requests \cup {Nobody}
  BY <1>1 DEF Content
<1>3. Detached(g) => lost[g] \in Content
  BY DEF Detached, ReadersTypeOK
<1>4. bytes[File(g)] \in Content
  BY <1>1 DEF TypeOK
<1> QED
  BY <1>1, <1>2, <1>3, <1>4 DEF Piece

\* A read changes nothing of the other reads.
LEMMA OtherReaders ==
  ASSUME ReadersTypeOK, NEW g \in Readers, Read(g), NEW h \in Readers, h # g
  PROVE  UNCHANGED <<asks[h], rpc[h], steps[h], got[h], data[h], next[h], limit[h],
                     lost[h], status[h], promised[h], refused[h]>>
<1> USE DEF ReadersTypeOK, Move, CloseFile, handle
<1>1. PackageGone(g) \/ OpenFile(g)
      => UNCHANGED <<asks[h], rpc[h], steps[h], got[h], data[h], next[h], limit[h],
                     lost[h], status[h], promised[h], refused[h]>>
  BY DEF PackageGone, OpenFile
<1>4. Ask(g)
      => UNCHANGED <<asks[h], rpc[h], steps[h], got[h], data[h], next[h], limit[h],
                     lost[h], status[h], promised[h], refused[h]>>
  <2>1. Ask(g) => UNCHANGED <<rpc[h], steps[h], status[h]>>
    BY DEF Ask
  <2>2. Ask(g) => UNCHANGED <<promised[h], refused[h]>>
    BY DEF Ask
  <2> QED
    BY <2>1, <2>2 DEF Ask
<1>2. Measure(g) \/ ReadPiece(g) \/ EndFile(g)
      => UNCHANGED <<asks[h], rpc[h], steps[h], got[h], data[h], next[h], limit[h],
                     lost[h], status[h], promised[h], refused[h]>>
  BY DEF Measure, ReadPiece, EndFile
<1>3. CannotOpen(g) \/ ReadFails(g) \/ Respond(g)
      => UNCHANGED <<asks[h], rpc[h], steps[h], got[h], data[h], next[h], limit[h],
                     lost[h], status[h], promised[h], refused[h]>>
  BY DEF CannotOpen, ReadFails, Respond
<1> QED
  BY <1>1, <1>2, <1>3, <1>4 DEF Read

\* A read keeps the types.
LEMMA ReadTyped ==
  ASSUME TypeOK, ReadersTypeOK, Waiting, NEW g \in Readers, Read(g)
  PROVE  ReadersTypeOK'
<1> USE DEF ReadersTypeOK, Move, handle
<1>0. Empty \in Content /\ 1 \in 1..Chunks + 1 /\ 0 \in 0..Chunks
      /\ Chunks \in 0..Chunks /\ <<>> \in Seq(Slots \X Files)
  BY ContentFacts, ChunksAssumption
<1>1. CASE Ask(g)
  <2>1. steps' \in [Readers -> Seq(Slots \X Files)]
    <3>1. Plan(asks[g]) \in Seq(Slots \X Files)
      <4>1. Plan(asks[g]) \in Seq(Slots \X Elements)
        BY PlanFacts
      <4> QED
        BY <4>1, StepsFacts
    <3>2. steps' = [steps EXCEPT ![g] = Plan(asks[g])] \/ steps' = steps
      BY <1>1 DEF Ask
    <3> QED
      BY <3>1, <3>2
  <2>2. rpc' \in [Readers -> {"idle", "open", "measure", "read", "done"}]
        /\ status' \in [Readers -> {"none", "ok", "notfound", "error", "cut"}]
    BY <1>1 DEF Ask
  <2>3. promised' \in [Readers -> SUBSET Requests]
        /\ refused' \in [Readers -> SUBSET Requests]
    BY <1>1 DEF Ask
  <2> QED
    BY <1>1, <2>1, <2>2, <2>3 DEF Ask
<1>2. CASE PackageGone(g)
  BY <1>0, <1>2 DEF PackageGone
<1>3. CASE OpenFile(g)
  <2>1. bytes[File(g)] \in Content
    BY <1>3, StepsFacts, FileFacts DEF OpenFile, TypeOK
  <2>2. data' \in [Readers -> Content] /\ limit' \in [Readers -> 0..Chunks]
    <3>1. \/ data' = [data EXCEPT ![g] = bytes[File(g)]] /\ limit' = limit
          \/ data' = data /\ limit' = [limit EXCEPT ![g] = Chunks]
      BY <1>3 DEF OpenFile
    <3> QED
      BY <1>0, <2>1, <3>1
  <2>3. rpc' \in [Readers -> {"idle", "open", "measure", "read", "done"}]
    BY <1>3 DEF OpenFile
  <2> QED
    BY <1>3, <2>2, <2>3 DEF OpenFile
<1>4. CASE Measure(g)
  <2>1. bytes[File(g)] \in Content
    BY <1>4, StepsFacts, FileFacts DEF Measure, TypeOK, Waiting
  <2>2. (IF Detached(g) THEN lost[g] ELSE bytes[File(g)]) \in Content
    BY <2>1 DEF Detached
  <2>3. Length(IF Detached(g) THEN lost[g] ELSE bytes[File(g)]) \in 0..Chunks
    BY <2>2, LengthFacts
  <2>4. limit' \in [Readers -> 0..Chunks]
    BY <1>4, <2>3 DEF Measure
  <2> QED
    BY <1>4, <2>4 DEF Measure
<1>5. CASE ReadPiece(g)
  <2>1. PICK c \in Piece(g) : data' = [data EXCEPT ![g][next[g]] = c]
    BY <1>5 DEF ReadPiece
  <2>2. c \in Requests \cup {Nobody} /\ next[g] \in 1..Chunks
    BY <1>5, PieceFacts DEF ReadPiece
  <2>3. [data[g] EXCEPT ![next[g]] = c] \in Content
    BY <2>2 DEF Content
  <2>4. data' \in [Readers -> Content]
    BY <2>1, <2>3
  <2>5. next' \in [Readers -> 1..Chunks + 1]
    BY <1>5, <2>2, ChunksAssumption DEF ReadPiece
  <2> QED
    BY <1>5, <2>4, <2>5 DEF ReadPiece
<1>6. ASSUME CloseFile(g)
      PROVE  /\ data' \in [Readers -> Content] /\ next' \in [Readers -> 1..Chunks + 1]
             /\ limit' \in [Readers -> 0..Chunks]
             /\ lost' \in [Readers -> Content \cup {Missing}]
  BY <1>0, <1>6 DEF CloseFile
<1>7. ASSUME steps[g] # <<>>
      PROVE  Slot(g) \in Slots /\ Tail(steps[g]) \in Seq(Slots \X Files)
  BY <1>7, StepsFacts
<1>8. CASE EndFile(g)
  <2>1. Slot(g) \in Slots /\ Tail(steps[g]) \in Seq(Slots \X Files)
    BY <1>7, <1>8 DEF EndFile, Waiting
  <2>2. got' \in [Readers -> [Slots -> Content \cup {Missing}]]
    BY <1>8, <2>1 DEF EndFile
  <2>3. steps' \in [Readers -> Seq(Slots \X Files)]
        /\ rpc' \in [Readers -> {"idle", "open", "measure", "read", "done"}]
    BY <1>8, <2>1 DEF EndFile
  <2> QED
    BY <1>6, <1>8, <2>2, <2>3 DEF EndFile
<1>9. ASSUME rpc' \in [Readers -> {"idle", "open", "measure", "read", "done"}],
             status' \in [Readers -> {"none", "ok", "notfound", "error", "cut"}],
             steps' \in [Readers -> Seq(Slots \X Files)],
             UNCHANGED handle \/ CloseFile(g),
             UNCHANGED <<asks, got, promised, refused>>
      PROVE  ReadersTypeOK'
  BY <1>6, <1>9
<1>10. CASE CannotOpen(g)
  <2>1. Tail(steps[g]) \in Seq(Slots \X Files)
    BY <1>7, <1>10 DEF CannotOpen
  <2>2. steps' \in [Readers -> Seq(Slots \X Files)]
    BY <1>0, <1>10, <2>1 DEF CannotOpen
  <2> QED
    BY <1>9, <1>10, <2>2 DEF CannotOpen
<1>11. CASE ReadFails(g)
  <2>1. Tail(steps[g]) \in Seq(Slots \X Files)
    BY <1>7, <1>11 DEF ReadFails, Waiting
  <2>2. steps' \in [Readers -> Seq(Slots \X Files)]
    BY <1>0, <1>11, <2>1 DEF ReadFails
  <2> QED
    BY <1>9, <1>11, <2>2 DEF ReadFails
<1>12. CASE Respond(g)
  BY <1>9, <1>12 DEF Respond
<1> QED
  BY <1>1, <1>2, <1>3, <1>4, <1>5, <1>8, <1>10, <1>11, <1>12 DEF Read

\* A read keeps what Waiting says.
LEMMA ReadWaiting ==
  ASSUME ReadersTypeOK, Waiting, NEW g \in Readers, Read(g) PROVE Waiting'
<1> DEFINE S == Slots \X Elements
           W(h) ==
             /\ steps'[h] \in Seq(S)
             /\ rpc'[h] \in {"measure", "read"} => steps'[h] # <<>>
             /\ rpc'[h] \in {"idle", "open"} =>
                  /\ data'[h] = Empty /\ next'[h] = 1
                  /\ limit'[h] = 0 /\ lost'[h] = Missing
             /\ rpc'[h] = "idle" =>
                  /\ got'[h] = [s \in Slots |-> Missing] /\ status'[h] = "none"
                  /\ promised'[h] = {} /\ refused'[h] = {}
<1> SUFFICES ASSUME NEW h \in Readers PROVE W(h)
  BY DEF Waiting, Empty, Prefix, Missing, Slots, Elements, Sources
<1>0. CASE h # g
  BY <1>0, OtherReaders DEF Waiting
<1> USE DEF ReadersTypeOK, Move, handle, CloseFile
<1>1. steps[g] # <<>> => Tail(steps[g]) \in Seq(S)
  BY StepsFacts
<1>2. <<>> \in Seq(S) /\ steps[g] \in Seq(S)
  BY DEF Waiting
<1>3. CASE h = g /\ Ask(g)
  <2>1. Plan(asks[g]) \in Seq(S) /\ Plan(asks[g]) # <<>>
    BY PlanFacts
  <2>2. steps'[g] \in Seq(S)
    BY <1>2, <1>3, <2>1 DEF Ask
  <2>3. rpc[g] = "idle" /\ rpc'[g] \in {"open", "done"} /\ UNCHANGED handle
    BY <1>3 DEF Ask
  <2> QED
    BY <1>3, <2>2, <2>3 DEF Waiting
<1>4. CASE h = g /\ (PackageGone(g) \/ Respond(g))
  BY <1>2, <1>4 DEF PackageGone, Respond
<1>5. CASE h = g /\ (OpenFile(g) \/ Measure(g) \/ ReadPiece(g))
  BY <1>2, <1>5 DEF OpenFile, Measure, ReadPiece, Waiting
<1>6. CASE h = g /\ (EndFile(g) \/ ReadFails(g))
  <2>1. rpc[g] = "read" /\ rpc'[g] \in {"open", "done"} /\ CloseFile(g)
    BY <1>6 DEF EndFile, ReadFails
  <2>2. Tail(steps[g]) \in Seq(S)
    BY <1>1, <2>1 DEF Waiting
  <2>3. steps' = [steps EXCEPT ![g] = Tail(@)] \/ steps' = [steps EXCEPT ![g] = <<>>]
    BY <1>6 DEF EndFile, ReadFails
  <2>5. steps'[g] \in Seq(S)
    BY <1>2, <2>2, <2>3
  <2>4. data'[g] = Empty /\ next'[g] = 1 /\ limit'[g] = 0 /\ lost'[g] = Missing
    BY <2>1
  <2> QED
    BY <1>6, <2>1, <2>4, <2>5
<1>7. CASE h = g /\ CannotOpen(g)
  <2>1. rpc[g] = "open" /\ steps[g] # <<>> /\ UNCHANGED handle
    BY <1>7 DEF CannotOpen
  <2>2. rpc'[g] \in {"open", "done"} /\ steps'[g] \in {Tail(steps[g]), <<>>}
    BY <1>7 DEF CannotOpen
  <2>3. steps'[g] \in Seq(S)
    BY <1>1, <1>2, <2>1, <2>2
  <2> QED
    BY <1>7, <2>1, <2>2, <2>3 DEF Waiting
<1> QED
  BY <1>0, <1>3, <1>4, <1>5, <1>6, <1>7 DEF Read

\* So does a step of the publish endpoint.
LEMMA PublishStepTyped ==
  ASSUME TypeOK, ReadersTypeOK, Waiting, PublishStep
  PROVE  ReadersTypeOK' /\ Waiting'
<1> DEFINE L(g) == IF /\ rpc[g] \in {"measure", "read"}
                      /\ ~Detached(g) /\ File(g) \in files \ files'
                   THEN bytes[File(g)] ELSE lost[g]
<1>1. lost' = [g \in Readers |-> L(g)]
      /\ UNCHANGED <<asks, rpc, steps, got, data, next, limit, status, promised,
                     refused>>
  BY DEF PublishStep
<1>2. ASSUME NEW g \in Readers PROVE L(g) \in Content \cup {Missing}
  <2>1. rpc[g] \in {"measure", "read"} => bytes[File(g)] \in Content
    BY StepsFacts, FileFacts DEF Waiting, TypeOK
  <2> QED
    BY <2>1 DEF ReadersTypeOK
<1>3. ASSUME NEW g \in Readers, rpc[g] \in {"idle", "open"} PROVE L(g) = lost[g]
  BY <1>3
<1> HIDE DEF L
<1>4. ReadersTypeOK'
  BY <1>1, <1>2 DEF ReadersTypeOK
<1>5. Waiting'
  BY <1>1, <1>3 DEF Waiting, Empty, Prefix, Missing, Slots, Elements, Sources
<1> QED
  BY <1>4, <1>5

\* And the end of the process.
LEMMA CrashTyped ==
  ASSUME ReadersTypeOK, Waiting, EndpointsCrash PROVE ReadersTypeOK' /\ Waiting'
<1>0. Empty \in Content /\ 1 \in 1..Chunks + 1 /\ 0 \in 0..Chunks
  BY ContentFacts, ChunksAssumption
<1>1. ReadersTypeOK'
  BY <1>0 DEF EndpointsCrash, ReadersTypeOK
<1>2. Waiting'
  BY DEF EndpointsCrash, Waiting, Empty, Prefix, Missing, Slots, Elements, Sources
<1> QED
  BY <1>1, <1>2

LEMMA ReadersInvNext == ReadersInv /\ [EndpointsNext]_allVars => ReadersInv'
<1> SUFFICES ASSUME ReadersInv, [EndpointsNext]_allVars PROVE ReadersInv'
  OBVIOUS
<1>1. PublishInv'
  BY PublishInvNext DEF ReadersInv
<1>2. UNCHANGED reading => ReadersTypeOK' /\ Waiting'
  BY DEF ReadersInv, reading, handle, ReadersTypeOK, Waiting, Empty, Prefix,
     Missing, Slots, Elements, Sources
<1>3. ReadersTypeOK' /\ Waiting'
  BY <1>2, EndpointsSteps, ReadTyped, ReadWaiting, PublishStepTyped, CrashTyped
  DEF ReadersInv, PublishInv
<1> QED
  BY <1>1, <1>3 DEF ReadersInv

\* Type correctness: every variable of the read endpoints has its type in every
\* reachable state.
THEOREM ReadersTypeCorrect == EndpointsSpec => []ReadersTypeOK
<1>1. ReadersInv => ReadersTypeOK
  BY DEF ReadersInv
<1> QED
  BY <1>1, ReadersInvInit, ReadersInvNext, PTL DEF EndpointsSpec
----------------------------------------------------------------------------
\* No byte of a release that was refused.

\* The publish p has been rolled back, and every file removed that it had to be.
Withdrawn(p) == pc[p] = "done" /\ answer[p] \in RolledBack /\ left[p] = {}

\* A release that was refused before a reader asked stays refused, and none of it
\* is in what the reader has read, or in what its handle is open on.
Forgotten ==
  \A g \in Readers : \A p \in refused[g] :
    /\ Withdrawn(p)
    /\ p \notin Range(data[g]) /\ p \notin Range(lost[g])
    /\ \A s \in Slots : p \notin Range(got[g][s])

\* No byte of it is in the release (Traced), either.
LEMMA WithdrawnFacts ==
  ASSUME PublishInv, NEW p \in Requests, Withdrawn(p)
  PROVE  /\ \A f \in Elements : p \notin Range(bytes[f])
         /\ p \notin Range(Empty) /\ p \notin Range(Missing)
<1>1. stored[p] = <<>>
  BY DEF PublishInv, Returned, Active, Withdrawn
<1>2. Range(stored[p]) = {} /\ p \notin Range(Missing)
  BY <1>1 DEF Range, Missing
<1>3. \A f \in Elements : p \notin Range(bytes[f])
  BY <1>2 DEF PublishInv, Traced, Withdrawn
<1>4. p \notin Range(Empty)
  BY NobodyAssumption DEF Range, Empty, Prefix
<1> QED
  BY <1>2, <1>3, <1>4

\* It stays withdrawn.
LEMMA StaysWithdrawn ==
  ASSUME PublishInv, [EndpointsNext]_allVars, NEW p \in Requests, Withdrawn(p)
  PROVE  Withdrawn(p)'
<1> USE DEF PublishInv, TypeOK
<1>1. ASSUME NEW q \in Requests, Handle(q) PROVE Withdrawn(p)'
  <2>1. q # p
    BY <1>1, HandleCases DEF Withdrawn
  <2>2. pc'[p] = pc[p] /\ answer'[p] = answer[p]
    BY <1>1, <2>1, OthersUnchanged
  <2>3. RemoveFails(q) => left'[p] = left[p]
    BY <2>1 DEF RemoveFails
  <2>4. left'[p] = left[p]
    BY <1>1, <2>3, LeftSteps
  <2> QED
    BY <2>2, <2>4 DEF Withdrawn, RolledBack
<1>2. ASSUME NEW q \in Requests, RefuseRequest(q) \/ Receive(q)
      PROVE  Withdrawn(p)'
  <2>1. q # p
    BY <1>2 DEF RefuseRequest, Receive, Withdrawn
  <2> QED
    BY <1>2, <2>1 DEF RefuseRequest, Receive, Stop, Return, GoTo, Answer, Withdrawn,
       RolledBack
<1>3. ASSUME Crash PROVE Withdrawn(p)'
  BY <1>3 DEF Crash, Withdrawn, Active, RolledBack
<1>4. ASSUME UNCHANGED vars PROVE Withdrawn(p)'
  BY <1>4 DEF vars, history, Withdrawn, RolledBack
<1>5. ASSUME NEW g \in Readers, Read(g) PROVE Withdrawn(p)'
  BY <1>5, ReadSteps DEF Untouched, history, Withdrawn, RolledBack
<1> QED
  BY <1>1, <1>2, <1>3, <1>4, <1>5, EndpointsSteps DEF Next, Quiet

\* A read keeps what Forgotten says of its reader.
LEMMA ReadForgotten ==
  ASSUME ReadersInv, Forgotten, NEW g \in Readers, Read(g), NEW p \in refused'[g]
  PROVE  /\ p \notin Range(data'[g]) /\ p \notin Range(lost'[g])
         /\ \A s \in Slots : p \notin Range(got'[g][s])
<1> USE DEF ReadersInv, PublishInv, ReadersTypeOK, handle
<1>1. CASE Ask(g)
  <2>1. p \in Requests /\ Withdrawn(p)
    BY <1>1 DEF Ask, Withdrawn
  <2>2. data[g] = Empty /\ lost[g] = Missing /\ got[g] = [s \in Slots |-> Missing]
    BY <1>1 DEF Ask, Waiting
  <2> QED
    BY <1>1, <2>1, <2>2, WithdrawnFacts DEF Ask
<1>2. ASSUME ~Ask(g)
      PROVE  /\ p \in Requests /\ Withdrawn(p)
             /\ p \notin Range(data[g]) /\ p \notin Range(lost[g])
             /\ \A s \in Slots : p \notin Range(got[g][s])
  <2>1. refused' = refused
    BY <1>2 DEF Read, PackageGone, OpenFile, Measure, ReadPiece, EndFile, CannotOpen,
       ReadFails, Respond
  <2> QED
    BY <2>1 DEF Forgotten
<1>3. ASSUME CloseFile(g), ~Ask(g)
      PROVE  p \notin Range(data'[g]) /\ p \notin Range(lost'[g])
  BY <1>2, <1>3, WithdrawnFacts DEF CloseFile
<1>4. CASE OpenFile(g)
  <2>1. ~Ask(g) /\ File(g) \in Elements
    BY <1>4, StepsFacts DEF OpenFile, Ask
  <2>2. p \notin Range(bytes[File(g)])
    BY <1>2, <2>1, WithdrawnFacts
  <2>3. data'[g] \in {data[g], bytes[File(g)]} /\ UNCHANGED <<lost, got>>
    BY <1>4 DEF OpenFile
  <2> QED
    BY <1>2, <2>1, <2>2, <2>3
<1>5. CASE ReadPiece(g)
  <2>1. PICK c \in Piece(g) : data' = [data EXCEPT ![g][next[g]] = c]
    BY <1>5 DEF ReadPiece
  <2>2. ~Ask(g) /\ next[g] \in 1..Chunks /\ File(g) \in Elements
    BY <1>5, PieceFacts, StepsFacts DEF ReadPiece, Ask, Waiting
  <2>3. p \notin Range(bytes[File(g)])
    BY <1>2, <2>2, WithdrawnFacts
  <2>4. bytes[File(g)] \in Content /\ data[g] \in Content
        /\ (Detached(g) => lost[g] \in Content)
    BY <2>2, FileFacts DEF TypeOK, Detached
  <2>5. c # p
    <3>1. \A b \in Content : p \notin Range(b) => b[next[g]] # p
      BY <2>2 DEF Content, Range
    <3>2. CASE Detached(g)
      <4>1. c = lost[g][next[g]] \/ (c \in Requests /\ pc[c] = "copy")
        BY <2>1, <3>2 DEF Piece
      <4>2. pc[p] # "copy" /\ lost[g][next[g]] # p
        BY <1>2, <2>2, <2>4, <3>1, <3>2 DEF Withdrawn
      <4> QED
        BY <4>1, <4>2
    <3>3. CASE ~Detached(g)
      BY <2>1, <2>3, <2>4, <3>1, <3>3 DEF Piece
    <3> QED
      BY <3>2, <3>3
  <2>6. data'[g] = [data[g] EXCEPT ![next[g]] = c]
    BY <2>1
  <2>7. p \notin Range(data'[g])
    BY <1>2, <2>2, <2>4, <2>5, <2>6 DEF Content, Range
  <2> QED
    BY <1>2, <1>5, <2>2, <2>7 DEF ReadPiece
<1>6. CASE EndFile(g)
  <2>1. ~Ask(g) /\ CloseFile(g) /\ got' = [got EXCEPT ![g][Slot(g)] = data[g]]
    BY <1>6 DEF EndFile, Ask
  <2>2. \A s \in Slots : got'[g][s] \in {got[g][s], data[g]}
    BY <2>1
  <2> QED
    BY <1>2, <1>3, <2>1, <2>2
<1>7. CASE ReadFails(g)
  BY <1>2, <1>3, <1>7 DEF ReadFails, Ask
<1>8. CASE PackageGone(g) \/ Measure(g) \/ CannotOpen(g) \/ Respond(g)
  <2>1. ~Ask(g) /\ UNCHANGED <<data, lost, got>>
    BY <1>8 DEF PackageGone, Measure, CannotOpen, Respond, Ask
  <2> QED
    BY <1>2, <2>1
<1> QED
  BY <1>1, <1>4, <1>5, <1>6, <1>7, <1>8 DEF Read

LEMMA ForgottenNext ==
  ReadersInv /\ Forgotten /\ [EndpointsNext]_allVars => Forgotten'
<1> SUFFICES ASSUME ReadersInv, Forgotten, [EndpointsNext]_allVars,
                    NEW h \in Readers, NEW p \in refused'[h]
             PROVE  /\ Withdrawn(p)'
                    /\ p \notin Range(data'[h]) /\ p \notin Range(lost'[h])
                    /\ \A s \in Slots : p \notin Range(got'[h][s])
  BY DEF Forgotten, Slots
<1> USE DEF ReadersInv, PublishInv, ReadersTypeOK
<1>1. p \in Requests
  BY ReadersInvNext
<1>2. ASSUME p \in refused[h]
      PROVE  /\ Withdrawn(p) /\ Withdrawn(p)'
             /\ p \notin Range(data[h]) /\ p \notin Range(lost[h])
             /\ \A s \in Slots : p \notin Range(got[h][s])
  BY <1>1, <1>2, StaysWithdrawn DEF Forgotten
<1>3. ASSUME NEW g \in Readers, Read(g)
      PROVE  /\ Withdrawn(p)'
             /\ p \notin Range(data'[h]) /\ p \notin Range(lost'[h])
             /\ \A s \in Slots : p \notin Range(got'[h][s])
  <2>1. CASE h # g
    BY <1>2, <1>3, <2>1, OtherReaders
  <2>2. CASE h = g
    <3>1. p \in refused[h] \/ Withdrawn(p)
      <4>1. CASE Ask(g)
        BY <2>2, <4>1 DEF Ask, Withdrawn
      <4>2. CASE ~Ask(g)
        BY <1>3, <4>2 DEF Read, PackageGone, OpenFile, Measure, ReadPiece, EndFile,
           CannotOpen, ReadFails, Respond
      <4> QED
        BY <4>1, <4>2
    <3>2. Withdrawn(p)'
      BY <1>1, <1>2, <3>1, StaysWithdrawn
    <3> QED
      BY <1>3, <2>2, <3>2, ReadForgotten
  <2> QED
    BY <2>1, <2>2
<1>4. CASE PublishStep
  <2>1. UNCHANGED <<refused, data, got>>
    BY <1>4 DEF PublishStep
  <2>2. \/ lost'[h] = lost[h]
        \/ lost'[h] = bytes[File(h)] /\ rpc[h] \in {"measure", "read"}
    <3> DEFINE L == IF /\ rpc[h] \in {"measure", "read"}
                       /\ ~Detached(h) /\ File(h) \in files \ files'
                    THEN bytes[File(h)] ELSE lost[h]
    <3>1. lost'[h] = L
      BY <1>4 DEF PublishStep
    <3>2. CASE rpc[h] \in {"measure", "read"}
      <4>1. lost'[h] \in {lost[h], bytes[File(h)]}
        BY <3>1
      <4> QED
        BY <3>2, <4>1
    <3>3. CASE rpc[h] \notin {"measure", "read"}
      BY <3>1, <3>3
    <3> QED
      BY <3>2, <3>3
  <2>3. rpc[h] \in {"measure", "read"} => p \notin Range(bytes[File(h)])
    BY <1>1, <1>2, <2>1, StepsFacts, WithdrawnFacts DEF Waiting
  <2> QED
    BY <1>2, <2>1, <2>2, <2>3
<1>5. CASE EndpointsCrash
  BY <1>1, <1>2, <1>5, WithdrawnFacts DEF EndpointsCrash
<1>6. CASE UNCHANGED reading
  BY <1>2, <1>6 DEF reading, handle
<1> QED
  BY <1>3, <1>4, <1>5, <1>6, EndpointsSteps

\* No answer that was begun after a publish had been rolled back completely has
\* a byte of it: however publishes and reads interleave, whatever fails and
\* however often the process ends, no piece of a refused release is served.
THEOREM RefusedStays == EndpointsSpec => []RefusedIsNotServed
<1> DEFINE Inv == ReadersInv /\ Forgotten
<1>1. EndpointsInit => Inv
  BY ReadersInvInit DEF EndpointsInit, Forgotten
<1>2. Inv /\ [EndpointsNext]_allVars => Inv'
  BY ReadersInvNext, ForgottenNext
<1>3. Inv => RefusedIsNotServed
  BY DEF Forgotten, RefusedIsNotServed
<1> QED
  BY <1>1, <1>2, <1>3, PTL DEF EndpointsSpec
----------------------------------------------------------------------------
\* The archive of a release that was accepted.

\* What a handler may have to read.
Wanted == {<<"digest", "source.zip">>, <<"body", "source.zip">>,
           <<"signature", "source.sig">>, <<"metadata", "metadata.json">>}

InOrder == \A g \in Readers : steps[g] \in Seq(Wanted)

\* The publish p ran alone and was accepted, with a zip file: by Kept that file is
\* there and whole.
Holds(p) == Published(p) /\ Alone(p) /\ package[p] = "source.zip"

\* What g's answer may be, and what it has read or has still to read for it.
Answering(g, p) ==
  /\ status[g] # "notfound"
  /\ status[g] = "error" => faults > 0
  /\ got[g]["digest"] \in {Missing, Whole(p)}
  /\ asks[g] = "download" =>
       /\ status[g] = "ok" => got[g]["body"] = Whole(p)
       /\ rpc[g] \in {"open", "measure", "read"} =>
            \/ got[g]["body"] = Whole(p)
            \/ <<"body", "source.zip">> \in Range(steps[g])

\* What it has of the archive while it is reading it.
Fetching(g, p) ==
  rpc[g] \in {"measure", "read"} /\ File(g) = "source.zip" =>
    /\ lost[g] = Missing
    /\ Buffered => /\ rpc[g] = "read"
                   /\ data[g] = Whole(p) /\ limit[g] = 0 /\ next[g] = 1
    /\ ~Buffered => /\ data[g] = Prefix(p, next[g] - 1)
                    /\ rpc[g] = "read" => limit[g] = Chunks

Promised ==
  \A g \in Readers : \A p \in promised[g] :
     Holds(p) /\ Answering(g, p) /\ Fetching(g, p)

\* A step of a publish, a read or a crash takes back no fault.
LEMMA FaultsGrow == ASSUME TypeOK, [EndpointsNext]_allVars PROVE faults <= faults'
<1> USE DEF TypeOK, Exists, Fault
<1>1. ASSUME NEW p \in Requests, Handle(p)
      PROVE  faults' = faults \/ faults' = faults + 1
  <2>1. MalformedForm(p) \/ UnsupportedPart(p) \/ ElementExists(p)
          \/ ElementIsNew(p) \/ OpenWriter(p) \/ OpenFails(p) \/ CopyChunk(p)
          \/ CopyFails(p) \/ CloseWriter(p) \/ CloseFails(p)
        => faults' = faults \/ faults' = faults + 1
    BY DEF MalformedForm, UnsupportedPart, ElementExists, ElementIsNew, OpenWriter,
       OpenFails, CopyChunk, CopyFails, CloseWriter, CloseFails
  <2>2. OpenArchive(p) \/ OpenArchiveFails(p) \/ ExtractManifest(p)
          \/ ExtractManifestFails(p) \/ ArchiveChanged(p) \/ EndExtract(p)
          \/ Accept(p) \/ RequiredJsonMissing(p) \/ NothingToStore(p)
          \/ RemoveNext(p) \/ RemoveFails(p) \/ EndCleanup(p)
        => faults' = faults \/ faults' = faults + 1
    BY DEF OpenArchive, OpenArchiveFails, ExtractManifest, ExtractManifestFails,
       ArchiveChanged, EndExtract, Accept, RequiredJsonMissing, NothingToStore,
       RemoveNext, RemoveFails, EndCleanup
  <2> QED
    BY <1>1, <2>1, <2>2 DEF Handle
<1>2. ASSUME NEW p \in Requests, RefuseRequest(p) \/ Receive(p)
      PROVE  faults' = faults
  BY <1>2 DEF RefuseRequest, Receive
<1>3. Crash \/ UNCHANGED vars => faults' = faults
  BY DEF Crash, vars
<1>4. faults \in Nat
  BY BoundsAssumption
<1>5. ASSUME NEW g \in Readers, Read(g) PROVE faults <= faults'
  BY <1>5, ReadSteps
<1> QED
  BY <1>1, <1>2, <1>3, <1>4, <1>5, EndpointsSteps DEF Next, Quiet

\* What is proved of archives that were accepted holds next to the readers.
LEMMA IInvNext ==
  "head" \notin FaultKinds /\ IInv /\ [EndpointsNext]_allVars => IInv'
<1> SUFFICES ASSUME "head" \notin FaultKinds, IInv, [EndpointsNext]_allVars
             PROVE  IInv'
  OBVIOUS
<1>1. CASE [Next]_vars
  BY <1>1, TypedNext, UploadingNext, ReturnedNext, MetNext, CopiedAloneNext,
     KeptNext DEF IInv, NoneMissed
<1>2. ASSUME NEW g \in Readers, Read(g) PROVE IInv'
  <2>1. Untouched /\ faults' \in 0..MaxFaults
    BY <1>2, ReadSteps DEF IInv
  <2>2. TypeOK'
    BY <2>1 DEF IInv, TypeOK, Untouched, server, storage, writer, unzip, history
  <2>3. Uploading' /\ Returned' /\ Met'
    BY <2>1 DEF IInv, Uploading, Returned, Met, Untouched, history, Current,
       Published, Active
  <2>4. CopiedAlone'
    BY <2>1 DEF IInv, CopiedAlone, Untouched, server, storage, writer, history,
       Current, Alone, Buffered, Prefix
  <2>5. Kept'
    BY <2>1 DEF IInv, Kept, Claims, Untouched, storage, history, Current, Alone,
       Published, Range, Whole, Prefix
  <2> QED
    BY <2>2, <2>3, <2>4, <2>5 DEF IInv
<1> QED
  BY <1>1, <1>2, EndpointsSteps DEF IInv

\* A publish that holds its archive goes on holding it.
LEMMA GoesOnHolding ==
  ASSUME IInv, [EndpointsNext]_allVars, NEW p \in Requests, Holds(p)
  PROVE  Holds(p)' /\ backend' = backend
<1> USE DEF IInv, TypeOK, Holds, Published, Alone
<1>0. pc[p] = "done"
  BY DEF Returned
<1>1. ASSUME NEW q \in Requests, Handle(q) PROVE Holds(p)'
  <2>1. q # p
    BY <1>0, <1>1, HandleCases
  <2> QED
    BY <1>1, <2>1, OthersUnchanged
<1>2. ASSUME NEW q \in Requests, RefuseRequest(q) PROVE Holds(p)'
  BY <1>0, <1>2 DEF RefuseRequest, Stop, Return, GoTo, Answer
<1>3. ASSUME NEW q \in Requests, Receive(q) PROVE Holds(p)'
  BY <1>0, <1>3 DEF Receive, Active
<1>4. ASSUME Crash \/ UNCHANGED vars PROVE Holds(p)'
  BY <1>0, <1>4 DEF Crash, vars, history, Active
<1>5. ASSUME NEW g \in Readers, Read(g) PROVE Holds(p)' /\ backend' = backend
  BY <1>5, ReadSteps DEF Untouched, history, server
<1>6. [Next]_vars => backend' = backend
  BY ServerSteps
<1> QED
  BY <1>1, <1>2, <1>3, <1>4, <1>5, <1>6, EndpointsSteps DEF Next, Quiet

\* The archive it holds.
LEMMA Held ==
  ASSUME IInv, NEW p \in Requests, Holds(p)
  PROVE  "source.zip" \in files /\ bytes["source.zip"] = Whole(p)
<1>1. Claims(p)
  BY DEF Holds, Claims
<1> QED
  BY <1>1 DEF IInv, Kept, Holds

\* The first of what is wanted, and the others.
LEMMA OrderFacts ==
  ASSUME InOrder, NEW g \in Readers, steps[g] # <<>>
  PROVE  /\ Head(steps[g]) \in Wanted /\ Tail(steps[g]) \in Seq(Wanted)
         /\ Slot(g) \in {"digest", "body"} <=> File(g) = "source.zip"
         /\ Slot(g) = "body" <=> Head(steps[g]) = <<"body", "source.zip">>
         /\ Range(steps[g]) = {Head(steps[g])} \cup Range(Tail(steps[g]))
<1>1. steps[g] \in Seq(Wanted)
  BY DEF InOrder
<1>2. Head(steps[g]) \in Wanted /\ Tail(steps[g]) \in Seq(Wanted)
  BY <1>1
<1>3. /\ Slot(g) \in {"digest", "body"} <=> File(g) = "source.zip"
      /\ Slot(g) = "body" <=> Head(steps[g]) = <<"body", "source.zip">>
  BY <1>2 DEF Wanted, Slot, File
<1>4. Range(steps[g]) = {Head(steps[g])} \cup Range(Tail(steps[g]))
  BY <1>1, RangeFacts
<1> QED
  BY <1>2, <1>3, <1>4

\* What a download wants.
LEMMA PlanInOrder ==
  /\ \A e \in Endpoints : Plan(e) \in Seq(Wanted)
  /\ <<"body", "source.zip">> \in Range(Plan("download"))
<1> DEFINE digest == <<"digest", "source.zip">>
           signature == <<"signature", "source.sig">>
           metadata == <<"metadata", "metadata.json">>
           body == <<"body", "source.zip">>
<1>1. /\ digest \in Wanted /\ signature \in Wanted /\ metadata \in Wanted
      /\ body \in Wanted
  BY DEF Wanted
<1>2. Plan("download") = <<digest, signature, body>>
  BY DEF Plan
<1>3. Plan("info") = <<metadata, signature, digest>>
  BY DEF Plan
<1> HIDE DEF digest, signature, metadata, body
<1>4. ASSUME NEW S, NEW a \in S, NEW b \in S, NEW c \in S
      PROVE  <<a, b, c>> \in Seq(S) /\ c \in Range(<<a, b, c>>)
  <2>1. 3 \in DOMAIN <<a, b, c>> /\ <<a, b, c>>[3] = c
    OBVIOUS
  <2> QED
    BY <2>1 DEF Range
<1>5. <<digest, signature, body>> \in Seq(Wanted)
      /\ body \in Range(<<digest, signature, body>>)
  BY <1>1, <1>4
<1>6. <<metadata, signature, digest>> \in Seq(Wanted)
  BY <1>1, <1>4
<1>7. Plan("download") \in Seq(Wanted) /\ Plan("info") \in Seq(Wanted)
      /\ body \in Range(Plan("download"))
  BY <1>2, <1>3, <1>5, <1>6
<1> QED
  BY <1>7 DEF Endpoints, body
LEMMA InOrderNext ==
  ReadersInv /\ InOrder /\ [EndpointsNext]_allVars => InOrder'
<1> SUFFICES ASSUME ReadersInv, InOrder, [EndpointsNext]_allVars, NEW h \in Readers
             PROVE  steps'[h] \in Seq(Wanted)
  BY DEF InOrder, Wanted
<1> USE DEF ReadersInv, PublishInv, ReadersTypeOK
<1>1. steps[h] \in Seq(Wanted) /\ <<>> \in Seq(Wanted)
  BY DEF InOrder
<1>2. ASSUME NEW g \in Readers, Read(g) PROVE steps'[h] \in Seq(Wanted)
  <2>1. CASE h # g
    BY <1>1, <1>2, <2>1, OtherReaders
  <2>2. CASE h = g
    <3>1. ASSUME steps[g] # <<>> PROVE Tail(steps[g]) \in Seq(Wanted)
      BY <3>1, OrderFacts
    <3>2. CASE Ask(g)
      <4>1. Plan(asks[g]) \in Seq(Wanted)
        BY PlanInOrder
      <4>2. \/ steps' = [steps EXCEPT ![g] = Plan(asks[g])]
            \/ steps' = steps
        BY <3>2 DEF Ask
      <4>3. steps'[g] = Plan(asks[g]) \/ steps'[g] = steps[g]
        BY <4>2
      <4> QED
        BY <1>1, <2>2, <4>1, <4>3
    <3>3. CASE EndFile(g) \/ CannotOpen(g) \/ ReadFails(g)
      <4>1. steps[g] # <<>>
        BY <3>3 DEF EndFile, CannotOpen, ReadFails, Waiting
      <4>2. steps' = [steps EXCEPT ![g] = Tail(@)] \/ steps' = [steps EXCEPT ![g] = <<>>]
        BY <3>3 DEF EndFile, CannotOpen, ReadFails
      <4> QED
        BY <1>1, <2>2, <3>1, <4>1, <4>2
    <3>4. CASE PackageGone(g)
      BY <1>1, <2>2, <3>4 DEF PackageGone
    <3>5. CASE OpenFile(g) \/ Measure(g) \/ ReadPiece(g) \/ Respond(g)
      BY <1>1, <3>5 DEF OpenFile, Measure, ReadPiece, Respond
    <3> QED
      BY <1>2, <3>2, <3>3, <3>4, <3>5 DEF Read
  <2> QED
    BY <2>1, <2>2
<1>3. CASE PublishStep \/ UNCHANGED reading
  BY <1>1, <1>3 DEF PublishStep, reading
<1>4. CASE EndpointsCrash
  BY <1>1, <1>4 DEF EndpointsCrash
<1> QED
  BY <1>2, <1>3, <1>4, EndpointsSteps

\* What has been read of a file when its end is reached is all of it.
LEMMA FileEnds ==
  ASSUME IInv, ReadersInv, InOrder, NEW g \in Readers, EndFile(g),
         NEW p \in Requests, Holds(p), Fetching(g, p), File(g) = "source.zip"
  PROVE  data[g] = Whole(p)
<1> USE DEF ReadersInv, ReadersTypeOK
<1>1. bytes["source.zip"] = Whole(p) /\ p # Nobody
  BY Held, NobodyAssumption
<1>2. rpc[g] = "read" /\ lost[g] = Missing
  BY DEF EndFile, Fetching
<1>3. CASE Buffered
  BY <1>2, <1>3 DEF Fetching
<1>4. CASE ~Buffered
  <2>1. data[g] = Prefix(p, next[g] - 1) /\ limit[g] = Chunks
    BY <1>2, <1>4 DEF Fetching
  <2>2. next[g] \in 1..Chunks + 1
    OBVIOUS
  <2>3. \A k \in 1..Chunks : bytes["source.zip"][k] = p
    BY <1>1 DEF Whole, Prefix
  <2>4. ~Detached(g)
    BY <1>2 DEF Detached
  <2>5. next[g] > limit[g] \/ \A k \in next[g]..Chunks : Nobody = bytes[File(g)][k]
    BY <2>4 DEF EndFile
  <2>6. next[g] = Chunks + 1
    <3> SUFFICES ASSUME next[g] # Chunks + 1 PROVE FALSE
      OBVIOUS
    <3>1. next[g] \in 1..Chunks /\ next[g] \in next[g]..Chunks
      BY <2>2, ChunksAssumption
    <3> QED
      <4>1. ~(next[g] > limit[g])
        BY <2>1, <3>1, ChunksAssumption
      <4>2. bytes[File(g)][next[g]] = p
        BY <2>3, <3>1
      <4> QED
        BY <1>1, <2>5, <3>1, <4>1, <4>2
  <2>7. next[g] - 1 = Chunks
    BY <2>6, ChunksAssumption
  <2> QED
    BY <2>1, <2>7 DEF Whole
<1> QED
  BY <1>3, <1>4

\* A read keeps what Promised says of its reader.
LEMMA ReadKeepsPromise ==
  ASSUME "head" \notin FaultKinds, IInv, ReadersInv, InOrder, Promised,
         NEW g \in Readers, Read(g), NEW p \in promised'[g], p \in Requests
  PROVE  Holds(p) /\ Answering(g, p)' /\ Fetching(g, p)'
<1> USE DEF ReadersInv, ReadersTypeOK, Move, handle
<1> DEFINE body == <<"body", "source.zip">>
           A == /\ status'[g] # "notfound"
                /\ status'[g] = "error" => faults' > 0
                /\ got'[g]["digest"] \in {Missing, Whole(p)}
                /\ asks'[g] = "download" =>
                     /\ status'[g] = "ok" => got'[g]["body"] = Whole(p)
                     /\ rpc'[g] \in {"open", "measure", "read"} =>
                          \/ got'[g]["body"] = Whole(p)
                          \/ body \in Range(steps'[g])
           F == rpc'[g] \in {"measure", "read"} /\ Head(steps'[g])[2] = "source.zip" =>
                  /\ lost'[g] = Missing
                  /\ backend' # "file" =>
                       /\ rpc'[g] = "read"
                       /\ data'[g] = Whole(p) /\ limit'[g] = 0 /\ next'[g] = 1
                  /\ ~(backend' # "file") =>
                       /\ data'[g] = Prefix(p, next'[g] - 1)
                       /\ rpc'[g] = "read" => limit'[g] = Chunks
<1> SUFFICES Holds(p) /\ A /\ F
  BY DEF Answering, Fetching, File, Buffered, Missing, Whole, Prefix, Range
<1>0. backend' = backend
  BY ReadSteps DEF IInv, Untouched, server
<1>1. CASE Ask(g)
  <2>1. Holds(p)
    BY <1>1 DEF Ask, Holds
  <2>2. ~Exists("source.zip", FALSE)
    BY <2>1, Held DEF Exists, Fault
  <2>3. /\ rpc'[g] = "open" /\ steps'[g] = Plan(asks[g])
        /\ UNCHANGED <<status, got, asks>>
    BY <1>1, <2>2 DEF Ask
  <2>4. status[g] = "none" /\ got[g]["digest"] = Missing
    BY <1>1 DEF Ask, Waiting, Slots
  <2>5. asks[g] = "download" => body \in Range(steps'[g])
    BY <2>3, PlanInOrder
  <2> QED
    BY <2>1, <2>3, <2>4, <2>5
<1>2. ASSUME ~Ask(g)
      PROVE  /\ p \in promised[g] /\ Holds(p) /\ Answering(g, p) /\ Fetching(g, p)
             /\ "source.zip" \in files /\ bytes["source.zip"] = Whole(p)
  <2>1. promised' = promised
    BY <1>2 DEF Read, PackageGone, OpenFile, Measure, ReadPiece, EndFile, CannotOpen,
       ReadFails, Respond
  <2> QED
    BY <2>1, Held DEF Promised
<1>3. ~PackageGone(g)
  BY <1>2 DEF PackageGone, Ask
<1>4. CASE OpenFile(g)
  <2>1. ~Ask(g) /\ UNCHANGED <<status, faults, got, asks, steps, next, lost>>
    BY <1>4 DEF OpenFile, Ask, vars
  <2>2. rpc[g] = "open" /\ rpc'[g] \in {"measure", "read"}
    BY <1>4 DEF OpenFile
  <2>3. A
    BY <1>2, <2>1, <2>2 DEF Answering
  <2>4. data[g] = Empty /\ next[g] = 1 /\ limit[g] = 0 /\ lost[g] = Missing
    BY <2>2 DEF Waiting
  <2>5. Empty = Prefix(p, 0)
    BY DEF Empty, Prefix
  <2>6. CASE Buffered
    <3>1. data'[g] = bytes[File(g)] /\ limit' = limit /\ rpc'[g] = "read"
      BY <1>4, <2>6 DEF OpenFile
    <3>2. F
      BY <1>0, <1>2, <2>1, <2>4, <2>6, <3>1 DEF File, Buffered
    <3> QED
      BY <1>2, <2>1, <2>3, <3>2
  <2>7. CASE ~Buffered
    <3>1. limit'[g] = Chunks /\ data' = data
      BY <1>4, <2>7 DEF OpenFile
    <3>2. data'[g] = Prefix(p, next'[g] - 1)
      BY <2>1, <2>4, <2>5, <3>1
    <3> QED
      BY <1>0, <1>2, <2>1, <2>3, <2>4, <2>7, <3>1, <3>2 DEF Buffered
  <2> QED
    BY <1>2, <2>1, <2>3, <2>6, <2>7
<1>5. CASE Measure(g)
  <2>1. ~Ask(g) /\ UNCHANGED <<backend, status, faults, got, asks, steps, data, next, lost>>
    BY <1>5 DEF Measure, Ask, vars, server
  <2>2. rpc[g] = "measure" /\ rpc'[g] = "read"
    BY <1>5 DEF Measure
  <2>3. A
    BY <1>2, <2>1, <2>2 DEF Answering
  <2>4. ASSUME File(g) = "source.zip", lost[g] = Missing PROVE limit'[g] = Chunks
    BY <1>2, <1>5, <2>1, <2>4, LengthFacts DEF Measure, Detached
  <2>5. F
    BY <1>2, <2>1, <2>2, <2>4 DEF Fetching, File, Buffered
  <2> QED
    BY <1>2, <2>1, <2>3, <2>5
<1>6. CASE ReadPiece(g)
  <2>1. ~Ask(g) /\ UNCHANGED <<backend, rpc, status, faults, got, asks, steps, limit, lost>>
    BY <1>6 DEF ReadPiece, Ask, vars, server
  <2>2. rpc[g] = "read" /\ next[g] <= limit[g] /\ next'[g] = next[g] + 1
    BY <1>6 DEF ReadPiece
  <2>3. A
    BY <1>2, <2>1, <2>2 DEF Answering
  <2>4. PICK c \in Piece(g) : data' = [data EXCEPT ![g][next[g]] = c]
    BY <1>6 DEF ReadPiece
  <2>5. next[g] \in 1..Chunks
    BY <2>2, ChunksAssumption
  <2>6. ASSUME File(g) = "source.zip"
        PROVE  ~Buffered /\ lost[g] = Missing /\ data'[g] = Prefix(p, next'[g] - 1)
    <3>1. lost[g] = Missing /\ (Buffered => limit[g] = 0)
          /\ (~Buffered => data[g] = Prefix(p, next[g] - 1))
      BY <1>2, <2>1, <2>2, <2>6 DEF Fetching
    <3>2. ~Buffered /\ data[g] = Prefix(p, next[g] - 1)
      BY <2>2, <2>5, <3>1
    <3>3. c = p
      <4>1. c = bytes["source.zip"][next[g]]
        BY <2>4, <2>6, <3>1 DEF Piece, Detached
      <4> QED
        <5>1. Whole(p)[next[g]] = p
          BY <2>5 DEF Whole, Prefix
        <5> QED
          BY <1>2, <2>1, <4>1, <5>1
    <3>4. data'[g] = [Prefix(p, next[g] - 1) EXCEPT ![next[g]] = p]
      BY <2>4, <3>2, <3>3
    <3>5. next[g] - 1 \in Nat /\ (next[g] - 1) + 1 = next[g] /\ next'[g] - 1 = next[g]
      BY <2>2, <2>5, ChunksAssumption
    <3>6. data'[g] = Prefix(p, next[g])
      <4>1. [Prefix(p, next[g] - 1) EXCEPT ![(next[g] - 1) + 1] = p]
              = Prefix(p, (next[g] - 1) + 1)
        BY <3>5, PrefixGrows
      <4> QED
        BY <3>4, <3>5, <4>1
    <3> QED
      BY <3>1, <3>2, <3>5, <3>6
  <2>7. F
    BY <1>2, <2>1, <2>2, <2>6 DEF Fetching, File, Buffered
  <2> QED
    BY <1>2, <2>1, <2>3, <2>7
<1>7. CASE EndFile(g)
  <2>1. ~Ask(g) /\ UNCHANGED <<status, faults, asks>> /\ rpc'[g] = "open"
    BY <1>7 DEF EndFile, Ask, vars
  <2>2. rpc[g] = "read" /\ steps[g] # <<>>
    BY <1>7 DEF EndFile, Waiting
  <2>3. steps'[g] = Tail(steps[g]) /\ Slot(g) \in Slots
    BY <1>7, <2>2, StepsFacts DEF EndFile
  <2>4. got'[g] = [got[g] EXCEPT ![Slot(g)] = data[g]]
    BY <1>7 DEF EndFile
  <2>5. Slot(g) \in {"digest", "body"} => data[g] = Whole(p)
    BY <1>2, <1>7, <2>1, <2>2, FileEnds, OrderFacts
  <2>6. got'[g]["digest"] \in {Missing, Whole(p)}
    BY <1>2, <2>1, <2>3, <2>4, <2>5 DEF Answering, Slots
  <2>7. ASSUME asks[g] = "download"
        PROVE  /\ status[g] = "ok" => got'[g]["body"] = Whole(p)
               /\ got'[g]["body"] = Whole(p) \/ body \in Range(steps'[g])
    <3>1. CASE Slot(g) = "body"
      BY <2>3, <2>4, <2>5, <3>1 DEF Slots
    <3>2. CASE Slot(g) # "body"
      <4>1. got'[g]["body"] = got[g]["body"]
        BY <2>3, <2>4, <3>2 DEF Slots
      <4>2. body \in Range(steps[g]) => body \in Range(steps'[g])
        BY <2>2, <2>3, <3>2, OrderFacts
      <4> QED
        BY <1>2, <2>1, <2>2, <2>7, <4>1, <4>2 DEF Answering
    <3> QED
      BY <3>1, <3>2
  <2> QED
    BY <1>2, <2>1, <2>6, <2>7 DEF Answering
<1>8. CASE CannotOpen(g) \/ ReadFails(g)
  <2>1. ~Ask(g) /\ UNCHANGED <<got, asks>> /\ rpc[g] \in {"open", "read"}
    BY <1>8 DEF CannotOpen, ReadFails, Ask
  <2>2. steps[g] # <<>>
    BY <1>8 DEF CannotOpen, ReadFails, Waiting
  <2>3. faults <= faults'
    BY ReadSteps DEF IInv
  <2>4. faults \in Nat
    BY BoundsAssumption DEF IInv, TypeOK
  <2>5. CASE Slot(g) = "body"
    <3>1. rpc'[g] = "done" /\ status'[g] \in {"error", "cut"}
      BY <1>8, <2>5 DEF CannotOpen, ReadFails
    <3>2. File(g) \in files
      BY <1>2, <2>1, <2>2, <2>5, OrderFacts
    <3>3. faults' = faults + 1
      BY <1>8, <3>2 DEF CannotOpen, ReadFails, Fault
    <3> QED
      BY <1>2, <2>1, <2>4, <3>1, <3>3 DEF Answering
  <2>6. CASE Slot(g) # "body"
    <3>1. rpc'[g] = "open" /\ status' = status /\ steps'[g] = Tail(steps[g])
      BY <1>8, <2>6 DEF CannotOpen, ReadFails
    <3>2. body \in Range(steps[g]) => body \in Range(steps'[g])
      BY <2>2, <2>6, <3>1, OrderFacts
    <3>3. status'[g] = "error" => faults' > 0
      <4>1. status[g] = "error" => faults > 0
        BY <1>2, <2>1 DEF Answering
      <4>2. faults' \in Nat
        BY ReadSteps, BoundsAssumption DEF IInv
      <4> QED
        BY <2>3, <2>4, <3>1, <4>1, <4>2
    <3> QED
      BY <1>2, <2>1, <3>1, <3>2, <3>3 DEF Answering
  <2> QED
    BY <2>5, <2>6
<1>9. CASE Respond(g)
  <2>1. ~Ask(g) /\ UNCHANGED <<faults, got, asks, steps>> /\ rpc[g] = "open"
        /\ rpc'[g] = "done" /\ status'[g] = "ok" /\ steps[g] = <<>>
    BY <1>9 DEF Respond, Ask, vars
  <2>2. body \notin Range(steps[g])
    BY <2>1 DEF Range
  <2> QED
    BY <1>2, <2>1, <2>2 DEF Answering
<1> QED
  BY <1>1, <1>3, <1>4, <1>5, <1>6, <1>7, <1>8, <1>9 DEF Read
LEMMA PromisedNext ==
  "head" \notin FaultKinds /\ IInv /\ ReadersInv /\ InOrder /\ Promised
    /\ [EndpointsNext]_allVars => Promised'
<1> SUFFICES ASSUME "head" \notin FaultKinds, IInv, ReadersInv, InOrder, Promised,
                    [EndpointsNext]_allVars, NEW h \in Readers,
                    NEW p \in promised'[h]
             PROVE  Holds(p)' /\ Answering(h, p)' /\ Fetching(h, p)'
  BY DEF Promised
<1> USE DEF ReadersInv, ReadersTypeOK
<1>1. p \in Requests
  BY ReadersInvNext
<1>2. ASSUME p \in promised[h]
      PROVE  Holds(p) /\ Answering(h, p) /\ Fetching(h, p)
  BY <1>2 DEF Promised
<1>3. ASSUME Holds(p)
      PROVE  /\ Holds(p)' /\ backend' = backend
             /\ "source.zip" \in files'
  <2>1. Holds(p)' /\ backend' = backend /\ IInv'
    BY <1>1, <1>3, GoesOnHolding, IInvNext
  <2>2. Claims(p)'
    BY <2>1 DEF Holds, Claims
  <2>3. "source.zip" \in files'
    BY <1>1, <2>1, <2>2 DEF IInv, Kept, Holds
  <2> QED
    BY <2>1, <2>3
<1>4. faults \in Nat /\ faults' \in Nat /\ faults <= faults'
  BY FaultsGrow, TypedNext, IInvNext, BoundsAssumption DEF IInv, TypeOK
<1>5. ASSUME p \in promised[h], asks'[h] = asks[h], got'[h] = got[h],
             \/ UNCHANGED <<rpc[h], steps[h]>> /\ status'[h] = status[h]
             \/ /\ rpc'[h] \in {"idle", "done"}
                /\ status'[h] \in {status[h], "cut"}
      PROVE  Answering(h, p)'
  <2>1. status'[h] = "error" => faults' > 0
    BY <1>2, <1>4, <1>5 DEF Answering
  <2>2. status'[h] # "notfound" /\ (status'[h] = "ok" => status[h] = "ok")
    BY <1>2, <1>5 DEF Answering
  <2>3. \/ UNCHANGED <<rpc[h], steps[h]>>
        \/ rpc'[h] \notin {"open", "measure", "read"}
    BY <1>5
  <2>4. p \in promised[h] => Answering(h, p)
    BY <1>2
  <2>5. UNCHANGED <<asks[h], got[h]>>
    BY <1>5
  <2>6. /\ got'[h]["digest"] \in {Missing, Whole(p)}'
        /\ got'[h]["body"] = Whole(p)' <=> got[h]["body"] = Whole(p)
    BY <1>2, <1>5, <2>5 DEF Answering, Missing, Whole, Prefix
  <2>7. /\ asks'[h] = "download" /\ status'[h] = "ok" => got'[h]["body"] = Whole(p)'
        /\ asks'[h] = "download" /\ rpc'[h] \in {"open", "measure", "read"}
           => \/ got'[h]["body"] = Whole(p)'
              \/ <<"body", "source.zip">> \in Range(steps'[h])
    BY <1>5, <2>2, <2>3, <2>4, <2>5, <2>6 DEF Answering
  <2> QED
    BY <2>1, <2>2, <2>6, <2>7 DEF Answering, Range
<1>6. ASSUME NEW g \in Readers, Read(g), h = g
      PROVE  Holds(p)' /\ Answering(h, p)' /\ Fetching(h, p)'
  BY <1>1, <1>3, <1>6, ReadKeepsPromise
<1>7. ASSUME NEW g \in Readers, Read(g), h # g
      PROVE  Holds(p)' /\ Answering(h, p)' /\ Fetching(h, p)'
  <2>1. UNCHANGED <<asks[h], rpc[h], steps[h], got[h], data[h], next[h], limit[h],
                    lost[h], status[h], promised[h]>>
    BY <1>7, OtherReaders
  <2>2. p \in promised[h]
    BY <2>1
  <2>3. Holds(p)' /\ backend' = backend
    BY <1>2, <1>3, <2>2
  <2>4. Answering(h, p)'
    BY <1>5, <2>1, <2>2
  <2>5. Fetching(h, p)'
    BY <1>2, <2>1, <2>2, <2>3 DEF Fetching, File, Buffered, Missing, Whole, Prefix
  <2> QED
    BY <2>3, <2>4, <2>5
<1>8. CASE PublishStep
  <2>1. UNCHANGED <<asks, rpc, steps, got, data, next, limit, status, promised>>
    BY <1>8 DEF PublishStep
  <2>2. p \in promised[h] /\ Answering(h, p)'
    BY <1>5, <2>1
  <2>3. Holds(p)' /\ backend' = backend /\ "source.zip" \in files'
    BY <1>2, <1>3, <2>2
  <2>4. File(h) = "source.zip" => lost'[h] = lost[h]
    BY <1>8, <2>3 DEF PublishStep
  <2>5. Fetching(h, p)'
    BY <1>2, <2>1, <2>2, <2>3, <2>4
    DEF Fetching, File, Buffered, Missing, Whole, Prefix
  <2> QED
    BY <2>2, <2>3, <2>5
<1>9. CASE EndpointsCrash
  <2>1. /\ UNCHANGED <<asks, got, promised>> /\ rpc'[h] \in {"idle", "done"}
        /\ status'[h] \in {status[h], "cut"}
    BY <1>9 DEF EndpointsCrash
  <2>2. p \in promised[h] /\ Answering(h, p)'
    BY <1>5, <2>1
  <2>3. Fetching(h, p)'
    BY <2>1 DEF Fetching, File
  <2> QED
    BY <1>2, <1>3, <2>2, <2>3
<1>10. CASE UNCHANGED reading
  <2>1. UNCHANGED <<asks, rpc, steps, got, data, next, limit, lost, status, promised>>
    BY <1>10 DEF reading, handle
  <2>2. p \in promised[h] /\ Answering(h, p)'
    BY <1>5, <2>1
  <2>3. Fetching(h, p)'
    BY <1>2, <1>3, <2>1, <2>2 DEF Fetching, File, Buffered, Missing, Whole, Prefix
  <2> QED
    BY <1>2, <1>3, <2>2, <2>3
<1> QED
  BY <1>6, <1>7, <1>8, <1>9, <1>10, EndpointsSteps DEF IInv

\* If Exists never misses a file that is there, whoever asks for the archive of a
\* release that was accepted gets it whole, and whoever asks for a checksum the
\* archive's, from several reads with publishes, refusals and crashes in between.
THEOREM AcceptedServed ==
  "head" \notin FaultKinds => (EndpointsSpec => []AcceptedIsServed)
<1> SUFFICES ASSUME "head" \notin FaultKinds
             PROVE  EndpointsSpec => []AcceptedIsServed
  OBVIOUS
<1> DEFINE Inv == IInv /\ ReadersInv /\ InOrder /\ Promised
<1>1. EndpointsInit => Inv
  <2> SUFFICES ASSUME EndpointsInit PROVE Inv
    OBVIOUS
  <2>1. Init /\ ReadersInv
    BY ReadersInvInit DEF EndpointsInit
  <2>2. TypeOK /\ Uploading
    BY <2>1, TypedInit
  <2>3. Returned /\ Met /\ CopiedAlone /\ Kept
    BY <2>1 DEF Init, Returned, Met, CopiedAlone, Kept, Claims, Published, Active
  <2>4. InOrder /\ Promised
    BY DEF EndpointsInit, InOrder, Promised
  <2> QED
    BY <2>1, <2>2, <2>3, <2>4 DEF IInv
<1>2. Inv /\ [EndpointsNext]_allVars => Inv'
  BY IInvNext, ReadersInvNext, InOrderNext, PromisedNext
<1>3. Inv => AcceptedIsServed
  BY DEF Promised, Answering, AcceptedIsServed
<1> QED
  BY <1>1, <1>2, <1>3, PTL DEF EndpointsSpec
=============================================================================
