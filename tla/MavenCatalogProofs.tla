------------------------- MODULE MavenCatalogProofs -------------------------
(***************************************************************************)
(* Proofs about MavenCatalog, for every value of its constants.            *)
(***************************************************************************)
EXTENDS MavenCatalog, TLAPS

\* A call changes no more than the count of faults and the history.
LEMMA CallTyped ==
  ASSUME TypeOK, NEW u \in Uploads, NEW there,
         Works(u, there) \/ Fails(u, there) \/ Breaks(u, there)
  PROVE  faults' \in 0..MaxFaults /\ warned' \subseteq Uploads
  BY FaultAssumption DEF TypeOK, Works, Fails, Breaks, Fault

\* An upload is of a release of a package.
LEMMA PackageTyped ==
  ASSUME TypeOK, NEW u \in Uploads PROVE rel[u] \in Releases /\ Package(u) \in Packages
  BY PackageAssumption DEF TypeOK, Package

\* An upload moves to a label.
LEMMA MoveTyped ==
  ASSUME TypeOK, NEW u \in Uploads, NEW l \in Labels, GoTo(u, l)
  PROVE  pc' \in [Uploads -> Labels]
  BY DEF TypeOK, GoTo

\* The process starts with every variable in its type.
LEMMA TypedInit == Init => TypeOK
<1> SUFFICES ASSUME Init PROVE TypeOK
  OBVIOUS
<1>1. pc \in [Uploads -> Labels]
  BY DEF Init, Labels
<1>2. faults \in 0..MaxFaults /\ crashes \in 0..MaxCrashes
  BY FaultAssumption DEF Init
<1> QED
  BY <1>1, <1>2, PolicyAssumption DEF Init, TypeOK

\* No step of the catalog takes a variable out of its type: one step per action.
LEMMA TypedNext == TypeOK /\ [Next]_vars => TypeOK'
<1> SUFFICES ASSUME TypeOK, [Next]_vars PROVE TypeOK'
  OBVIOUS
<1> USE DEF disk, locks, env
<1>1. ASSUME NEW u \in Uploads, Start(u) PROVE TypeOK'
  <2>1. pc' \in [Uploads -> Labels]
    BY <1>1, MoveTyped DEF Start, Labels
  <2> QED
    BY <1>1, <2>1 DEF Start, TypeOK
<1>2. ASSUME NEW u \in Uploads, PutArtifact(u) PROVE TypeOK'
  <2>1. pc' \in [Uploads -> Labels]
    BY <1>2, MoveTyped DEF PutArtifact, Labels
  <2>2. faults' \in 0..MaxFaults /\ warned' \subseteq Uploads
    BY <1>2, CallTyped DEF PutArtifact
  <2> QED
    BY <1>2, <2>1, <2>2, PackageTyped DEF PutArtifact, TypeOK
<1>3. ASSUME NEW u \in Uploads, PutSum(u) PROVE TypeOK'
  <2>1. pc' \in [Uploads -> Labels]
    BY <1>3, MoveTyped DEF PutSum, Labels
  <2>2. faults' \in 0..MaxFaults /\ warned' \subseteq Uploads
    BY <1>3, CallTyped DEF PutSum
  <2> QED
    BY <1>3, <2>1, <2>2, PackageTyped DEF PutSum, TypeOK
<1>4. ASSUME NEW u \in Uploads, LockMetadata(u) PROVE TypeOK'
  <2>1. pc' \in [Uploads -> Labels]
    BY <1>4, MoveTyped DEF LockMetadata, Labels
  <2> QED
    BY <1>4, <2>1, PackageTyped DEF LockMetadata, TypeOK
<1>5. ASSUME NEW u \in Uploads, LoadMetadata(u) PROVE TypeOK'
  <2>1. pc' \in [Uploads -> Labels]
    BY <1>5, MoveTyped DEF LoadMetadata, Labels
  <2>2. faults' \in 0..MaxFaults /\ warned' \subseteq Uploads
    BY <1>5, CallTyped DEF LoadMetadata
  <2>3. loaded' \in [Uploads -> SUBSET Releases]
    BY <1>5, PackageTyped DEF LoadMetadata, TypeOK
  <2> QED
    BY <1>5, <2>1, <2>2, <2>3 DEF LoadMetadata, TypeOK
<1>6. ASSUME NEW u \in Uploads, SaveMetadata(u) PROVE TypeOK'
  <2>1. pc' \in [Uploads -> Labels]
    BY <1>6, MoveTyped DEF SaveMetadata, Labels
  <2>2. faults' \in 0..MaxFaults /\ warned' \subseteq Uploads
    BY <1>6, CallTyped DEF SaveMetadata
  <2>3. versions' \in [Packages -> SUBSET Releases]
    <3>1. loaded[u] \cup {rel[u]} \in SUBSET Releases
      BY PackageTyped DEF TypeOK
    <3>2. \/ UNCHANGED versions
          \/ versions' = [versions EXCEPT ![Package(u)] = loaded[u] \cup {rel[u]}]
      BY <1>6 DEF SaveMetadata
    <3> QED
      BY <3>1, <3>2 DEF TypeOK
  <2> QED
    BY <1>6, <2>1, <2>2, <2>3 DEF SaveMetadata, TypeOK
<1>7. ASSUME NEW u \in Uploads, LockIndex(u) PROVE TypeOK'
  <2>1. pc' \in [Uploads -> Labels]
    BY <1>7, MoveTyped DEF LockIndex, Labels
  <2> QED
    BY <1>7, <2>1 DEF LockIndex, TypeOK
<1>8. ASSUME NEW u \in Uploads, ReadIndex(u) PROVE TypeOK'
  <2>1. pc' \in [Uploads -> Labels]
    BY <1>8, MoveTyped DEF ReadIndex, Labels
  <2>2. faults' \in 0..MaxFaults /\ warned' \subseteq Uploads
    BY <1>8, CallTyped DEF ReadIndex
  <2>3. listed' \in [Uploads -> SUBSET Packages]
    BY <1>8 DEF ReadIndex, TypeOK
  <2> QED
    BY <1>8, <2>1, <2>2, <2>3 DEF ReadIndex, TypeOK
<1>9. ASSUME NEW u \in Uploads, DeleteIndex(u) PROVE TypeOK'
  <2>1. pc' \in [Uploads -> Labels]
    BY <1>9, MoveTyped DEF DeleteIndex, Labels
  <2>2. faults' \in 0..MaxFaults /\ warned' \subseteq Uploads
    BY <1>9, CallTyped DEF DeleteIndex
  <2> QED
    BY <1>9, <2>1, <2>2 DEF DeleteIndex, TypeOK
<1>10. ASSUME NEW u \in Uploads, WriteIndex(u) PROVE TypeOK'
  <2>1. pc' \in [Uploads -> Labels]
    BY <1>10, MoveTyped DEF WriteIndex, Labels
  <2>2. faults' \in 0..MaxFaults /\ warned' \subseteq Uploads
    BY <1>10, CallTyped DEF WriteIndex
  <2>3. index' \subseteq Packages
    BY <1>10, PackageTyped DEF WriteIndex, TypeOK
  <2> QED
    BY <1>10, <2>1, <2>2, <2>3 DEF WriteIndex, TypeOK
<1>11. ASSUME NEW u \in Uploads, Remove(u) PROVE TypeOK'
  BY <1>11 DEF Remove, TypeOK
<1>12. ASSUME NEW u \in Uploads, Disconnect(u) PROVE TypeOK'
  BY <1>12, FaultAssumption DEF Disconnect, Fault, TypeOK
<1>13. CASE Crash
  <2>1. pc' \in [Uploads -> Labels]
    BY <1>13 DEF Crash, TypeOK, Labels
  <2>2. crashes' \in 0..MaxCrashes
    BY <1>13, FaultAssumption DEF Crash, TypeOK
  <2>3. warned' \subseteq Uploads /\ spoilt' \subseteq Releases
    BY <1>13, PackageTyped DEF Crash, TypeOK
  <2> QED
    BY <1>13, <2>1, <2>2, <2>3 DEF Crash, TypeOK
<1>14. CASE UNCHANGED vars
  BY <1>14 DEF vars, TypeOK
<1> QED
  BY <1>1, <1>2, <1>3, <1>4, <1>5, <1>6, <1>7, <1>8, <1>9, <1>10, <1>11, <1>12, <1>13, <1>14
  DEF Next, Close, Quiet

----------------------------------------------------------------------------
\* A step that is none of the three that update maven-metadata.xml leaves the
\* file and its lock alone, and brings no upload to the update.
AwayFromMetadata ==
  /\ UNCHANGED <<versions, rel, loaded, keyLock>>
  /\ \A u \in Uploads : pc'[u] \in {"load", "save"} => pc'[u] = pc[u]

\* Every step but those three, and a crash, is such a step.
LEMMA OtherSteps ==
  ASSUME TypeOK, [Next]_vars
  PROVE  \/ AwayFromMetadata
         \/ Crash
         \/ \E u \in Uploads :
              LockMetadata(u) \/ LoadMetadata(u) \/ SaveMetadata(u)
<1> USE DEF TypeOK, GoTo, disk, locks, env, AwayFromMetadata
<1>1. ASSUME NEW u \in Uploads, Start(u) PROVE AwayFromMetadata
  BY <1>1 DEF Start
<1>2. ASSUME NEW u \in Uploads, PutArtifact(u) PROVE AwayFromMetadata
  BY <1>2 DEF PutArtifact
<1>3. ASSUME NEW u \in Uploads, PutSum(u) PROVE AwayFromMetadata
  BY <1>3 DEF PutSum
<1>4. ASSUME NEW u \in Uploads, LockIndex(u) \/ ReadIndex(u) PROVE AwayFromMetadata
  BY <1>4 DEF LockIndex, ReadIndex
<1>5. ASSUME NEW u \in Uploads, DeleteIndex(u) \/ WriteIndex(u)
      PROVE  AwayFromMetadata
  BY <1>5 DEF DeleteIndex, WriteIndex
<1>6. ASSUME NEW u \in Uploads, Remove(u) \/ Disconnect(u) PROVE AwayFromMetadata
  BY <1>6 DEF Remove, Disconnect
<1>7. CASE UNCHANGED vars
  BY <1>7 DEF vars
<1> QED
  BY <1>1, <1>2, <1>3, <1>4, <1>5, <1>6, <1>7 DEF Next, Close, Quiet

\* Who updates maven-metadata.xml holds its lock, and has read what is there.
LEMMA MetadataInvNext == MetadataInv /\ [Next]_vars => MetadataInv'
<1> SUFFICES ASSUME MetadataInv, [Next]_vars PROVE Holding' /\ UpToDate'
  BY TypedNext DEF MetadataInv
<1> USE DEF MetadataInv, TypeOK, Holding, UpToDate, Package
<1>1. CASE AwayFromMetadata
  BY <1>1 DEF AwayFromMetadata
<1>2. CASE Crash
  BY <1>2 DEF Crash, Active
<1>3. ASSUME NEW u \in Uploads, LockMetadata(u) PROVE Holding' /\ UpToDate'
  <2>1. \A v \in Uploads : pc[v] \in {"load", "save"} => Package(v) # Package(u)
    BY <1>3, NoOneAssumption DEF LockMetadata
  <2>2. /\ UNCHANGED <<versions, rel, loaded>> /\ pc'[u] = "load"
        /\ keyLock' = [keyLock EXCEPT ![Package(u)] = u]
        /\ \A v \in Uploads \ {u} : pc'[v] = pc[v]
    BY <1>3 DEF LockMetadata, GoTo, disk, env
  <2> QED
    BY <2>1, <2>2, PackageTyped
<1>4. ASSUME NEW u \in Uploads, LoadMetadata(u) PROVE Holding' /\ UpToDate'
  <2>1. \A v \in Uploads \ {u} :
           pc[v] \in {"load", "save"} => Package(v) # Package(u)
    BY <1>4 DEF LoadMetadata
  <2>2. /\ UNCHANGED <<versions, rel>>
        /\ \A v \in Uploads \ {u} : pc'[v] = pc[v] /\ loaded'[v] = loaded[v]
        /\ \/ /\ loaded'[u] = versions[Package(u)] /\ UNCHANGED keyLock
              /\ pc[u] = "load"
           \/ /\ keyLock' = [keyLock EXCEPT ![Package(u)] = NoOne]
              /\ pc'[u] = "ilock"
    BY <1>4 DEF LoadMetadata, GoTo, disk, env
  <2> QED
    BY <2>1, <2>2, PackageTyped
<1>5. ASSUME NEW u \in Uploads, SaveMetadata(u) PROVE Holding' /\ UpToDate'
  <2>1. \A v \in Uploads \ {u} :
           pc[v] \in {"load", "save"} => Package(v) # Package(u)
    BY <1>5 DEF SaveMetadata
  <2>2. /\ UNCHANGED <<rel, loaded>> /\ pc'[u] = "ilock"
        /\ keyLock' = [keyLock EXCEPT ![Package(u)] = NoOne]
        /\ \A v \in Uploads \ {u} : pc'[v] = pc[v]
        /\ \A k \in Packages \ {Package(u)} : versions'[k] = versions[k]
    BY <1>5 DEF SaveMetadata, GoTo, env
  <2> QED
    BY <2>1, <2>2, PackageTyped
<1> QED
  BY <1>1, <1>2, <1>3, <1>4, <1>5, OtherSteps

\* Type correctness of the catalog: every variable has its type in every
\* reachable state, whatever calls fail.
THEOREM CatalogTypeCorrect == Spec => []TypeOK
  BY TypedInit, TypedNext, PTL DEF Spec

\* No step takes a release off maven-metadata.xml.
LEMMA MetadataKept ==
  ASSUME MetadataInv, [Next]_vars, NEW k \in Packages
  PROVE  versions[k] \subseteq versions'[k]
<1>1. CASE UNCHANGED versions
  BY <1>1
<1>2. ASSUME NEW u \in Uploads, SaveMetadata(u)
      PROVE  versions[k] \subseteq versions'[k]
  <2>1. pc[u] = "save" /\ loaded[u] = versions[Package(u)]
    BY <1>2 DEF SaveMetadata, MetadataInv, UpToDate
  <2>2. \/ UNCHANGED versions
        \/ versions' = [versions EXCEPT ![Package(u)] = loaded[u] \cup {rel[u]}]
    BY <1>2 DEF SaveMetadata
  <2> QED
    BY <2>1, <2>2 DEF MetadataInv, TypeOK
<1>3. AwayFromMetadata \/ Crash => UNCHANGED versions
  BY DEF AwayFromMetadata, Crash, disk
<1>4. \A u \in Uploads : LockMetadata(u) \/ LoadMetadata(u) => UNCHANGED versions
  BY DEF LockMetadata, LoadMetadata, disk
<1> QED
  BY <1>1, <1>2, <1>3, <1>4, OtherSteps DEF MetadataInv

\* maven-metadata.xml never loses a release it has listed, however many uploads
\* overlap and whatever calls fail, clients go away and crashes happen
\* (access.go:198-211, metadata.go:84-135).
THEOREM MetadataGrows == Spec => MetadataNeverShrinks
<1>1. Init => MetadataInv
  BY TypedInit DEF Init, MetadataInv, Holding, UpToDate
<1>2. MetadataInv /\ [Next]_vars => MetadataInv'
  BY MetadataInvNext
<1>3. MetadataInv /\ [Next]_vars =>
        [\A k \in Packages : versions[k] \subseteq versions'[k]]_vars
  BY MetadataKept
<1> QED
  BY <1>1, <1>2, <1>3, PTL DEF Spec, MetadataNeverShrinks

----------------------------------------------------------------------------
(* Whoever has had its turn is listed *)

Past == {"ilock", "read", "delete", "write", "done"}

\* An upload comes past its update of maven-metadata.xml with its release listed, or
\* with a call that has failed; and no one who has failed is forgiven.
LEMMA PastSteps ==
  ASSUME TypeOK, [Next]_vars, NEW u \in Uploads, u \notin warned', pc'[u] \in Past
  PROVE  /\ u \notin warned /\ UNCHANGED rel
         /\ pc[u] \in Past \/ rel[u] \in versions'[Package(u)]
<1> USE DEF TypeOK, GoTo, disk, locks, env, Past, Works, Fails, Breaks
<1>1. ASSUME NEW v \in Uploads, Start(v) PROVE u \notin warned /\ UNCHANGED rel /\ pc[u] \in Past
  BY <1>1 DEF Start
<1>2. ASSUME NEW v \in Uploads, PutArtifact(v)
      PROVE  u \notin warned /\ UNCHANGED rel /\ pc[u] \in Past
  BY <1>2 DEF PutArtifact
<1>3. ASSUME NEW v \in Uploads, PutSum(v) \/ LockMetadata(v)
      PROVE  u \notin warned /\ UNCHANGED rel /\ pc[u] \in Past
  BY <1>3 DEF PutSum, LockMetadata
<1>4. ASSUME NEW v \in Uploads, LoadMetadata(v)
      PROVE  u \notin warned /\ UNCHANGED rel /\ pc[u] \in Past
  BY <1>4 DEF LoadMetadata
<1>5. ASSUME NEW v \in Uploads, SaveMetadata(v)
      PROVE  /\ u \notin warned /\ UNCHANGED rel
             /\ pc[u] \in Past \/ rel[u] \in versions'[Package(u)]
  <2>1. u \notin warned /\ UNCHANGED rel /\ (u # v => pc[u] \in Past)
    BY <1>5 DEF SaveMetadata
  <2>2. CASE u = v
    <3>1. versions' = [versions EXCEPT ![Package(u)] = loaded[u] \cup {rel[u]}]
      BY <1>5, <2>2 DEF SaveMetadata
    <3> QED
      BY <2>1, <3>1, PackageTyped
  <2> QED
    BY <2>1, <2>2
<1>6. ASSUME NEW v \in Uploads, LockIndex(v) \/ ReadIndex(v) \/ DeleteIndex(v) \/ WriteIndex(v)
      PROVE  u \notin warned /\ UNCHANGED rel /\ pc[u] \in Past
  BY <1>6 DEF LockIndex, ReadIndex, DeleteIndex, WriteIndex
<1>7. ASSUME NEW v \in Uploads, Remove(v) \/ Disconnect(v)
      PROVE  u \notin warned /\ UNCHANGED rel /\ pc[u] \in Past
  BY <1>7 DEF Remove, Disconnect
<1>8. CASE Crash
  BY <1>8 DEF Crash
<1>9. CASE UNCHANGED vars
  BY <1>9 DEF vars
<1> QED
  BY <1>1, <1>2, <1>3, <1>4, <1>5, <1>6, <1>7, <1>8, <1>9 DEF Next, Close, Quiet

\* Every upload that has had its turn, and no failing call, is listed in
\* maven-metadata.xml: no other upload of the package has undone its update.
THEOREM MetadataComplete == Spec => []MetadataIsComplete
<1>1. Init => MetadataInv /\ MetadataIsComplete
  BY TypedInit DEF Init, MetadataInv, Holding, UpToDate, MetadataIsComplete
<1>2. MetadataInv /\ MetadataIsComplete /\ [Next]_vars => (MetadataInv /\ MetadataIsComplete)'
  <2> SUFFICES ASSUME MetadataInv, MetadataIsComplete, [Next]_vars,
                      NEW u \in Uploads, u \notin warned', pc'[u] \in Past
               PROVE  rel'[u] \in versions'[Package(u)']
    BY MetadataInvNext DEF MetadataIsComplete, Past
  <2>1. /\ u \notin warned /\ UNCHANGED rel
        /\ pc[u] \in Past \/ rel[u] \in versions'[Package(u)]
    BY PastSteps DEF MetadataInv
  <2>2. Package(u)' = Package(u) /\ Package(u) \in Packages
    BY <2>1, PackageTyped DEF Package, MetadataInv
  <2>3. versions[Package(u)] \subseteq versions'[Package(u)]
    BY <2>2, MetadataKept
  <2> QED
    BY <2>1, <2>2, <2>3 DEF MetadataIsComplete, Past
<1> QED
  BY <1>1, <1>2, PTL DEF Spec

----------------------------------------------------------------------------
(* The index *)

\* Who rewrites the index holds its lock.
Indexing == \A u \in Uploads : pc[u] \in {"read", "delete", "write"} => indexLock = u

\* While no call has failed, the index has every package that has been written to it,
\* or, between the DELETE and the PUT, whoever is going to PUT it has.
Indexed ==
  warned = {} =>
    \A u, v \in Uploads :
      /\ pc[u] = "delete" => listed[u] = index
      /\ pc[u] = "write" /\ pc[v] = "done" => Package(v) \in listed[u]
      /\ pc[v] = "done" => Package(v) \in index \/ \E w \in Uploads : pc[w] = "write"

\* The inductive invariant behind IndexIsComplete.
IndexInv == TypeOK /\ Indexing /\ Indexed

\* A step that is none of those that rewrite the index, nor a crash, leaves the index
\* and its lock alone, and brings no upload to or past the rewriting but by failing.
AwayFromIndex ==
  /\ UNCHANGED <<index, indexLock, rel, listed>>
  /\ warned \subseteq warned'
  /\ \A u \in Uploads : pc'[u] \in {"read", "delete", "write"} \/ pc[u] \in {"read", "delete", "write"}
                          => pc'[u] = pc[u]
  /\ \A u \in Uploads : pc'[u] = "done" => pc[u] = "done" \/ warned' # {}

\* Every step but those four, and a crash, is such a step.
LEMMA OtherIndexSteps ==
  ASSUME TypeOK, [Next]_vars
  PROVE  \/ AwayFromIndex
         \/ Crash
         \/ \E u \in Uploads :
              LockIndex(u) \/ ReadIndex(u) \/ DeleteIndex(u) \/ WriteIndex(u)
<1> USE DEF TypeOK, GoTo, disk, locks, env, AwayFromIndex, Works, Fails, Breaks
<1>1. ASSUME NEW u \in Uploads, Start(u) PROVE AwayFromIndex
  BY <1>1 DEF Start
<1>2. ASSUME NEW u \in Uploads, PutArtifact(u) PROVE AwayFromIndex
  BY <1>2 DEF PutArtifact
<1>3. ASSUME NEW u \in Uploads, PutSum(u) PROVE AwayFromIndex
  BY <1>3 DEF PutSum
<1>4. ASSUME NEW u \in Uploads, LockMetadata(u) \/ LoadMetadata(u) PROVE AwayFromIndex
  BY <1>4 DEF LockMetadata, LoadMetadata
<1>5. ASSUME NEW u \in Uploads, SaveMetadata(u) PROVE AwayFromIndex
  BY <1>5 DEF SaveMetadata
<1>6. ASSUME NEW u \in Uploads, Remove(u) \/ Disconnect(u) PROVE AwayFromIndex
  BY <1>6 DEF Remove, Disconnect
<1>7. CASE UNCHANGED vars
  BY <1>7 DEF vars
<1> QED
  BY <1>1, <1>2, <1>3, <1>4, <1>5, <1>6, <1>7 DEF Next, Close, Quiet

\* A crash is a failing call of whoever was under way.
LEMMA CrashWarns == Crash => warned' # {}
  BY DEF Crash

\* Who rewrites the index has read what was in it: one step per action that does.
LEMMA IndexInvNext == IndexInv /\ [Next]_vars => IndexInv'
<1> SUFFICES ASSUME IndexInv, [Next]_vars PROVE Indexing' /\ Indexed'
  BY TypedNext DEF IndexInv
<1> USE DEF IndexInv, TypeOK, Indexing, Indexed, Package
<1>1. CASE AwayFromIndex
  BY <1>1 DEF AwayFromIndex
<1>2. CASE Crash
  <2>1. \A u \in Uploads : pc'[u] \notin {"read", "delete", "write"}
    BY <1>2 DEF Crash, Active
  <2> QED
    BY <1>2, <2>1, CrashWarns
<1>3. ASSUME NEW u \in Uploads, LockIndex(u) PROVE Indexing' /\ Indexed'
  <2>1. \A v \in Uploads : pc[v] \notin {"read", "delete", "write"}
    BY <1>3, NoOneAssumption DEF LockIndex
  <2>2. /\ UNCHANGED <<index, rel, listed, warned>> /\ indexLock' = u
        /\ pc'[u] = "read" /\ \A v \in Uploads \ {u} : pc'[v] = pc[v]
    BY <1>3 DEF LockIndex, GoTo, disk, env
  <2> QED
    BY <2>1, <2>2
<1>4. ASSUME NEW u \in Uploads, ReadIndex(u) PROVE Indexing' /\ Indexed'
  <2>1. \A v \in Uploads \ {u} : pc[v] \notin {"read", "delete", "write"}
    BY <1>4 DEF ReadIndex
  <2>2. /\ UNCHANGED <<index, rel, indexLock>> /\ pc[u] = "read"
        /\ pc'[u] = "delete" /\ \A v \in Uploads \ {u} : pc'[v] = pc[v]
        /\ warned' = {} => warned = {} /\ listed'[u] = index
    BY <1>4 DEF ReadIndex, GoTo, disk, env, locks, Works, Fails
  <2> QED
    BY <2>1, <2>2
<1>5. ASSUME NEW u \in Uploads, DeleteIndex(u) PROVE Indexing' /\ Indexed'
  <2>1. \A v \in Uploads \ {u} : pc[v] \notin {"read", "delete", "write"}
    BY <1>5 DEF DeleteIndex
  <2>2. /\ UNCHANGED <<listed, rel, indexLock>> /\ pc[u] = "delete"
        /\ pc'[u] = "write" /\ \A v \in Uploads \ {u} : pc'[v] = pc[v]
        /\ warned' = {} => warned = {}
    BY <1>5 DEF DeleteIndex, GoTo, env, locks, Works, Fails, Breaks
  <2> QED
    BY <2>1, <2>2
<1>6. ASSUME NEW u \in Uploads, WriteIndex(u) PROVE Indexing' /\ Indexed'
  <2>1. \A v \in Uploads \ {u} : pc[v] \notin {"read", "delete", "write"}
    BY <1>6 DEF WriteIndex
  <2>2. /\ UNCHANGED <<listed, rel>> /\ pc[u] = "write"
        /\ pc'[u] = "done" /\ \A v \in Uploads \ {u} : pc'[v] = pc[v]
        /\ warned' = {} => warned = {} /\ index' = listed[u] \cup {Package(u)}
    BY <1>6 DEF WriteIndex, GoTo, env, Works, Fails, Breaks
  <2> QED
    BY <2>1, <2>2
<1> QED
  BY <1>1, <1>2, <1>3, <1>4, <1>5, <1>6, OtherIndexSteps

\* While no call has failed, no upload takes the package of another out of the index,
\* though it is deleted before it is written (access.go:156-203).
THEOREM IndexComplete == Spec => []IndexIsComplete
<1>1. Init => IndexInv
  BY TypedInit DEF Init, IndexInv, Indexing, Indexed
<1>2. IndexInv => IndexIsComplete
  <2> SUFFICES ASSUME IndexInv, indexLock = NoOne, warned = {},
                      NEW u \in Uploads, pc[u] = "done"
               PROVE  Package(u) \in index
    BY DEF IndexIsComplete
  <2>1. ~\E w \in Uploads : pc[w] = "write"
    BY NoOneAssumption DEF IndexInv, Indexing
  <2> QED
    BY <2>1 DEF IndexInv, Indexed
<1> QED
  BY <1>1, <1>2, IndexInvNext, PTL DEF Spec

----------------------------------------------------------------------------
(* The checksum of an archive *)

\* Of a release that no two uploads have overlapped on, and whose .sha256 was written
\* each time: one upload at a time is under way; while it has not written the
\* .sha256 the archive is its own, if it is there; and otherwise the .sha256 is
\* the archive's.
Summed ==
  \A r \in Releases \ spoilt :
    /\ \A u, v \in Uploads :
         Active(u) /\ Active(v) /\ rel[u] = r /\ rel[v] = r => u = v
    /\ \A u \in Uploads : pc[u] = "sum" /\ rel[u] = r => artifact[r] \in {u, NoOne}
    /\ artifact[r] # NoOne /\ (\A u \in Uploads : rel[u] = r => pc[u] \notin {"put", "sum"}) =>
         sum[r] \in {NoOne, artifact[r]}

\* A step that stores neither archive nor checksum, nor begins an upload, at most
\* takes an archive away, or ends an upload after both.
AwayFromSums ==
  /\ UNCHANGED <<sum, rel>> /\ spoilt \subseteq spoilt'
  /\ \A r \in Releases : artifact'[r] \in {artifact[r], NoOne}
  /\ \A u \in Uploads : /\ Active(u)' => Active(u)
                        /\ rel[u] \notin spoilt' => (pc'[u] = "sum" <=> pc[u] = "sum")
                                                 /\ (pc'[u] = "put" <=> pc[u] = "put")

\* Every step but three is such a step.
LEMMA OtherSumSteps ==
  ASSUME TypeOK, [Next]_vars
  PROVE  \/ AwayFromSums
         \/ \E u \in Uploads : Start(u) \/ PutArtifact(u) \/ PutSum(u)
<1> USE DEF TypeOK, GoTo, disk, locks, env, AwayFromSums, Active
<1>1. ASSUME NEW u \in Uploads, LockMetadata(u) \/ LoadMetadata(u) PROVE AwayFromSums
  BY <1>1 DEF LockMetadata, LoadMetadata
<1>2. ASSUME NEW u \in Uploads, SaveMetadata(u) PROVE AwayFromSums
  BY <1>2 DEF SaveMetadata
<1>3. ASSUME NEW u \in Uploads, LockIndex(u) \/ ReadIndex(u) PROVE AwayFromSums
  BY <1>3 DEF LockIndex, ReadIndex
<1>4. ASSUME NEW u \in Uploads, DeleteIndex(u) \/ WriteIndex(u) PROVE AwayFromSums
  BY <1>4 DEF DeleteIndex, WriteIndex
<1>5. ASSUME NEW u \in Uploads, Remove(u) \/ Disconnect(u) PROVE AwayFromSums
  BY <1>5 DEF Remove, Disconnect
<1>6. CASE Crash
  BY <1>6 DEF Crash
<1>7. CASE UNCHANGED vars
  BY <1>7 DEF vars
<1> QED
  BY <1>1, <1>2, <1>3, <1>4, <1>5, <1>6, <1>7 DEF Next, Close, Quiet

\* An upload brings its own checksum: one step per action that stores one of the two.
LEMMA SummedNext == TypeOK /\ Summed /\ [Next]_vars => Summed'
<1> SUFFICES ASSUME TypeOK, Summed, [Next]_vars PROVE Summed'
  OBVIOUS
<1>1. CASE AwayFromSums
  <2> SUFFICES ASSUME NEW r \in Releases, r \notin spoilt'
      PROVE /\ \A u, v \in Uploads :
                 Active(u)' /\ Active(v)' /\ rel'[u] = r /\ rel'[v] = r => u = v
            /\ \A u \in Uploads : pc'[u] = "sum" /\ rel'[u] = r => artifact'[r] \in {u, NoOne}
            /\ artifact'[r] # NoOne
               /\ (\A u \in Uploads : rel'[u] = r => pc'[u] \notin {"put", "sum"}) =>
                 sum'[r] \in {NoOne, artifact'[r]}
    BY DEF Summed
  <2> QED
    BY <1>1 DEF AwayFromSums, Summed
<1>2. ASSUME NEW w \in Uploads, Start(w) \/ PutArtifact(w) \/ PutSum(w) PROVE Summed'
  <2>1. /\ UNCHANGED rel /\ spoilt \subseteq spoilt' /\ rel[w] \in Releases
        /\ \A u \in Uploads \ {w} : pc'[u] = pc[u]
        /\ \A r \in Releases \ {rel[w]} : artifact'[r] = artifact[r] /\ sum'[r] = sum[r]
    BY <1>2 DEF Start, PutArtifact, PutSum, TypeOK, GoTo, disk
  <2>2. ASSUME rel[w] \notin spoilt', NEW u \in Uploads, u # w, rel[u] = rel[w] PROVE ~Active(u)
    <3>1. CASE Start(w)
      BY <2>2, <3>1 DEF Start, TypeOK
    <3>2. CASE PutArtifact(w) \/ PutSum(w)
      <4>1. Active(w)
        BY <3>2 DEF PutArtifact, PutSum, Active
      <4> QED
        BY <2>1, <2>2, <4>1 DEF Summed
    <3> QED
      BY <1>2, <3>1, <3>2
  <2>3. ASSUME rel[w] \notin spoilt'
        PROVE  \/ pc'[w] = "put" /\ artifact' = artifact
               \/ pc'[w] = "sum" /\ artifact'[rel[w]] = w
               \/ /\ pc[w] = "sum" /\ pc'[w] = "lock"
                  /\ artifact' = artifact /\ sum'[rel[w]] = w
    BY <1>2, <2>1, <2>3 DEF Start, PutArtifact, PutSum, TypeOK, GoTo, disk
  <2>4. ASSUME NEW r \in Releases, r \notin spoilt', r # rel[w]
        PROVE  /\ \A u, v \in Uploads :
                    Active(u)' /\ Active(v)' /\ rel'[u] = r /\ rel'[v] = r => u = v
               /\ \A u \in Uploads : pc'[u] = "sum" /\ rel'[u] = r => artifact'[r] \in {u, NoOne}
               /\ artifact'[r] # NoOne
                  /\ (\A u \in Uploads : rel'[u] = r => pc'[u] \notin {"put", "sum"}) =>
                    sum'[r] \in {NoOne, artifact'[r]}
    BY <2>1, <2>4 DEF Summed, Active
  <2>5. ASSUME rel[w] \notin spoilt'
        PROVE  /\ \A u, v \in Uploads :
                    Active(u)' /\ Active(v)' /\ rel'[u] = rel[w] /\ rel'[v] = rel[w] => u = v
               /\ \A u \in Uploads :
                    pc'[u] = "sum" /\ rel'[u] = rel[w] => artifact'[rel[w]] \in {u, NoOne}
               /\ artifact'[rel[w]] # NoOne
                  /\ (\A u \in Uploads : rel'[u] = rel[w] => pc'[u] \notin {"put", "sum"}) =>
                    sum'[rel[w]] \in {NoOne, artifact'[rel[w]]}
    <3>1. \A u \in Uploads \ {w} : rel[u] = rel[w] => ~Active(u) /\ pc'[u] = pc[u]
      BY <2>1, <2>2, <2>5
    <3>2. pc[w] = "sum" => artifact[rel[w]] \in {w, NoOne}
      BY <2>1, <2>5 DEF Summed
    <3> QED
      BY <2>1, <2>3, <2>5, <3>1, <3>2 DEF Active
  <2> QED
    BY <2>4, <2>5 DEF Summed
<1> QED
  BY <1>1, <1>2, OtherSumSteps

\* The .sha256 that is answered for an archive is of that archive, unless two uploads of
\* the release have overlapped or a call of one has failed, though a rollback
\* leaves the checksum of an archive it removes (access.go:218-257).
THEOREM ChecksumIsOwn == Spec => []ChecksumIsOfArtifact
<1>1. Init => TypeOK /\ Summed
  BY TypedInit DEF Init, Summed, Active
<1>2. TypeOK /\ Summed /\ [Next]_vars => (TypeOK /\ Summed)'
  BY TypedNext, SummedNext
<1>3. TypeOK /\ Summed => ChecksumIsOfArtifact
  BY DEF Summed, ChecksumIsOfArtifact, Active
<1> QED
  BY <1>1, <1>2, <1>3, PTL DEF Spec
=============================================================================
