---------------------------- MODULE MavenCatalog ----------------------------
(***************************************************************************)
(* What closing the writer of a zip source archive does on a Maven server  *)
(* (repo/maven/access.go, metadata.go): the archive and its .sha256 are    *)
(* PUT, then the two files the registry lists releases from are read,      *)
(* changed and written back: maven-metadata.xml of the package, under a    *)
(* lock of the package, and the index of all packages, under one lock.     *)
(* Publishes of several releases run concurrently; the server, or the      *)
(* client whose request a call belongs to, may fail at every call.         *)
(***************************************************************************)
EXTENDS Integers, FiniteSets

CONSTANTS
  Uploads,     \* uploads of source archives; also the bytes they upload
  NoOne,       \* the owner of a free lock, or of a file that is not there
  Releases,    \* the releases that may be published
  Packages,    \* the packages they belong to
  PackageOf,   \* the package of each release
  Redeploys,   \* whether the server lets a PUT replace a file that is there,
               \* maven-metadata.xml excepted: the policies it may have
  MaxFaults,   \* calls that fail, and requests whose client goes away
  MaxCrashes   \* how often the server process ends and is started again

ASSUME NoOneAssumption   == NoOne \notin Uploads
ASSUME PackageAssumption == PackageOf \in [Releases -> Packages]
ASSUME PolicyAssumption  == Redeploys \subseteq BOOLEAN
ASSUME FaultAssumption   == MaxFaults \in Nat /\ MaxCrashes \in Nat

VARIABLES
  redeploy,   \* the server's policy
  artifact,   \* whose archive each release has
  sum,        \* whose archive the release's .sha256 is of
  versions,   \* maven-metadata.xml: the releases listed for each package
  index,      \* the packages in the index
  keyLock,    \* metadataKeys: who holds the lock of each package
  indexLock,  \* who holds indexMu
  pc,         \* where an upload is
  rel,        \* the release it uploads
  loaded,     \* the releases it has read from maven-metadata.xml
  listed,     \* the packages it has read from the index
  result,     \* what Close has returned
  cut,        \* uploads whose client has gone: their context is cancelled
  faults,     \* faults so far
  crashes,    \* crashes so far
  warned,     \* history: uploads a call of which has failed
  spoilt      \* history: releases two uploads overlapped on, or whose .sha256
              \* was not written

disk  == <<artifact, sum, versions, index>>
locks == <<keyLock, indexLock>>
env   == <<redeploy, cut, crashes, spoilt>>
vars  == <<redeploy, disk, locks, pc, rel, loaded, listed, result, cut, faults,
           crashes, warned, spoilt>>

Active(u)  == pc[u] \notin {"idle", "done"}
Package(u) == PackageOf[rel[u]]

GoTo(u, label) == pc' = [pc EXCEPT ![u] = label]

\* A call to the server succeeds; fails, and changes nothing there; or is carried
\* out but fails all the same.  Every call of a cancelled request fails, and a
\* PUT of a file that is there may be refused (access.go:154).
Refused(u, there) == u \in cut \/ (there /\ ~redeploy)
Fault == /\ faults < MaxFaults
         /\ faults' = faults + 1
Works(u, there)  == /\ ~Refused(u, there)
                    /\ UNCHANGED <<faults, warned>>
Fails(u, there)  == /\ IF Refused(u, there) THEN UNCHANGED faults ELSE Fault
                    /\ warned' = warned \cup {u}
Breaks(u, there) == /\ ~Refused(u, there) /\ Fault
                    /\ warned' = warned \cup {u}

----------------------------------------------------------------------------
Init ==
  /\ redeploy \in Redeploys
  /\ artifact = [r \in Releases |-> NoOne]
  /\ sum = [r \in Releases |-> NoOne]
  /\ versions = [k \in Packages |-> {}]
  /\ index = {}
  /\ keyLock = [k \in Packages |-> NoOne]
  /\ indexLock = NoOne
  /\ pc = [u \in Uploads |-> "idle"]
  /\ rel \in [Uploads -> Releases]
  /\ loaded = [u \in Uploads |-> {}]
  /\ listed = [u \in Uploads |-> {}]
  /\ result = [u \in Uploads |-> "none"]
  /\ cut = {}
  /\ faults = 0
  /\ crashes = 0
  /\ warned = {}
  /\ spoilt = {}

\* The publish handler has found no archive of the release and has buffered
\* what it got; it is about to close the writer.
Start(u) ==
  /\ pc[u] = "idle"
  /\ artifact[rel[u]] = NoOne
  /\ GoTo(u, "put")
  /\ spoilt' = IF \E v \in Uploads : Active(v) /\ rel[v] = rel[u]
               THEN spoilt \cup {rel[u]} ELSE spoilt
  /\ UNCHANGED <<redeploy, disk, locks, rel, loaded, listed, result, cut, faults,
                 crashes, warned>>

\* PUT of the archive.  If it fails Close fails, and nothing else is done.
PutArtifact(u) ==
  /\ pc[u] = "put"
  /\ \/ /\ Works(u, artifact[rel[u]] # NoOne)
        /\ artifact' = [artifact EXCEPT ![rel[u]] = u]
        /\ GoTo(u, "sum")
        /\ UNCHANGED <<result, spoilt>>
     \/ /\ \/ /\ Fails(u, artifact[rel[u]] # NoOne)
              /\ UNCHANGED artifact
           \/ /\ Breaks(u, artifact[rel[u]] # NoOne)
              /\ artifact' = [artifact EXCEPT ![rel[u]] = u]
        /\ GoTo(u, "done")
        /\ result' = [result EXCEPT ![u] = "failed"]
        /\ spoilt' = spoilt \cup {rel[u]}
  /\ UNCHANGED <<redeploy, sum, versions, index, locks, rel, loaded, listed, cut,
                 crashes>>

\* Mutant of PutSum: a checksum that is there already is left alone.
PutSumOnce(u) ==
  /\ pc[u] = "sum"
  /\ \/ /\ Works(u, FALSE)
        /\ sum' = IF sum[rel[u]] = NoOne THEN [sum EXCEPT ![rel[u]] = u] ELSE sum
        /\ UNCHANGED spoilt
     \/ /\ Fails(u, FALSE)
        /\ spoilt' = spoilt \cup {rel[u]}
        /\ UNCHANGED sum
  /\ GoTo(u, "lock")
  /\ UNCHANGED <<redeploy, artifact, versions, index, locks, rel, loaded, listed,
                 result, cut, crashes>>

\* PUT of the checksum file; a failure is logged.
PutSum(u) ==
  /\ pc[u] = "sum"
  /\ \/ /\ Works(u, sum[rel[u]] # NoOne)
        /\ sum' = [sum EXCEPT ![rel[u]] = u]
        /\ UNCHANGED spoilt
     \/ /\ \/ /\ Fails(u, sum[rel[u]] # NoOne)
              /\ UNCHANGED sum
           \/ /\ Breaks(u, sum[rel[u]] # NoOne)
              /\ sum' = [sum EXCEPT ![rel[u]] = u]
        /\ spoilt' = spoilt \cup {rel[u]}
  /\ GoTo(u, "lock")
  /\ UNCHANGED <<redeploy, artifact, versions, index, locks, rel, loaded, listed,
                 result, cut, crashes>>

\* Mutant of LockMetadata: the lock is not waited for.
EnterMetadata(u) ==
  /\ pc[u] = "lock"
  /\ keyLock' = [keyLock EXCEPT ![Package(u)] = u]
  /\ GoTo(u, "load")
  /\ UNCHANGED <<env, disk, indexLock, rel, loaded, listed, result, faults,
                 warned>>

LockMetadata(u) ==
  /\ pc[u] = "lock"
  /\ keyLock[Package(u)] = NoOne
  /\ keyLock' = [keyLock EXCEPT ![Package(u)] = u]
  /\ GoTo(u, "load")
  /\ UNCHANGED <<env, disk, indexLock, rel, loaded, listed, result, faults,
                 warned>>

\* Mutants of LoadMetadata: a failing GET is taken for a missing file; the lock
\* is kept when it fails.
LoadMetadataLeniently(u) ==
  /\ pc[u] = "load"
  /\ \/ Works(u, FALSE) /\ loaded' = [loaded EXCEPT ![u] = versions[Package(u)]]
     \/ Fails(u, FALSE) /\ loaded' = [loaded EXCEPT ![u] = {}]
  /\ GoTo(u, "save")
  /\ UNCHANGED <<env, disk, locks, rel, listed, result>>

LoadMetadataLocked(u) ==
  /\ pc[u] = "load"
  /\ \/ /\ Works(u, FALSE)
        /\ loaded' = [loaded EXCEPT ![u] = versions[Package(u)]]
        /\ GoTo(u, "save")
     \/ /\ Fails(u, FALSE)
        /\ GoTo(u, "ilock")
        /\ UNCHANGED loaded
  /\ UNCHANGED <<env, disk, locks, rel, listed, result>>

\* GET of maven-metadata.xml; a missing file has no releases, and any other
\* failure ends the update.
LoadMetadata(u) ==
  /\ pc[u] = "load"
  /\ \/ /\ Works(u, FALSE)
        /\ loaded' = [loaded EXCEPT ![u] = versions[Package(u)]]
        /\ GoTo(u, "save")
        /\ UNCHANGED keyLock
     \/ /\ Fails(u, FALSE)
        /\ GoTo(u, "ilock")
        /\ keyLock' = [keyLock EXCEPT ![Package(u)] = NoOne]
        /\ UNCHANGED loaded
  /\ UNCHANGED <<env, disk, indexLock, rel, listed, result>>

\* PUT of maven-metadata.xml with the release added; a failure is logged.
SaveMetadata(u) ==
  /\ pc[u] = "save"
  /\ \/ /\ Works(u, FALSE) \/ Breaks(u, FALSE)
        /\ versions' = [versions EXCEPT ![Package(u)] = loaded[u] \cup {rel[u]}]
     \/ /\ Fails(u, FALSE)
        /\ UNCHANGED versions
  /\ keyLock' = [keyLock EXCEPT ![Package(u)] = NoOne]
  /\ GoTo(u, "ilock")
  /\ UNCHANGED <<env, artifact, sum, index, indexLock, rel, loaded, listed,
                 result>>

\* Mutant of LockIndex: the lock is not waited for.
EnterIndex(u) ==
  /\ pc[u] = "ilock"
  /\ indexLock' = u
  /\ GoTo(u, "read")
  /\ UNCHANGED <<env, disk, keyLock, rel, loaded, listed, result, faults,
                 warned>>

LockIndex(u) ==
  /\ pc[u] = "ilock"
  /\ indexLock = NoOne
  /\ indexLock' = u
  /\ GoTo(u, "read")
  /\ UNCHANGED <<env, disk, keyLock, rel, loaded, listed, result, faults,
                 warned>>

\* GET of the index; whatever fails, the list is taken to be empty.
ReadIndex(u) ==
  /\ pc[u] = "read"
  /\ \/ Works(u, FALSE) /\ listed' = [listed EXCEPT ![u] = index]
     \/ Fails(u, FALSE) /\ listed' = [listed EXCEPT ![u] = {}]
  /\ GoTo(u, "delete")
  /\ UNCHANGED <<env, disk, locks, rel, loaded, result>>

\* DELETE of the index, for servers that let no PUT replace it.
DeleteIndex(u) ==
  /\ pc[u] = "delete"
  /\ \/ Works(u, FALSE) /\ index' = {}
     \/ Breaks(u, FALSE) /\ index' = {}
     \/ Fails(u, FALSE) /\ UNCHANGED index
  /\ GoTo(u, "write")
  /\ UNCHANGED <<env, artifact, sum, versions, locks, rel, loaded, listed,
                 result>>

\* Mutant of WriteIndex: the release is added, not its package.
WriteRelease(u) ==
  /\ pc[u] = "write"
  /\ \/ /\ Works(u, index # {}) \/ Breaks(u, index # {})
        /\ index' = listed[u] \cup {rel[u]}
     \/ /\ Fails(u, index # {})
        /\ UNCHANGED index
  /\ indexLock' = NoOne
  /\ GoTo(u, "done")
  /\ result' = [result EXCEPT ![u] = "stored"]
  /\ UNCHANGED <<env, artifact, sum, versions, keyLock, rel, loaded, listed>>

\* PUT of the index with the package added; a failure is logged.  Close
\* returns no error.
WriteIndex(u) ==
  /\ pc[u] = "write"
  /\ \/ /\ Works(u, index # {}) \/ Breaks(u, index # {})
        /\ index' = listed[u] \cup {Package(u)}
     \/ /\ Fails(u, index # {})
        /\ UNCHANGED index
  /\ indexLock' = NoOne
  /\ GoTo(u, "done")
  /\ result' = [result EXCEPT ![u] = "stored"]
  /\ UNCHANGED <<env, artifact, sum, versions, keyLock, rel, loaded, listed>>

\* The publish is rolled back: cleanupStoredElements has the archive removed,
\* and nothing else that Close has written.
Remove(u) ==
  /\ result[u] \in {"stored", "failed"} /\ u \notin cut
  /\ artifact' = [artifact EXCEPT ![rel[u]] = NoOne]
  /\ result' = [result EXCEPT ![u] = "removed"]
  /\ UNCHANGED <<env, sum, versions, index, locks, pc, rel, loaded, listed,
                 faults, warned>>

\* The client of a publish goes away, which cancels its request's context.
Disconnect(u) ==
  /\ Active(u) /\ u \notin cut
  /\ Fault
  /\ cut' = cut \cup {u}
  /\ UNCHANGED <<redeploy, disk, locks, pc, rel, loaded, listed, result, crashes,
                 warned, spoilt>>

\* The server process ends, and its locks with it.
Crash ==
  /\ crashes < MaxCrashes
  /\ \E u \in Uploads : Active(u)
  /\ crashes' = crashes + 1
  /\ warned' = warned \cup {u \in Uploads : Active(u)}
  /\ spoilt' = spoilt \cup {rel[u] : u \in {v \in Uploads : Active(v)}}
  /\ pc' = [u \in Uploads |-> IF Active(u) THEN "done" ELSE pc[u]]
  /\ result' = [u \in Uploads |-> IF Active(u) THEN "lost" ELSE result[u]]
  /\ keyLock' = [k \in Packages |-> NoOne]
  /\ indexLock' = NoOne
  /\ loaded' = [u \in Uploads |-> {}]
  /\ listed' = [u \in Uploads |-> {}]
  /\ UNCHANGED <<redeploy, disk, rel, cut, faults>>

Close(u) == \/ PutArtifact(u) \/ PutSum(u)
            \/ LockMetadata(u) \/ LoadMetadata(u) \/ SaveMetadata(u)
            \/ LockIndex(u) \/ ReadIndex(u) \/ DeleteIndex(u) \/ WriteIndex(u)

\* No upload is under way.
Quiet == (\A u \in Uploads : ~Active(u)) /\ UNCHANGED vars

Next == \/ \E u \in Uploads : Start(u) \/ Close(u) \/ Remove(u) \/ Disconnect(u)
        \/ Crash
        \/ Quiet

\* Every call returns, and a lock that is free is given to one that waits: of
\* finitely many uploads each gets it.
Fairness == \A u \in Uploads : WF_vars(Close(u))

Spec == Init /\ [][Next]_vars /\ Fairness

----------------------------------------------------------------------------
Labels == {"idle", "put", "sum", "lock", "load", "save", "ilock", "read",
           "delete", "write", "done"}

TypeOK ==
  /\ redeploy \in BOOLEAN
  /\ artifact \in [Releases -> Uploads \cup {NoOne}]
  /\ sum \in [Releases -> Uploads \cup {NoOne}]
  /\ versions \in [Packages -> SUBSET Releases]
  /\ index \subseteq Packages
  /\ keyLock \in [Packages -> Uploads \cup {NoOne}]
  /\ indexLock \in Uploads \cup {NoOne}
  /\ pc \in [Uploads -> Labels]
  /\ rel \in [Uploads -> Releases]
  /\ loaded \in [Uploads -> SUBSET Releases]
  /\ listed \in [Uploads -> SUBSET Packages]
  /\ result \in [Uploads -> {"none", "stored", "failed", "lost", "removed"}]
  /\ cut \subseteq Uploads
  /\ faults \in 0..MaxFaults
  /\ crashes \in 0..MaxCrashes
  /\ warned \subseteq Uploads
  /\ spoilt \subseteq Releases

----------------------------------------------------------------------------
\* Whatever uploads overlap, fail, lose their client or are cut off by a crash,
\* maven-metadata.xml never loses a release it has listed (the lock of
\* access.go:198-211, and "without overwriting" of metadata.go:82-83).
MetadataNeverShrinks ==
  [][\A k \in Packages : versions[k] \subseteq versions'[k]]_vars

\* An upload that has had its turn, and no failing call, is listed.
MetadataIsComplete ==
  \A u \in Uploads \ warned :
     pc[u] \in {"ilock", "read", "delete", "write", "done"} =>
        rel[u] \in versions[Package(u)]

\* While no update of the index is under way and no call has failed yet, the
\* index lists the package of every archive stored (indexMu).
IndexIsComplete ==
  indexLock = NoOne /\ warned = {} =>
     \A u \in Uploads : pc[u] = "done" => Package(u) \in index

\* The checksum answered for an archive (the .sha256 file where there is one)
\* is of that archive, though rollbacks leave old checksums behind: only an
\* overlapping upload of the same release, or a failed call, can spoil it.
ChecksumIsOfArtifact ==
  \A r \in Releases \ spoilt :
     artifact[r] # NoOne /\ (\A u \in Uploads : Active(u) => rel[u] # r) =>
        sum[r] \in {NoOne, artifact[r]}

\* Every Close returns: no lock is left held, whatever fails.
CloseReturns == \A u \in Uploads : Active(u) ~> pc[u] = "done"

\* "indexMu serializes read-modify-write of SPM registry index so concurrent
\* publishes don't overwrite each other" (access.go:27); only "on 404 or invalid
\* body the current list is treated as empty" (access.go:152).  A package whose
\* own update succeeded stays in the index.
IndexForgetsNothing ==
  indexLock = NoOne =>
     \A u \in Uploads \ warned : pc[u] = "done" => Package(u) \in index

----------------------------------------------------------------------------
\* The inductive invariant behind MetadataNeverShrinks.

\* The lock of a package is held by whoever is updating its file...
Holding == \A u \in Uploads :
              pc[u] \in {"load", "save"} => keyLock[Package(u)] = u

\* ...so that what it has read is still what is there.
UpToDate == \A u \in Uploads :
              pc[u] = "save" => loaded[u] = versions[Package(u)]

MetadataInv == TypeOK /\ Holding /\ UpToDate
=============================================================================
