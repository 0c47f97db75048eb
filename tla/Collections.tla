---------------------------- MODULE Collections ----------------------------
(***************************************************************************)
(* Package collections (controller/collections.go, repo/collections.go):   *)
(* all releases with a Package.json, of the registry or of a scope, as one *)
(* document.  It is gathered by a long row of calls to the storage: which  *)
(* scopes there are, which packages in each, which versions of each, then  *)
(* the Package.json and the manifest of every version, while releases are  *)
(* published, rolled back and refused in between.                          *)
(*                                                                         *)
(* A document is what it says of each release: whether it is there, and    *)
(* whether the tools version is that of its manifest or the default.       *)
(***************************************************************************)
EXTENDS Listing

VARIABLES
  scopes,    \* the scopes still to be listed
  packages,  \* the packages of the scope whose versions are still to be listed
  found,     \* the versions listed of each package
  todo,      \* the releases of a package still to be looked at
  document,  \* the versions of each package in the collection, with tools version
  whole,     \* history: releases that have had all their files ever since
  gone       \* history: releases refused or not yet published ever since

work == <<scopes, packages, found, todo, document>>

Own     == "own"  \* the tools version in the release's manifest
Default == "5.0"

AllFiles == {"archive", "manifest", "json", "stray"}

Whole == {r \in Releases : stage[r] = "kept" /\ AllFiles \ {"stray"} \subseteq files[r]}
Gone  == {r \in Releases : stage[r] \in {"none", "refused"}}

\* The releases that make a backend list their package and their scope.
Catalogued == CASE backend = "file"  -> folders
                [] backend = "s3"    -> Stored
                [] backend = "maven" -> {r \in Releases : Package(r) \in index}

Init ==
  /\ StoreInit
  /\ scopes = {} /\ packages = {} /\ todo = <<>>
  /\ found = [p \in Packages |-> <<>>]
  /\ document = [p \in Packages |-> <<>>]
  /\ whole = {} /\ gone = {}

\* What a request does to the rest.
Apart   == UNCHANGED <<store, asked, page, first, current, acc, elements, seen,
                       whole, gone>>
Working == UNCHANGED <<faults, history>>
Failing == Fault /\ failed' = TRUE /\ UNCHANGED <<firm, steady, vanished, odd, blind>>

\* A call that reads Maven's index, of whose lock readers know nothing.
Looking == /\ blind' = (blind \/ Rewriting)
           /\ UNCHANGED <<faults, failed, firm, steady, vanished, odd>>

\* A request for the collection of all scopes, or of one.
Collect ==
  /\ \E ask \in Asks : ask.kind \in {"collection", "scope"} /\ Ask(ask)
  /\ Again(IF kind' = "collection" THEN "scopes" ELSE "scope")
  /\ scopes' = IF kind' = "scope" THEN {ScopeOf[package']} ELSE {}
  /\ whole' = Whole
  /\ gone' = Gone
  /\ UNCHANGED <<store, current, acc, elements, seen, faults, failed, steady,
                 vanished, odd, blind, packages, found, todo, document>>

\* ListScopes.  Maven takes an index it cannot read for one without scopes.
ListScopes ==
  /\ pc = "scopes"
  /\ \/ /\ Looking
        /\ scopes' = {ScopeOf[Package(r)] : r \in Catalogued}
        /\ Again("scope")
     \/ /\ Failing
        /\ UNCHANGED scopes
        /\ IF backend = "maven" THEN Again("scope") ELSE End("error")
  /\ UNCHANGED <<packages, found, todo, document>>
  /\ Apart

\* ListInScope: the packages of the next scope; one that cannot be listed is
\* passed over.
ListInScope ==
  /\ pc = "scope"
  /\ \E s \in scopes :
       /\ scopes' = scopes \ {s}
       /\ \/ /\ Looking
             /\ packages' = {p \in {Package(r) : r \in Catalogued} : ScopeOf[p] = s}
          \/ /\ Failing
             /\ packages' = {}
  /\ Again("package")
  /\ UNCHANGED <<found, todo, document>>
  /\ Apart

\* List: the versions of the next package; it is passed over if that fails.
ListPackage ==
  /\ pc = "package"
  /\ \E p \in packages :
       /\ packages' = packages \ {p}
       /\ \/ Working /\ found' = [found EXCEPT ![p] = List(p)]
          \/ Failing /\ UNCHANGED found
  /\ UNCHANGED <<pc, status, scopes, todo, document>>
  /\ Apart

ScopeListed ==
  /\ pc = "package"
  /\ packages = {}
  /\ Again("scope")
  /\ Working /\ UNCHANGED work /\ Apart

Listings == {p \in Packages : found[p] # <<>>}

\* All is listed.  There is no collection of a scope without releases, be it that
\* the scope could not be listed.
AllListed ==
  /\ pc = "scope"
  /\ scopes = {}
  /\ IF kind = "scope" /\ Listings = {} THEN End("notfound") ELSE Again("build")
  /\ Working /\ UNCHANGED work /\ Apart

\* buildCollectionPackage takes the versions of a package from the newest down: the
\* first that is included gives the package its description.
BuildPackage ==
  /\ pc = "build" /\ todo = <<>>
  /\ \E p \in Listings :
       LET newestFirst == SortFunc(ListLess, found[p])
       IN /\ todo' = [i \in 1..Len(newestFirst) |-> <<p, newestFirst[i]>>]
          /\ found' = [found EXCEPT ![p] = <<>>]
  /\ UNCHANGED <<pc, status, scopes, packages, document>>
  /\ Working /\ Apart

\* Mutant of LoadPackageJson: a release without one ends the package.
LoadPackageJsonOrStop ==
  /\ pc = "build" /\ todo # <<>>
  /\ IF "json" \in files[Head(todo)]
     THEN Again("tools") /\ UNCHANGED todo
     ELSE todo' = <<>> /\ UNCHANGED <<pc, status>>
  /\ UNCHANGED <<scopes, packages, found, document>>
  /\ Working /\ Apart

\* A release without a Package.json, or with one that cannot be read, is passed
\* over.
LoadPackageJson ==
  /\ pc = "build" /\ todo # <<>>
  /\ \/ /\ Working
        /\ IF "json" \in files[Head(todo)]
           THEN Again("tools") /\ UNCHANGED todo
           ELSE todo' = Tail(todo) /\ UNCHANGED <<pc, status>>
     \/ /\ Failing
        /\ todo' = Tail(todo) /\ UNCHANGED <<pc, status>>
  /\ UNCHANGED <<scopes, packages, found, document>>
  /\ Apart

\* Mutant of GetSwiftToolVersion: there is no default.
GetSwiftToolVersionOrNone ==
  /\ pc = "tools"
  /\ document' = [document EXCEPT ![Package(Head(todo))] =
                    Append(@, <<Version(Head(todo)),
                                IF "manifest" \in files[Head(todo)] THEN Own ELSE "">>)]
  /\ todo' = Tail(todo)
  /\ Again("build")
  /\ UNCHANGED <<scopes, packages, found>>
  /\ Working /\ Apart

\* The release is included, with a default if its manifest cannot be read.
GetSwiftToolVersion ==
  /\ pc = "tools"
  /\ \E tools \in {Own, Default} :
       /\ \/ Working /\ tools = IF "manifest" \in files[Head(todo)] THEN Own ELSE Default
          \/ Failing /\ tools = Default
       /\ document' = [document EXCEPT ![Package(Head(todo))] =
                         Append(@, <<Version(Head(todo)), tools>>)]
  /\ todo' = Tail(todo)
  /\ Again("build")
  /\ UNCHANGED <<scopes, packages, found>>
  /\ Apart

AllBuilt ==
  /\ pc = "build"
  /\ todo = <<>> /\ Listings = {}
  /\ End("ok")
  /\ Working /\ UNCHANGED work /\ Apart

CollectStep ==
  \/ Collect \/ ListScopes \/ ListInScope \/ ListPackage \/ ScopeListed \/ AllListed
  \/ BuildPackage \/ LoadPackageJson \/ GetSwiftToolVersion \/ AllBuilt

Publishing ==
  /\ PublishStep
  /\ UNCHANGED work
  /\ whole' = whole \cap Whole'
  /\ gone' = gone \cap Gone'

Walking == WalkStep /\ UNCHANGED <<work, whole, gone>>

Finished == pc = "done" /\ UNCHANGED <<vars, work, whole, gone>>

Next == Publishing \/ Walking \/ CollectStep \/ Finished

\* The server works on a request until it is answered.  No call has to fail for it.
Spec == /\ Init /\ [][Next]_<<vars, work, whole, gone>>
        /\ WF_<<vars, work, whole, gone>>(UNCHANGED faults /\ (Walking \/ CollectStep))

----------------------------------------------------------------------------
Labels == {"idle", "list", "exists", "scopes", "scope", "package", "build",
           "tools", "done"}
Stages == {"none", "put", "listed", "indexing", "stored", "kept", "removing",
           "refused"}
Ends   == {"none", "complete", "notfound", "error", "panic", "ok"}

TypeOK ==
  /\ backend \in Backends
  /\ files \in [Releases -> SUBSET AllFiles]
  /\ folders \subseteq Releases
  /\ entries \in [Packages -> Seq(Known)]
  /\ index \subseteq Packages /\ draft \subseteq Packages
  /\ stage \in [Releases -> Stages]
  /\ cleanup \in [Releases -> Seq(AllFiles)]
  /\ publishes \in 0..MaxPublishes /\ faults \in 0..MaxFaults
  /\ kind \in {"none", "pages", "links", "collection", "scope"}
  /\ package \in Packages \cup {NoPackage} /\ per \in 0..MaxInt
  /\ pc \in Labels /\ status \in Ends
  /\ page \in 1..MaxInt /\ first \in 1..MaxInt
  /\ current \in Known \cup {NoVersion}
  /\ acc \in Seq(Known) /\ elements \in Seq(Known) /\ seen \subseteq Known
  /\ spoilt \in BOOLEAN /\ failed \in BOOLEAN /\ vanished \in BOOLEAN
  /\ odd \in BOOLEAN /\ blind \in BOOLEAN
  /\ firm \subseteq Releases /\ steady \subseteq Known
  /\ scopes \subseteq {ScopeOf[p] : p \in Packages}
  /\ packages \subseteq Packages
  /\ found \in [Packages -> Seq(Known)]
  /\ todo \in Seq(Packages \X Known)
  /\ document \in [Packages -> Seq(Known \X {Own, Default})]
  /\ whole \subseteq Releases /\ gone \subseteq Releases

VersionsOf(p) == [i \in 1..Len(document[p]) |-> document[p][i][1]]

\* If all versions of a package parse, the list a client is answered from and the
\* collection hold them in descending order, whatever the order the backend lists
\* them in: what is called the latest version is the greatest, a predecessor
\* precedes, and the description of the package is that of its newest release.  A
\* version that does not parse spoils this for the others even if it is refused,
\* or has no Package.json and is not in the collection.
NewestFirst ==
  \A p \in Packages :
    (\A r \in Releases : Package(r) = p /\ stage[r] # "none" => Parses(Version(r))) =>
      /\ Descending(VersionsOf(p))
      /\ p = package => Descending(elements)

\* A release that was accepted with its manifest and its Package.json, and that no
\* publish has disturbed since the request came, is in the collection with its own
\* tools version, unless a call has failed or Maven's index was looked for while it
\* was being rewritten: it is not lost between the calls, each of which sees the
\* storage at another time.
CollectionIsComplete ==
  Ended("ok") /\ ~failed /\ ~spoilt /\ ~blind =>
    \A r \in whole : Concerns(r) => <<Version(r), Own>> \in ToSet(document[Package(r)])

\* A release that was rolled back, or was not begun, and is not published while the
\* collection is gathered, is not in it, though the file backend and Maven go on
\* listing it.
CollectionHasNoGhosts ==
  \A r \in gone : Version(r) \notin ToSet(VersionsOf(Package(r)))

\* Every walk along the list and every collection comes to an end.
AnswersEnd == []<>(pc \in {"idle", "done"})
=============================================================================
