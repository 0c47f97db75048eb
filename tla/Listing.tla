------------------------------ MODULE Listing ------------------------------
(***************************************************************************)
(* The releases of a package as a client sees them (controller/list.go,    *)
(* info.go, utils.go): it reads the list of releases page by page along    *)
(* the "next" links, or release by release from the latest one along the   *)
(* "predecessor-version" links, while releases are published, rolled back  *)
(* and refused.  Each answer is made from a listing of its own.            *)
(*                                                                         *)
(* A publish is what Publish shows it to be for whoever lists: files come  *)
(* one by one, and a refusal removes them one by one.  What a backend      *)
(* lists a release by differs: the file backend by its directory, which is *)
(* never removed; S3 by any object of it; Maven by its entry in            *)
(* maven-metadata.xml, which is written after the archive and stays.       *)
(***************************************************************************)
EXTENDS Versions

CONSTANTS
  Packages,     \* the packages
  ScopeOf,      \* the scope of each
  Releases,     \* the releases that may be published: <<package, version>>
  Before,       \* the releases published before: the sets there may be
  Backends,     \* which of the three backends there may be
  Asks,         \* what a client may do: its kind, the package, how many releases
                \* a page has (0: there are no pages), the page it begins with
  MaxInt,       \* the greatest int
  KeysPerPage,  \* how many prefixes S3 lists in one answer
  MaxPublishes, \* how many publishes are begun
  MaxFaults     \* how many calls to the storage fail

NoVersion == -1
NoPackage == ""

ASSUME ReleaseAssumption == /\ Releases \subseteq Packages \X Known
                            /\ Before \subseteq SUBSET Releases
                            /\ IsFiniteSet(Packages)
ASSUME BackendAssumption == Backends \subseteq {"file", "s3", "maven"}
ASSUME BoundAssumption   == MaxPublishes \in Nat /\ MaxFaults \in Nat
ASSUME AskAssumption     ==  \* the length of a list is an int
  /\ MaxInt \in Nat \ {0} /\ Cardinality(Known) <= MaxInt
  /\ KeysPerPage \in Nat \ {0}
  /\ Asks \subseteq [kind : {"pages", "links", "collection", "scope"},
                     package : Packages, per : 0..MaxInt, page : 1..MaxInt]
  /\ \A ask \in Asks : ask.per = 0 => ask.page = 1
  /\ \A ask \in Asks : ask.kind # "pages" => ask.per = 0

VARIABLES
  backend,
  files,      \* what is stored of each release: archive, manifest, json, strays
  folders,    \* file backend: the directories there are
  entries,    \* Maven: the versions in each package's maven-metadata.xml
  index,      \* Maven: the packages in the index
  draft,      \* Maven: what the publish that has deleted the index will write
  stage,      \* where the publish of each release is
  cleanup,    \* what it has still to remove
  publishes,  \* publishes begun so far
  kind, package, per, \* what the client does
  pc,         \* where its request is
  page,       \* the page it asks for
  first,      \* the first page it has asked for
  current,    \* the release it asks for, NoVersion for the list
  acc,        \* what S3 has listed so far for the request
  elements,   \* the list its last answer was made from
  seen,       \* the versions it has been told of
  status,     \* how its walk has ended
  faults,     \* calls failed so far
  spoilt,     \* history: an update of the Maven catalog has failed
  failed,     \* history: a call of the client's requests has failed
  firm,       \* history: the releases accepted when it began
  steady,     \* history: the versions listed ever since it began
  vanished,   \* history: a version has ceased to be listed since
  odd,        \* history: a version was listed that does not parse
  blind       \* history: the request has looked for an index that was deleted

catalog == <<entries, index, draft>>
store   == <<backend, files, folders, catalog, stage, cleanup, publishes, spoilt>>
asked   == <<kind, package, per>>
walk    == <<pc, page, first, current, acc, elements, seen, status>>
history == <<failed, firm, steady, vanished, odd, blind>>
vars    == <<store, asked, walk, faults, history>>

Package(r) == r[1]
Version(r) == r[2]

Stored == {r \in Releases : files[r] # {}}
OfPackage(R, p) == {Version(r) : r \in {x \in R : Package(x) = p}}

\* repo.List: the versions of a package a backend finds.
List(p) == CASE backend = "file"  -> ByName(OfPackage(folders, p))
             [] backend = "s3"    -> ByName(OfPackage(Stored, p))
             [] backend = "maven" -> entries[p]

Listed(p) == ToSet(List(p))

Fault == faults < MaxFaults /\ faults' = faults + 1

----------------------------------------------------------------------------
(* Publishing *)

\* updateMetadata: a version that is not there is added, and all are sorted; the
\* first version makes a file of its own.
AddEntry(s, v) ==
  IF s = <<>> THEN <<v>>
  ELSE SortFunc(MetadataLess, IF Contains(s, v) THEN s ELSE Append(s, v))

StoreInit ==
  /\ backend \in Backends
  /\ \E R \in Before :
       /\ files = [r \in Releases |->
                     IF r \in R THEN {"archive", "manifest", "json"} ELSE {}]
       /\ folders = IF backend = "file" THEN R ELSE {}
       /\ entries = [p \in Packages |->
                       IF backend = "maven"
                       THEN SortFunc(MetadataLess, ByName(OfPackage(R, p)))
                       ELSE <<>>]
       /\ index = IF backend = "maven" THEN {Package(r) : r \in R} ELSE {}
       /\ stage = [r \in Releases |-> IF r \in R THEN "kept" ELSE "none"]
  /\ draft = {}
  /\ cleanup = [r \in Releases |-> <<>>]
  /\ publishes = 0
  /\ kind = "none" /\ package = NoPackage /\ per = 0
  /\ pc = "idle" /\ page = 1 /\ first = 1 /\ current = NoVersion
  /\ acc = <<>> /\ elements = <<>> /\ seen = {} /\ status = "none"
  /\ faults = 0
  /\ spoilt = FALSE /\ failed = FALSE /\ firm = {} /\ steady = {}
  /\ vanished = FALSE /\ odd = FALSE /\ blind = FALSE

MoveTo(r, s) == stage' = [stage EXCEPT ![r] = s]

\* A publish that finds no archive of its release stores one.
StoreArchive(r) ==
  /\ stage[r] \in {"none", "refused"}
  /\ publishes < MaxPublishes
  /\ publishes' = publishes + 1
  /\ files' = [files EXCEPT ![r] = @ \cup {"archive"}]
  /\ folders' = IF backend = "file" THEN folders \cup {r} ELSE folders
  /\ MoveTo(r, IF backend = "maven" THEN "put" ELSE "stored")
  /\ UNCHANGED <<backend, catalog, cleanup, faults, spoilt>>

\* Or it stores parts beside an archive that never comes, and is refused without a
\* rollback.
LeaveParts(r) ==
  /\ stage[r] \in {"none", "refused"}
  /\ publishes < MaxPublishes
  /\ publishes' = publishes + 1
  /\ files' = [files EXCEPT ![r] = @ \cup {"stray"}]
  /\ folders' = IF backend = "file" THEN folders \cup {r} ELSE folders
  /\ MoveTo(r, "refused")
  /\ UNCHANGED <<backend, catalog, cleanup, faults, spoilt>>

\* On Maven it then adds the version to the package's metadata.  If that fails it
\* is not taken notice of.
UpdateMetadata(r) ==
  /\ stage[r] = "put"
  /\ \/ /\ entries' = [entries EXCEPT ![Package(r)] = AddEntry(@, Version(r))]
        /\ UNCHANGED <<faults, spoilt>>
     \/ /\ Fault
        /\ \/ UNCHANGED entries
           \/ entries' = [entries EXCEPT ![Package(r)] = AddEntry(@, Version(r))]
        /\ spoilt' = TRUE
  /\ MoveTo(r, "listed")
  /\ UNCHANGED <<backend, files, folders, index, draft, cleanup, publishes>>

\* A publish holds the lock of the index, between its DELETE and its PUT.
Rewriting == \E r \in Releases : stage[r] = "indexing"

\* It takes the lock of the index, reads it and deletes it.  An index that cannot
\* be read is taken for an empty one; one that cannot be deleted is still there.
DeleteIndex(r) ==
  /\ stage[r] = "listed" /\ ~Rewriting
  /\ \/ /\ draft' = index \cup {Package(r)}
        /\ index' = {}
        /\ UNCHANGED <<faults, spoilt>>
     \/ /\ Fault
        /\ draft' \in {index \cup {Package(r)}, {Package(r)}}
        /\ index' \in {index, {}}
        /\ spoilt' = TRUE
  /\ MoveTo(r, "indexing")
  /\ UNCHANGED <<backend, files, folders, entries, cleanup, publishes>>

\* It writes the index with its package in it.
WriteIndex(r) ==
  /\ stage[r] = "indexing"
  /\ \/ /\ index' = draft
        /\ UNCHANGED <<faults, spoilt>>
     \/ /\ Fault
        /\ index' \in {index, draft}
        /\ spoilt' = TRUE
  /\ draft' = {}
  /\ MoveTo(r, "stored")
  /\ UNCHANGED <<backend, files, folders, entries, cleanup, publishes>>

\* A manifest or the Package.json in the archive is extracted, or a manifest the
\* cleanup overlooks.
ExtractManifestFile(r) ==
  /\ stage[r] = "stored"
  /\ \E f \in {"manifest", "json", "stray"} \ files[r] :
       files' = [files EXCEPT ![r] = @ \cup {f}]
  /\ UNCHANGED <<backend, folders, catalog, stage, cleanup, publishes, faults,
                 spoilt>>

\* The publish ends and its files stay: it is accepted, or its form breaks off and
\* it is refused without a rollback.
Keep(r) ==
  /\ stage[r] = "stored"
  /\ MoveTo(r, "kept")
  /\ UNCHANGED <<backend, files, folders, catalog, cleanup, publishes, faults,
                 spoilt>>

\* A publish is refused after it has stored its archive, and rolled back.
Refuse(r) ==
  /\ stage[r] \in {"put", "stored"}
  /\ MoveTo(r, "removing")
  /\ cleanup' = [cleanup EXCEPT ![r] = <<"archive", "manifest", "json">>]
  /\ UNCHANGED <<backend, files, folders, catalog, publishes, faults, spoilt>>

\* A second publish of a release that is there is refused: it removes what it takes
\* for the manifests it has extracted.
Conflict(r) ==
  /\ stage[r] = "kept"
  /\ publishes < MaxPublishes
  /\ publishes' = publishes + 1
  /\ MoveTo(r, "removing")
  /\ cleanup' = [cleanup EXCEPT ![r] = <<"manifest", "json">>]
  /\ UNCHANGED <<backend, files, folders, catalog, faults, spoilt>>

\* Mutant of RemoveNext: Package.json is not removed.
RemoveNextButJson(r) ==
  /\ stage[r] = "removing"
  /\ IF cleanup[r][1] = "json" THEN UNCHANGED files
     ELSE files' = [files EXCEPT ![r] = @ \ {cleanup[r][1]}]
  /\ cleanup' = [cleanup EXCEPT ![r] = Tail(@)]
  /\ IF Len(cleanup[r]) > 1 THEN UNCHANGED stage
     ELSE MoveTo(r, IF "archive" \in files[r] THEN "kept" ELSE "refused")
  /\ UNCHANGED <<backend, folders, catalog, publishes, faults, spoilt>>

\* The next file is removed.  No directory is, and nothing in a catalog.
RemoveNext(r) ==
  /\ stage[r] = "removing"
  /\ files' = [files EXCEPT ![r] = @ \ {cleanup[r][1]}]
  /\ cleanup' = [cleanup EXCEPT ![r] = Tail(@)]
  /\ IF Len(cleanup[r]) > 1 THEN UNCHANGED stage
     ELSE MoveTo(r, IF "archive" \in files[r] THEN "kept" ELSE "refused")
  /\ UNCHANGED <<backend, folders, catalog, publishes, faults, spoilt>>

\* What a walk along the list may rely on.
Observe ==
  IF pc = "idle" \/ kind \notin {"pages", "links"} THEN UNCHANGED <<steady, vanished, odd>>
  ELSE /\ steady' = steady \cap Listed(package)'
       /\ vanished' = (vanished \/ ~(Listed(package) \subseteq Listed(package)'))
       /\ odd' = (odd \/ \E v \in Listed(package)' : ~Parses(v))

\* Once the client has its answer nothing more is looked at.
PublishStep ==
  /\ pc # "done"
  /\ \E r \in Releases :
       \/ StoreArchive(r) \/ LeaveParts(r)
       \/ UpdateMetadata(r) \/ DeleteIndex(r) \/ WriteIndex(r)
       \/ ExtractManifestFile(r) \/ Keep(r)
       \/ Refuse(r) \/ Conflict(r) \/ RemoveNext(r)
  /\ UNCHANGED <<asked, walk, failed, firm, blind>>
  /\ Observe

----------------------------------------------------------------------------
(* The list of releases and the information about one *)

\* int has a sign and a width: what is too large starts again below.
Wrapped(n) == ((n + MaxInt + 1) % (2 * (MaxInt + 1))) - (MaxInt + 1)

Overflows(n) == Wrapped(n) # n

First(n)       == Wrapped((n - 1) * per)
Beyond(n, len) == LET last == Wrapped(First(n) + per) IN IF last < len THEN last ELSE len

TotalPages(s) == (Len(s) + per - 1) \div per

\* Mutant of OnPage: for a page beyond the last it is the last that is shown.
OnPageClamped(n, s) ==
  LET shown == IF n > TotalPages(s) THEN TotalPages(s) ELSE n
  IN IF First(shown) >= Len(s) THEN <<>>
     ELSE SubSeq(s, First(shown) + 1, Beyond(shown, Len(s)))

\* paginateElements: a page beyond the last is empty, and the slice expression
\* panics if its bounds are not within the list.
OnPage(n, s)  == IF First(n) >= Len(s) THEN <<>>
                 ELSE SubSeq(s, First(n) + 1, Beyond(n, Len(s)))
Panics(n, s)  == First(n) < Len(s) /\ (First(n) < 0 \/ Beyond(n, Len(s)) < First(n))

End(s)  == status' = s /\ pc' = "done"
Again(l) == UNCHANGED status /\ pc' = l

\* What the client is about to do; a page is as large as the server is configured
\* to make it.
Ask(ask) ==
  /\ pc = "idle"
  /\ kind' = ask.kind /\ package' = ask.package
  /\ per' = ask.per /\ page' = ask.page /\ first' = ask.page
  /\ firm' = {r \in Releases : stage[r] = "kept"}

\* It begins to read the list of a package.
Begin ==
  /\ \E ask \in Asks : ask.kind \in {"pages", "links"} /\ Ask(ask)
  /\ Again("list")
  /\ steady' = Listed(package')
  /\ vanished' = FALSE
  /\ odd' = \E v \in Listed(package') : ~Parses(v)
  /\ UNCHANGED <<store, current, acc, elements, seen, faults, failed, blind>>

\* ListAction: the page asked for, and a link to the next one.
AnswerPage(releases) ==
  \/ /\ per = 0
     /\ seen' = ToSet(releases)
     /\ End("complete")
     /\ UNCHANGED <<page, current>>
  \/ /\ per > 0 /\ Panics(page, releases)
     /\ End("panic")
     /\ UNCHANGED <<page, current, seen>>
  \/ /\ per > 0 /\ ~Panics(page, releases)
     /\ seen' = seen \cup ToSet(OnPage(page, releases))
     /\ IF page < TotalPages(releases)
        THEN page' = page + 1 /\ Again("list")
        ELSE End("complete") /\ UNCHANGED page
     /\ UNCHANGED current

\* addLinkHeaders: the list links to the latest version, a release to its
\* predecessor, the one after it in the list.
AnswerLink(releases) ==
  LET here == {i \in 1..Len(releases) : releases[i] = current}
      next == IF current = NoVersion THEN {1} ELSE {i + 1 : i \in here}
  IN /\ seen' = seen \cup ({current} \ {NoVersion})
     /\ IF next \cap 1..Len(releases) = {}
        THEN End("complete") /\ UNCHANGED current
        ELSE /\ \E i \in next : current' = releases[i]
             /\ Again("exists")
     /\ UNCHANGED page

\* listElements: no releases are answered with 404, all others are sorted.
Answer(found) ==
  \E sorted \in {SortFunc(ListLess, s) : s \in {found}} :
    /\ acc' = <<>>
    /\ elements' = sorted
    /\ IF sorted = <<>>
       THEN End("notfound") /\ UNCHANGED <<page, current, seen>>
       ELSE IF kind = "pages" THEN AnswerPage(sorted) ELSE AnswerLink(sorted)

\* Mutant of ListReleases: only the first page of S3's listing is read.
ListFirstKeys ==
  /\ pc = "list"
  /\ Answer(IF backend = "s3" /\ Len(List(package)) > KeysPerPage
            THEN SubSeq(List(package), 1, KeysPerPage) ELSE List(package))
  /\ UNCHANGED <<store, asked, first, faults, history>>

\* Mutant of ListReleases: the continuation token is not handed on.
ListSameKeys ==
  /\ pc = "list"
  /\ IF backend = "s3" /\ Len(List(package)) > KeysPerPage
     THEN /\ acc' = SubSeq(List(package), 1, KeysPerPage)
          /\ UNCHANGED <<pc, page, current, elements, seen, status>>
     ELSE Answer(List(package))
  /\ UNCHANGED <<store, asked, first, faults, history>>

\* listCommonPrefixes asks for the keys after the last it was given, as long as
\* there are more; the other backends find all in one call.
KeysLeft == ByName({v \in Listed(package) : acc = <<>> \/ v > Last(acc)})

ListReleases ==
  /\ pc = "list"
  /\ IF backend = "s3" /\ Len(KeysLeft) > KeysPerPage
     THEN /\ acc' = acc \o SubSeq(KeysLeft, 1, KeysPerPage)
          /\ UNCHANGED <<pc, page, current, elements, seen, status>>
     ELSE Answer(IF backend = "s3" THEN acc \o KeysLeft ELSE List(package))
  /\ UNCHANGED <<store, asked, first, faults, history>>

\* A listing fails: on Maven that is taken for a package without releases.
ListFails ==
  /\ pc = "list"
  /\ Fault
  /\ failed' = TRUE
  /\ End(IF backend = "maven" THEN "notfound" ELSE "error")
  /\ UNCHANGED <<store, asked, page, first, current, acc, elements, seen, firm,
                 steady, vanished, odd, blind>>

\* Mutant of CheckArchive: it is the manifest that has to be there.
CheckManifest ==
  /\ pc = "exists"
  /\ IF "manifest" \in files[<<package, current>>]
     THEN Again("list") ELSE End("notfound")
  /\ UNCHANGED <<store, asked, page, first, current, acc, elements, seen, faults,
                 history>>

\* InfoAction asks first whether the archive is there.  If the call fails, it is
\* on the file backend and is not on the others.
CheckArchive ==
  /\ pc = "exists"
  /\ \/ /\ IF "archive" \in files[<<package, current>>]
           THEN Again("list") ELSE End("notfound")
        /\ UNCHANGED <<faults, failed>>
     \/ /\ Fault
        /\ failed' = TRUE
        /\ IF backend = "file" THEN Again("list") ELSE End("notfound")
  /\ UNCHANGED <<store, asked, page, first, current, acc, elements, seen, firm,
                 steady, vanished, odd, blind>>

WalkStep == Begin \/ ListReleases \/ ListFails \/ CheckArchive

----------------------------------------------------------------------------
(* Properties *)

Ended(s) == pc = "done" /\ status = s

\* A client that reads the list to its end, page by page from the first or along
\* the links to the predecessors, has been told of every release that was listed
\* all the time, though each answer is made from a new listing and releases are
\* published meanwhile.  It need not if a release it passes is rolled back, which
\* moves the others to an earlier page, or if a version is listed that does not
\* parse, which keeps those before it from being compared with those after it.
WalkMissesNothing ==
  Ended("complete") /\ first = 1 /\ ~vanished /\ ~odd => steady \subseteq seen

\* A page after the last is answered with no releases, and the connection is cut
\* only if the number of the page is so large that its start does not fit an int.
PagesHaveAnEnd ==
  first > Cardinality(Releases) /\ ~Overflows(first * per) =>
    seen = {} /\ status # "panic"

\* What the client's request is about.
Concerns(r) ==
  CASE kind = "collection" -> TRUE
    [] kind = "scope" -> ScopeOf[Package(r)] = ScopeOf[package]
    [] kind = "links" /\ current # NoVersion -> r = <<package, current>>
    [] OTHER -> Package(r) = package

\* Nobody is told that there is nothing where a release has been accepted before:
\* though a second publish of it is refused and rolled back meanwhile, though others
\* change the metadata of its package, and though what is asked is not its archive
\* but a directory, a prefix or a catalog.  On Maven any failing call says so, and so
\* does the index while it is being rewritten.
NotFoundIsTrue ==
  Ended("notfound") /\ ~failed /\ ~spoilt /\ ~blind => ~\E r \in firm : Concerns(r)
=============================================================================
