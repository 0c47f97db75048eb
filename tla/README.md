# Verification of OpenSPMRegistry

TLA+ models of the Swift package registry in `src/` (Go), the TLC runs that
check them on small instances, and the theorems about them that TLAPS proves
for every instance.  The source is the reference: every definition that models
code is translated from the lines `PROJECT.json` gives under `map`.

1. [The system](#1-the-system): components, state, interactions, hazards
2. [What is modelled](#2-what-is-modelled): modules and their correspondence to the code
3. [Runs](#3-runs): what each checks, its bounds, the findings
4. [Fairness](#4-fairness)
5. [Proofs](#5-proofs)
6. [Abstractions](#6-abstractions) and what is left out
7. [Plan](#7-plan)

To repeat a run: `tlc -config PublishRace.cfg MCPublish`; to repeat the proofs of
a module: `tlapm PublishProofs.tla`.

## 1. The system

A registry server answers the Swift Package Registry protocol over HTTP.  Go
runs one goroutine per request; the goroutines share a storage backend, chosen
once in `main.go:88-108`, and nearly nothing in memory.  What they share is
the storage itself, reached by calls (`Exists`, `GetReader`, `GetWriter`,
`Remove`, ...) that are atomic one by one and never together.  No handler takes
a lock on a release; only the Maven backend has locks, on two catalog files.

| component | source | state | operations | what makes it correct |
|---|---|---|---|---|
| Publish endpoint | `controller/publish.go` | per request: parts left, `storedElements`, `packageElement`; otherwise the storage | `PublishAction`, `storeElements`, `cleanupStoredElements` | an accepted release is kept and never changes; a refused publish leaves nothing; every request is answered |
| File backend | `repo/files` | a directory tree; files are created in place and visible while they are written | `Exists`, `GetWriter`, `GetReader`, `ExtractManifestFiles`, `Remove`, `List*`, `Lookup`, ... | manifests belong to the archive served; a failing call or crash damages nothing accepted |
| S3 backend | `repo/s3` | objects; a writer buffers and uploads on `Close` | the same, plus paged listing | as above; every page of a listing is read |
| Maven backend, writer | `repo/maven/access.go`, `metadata.go`, `client.go` | files of a Maven server, of which `maven-metadata.xml` (per package) and the index are read, changed and written back; the locks `metadataKeys` and `indexMu` | `mavenWriter.Close`, `updateMetadata`, `updateSPMRegistryIndex` | no update is lost, none undone; checksums are of the archive stored; no lock is left held |
| Maven backend, readers | `repo/maven/readseek.go`, `access.go`, `mavenrepo.go` | an HTTP body, a size and a position per reader; the cached answer to "does the server support ranges" | `GetReader`, `Read`, `Seek`, `Close`, `checkRangeSupport`, `List` | a reader hands out the bytes of the file in order, and what is called complete is whole |
| Read endpoints | `controller/{downloadsourcearchive,fetchmanifest,info,lookup}.go` | none of their own | several storage calls per request | what one response says (length, digest, signature, manifest) is about one state of the release |
| Release list | `controller/list.go`, `utils.go` | none; each answer is made from a listing of its own | sorting, pagination, `Link` headers | a client that follows the links misses no release; the latest is the greatest |
| Version order | `models/models.go` | none | `ParseVersion`, `Compare`, `SortVersions` | it is a total order |
| Package collections | `controller/collections.go`, `repo/collections.go` | none | generate a document from listings and manifests | it has every release that is there, and none that was rolled back |
| Authentication | `authenticator/`, `middleware/` | cookies at the client; keys of the process | basic, OIDC code and password logins | a login that was begun can be completed |
| Server process | `main.go`, `config/` | the configuration | routing, shutdown | requests in flight may be cut at any point without damage |
| Tools and tests | `cmd/`, `e2e/`, `internal/`, `apivalidate/`, `utils/` | none | bootstrap servers, certificates, test helpers | - |

**How a publish runs.**  `PUT /{scope}/{package}/{version}` carries a multipart
form: a source archive, optionally its signature, metadata and the metadata's
signature, in the client's order.  For each part the handler asks `Exists`
(409 if so), opens a writer, copies, and closes it; after a zip archive it has
the backend open that archive *again, by name*, and write the manifests in it
(`Package.swift`, `Package@swift-*.swift`, `Package.json`) beside it.  After
the last part, `requirePackageJson` may demand that a `Package.json` is there.
On most errors - not all - `cleanupStoredElements` removes, by name, what this
request stored and the release's manifests.  Extraction takes manifests in any
case of letters, the cleanup only under the usual names.

**What is hard to test in it** is listed in `PROJECT.json` under `hazards`, each
at its line: the check and the write of an element are two calls; which
elements are handed to the cleanup differs by error path; two publishes of one
release interleave at every call, so one may be cleaning up while the other
writes or extracts; the cleanup goes by name and not by owner; a crash leaves
any prefix of all this behind; on Maven four more files follow each archive,
two of which all publishes read, change and write back, any call of which may
fail or be carried out and reported failed.  And whoever reads reads in many
calls: a download in up to three files, a Maven file in one request per seek
and per short body, a list in a listing per page, a collection in a call per
scope, package and file, each of which sees the storage at another moment.

How much of each component is modelled (`components` in `PROJECT.json` says
what of it is not):

| modelled | partly | not modelled |
|---|---|---|
| Publish endpoint; archive and information endpoints; Maven writer and catalog; release list; version order; package collections | file, S3 and Maven readers (without `Lookup` and `PublishDate`); manifest and lookup endpoints; repository interface; server process | authentication; tools and tests |

## 2. What is modelled

| module | what it is | lines of code it stands for |
|---|---|---|
| `Publish` | the publish endpoint over any of the three backends, concurrent with itself | `controller/publish.go`, the parts of `repo/{files,s3,maven}` it calls |
| `ReleaseRegistry` | what publishing promises a client: each archive is a write-once register | abstract, refined by `Publish` |
| `MCPublish` | constants of `Publish` for TLC | |
| `PublishProofs` | theorems about `Publish`: types, accepted archives | |
| `RollbackProofs` | theorems about `Publish`: refused requests; extends `PublishProofs` | |
| `ManifestProofs` | theorems about `Publish`: manifests, and that it implements `ReleaseRegistry`; extends `RollbackProofs` | |
| `Readers` | the download and info endpoints, reading file after file and piece by piece while publishes go on | extends `Publish`; `controller/{downloadsourcearchive,info}.go`, the parts of `controller/utils.go` and `repo/{files,s3}` they call |
| `MCReaders` | constants of `Readers` for TLC | |
| `ReadersProofs` | theorems about `Readers`; extends `RollbackProofs` | |
| `MavenCatalog` | closing the writer of an archive on a Maven server: four files, two locks | `repo/maven/{access,metadata,client}.go` |
| `MCMavenCatalog` | constants of `MavenCatalog` for TLC | |
| `MavenCatalogProofs` | theorems about `MavenCatalog` | |
| `RangeReader` | reading one file of a Maven server, through a reader over range requests or a buffered copy | `repo/maven/{readseek,access,client}.go`, and who reads through them |
| `MCRangeReader` | constants of `RangeReader` for TLC | |
| `RangeReaderProofs` | theorems about `RangeReader` | |
| `Versions` | the order of versions and the two sorts that use it, as operators | `models/models.go`, `controller/utils.go` |
| `Listing` | the list of releases and the links of a release, as a client follows them while releases are published and rolled back, on each backend | extends `Versions`; `controller/{list,info,utils}.go`, the listing parts of `repo/{files,s3,maven}` |
| `Collections` | gathering a package collection, next to the same publishes | extends `Listing`; `controller/collections.go`, `repo/collections.go` and the listing and reading parts of the backends |
| `VersionsProofs` | lemmas about `Versions`: the order, sorting, lists of names | |
| `CollectionsProofs` | theorems about `Listing` and `Collections`; extends `VersionsProofs` | |
| `MCCollections` | constants of `Collections`, `Listing` and `Versions` for TLC | |

### Publish

One release, since releases share no file (Maven's catalog does not distinguish
an accepted archive from a refused one: it is `MavenCatalog`'s).  A member of
`Requests` is a handler and also the bytes its client sends, so that
`bytes[f]`, a sequence of `Chunks` owners, tells whose archive a file holds and
how much of it.

| state | code |
|---|---|
| `pc[p]` | where the goroutine is: `parts` is the loop of `publish.go:50`, `open` is past `Exists`, `copy` inside `io.Copy`, `unzip` and `extract` inside `ExtractManifestFiles`, `cleanup` inside `cleanupStoredElements` |
| `rest[p]` | the parts `NextPart` has not returned; `custom` is a part `validateUploadType` refuses, `broken` the place where the form stops being one |
| `at[p]`, `linked[p]` | chunks copied; whether the open file is still the one its path names (a file removed while it is written goes on without a name) |
| `src[p]`, `todo[p]` | whose archive the extraction has opened, and the manifests it has still to write |
| `stored[p]`, `package[p]` | `storedElements` and `packageElement`; in the cleanup, what is still to be removed |
| `files`, `bytes` | the release's files; an object store changes them at `Close`, the file backend from `GetWriter` on |
| `zip[p]` | the manifests in its archive, two of which may have their names in lower case |
| `baseUrl` | whether a `Location` can be made (`publish.go:113-121`): if not, what is stored stays and the answer is 500 |
| `left`, `before`, `rivals` | history: removals that failed, files at arrival, requests in flight together |

Each action is the code between two storage calls, with the call that ends it.
`Exists` may be wrong in the way the code makes it wrong: the file backend takes
a failing `Stat` for "exists" (`files/access.go`), the object stores a failing
`HEAD` for "does not exist" (`s3/access.go:34`, `maven/access.go:95-98`).  A
failing copy closes an object's writer all the same, which uploads the
truncated buffer (`publish.go:162-174`).  A failing `Close` may have been
carried out.  An archive is listed from its end, so the extraction finds the
manifests of whoever wrote the last chunk.  A crash ends every handler at once.

`StoredAs` is the file a manifest is written to: the file backend keeps its name as
it is in the archive (`filerepo.go:317`), the object stores call every
`package.json` `Package.json` but keep the case of a manifest
(`s3repo.go:87-91`, `mavenrepo.go:93-97`), and on Maven its path is lower case
throughout.  `Overlooked` is what the cleanup then does not find: on the file
backend and S3 what does not begin with `Package`, on Maven the alternates, which
`GetAlternativeManifests` never lists (`mavenrepo.go:276-295`).  The properties of
rollbacks except these files by name: without the exception TLC finds each of them
left behind by a rollback (in `publish_alone`; `package.json` with the archives of
`publish_ends`).

`ReleaseRegistry` says what remains if one looks only at what a client is told
(`verdict`) and what a download returns (`served`): a register may change until
the first publish of it is accepted, and never after.  `Publish` implements it
when publishes do not overlap (`Registry` at the end of `Publish`; `Served` is
read off `bytes`, `Verdict` off `answer`).

### Readers

A read request asks whether the archive is there (`Ask`) and then reads, one
after the other and each by its own storage calls, everything its answer is made
of.  `Plan` is the order the code reads them in: a download takes the checksum
of the archive, the signature, and then the archive itself; info takes the
metadata, the signature and the checksum.

| state | code |
|---|---|
| `asks[g]`, `rpc[g]`, `status[g]` | the endpoint; where its goroutine is; the response (`cut` is one that ends before its length) |
| `steps[g]`, `got[g]` | the reads still to make; what the earlier ones returned |
| `data[g]`, `next[g]`, `limit[g]` | the reader: what it has read, its position, where it is going to stop |
| `lost[g]` | what an open file held when its name was removed: on a file system the handle goes on reading that |
| `promised[g]`, `refused[g]` | history: the publishes that were accepted alone, and those that were rolled back completely, before the request began |

An object is read in one call (`OpenFile`), a file piece by piece
(`ReadPiece`), so that what a publish writes in the meantime is seen.
`http.ServeContent` seeks to the end to learn the archive's length and sends
that many bytes from the start (`Measure`, `Length`).  A failing read costs an
answer the checksum, signature or metadata it was for, and the archive's costs
the answer (`CannotOpen`, `ReadFails`).  `PublishStep` is any step of
`Publish`; `EndpointsCrash` ends readers and publishes together.

### MavenCatalog

`mavenWriter.Close` (`access.go:218-257`) for a zip archive, one action per call
to the server or to a lock: `PutArtifact`, `PutSum`, `LockMetadata`,
`LoadMetadata`, `SaveMetadata`, `LockIndex`, `ReadIndex`, `DeleteIndex`,
`WriteIndex`.  Several releases of several packages are uploaded concurrently.
Every call may work, fail, or be carried out and fail (`Works`, `Fails`,
`Breaks`); a client that goes away cancels its request's context and makes all
its later calls fail (`Disconnect`, `controller/utils.go:216-225`); the server
may refuse a PUT over a file that is there (`redeploy`), which is why the index
is deleted before it is written.  `Remove` is the rollback of a publish, which
leaves the catalog as it is.

### RangeReader

One request at a time reads one file of a Maven server.  `ask` says for what:
`copy` reads it all (`EncodeBase64`, `Checksum`, `LoadMetadata`, the
extraction), `peek` as far as it needs (the tools version, `Package.json`),
`serve` and `manifest` hand the reader to `http.ServeContent`, which seeks to
the end for the length, back to the start, and to the first byte of a range
(`Seeks`).  A byte is the state of the file it comes from and its offset there.

| state | code |
|---|---|
| `server`, `lengths`, `era` | outside: what the server does with HEAD and ranges; the lengths the file has one after the other, and which it has now |
| `supports` | `access.supportsRanges`, set once per process by `checkRangeSupport` (`access.go:55-88`) |
| `pc` | `probe`, `head`, `first`, `buffer`: in `GetReader`; `seek`, `read`: between two calls of its caller; `refetch`: inside `Read`, after the end of a body; `end`: `io.EOF` has been returned |
| `mode`, `size`, `pos`, `body` | the reader: which of the two, and its fields; a body is what is left of an open response |
| `todo`, `out`, `status` | what `io.CopyN` has still to copy, what has been handed out, how the answer ended |
| `eras`, `trouble`, `bodies` | history: states of the file since the request began, whether one of its calls failed, bodies read from |

Each action ends with one call to the server, which may fail; between two the
file may be replaced by a shorter or longer one, or removed (`Change`).  What
the model makes visible of this code, each in the comment or premise of a
property:

- a server that ignores ranges and answers 200 is read from the wrong offset
  after a seek (`readseek.go:93`): `BytesAreConsecutive` excepts exactly that;
- `Seek` fetches even at the end of the file (`readseek.go:176`), and a server
  that answers 416 there makes the first seek of `http.ServeContent` fail, a
  500 for a file that is there: the last cause in `ErrorsHaveACause`;
- a fetch of the rest that fails, or a second short body, leaves `io.EOF` of the
  body before, so that `io.ReadAll` takes the middle of the file for its end
  (`readseek.go:120-150`): the exception in `CompleteIsWhole`.  A truncated zip read
  this way at `mavenrepo.go:68` is an archive without manifests.  No client is
  told that such a response is complete: `http.ServeContent` has promised the
  length, and the connection is cut;
- `HEAD` and the probe do not look at the status, and a failed probe is cached
  for ever: neither is the cause of an error of a later request;
- the branch of `Read` for a reader without body (`readseek.go:111-116`) is not
  reached by these callers: whoever is refused a seek closes the reader.

### Versions, Listing and Collections

A version in `Versions` is a number, its place in the order of names, and its
text is what `ParseVersion` looks at.  Nothing validates a version when it is
published, so some do not parse; `utils.go:123` takes those to be equal to all
others, `models.go:277` to come last, neither of which is an order.
`SortFunc` is the insertion sort that `slices.SortFunc` uses for up to twelve
elements, which matters twice: the outcome of sorting by something that is no
order depends on how one sorts, and versions that compare equal (2.0 and 2.0.0)
keep their places.  It is a recursive function and a comparison is a set of
pairs, so that both can be reasoned about.

`Listing` has a storage as it looks to whoever lists: per release the archive,
the manifest, the `Package.json` and other files (`stray`: parts stored beside an
archive that never came, manifests a cleanup overlooked), and what a backend lists a release *by* -
the file backend its directory, which is never removed; S3 any object of it;
Maven its entry in `maven-metadata.xml`, written after the archive and never
removed.  A publish stores the archive; on Maven it then adds the version to the
metadata of the package (`UpdateMetadata`), deletes the index (`DeleteIndex`) and
writes it again (`WriteIndex`), holding a lock of which readers know nothing.  It
extracts the manifests, and is accepted, or refused and rolled back file by
file, or breaks off and stays (`Keep`, `LeaveParts`); a second publish of an
accepted release is refused and takes its manifests away (`Conflict`), as
`publish_conflict` shows of the handler itself.  The client
follows `next` links page by page, or `latest-version` and
`predecessor-version` links release by release; each answer is one `List` (on S3 several
calls with a continuation token), one sort and one slice, in integers that wrap
at `MaxInt`.

`Collections` goes through `ListScopes`, `ListInScope`, `List`,
`LoadPackageJson` and `GetSwiftToolVersion` for every scope, package and
release in turn, each a step between which the storage changes.  The document
is what it says of each release: that it is there, and its tools version.
`blind` remembers that the request has looked for Maven's index between its
DELETE and its PUT (`Looking`).

What these make visible:

- a version that does not parse is a barrier no other is compared across: the
  list is unsorted, `latest-version` is not the latest, and a walk along the
  links may miss a release (the premise of `NewestFirst`, `odd` in
  `WalkMissesNothing`).  It is one even if its publish was refused, or if it has
  no `Package.json` and is not in the collection;
- a release that ceases to be listed (on S3, where no trace of it is left)
  moves the others to an earlier page: a client between two pages misses one
  (`vanished`);
- a page number whose start does not fit an `int` wraps (`list.go:86`): the
  slice expression panics and the connection is cut, or the page is that of
  other releases (`Overflows` in `PagesHaveAnEnd`; without it TLC finds the panic).  The comment at
  `list.go:81` says that `nil` is returned beyond the last page;
- while any publish on Maven rewrites the index, collections miss what is in it: a
  scope is answered 404, the collection of all scopes 200 and empty (`blind` in
  `NotFoundIsTrue` and `CollectionIsComplete`; without it TLC finds both), though
  `PACKAGE_COLLECTIONS.md:216` says that collections "reflect current published packages";
- the file backend and Maven go on listing what was rolled back; collections
  leave it out because its `Package.json` is gone, the list does not;
- on Maven any failing call for the metadata is answered 404
  (`mavenrepo.go:132`), as `failed` in `NotFoundIsTrue` says; scopes and packages that cannot
  be listed are passed over, and the collection without them is answered 200.

### Mutants

A definition named as "Mutant of X" is X with a mistake a change to the code
could make (a part not handed to the cleanup, a lock not waited for, a failing
GET taken for a missing file).  No specification uses them; they are there to be
put in X's place, where each makes the property it is listed for in
`PROJECT.json` fail.

## 3. Runs

### Runs that pass

| run | module, cfg | what it asks |
|---|---|---|
| `publish_alone` | `MCPublish`, `PublishAlone.cfg` | three publishes one after the other, one failing call of any kind but `head`, one crash, on the three backends: an accepted archive is kept (`AcceptedAloneIsServed`); a rollback leaves no file that was not there, but for failed removals and overlooked manifests (`RollbackAddsNothing`); the other manifests served are the archive's (`ManifestsMatchArchive`) and a required `Package.json` is the archive's own (`RequiredJsonIsOwn`); `Publish` implements `ReleaseRegistry` (`RegistrySpec`) |
| `publish_race` | `MCPublish`, `PublishRace.cfg` | two publishes in flight and a third before, between or after, on the three backends, with and without a base URL: the archive of one that did not overlap survives the ones that do; no byte of a refused request stays (`RefusedPartsAreGone`) |
| `publish_ends` | `MCPublish`, `PublishEnds.cfg` | two overlapping publishes on files or Maven, one failing call of any kind, one crash: no byte of a refused request stays but where its removal failed, and every handler returns (`EveryPublishEnds`) |
| `readers_serve` | `MCReaders`, `ReadersServe.cfg` | two publishes that may overlap, one download or info request at any point of them, one failing read, one crash, files and objects: what was published alone and accepted is what a later request gets, archive and checksum (`AcceptedIsServed`); no answer has a byte of a release that had been rolled back when it was asked for (`RefusedIsNotServed`) |
| `catalog_close` | `MCMavenCatalog`, `CatalogClose.cfg` | two uploads of releases of one package, of two, or of one and the same release, two faults, one crash: `maven-metadata.xml` never loses a release (`MetadataNeverShrinks`) and has every one whose calls worked (`MetadataIsComplete`); the index likewise while nothing has failed (`IndexIsComplete`); a `.sha256` is of its archive (`ChecksumIsOfArtifact`); every `Close` returns (`CloseReturns`) |
| `range_reader` | `MCRangeReader`, `RangeReader.cfg` | two requests one after the other, six kinds of server, a file that stays, grows, shrinks, is empty, or is removed and published again, two failing calls: bytes are handed out in order (`BytesAreConsecutive`); of a file that stays a complete answer is whole (`CompleteIsWhole`); a buffered copy is of one state of the file (`BufferIsOneState`); an error has a cause (`ErrorsHaveACause`); every request ends (`EveryReadEnds`) |
| `release_list` | `MCCollections`, `Collections.cfg` | on each of the three backends, a client that walks a list by pages or by links, or asks for a collection, next to one publish that is accepted, refused, left half done or in conflict, and one failing call: a walk misses nothing (`WalkMissesNothing`), the newest comes first (`NewestFirst`), pages end (`PagesHaveAnEnd`), a 404 is true (`NotFoundIsTrue`), a collection has all that is there (`CollectionIsComplete`) and nothing that was rolled back (`CollectionHasNoGhosts`), every answer ends (`AnswersEnd`) |

Their bounds.  Two requests in flight are enough for every pair of handlers'
steps to interleave, and a third that comes before or after is the victim or
the witness of what the two leave behind.  `Chunks` is 2: the least with an
archive half written, and one whose end is another request's than its start.
The uploads put what stops a publish before, between and after the parts that
are stored; the archives differ in whether they have a `Package.json` and
alternate manifests.  One fault or crash is enough for each property of
`Publish` to depend on it, since the properties except what a failed removal
leaves; the catalog has two, as a PUT can fail after a GET has.  One reader is
enough, since readers change nothing and so do not meet each other.  Requests
are interchangeable, and the larger safety runs use that symmetry; the runs with
liveness properties do not.

`range_reader` (106,549 distinct states): files of up to three bytes, the least
with a middle that is neither start nor end, so that a body may end short twice;
reads of up to three bytes; a range from the first or the second byte; two
readers, the second of which has the first's cached probe; two faults, one for
the way the reader is opened and one for what is read through it.
`release_list` (471,080 distinct states): the versions 10.0, 1x, 2.0-b, 2.0.0 and 3.0,
whose order as names is neither that of the versions nor its reverse, of which one
does not parse and two differ in their suffix alone; two packages of a scope and one of
another.  The storage begins with a list of three, to which the publish can add the oldest
version in its middle; or with a list of two, which can grow by its first name, the newest
version, or by its last, next to a package of the other scope.  All these parse: so a list
of several pages, and a listing S3 gives in several calls (two prefixes in each), grows
at each place between two calls of a walk that `WalkMissesNothing` speaks of.  Other publishes
add the version that does not parse, the other package of the scope, or one release again.
Pages of one and of three, the first, one beyond the last, and one whose start exceeds
`MaxInt` = 31 and wraps; one publish, because overlapping publishes are `Publish`'s and a
listing sees of them no more than files that come and go.

### Runs that find a disagreement

Each checks one statement that a comment or document of the repository makes
about the program, and TLC shows a behaviour in which the program does
otherwise.

| run | the statement | what the code does |
|---|---|---|
| `publish_conflict` | manifests are served as `Cache-Control: public, immutable` (`fetchmanifest.go:70`), the cleanup removes what *this* publish stored and extracted (`publish.go:204-205`): `ManifestsAreImmutable` | a second publish of a release is refused with 409, and its cleanup removes the manifests of the release that is there (`publish.go:87`, `223-249`) |
| `publish_twice` | 409 means that the release exists "or is still processing" (`registry.openapi.yaml:182`): `OnePublishAccepted` | two publishes that overlap both find the archive new (`publish.go:145`) and are both answered 201 |
| `publish_unrolled` | the cleanup runs when a publish is rolled back (`publish.go:204-205`): `RefusedAddsNothing` | a form without an archive and a form that breaks off are refused without it (`publish.go:57-61`, `129-131`); the parts stay, and a retry is answered 409 |
| `readers_digest` | `Digest` is the digest "of the source archive" the answer carries (`registry.openapi.yaml:278-279`): `DigestIsOfBody` | the checksum is computed in one reading of the archive and the archive is sent in another (`downloadsourcearchive.go:39`, `70`); while a publish is writing the file, or rolls back and is followed by another, they are not the same bytes |
| `catalog_forgets` | the index is taken for empty "on 404 or invalid body" only, and publishes do not overwrite each other (`access.go:27`, `152`): `IndexForgetsNothing` | any failing GET empties it, and a PUT that fails after the DELETE leaves none (`access.go:160`, `187-194`) |

What `publish_alone` leaves out it names: with `head` among the faults TLC finds
an accepted archive replaced, because a failing `HEAD` reads as "does not
exist".  The theorem `AcceptedStays` has that as its hypothesis.

What no property catches: a request for an archive begun *before* a rollback is
complete may be answered with bytes of the refused publish, for
`RefusedIsNotServed` speaks of requests begun after it; a server that ignores ranges
is excepted in `BytesAreConsecutive`, one that refuses the range at the end in
`ErrorsHaveACause`, and versions that do not parse in `NewestFirst`.

## 4. Fairness

`Publish` and `MavenCatalog` assume weak fairness of each handler as a whole and
nothing else: requests need not arrive, calls need not fail, the process need
not crash.  For a handler this says three things.  The Go runtime schedules it.
A storage call returns.  The client sends the rest of its body or closes the
connection: the server sets no read timeout (`main.go:164-167`), so a client
that does neither holds its handler for ever, and `EveryPublishEnds` does not
speak of it.  For a lock it says that of finitely many uploads each gets it;
`sync.Mutex` is handed to a waiter that has been starved, which gives at least
that.

`RangeReader` and `Collections` assume weak fairness of the request's own steps
with no fault among them (`UNCHANGED faults`): nothing may depend on a call
failing.  On Maven a call ends one way or the other, for the HTTP client has a
timeout (`maven/client.go:46-61`).  That calls to S3 and to the file system
return is assumed: no deadline of this code sees to it.  The file need not
change and releases need not be published.

## 5. Proofs

TLAPS checks these for every value of the constants; the assumptions used are
the named `ASSUME`s of `Publish`, `MavenCatalog`, `RangeReader`, `Versions` and
`Listing`.

| theorem | says |
|---|---|
| `PublishProofs!TypeCorrect` | `Spec => []TypeOK`, for every number of requests, chunks, faults and crashes, all bodies and archives |
| `PublishProofs!AcceptedStays` | `"head" \notin FaultKinds => (Spec => []AcceptedAloneIsServed)`: if `Exists` never misses a file, what was published alone and answered 201 is served whole for ever, whatever the others do |
| `RollbackProofs!RefusedAreGone` | `Spec => []RefusedPartsAreGone`: without any hypothesis, faults of `Exists` and all other interference included |
| `RollbackProofs!RollbackAdds` | `Spec => RollbackAddsNothing`, on every backend |
| `ManifestProofs!ManifestsMatch` | `"head" \notin FaultKinds => (Spec => []ManifestsMatchArchive)`, on every backend |
| `ManifestProofs!JsonIsOwn` | `Spec => []RequiredJsonIsOwn` |
| `ManifestProofs!RegistryImplemented` | `MaxActive = 1 /\ "head" \notin FaultKinds => (Spec => RegistrySpec)`: the refinement of `ReleaseRegistry` |
| `ReadersProofs!ReadersTypeCorrect` | `EndpointsSpec => []ReadersTypeOK`, for every number of readers |
| `ReadersProofs!RefusedStays` | `EndpointsSpec => []RefusedIsNotServed` |
| `ReadersProofs!AcceptedServed` | `"head" \notin FaultKinds => (EndpointsSpec => []AcceptedIsServed)` |
| `MavenCatalogProofs!CatalogTypeCorrect` | `Spec => []TypeOK` |
| `MavenCatalogProofs!MetadataGrows` | `Spec => MetadataNeverShrinks` |
| `MavenCatalogProofs!MetadataComplete` | `Spec => []MetadataIsComplete` |
| `MavenCatalogProofs!IndexComplete` | `Spec => []IndexIsComplete` |
| `MavenCatalogProofs!ChecksumIsOwn` | `Spec => []ChecksumIsOfArtifact` |
| `RangeReaderProofs!TypeCorrect` | `Spec => []TypeOK`, for every server, history of the file, buffer and number of faults |
| `RangeReaderProofs!BytesConsecutive` | `Spec => []BytesAreConsecutive` |
| `RangeReaderProofs!ErrorsCaused` | `Spec => []ErrorsHaveACause` |
| `RangeReaderProofs!BufferOneState` | `Spec => []BufferIsOneState` |
| `RangeReaderProofs!CompleteWhole` | `Spec => []CompleteIsWhole` |
| `CollectionsProofs!CollectionsTypeCorrect` | `Spec => []TypeOK`, for every number of packages, versions, publishes and faults, every request and width of `int` |
| `CollectionsProofs!WalksMissNothing` | `Spec => []WalkMissesNothing` |
| `CollectionsProofs!LaterPagesAreEmpty` | `Spec => []PagesHaveAnEnd` |
| `CollectionsProofs!NotFoundOnlyIfNone` | `Spec => []NotFoundIsTrue`, which speaks of requests that have not looked for the index while it was being rewritten |
| `CollectionsProofs!CollectionsAreComplete` | `Spec => []CollectionIsComplete`, of the same requests |
| `CollectionsProofs!CollectionsHaveNoGhosts` | `Spec => []CollectionHasNoGhosts` |
| `CollectionsProofs!ListsAreNewestFirst` | `Spec => []NewestFirst` |

**`TypeCorrect`** needs one thing more than the types: a handler that is storing
a part has a part to store (`Uploading`), or `Head` and `Tail` of its parts say
nothing.

**`AcceptedStays`.**  `AcceptedAloneIsServed` is not inductive.  Nothing in it
says that no other handler is about to write the accepted archive, or has it on
the list of what its cleanup is going to remove; nothing in it speaks of the
time before the 201, when the archive has to become whole.  `IInv` adds:

- `Met`: requests in flight together know of each other, so that "alone" means
  that no one else was between `Exists` and `Close` while `p` was running;
- `CopiedAlone`: while `p`, alone, copies into a file, the file is the one its
  path names and holds what `p` has copied;
- `Kept`: from the `Close` of its archive on, as long as `p` has not turned to
  its cleanup, the archive is there and whole, no handler is past `Exists` on
  its way to write it, and none but `p` has it among what it stored or is
  removing;
- `Returned`: only a handler that stored an archive and returned has answered
  201, and one that is not running has nothing to remove.

The step lemmas sort the 22 actions of a handler first by what they can change
(`ElementsTouched`: the file being stored or the next to be removed;
`StoringSteps`: a handler begins to store only what `Exists` has just found
missing; `StoredSteps`: nothing is added to a list of removals but what the
handler itself was storing; `HandleKinds`), and the invariant's parts are then
proved from those facts: `SafeFromOthers` for the steps of other handlers,
`SafeWhenClosed` for the step that makes the archive whole, `SafeAtRest` for
arrivals, returns and crashes.  `SafeFromOthers` is where the hypothesis is
used: a file that is there is found.

**`RefusedAreGone`** has nothing to rely on: others may write the same files,
remove them, and be refused.  Its invariant is about one request's bytes:
`Traced`, that a byte of `p` in the release is in a file `p` is writing, in one
that is on `p`'s list of what it stored or is to remove, or in one it could not
remove, unless `p` has returned without being refused.  `BytesSteps` says that
bytes of `p` come into a file by `p`'s own writing alone, and `TracedOwn` goes
through the error paths of the handler: the element being stored joins the list
on every one that can leave bytes of it behind.

**`RollbackAdds`**: `Added`, that on its own `p` finds no file but those from
before it came, those on its list, manifests, and the one it is writing; in the
cleanup the manifests are on the list too, but for the overlooked ones.  Which
manifests there can be is `Extractable`, the names `StoredAs` gives on the backend
(`StoredAsExtractable`): each is one the cleanup goes for or in `Overlooked`.

**`ManifestsMatch`, `JsonIsOwn`**: the invariant `ManifestInv` follows an archive
and its manifests through a publish that nothing has disturbed.  `Fresh`: who
writes an archive finds no manifests; `Unzipping`: who extracts has opened its own
archive; `Matched`: a manifest is the archive's, empty, or about to be removed
(`ManifestsFollow`: the cleanup removes an archive before its manifests, so
that none outlives it unnoticed); `Named`: no manifest is there under a name the
backend does not give; `Extracted`: if no call has failed, a
manifest is in the archive of whoever wrote it, from which a `Package.json` that
`Accept` finds is the request's own.  `NeverMissed`, that `Exists` has missed no
file, is `"head" \notin FaultKinds` for the one theorem and `faults = 0`, a
premise of the property, for the other.

**`RegistryImplemented`**: with one request in flight at a time (`Sole`) every
publish runs alone, and `Kept` of `IInv` says that an archive accepted is whole and
that nobody else is about to write or remove it.  A step of a handler changes what
is served of one archive at most (`ServedSteps`), and none that has been promised
(`NotPromised`): a `Change`, or together with a refusal a `Reject`; `Accept` tells a
request that its archive is served when it is (`AcceptSteps`).  A crash is a
`Reject` of all requests in flight, answered "lost".  With requests that overlap
it does not hold, as `publish_twice` shows.

**`Readers`.**  What is proved of `Publish` holds next to readers, for a read
changes nothing of it but the count of faults (`ReadSteps`, `EndpointsSteps`).

- `ReadersTypeCorrect`: `Waiting` adds that what is to be read are elements of a
  release, and that a handler between two files has nothing open.
  `LengthFacts` shows that `Length`, defined by a `CHOOSE`, is a length: the last
  piece written of a content that is not empty exists (`Least`).
- `RefusedStays`: `Forgotten`, that a publish that had been rolled back when a reader
  asked stays so, and that no byte of it is in what the reader has read, *nor in what
  its handle was left* when a file was removed.  By `Traced` no file of the release has
  one, and whoever goes on writing to a removed file is still copying, so is another.
- `AcceptedServed`: `Promised`, that the publish a reader was promised holds its archive
  (`Holds`, with `IInv`), so that the archive cannot be removed from under a handle; that
  the reader has read a prefix of it up to its position and will stop at its end
  (`Fetching`); and that a download has read it or has it still to read (`Answering`).
  `InOrder` says that a checksum and a body are always read from the archive.

**`MetadataGrows`** rests on `MetadataInv`: whoever is between the GET and the
PUT of a package's `maven-metadata.xml` holds its lock (`Holding`), and what it
has read is still what is there (`UpToDate`).  The PUT then only adds
(`MetadataKept`).  **`MetadataComplete`** follows from the same invariant: an
upload comes past its update only listed or with a failed call (`PastSteps`),
and nothing is taken off the list again.

**`IndexComplete`** needs more, because the index is empty between its DELETE
and its PUT: `Indexing`, that whoever is between the GET and the PUT holds the
lock, and `Indexed`, that while no call has failed every package written is in
the index, or in what the upload about to PUT has read.

**`ChecksumIsOwn`**: `Summed` says of a release whose uploads have not
overlapped that one is under way at a time, that until it has written its
`.sha256` the archive, if it has not been rolled back, is its own, and that otherwise
the `.sha256` is the archive's.  The same archive may be removed in between by the
rollback of an *earlier* upload, which is why "if it is there" is needed.

**`RangeReader`**: every safety property of the reader is proved.  The
invariants are conjunctions that build on each other:

- `Shape`, beside the types: a body ends after it begins, and the buffer has
  the length of the file it was filled from;
- `Aim`, while the reader is opened and sought: the seeks left end at the first
  byte wanted, and the body is where `pos` says, if the server honours ranges;
- `Progress`, while it is read: `pos = from + Len(out)`, `todo = size - pos`
  for a response that has been promised a length, and the open body begins at
  `pos`.  With these `TakenOn` shows that what `Read` appends continues `out`;
- `Blamed`: a request remembers every state of the file it has met and, when it
  is going to end with an error, a cause.  `Unanswered` is where "a range is
  refused only if there is no file, or it starts at the end" comes in, and
  `TargetIs` that no seek goes past the end;
- `Copied` and `Ended`: what has been read of the buffer is of the state it was
  filled from; `ok` is only said at the end;
- `Sized` and `Whole`, for a file that does not change: the size found by `HEAD` is the
  file's, and a copy that has met no fault and no second short body comes to
  the end of each body either at the end of the file or before a fetch of the
  rest that must be answered.

**Sorting** (`VersionsProofs`).  `SortFunc` is taken apart once, into the lists it
has after each insertion (`SortSteps`); what follows for the whole is an
induction over how many have been inserted, done over a *set* of numbers
(`Inductive`, from the least number that is not in it), since an induction theorem that
takes an operator is out of the provers' reach.  A sorted list has the entries it
had (`SortKeeps`); it is in order if the versions parse, whichever of the two
comparisons sorts it (`SortDescends`); and whatever the comparison, of two
entries either the first compares less or they stood in that order before
(`SortStable`).  `PrecedesOrder` is what that needs of `Compare`: what does not
precede is transitive, and nothing precedes what precedes it.  `ByNameKeeps`
and `ByNameIncreases` say that a listing by name is all the names, ascending.

**`Collections`**: every safety property of the release list and of
collections is proved from one invariant, `Inv`, whose parts lean on each other:

- `StoreInv`, of the storage: what has not been begun or has been rolled back has
  no file, what is being removed has only files still to be removed
  (`FilesKept`); only what has been begun is listed (`ListedKept`); and what is
  *held* - accepted, or accepted and being undone by a second publish, which
  never removes the archive - is listed, by its directory, its archive or its entry
  in the catalog (`HeldListed`);
- for Maven, the same of the three steps of a publish: one at a time is rewriting the index;
  what has been accepted is in the metadata of its package (`Entered`, `Filed`) and, while no update has
  failed, its package in the index, or in the draft of whoever is rewriting it
  (`Indexed`), so that only a request that looks in between, and is `blind`, can miss
  it;
- `RequestInv`, of the client: what kind of request is where (`AskKept`), and that
  what S3 has listed so far is ascending (`AccKept`), so that a list pieced
  together from several calls repeats nothing, however the keys change
  between them (`ResultIncreases`);
- `NotFoundOnlyIfNone`: `FirmKept`, that what was accepted when the request began is held
  still.  For a collection `Gathered` adds that its scope is still to be listed, or its
  package, or its version has been found;
- `CollectionsAreComplete`: `Included` takes the same on, from found to still to be looked at to
  included;
- `CollectionsHaveNoGhosts`: `GoneKept`, that what was not there is still not there,
  nor the release whose `Package.json` has just been read; its files are gone by
  `FilesKept`;
- `ListsAreNewestFirst`: `Orderly`, that of what is included and what is still to come
  none precedes one after it (`BuiltInOrder`), each package being built once;
- `LaterPagesAreEmpty`: `NoLaterPage`.  No list is longer than there are releases
  (`ListBound`), and the start of the page does not wrap, so it is beyond the end
  (`BeyondTheEnd`);
- `WalksMissNothing`: `WalkKept` says of the list last answered that it is in *line*:
  of two versions the second precedes, or the backend lists them in this order.
  A publish keeps it so (`InLineStays`: Maven's file is sorted again, which moves equal
  versions past each other never; the others list by name).  The next list
  therefore has the versions of the last in the same order (`OrderKept`), so none
  is at an earlier place (`NoneMovesUp`), and what the client has yet to be told of
  stays on a later page (`PagesKept`) or behind the current release
  (`LinksKept`).  On S3 a list is made of several calls, and what is to be found up to
  the last key has been found.

The premises show in the proofs where they are needed: `~odd` makes both
comparisons the order of versions, `~vanished` keeps the list of before within
the next, `first = 1` starts before all of them, and `~Overflows` puts a page
beyond the list.  `WalksMissNothing` is for the insertion sort of `SortFunc`; for longer
lists with equal versions `slices.SortFunc` promises no more than order, which the
other six theorems are content with.  TLC checked `Inv` on `release_list` before it was
proved.

**Only model-checked**: all liveness (`EveryPublishEnds`, `CloseReturns`,
`EveryReadEnds`, `AnswersEnd`), which is beyond the prover.  Every safety property
of a passing run is proved.

## 6. Abstractions

- One alternate manifest, `Package@swift-5.swift`, stands for all, and of the
  names in another case `package.swift` and `package.json`.  The file system tells
  names that differ in case apart.
- An archive overwritten while it is being extracted is found out when its next entry is opened
  (`ArchiveChanged`); that a manifest breaks off in its middle is a failing
  extraction (`ExtractManifestFails`), and no property speaks of manifests where publishes overlap.
- A manifest is written in one step, and the directories of a release are not
  modelled: no property modelled so far looks at either.
- The cleanup's `Exists` and `Remove` of one file are one step (`RemoveNext`),
  as are listing and removing the alternates: between the two a file can only
  be overwritten by another publish, after which its removal is a removal all
  the same.
- The answers of `Readers` are the bytes they are made of: dates, links, metadata
  that does not parse and range requests are left out.  It runs on the file
  backend and the S3 backend; the reader of a Maven server is `RangeReader`, over one file
  alone, and the checksum files Maven takes its digests from are `MavenCatalog`'s.
- Within one call of `RangeReader` the file does not change: a body is of one
  state of the file.  Requests read one after the other; readers share nothing but the
  cached probe, whose outcome is one for all.
- `Listing` has one publish of a release at a time, which leaves a file behind
  only where `Publish` shows one can be left: by a refusal that is not rolled back
  (`LeaveParts`, `Keep`) or a manifest the cleanup overlooks (`stray`).  A failing removal is
  `Publish`'s alone.
- The keys an S3 listing meets are read with each call, in the order of names;
  the file backend lists in the same order but for versions one of which is a
  prefix of another, which are not among the constants.  `ListScopes` and `ListInScope`
  are one call each on every backend: their continuation is that of `List`.
- Lists are sorted by insertion whatever their length.  The library does so up to
  twelve elements; beyond, equal versions may change places.
- Of a collection's entry only the tools version is kept.  Author, licence, date, description
  and the targets and products made from `Package.json` decide nothing.
- A request's context that is cancelled in the middle of a call is, in
  `MavenCatalog`, a call that breaks and then a client that goes away.  A call
  the server carries out later than that is not modelled: not after the process that
  sent it has crashed, nor after a PUT has timed out and its lock has been
  released, when it could undo what the next upload has written.
  `MetadataIsComplete`, `MetadataNeverShrinks` and `IndexIsComplete` say nothing of that.
- `maven-metadata.xml` can always be replaced: Maven servers let even
  repositories of immutable releases do that.
- In `MavenCatalog` `maven-metadata.xml` is a set; the order of its versions is
  `Listing`'s, its `latest` and `release` entries are the first of them, and its
  timestamp is left out.
- Header checks, names and form names are `RefuseRequest` and the parts `custom`
  and `broken`: what of them is wrong makes no difference to the state.

Not modelled, and why:

- `Lookup` (`controller/lookup.go`, the backends' `Lookup`) reads the metadata of
  every release for a URL.  On Maven it always answers that there is none; on the others it
  is one more walk like that of `Collections`, without anything of its own to get
  wrong between the calls.  `PublishDate` is one date of one file.
- Authentication: the registry keeps no session, and each request carries
  credentials a library checks.  What state there is, the cookies of the code
  flow, is the hazard at `oidcauthenticatorcode.go:128`, which no property covers.
- For good: the bootstrap commands, the certificate generator, test helpers and
  static pages, which are I/O without state.

## 7. Plan

The order is that of what would hurt users most: losing or corrupting releases,
then serving what is not there, then listing wrongly.

Done: `Publish`, `ReleaseRegistry`, `Readers` for downloads and release
information, `MavenCatalog`, `RangeReader`, `Versions`, `Listing`,
`Collections`, and the proofs above.

Next, extending the model: manifest requests in `Readers`, with the
alternates of Maven; the code flow of the OIDC login, two logins of one browser.

A PUT carried out after its timeout in `MavenCatalog`, and requests that were begun
before a rollback in `Readers`, to say what such an answer may hold.

With them, proofs of what they add.  The liveness properties stay TLC's.
