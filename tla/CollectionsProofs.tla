------------------------- MODULE CollectionsProofs -------------------------
(***************************************************************************)
(* Proofs about the list of releases and the package collections, for      *)
(* every value of the constants of Collections and Listing: that clients   *)
(* walking along the list miss nothing, that nobody is told that there is  *)
(* nothing where there is something, and what is in a collection and in    *)
(* which order.                                                            *)
(***************************************************************************)
EXTENDS Collections, VersionsProofs

allVars == <<vars, work, whole, gone>>

----------------------------------------------------------------------------
\* Lists and the sets of what is in them.

\* No entry of a list is there twice.
Distinct(s) == Len(s) = Cardinality(ToSet(s))

LEMMA ToSetFacts ==
  ASSUME NEW S, NEW s \in Seq(S)
  PROVE  /\ ToSet(s) \subseteq S
         /\ \A x : x \in ToSet(s) <=> \E i \in 1..Len(s) : s[i] = x
         /\ s = <<>> <=> ToSet(s) = {}
BY DEF ToSet

LEMMA ToSetAppend ==
  ASSUME NEW S, NEW s \in Seq(S), NEW v \in S
  PROVE  ToSet(Append(s, v)) = ToSet(s) \cup {v}
<1>1. /\ Append(s, v) \in Seq(S) /\ Len(Append(s, v)) = Len(s) + 1
      /\ \A i \in 1..Len(s) : Append(s, v)[i] = s[i]
      /\ Append(s, v)[Len(s) + 1] = v
  BY AppendProperties
<1>2. \A i \in 1..Len(s) + 1 : i \in 1..Len(s) \/ i = Len(s) + 1
  BY LenProperties
<1>3. \A i \in 1..Len(s) : i \in 1..Len(s) + 1
  BY LenProperties
<1>4. Len(s) + 1 \in 1..Len(s) + 1
  BY LenProperties
<1>5. \A x : x \in ToSet(s) <=> \E i \in 1..Len(s) : s[i] = x
  BY ToSetFacts
<1>6. \A x : x \in ToSet(Append(s, v)) <=> \E i \in 1..Len(s) + 1 : Append(s, v)[i] = x
  BY <1>1, ToSetFacts
<1> QED
  BY <1>1, <1>2, <1>3, <1>4, <1>5, <1>6

LEMMA ToSetConcat ==
  ASSUME NEW S, NEW s \in Seq(S), NEW t \in Seq(S)
  PROVE  ToSet(s \o t) = ToSet(s) \cup ToSet(t)
<1>1. ToSet(s) = Range(s) /\ ToSet(t) = Range(t) /\ ToSet(s \o t) = Range(s \o t)
  BY DEF ToSet, Range
<1> QED
  BY <1>1, RangeConcatenation

LEMMA IntervalSize ==
  ASSUME NEW n \in Nat
  PROVE  IsFiniteSet(1..n) /\ Cardinality(1..n) = n
<1>1. /\ IsFiniteSet(1..n)
      /\ Cardinality(1..n) = IF 1 > n THEN 0 ELSE n - 1 + 1
  BY FS_Interval
<1> QED
  BY <1>1

LEMMA ToSetFinite ==
  ASSUME NEW S, NEW s \in Seq(S)
  PROVE  IsFiniteSet(ToSet(s)) /\ Cardinality(ToSet(s)) <= Len(s)
<1>1. Len(s) \in Nat /\ DOMAIN s = 1..Len(s) /\ s \in [1..Len(s) -> S]
  BY LenProperties
<1>2. s \in Surjection(1..Len(s), ToSet(s))
  BY <1>1 DEF Surjection, ToSet
<1>3. IsFiniteSet(1..Len(s)) /\ Cardinality(1..Len(s)) = Len(s)
  BY <1>1, IntervalSize
<1> QED
  BY <1>2, <1>3, FS_Surjection

\* Two places of a list without repetition hold different entries.
LEMMA DistinctPlaces ==
  ASSUME NEW S, NEW s \in Seq(S), Distinct(s),
         NEW i \in 1..Len(s), NEW j \in 1..Len(s), s[i] = s[j]
  PROVE  i = j
<1>1. Len(s) \in Nat /\ DOMAIN s = 1..Len(s) /\ s \in [1..Len(s) -> S]
  BY LenProperties
<1>2. s \in Surjection(1..Len(s), ToSet(s))
  BY <1>1 DEF Surjection, ToSet
<1>3. IsFiniteSet(1..Len(s)) /\ Cardinality(1..Len(s)) = Len(s)
  BY <1>1, IntervalSize
<1>4. s \in Injection(1..Len(s), ToSet(s))
  BY <1>2, <1>3, FS_Surjection DEF Distinct
<1> QED
  BY <1>4 DEF Injection, IsInjective

\* A list in ascending order repeats nothing.
LEMMA IncreasingDistinct ==
  ASSUME NEW s \in Seq(Known), \A i, j \in 1..Len(s) : i < j => s[i] < s[j]
  PROVE  Distinct(s)
<1>1. Len(s) \in Nat /\ DOMAIN s = 1..Len(s) /\ s \in [1..Len(s) -> Known]
  BY LenProperties
<1>2. s \in Surjection(1..Len(s), ToSet(s))
  BY <1>1 DEF Surjection, ToSet
<1>3. IsFiniteSet(1..Len(s)) /\ Cardinality(1..Len(s)) = Len(s)
  BY <1>1, IntervalSize
<1>4. \A i \in 1..Len(s) : s[i] \in Nat
  BY <1>1, KnownAssumption
<1>5. \A i, j \in 1..Len(s) : s[i] = s[j] => i = j
  <2> SUFFICES ASSUME NEW i \in 1..Len(s), NEW j \in 1..Len(s), i < j
               PROVE  s[i] # s[j]
    BY <1>1
  <2>1. s[i] < s[j] /\ s[i] \in Nat /\ s[j] \in Nat
    BY <1>4
  <2> QED
    BY <2>1
<1>6. s \in Injection(1..Len(s), ToSet(s))
  BY <1>2, <1>5, <1>1 DEF Injection, IsInjective, Surjection
<1>7. Cardinality(ToSet(s)) = Cardinality(1..Len(s))
  BY <1>2, <1>3, <1>6, FS_Surjection
<1> QED
  BY <1>3, <1>7 DEF Distinct

LEMMA SortDistinct ==
  ASSUME NEW less, NEW S, NEW s \in Seq(S), Distinct(s)
  PROVE  Distinct(SortFunc(less, s))
BY SortTyped, SortKeeps DEF Distinct

LEMMA AddEntryTyped ==
  ASSUME NEW s \in Seq(Known), NEW v \in Known, Distinct(s)
  PROVE  AddEntry(s, v) \in Seq(Known) /\ Distinct(AddEntry(s, v))
<1>1. CASE s = <<>>
  <2>1. AddEntry(s, v) = Append(<<>>, v)
    BY <1>1 DEF AddEntry
  <2>2. ToSet(Append(<<>>, v)) = {v}
    <3>1. ToSet(s) = {}
      BY <1>1 DEF ToSet
    <3>2. ToSet(Append(s, v)) = ToSet(s) \cup {v}
      BY ToSetAppend
    <3> QED
      BY <3>1, <3>2, <1>1
  <2>3. Cardinality({v}) = 1
    BY FS_Singleton
  <2>4. Len(Append(<<>>, v)) = 1 /\ Append(<<>>, v) \in Seq(Known)
    OBVIOUS
  <2> QED
    BY <2>1, <2>2, <2>3, <2>4 DEF Distinct
<1>2. CASE s # <<>> /\ Contains(s, v)
  BY <1>2, SortTyped, SortDistinct DEF AddEntry
<1>3. CASE s # <<>> /\ ~Contains(s, v)
  <2>1. Append(s, v) \in Seq(Known) /\ Len(Append(s, v)) = Len(s) + 1
    BY AppendProperties
  <2>2. v \notin ToSet(s)
    BY <1>3, ToSetFacts DEF Contains
  <2>3. Cardinality(ToSet(s) \cup {v}) = Cardinality(ToSet(s)) + 1
    BY <2>2, ToSetFinite, FS_AddElement
  <2>4. Distinct(Append(s, v))
    <3>1. ToSet(Append(s, v)) = ToSet(s) \cup {v}
      BY ToSetAppend
    <3> QED
      BY <2>1, <2>3, <3>1 DEF Distinct
  <2>5. AddEntry(s, v) = SortFunc(MetadataLess, Append(s, v))
    BY <1>3 DEF AddEntry
  <2> QED
    BY <2>1, <2>4, <2>5, SortTyped, SortDistinct
<1> QED
  BY <1>1, <1>2, <1>3

LEMMA AddEntryAdds ==
  ASSUME NEW s \in Seq(Known), NEW v \in Known
  PROVE  ToSet(AddEntry(s, v)) = ToSet(s) \cup {v}
<1>1. CASE s = <<>>
  <2>1. AddEntry(s, v) = Append(s, v)
    BY <1>1 DEF AddEntry
  <2> QED
    BY <2>1, ToSetAppend
<1>2. CASE s # <<>> /\ Contains(s, v)
  <2>1. ToSet(AddEntry(s, v)) = ToSet(s)
    BY <1>2, SortKeeps DEF AddEntry
  <2>2. v \in ToSet(s)
    BY <1>2, ToSetFacts DEF Contains
  <2> QED
    BY <2>1, <2>2
<1>3. CASE s # <<>> /\ ~Contains(s, v)
  <2>1. AddEntry(s, v) = SortFunc(MetadataLess, Append(s, v))
    BY <1>3 DEF AddEntry
  <2> QED
    <3>1. ToSet(Append(s, v)) = ToSet(s) \cup {v} /\ Append(s, v) \in Seq(Known)
      BY ToSetAppend, AppendProperties
    <3>2. ToSet(SortFunc(MetadataLess, Append(s, v))) = ToSet(Append(s, v))
      BY <3>1, SortKeeps
    <3> QED
      BY <2>1, <3>1, <3>2
<1> QED
  BY <1>1, <1>2, <1>3

----------------------------------------------------------------------------
(* The inductive invariant. *)

\* A release that stays: it is accepted, or kept all the same, or a second publish
\* of it is being rolled back, which removes everything but the archive.
Held(r) ==
  \/ stage[r] = "kept"
  \/ /\ stage[r] = "removing" /\ "archive" \in files[r]
     /\ Head(cleanup[r]) # "archive"

Cleanups == {<<"archive", "manifest", "json">>, <<"manifest", "json">>, <<"json">>}

\* Of what has not been begun there is no file, of what has been rolled back none
\* but strays, and what is being rolled back has besides them only files that are
\* still to be removed.
FilesKept ==
  \A r \in Releases :
    /\ stage[r] = "none" => files[r] = {}
    /\ stage[r] = "refused" => files[r] \subseteq {"stray"}
    /\ stage[r] \in {"put", "listed", "indexing", "stored", "kept"} =>
         "archive" \in files[r]
    /\ stage[r] = "removing" =>
         /\ cleanup[r] \in Cleanups
         /\ files[r] \subseteq ToSet(cleanup[r]) \cup {"archive", "stray"}

\* Only what has been begun is listed, and no version twice.
ListedKept ==
  /\ \A r \in folders : stage[r] # "none"
  /\ \A p \in Packages :
       /\ Distinct(entries[p])
       /\ \A v \in ToSet(entries[p]) :
            <<p, v>> \in Releases /\ stage[<<p, v>>] # "none"

\* The packages in the index, or that will be when it has been rewritten.
Indexed == IF Rewriting THEN draft ELSE index

\* What is in Maven's metadata, and in the index too.
Filed(r)   == stage[r] \in {"listed", "indexing", "stored"} \/ Held(r)
Entered(r) == stage[r] \in {"indexing", "stored"} \/ Held(r)

\* What has been accepted is listed, and one publish at a time rewrites the index.
HeldListed ==
  /\ backend = "file" => \A r \in Releases : stage[r] # "none" => r \in folders
  /\ backend = "maven" /\ ~spoilt =>
       \A r \in Releases :
         /\ Filed(r) => Version(r) \in ToSet(entries[Package(r)])
         /\ Entered(r) => Package(r) \in Indexed
  /\ \A q, r \in Releases : stage[q] = "indexing" /\ stage[r] = "indexing" => q = r

\* What a walk and a collection are at.
AtList    == pc \in {"list", "exists"}
AtCollect == pc \in {"scopes", "scope", "package", "build", "tools"}

Begun(p) == {v \in Known : <<p, v>> \in Releases /\ stage[<<p, v>>] # "none"}

AskKept ==
  /\ pc # "idle" => package \in Packages
  /\ pc = "idle" => current = NoVersion /\ seen = {} /\ status = "none"
  /\ AtList => kind \in {"pages", "links"}
  /\ AtCollect => kind \in {"collection", "scope"}
  /\ per = 0 \/ kind = "pages"
  /\ kind # "pages" => page = 1 /\ first = 1
  /\ per = 0 => first = 1
  /\ current # NoVersion => kind = "links"
  /\ pc = "exists" => current # NoVersion

\* Held releases are what a request may rely on.
FirmKept == firm \subseteq {r \in Releases : Held(r)}

\* What S3 has listed so far is in ascending order.
AccKept ==
  /\ ToSet(acc) \subseteq Begun(package)
  /\ \A i, j \in 1..Len(acc) : i < j => acc[i] < acc[j]
  /\ acc # <<>> => backend = "s3" /\ pc \in {"list", "done"}

NoLaterPage ==
  first > Cardinality(Releases) /\ ~Overflows(first * per) =>
    page = first /\ seen = {} /\ status # "panic"

ElementsKept ==
  /\ pc = "idle" => elements = <<>>
  /\ ToSet(elements) \subseteq Begun(package)
  /\ ToSet(elements) \subseteq Parsed => Descending(elements)

\* Until the packages are built, what a release that was accepted is listed by is
\* still to be listed, or has been.
Gathered ==
  pc \in {"scope", "package"} /\ ~failed /\ ~spoilt /\ ~blind =>
    \A r \in firm : Concerns(r) =>
      \/ ScopeOf[Package(r)] \in scopes
      \/ Package(r) \in packages
      \/ Version(r) \in ToSet(found[Package(r)])

WorkKept ==
  /\ pc \notin {"build", "tools", "done"} =>
       todo = <<>> /\ \A p \in Packages : document[p] = <<>>
  /\ pc = "idle" => \A p \in Packages : found[p] = <<>>
  /\ pc # "package" => packages = {} \/ pc = "done"
  /\ pc = "tools" => todo # <<>>
  /\ \A p \in Packages : ToSet(found[p]) \subseteq Begun(p)
  /\ \A x \in ToSet(todo) : x \in Releases /\ stage[x] # "none"
  /\ \A p \in Packages : \A x \in ToSet(document[p]) : x[1] \in Begun(p)

WholeKept == whole \subseteq firm /\ whole \subseteq Whole /\ (pc = "idle" => whole = {})

Included ==
  pc \in {"build", "tools"} /\ ~failed /\ ~spoilt /\ ~blind =>
    \A r \in whole : Concerns(r) =>
      \/ Version(r) \in ToSet(found[Package(r)])
      \/ r \in ToSet(todo)
      \/ <<Version(r), Own>> \in ToSet(document[Package(r)])

GoneKept ==
  /\ gone \subseteq Gone
  /\ pc = "tools" => Head(todo) \notin gone
  /\ pc = "idle" => gone = {}

\* Of the versions of a package in a collection, and of those still to come, none
\* precedes one that comes after it.
Orderly(p, included, coming) ==
  /\ \A i, j \in 1..Len(included) : i < j => ~Precedes(included[i][1], included[j][1])
  /\ \A i \in 1..Len(included), j \in 1..Len(coming) :
       Package(coming[j]) = p => ~Precedes(included[i][1], Version(coming[j]))
  /\ \A i, j \in 1..Len(coming) :
       i < j /\ Package(coming[i]) = p /\ Package(coming[j]) = p =>
         ~Precedes(Version(coming[i]), Version(coming[j]))

\* A package is built once, and from the newest version down.
BuiltInOrder ==
  \A p \in Packages :
    /\ found[p] # <<>> => document[p] = <<>> /\ \A x \in ToSet(todo) : Package(x) # p
    /\ Begun(p) \subseteq Parsed => Orderly(p, document[p], todo)

\* A walk along the list.

InList(v, w) ==
  \A i, j \in 1..Len(List(package)) :
    List(package)[i] = v /\ List(package)[j] = w => i < j

InLine(v, w) == Precedes(w, v) \/ InList(v, w)

Calm == ~vanished /\ ~odd

WalkKept ==
  AtList /\ Calm =>
    /\ Listed(package) \subseteq Parsed
    /\ steady \subseteq Listed(package) /\ ToSet(acc) \subseteq Listed(package)
    /\ ToSet(elements) \subseteq Listed(package)
    /\ Distinct(elements)
    /\ \A i, j \in 1..Len(elements) : i < j => InLine(elements[i], elements[j])
    /\ acc # <<>> => \A v \in steady \cup ToSet(elements) :
                        v <= Last(acc) => v \in ToSet(acc)

PagesKept ==
  AtList /\ Calm /\ first = 1 /\ kind = "pages" =>
    /\ (page - 1) * per <= MaxInt
    /\ page > 1 => \A v \in steady \ seen :
         \E i \in 1..Len(elements) : i > (page - 1) * per /\ elements[i] = v

LinksKept ==
  AtList /\ Calm /\ kind = "links" /\ current # NoVersion =>
    \E i \in 1..Len(elements) :
      /\ elements[i] = current
      /\ \A v \in steady \ seen : \E j \in i..Len(elements) : elements[j] = v

StoreTypeOK ==
  /\ backend \in Backends
  /\ files \in [Releases -> SUBSET AllFiles]
  /\ folders \subseteq Releases
  /\ entries \in [Packages -> Seq(Known)]
  /\ index \subseteq Packages /\ draft \subseteq Packages
  /\ stage \in [Releases -> Stages]
  /\ cleanup \in [Releases -> Seq(AllFiles)]
  /\ publishes \in 0..MaxPublishes
  /\ spoilt \in BOOLEAN

ClientTypeOK ==
  /\ kind \in {"none", "pages", "links", "collection", "scope"}
  /\ package \in Packages \cup {NoPackage} /\ per \in 0..MaxInt
  /\ pc \in Labels /\ status \in Ends
  /\ page \in 1..MaxInt /\ first \in 1..MaxInt
  /\ current \in Known \cup {NoVersion}
  /\ acc \in Seq(Known) /\ elements \in Seq(Known) /\ seen \subseteq Known
  /\ faults \in 0..MaxFaults

HistoryTypeOK ==
  /\ failed \in BOOLEAN /\ vanished \in BOOLEAN /\ odd \in BOOLEAN
  /\ blind \in BOOLEAN
  /\ firm \subseteq Releases /\ steady \subseteq Known
  /\ whole \subseteq Releases /\ gone \subseteq Releases

WorkTypeOK ==
  /\ scopes \subseteq {ScopeOf[p] : p \in Packages}
  /\ packages \subseteq Packages
  /\ found \in [Packages -> Seq(Known)]
  /\ todo \in Seq(Packages \X Known)
  /\ document \in [Packages -> Seq(Known \X {Own, Default})]

StoreInv == StoreTypeOK /\ FilesKept /\ ListedKept /\ HeldListed

PublishAct(r) ==
  \/ StoreArchive(r) \/ LeaveParts(r)
  \/ UpdateMetadata(r) \/ DeleteIndex(r) \/ WriteIndex(r)
  \/ ExtractManifestFile(r) \/ Keep(r)
  \/ Refuse(r) \/ Conflict(r) \/ RemoveNext(r)

----------------------------------------------------------------------------
(* The storage. *)

LEMMA ReleaseFacts ==
  ASSUME NEW r \in Releases
  PROVE  /\ Package(r) \in Packages /\ Version(r) \in Known
         /\ r = <<Package(r), Version(r)>>
BY ReleaseAssumption DEF Package, Version

LEMMA OfPackageFacts ==
  ASSUME NEW R, R \subseteq Releases, NEW p
  PROVE  /\ OfPackage(R, p) \subseteq Known
         /\ \A v : v \in OfPackage(R, p) <=> <<p, v>> \in R
<1>1. \A r \in R : Version(r) \in Known /\ r = <<Package(r), Version(r)>>
  BY ReleaseFacts
<1>2. ASSUME NEW v, v \in OfPackage(R, p) PROVE <<p, v>> \in R /\ v \in Known
  <2>1. PICK r \in R : Package(r) = p /\ v = Version(r)
    BY <1>2 DEF OfPackage
  <2> QED
    BY <1>1, <2>1
<1>3. ASSUME NEW v, <<p, v>> \in R PROVE v \in OfPackage(R, p)
  <2>1. Package(<<p, v>>) = p /\ Version(<<p, v>>) = v
    BY DEF Package, Version
  <2> QED
    BY <1>3, <2>1 DEF OfPackage
<1> QED
  BY <1>2, <1>3

LEMMA CleanupFacts ==
  ASSUME NEW s \in Cleanups
  PROVE  /\ s \in Seq(AllFiles) /\ s # <<>> /\ s[1] \in AllFiles /\ Head(s) = s[1]
         /\ Tail(s) \in Seq(AllFiles)
         /\ Len(s) > 1 => /\ Tail(s) \in Cleanups /\ Tail(s)[1] # "archive"
                          /\ Head(Tail(s)) = Tail(s)[1]
                          /\ ToSet(s) = ToSet(Tail(s)) \cup {s[1]}
         /\ ~(Len(s) > 1) => ToSet(s) = {"json"} /\ s[1] = "json"
<1> DEFINE a == "archive"
           m == "manifest"
           j == "json"
<1>1. CASE s = <<a, m, j>>
  <2>1. Tail(s) = <<m, j>> /\ Len(s) = 3 /\ s[1] = a /\ Head(s) = a /\ s \in Seq(AllFiles)
    BY <1>1 DEF AllFiles
  <2>2. ToSet(s) = {a, m, j} /\ ToSet(Tail(s)) = {m, j}
    BY <1>1, <2>1 DEF ToSet
  <2>3. /\ <<m, j>> \in Seq(AllFiles)
        /\ <<m, j>>[1] = m /\ Head(<<m, j>>) = m
    BY DEF AllFiles
  <2> QED
    BY <2>1, <2>2, <2>3, <1>1 DEF Cleanups, AllFiles
<1>2. CASE s = <<m, j>>
  <2>1. Tail(s) = <<j>> /\ Len(s) = 2 /\ s[1] = m /\ Head(s) = m /\ s \in Seq(AllFiles)
    BY <1>2 DEF AllFiles
  <2>2. ToSet(s) = {m, j} /\ ToSet(Tail(s)) = {j}
    BY <1>2, <2>1 DEF ToSet
  <2>3. /\ <<j>> \in Seq(AllFiles)
        /\ <<j>>[1] = j /\ Head(<<j>>) = j
    BY DEF AllFiles
  <2> QED
    BY <2>1, <2>2, <2>3, <1>2 DEF Cleanups, AllFiles
<1>3. CASE s = <<j>>
  <2>1. Tail(s) = <<>> /\ Len(s) = 1 /\ s[1] = j /\ Head(s) = j /\ s \in Seq(AllFiles)
    BY <1>3 DEF AllFiles
  <2>2. ToSet(s) = {j} /\ Tail(s) \in Seq(AllFiles)
    BY <1>3, <2>1 DEF ToSet
  <2> QED
    BY <2>1, <2>2, <1>3 DEF AllFiles
<1> QED
  BY <1>1, <1>2, <1>3 DEF Cleanups

LEMMA StoreTypes ==
  ASSUME StoreInv, NEW r \in Releases, PublishAct(r)
  PROVE  StoreTypeOK'
<1> USE DEF StoreInv, StoreTypeOK
<1>0. /\ Package(r) \in Packages /\ Version(r) \in Known
      /\ entries[Package(r)] \in Seq(Known) /\ Distinct(entries[Package(r)])
  BY ReleaseFacts DEF ListedKept
<1>1. CASE StoreArchive(r)
  <2>1. files' \in [Releases -> SUBSET AllFiles] /\ stage' \in [Releases -> Stages]
    BY <1>1 DEF StoreArchive, MoveTo, AllFiles, Stages
  <2>2. folders' \subseteq Releases /\ publishes' \in 0..MaxPublishes
    BY <1>1, BoundAssumption DEF StoreArchive
  <2> QED
    BY <1>1, <2>1, <2>2 DEF StoreArchive, catalog
<1>2. CASE LeaveParts(r)
  <2>1. files' \in [Releases -> SUBSET AllFiles] /\ stage' \in [Releases -> Stages]
    BY <1>2 DEF LeaveParts, MoveTo, AllFiles, Stages
  <2>2. folders' \subseteq Releases /\ publishes' \in 0..MaxPublishes
    BY <1>2, BoundAssumption DEF LeaveParts
  <2> QED
    BY <1>2, <2>1, <2>2 DEF LeaveParts, catalog
<1>3. CASE UpdateMetadata(r)
  <2>1. AddEntry(entries[Package(r)], Version(r)) \in Seq(Known)
    BY <1>0, AddEntryTyped
  <2>2. stage' \in [Releases -> Stages]
    BY <1>3 DEF UpdateMetadata, MoveTo, Stages
  <2>3. \/ entries' = entries
        \/ entries' = [entries EXCEPT ![Package(r)] = AddEntry(@, Version(r))]
    BY <1>3 DEF UpdateMetadata
  <2>4. entries' \in [Packages -> Seq(Known)]
    BY <2>1, <2>3
  <2> QED
    BY <1>3, <2>2, <2>4 DEF UpdateMetadata
<1>4. CASE DeleteIndex(r)
  <2>1. stage' \in [Releases -> Stages]
    BY <1>4 DEF DeleteIndex, MoveTo, Stages
  <2>2. index' \subseteq Packages /\ draft' \subseteq Packages /\ spoilt' \in BOOLEAN
    BY <1>0, <1>4 DEF DeleteIndex
  <2> QED
    BY <1>4, <2>1, <2>2 DEF DeleteIndex
<1>5. CASE WriteIndex(r)
  <2>1. stage' \in [Releases -> Stages]
    BY <1>5 DEF WriteIndex, MoveTo, Stages
  <2>2. index' \subseteq Packages /\ draft' \subseteq Packages /\ spoilt' \in BOOLEAN
    BY <1>0, <1>5 DEF WriteIndex
  <2> QED
    BY <1>5, <2>1, <2>2 DEF WriteIndex
<1>6. CASE ExtractManifestFile(r)
  BY <1>6 DEF ExtractManifestFile, AllFiles, catalog
<1>7. CASE Keep(r)
  BY <1>7 DEF Keep, MoveTo, Stages, catalog
<1>8. CASE Refuse(r)
  <2>1. <<"archive", "manifest", "json">> \in Seq(AllFiles)
    BY CleanupFacts DEF Cleanups
  <2> QED
    BY <1>8, <2>1 DEF Refuse, MoveTo, Stages, catalog
<1>9. CASE Conflict(r)
  <2>1. <<"manifest", "json">> \in Seq(AllFiles)
    BY CleanupFacts DEF Cleanups
  <2> QED
    BY <1>9, <2>1, BoundAssumption DEF Conflict, MoveTo, Stages, catalog
<1>10. CASE RemoveNext(r)
  <2>1. cleanup[r] \in Cleanups
    BY <1>10 DEF RemoveNext, FilesKept
  <2>2. Tail(cleanup[r]) \in Seq(AllFiles)
    BY <2>1, CleanupFacts
  <2>3. cleanup' \in [Releases -> Seq(AllFiles)] /\ files' \in [Releases -> SUBSET AllFiles]
    BY <1>10, <2>2 DEF RemoveNext
  <2>4. stage' \in [Releases -> Stages]
    BY <1>10 DEF RemoveNext, MoveTo, Stages
  <2> QED
    BY <1>10, <2>3, <2>4 DEF RemoveNext, catalog
<1> QED
  BY <1>1, <1>2, <1>3, <1>4, <1>5, <1>6, <1>7, <1>8, <1>9, <1>10 DEF PublishAct

LEMMA FilesStay ==
  ASSUME StoreInv, NEW r \in Releases, PublishAct(r)
  PROVE  FilesKept'
<1> USE DEF StoreInv, StoreTypeOK
<1> DEFINE Ok(q) ==
      /\ stage'[q] = "none" => files'[q] = {}
      /\ stage'[q] = "refused" => files'[q] \subseteq {"stray"}
      /\ stage'[q] \in {"put", "listed", "indexing", "stored", "kept"} =>
           "archive" \in files'[q]
      /\ stage'[q] = "removing" =>
           /\ cleanup'[q] \in Cleanups
           /\ files'[q] \subseteq ToSet(cleanup'[q]) \cup {"archive", "stray"}
<1>0. /\ stage[r] = "none" => files[r] = {}
      /\ stage[r] = "refused" => files[r] \subseteq {"stray"}
      /\ stage[r] \in {"put", "listed", "indexing", "stored", "kept"} =>
           "archive" \in files[r]
      /\ stage[r] = "removing" =>
           /\ cleanup[r] \in Cleanups
           /\ files[r] \subseteq ToSet(cleanup[r]) \cup {"archive", "stray"}
      /\ files[r] \subseteq AllFiles
  BY DEF FilesKept
<1>1. CASE StoreArchive(r)
  BY <1>1, <1>0 DEF StoreArchive, MoveTo, FilesKept
<1>2. CASE LeaveParts(r)
  BY <1>2, <1>0 DEF LeaveParts, MoveTo, FilesKept
<1>3. CASE UpdateMetadata(r) \/ DeleteIndex(r) \/ WriteIndex(r)
  <2>1. /\ files' = files /\ cleanup' = cleanup
        /\ stage[r] \in {"put", "listed", "indexing"}
        /\ \E s \in {"listed", "indexing", "stored"} : stage' = [stage EXCEPT ![r] = s]
    BY <1>3 DEF UpdateMetadata, DeleteIndex, WriteIndex, MoveTo
  <2> QED
    BY <2>1, <1>0 DEF FilesKept
<1>4. CASE ExtractManifestFile(r) \/ Keep(r)
  BY <1>4, <1>0 DEF ExtractManifestFile, Keep, MoveTo, FilesKept
<1>5. CASE Refuse(r)
  <2> DEFINE c == <<"archive", "manifest", "json">>
  <2>1. c \in Cleanups /\ AllFiles \subseteq ToSet(c) \cup {"stray"}
    BY DEF Cleanups, ToSet, AllFiles
  <2> HIDE DEF c
  <2>2. files' = files /\ cleanup' = [cleanup EXCEPT ![r] = c]
    BY <1>5 DEF Refuse, c
  <2>3. stage' = [stage EXCEPT ![r] = "removing"]
    BY <1>5 DEF Refuse, MoveTo
  <2> QED
    BY <2>1, <2>2, <2>3, <1>0 DEF FilesKept
<1>6. CASE Conflict(r)
  <2> DEFINE c == <<"manifest", "json">>
  <2>1. c \in Cleanups /\ AllFiles \subseteq ToSet(c) \cup {"archive", "stray"}
    BY DEF Cleanups, ToSet, AllFiles
  <2> HIDE DEF c
  <2>2. files' = files /\ cleanup' = [cleanup EXCEPT ![r] = c]
    BY <1>6 DEF Conflict, c
  <2>3. stage' = [stage EXCEPT ![r] = "removing"]
    BY <1>6 DEF Conflict, MoveTo
  <2> QED
    BY <2>1, <2>2, <2>3, <1>0 DEF FilesKept
<1>7. CASE RemoveNext(r)
  <2> DEFINE c == cleanup[r]
  <2>1. /\ c \in Cleanups /\ files[r] \subseteq ToSet(c) \cup {"archive", "stray"}
        /\ files' = [files EXCEPT ![r] = @ \ {c[1]}]
        /\ cleanup' = [cleanup EXCEPT ![r] = Tail(c)]
        /\ stage[r] = "removing"
    BY <1>0, <1>7 DEF RemoveNext
  <2>2. CASE Len(c) > 1
    <3>1. Tail(c) \in Cleanups /\ ToSet(c) = ToSet(Tail(c)) \cup {c[1]}
      BY <2>1, <2>2, CleanupFacts
    <3>2. stage' = stage
      BY <1>7, <2>2 DEF RemoveNext
    <3> QED
      BY <2>1, <3>1, <3>2 DEF FilesKept
  <2>3. CASE ~(Len(c) > 1)
    <3>1. ToSet(c) = {"json"} /\ c[1] = "json"
      BY <2>1, <2>3, CleanupFacts
    <3>2. stage' = [stage EXCEPT ![r] =
                      IF "archive" \in files[r] THEN "kept" ELSE "refused"]
      BY <1>7, <2>3 DEF RemoveNext, MoveTo
    <3>3. files'[r] = files[r] \ {"json"} /\ files[r] \subseteq {"json", "archive", "stray"}
      BY <2>1, <3>1
    <3>4. Ok(r)
      BY <3>2, <3>3
    <3> QED
      BY <2>1, <3>2, <3>4 DEF FilesKept
  <2> QED
    BY <2>2, <2>3
<1> QED
  BY <1>1, <1>2, <1>3, <1>4, <1>5, <1>6, <1>7 DEF PublishAct

\* What a publish cannot take back.
LEMMA PublishKeeps ==
  ASSUME StoreInv, NEW r \in Releases, PublishAct(r)
  PROVE  /\ backend' = backend
         /\ spoilt => spoilt'
         /\ folders \subseteq folders'
         /\ \A q \in Releases : stage[q] # "none" => stage'[q] # "none"
<1> USE DEF StoreInv, StoreTypeOK
<1>1. CASE StoreArchive(r) \/ LeaveParts(r)
  BY <1>1 DEF StoreArchive, LeaveParts, MoveTo
<1>2. CASE UpdateMetadata(r) \/ DeleteIndex(r) \/ WriteIndex(r)
  BY <1>2 DEF UpdateMetadata, DeleteIndex, WriteIndex, MoveTo
<1>3. CASE ExtractManifestFile(r) \/ Keep(r)
  BY <1>3 DEF ExtractManifestFile, Keep, MoveTo
<1>4. CASE Refuse(r) \/ Conflict(r)
  BY <1>4 DEF Refuse, Conflict, MoveTo
<1>5. CASE RemoveNext(r)
  BY <1>5 DEF RemoveNext, MoveTo
<1> QED
  BY <1>1, <1>2, <1>3, <1>4, <1>5 DEF PublishAct

LEMMA HeldStays ==
  ASSUME StoreInv, NEW r \in Releases, PublishAct(r), NEW q \in Releases, Held(q)
  PROVE  Held(q)'
<1> USE DEF StoreInv, StoreTypeOK
<1>1. CASE StoreArchive(r) \/ LeaveParts(r)
  BY <1>1 DEF StoreArchive, LeaveParts, MoveTo, Held
<1>2. CASE UpdateMetadata(r) \/ DeleteIndex(r) \/ WriteIndex(r)
  BY <1>2 DEF UpdateMetadata, DeleteIndex, WriteIndex, MoveTo, Held
<1>3. CASE ExtractManifestFile(r) \/ Keep(r)
  BY <1>3 DEF ExtractManifestFile, Keep, MoveTo, Held
<1>4. CASE Refuse(r)
  BY <1>4 DEF Refuse, MoveTo, Held
<1>5. CASE Conflict(r)
  <2> DEFINE c == <<"manifest", "json">>
  <2>1. Head(c) # "archive"
    OBVIOUS
  <2> HIDE DEF c
  <2>2. files' = files /\ cleanup' = [cleanup EXCEPT ![r] = c]
    BY <1>5 DEF Conflict, c
  <2>3. stage' = [stage EXCEPT ![r] = "removing"] /\ stage[r] = "kept"
    BY <1>5 DEF Conflict, MoveTo
  <2>4. "archive" \in files[r]
    BY <2>3 DEF FilesKept
  <2> QED
    BY <2>1, <2>2, <2>3, <2>4 DEF Held
<1>6. CASE RemoveNext(r)
  <2> DEFINE c == cleanup[r]
  <2>1. c \in Cleanups /\ stage[r] = "removing"
    BY <1>6 DEF RemoveNext, FilesKept
  <2>2. Head(c) = c[1] /\ (Len(c) > 1 => Head(Tail(c)) # "archive")
    BY <2>1, CleanupFacts
  <2>3. CASE q # r
    BY <1>6, <2>3 DEF RemoveNext, MoveTo, Held
  <2>4. CASE q = r
    <3>1. "archive" \in files[r] /\ c[1] # "archive"
      BY <2>1, <2>2, <2>4 DEF Held
    <3>2. "archive" \in files'[r] /\ cleanup'[r] = Tail(c)
      BY <3>1, <1>6 DEF RemoveNext
    <3>3. CASE Len(c) > 1
      BY <1>6, <2>1, <2>2, <2>4, <3>2, <3>3 DEF RemoveNext, Held
    <3>4. CASE ~(Len(c) > 1)
      <4>1. stage'[r] = "kept"
        BY <1>6, <3>1, <3>4 DEF RemoveNext, MoveTo
      <4> QED
        BY <4>1, <2>4 DEF Held
    <3> QED
      BY <3>3, <3>4
  <2> QED
    BY <2>3, <2>4
<1> QED
  BY <1>1, <1>2, <1>3, <1>4, <1>5, <1>6 DEF PublishAct

\* What is in the metadata stays in it, and only an update of it adds anything.
LEMMA EntriesChange ==
  ASSUME StoreInv, NEW r \in Releases, PublishAct(r)
  PROVE  \/ entries' = entries
         \/ /\ stage[r] = "put"
            /\ entries' = [entries EXCEPT ![Package(r)] = AddEntry(@, Version(r))]
<1>1. CASE UpdateMetadata(r)
  BY <1>1 DEF UpdateMetadata
<1>2. CASE DeleteIndex(r) \/ WriteIndex(r)
  BY <1>2 DEF DeleteIndex, WriteIndex
<1>3. CASE StoreArchive(r) \/ LeaveParts(r) \/ ExtractManifestFile(r) \/ Keep(r)
  BY <1>3 DEF StoreArchive, LeaveParts, ExtractManifestFile, Keep, catalog
<1>4. CASE Refuse(r) \/ Conflict(r) \/ RemoveNext(r)
  BY <1>4 DEF Refuse, Conflict, RemoveNext, catalog
<1> QED
  BY <1>1, <1>2, <1>3, <1>4 DEF PublishAct

\* An update that does not fail leaves the package in the index, and takes none out
\* of it but between its DELETE and its PUT.
LEMMA IndexChange ==
  ASSUME StoreInv, NEW r \in Releases, PublishAct(r)
  PROVE  /\ ~spoilt' => Indexed \subseteq Indexed'
         /\ ~spoilt' /\ DeleteIndex(r) => Package(r) \in Indexed'
         /\ \A q, t \in Releases : stage'[q] = "indexing" /\ stage'[t] = "indexing" => q = t
<1> USE DEF StoreInv, StoreTypeOK
<1>0. \A q, t \in Releases : stage[q] = "indexing" /\ stage[t] = "indexing" => q = t
  BY DEF HeldListed
<1>1. CASE DeleteIndex(r)
  <2>1. /\ stage' = [stage EXCEPT ![r] = "indexing"] /\ ~Rewriting
        /\ ~spoilt' => draft' = index \cup {Package(r)}
    BY <1>1 DEF DeleteIndex, MoveTo
  <2>2. stage'[r] = "indexing" /\ \A q \in Releases : q # r => stage'[q] # "indexing"
    BY <2>1 DEF Rewriting
  <2>3. Rewriting'
    BY <2>2 DEF Rewriting
  <2> QED
    BY <2>1, <2>2, <2>3 DEF Indexed
<1>2. CASE WriteIndex(r)
  <2>1. /\ stage' = [stage EXCEPT ![r] = "stored"] /\ stage[r] = "indexing"
        /\ ~spoilt' => index' = draft
    BY <1>2 DEF WriteIndex, MoveTo
  <2>2. Rewriting
    BY <2>1 DEF Rewriting
  <2>3. \A q \in Releases : stage'[q] # "indexing"
    BY <2>1, <1>0
  <2>4. ~Rewriting'
    BY <2>3 DEF Rewriting
  <2> QED
    BY <1>2, <2>1, <2>2, <2>3, <2>4 DEF Indexed, DeleteIndex
<1>3. CASE ~DeleteIndex(r) /\ ~WriteIndex(r)
  <2>1. index' = index /\ draft' = draft
    BY <1>3 DEF PublishAct, StoreArchive, LeaveParts, UpdateMetadata, ExtractManifestFile, Keep,
                Refuse, Conflict, RemoveNext, catalog
  <2>2. \/ stage' = stage
        \/ /\ stage[r] # "indexing"
           /\ \E s \in Stages \ {"indexing"} : stage' = [stage EXCEPT ![r] = s]
    BY <1>3 DEF PublishAct, StoreArchive, LeaveParts, UpdateMetadata, ExtractManifestFile, Keep,
                Refuse, Conflict, RemoveNext, MoveTo, Stages
  <2>3. \A q \in Releases : stage'[q] = "indexing" <=> stage[q] = "indexing"
    BY <2>2
  <2>4. Rewriting' <=> Rewriting
    BY <2>3 DEF Rewriting
  <2> QED
    BY <1>0, <1>3, <2>1, <2>3, <2>4 DEF Indexed
<1> QED
  BY <1>1, <1>2, <1>3

LEMMA ListedStays ==
  ASSUME StoreInv, NEW r \in Releases, PublishAct(r)
  PROVE  ListedKept'
<1> USE DEF StoreInv, StoreTypeOK
<1>1. \A q \in Releases : stage[q] # "none" => stage'[q] # "none"
  BY PublishKeeps
<1>2. \A q \in folders' : stage'[q] # "none"
  <2>1. CASE StoreArchive(r) \/ LeaveParts(r)
    <3>1. stage'[r] # "none" /\ folders' \subseteq folders \cup {r}
      BY <2>1 DEF StoreArchive, LeaveParts, MoveTo
    <3> QED
      BY <3>1, <1>1 DEF ListedKept
  <2>2. CASE ~StoreArchive(r) /\ ~LeaveParts(r)
    <3>1. folders' = folders
      BY <2>2 DEF PublishAct, UpdateMetadata, DeleteIndex, WriteIndex, ExtractManifestFile,
                  Keep, Refuse, Conflict, RemoveNext
    <3> QED
      BY <3>1, <1>1 DEF ListedKept
  <2> QED
    BY <2>1, <2>2
<1>3. ASSUME NEW p \in Packages
      PROVE  /\ Distinct(entries'[p])
             /\ \A v \in ToSet(entries'[p]) :
                  <<p, v>> \in Releases /\ stage'[<<p, v>>] # "none"
  <2>1. CASE entries'[p] = entries[p]
    BY <2>1, <1>1 DEF ListedKept
  <2>2. CASE entries'[p] # entries[p]
    <3>1. /\ stage[r] = "put" /\ Package(r) = p
          /\ entries'[p] = AddEntry(entries[p], Version(r))
      BY <2>2, EntriesChange
    <3>2. /\ entries[p] \in Seq(Known) /\ Distinct(entries[p]) /\ Version(r) \in Known
          /\ r = <<p, Version(r)>>
      BY <3>1, ReleaseFacts DEF ListedKept
    <3>3. Distinct(AddEntry(entries[p], Version(r)))
      BY <3>2, AddEntryTyped
    <3>4. ToSet(AddEntry(entries[p], Version(r))) = ToSet(entries[p]) \cup {Version(r)}
      BY <3>2, AddEntryAdds
    <3>5. stage'[r] # "none"
      BY <3>1, <1>1
    <3> QED
      BY <3>1, <3>2, <3>3, <3>4, <3>5, <1>1 DEF ListedKept
  <2> QED
    BY <2>1, <2>2
<1> QED
  BY <1>2, <1>3 DEF ListedKept, Distinct

\* Whoever is kept in the end has been added to the metadata and to the index.
LEMMA HeldComes ==
  ASSUME StoreInv, NEW r \in Releases, PublishAct(r), NEW q \in Releases,
         backend = "maven"
  PROVE  /\ Filed(q)' => Filed(q) \/ (q = r /\ UpdateMetadata(r))
         /\ Entered(q)' => Entered(q) \/ (q = r /\ DeleteIndex(r))
<1> USE DEF StoreInv, StoreTypeOK, Filed, Entered
<1>1. CASE StoreArchive(r) \/ LeaveParts(r)
  BY <1>1 DEF StoreArchive, LeaveParts, MoveTo, Held
<1>2. CASE UpdateMetadata(r) \/ DeleteIndex(r) \/ WriteIndex(r)
  BY <1>2 DEF UpdateMetadata, DeleteIndex, WriteIndex, MoveTo, Held
<1>3. CASE ExtractManifestFile(r) \/ Keep(r)
  BY <1>3 DEF ExtractManifestFile, Keep, MoveTo, Held
<1>4. CASE Refuse(r)
  <2> DEFINE c == <<"archive", "manifest", "json">>
  <2>1. Head(c) = "archive"
    OBVIOUS
  <2> HIDE DEF c
  <2>2. files' = files /\ cleanup' = [cleanup EXCEPT ![r] = c]
    BY <1>4 DEF Refuse, c
  <2>3. stage' = [stage EXCEPT ![r] = "removing"]
    BY <1>4 DEF Refuse, MoveTo
  <2> QED
    BY <2>1, <2>2, <2>3 DEF Held
<1>5. CASE Conflict(r)
  BY <1>5 DEF Conflict, MoveTo, Held
<1>6. CASE RemoveNext(r)
  <2> DEFINE c == cleanup[r]
  <2>1. c \in Cleanups /\ stage[r] = "removing"
    BY <1>6 DEF RemoveNext, FilesKept
  <2>2. Head(c) = c[1] /\ (~(Len(c) > 1) => c[1] = "json")
    BY <2>1, CleanupFacts
  <2>3. CASE q # r
    BY <1>6, <2>3 DEF RemoveNext, MoveTo, Held
  <2>4. CASE q = r
    <3>1. files'[r] = files[r] \ {c[1]}
      BY <1>6 DEF RemoveNext
    <3>2. CASE Len(c) > 1
      <4>1. stage' = stage
        BY <1>6, <3>2 DEF RemoveNext
      <4>2. Held(q)' => "archive" \in files[r] /\ c[1] # "archive"
        BY <2>1, <2>4, <3>1, <4>1 DEF Held
      <4> QED
        BY <4>1, <4>2, <2>1, <2>2, <2>4 DEF Held
    <3>3. CASE ~(Len(c) > 1)
      <4>1. stage'[r] \in {"kept", "refused"}
            /\ (stage'[r] = "kept" => "archive" \in files[r])
        BY <1>6, <3>3 DEF RemoveNext, MoveTo
      <4>2. Held(q)' => "archive" \in files[r]
        BY <4>1, <2>4 DEF Held
      <4> QED
        BY <4>1, <4>2, <2>1, <2>2, <2>4, <3>3 DEF Held
    <3> QED
      BY <3>2, <3>3
  <2> QED
    BY <2>3, <2>4
<1> QED
  BY <1>1, <1>2, <1>3, <1>4, <1>5, <1>6 DEF PublishAct

LEMMA HeldListedStays ==
  ASSUME StoreInv, NEW r \in Releases, PublishAct(r)
  PROVE  HeldListed'
<1> USE DEF StoreInv, StoreTypeOK
<1>1. ASSUME backend' = "file", NEW q \in Releases, stage'[q] # "none"
      PROVE  q \in folders'
  <2>1. backend = "file" /\ folders \subseteq folders'
    BY <1>1, PublishKeeps
  <2>2. CASE stage[q] # "none"
    BY <2>1, <2>2 DEF HeldListed
  <2>3. CASE stage[q] = "none"
    <3>1. (StoreArchive(r) \/ LeaveParts(r)) /\ q = r
      BY <2>3, <1>1 DEF PublishAct, UpdateMetadata, DeleteIndex, WriteIndex,
                        ExtractManifestFile, Keep, Refuse, Conflict, RemoveNext, MoveTo,
                        StoreArchive, LeaveParts
    <3> QED
      BY <3>1, <2>1 DEF StoreArchive, LeaveParts
  <2> QED
    BY <2>2, <2>3
<1>2. ASSUME backend' = "maven", ~spoilt', NEW q \in Releases
      PROVE  /\ Filed(q)' => Version(q) \in ToSet(entries'[Package(q)])
             /\ Entered(q)' => Package(q) \in Indexed'
  <2>1. backend = "maven" /\ ~spoilt
    BY <1>2, PublishKeeps DEF StoreInv
  <2>2. Package(q) \in Packages /\ Version(q) \in Known /\ Package(r) \in Packages
        /\ Version(r) \in Known
    BY ReleaseFacts
  <2>3. Indexed \subseteq Indexed' /\ (DeleteIndex(r) => Package(r) \in Indexed')
    BY <1>2, IndexChange
  <2>4. ToSet(AddEntry(entries[Package(r)], Version(r)))
          = ToSet(entries[Package(r)]) \cup {Version(r)}
    BY <2>2, AddEntryAdds
  <2>5. ToSet(entries[Package(q)]) \subseteq ToSet(entries'[Package(q)])
    BY <2>2, <2>4, EntriesChange
  <2>6. ASSUME UpdateMetadata(r), q = r PROVE Version(q) \in ToSet(entries'[Package(q)])
    <3>1. entries' = [entries EXCEPT ![Package(r)] = AddEntry(@, Version(r))]
      BY <1>2, <2>6 DEF UpdateMetadata
    <3>2. entries'[Package(r)] = AddEntry(entries[Package(r)], Version(r))
      BY <3>1, <2>2
    <3> QED
      BY <2>4, <2>6, <3>2
  <2>7. /\ Filed(q) => Version(q) \in ToSet(entries[Package(q)])
        /\ Entered(q) => Package(q) \in Indexed
    BY <2>1 DEF HeldListed
  <2> QED
    BY <2>1, <2>3, <2>5, <2>6, <2>7, HeldComes
<1>3. \A q, t \in Releases : stage'[q] = "indexing" /\ stage'[t] = "indexing" => q = t
  BY IndexChange
<1> QED
  BY <1>1, <1>2, <1>3 DEF HeldListed

LEMMA StoreStays ==
  ASSUME StoreInv, NEW r \in Releases, PublishAct(r)
  PROVE  StoreInv'
BY StoreTypes, FilesStay, ListedStays, HeldListedStays DEF StoreInv

LEMMA StoreUntouched ==
  ASSUME StoreInv, UNCHANGED store
  PROVE  StoreInv'
<1> USE DEF store, catalog
<1>1. StoreTypeOK'
  BY DEF StoreInv, StoreTypeOK
<1>2. FilesKept'
  BY DEF StoreInv, FilesKept
<1>3. ListedKept'
  BY DEF StoreInv, ListedKept, Distinct
<1>4. HeldListed'
  BY DEF StoreInv, HeldListed, Held, Filed, Entered, Indexed, Rewriting
<1> QED
  BY <1>1, <1>2, <1>3, <1>4 DEF StoreInv

----------------------------------------------------------------------------
(* What is listed. *)

LEMMA ListTyped ==
  ASSUME StoreInv, NEW p \in Packages
  PROVE  List(p) \in Seq(Known) /\ Distinct(List(p))
<1>1. ASSUME NEW R, R \subseteq Releases
      PROVE  ByName(OfPackage(R, p)) \in Seq(Known) /\ Distinct(ByName(OfPackage(R, p)))
  <2> DEFINE S == OfPackage(R, p)
  <2>1. S \subseteq Known
    BY <1>1, OfPackageFacts
  <2> HIDE DEF S
  <2>2. ByName(S) \in Seq(S) /\ Len(ByName(S)) = Cardinality(S) /\ ToSet(ByName(S)) = S
    BY <2>1, ByNameTyped, ByNameKeeps
  <2>3. ByName(S) \in Seq(Known)
    BY <2>1, <2>2, SeqMonotonic
  <2> QED
    BY <2>2, <2>3 DEF Distinct, S
<1>2. Stored \subseteq Releases /\ folders \subseteq Releases
  BY DEF Stored, StoreInv, StoreTypeOK
<1>3. backend \in {"file", "s3", "maven"}
  BY BackendAssumption DEF StoreInv, StoreTypeOK
<1>4. entries[p] \in Seq(Known) /\ Distinct(entries[p])
  BY DEF StoreInv, StoreTypeOK, ListedKept
<1>5. CASE backend = "file"
  BY <1>1, <1>2, <1>5 DEF List
<1>6. CASE backend = "s3"
  BY <1>1, <1>2, <1>6 DEF List
<1>7. CASE backend = "maven"
  BY <1>4, <1>7 DEF List
<1> QED
  BY <1>3, <1>5, <1>6, <1>7

\* The names a backend finds: directories, objects or entries.
LEMMA ListedIs ==
  ASSUME StoreInv, NEW p \in Packages, NEW v
  PROVE  /\ backend = "file"  => (v \in Listed(p) <=> <<p, v>> \in folders)
         /\ backend = "s3"    => (v \in Listed(p) <=> <<p, v>> \in Stored)
         /\ backend = "maven" => (v \in Listed(p) <=> v \in ToSet(entries[p]))
<1>1. Stored \subseteq Releases /\ folders \subseteq Releases
  BY DEF Stored, StoreInv, StoreTypeOK
<1>2. ASSUME NEW R, R \subseteq Releases
      PROVE  v \in ToSet(ByName(OfPackage(R, p))) <=> <<p, v>> \in R
  BY <1>2, OfPackageFacts, ByNameKeeps
<1>3. CASE backend = "file"
  BY <1>1, <1>2, <1>3 DEF List, Listed
<1>4. CASE backend = "s3"
  BY <1>1, <1>2, <1>4 DEF List, Listed
<1>5. CASE backend = "maven"
  BY <1>5 DEF List, Listed
<1> QED
  BY <1>3, <1>4, <1>5

LEMMA ListedBegun ==
  ASSUME StoreInv, NEW p \in Packages
  PROVE  Listed(p) \subseteq Begun(p)
<1>1. backend \in {"file", "s3", "maven"}
  BY BackendAssumption DEF StoreInv, StoreTypeOK
<1>2. SUFFICES ASSUME NEW v \in Listed(p)
               PROVE  <<p, v>> \in Releases /\ stage[<<p, v>>] # "none" /\ v \in Known
  BY DEF Begun
<1>3. v \in Known
  BY ListTyped, ToSetFacts DEF Listed
<1>4. CASE backend = "file"
  <2>1. <<p, v>> \in folders
    BY <1>4, ListedIs
  <2> QED
    BY <2>1, <1>3 DEF StoreInv, StoreTypeOK, ListedKept
<1>5. CASE backend = "s3"
  <2>1. <<p, v>> \in Stored
    BY <1>5, ListedIs
  <2> QED
    BY <2>1, <1>3 DEF Stored, StoreInv, StoreTypeOK, FilesKept
<1>6. CASE backend = "maven"
  <2>1. v \in ToSet(entries[p])
    BY <1>6, ListedIs
  <2> QED
    BY <2>1, <1>3 DEF StoreInv, ListedKept
<1> QED
  BY <1>1, <1>3, <1>4, <1>5, <1>6

LEMMA HeldIsListed ==
  ASSUME StoreInv, ~spoilt, NEW r \in Releases, Held(r)
  PROVE  /\ "archive" \in files[r]
         /\ Version(r) \in Listed(Package(r))
         /\ ~Rewriting => r \in Catalogued
<1>1. backend \in {"file", "s3", "maven"}
  BY BackendAssumption DEF StoreInv, StoreTypeOK
<1>2. Package(r) \in Packages /\ r = <<Package(r), Version(r)>>
  BY ReleaseFacts
<1>3. "archive" \in files[r] /\ stage[r] # "none"
  BY DEF Held, StoreInv, FilesKept
<1>4. CASE backend = "file"
  <2>1. r \in folders
    BY <1>3, <1>4 DEF StoreInv, HeldListed
  <2> QED
    BY <2>1, <1>2, <1>3, <1>4, ListedIs DEF Catalogued
<1>5. CASE backend = "s3"
  <2>1. r \in Stored
    BY <1>3 DEF Stored
  <2> QED
    BY <2>1, <1>2, <1>3, <1>5, ListedIs DEF Catalogued
<1>6. CASE backend = "maven"
  <2>1. Version(r) \in ToSet(entries[Package(r)]) /\ (~Rewriting => Package(r) \in index)
    BY <1>6 DEF StoreInv, HeldListed, Filed, Entered, Indexed
  <2> QED
    BY <2>1, <1>2, <1>3, <1>6, ListedIs DEF Catalogued
<1> QED
  BY <1>1, <1>4, <1>5, <1>6

LEMMA BegunBound ==
  ASSUME NEW p
  PROVE  /\ Begun(p) \subseteq Known
         /\ Cardinality(Releases) \in Nat
         /\ \A T \in SUBSET Begun(p) : /\ Cardinality(T) \in Nat
                                       /\ Cardinality(T) <= Cardinality(Releases)
                                       /\ Cardinality(T) <= MaxInt
<1>1. IsFiniteSet(Packages \X Known)
  BY FS_Product, ReleaseAssumption, KnownAssumption
<1>2. IsFiniteSet(Releases)
  BY <1>1, FS_Subset, ReleaseAssumption
<1>3. Begun(p) \subseteq Known
  BY DEF Begun
<1>4. ASSUME NEW T \in SUBSET Begun(p)
      PROVE  Cardinality(T) \in Nat /\ Cardinality(T) <= MaxInt
  <2>1. IsFiniteSet(T) /\ Cardinality(T) <= Cardinality(Known)
    BY <1>3, FS_Subset, KnownAssumption
  <2>2. Cardinality(T) \in Nat /\ Cardinality(Known) \in Nat
    BY <2>1, FS_CardinalityType, KnownAssumption
  <2> QED
    BY <2>1, <2>2, AskAssumption
<1>5. ASSUME NEW T \in SUBSET Begun(p)
      PROVE  Cardinality(T) <= Cardinality(Releases)
  <2> DEFINE g == [v \in T |-> <<p, v>>]
  <2>1. \A v \in T : <<p, v>> \in Releases
    BY DEF Begun
  <2>2. g \in [T -> Releases]
    BY <2>1
  <2>3. \A v, w \in T : g[v] = g[w] => v = w
    OBVIOUS
  <2> HIDE DEF g
  <2>4. g \in Injection(T, Releases)
    BY <2>2, <2>3 DEF Injection, IsInjective
  <2> QED
    BY <2>4, <1>2, FS_Injection
<1> QED
  BY <1>2, <1>3, <1>4, <1>5, FS_CardinalityType

LEMMA ListBound ==
  ASSUME NEW p, NEW s \in Seq(Known), Distinct(s), ToSet(s) \subseteq Begun(p)
  PROVE  Len(s) \in Nat /\ Len(s) <= Cardinality(Releases) /\ Len(s) <= MaxInt
BY BegunBound DEF Distinct

----------------------------------------------------------------------------
(* What a request for the list is answered from. *)

Result == IF backend = "s3" THEN acc \o KeysLeft ELSE List(package)

LEMMA KeysLeftFacts ==
  ASSUME StoreInv, package \in Packages, acc \in Seq(Known)
  PROVE  /\ KeysLeft \in Seq(Known)
         /\ \A i, j \in 1..Len(KeysLeft) : i < j => KeysLeft[i] < KeysLeft[j]
         /\ \A v : v \in ToSet(KeysLeft) <=>
                     v \in Listed(package) /\ (acc = <<>> \/ v > Last(acc))
<1> DEFINE S == {v \in Listed(package) : acc = <<>> \/ v > Last(acc)}
<1>1. S \subseteq Known
  BY ListTyped, ToSetFacts DEF Listed
<1>2. KeysLeft = ByName(S)
  BY DEF KeysLeft
<1>3. \A v : v \in S <=> v \in Listed(package) /\ (acc = <<>> \/ v > Last(acc))
  OBVIOUS
<1> HIDE DEF S
<1>4. ByName(S) \in Seq(S) /\ Len(ByName(S)) = Cardinality(S) /\ ToSet(ByName(S)) = S
  BY <1>1, ByNameTyped, ByNameKeeps
<1>5. ByName(S) \in Seq(Known)
  BY <1>1, <1>4, SeqMonotonic
<1>6. \A i, j \in 1..Cardinality(S) : i < j => ByName(S)[i] < ByName(S)[j]
  BY <1>1, ByNameIncreases
<1> QED
  BY <1>2, <1>3, <1>4, <1>5, <1>6

\* The keys after the last are all greater than what has been listed.
LEMMA LongerIncreases ==
  ASSUME NEW s \in Seq(Known), NEW t \in Seq(Known),
         \A i, j \in 1..Len(s) : i < j => s[i] < s[j],
         \A i, j \in 1..Len(t) : i < j => t[i] < t[j],
         \A i \in 1..Len(t) : s = <<>> \/ t[i] > s[Len(s)]
  PROVE  \A i, j \in 1..Len(s \o t) : i < j => (s \o t)[i] < (s \o t)[j]
<1>1. /\ Len(s) \in Nat /\ Len(t) \in Nat /\ Len(s \o t) = Len(s) + Len(t)
      /\ \A i \in 1..Len(s) + Len(t) :
           (s \o t)[i] = IF i <= Len(s) THEN s[i] ELSE t[i - Len(s)]
  BY ConcatProperties, LenProperties
<1>2. /\ \A i \in 1..Len(s) : s[i] \in Nat
      /\ \A i \in 1..Len(t) : t[i] \in Nat
  BY KnownAssumption, ElementOfSeq
<1> SUFFICES ASSUME NEW i \in 1..Len(s) + Len(t), NEW j \in 1..Len(s) + Len(t), i < j
             PROVE  (s \o t)[i] < (s \o t)[j]
  BY <1>1
<1>3. CASE j <= Len(s)
  BY <1>1, <1>3
<1>4. CASE i > Len(s)
  <2>1. i - Len(s) \in 1..Len(t) /\ j - Len(s) \in 1..Len(t) /\ i - Len(s) < j - Len(s)
    BY <1>1, <1>4
  <2> QED
    BY <2>1, <1>1, <1>4
<1>5. CASE i <= Len(s) /\ j > Len(s)
  <2>1. i \in 1..Len(s) /\ Len(s) \in 1..Len(s) /\ j - Len(s) \in 1..Len(t) /\ s # <<>>
    BY <1>1, <1>5
  <2>2. s[i] <= s[Len(s)]
    BY <2>1, <1>2
  <2>3. t[j - Len(s)] > s[Len(s)]
    BY <2>1
  <2>4. s[i] < t[j - Len(s)]
    BY <2>1, <2>2, <2>3, <1>2
  <2>5. (s \o t)[i] = s[i] /\ (s \o t)[j] = t[j - Len(s)]
    BY <1>1, <1>5
  <2> QED
    BY <2>4, <2>5
<1> QED
  BY <1>1, <1>3, <1>4, <1>5

LEMMA ResultIncreases ==
  ASSUME StoreInv, package \in Packages, acc \in Seq(Known), AccKept, backend = "s3"
  PROVE  /\ Result = acc \o KeysLeft /\ Result \in Seq(Known)
         /\ \A i, j \in 1..Len(Result) : i < j => Result[i] < Result[j]
<1>1. /\ KeysLeft \in Seq(Known)
      /\ \A i, j \in 1..Len(KeysLeft) : i < j => KeysLeft[i] < KeysLeft[j]
      /\ \A v \in ToSet(KeysLeft) : acc = <<>> \/ v > Last(acc)
  BY KeysLeftFacts
<1>2. \A i \in 1..Len(KeysLeft) : acc = <<>> \/ KeysLeft[i] > acc[Len(acc)]
  BY <1>1, ToSetFacts DEF Last
<1>3. \A i, j \in 1..Len(acc) : i < j => acc[i] < acc[j]
  BY DEF AccKept
<1>4. Result = acc \o KeysLeft
  BY DEF Result
<1>5. Result \in Seq(Known)
  BY <1>1, <1>4, ConcatProperties
<1> QED
  BY <1>1, <1>2, <1>3, <1>4, <1>5, LongerIncreases

LEMMA ResultTyped ==
  ASSUME StoreInv, package \in Packages, acc \in Seq(Known), AccKept
  PROVE  /\ Result \in Seq(Known) /\ Distinct(Result)
         /\ ToSet(Result) \subseteq Begun(package)
         /\ Listed(package) # {} => Result # <<>>
<1>1. CASE backend = "s3"
  <2>1. /\ Result = acc \o KeysLeft /\ Result \in Seq(Known) /\ KeysLeft \in Seq(Known)
        /\ \A i, j \in 1..Len(Result) : i < j => Result[i] < Result[j]
    BY <1>1, ResultIncreases, KeysLeftFacts
  <2>2. Distinct(Result)
    BY <2>1, IncreasingDistinct
  <2>3. ToSet(Result) = ToSet(acc) \cup ToSet(KeysLeft)
    BY <2>1, ToSetConcat
  <2>4. ToSet(KeysLeft) \subseteq Listed(package)
        /\ (acc = <<>> => Listed(package) \subseteq ToSet(KeysLeft))
    BY KeysLeftFacts
  <2>5. ToSet(Result) \subseteq Begun(package)
    BY <2>3, <2>4, ListedBegun DEF AccKept
  <2>6. acc # <<>> => ToSet(acc) # {}
    BY ToSetFacts
  <2>7. Result # <<>> \/ ToSet(Result) = {}
    BY <2>1, ToSetFacts
  <2>8. ToSet(Result) # {} => Result # <<>>
    BY DEF ToSet
  <2> QED
    BY <2>1, <2>2, <2>3, <2>4, <2>5, <2>6, <2>8
<1>2. CASE backend # "s3"
  <2>1. Result = List(package)
    BY <1>2 DEF Result
  <2>2. ToSet(Result) # {} => Result # <<>>
    BY DEF ToSet
  <2> QED
    BY <2>1, <2>2, ListTyped, ListedBegun DEF Listed
<1> QED
  BY <1>1, <1>2

----------------------------------------------------------------------------
(* Pages. *)

LEMMA ModFacts ==
  ASSUME NEW x \in Int, NEW m \in Nat \ {0}
  PROVE  /\ x % m \in 0..m - 1
         /\ 0 <= x /\ x < m => x % m = x
         /\ m <= x /\ x < m + m => x % m = x - m
OBVIOUS

LEMMA WrappedFacts ==
  ASSUME NEW n \in Int
  PROVE  /\ Wrapped(n) \in Int /\ Wrapped(n) <= MaxInt
         /\ 0 <= n /\ n <= MaxInt => Wrapped(n) = n
         /\ n > MaxInt /\ n <= MaxInt + MaxInt => Wrapped(n) < 0
<1> DEFINE m == 2 * (MaxInt + 1)
           x == n + MaxInt + 1
<1>1. MaxInt \in Nat /\ m \in Nat \ {0} /\ x \in Int /\ m = MaxInt + MaxInt + 2
  BY AskAssumption
<1>2. Wrapped(n) = (x % m) - (MaxInt + 1)
  BY DEF Wrapped
<1>3. /\ x % m \in 0..m - 1
      /\ 0 <= x /\ x < m => x % m = x
      /\ m <= x /\ x < m + m => x % m = x - m
  BY <1>1, ModFacts
<1>4. x = n + MaxInt + 1
  OBVIOUS
<1> DEFINE w == x % m
<1> HIDE DEF m, x, w
<1>5. /\ w \in 0..m - 1 /\ (0 <= x /\ x < m => w = x)
      /\ (m <= x /\ x < m + m => w = x - m) /\ Wrapped(n) = w - (MaxInt + 1)
  BY <1>2, <1>3 DEF w
<1> QED
  BY <1>1, <1>4, <1>5

\* The number of pages is rounded up.
LEMMA DivFacts ==
  ASSUME NEW l \in Nat, NEW k \in Nat \ {0}
  PROVE  /\ (l + k - 1) \div k \in Nat
         /\ (l + k - 1) \div k <= l
         /\ \A n \in Nat : n < (l + k - 1) \div k => n * k < l
         /\ \A n \in Nat : n >= (l + k - 1) \div k => n * k >= l
<1> DEFINE q == (l + k - 1) \div k
           r == (l + k - 1) % k
<1>1. q \in Int /\ r \in 0..k-1 /\ l + k - 1 = k * q + r
  OBVIOUS
<1> HIDE DEF q, r
<1>2. q >= 0
  <2> SUFFICES ASSUME q < 0 PROVE FALSE
    BY <1>1
  <2>1. k * q <= -k
    BY <1>1
  <2> QED
    BY <2>1, <1>1
<1>3. q <= l
  <2> SUFFICES ASSUME q > l PROVE FALSE
    BY <1>1
  <2>1. k * q >= k * (l + 1)
    BY <1>1
  <2>2. k * (l + 1) = k * l + k /\ k * l >= l
    OBVIOUS
  <2> QED
    BY <2>1, <2>2, <1>1
<1>4. ASSUME NEW n \in Nat, n < q PROVE n * k < l
  <2>1. k * (n + 1) <= k * q
    BY <1>1, <1>4
  <2>2. k * (n + 1) = n * k + k
    OBVIOUS
  <2> QED
    BY <2>1, <2>2, <1>1
<1>5. ASSUME NEW n \in Nat, n >= q PROVE n * k >= l
  <2>1. k * n >= k * q
    BY <1>1, <1>5
  <2>2. k * n = n * k
    OBVIOUS
  <2> QED
    BY <2>1, <2>2, <1>1
<1> QED
  BY <1>1, <1>2, <1>3, <1>4, <1>5 DEF q

LEMMA FirstFacts ==
  ASSUME NEW n \in Nat \ {0}, per \in Nat
  PROVE  /\ (n - 1) * per \in Nat
         /\ First(n) \in Int /\ First(n) <= MaxInt
         /\ (n - 1) * per <= MaxInt => First(n) = (n - 1) * per
<1>1. (n - 1) * per \in Nat
  OBVIOUS
<1> QED
  BY <1>1, WrappedFacts DEF First

LEMMA BeyondFacts ==
  ASSUME NEW n \in Nat \ {0}, per \in 0..MaxInt, NEW len \in Nat
  PROVE  /\ Beyond(n, len) \in Int /\ Beyond(n, len) <= len
         /\ (n - 1) * per <= MaxInt /\ First(n) < len =>
              \/ Beyond(n, len) < First(n)
              \/ Beyond(n, len) = IF n * per < len THEN n * per ELSE len
<1>0. MaxInt \in Nat /\ per \in Nat /\ per <= MaxInt
  BY AskAssumption
<1>1. First(n) \in Int /\ First(n) <= MaxInt
  BY <1>0, FirstFacts
<1> DEFINE last == Wrapped(First(n) + per)
<1>2. last \in Int
  BY <1>0, <1>1, WrappedFacts
<1>3. Beyond(n, len) = IF last < len THEN last ELSE len
  BY DEF Beyond
<1>4. ASSUME (n - 1) * per <= MaxInt, First(n) < len, ~(Beyond(n, len) < First(n))
      PROVE  last = n * per
  <2>1. First(n) = (n - 1) * per /\ First(n) \in Nat
    BY <1>0, <1>4, FirstFacts
  <2>2. n * per = First(n) + per
    <3>1. (n - 1) * per = n * per - per
      BY <1>0
    <3>2. n * per \in Int
      BY <1>0
    <3> QED
      BY <1>0, <2>1, <3>1, <3>2
  <2>3. last >= First(n)
    BY <1>1, <1>2, <1>3, <1>4
  <2>4. CASE First(n) + per <= MaxInt
    BY <1>0, <2>1, <2>2, <2>4, WrappedFacts
  <2>5. CASE First(n) + per > MaxInt
    <3>1. First(n) + per <= MaxInt + MaxInt /\ First(n) + per \in Int
      BY <1>0, <1>1
    <3>2. last < 0
      BY <2>5, <3>1, WrappedFacts
    <3> QED
      BY <3>2, <2>1, <2>3, <1>2
  <2> QED
    BY <2>1, <2>4, <2>5, <1>0
<1> HIDE DEF last
<1> QED
  BY <1>2, <1>3, <1>4

\* What is shown is in the list.
LEMMA OnPageTyped ==
  ASSUME NEW S, NEW s \in Seq(S), NEW n \in Nat \ {0}, per \in 0..MaxInt, ~Panics(n, s)
  PROVE  OnPage(n, s) \in Seq(S) /\ ToSet(OnPage(n, s)) \subseteq ToSet(s)
<1>0. MaxInt \in Nat /\ per \in Nat /\ Len(s) \in Nat
  BY AskAssumption, LenProperties
<1>1. First(n) \in Int /\ Beyond(n, Len(s)) \in Int /\ Beyond(n, Len(s)) <= Len(s)
  BY <1>0, FirstFacts, BeyondFacts
<1>2. CASE First(n) >= Len(s)
  BY <1>2, <1>0, <1>1 DEF OnPage, ToSet
<1>3. CASE First(n) < Len(s)
  <2> DEFINE a == First(n) + 1
             b == Beyond(n, Len(s))
  <2>1. First(n) >= 0
    BY <1>0, <1>1, <1>3 DEF Panics
  <2>2. a \in Int /\ b \in Int /\ a >= 1 /\ b <= Len(s)
    BY <1>1, <2>1
  <2>3. OnPage(n, s) = SubSeq(s, a, b)
    BY <1>0, <1>1, <1>3 DEF OnPage
  <2> HIDE DEF a, b
  <2>4. \A i \in a..b : i \in 1..Len(s) /\ s[i] \in S
    BY <2>2, <1>0, ElementOfSeq
  <2>5. /\ SubSeq(s, a, b) \in Seq(S)
        /\ Len(SubSeq(s, a, b)) = IF a <= b THEN b - a + 1 ELSE 0
        /\ \A i \in 1..b - a + 1 : SubSeq(s, a, b)[i] = s[a + i - 1]
    BY <2>2, <2>4, SubSeqProperties
  <2>6. ASSUME NEW i \in 1..Len(SubSeq(s, a, b)) PROVE SubSeq(s, a, b)[i] \in ToSet(s)
    <3>1. i \in 1..b - a + 1 /\ a + i - 1 \in 1..Len(s)
      BY <2>2, <2>5, <1>0
    <3>2. SubSeq(s, a, b)[i] = s[a + i - 1]
      BY <2>5, <3>1
    <3> QED
      BY <3>1, <3>2, ToSetFacts
  <2>7. \A x \in ToSet(SubSeq(s, a, b)) : \E i \in 1..Len(SubSeq(s, a, b)) :
          SubSeq(s, a, b)[i] = x
    BY <2>5, ToSetFacts
  <2> QED
    BY <2>3, <2>5, <2>6, <2>7
<1> QED
  BY <1>0, <1>1, <1>2, <1>3

\* A place after those of the pages before is shown or is after this page too.
LEMMA OnPageShows ==
  ASSUME NEW S, NEW s \in Seq(S), NEW n \in Nat \ {0}, per \in 0..MaxInt, ~Panics(n, s),
         (n - 1) * per <= MaxInt, NEW i \in 1..Len(s), i > (n - 1) * per
  PROVE  s[i] \in ToSet(OnPage(n, s)) \/ i > n * per
<1>0. MaxInt \in Nat /\ per \in Nat /\ Len(s) \in Nat
  BY AskAssumption, LenProperties
<1> DEFINE a == First(n) + 1
           b == Beyond(n, Len(s))
<1>1. First(n) = (n - 1) * per /\ First(n) \in Nat
  BY <1>0, FirstFacts
<1>2. First(n) < Len(s)
  BY <1>0, <1>1
<1>3. ~(b < First(n))
  BY <1>2 DEF Panics
<1>4. b = IF n * per < Len(s) THEN n * per ELSE Len(s)
  BY <1>0, <1>2, <1>3, BeyondFacts
<1>5. n * per \in Nat
  BY <1>0
<1>6. OnPage(n, s) = SubSeq(s, a, b)
  <2>1. ~(First(n) >= Len(s))
    BY <1>0, <1>1, <1>2
  <2> QED
    BY <2>1 DEF OnPage
<1>7. a \in Int /\ b \in Int /\ a >= 1 /\ b <= Len(s) /\ i >= a
  BY <1>0, <1>1, <1>4, <1>5
<1>8. i <= b \/ i > n * per
  BY <1>0, <1>4, <1>5
<1> HIDE DEF a, b
<1>9. ASSUME i <= b PROVE s[i] \in ToSet(SubSeq(s, a, b))
  <2>1. \A k \in a..b : k \in 1..Len(s) /\ s[k] \in S
    BY <1>7, <1>0, ElementOfSeq
  <2>2. /\ SubSeq(s, a, b) \in Seq(S)
        /\ Len(SubSeq(s, a, b)) = IF a <= b THEN b - a + 1 ELSE 0
        /\ \A k \in 1..b - a + 1 : SubSeq(s, a, b)[k] = s[a + k - 1]
    BY <1>7, <2>1, SubSeqProperties
  <2>3. a <= b /\ i - a + 1 \in 1..b - a + 1 /\ a + (i - a + 1) - 1 = i
    BY <1>7, <1>9
  <2>4. SubSeq(s, a, b)[i - a + 1] = s[i] /\ i - a + 1 \in 1..Len(SubSeq(s, a, b))
    BY <2>2, <2>3
  <2>5. \A x : x \in ToSet(SubSeq(s, a, b)) <=>
                  \E k \in 1..Len(SubSeq(s, a, b)) : SubSeq(s, a, b)[k] = x
    BY <2>2, ToSetFacts
  <2> QED
    BY <2>4, <2>5
<1> QED
  BY <1>6, <1>8, <1>9

LEMMA PagesFacts ==
  ASSUME NEW S, NEW s \in Seq(S), per \in Nat \ {0}, NEW n \in Nat
  PROVE  /\ TotalPages(s) \in Nat /\ TotalPages(s) <= Len(s)
         /\ n < TotalPages(s) => n * per < Len(s)
         /\ n >= TotalPages(s) => n * per >= Len(s)
<1>1. Len(s) \in Nat
  BY LenProperties
<1> QED
  BY <1>1, DivFacts DEF TotalPages

\* A page after the last.
LEMMA BeyondTheEnd ==
  ASSUME NEW S, NEW s \in Seq(S), per \in Nat \ {0}, NEW n \in Nat \ {0}, n > Len(s),
         ~Overflows(n * per)
  PROVE  OnPage(n, s) = <<>> /\ ~Panics(n, s) /\ ~(n < TotalPages(s))
<1>0. MaxInt \in Nat /\ Len(s) \in Nat
  BY AskAssumption, LenProperties
<1>1. n * per \in Nat /\ (n - 1) * per \in Nat /\ (n - 1) * per = n * per - per
  OBVIOUS
<1>2. n * per <= MaxInt
  BY <1>1, WrappedFacts DEF Overflows
<1>3. (n - 1) * per <= MaxInt
  BY <1>0, <1>1, <1>2
<1>4. First(n) = (n - 1) * per
  BY <1>3, FirstFacts
<1>5. (n - 1) * per >= n - 1
  OBVIOUS
<1>6. First(n) >= Len(s)
  BY <1>0, <1>1, <1>4, <1>5
<1>7. ~(First(n) < Len(s))
  BY <1>0, <1>1, <1>4, <1>6
<1>8. ~(n < TotalPages(s))
  BY <1>0, PagesFacts
<1> QED
  BY <1>6, <1>7, <1>8 DEF OnPage, Panics

----------------------------------------------------------------------------
(* Types, and where requests are. *)

LEMMA TypeParts ==
  TypeOK <=> /\ StoreTypeOK /\ ClientTypeOK /\ HistoryTypeOK /\ WorkTypeOK
BY DEF TypeOK, StoreTypeOK, ClientTypeOK, HistoryTypeOK, WorkTypeOK

RequestInv == StoreInv /\ ClientTypeOK /\ AskKept /\ AccKept

LEMMA AskFacts ==
  ASSUME NEW ask \in Asks
  PROVE  /\ ask.kind \in {"pages", "links", "collection", "scope"}
         /\ ask.package \in Packages /\ ask.per \in 0..MaxInt /\ ask.page \in 1..MaxInt
         /\ ask.per = 0 => ask.page = 1
         /\ ask.kind # "pages" => ask.per = 0
BY AskAssumption

LEMMA ListReleasesCases ==
  ASSUME ListReleases
  PROVE  /\ pc = "list" /\ UNCHANGED <<store, asked, first, faults, history>>
         /\ \/ /\ backend = "s3" /\ Len(KeysLeft) > KeysPerPage
               /\ acc' = acc \o SubSeq(KeysLeft, 1, KeysPerPage)
               /\ UNCHANGED <<pc, page, current, elements, seen, status>>
            \/ \E s : /\ s = SortFunc(ListLess, Result)
                      /\ acc' = <<>> /\ elements' = s
                      /\ \/ /\ s = <<>> /\ pc' = "done" /\ status' = "notfound"
                            /\ UNCHANGED <<page, current, seen>>
                         \/ s # <<>> /\ kind = "pages" /\ AnswerPage(s)
                         \/ s # <<>> /\ kind # "pages" /\ AnswerLink(s)
<1>1. pc = "list" /\ UNCHANGED <<store, asked, first, faults, history>>
  BY DEF ListReleases
<1>2. CASE backend = "s3" /\ Len(KeysLeft) > KeysPerPage
  BY <1>1, <1>2 DEF ListReleases
<1>3. CASE ~(backend = "s3" /\ Len(KeysLeft) > KeysPerPage)
  <2>1. Answer(Result)
    BY <1>3 DEF ListReleases, Result
  <2>2. PICK s : /\ s = SortFunc(ListLess, Result)
                 /\ acc' = <<>> /\ elements' = s
                 /\ IF s = <<>>
                    THEN End("notfound") /\ UNCHANGED <<page, current, seen>>
                    ELSE IF kind = "pages" THEN AnswerPage(s) ELSE AnswerLink(s)
    BY <2>1 DEF Answer
  <2> QED
    BY <1>1, <2>2 DEF End
<1> QED
  BY <1>2, <1>3

\* The list an answer is made from.
LEMMA ReleasesFacts ==
  ASSUME RequestInv, package \in Packages, NEW s, s = SortFunc(ListLess, Result)
  PROVE  /\ s \in Seq(Known) /\ Distinct(s)
         /\ Len(s) \in Nat /\ Len(s) <= Cardinality(Releases) /\ Len(s) <= MaxInt
         /\ ToSet(s) = ToSet(Result) /\ ToSet(s) \subseteq Begun(package)
         /\ Listed(package) # {} => s # <<>>
<1>1. /\ Result \in Seq(Known) /\ Distinct(Result)
      /\ ToSet(Result) \subseteq Begun(package)
      /\ Listed(package) # {} => Result # <<>>
  BY ResultTyped DEF RequestInv, ClientTypeOK
<1>2. s \in Seq(Known) /\ Distinct(s) /\ Len(s) = Len(Result)
  BY <1>1, SortTyped, SortDistinct
<1>3. ToSet(s) = ToSet(Result)
  BY <1>1, SortKeeps
<1>4. Len(s) \in Nat /\ Len(s) <= Cardinality(Releases) /\ Len(s) <= MaxInt
  BY <1>1, <1>2, <1>3, ListBound
<1>5. Result # <<>> => s # <<>>
  BY <1>1, <1>2, EmptySeq
<1> QED
  BY <1>1, <1>2, <1>3, <1>4, <1>5

LEMMA AnswerPageTypes ==
  ASSUME RequestInv, NEW s \in Seq(Known), Len(s) <= MaxInt, AnswerPage(s)
  PROVE  /\ page' \in 1..MaxInt /\ seen' \subseteq Known
         /\ UNCHANGED current /\ pc' \in {"list", "done"} /\ status' \in Ends
         /\ pc' = "list" => status' = status /\ page' = page + 1
<1> USE DEF RequestInv, ClientTypeOK
<1>0. Len(s) \in Nat /\ MaxInt \in Nat /\ ToSet(s) \subseteq Known
  BY LenProperties, AskAssumption, ToSetFacts
<1>1. CASE per = 0 /\ seen' = ToSet(s) /\ End("complete") /\ UNCHANGED <<page, current>>
  BY <1>0, <1>1 DEF End, Ends
<1>2. CASE per > 0 /\ End("panic") /\ UNCHANGED <<page, current, seen>>
  BY <1>2 DEF End, Ends
<1>3. CASE /\ per > 0 /\ ~Panics(page, s)
           /\ seen' = seen \cup ToSet(OnPage(page, s))
           /\ IF page < TotalPages(s) THEN page' = page + 1 /\ Again("list")
              ELSE End("complete") /\ UNCHANGED page
           /\ UNCHANGED current
  <2>1. ToSet(OnPage(page, s)) \subseteq Known
    BY <1>0, <1>3, OnPageTyped
  <2>2. TotalPages(s) \in Nat /\ TotalPages(s) <= Len(s)
    BY <1>0, <1>3, PagesFacts
  <2>3. page' \in 1..MaxInt
    BY <1>0, <1>3, <2>2
  <2> QED
    BY <1>3, <2>1, <2>3 DEF End, Again, Ends
<1> QED
  BY <1>1, <1>2, <1>3 DEF AnswerPage

LEMMA AnswerLinkTypes ==
  ASSUME RequestInv, NEW s \in Seq(Known), Distinct(s), AnswerLink(s)
  PROVE  /\ current' \in Known \cup {NoVersion} /\ seen' \subseteq Known
         /\ UNCHANGED page /\ pc' \in {"exists", "done"} /\ status' \in Ends
         /\ pc' = "exists" => current' \in Known /\ status' = status
         /\ pc' = "done" => current' = current
<1> USE DEF RequestInv, ClientTypeOK
<1> DEFINE here == {i \in 1..Len(s) : s[i] = current}
           next == IF current = NoVersion THEN {1} ELSE {i + 1 : i \in here}
<1>1. /\ seen' = seen \cup ({current} \ {NoVersion}) /\ UNCHANGED page
      /\ IF next \cap 1..Len(s) = {} THEN End("complete") /\ UNCHANGED current
         ELSE (\E i \in next : current' = s[i]) /\ Again("exists")
  BY DEF AnswerLink
<1>2. CASE next \cap 1..Len(s) = {}
  BY <1>1, <1>2 DEF End, Ends
<1>3. CASE next \cap 1..Len(s) # {}
  <2>1. PICK j \in next : j \in 1..Len(s)
    BY <1>3
  <2>2. \A i, k \in here : i = k
    BY DistinctPlaces
  <2>3. \A i \in next : i = j
    BY <2>2
  <2>4. current' = s[j] /\ Again("exists")
    BY <1>1, <1>3, <2>3
  <2>5. s[j] \in Known
    BY <2>1, ElementOfSeq
  <2> QED
    BY <1>1, <2>4, <2>5 DEF Again
<1> QED
  BY <1>2, <1>3

LEMMA KeysTyped ==
  ASSUME RequestInv, package \in Packages, Len(KeysLeft) > KeysPerPage
  PROVE  /\ SubSeq(KeysLeft, 1, KeysPerPage) \in Seq(Known)
         /\ Len(SubSeq(KeysLeft, 1, KeysPerPage)) = KeysPerPage
         /\ \A i \in 1..KeysPerPage :
              i \in 1..Len(KeysLeft) /\ SubSeq(KeysLeft, 1, KeysPerPage)[i] = KeysLeft[i]
<1>1. KeysLeft \in Seq(Known) /\ KeysPerPage \in Nat \ {0} /\ Len(KeysLeft) \in Nat
  BY KeysLeftFacts, AskAssumption, LenProperties DEF RequestInv, ClientTypeOK
<1>2. \A i \in 1..KeysPerPage : i \in 1..Len(KeysLeft) /\ KeysLeft[i] \in Known
  BY <1>1, ElementOfSeq
<1>3. /\ SubSeq(KeysLeft, 1, KeysPerPage) \in Seq(Known)
      /\ Len(SubSeq(KeysLeft, 1, KeysPerPage))
           = IF 1 <= KeysPerPage THEN KeysPerPage - 1 + 1 ELSE 0
      /\ \A i \in 1..KeysPerPage - 1 + 1 :
           SubSeq(KeysLeft, 1, KeysPerPage)[i] = KeysLeft[1 + i - 1]
  BY <1>1, <1>2, SubSeqProperties
<1> QED
  BY <1>1, <1>2, <1>3

\* The client's state after an answer of the list.
LEMMA ListReleasesTypes ==
  ASSUME RequestInv, ListReleases
  PROVE  ClientTypeOK' /\ AskKept'
<1> USE DEF RequestInv, ClientTypeOK, AskKept
<1>1. /\ pc = "list" /\ UNCHANGED <<store, asked, first, faults, history>>
      /\ package \in Packages /\ kind \in {"pages", "links"}
  BY ListReleasesCases DEF AtList
<1>2. UNCHANGED <<kind, package, per, first, faults>>
  BY <1>1 DEF asked
<1>3. CASE /\ Len(KeysLeft) > KeysPerPage
           /\ acc' = acc \o SubSeq(KeysLeft, 1, KeysPerPage)
           /\ UNCHANGED <<pc, page, current, elements, seen, status>>
  <2>1. acc' \in Seq(Known)
    BY <1>1, <1>3, KeysTyped, ConcatProperties
  <2> QED
    BY <1>1, <1>2, <1>3, <2>1 DEF AtList, AtCollect
<1>4. ASSUME NEW s, s = SortFunc(ListLess, Result), acc' = <<>>, elements' = s,
             \/ /\ s = <<>> /\ pc' = "done" /\ status' = "notfound"
                /\ UNCHANGED <<page, current, seen>>
             \/ s # <<>> /\ kind = "pages" /\ AnswerPage(s)
             \/ s # <<>> /\ kind # "pages" /\ AnswerLink(s)
      PROVE  ClientTypeOK' /\ AskKept'
  <2>1. s \in Seq(Known) /\ Distinct(s) /\ Len(s) <= MaxInt
    BY <1>1, <1>4, ReleasesFacts
  <2>2. acc' \in Seq(Known) /\ elements' \in Seq(Known)
    BY <1>4, <2>1
  <2>3. CASE /\ pc' = "done" /\ status' = "notfound"
             /\ UNCHANGED <<page, current, seen>>
    BY <1>1, <1>2, <2>2, <2>3 DEF AtList, AtCollect, Labels, Ends
  <2>4. CASE kind = "pages" /\ AnswerPage(s)
    <3>1. /\ page' \in 1..MaxInt /\ seen' \subseteq Known
          /\ UNCHANGED current /\ pc' \in {"list", "done"} /\ status' \in Ends
      BY <2>1, <2>4, AnswerPageTypes
    <3> QED
      BY <1>1, <1>2, <2>2, <2>4, <3>1 DEF AtList, AtCollect, Labels
  <2>5. CASE kind # "pages" /\ AnswerLink(s)
    <3>1. /\ current' \in Known \cup {NoVersion} /\ seen' \subseteq Known
          /\ UNCHANGED page /\ pc' \in {"exists", "done"} /\ status' \in Ends
          /\ pc' = "exists" => current' \in Known
      BY <2>1, <2>5, AnswerLinkTypes
    <3>2. \A v \in Known : v # NoVersion
      BY KnownAssumption DEF NoVersion
    <3> QED
      BY <1>1, <1>2, <2>2, <2>5, <3>1, <3>2 DEF AtList, AtCollect, Labels
  <2> QED
    BY <1>4, <2>3, <2>4, <2>5
<1> QED
  BY <1>3, <1>4, ListReleasesCases

LEMMA PublishingCases ==
  ASSUME Publishing
  PROVE  /\ \E r \in Releases : PublishAct(r)
         /\ pc # "done" /\ UNCHANGED <<asked, walk, failed, firm, blind, work>>
         /\ Observe /\ whole' = whole \cap Whole' /\ gone' = gone \cap Gone'
BY DEF Publishing, PublishStep, PublishAct

LEMMA PublishFaults ==
  ASSUME NEW r, PublishAct(r)
  PROVE  faults' = faults \/ Fault
<1>1. CASE StoreArchive(r) \/ LeaveParts(r)
  BY <1>1 DEF StoreArchive, LeaveParts
<1>2. CASE UpdateMetadata(r) \/ DeleteIndex(r) \/ WriteIndex(r)
  BY <1>2 DEF UpdateMetadata, DeleteIndex, WriteIndex
<1>3. CASE ExtractManifestFile(r) \/ Keep(r)
  BY <1>3 DEF ExtractManifestFile, Keep
<1>4. CASE Refuse(r) \/ Conflict(r)
  BY <1>4 DEF Refuse, Conflict
<1>5. CASE RemoveNext(r)
  BY <1>5 DEF RemoveNext
<1> QED
  BY <1>1, <1>2, <1>3, <1>4, <1>5 DEF PublishAct

LEMMA FaultTyped ==
  ASSUME faults \in 0..MaxFaults, faults' = faults \/ Fault
  PROVE  faults' \in 0..MaxFaults
BY BoundAssumption DEF Fault

LEMMA StoreIsKept ==
  ASSUME StoreInv, [Next]_allVars
  PROVE  /\ StoreInv'
         /\ backend' = backend /\ (spoilt => spoilt')
         /\ folders \subseteq folders'
         /\ \A r \in Releases : Held(r) => Held(r)'
         /\ \A p : Begun(p) \subseteq Begun(p)'
<1>1. CASE Publishing
  <2>1. PICK r \in Releases : PublishAct(r)
    BY <1>1, PublishingCases
  <2>2. StoreInv'
    BY <2>1, StoreStays
  <2>3. \A q \in Releases : Held(q) => Held(q)'
    BY <2>1, HeldStays
  <2>4. /\ backend' = backend /\ (spoilt => spoilt') /\ folders \subseteq folders'
        /\ \A q \in Releases : stage[q] # "none" => stage'[q] # "none"
    BY <2>1, PublishKeeps
  <2> QED
    BY <2>2, <2>3, <2>4 DEF Begun
<1>2. CASE UNCHANGED store
  <2>1. StoreInv'
    BY <1>2, StoreUntouched
  <2>2. UNCHANGED <<backend, spoilt, folders, stage, files, cleanup>>
    BY <1>2 DEF store
  <2> QED
    BY <2>1, <2>2 DEF Held, Begun
<1>3. Publishing \/ UNCHANGED store
  <2>1. Walking => UNCHANGED store
    BY DEF Walking, WalkStep, Begin, ListReleases, ListFails, CheckArchive
  <2>2. CollectStep => UNCHANGED store
    <3>1. Apart => UNCHANGED store
      BY DEF Apart
    <3>2. (Collect \/ ListScopes \/ ListInScope \/ ListPackage \/ ScopeListed)
            => UNCHANGED store
      BY <3>1 DEF Collect, ListScopes, ListInScope, ListPackage, ScopeListed
    <3>3. (AllListed \/ BuildPackage \/ LoadPackageJson \/ GetSwiftToolVersion \/ AllBuilt)
            => UNCHANGED store
      BY <3>1 DEF AllListed, BuildPackage, LoadPackageJson, GetSwiftToolVersion, AllBuilt
    <3> QED
      BY <3>2, <3>3 DEF CollectStep
  <2>3. Finished \/ UNCHANGED allVars => UNCHANGED store
    BY DEF Finished, allVars, vars
  <2> QED
    BY <2>1, <2>2, <2>3 DEF Next
<1> QED
  BY <1>1, <1>2, <1>3

\* A step of the storage leaves what the client is at as it is.
LEMMA RequestSame ==
  ASSUME RequestInv, StoreInv', UNCHANGED <<kind, package, per, pc, page, first, current, acc,
                                 elements, seen, status, backend>>,
         faults' = faults \/ Fault, \A p : Begun(p) \subseteq Begun(p)'
  PROVE  RequestInv'
<1>1. ClientTypeOK'
  BY FaultTyped DEF RequestInv, ClientTypeOK
<1>2. AskKept'
  BY DEF RequestInv, AskKept, AtList, AtCollect
<1>3. AccKept'
  <2>1. Begun(package) \subseteq (Begun(package))'
    OBVIOUS
  <2> QED
    BY <2>1 DEF RequestInv, AccKept
<1> QED
  BY <1>1, <1>2, <1>3 DEF RequestInv

\* A step that is not the list's answer leaves what is listed as it is.
LEMMA RequestMoves ==
  ASSUME RequestInv, StoreInv',
         pc' \in Labels \ {"idle"}, status' \in Ends, faults' = faults \/ Fault,
         pc # "idle", UNCHANGED <<kind, package, per, page, first, current, acc, elements, seen,
                     backend, stage>>,
         pc' # "exists",
         AtList' => AtList, AtCollect' => AtCollect,
         pc = "list" => pc' \in {"list", "done"}
  PROVE  RequestInv'
<1>1. ClientTypeOK'
  BY FaultTyped DEF RequestInv, ClientTypeOK
<1>2. AskKept'
  BY DEF RequestInv, AskKept
<1>3. AccKept'
  <2>1. Begun(package)' = Begun(package)
    BY DEF Begun
  <2>2. pc \in {"list", "done"} => pc' \in {"list", "done"}
    BY DEF AtList, AtCollect, Labels
  <2> QED
    BY <2>1, <2>2 DEF RequestInv, AccKept
<1> QED
  BY <1>1, <1>2, <1>3 DEF RequestInv

LEMMA ListReleasesAcc ==
  ASSUME RequestInv, ListReleases
  PROVE  AccKept'
<1>1. /\ pc = "list" /\ UNCHANGED <<store, asked, first, faults, history>>
      /\ package \in Packages /\ acc \in Seq(Known)
  BY ListReleasesCases DEF RequestInv, AskKept, ClientTypeOK
<1>2. backend' = backend /\ package' = package /\ Begun(package)' = Begun(package)
  BY <1>1 DEF store, asked, Begun
<1>3. CASE acc' = <<>>
  BY <1>3 DEF AccKept, ToSet
<1>4. CASE /\ backend = "s3" /\ Len(KeysLeft) > KeysPerPage
           /\ acc' = acc \o SubSeq(KeysLeft, 1, KeysPerPage)
           /\ UNCHANGED <<pc, page, current, elements, seen, status>>
  <2> DEFINE t == SubSeq(KeysLeft, 1, KeysPerPage)
  <2>1. /\ t \in Seq(Known) /\ Len(t) = KeysPerPage
        /\ \A i \in 1..KeysPerPage : i \in 1..Len(KeysLeft) /\ t[i] = KeysLeft[i]
    BY <1>1, <1>4, KeysTyped
  <2>2. /\ KeysLeft \in Seq(Known)
        /\ \A i, j \in 1..Len(KeysLeft) : i < j => KeysLeft[i] < KeysLeft[j]
        /\ \A v : v \in ToSet(KeysLeft) <=>
                    v \in Listed(package) /\ (acc = <<>> \/ v > Last(acc))
    BY <1>1, KeysLeftFacts DEF RequestInv
  <2>3. \A i \in 1..Len(KeysLeft) : KeysLeft[i] \in ToSet(KeysLeft)
    BY <2>2, ToSetFacts
  <2> HIDE DEF t
  <2>4. \A i, j \in 1..Len(acc) : i < j => acc[i] < acc[j]
    BY DEF RequestInv, AccKept
  <2>5. \A i, j \in 1..Len(t) : i < j => t[i] < t[j]
    BY <2>1, <2>2
  <2>6. \A i \in 1..Len(t) : acc = <<>> \/ t[i] > acc[Len(acc)]
    BY <2>1, <2>2, <2>3 DEF Last
  <2>7. \A i, j \in 1..Len(acc \o t) : i < j => (acc \o t)[i] < (acc \o t)[j]
    BY <1>1, <2>1, <2>4, <2>5, <2>6, LongerIncreases
  <2>8. ToSet(t) \subseteq Begun(package)
    <3>1. \A v \in ToSet(t) : \E i \in 1..Len(t) : t[i] = v
      BY <2>1, ToSetFacts
    <3>2. \A v \in ToSet(t) : v \in Listed(package)
      BY <2>1, <2>2, <2>3, <3>1
    <3> QED
      BY <3>2, <1>1, ListedBegun DEF RequestInv
  <2>9. ToSet(acc \o t) = ToSet(acc) \cup ToSet(t)
    BY <1>1, <2>1, ToSetConcat
  <2>10. acc' = acc \o t /\ pc' = "list" /\ backend' = "s3"
    BY <1>1, <1>2, <1>4 DEF t
  <2>11. ToSet(acc) \subseteq Begun(package)
    BY DEF RequestInv, AccKept
  <2> QED
    BY <1>2, <2>7, <2>8, <2>9, <2>10, <2>11 DEF AccKept
<1> QED
  BY <1>3, <1>4, ListReleasesCases

\* A request that begins.
LEMMA AskTypes ==
  ASSUME RequestInv, StoreInv', NEW ask \in Asks, Ask(ask), faults' = faults,
         UNCHANGED <<backend, stage, current, acc, elements, seen, status>>,
         \/ ask.kind \in {"pages", "links"} /\ pc' = "list"
         \/ ask.kind \in {"collection", "scope"} /\ pc' \in {"scopes", "scope"}
  PROVE  RequestInv'
<1>1. /\ ask.kind \in {"pages", "links", "collection", "scope"}
      /\ ask.package \in Packages /\ ask.per \in 0..MaxInt /\ ask.page \in 1..MaxInt
      /\ ask.per = 0 => ask.page = 1
      /\ ask.kind # "pages" => ask.per = 0
  BY AskFacts
<1>2. /\ pc = "idle" /\ kind' = ask.kind /\ package' = ask.package
      /\ per' = ask.per /\ page' = ask.page /\ first' = ask.page
  BY DEF Ask
<1>3. ClientTypeOK'
  BY <1>1, <1>2 DEF RequestInv, ClientTypeOK, Labels
<1>4. acc = <<>> /\ (current # NoVersion => kind = "links")
  BY <1>2 DEF RequestInv, AccKept, AskKept
<1>5. AccKept'
  BY <1>4 DEF AccKept, ToSet
<1>6. AskKept'
  <2>1. current = NoVersion
    BY <1>2 DEF RequestInv, AskKept
  <2> QED
    BY <2>1, <1>1, <1>2 DEF AskKept, AtList, AtCollect
<1> QED
  BY <1>3, <1>5, <1>6 DEF RequestInv

LEMMA RequestStays ==
  ASSUME RequestInv, [Next]_allVars
  PROVE  RequestInv'
<1>0. StoreInv' /\ backend' = backend /\ \A p : Begun(p) \subseteq Begun(p)'
  BY StoreIsKept DEF RequestInv
<1>1. CASE Publishing
  <2>1. PICK r \in Releases : PublishAct(r)
    BY <1>1, PublishingCases
  <2>2. UNCHANGED <<asked, walk>>
    BY <1>1, PublishingCases
  <2> QED
    BY <1>0, <2>1, <2>2, PublishFaults, RequestSame DEF asked, walk
<1>2. CASE Begin
  <2>1. PICK ask \in Asks : ask.kind \in {"pages", "links"} /\ Ask(ask)
    BY <1>2 DEF Begin
  <2>2. pc' = "list" /\ UNCHANGED <<backend, stage, current, acc, elements, seen, status, faults>>
    BY <1>2 DEF Begin, Again, store
  <2> QED
    BY <1>0, <2>1, <2>2, AskTypes
<1>3. CASE ListReleases
  BY <1>0, <1>3, ListReleasesTypes, ListReleasesAcc DEF RequestInv
<1>4. CASE ListFails
  <2>1. /\ pc = "list" /\ Fault /\ pc' = "done" /\ status' \in Ends
        /\ UNCHANGED <<kind, package, per, page, first, current, acc, elements, seen,
                       backend, stage>>
    BY <1>4 DEF ListFails, End, Ends, asked, store
  <2> QED
    BY <1>0, <2>1, RequestMoves DEF Labels, AtList, AtCollect
<1>5. CASE CheckArchive
  <2>1. /\ pc = "exists" /\ (faults' = faults \/ Fault)
        /\ pc' \in {"list", "done"} /\ (status' = status \/ status' \in Ends)
        /\ UNCHANGED <<kind, package, per, page, first, current, acc, elements, seen,
                       backend, stage>>
    BY <1>5 DEF CheckArchive, End, Again, Ends, asked, store
  <2>2. status' \in Ends
    BY <2>1 DEF RequestInv, ClientTypeOK
  <2> QED
    BY <1>0, <2>1, <2>2, RequestMoves DEF Labels, AtList, AtCollect
<1>6. CASE Collect
  <2>1. PICK ask \in Asks : ask.kind \in {"collection", "scope"} /\ Ask(ask)
    BY <1>6 DEF Collect
  <2>2. pc' \in {"scopes", "scope"}
        /\ UNCHANGED <<backend, stage, current, acc, elements, seen, status, faults>>
    BY <1>6 DEF Collect, Again, store
  <2> QED
    BY <1>0, <2>1, <2>2, AskTypes
<1>7. ASSUME pc \in {"scopes", "scope", "package", "build", "tools"},
             pc' \in {"scopes", "scope", "package", "build", "tools", "done"},
             status' = status \/ status' \in Ends, faults' = faults \/ Fault, Apart
      PROVE  RequestInv'
  <2>1. UNCHANGED <<kind, package, per, page, first, current, acc, elements, seen,
                    backend, stage>>
    BY <1>7 DEF Apart, asked, store
  <2>2. status' \in Ends
    BY <1>7 DEF RequestInv, ClientTypeOK
  <2> QED
    BY <1>0, <1>7, <2>1, <2>2, RequestMoves DEF Labels, AtList, AtCollect
<1>8. CASE ListScopes \/ ListInScope
  BY <1>7, <1>8 DEF ListScopes, ListInScope, Looking, Failing, Again, End, Ends
<1>9. CASE ListPackage \/ ScopeListed
  BY <1>7, <1>9 DEF ListPackage, ScopeListed, Working, Failing, Again
<1>10. CASE AllListed \/ BuildPackage
  BY <1>7, <1>10 DEF AllListed, BuildPackage, Working, Again, End, Ends
<1>11. CASE LoadPackageJson
  BY <1>7, <1>11 DEF LoadPackageJson, Working, Failing, Again
<1>12. CASE GetSwiftToolVersion \/ AllBuilt
  BY <1>7, <1>12 DEF GetSwiftToolVersion, AllBuilt, Working, Failing, Again, End, Ends
<1>13. CASE Finished \/ UNCHANGED allVars
  <2>1. UNCHANGED <<kind, package, per, pc, page, first, current, acc, elements, seen,
                    status, backend, faults>>
    BY <1>13 DEF Finished, allVars, vars, asked, walk, store
  <2> QED
    BY <1>0, <2>1, RequestSame
<1> QED
  BY <1>1, <1>2, <1>3, <1>4, <1>5, <1>6, <1>8, <1>9, <1>10, <1>11, <1>12, <1>13
     DEF Next, Walking, WalkStep, CollectStep

\* What is known of every listing, of this state and of the next.
Lists ==
  \A p \in Packages : /\ List(p) \in Seq(Known) /\ Distinct(List(p))
                      /\ Listed(p) \subseteq Known /\ Listed(p) \subseteq Begun(p)

LEMMA ListsNow == StoreInv => Lists
<1> SUFFICES ASSUME StoreInv PROVE Lists
  OBVIOUS
<1> SUFFICES ASSUME NEW p \in Packages
             PROVE  /\ List(p) \in Seq(Known) /\ Distinct(List(p))
                    /\ Listed(p) \subseteq Known /\ Listed(p) \subseteq Begun(p)
  BY DEF Lists
<1>1. List(p) \in Seq(Known) /\ Distinct(List(p))
  BY ListTyped
<1>2. Listed(p) \subseteq Known
  BY <1>1, ToSetFacts DEF Listed
<1>3. Listed(p) \subseteq Begun(p)
  BY ListedBegun
<1> QED
  BY <1>1, <1>2, <1>3

LEMMA ListsNext == StoreInv' => Lists'
BY ListsNow, PTL

LEMMA HistoryTypes ==
  ASSUME RequestInv, RequestInv', HistoryTypeOK, [Next]_allVars
  PROVE  HistoryTypeOK'
<1> USE DEF HistoryTypeOK
<1>1. pc' # "idle" => package' \in Packages /\ (Listed(package))' \subseteq Known
  BY ListsNext DEF RequestInv, AskKept, Lists
<1>2. CASE Publishing
  <2>1. UNCHANGED <<asked, walk, failed, firm, blind>> /\ Observe
        /\ whole' \subseteq whole /\ gone' \subseteq gone
    BY <1>2, PublishingCases
  <2>2. steady' \subseteq Known /\ vanished' \in BOOLEAN /\ odd' \in BOOLEAN
    <3>1. CASE pc = "idle" \/ kind \notin {"pages", "links"}
      BY <2>1, <3>1 DEF Observe
    <3>2. CASE ~(pc = "idle" \/ kind \notin {"pages", "links"})
      BY <2>1, <3>2 DEF Observe
    <3> QED
      BY <3>1, <3>2
  <2> QED
    BY <2>1, <2>2
<1>3. CASE Begin /\ UNCHANGED <<work, whole, gone>>
  <2>1. PICK ask \in Asks : Ask(ask)
    BY <1>3 DEF Begin
  <2>2. firm' \subseteq Releases
    BY <2>1 DEF Ask
  <2>3. steady' \subseteq Known
    BY <1>1, <1>3 DEF Begin, Again, Listed, List, Stored, store, catalog
  <2>4. vanished' \in BOOLEAN /\ UNCHANGED <<failed, blind, whole, gone>>
    BY <1>3 DEF Begin
  <2>5. odd' \in BOOLEAN
    BY <1>3, Zenon DEF Begin
  <2> QED
    BY <2>2, <2>3, <2>4, <2>5
<1>4. CASE /\ ListReleases \/ ListFails \/ CheckArchive
           /\ UNCHANGED <<work, whole, gone>>
  <2>1. UNCHANGED <<firm, steady, vanished, odd, blind>> /\ failed' \in BOOLEAN
    BY <1>4 DEF ListFails, CheckArchive, ListReleases, history
  <2> QED
    BY <1>4, <2>1
<1>5. CASE Collect
  <2>1. PICK ask \in Asks : Ask(ask)
    BY <1>5 DEF Collect
  <2>2. firm' \subseteq Releases /\ whole' \subseteq Releases /\ gone' \subseteq Releases
    BY <1>5, <2>1 DEF Ask, Collect, Whole, Gone
  <2> QED
    BY <1>5, <2>2 DEF Collect
<1>6. CASE Working /\ Apart
  BY <1>6 DEF Working, Apart, history
<1>7. CASE Failing /\ Apart
  BY <1>7 DEF Failing, Apart
<1>8. CASE Looking /\ Apart
  <2>1. blind' \in BOOLEAN
    BY <1>8, Zenon DEF Looking
  <2> QED
    BY <1>8, <2>1 DEF Looking, Apart
<1>9. CASE CollectStep
  <2>1. \/ (Working \/ Looking \/ Failing) /\ Apart
        \/ Collect
    <3>1. CASE ListScopes \/ ListInScope
      BY <3>1 DEF ListScopes, ListInScope
    <3>2. CASE ListPackage \/ ScopeListed
      BY <3>2 DEF ListPackage, ScopeListed
    <3>3. CASE AllListed \/ BuildPackage
      BY <3>3 DEF AllListed, BuildPackage
    <3>4. CASE LoadPackageJson
      BY <3>4 DEF LoadPackageJson
    <3>5. CASE GetSwiftToolVersion \/ AllBuilt
      BY <3>5 DEF GetSwiftToolVersion, AllBuilt
    <3> QED
      BY <1>9, <3>1, <3>2, <3>3, <3>4, <3>5 DEF CollectStep
  <2> QED
    BY <2>1, <1>5, <1>6, <1>7, <1>8
<1>10. CASE Finished \/ UNCHANGED allVars
  BY <1>10 DEF Finished, allVars, vars, history
<1> QED
  BY <1>2, <1>3, <1>4, <1>9, <1>10 DEF Next, Walking, WalkStep

----------------------------------------------------------------------------
(* The collection's work. *)

LEMMA TailFacts ==
  ASSUME NEW S, NEW s \in Seq(S), s # <<>>
  PROVE  /\ Head(s) \in S /\ Tail(s) \in Seq(S)
         /\ Head(s) \in ToSet(s) /\ ToSet(Tail(s)) \subseteq ToSet(s)
         /\ \A x \in ToSet(s) : x = Head(s) \/ x \in ToSet(Tail(s))
<1>1. /\ Head(s) \in S /\ Tail(s) \in Seq(S) /\ Len(Tail(s)) = Len(s) - 1
      /\ \A i \in 1..Len(Tail(s)) : Tail(s)[i] = s[i + 1]
      /\ Len(s) \in Nat \ {0} /\ Head(s) = s[1]
  BY HeadTailProperties, EmptySeq
<1>2. /\ \A x : x \in ToSet(s) <=> \E i \in 1..Len(s) : s[i] = x
      /\ \A x : x \in ToSet(Tail(s)) <=> \E i \in 1..Len(Tail(s)) : Tail(s)[i] = x
  BY <1>1, ToSetFacts
<1>3. Head(s) \in ToSet(s)
  BY <1>1, <1>2
<1>4. ASSUME NEW x \in ToSet(Tail(s)) PROVE x \in ToSet(s)
  <2>1. PICK i \in 1..Len(Tail(s)) : Tail(s)[i] = x
    BY <1>2
  <2>2. i + 1 \in 1..Len(s) /\ s[i + 1] = x
    BY <1>1, <2>1
  <2> QED
    BY <1>2, <2>2
<1>5. ASSUME NEW x \in ToSet(s), x # Head(s) PROVE x \in ToSet(Tail(s))
  <2>1. PICK i \in 1..Len(s) : s[i] = x
    BY <1>2
  <2>2. i # 1
    BY <1>1, <1>5, <2>1
  <2>3. i - 1 \in 1..Len(Tail(s)) /\ (i - 1) + 1 = i
    BY <1>1, <2>2
  <2>4. Tail(s)[i - 1] = x
    BY <1>1, <2>1, <2>3
  <2> QED
    BY <1>2, <2>3, <2>4
<1> QED
  BY <1>1, <1>3, <1>4, <1>5

\* The releases of a package, from its newest version down.
LEMMA NewestFirstFacts ==
  ASSUME NEW p \in Packages, NEW s \in Seq(Known)
  PROVE  LET t == SortFunc(ListLess, s)
             u == [i \in 1..Len(t) |-> <<p, t[i]>>]
         IN /\ t \in Seq(Known) /\ Len(t) \in Nat /\ Len(t) = Len(s)
            /\ u \in Seq(Packages \X Known) /\ Len(u) = Len(t)
            /\ \A i \in 1..Len(t) : u[i] = <<p, t[i]>> /\ t[i] \in ToSet(s)
            /\ \A v \in ToSet(s) : <<p, v>> \in ToSet(u)
            /\ \A x \in ToSet(u) : x[1] = p /\ x[2] \in ToSet(s) /\ x = <<p, x[2]>>
<1> DEFINE t == SortFunc(ListLess, s)
           u == [i \in 1..Len(t) |-> <<p, t[i]>>]
<1>1. t \in Seq(Known) /\ Len(t) = Len(s) /\ ToSet(t) = ToSet(s)
  BY SortTyped, SortKeeps
<1> HIDE DEF t
<1>2. Len(t) \in Nat /\ \A i \in 1..Len(t) : t[i] \in Known
  BY <1>1, LenProperties, ElementOfSeq
<1>3. u \in Seq(Packages \X Known) /\ Len(u) = Len(t)
      /\ \A i \in 1..Len(t) : u[i] = <<p, t[i]>>
  BY <1>2
<1> HIDE DEF u
<1>4. /\ \A x : x \in ToSet(t) <=> \E i \in 1..Len(t) : t[i] = x
      /\ \A x : x \in ToSet(u) <=> \E i \in 1..Len(u) : u[i] = x
  BY <1>1, <1>3, ToSetFacts
<1>5. \A v \in ToSet(s) : <<p, v>> \in ToSet(u)
  BY <1>1, <1>3, <1>4
<1>6. ASSUME NEW x \in ToSet(u)
      PROVE  x[1] = p /\ x[2] \in ToSet(s) /\ x = <<p, x[2]>>
  <2>1. PICK i \in 1..Len(t) : u[i] = x
    BY <1>3, <1>4
  <2>2. x = <<p, t[i]>>
    BY <1>3, <2>1
  <2> QED
    BY <2>2, <1>1, <1>4
<1>7. \A i \in 1..Len(t) : t[i] \in ToSet(s)
  BY <1>1, <1>4
<1> QED
  BY <1>1, <1>2, <1>3, <1>5, <1>6, <1>7 DEF t, u

WorkInv == WorkTypeOK /\ WorkKept

LEMMA CataloguedFacts ==
  ASSUME StoreInv
  PROVE  Catalogued \subseteq Releases
BY BackendAssumption DEF Catalogued, Stored, StoreInv, StoreTypeOK

\* A step that leaves the work as it is.
LEMMA WorkSame ==
  ASSUME WorkInv, UNCHANGED work, \A p : Begun(p) \subseteq Begun(p)',
         \/ pc' = pc
         \/ /\ pc' \notin {"idle", "tools"} /\ (pc' = "build" => pc # "done")
            /\ pc \notin {"build", "tools", "done"} \/ pc' \in {"build", "tools", "done"}
            /\ pc' = "package" \/ packages = {} \/ pc' = "done"
  PROVE  WorkInv'
<1> USE DEF work, WorkInv, WorkKept
<1>1. WorkTypeOK'
  BY DEF WorkTypeOK
<1>2. /\ pc' \notin {"build", "tools", "done"} =>
           todo' = <<>> /\ \A p \in Packages : document'[p] = <<>>
      /\ pc' = "idle" => \A p \in Packages : found'[p] = <<>>
      /\ pc' # "package" => packages' = {} \/ pc' = "done"
      /\ pc' = "tools" => todo' # <<>>
  OBVIOUS
<1>3. /\ \A p \in Packages : ToSet(found'[p]) \subseteq Begun(p)'
      /\ \A p \in Packages : \A x \in ToSet(document'[p]) : x[1] \in Begun(p)'
  OBVIOUS
<1>4. \A x \in ToSet(todo') : x \in Releases /\ stage'[x] # "none"
  <2>1. ASSUME NEW x \in ToSet(todo) PROVE x \in Releases /\ stage'[x] # "none"
    <3>1. x \in Releases /\ stage[x] # "none" /\ x = <<Package(x), Version(x)>>
          /\ Version(x) \in Known
      BY <2>1, ReleaseFacts
    <3>2. Version(x) \in Begun(Package(x))
      BY <3>1 DEF Begun
    <3>3. Version(x) \in Begun(Package(x))'
      BY <3>2
    <3> QED
      BY <3>1, <3>3 DEF Begun
  <2> QED
    BY <2>1
<1> QED
  BY <1>1, <1>2, <1>3, <1>4

\* A release is looked at and dropped from what is to be done, or included.
LEMMA ReleaseDone ==
  ASSUME WorkInv, pc \in {"build", "tools"}, todo # <<>>,
         UNCHANGED <<scopes, packages, found, stage>>, pc' \in {"build", "done"},
         todo' = Tail(todo),
         \/ UNCHANGED document
         \/ \E tools \in {Own, Default} :
              document' = [document EXCEPT ![Package(Head(todo))] =
                             Append(@, <<Version(Head(todo)), tools>>)]
  PROVE  WorkInv'
<1> USE DEF WorkInv, WorkTypeOK
<1> DEFINE r == Head(todo)
<1>1. /\ r \in ToSet(todo) /\ Tail(todo) \in Seq(Packages \X Known)
      /\ ToSet(Tail(todo)) \subseteq ToSet(todo)
  BY TailFacts
<1>2. r \in Releases /\ stage[r] # "none"
  BY <1>1 DEF WorkKept
<1>3. Package(r) \in Packages /\ Version(r) \in Known /\ r = <<Package(r), Version(r)>>
  BY <1>2, ReleaseFacts
<1>4. Version(r) \in Begun(Package(r))
  BY <1>2, <1>3 DEF Begun
<1>5. \A p : Begun(p)' = Begun(p)
  BY DEF Begun
<1> HIDE DEF r
<1>6. /\ document' \in [Packages -> Seq(Known \X {Own, Default})]
      /\ \A p \in Packages : \A x \in ToSet(document'[p]) : x[1] \in Begun(p)
  <2>1. CASE UNCHANGED document
    BY <2>1 DEF WorkKept
  <2>2. ASSUME NEW tools \in {Own, Default},
               document' = [document EXCEPT ![Package(r)] =
                              Append(@, <<Version(r), tools>>)]
        PROVE  /\ document' \in [Packages -> Seq(Known \X {Own, Default})]
               /\ \A p \in Packages : \A x \in ToSet(document'[p]) : x[1] \in Begun(p)
    <3> DEFINE e == <<Version(r), tools>>
    <3>1. e \in Known \X {Own, Default} /\ e[1] = Version(r)
      BY <1>3
    <3> HIDE DEF e
    <3>2. document' = [document EXCEPT ![Package(r)] = Append(@, e)]
      BY <2>2 DEF e
    <3>3. /\ document[Package(r)] \in Seq(Known \X {Own, Default})
          /\ document'[Package(r)] = Append(document[Package(r)], e)
          /\ \A p \in Packages : p # Package(r) => document'[p] = document[p]
      BY <1>3, <3>2
    <3>4. /\ Append(document[Package(r)], e) \in Seq(Known \X {Own, Default})
          /\ ToSet(Append(document[Package(r)], e)) = ToSet(document[Package(r)]) \cup {e}
      <4> DEFINE d == document[Package(r)]
                 D == Known \X {Own, Default}
      <4>1. d \in Seq(D) /\ e \in D
        BY <3>1, <3>3
      <4> HIDE DEF d, D
      <4>2. Append(d, e) \in Seq(D)
        BY <4>1, AppendProperties
      <4>3. ToSet(Append(d, e)) = ToSet(d) \cup {e}
        BY <4>1, ToSetAppend
      <4> QED
        BY <4>2, <4>3 DEF d, D
    <3>5. ASSUME NEW p \in Packages, NEW x \in ToSet(document'[p])
          PROVE  x[1] \in Begun(p)
      <4>1. x \in ToSet(document[p]) \/ (p = Package(r) /\ x = e)
        BY <3>3, <3>4, <3>5
      <4>2. x \in ToSet(document[p]) => x[1] \in Begun(p)
        BY DEF WorkKept
      <4> QED
        BY <4>1, <4>2, <1>4, <3>1
    <3> QED
      BY <1>3, <3>2, <3>4, <3>5
  <2> QED
    BY <2>1, <2>2 DEF r
<1>7. WorkTypeOK'
  BY <1>1, <1>6
<1>8. /\ \A p \in Packages : ToSet(found'[p]) \subseteq Begun(p)'
      /\ \A p \in Packages : \A x \in ToSet(document'[p]) : x[1] \in Begun(p)'
  BY <1>5, <1>6 DEF WorkKept
<1>9. \A x \in ToSet(todo') : x \in Releases /\ stage'[x] # "none"
  BY <1>1 DEF WorkKept
<1>10. /\ pc' \notin {"build", "tools", "done"} =>
            todo' = <<>> /\ \A p \in Packages : document'[p] = <<>>
       /\ pc' = "idle" => \A p \in Packages : found'[p] = <<>>
       /\ pc' # "package" => packages' = {} \/ pc' = "done"
       /\ pc' = "tools" => todo' # <<>>
  BY DEF WorkKept
<1> QED
  BY <1>7, <1>8, <1>9, <1>10 DEF WorkKept

LEMMA WorkStays ==
  ASSUME RequestInv, WorkInv, [Next]_allVars
  PROVE  WorkInv'
<1> USE DEF WorkInv, WorkTypeOK
<1>0. StoreInv /\ \A p : Begun(p) \subseteq Begun(p)'
  BY StoreIsKept DEF RequestInv
<1>1. CASE Publishing
  BY <1>0, <1>1, PublishingCases, WorkSame DEF walk
<1>2. CASE Begin /\ UNCHANGED work
  BY <1>0, <1>2, WorkSame DEF Begin, Again, Ask, WorkKept
<1>3. CASE ListReleases /\ UNCHANGED work
  <2>1. pc = "list" /\ pc' \in {"list", "exists", "done"}
    BY <1>3, ListReleasesCases DEF AnswerPage, AnswerLink, End, Again
  <2> QED
    BY <1>0, <1>3, <2>1, WorkSame DEF WorkKept
<1>4. CASE (ListFails \/ CheckArchive) /\ UNCHANGED work
  <2>1. pc \in {"list", "exists"} /\ pc' \in {"list", "done"}
    BY <1>4 DEF ListFails, CheckArchive, End, Again
  <2> QED
    BY <1>0, <1>4, <2>1, WorkSame DEF WorkKept
<1>5. CASE Collect
  <2>1. PICK ask \in Asks : ask.kind \in {"collection", "scope"} /\ Ask(ask)
    BY <1>5 DEF Collect
  <2>2. ask.package \in Packages /\ package' = ask.package /\ pc = "idle"
    BY <2>1, AskFacts DEF Ask
  <2>3. scopes' \subseteq {ScopeOf[p] : p \in Packages}
    BY <1>5, <2>2 DEF Collect
  <2>4. pc' \in {"scopes", "scope"} /\ UNCHANGED <<packages, found, todo, document>>
    BY <1>5 DEF Collect, Again
  <2>5. WorkTypeOK'
    BY <2>3, <2>4
  <2>6. /\ todo = <<>> /\ packages = {}
        /\ \A p \in Packages : document[p] = <<>> /\ found[p] = <<>>
    BY <2>2 DEF WorkKept
  <2>7. ToSet(<<>>) = {}
    BY DEF ToSet
  <2> QED
    BY <2>4, <2>5, <2>6, <2>7 DEF WorkKept
<1>6. CASE ListScopes
  <2>1. scopes' \subseteq {ScopeOf[p] : p \in Packages}
    <3>1. \A r \in Catalogued : Package(r) \in Packages
      BY <1>0, CataloguedFacts, ReleaseFacts
    <3> QED
      BY <1>6, <3>1 DEF ListScopes
  <2>2. /\ pc = "scopes" /\ pc' \in {"scope", "done"}
        /\ UNCHANGED <<packages, found, todo, document, stage>>
    BY <1>6 DEF ListScopes, Again, End, Apart, store
  <2>3. WorkTypeOK'
    BY <2>1, <2>2
  <2> QED
    BY <1>0, <2>2, <2>3 DEF WorkKept
<1>7. CASE ListInScope
  <2>1. packages' \subseteq Packages
    <3>1. \A r \in Catalogued : Package(r) \in Packages
      BY <1>0, CataloguedFacts, ReleaseFacts
    <3> QED
      BY <1>7, <3>1 DEF ListInScope
  <2>2. /\ pc = "scope" /\ pc' = "package" /\ scopes' \subseteq scopes
        /\ UNCHANGED <<found, todo, document, stage>>
    BY <1>7 DEF ListInScope, Again, Apart, store
  <2>3. WorkTypeOK'
    BY <2>1, <2>2
  <2> QED
    BY <1>0, <2>2, <2>3 DEF WorkKept
<1>8. CASE ListPackage
  <2>1. PICK p \in packages : /\ packages' = packages \ {p}
                              /\ \/ found' = [found EXCEPT ![p] = List(p)]
                                 \/ UNCHANGED found
    BY <1>8 DEF ListPackage
  <2>2. p \in Packages /\ List(p) \in Seq(Known) /\ ToSet(List(p)) \subseteq Begun(p)
    BY <1>0, ListsNow DEF Lists, Listed
  <2>3. pc = "package" /\ pc' = pc /\ UNCHANGED <<scopes, todo, document, stage>>
    BY <1>8 DEF ListPackage, Apart, store
  <2>4. WorkTypeOK'
    BY <2>1, <2>2, <2>3
  <2>5. \A q \in Packages : ToSet(found'[q]) \subseteq Begun(q)
    <3>1. \A q \in Packages : found'[q] = found[q] \/ (q = p /\ found'[q] = List(q))
      BY <2>1, <2>2
    <3> QED
      BY <3>1, <2>2 DEF WorkKept
  <2>6. \A q \in Packages : ToSet(found'[q]) \subseteq Begun(q)'
    BY <1>0, <2>5
  <2> QED
    BY <1>0, <2>3, <2>4, <2>6 DEF WorkKept
<1>9. CASE ScopeListed
  BY <1>0, <1>9, WorkSame DEF ScopeListed, Again
<1>10. CASE AllListed
  <2>1. pc = "scope" /\ pc' \in {"build", "done"} /\ UNCHANGED work
    BY <1>10 DEF AllListed, Again, End
  <2> QED
    BY <1>0, <2>1, WorkSame DEF WorkKept
<1>11. CASE BuildPackage
  <2>1. PICK p \in Listings :
          /\ todo' = [i \in 1..Len(SortFunc(ListLess, found[p])) |->
                        <<p, SortFunc(ListLess, found[p])[i]>>]
          /\ found' = [found EXCEPT ![p] = <<>>]
    BY <1>11 DEF BuildPackage
  <2>2. /\ pc = "build" /\ pc' = pc /\ UNCHANGED <<scopes, packages, document, stage>>
    BY <1>11 DEF BuildPackage, Apart, store
  <2>3. p \in Packages /\ found[p] \in Seq(Known)
    BY DEF Listings
  <2>4. /\ todo' \in Seq(Packages \X Known)
        /\ \A x \in ToSet(todo') : x[2] \in ToSet(found[p]) /\ x = <<p, x[2]>>
    BY <2>1, <2>3, NewestFirstFacts
  <2>5. ToSet(<<>>) = {}
    BY DEF ToSet
  <2>6. WorkTypeOK'
    BY <2>1, <2>2, <2>3, <2>4
  <2>7. \A q \in Packages : ToSet(found'[q]) \subseteq ToSet(found[q])
    BY <2>1, <2>3, <2>5
  <2>8. \A x \in ToSet(todo') : x \in Releases /\ stage[x] # "none"
    BY <2>3, <2>4 DEF WorkKept, Begun
  <2> QED
    BY <1>0, <2>2, <2>6, <2>7, <2>8 DEF WorkKept
<1>12. CASE LoadPackageJson
  <2>1. /\ pc = "build" /\ todo # <<>> /\ UNCHANGED <<scopes, packages, found, document, stage>>
        /\ \/ pc' = "tools" /\ UNCHANGED todo
           \/ pc' = "build" /\ todo' = Tail(todo)
    BY <1>12 DEF LoadPackageJson, Again, Apart, store
  <2>2. CASE pc' = "tools" /\ UNCHANGED todo
    BY <1>0, <2>1, <2>2 DEF WorkKept
  <2>3. CASE pc' = "build" /\ todo' = Tail(todo)
    BY <2>1, <2>3, ReleaseDone
  <2> QED
    BY <2>1, <2>2, <2>3
<1>13. CASE GetSwiftToolVersion
  <2>1. /\ pc = "tools" /\ pc' = "build" /\ todo' = Tail(todo)
        /\ UNCHANGED <<scopes, packages, found, stage>>
        /\ \E tools \in {Own, Default} :
              document' = [document EXCEPT ![Package(Head(todo))] =
                             Append(@, <<Version(Head(todo)), tools>>)]
    BY <1>13 DEF GetSwiftToolVersion, Again, Apart, store
  <2>2. todo # <<>>
    BY <2>1 DEF WorkKept
  <2> QED
    BY <2>1, <2>2, ReleaseDone
<1>14. CASE AllBuilt
  <2>1. pc = "build" /\ pc' = "done" /\ UNCHANGED work
    BY <1>14 DEF AllBuilt, End
  <2> QED
    BY <1>0, <2>1, WorkSame
<1>15. CASE Finished \/ UNCHANGED allVars
  <2>1. pc' = pc /\ UNCHANGED work
    BY <1>15 DEF Finished, allVars, vars, walk
  <2> QED
    BY <1>0, <2>1, WorkSame
<1> QED
  BY <1>1, <1>2, <1>3, <1>4, <1>5, <1>6, <1>7, <1>8, <1>9, <1>10, <1>11, <1>12, <1>13,
     <1>14, <1>15 DEF Next, Walking, WalkStep, CollectStep

----------------------------------------------------------------------------
(* What a request may rely on. *)

\* Releases that were accepted when a request came are held all along, and those
\* that were whole and have not been disturbed are among them.
RelyInv == HistoryTypeOK /\ FirmKept /\ WholeKept /\ (pc = "idle" => firm = {})

LEMMA RelyStays ==
  ASSUME RequestInv, WorkInv, RelyInv, [Next]_allVars
  PROVE  RelyInv'
<1>0. RequestInv' /\ \A r \in Releases : Held(r) => Held(r)'
  BY RequestStays, StoreIsKept DEF RequestInv
<1>1. HistoryTypeOK'
  BY <1>0, HistoryTypes DEF RelyInv
<1>2. ASSUME firm' = firm, whole' = whole, UNCHANGED store, pc' # "idle" \/ pc' = pc
      PROVE  RelyInv'
  BY <1>0, <1>1, <1>2 DEF RelyInv, HistoryTypeOK, FirmKept, WholeKept, Whole, store
<1>3. CASE Publishing
  <2>1. UNCHANGED <<firm, pc>> /\ whole' = whole \cap Whole'
    BY <1>3, PublishingCases DEF walk
  <2> QED
    BY <1>0, <1>1, <2>1 DEF RelyInv, HistoryTypeOK, FirmKept, WholeKept
<1>4. CASE Begin /\ UNCHANGED <<work, whole, gone>>
  <2>1. /\ pc = "idle" /\ firm' = {r \in Releases : stage[r] = "kept"}
        /\ UNCHANGED <<store, whole>> /\ pc' = "list"
    BY <1>4 DEF Begin, Ask, Again
  <2>2. whole' = {} /\ \A r \in firm' : Held(r)
    BY <2>1 DEF RelyInv, WholeKept, Held
  <2>3. \A r \in firm' : Held(r)'
    BY <1>0, <2>1, <2>2
  <2> QED
    BY <1>1, <2>1, <2>2, <2>3 DEF RelyInv, FirmKept, WholeKept
<1>5. CASE Collect
  <2>1. /\ pc = "idle" /\ firm' = {r \in Releases : stage[r] = "kept"}
        /\ UNCHANGED store /\ whole' = Whole /\ pc' \in {"scopes", "scope"}
    BY <1>5 DEF Collect, Ask, Again
  <2>2. \A r \in firm' : Held(r)
    BY <2>1 DEF Held
  <2>3. \A r \in firm' : Held(r)'
    BY <1>0, <2>1, <2>2
  <2>4. Whole' = Whole /\ Whole \subseteq firm'
    BY <2>1 DEF Whole, store
  <2> QED
    BY <1>1, <2>1, <2>3, <2>4 DEF RelyInv, FirmKept, WholeKept
<1>6. CASE (ListReleases \/ ListFails \/ CheckArchive) /\ UNCHANGED <<work, whole, gone>>
  <2>1. UNCHANGED <<firm, whole, store>>
    BY <1>6 DEF ListReleases, ListFails, CheckArchive, history
  <2>2. pc' # "idle"
    <3>1. CASE ListReleases
      BY <3>1, ListReleasesCases DEF AnswerPage, AnswerLink, End, Again
    <3>2. CASE ListFails \/ CheckArchive
      BY <3>2 DEF ListFails, CheckArchive, End, Again
    <3> QED
      BY <1>6, <3>1, <3>2
  <2> QED
    BY <1>2, <2>1, <2>2
<1>7. ASSUME Working \/ Looking \/ Failing, Apart, pc' # "idle" \/ pc' = pc PROVE RelyInv'
  BY <1>2, <1>7 DEF Working, Looking, Failing, Apart, history
<1>8. CASE ListScopes \/ ListInScope
  BY <1>7, <1>8 DEF ListScopes, ListInScope, Again, End
<1>9. CASE ListPackage \/ ScopeListed
  BY <1>7, <1>9 DEF ListPackage, ScopeListed, Again
<1>10. CASE AllListed \/ BuildPackage
  BY <1>7, <1>10 DEF AllListed, BuildPackage, Again, End
<1>11. CASE LoadPackageJson
  BY <1>7, <1>11 DEF LoadPackageJson, Again
<1>12. CASE GetSwiftToolVersion \/ AllBuilt
  BY <1>7, <1>12 DEF GetSwiftToolVersion, AllBuilt, Again, End
<1>13. CASE Finished \/ UNCHANGED allVars
  <2>1. UNCHANGED <<firm, whole, store, pc>>
    BY <1>13 DEF Finished, allVars, vars, history, walk
  <2> QED
    BY <1>2, <2>1
<1> QED
  BY <1>3, <1>4, <1>5, <1>6, <1>8, <1>9, <1>10, <1>11, <1>12, <1>13
     DEF Next, Walking, WalkStep, CollectStep

----------------------------------------------------------------------------
(* What is there is found. *)

BaseInv == RequestInv /\ WorkInv /\ RelyInv

\* Whom a request is about does not change while it is worked on.
LEMMA ConcernsSame ==
  ASSUME UNCHANGED <<kind, package, current>>
  PROVE  \A r : Concerns(r)' <=> Concerns(r)
BY DEF Concerns

LEMMA ConcernsPackage ==
  ASSUME RequestInv, AtList, NEW r, Concerns(r)
  PROVE  Package(r) = package
BY DEF RequestInv, AskKept, Concerns, Package

LEMMA FirmFacts ==
  ASSUME BaseInv, ~spoilt, NEW r \in firm
  PROVE  /\ r \in Releases /\ Package(r) \in Packages /\ "archive" \in files[r]
         /\ Version(r) \in Listed(Package(r))
         /\ ~Rewriting => r \in Catalogued
<1>1. r \in Releases /\ Held(r) /\ StoreInv
  BY DEF BaseInv, RequestInv, RelyInv, FirmKept, HistoryTypeOK
<1> QED
  BY <1>1, HeldIsListed, ReleaseFacts

LEMMA GatheredStays ==
  ASSUME BaseInv, Gathered, [Next]_allVars
  PROVE  Gathered'
<1>1. ASSUME pc' \notin {"scope", "package"} \/ failed' \/ blind' PROVE Gathered'
  BY <1>1 DEF Gathered
<1>2. ASSUME UNCHANGED <<pc, kind, package, current, failed, blind, firm, work>>,
             spoilt => spoilt'
      PROVE  Gathered'
  BY <1>2, ConcernsSame DEF Gathered, work
<1>3. CASE Publishing
  <2>1. UNCHANGED <<pc, kind, package, current, failed, blind, firm, work>>
    BY <1>3, PublishingCases DEF asked, walk
  <2> QED
    BY <1>2, <2>1, StoreIsKept DEF BaseInv, RequestInv
<1>4. CASE Walking
  <2>1. CASE ListReleases
    BY <1>1, <2>1, ListReleasesCases DEF AnswerPage, AnswerLink, End, Again
  <2>2. CASE Begin \/ ListFails \/ CheckArchive
    BY <1>1, <2>2 DEF Begin, ListFails, CheckArchive, End, Again
  <2> QED
    BY <1>4, <2>1, <2>2 DEF Walking, WalkStep
<1>5. CASE Collect
  <2>1. CASE kind' = "collection"
    BY <1>1, <1>5, <2>1 DEF Collect, Again
  <2>2. CASE kind' = "scope"
    <3>1. scopes' = {ScopeOf[package']}
      BY <1>5, <2>2 DEF Collect
    <3>2. \A r : Concerns(r)' <=> ScopeOf[Package(r)] = ScopeOf[package']
      BY <2>2 DEF Concerns
    <3> QED
      BY <3>1, <3>2 DEF Gathered
  <2>3. kind' \in {"collection", "scope"}
    BY <1>5 DEF Collect, Ask
  <2> QED
    BY <2>1, <2>2, <2>3
<1>6. CASE ListScopes
  <2>1. CASE Failing
    BY <1>1, <2>1 DEF Failing
  <2>2. CASE Looking /\ scopes' = {ScopeOf[Package(r)] : r \in Catalogued}
    <3>1. firm' = firm /\ spoilt' = spoilt /\ (~blind' => ~Rewriting)
      BY <1>6, <2>2 DEF ListScopes, Looking, Apart, history, store
    <3> QED
      BY <2>2, <3>1, FirmFacts DEF Gathered
  <2> QED
    BY <1>6, <2>1, <2>2 DEF ListScopes
<1>7. CASE ListInScope
  <2>1. CASE Failing
    BY <1>1, <2>1 DEF Failing
  <2>2. CASE ~Failing
    <3>1. PICK s \in scopes :
            /\ scopes' = scopes \ {s} /\ Looking
            /\ packages' = {p \in {Package(r) : r \in Catalogued} : ScopeOf[p] = s}
      BY <1>7, <2>2 DEF ListInScope
    <3>2. /\ UNCHANGED <<kind, package, current, failed, firm, found, spoilt>>
          /\ pc = "scope" /\ (~blind' => ~blind /\ ~Rewriting)
      BY <1>7, <3>1 DEF ListInScope, Looking, Apart, history, asked, store
    <3>3. packages = {}
      BY <3>2 DEF BaseInv, WorkInv, WorkKept
    <3>4. ASSUME ~failed, ~spoilt, ~blind', NEW r \in firm, Concerns(r)
          PROVE  \/ ScopeOf[Package(r)] \in scopes'
                 \/ Package(r) \in packages'
                 \/ Version(r) \in ToSet(found[Package(r)])
      <4>1. ScopeOf[Package(r)] \in scopes \/ Version(r) \in ToSet(found[Package(r)])
        BY <3>2, <3>3, <3>4 DEF Gathered
      <4>2. r \in Catalogued
        BY <3>2, <3>4, FirmFacts
      <4> QED
        BY <3>1, <4>1, <4>2
    <3> QED
      BY <3>2, <3>4, ConcernsSame DEF Gathered
  <2> QED
    BY <2>1, <2>2
<1>8. CASE ListPackage
  <2>1. CASE Failing
    BY <1>1, <2>1 DEF Failing
  <2>2. CASE ~Failing
    <3>1. PICK p \in packages : /\ packages' = packages \ {p} /\ Working
                                /\ found' = [found EXCEPT ![p] = List(p)]
      BY <1>8, <2>2 DEF ListPackage
    <3>2. /\ UNCHANGED <<kind, package, current, failed, blind, firm, scopes, spoilt>>
          /\ pc = "package"
      BY <1>8, <3>1 DEF ListPackage, Working, Apart, history, asked, store
    <3>3. ASSUME ~failed, ~spoilt, ~blind, NEW r \in firm, Concerns(r)
          PROVE  \/ ScopeOf[Package(r)] \in scopes
                 \/ Package(r) \in packages'
                 \/ Version(r) \in ToSet(found'[Package(r)])
      <4>1. \/ ScopeOf[Package(r)] \in scopes \/ Package(r) \in packages
            \/ Version(r) \in ToSet(found[Package(r)])
        BY <3>2, <3>3 DEF Gathered
      <4>2. Version(r) \in Listed(Package(r)) /\ Package(r) \in Packages
        BY <3>3, FirmFacts
      <4>3. found' = [found EXCEPT ![p] = List(p)] /\ found \in [Packages -> Seq(Known)]
        BY <3>1 DEF BaseInv, WorkInv, WorkTypeOK
      <4>4. CASE Package(r) = p
        BY <4>2, <4>3, <4>4 DEF Listed
      <4>5. CASE Package(r) # p
        BY <3>1, <4>1, <4>2, <4>3, <4>5
      <4> QED
        BY <4>4, <4>5
    <3> QED
      BY <3>2, <3>3, ConcernsSame DEF Gathered
  <2> QED
    BY <2>1, <2>2
<1>9. CASE ScopeListed
  <2>1. /\ UNCHANGED <<kind, package, current, failed, blind, firm, spoilt, work>>
        /\ pc = "package"
    BY <1>9 DEF ScopeListed, Working, Apart, history, asked, store
  <2> QED
    BY <2>1, ConcernsSame DEF Gathered, work
<1>10. CASE AllListed
  BY <1>1, <1>10 DEF AllListed, Again, End
<1>11. CASE BuildPackage
  BY <1>1, <1>11 DEF BuildPackage
<1>12. CASE LoadPackageJson
  BY <1>1, <1>12 DEF LoadPackageJson, Again
<1>13. CASE GetSwiftToolVersion \/ AllBuilt
  BY <1>1, <1>13 DEF GetSwiftToolVersion, AllBuilt, Again, End
<1>14. CASE Finished \/ UNCHANGED allVars
  BY <1>2, <1>14 DEF Finished, allVars, vars, walk, asked, history, store
<1> QED
  BY <1>3, <1>4, <1>5, <1>6, <1>7, <1>8, <1>9, <1>10, <1>11, <1>12, <1>13, <1>14
     DEF Next, CollectStep

\* A step that ends nothing leaves an answer as it is.
LEMMA NotFoundStays ==
  ASSUME BaseInv, Gathered, NotFoundIsTrue, [Next]_allVars
  PROVE  NotFoundIsTrue'
<1>1. ASSUME ~(pc' = "done" /\ status' = "notfound") \/ failed' PROVE NotFoundIsTrue'
  BY <1>1 DEF NotFoundIsTrue, Ended
<1>2. CASE Publishing
  BY <1>1, <1>2, PublishingCases DEF walk
<1>3. CASE Begin \/ Collect
  BY <1>1, <1>3 DEF Begin, Collect, Again
<1>4. CASE ListReleases
  <2>1. CASE pc' = "done" /\ status' = "notfound"
    <3>1. /\ pc = "list" /\ UNCHANGED <<store, asked, first, faults, history>>
          /\ elements' = <<>> /\ elements' = SortFunc(ListLess, Result)
          /\ UNCHANGED current
      BY <1>4, <2>1, ListReleasesCases DEF AnswerPage, AnswerLink, End, Again
    <3>2. package \in Packages /\ RequestInv /\ AtList
      BY <3>1 DEF BaseInv, RequestInv, AskKept, AtList
    <3>3. Listed(package) = {}
      BY <3>1, <3>2, ReleasesFacts
    <3>4. UNCHANGED <<kind, package, firm, failed, blind, spoilt>>
      BY <3>1 DEF asked, history, store
    <3>5. ASSUME ~failed, ~spoilt, ~blind, NEW r \in firm PROVE ~Concerns(r)
      BY <3>2, <3>3, <3>5, FirmFacts, ConcernsPackage
    <3> QED
      BY <3>1, <3>4, <3>5, ConcernsSame DEF NotFoundIsTrue
  <2> QED
    BY <1>1, <2>1
<1>5. CASE ListFails
  BY <1>1, <1>5 DEF ListFails
<1>6. CASE CheckArchive
  <2>1. CASE failed'
    BY <1>1, <2>1
  <2>2. CASE ~failed'
    <3>1. /\ pc = "exists" /\ UNCHANGED <<failed, blind, kind, package, current, firm, spoilt>>
          /\ pc' = "done" => "archive" \notin files[<<package, current>>]
      BY <1>6, <2>2 DEF CheckArchive, Again, End, asked, store
    <3>2. current # NoVersion /\ kind = "links"
      BY <3>1 DEF BaseInv, RequestInv, AskKept
    <3>3. \A r : Concerns(r) => r = <<package, current>>
      BY <3>2 DEF Concerns
    <3> QED
      BY <3>1, <3>3, FirmFacts, ConcernsSame DEF NotFoundIsTrue, Ended
  <2> QED
    BY <2>1, <2>2
<1>7. CASE AllListed
  <2>1. CASE kind = "scope" /\ Listings = {}
    <3>1. /\ pc = "scope" /\ scopes = {}
          /\ UNCHANGED <<failed, blind, kind, package, current, firm, spoilt>>
      BY <1>7 DEF AllListed, Working, Apart, asked, store, history
    <3>2. packages = {}
      BY <3>1 DEF BaseInv, WorkInv, WorkKept
    <3>3. ASSUME ~failed, ~spoilt, ~blind, NEW r \in firm, Concerns(r) PROVE FALSE
      <4>1. Version(r) \in ToSet(found[Package(r)])
        BY <3>1, <3>2, <3>3 DEF Gathered
      <4>2. Package(r) \in Packages /\ found[Package(r)] = <<>>
        BY <2>1, <3>3, FirmFacts DEF Listings
      <4> QED
        BY <4>1, <4>2 DEF ToSet
    <3> QED
      BY <3>1, <3>3, ConcernsSame DEF NotFoundIsTrue
  <2>2. CASE ~(kind = "scope" /\ Listings = {})
    BY <1>1, <1>7, <2>2 DEF AllListed, Again
  <2> QED
    BY <2>1, <2>2
<1>8. CASE ListScopes \/ ListInScope
  BY <1>1, <1>8 DEF ListScopes, ListInScope, Again, End
<1>9. CASE ListPackage \/ ScopeListed \/ BuildPackage
  BY <1>1, <1>9 DEF ListPackage, ScopeListed, BuildPackage, Again
<1>10. CASE LoadPackageJson \/ GetSwiftToolVersion
  BY <1>1, <1>10 DEF LoadPackageJson, GetSwiftToolVersion, Again
<1>11. CASE AllBuilt
  BY <1>1, <1>11 DEF AllBuilt, End
<1>12. CASE Finished \/ UNCHANGED allVars
  <2>1. UNCHANGED <<pc, status, kind, package, current, failed, blind, firm, spoilt>>
    BY <1>12 DEF Finished, allVars, vars, walk, asked, history, store
  <2> QED
    BY <2>1, ConcernsSame DEF NotFoundIsTrue, Ended
<1> QED
  BY <1>2, <1>3, <1>4, <1>5, <1>6, <1>7, <1>8, <1>9, <1>10, <1>11, <1>12
     DEF Next, Walking, WalkStep, CollectStep

----------------------------------------------------------------------------
(* What is in a collection. *)

\* Something appended to the versions of a package is added to the document.
LEMMA Appended ==
  ASSUME WorkInv, pc = "tools", NEW tools \in {Own, Default},
         document' = [document EXCEPT ![Package(Head(todo))] =
                        Append(@, <<Version(Head(todo)), tools>>)]
  PROVE  /\ todo # <<>> /\ Head(todo) \in Releases
         /\ document[Package(Head(todo))] \in Seq(Known \X {Own, Default})
         /\ document'[Package(Head(todo))] =
              Append(document[Package(Head(todo))], <<Version(Head(todo)), tools>>)
         /\ \A p \in Packages : p # Package(Head(todo)) => document'[p] = document[p]
         /\ ToSet(document'[Package(Head(todo))]) =
              ToSet(document[Package(Head(todo))]) \cup {<<Version(Head(todo)), tools>>}
<1> DEFINE r == Head(todo)
           D == Known \X {Own, Default}
           d == document[Package(r)]
           e == <<Version(r), tools>>
<1>1. todo # <<>> /\ todo \in Seq(Packages \X Known)
  BY DEF WorkInv, WorkKept, WorkTypeOK
<1>2. r \in Releases
  BY <1>1, TailFacts DEF WorkInv, WorkKept
<1>3. Package(r) \in Packages /\ Version(r) \in Known
  BY <1>2, ReleaseFacts
<1>4. e \in D /\ d \in Seq(D)
  BY <1>3 DEF WorkInv, WorkTypeOK
<1>5. document' = [document EXCEPT ![Package(r)] = Append(d, e)]
      /\ document \in [Packages -> Seq(D)]
  BY DEF WorkInv, WorkTypeOK
<1> HIDE DEF D, d, e, r
<1>6. ToSet(Append(d, e)) = ToSet(d) \cup {e}
  BY <1>4, ToSetAppend
<1>7. document'[Package(r)] = Append(d, e)
      /\ \A p \in Packages : p # Package(r) => document'[p] = document[p]
  BY <1>3, <1>5
<1> QED
  BY <1>1, <1>2, <1>4, <1>6, <1>7 DEF D, d, e, r

LEMMA IncludedStays ==
  ASSUME BaseInv, Gathered, Included, [Next]_allVars
  PROVE  Included'
<1>0. whole \subseteq firm /\ whole \subseteq Whole /\ whole \subseteq Releases
  BY DEF BaseInv, RelyInv, WholeKept, HistoryTypeOK
<1>1. ASSUME pc' \notin {"build", "tools"} \/ failed' PROVE Included'
  BY <1>1 DEF Included
<1>2. ASSUME UNCHANGED <<kind, package, current, failed, blind, work>>, whole' \subseteq whole,
             spoilt => spoilt', pc' \in {"build", "tools"} => pc \in {"build", "tools"}
      PROVE  Included'
  BY <1>2, ConcernsSame DEF Included, work
<1>3. CASE Publishing
  <2>1. UNCHANGED <<pc, kind, package, current, failed, blind, work>> /\ whole' \subseteq whole
    BY <1>3, PublishingCases DEF asked, walk
  <2> QED
    BY <1>2, <2>1, StoreIsKept DEF BaseInv, RequestInv
<1>4. CASE Walking
  <2>1. CASE ListReleases
    BY <1>1, <2>1, ListReleasesCases DEF AnswerPage, AnswerLink, End, Again
  <2>2. CASE Begin \/ ListFails \/ CheckArchive
    BY <1>1, <2>2 DEF Begin, ListFails, CheckArchive, End, Again
  <2> QED
    BY <1>4, <2>1, <2>2 DEF Walking, WalkStep
<1>5. CASE Collect \/ ListScopes \/ ListInScope
  BY <1>1, <1>5 DEF Collect, ListScopes, ListInScope, Again, End
<1>6. CASE ListPackage \/ ScopeListed
  BY <1>1, <1>6 DEF ListPackage, ScopeListed, Again
<1>7. CASE AllListed
  <2>1. /\ pc = "scope" /\ scopes = {} /\ UNCHANGED work
        /\ UNCHANGED <<failed, blind, kind, package, current, whole, spoilt>>
    BY <1>7 DEF AllListed, Working, Apart, asked, store, history
  <2>2. packages = {}
    BY <2>1 DEF BaseInv, WorkInv, WorkKept
  <2>3. ASSUME ~failed, ~spoilt, ~blind, NEW r \in whole, Concerns(r)
        PROVE  Version(r) \in ToSet(found[Package(r)])
    BY <1>0, <2>1, <2>2, <2>3 DEF Gathered
  <2> QED
    BY <2>1, <2>3, ConcernsSame DEF Included, work
<1>8. ASSUME pc \in {"build", "tools"}, pc' \in {"build", "tools"},
             UNCHANGED <<failed, blind, kind, package, current, whole, spoilt>>,
             ASSUME NEW r \in whole
             PROVE  (\/ Version(r) \in ToSet(found[Package(r)])
                     \/ r \in ToSet(todo)
                     \/ <<Version(r), Own>> \in ToSet(document[Package(r)]))
                    => (\/ Version(r) \in ToSet(found'[Package(r)])
                        \/ r \in ToSet(todo')
                        \/ <<Version(r), Own>> \in ToSet(document'[Package(r)]))
      PROVE  Included'
  BY <1>8, ConcernsSame DEF Included
<1>9. CASE BuildPackage
  <2>1. PICK p \in Listings :
          /\ todo' = [i \in 1..Len(SortFunc(ListLess, found[p])) |->
                        <<p, SortFunc(ListLess, found[p])[i]>>]
          /\ found' = [found EXCEPT ![p] = <<>>]
    BY <1>9 DEF BuildPackage
  <2>2. /\ pc = "build" /\ pc' = pc /\ todo = <<>> /\ document' = document
        /\ UNCHANGED <<failed, blind, kind, package, current, whole, spoilt>>
    BY <1>9 DEF BuildPackage, Working, Apart, asked, store, history
  <2>3. p \in Packages /\ found[p] \in Seq(Known) /\ found \in [Packages -> Seq(Known)]
    BY DEF Listings, BaseInv, WorkInv, WorkTypeOK
  <2>4. \A v \in ToSet(found[p]) : <<p, v>> \in ToSet(todo')
    BY <2>1, <2>3, NewestFirstFacts
  <2>5. ASSUME NEW r \in whole
        PROVE  (\/ Version(r) \in ToSet(found[Package(r)])
                \/ r \in ToSet(todo)
                \/ <<Version(r), Own>> \in ToSet(document[Package(r)]))
               => (\/ Version(r) \in ToSet(found'[Package(r)])
                   \/ r \in ToSet(todo')
                   \/ <<Version(r), Own>> \in ToSet(document'[Package(r)]))
    <3>1. r = <<Package(r), Version(r)>> /\ Package(r) \in Packages
      BY <1>0, ReleaseFacts
    <3>2. r \notin ToSet(todo)
      BY <2>2 DEF ToSet
    <3>3. CASE Package(r) = p
      BY <2>2, <2>4, <3>1, <3>2, <3>3
    <3>4. CASE Package(r) # p
      BY <2>1, <2>2, <2>3, <3>1, <3>2, <3>4
    <3> QED
      BY <3>3, <3>4
  <2> QED
    BY <1>8, <2>2, <2>5
<1>10. CASE LoadPackageJson
  <2>1. CASE Failing
    BY <1>1, <2>1 DEF Failing
  <2>2. CASE ~Failing
    <3>1. /\ pc = "build" /\ pc' \in {"build", "tools"} /\ todo # <<>>
          /\ UNCHANGED <<found, document>>
          /\ UNCHANGED <<failed, blind, kind, package, current, whole, spoilt>>
          /\ IF "json" \in files[Head(todo)] THEN UNCHANGED todo ELSE todo' = Tail(todo)
      BY <1>10, <2>2 DEF LoadPackageJson, Again, Working, Apart, asked, store, history
    <3>2. ASSUME NEW r \in whole, r \in ToSet(todo) PROVE r \in ToSet(todo')
      <4>1. "json" \in files[r]
        BY <1>0, <3>2 DEF Whole, AllFiles
      <4>2. todo \in Seq(Packages \X Known)
        BY DEF BaseInv, WorkInv, WorkTypeOK
      <4>3. r = Head(todo) \/ r \in ToSet(Tail(todo))
        BY <3>1, <3>2, <4>2, TailFacts
      <4> QED
        BY <3>1, <3>2, <4>1, <4>3
    <3>3. ASSUME NEW r \in whole
          PROVE  (\/ Version(r) \in ToSet(found[Package(r)])
                  \/ r \in ToSet(todo)
                  \/ <<Version(r), Own>> \in ToSet(document[Package(r)]))
                 => (\/ Version(r) \in ToSet(found'[Package(r)])
                     \/ r \in ToSet(todo')
                     \/ <<Version(r), Own>> \in ToSet(document'[Package(r)]))
      BY <3>1, <3>2
    <3> QED
      BY <1>8, <3>1, <3>3
  <2> QED
    BY <2>1, <2>2
<1>11. CASE GetSwiftToolVersion
  <2>1. CASE Failing
    BY <1>1, <2>1 DEF Failing
  <2>2. CASE ~Failing
    <3> DEFINE h == Head(todo)
    <3>1. PICK tools \in {Own, Default} :
            /\ tools = IF "manifest" \in files[h] THEN Own ELSE Default
            /\ document' = [document EXCEPT ![Package(h)] =
                              Append(@, <<Version(h), tools>>)]
      BY <1>11, <2>2 DEF GetSwiftToolVersion
    <3>2. /\ pc = "tools" /\ pc' = "build" /\ todo' = Tail(todo) /\ found' = found
          /\ UNCHANGED <<failed, blind, kind, package, current, whole, spoilt>>
      BY <1>11, <2>2 DEF GetSwiftToolVersion, Again, Working, Apart, asked, store, history
    <3>3. WorkInv /\ todo \in Seq(Packages \X Known)
      BY DEF BaseInv, WorkInv, WorkTypeOK
    <3>4. /\ todo # <<>> /\ h \in Releases
          /\ \A p \in Packages : p # Package(h) => document'[p] = document[p]
          /\ ToSet(document'[Package(h)]) =
               ToSet(document[Package(h)]) \cup {<<Version(h), tools>>}
      BY <3>1, <3>2, <3>3, Appended
    <3>5. \A x \in ToSet(todo) : x = h \/ x \in ToSet(Tail(todo))
      BY <3>3, <3>4, TailFacts
    <3> HIDE DEF h
    <3>6. ASSUME NEW r \in whole
          PROVE  (\/ Version(r) \in ToSet(found[Package(r)])
                  \/ r \in ToSet(todo)
                  \/ <<Version(r), Own>> \in ToSet(document[Package(r)]))
                 => (\/ Version(r) \in ToSet(found'[Package(r)])
                     \/ r \in ToSet(todo')
                     \/ <<Version(r), Own>> \in ToSet(document'[Package(r)]))
      <4>1. Package(r) \in Packages /\ "manifest" \in files[r]
        BY <1>0, ReleaseFacts DEF Whole, AllFiles
      <4>2. ToSet(document[Package(r)]) \subseteq ToSet(document'[Package(r)])
        BY <3>4, <4>1
      <4>3. r = h => <<Version(r), Own>> \in ToSet(document'[Package(r)])
        BY <3>1, <3>4, <4>1
      <4> QED
        BY <3>2, <3>5, <4>2, <4>3
    <3> QED
      BY <1>8, <3>2, <3>6
  <2> QED
    BY <2>1, <2>2
<1>12. CASE AllBuilt
  BY <1>1, <1>12 DEF AllBuilt, End
<1>13. CASE Finished \/ UNCHANGED allVars
  BY <1>2, <1>13 DEF Finished, allVars, vars, walk, asked, history, store
<1> QED
  BY <1>3, <1>4, <1>5, <1>6, <1>7, <1>9, <1>10, <1>11, <1>12, <1>13
     DEF Next, CollectStep

LEMMA CompleteStays ==
  ASSUME BaseInv, Included, CollectionIsComplete, [Next]_allVars
  PROVE  CollectionIsComplete'
<1>1. ASSUME ~(pc' = "done" /\ status' = "ok") PROVE CollectionIsComplete'
  BY <1>1 DEF CollectionIsComplete, Ended
<1>2. CASE Publishing
  BY <1>1, <1>2, PublishingCases DEF walk
<1>3. CASE Walking
  <2>1. CASE ListReleases
    <3>1. pc = "list" /\ (pc' = "done" => status' # "ok")
      BY <2>1, ListReleasesCases DEF AnswerPage, AnswerLink, End, Again
    <3> QED
      BY <1>1, <3>1
  <2>2. CASE Begin \/ ListFails \/ CheckArchive
    BY <1>1, <2>2 DEF Begin, ListFails, CheckArchive, End, Again
  <2> QED
    BY <1>3, <2>1, <2>2 DEF Walking, WalkStep
<1>4. CASE Collect \/ ListScopes \/ ListInScope
  BY <1>1, <1>4 DEF Collect, ListScopes, ListInScope, Again, End
<1>5. CASE ListPackage \/ ScopeListed \/ AllListed
  BY <1>1, <1>5 DEF ListPackage, ScopeListed, AllListed, Again, End
<1>6. CASE BuildPackage \/ LoadPackageJson \/ GetSwiftToolVersion
  BY <1>1, <1>6 DEF BuildPackage, LoadPackageJson, GetSwiftToolVersion, Again
<1>7. CASE AllBuilt
  <2>1. /\ pc = "build" /\ todo = <<>> /\ Listings = {} /\ document' = document
        /\ UNCHANGED <<failed, blind, kind, package, current, whole, spoilt>>
    BY <1>7 DEF AllBuilt, Working, Apart, asked, store, history, work
  <2>2. ASSUME ~failed, ~spoilt, ~blind, NEW r \in whole, Concerns(r)
        PROVE  <<Version(r), Own>> \in ToSet(document[Package(r)])
    <3>1. r \in Releases
      BY DEF BaseInv, RelyInv, HistoryTypeOK
    <3>2. found[Package(r)] = <<>>
      BY <2>1, <3>1, ReleaseFacts DEF Listings
    <3>3. Version(r) \notin ToSet(found[Package(r)]) /\ r \notin ToSet(todo)
      BY <2>1, <3>2 DEF ToSet
    <3> QED
      BY <2>1, <2>2, <3>3 DEF Included
  <2> QED
    BY <2>1, <2>2, ConcernsSame DEF CollectionIsComplete
<1>8. CASE Finished \/ UNCHANGED allVars
  <2>1. UNCHANGED <<pc, status, kind, package, current, failed, blind, whole, spoilt, document>>
    BY <1>8 DEF Finished, allVars, vars, walk, asked, history, store, work
  <2> QED
    BY <2>1, ConcernsSame DEF CollectionIsComplete, Ended
<1> QED
  BY <1>2, <1>3, <1>4, <1>5, <1>6, <1>7, <1>8 DEF Next, CollectStep

LEMMA VersionsOfFacts ==
  ASSUME WorkInv, NEW p \in Packages
  PROVE  \A v : v \in ToSet(VersionsOf(p)) <=> \E x \in ToSet(document[p]) : x[1] = v
<1>1. document[p] \in Seq(Known \X {Own, Default})
  BY DEF WorkInv, WorkTypeOK
<1>2. Len(document[p]) \in Nat /\ DOMAIN document[p] = 1..Len(document[p])
  BY <1>1, LenProperties
<1>3. DOMAIN VersionsOf(p) = 1..Len(document[p])
      /\ \A i \in 1..Len(document[p]) : VersionsOf(p)[i] = document[p][i][1]
  BY DEF VersionsOf
<1> QED
  BY <1>2, <1>3 DEF ToSet

NoGhosts == \A r \in gone : \A x \in ToSet(document[Package(r)]) : x[1] # Version(r)

LEMMA GoneStays ==
  ASSUME BaseInv, GoneKept, NoGhosts, [Next]_allVars
  PROVE  GoneKept' /\ NoGhosts'
<1>0. gone \subseteq Releases /\ gone \subseteq Gone
  BY DEF BaseInv, RelyInv, HistoryTypeOK, GoneKept
<1>1. ASSUME gone' = gone, stage' = stage, document' = document,
             pc' # "tools" \/ (pc' = pc /\ todo' = todo), pc' # "idle" \/ pc' = pc
      PROVE  GoneKept' /\ NoGhosts'
  BY <1>1 DEF GoneKept, NoGhosts, Gone
<1>2. CASE Publishing
  <2>1. UNCHANGED <<pc, todo, document>> /\ gone' = gone \cap Gone'
    BY <1>2, PublishingCases DEF walk, work
  <2> QED
    BY <2>1 DEF GoneKept, NoGhosts
<1>3. CASE Walking
  <2>1. UNCHANGED <<gone, document, todo, stage>>
    BY <1>3 DEF Walking, WalkStep, Begin, ListReleases, ListFails, CheckArchive, work, store
  <2>2. pc' \notin {"tools", "idle"}
    <3>1. CASE ListReleases
      BY <3>1, ListReleasesCases DEF AnswerPage, AnswerLink, End, Again
    <3>2. CASE Begin \/ ListFails \/ CheckArchive
      BY <3>2 DEF Begin, ListFails, CheckArchive, End, Again
    <3> QED
      BY <1>3, <3>1, <3>2 DEF Walking, WalkStep
  <2> QED
    BY <1>1, <2>1, <2>2
<1>4. CASE Collect
  <2>1. /\ pc = "idle" /\ pc' \in {"scopes", "scope"} /\ gone' = Gone /\ stage' = stage
        /\ document' = document
    BY <1>4 DEF Collect, Again, Ask, store
  <2>2. \A p \in Packages : ToSet(document[p]) = {}
    BY <2>1 DEF BaseInv, WorkInv, WorkKept, ToSet
  <2>3. \A r \in Gone : Package(r) \in Packages
    BY ReleaseFacts DEF Gone
  <2>4. Gone' = Gone
    BY <2>1 DEF Gone
  <2> QED
    BY <2>1, <2>2, <2>3, <2>4 DEF GoneKept, NoGhosts
<1>5. CASE ListScopes \/ ListInScope
  BY <1>1, <1>5 DEF ListScopes, ListInScope, Again, End, Apart, store
<1>6. CASE ListPackage \/ ScopeListed
  BY <1>1, <1>6 DEF ListPackage, ScopeListed, Again, Apart, store, work
<1>7. CASE AllListed \/ BuildPackage
  <2>1. pc \in {"scope", "build"} /\ pc' \in {"build", "done"}
        /\ UNCHANGED <<gone, stage, document>>
    BY <1>7 DEF AllListed, BuildPackage, Again, End, Apart, store, work
  <2> QED
    BY <1>1, <2>1
<1>8. CASE LoadPackageJson
  <2>1. /\ pc = "build" /\ todo # <<>> /\ UNCHANGED <<gone, stage, document>>
        /\ \/ pc' = "tools" /\ todo' = todo /\ "json" \in files[Head(todo)]
           \/ pc' = "build"
    BY <1>8 DEF LoadPackageJson, Again, Apart, store
  <2>2. CASE pc' = "tools" /\ todo' = todo /\ "json" \in files[Head(todo)]
    <3>1. \A r \in gone : files[r] \subseteq {"stray"}
      BY <1>0 DEF Gone, BaseInv, RequestInv, StoreInv, FilesKept
    <3> QED
      BY <2>1, <2>2, <3>1 DEF GoneKept, NoGhosts, Gone
  <2> QED
    BY <1>1, <2>1, <2>2
<1>9. CASE GetSwiftToolVersion
  <2> DEFINE h == Head(todo)
  <2>1. PICK tools \in {Own, Default} :
          document' = [document EXCEPT ![Package(h)] = Append(@, <<Version(h), tools>>)]
    BY <1>9 DEF GetSwiftToolVersion
  <2>2. pc = "tools" /\ pc' = "build" /\ UNCHANGED <<gone, stage>>
    BY <1>9 DEF GetSwiftToolVersion, Again, Apart, store
  <2>3. /\ h \in Releases
        /\ \A p \in Packages : p # Package(h) => document'[p] = document[p]
        /\ ToSet(document'[Package(h)]) =
             ToSet(document[Package(h)]) \cup {<<Version(h), tools>>}
    BY <2>1, <2>2, Appended DEF BaseInv
  <2>4. h \notin gone
    BY <2>2 DEF GoneKept
  <2> HIDE DEF h
  <2>5. ASSUME NEW r \in gone, NEW x \in ToSet(document'[Package(r)])
        PROVE  x[1] # Version(r)
    <3>1. r = <<Package(r), Version(r)>> /\ h = <<Package(h), Version(h)>>
          /\ Package(r) \in Packages
      BY <1>0, <2>3, ReleaseFacts
    <3>2. CASE x \in ToSet(document[Package(r)])
      BY <3>2 DEF NoGhosts
    <3>3. CASE x \notin ToSet(document[Package(r)])
      <4>1. Package(r) = Package(h) /\ x = <<Version(h), tools>>
        BY <2>3, <2>5, <3>1, <3>3
      <4> QED
        BY <4>1, <3>1, <2>4
    <3> QED
      BY <3>2, <3>3
  <2> QED
    BY <1>0, <2>2, <2>5 DEF GoneKept, NoGhosts, Gone
<1>10. CASE AllBuilt
  BY <1>1, <1>10 DEF AllBuilt, End, Apart, store, work
<1>11. CASE Finished \/ UNCHANGED allVars
  BY <1>1, <1>11 DEF Finished, allVars, vars, walk, store, work
<1> QED
  BY <1>2, <1>3, <1>4, <1>5, <1>6, <1>7, <1>8, <1>9, <1>10, <1>11
     DEF Next, CollectStep

----------------------------------------------------------------------------
(* The newest version comes first. *)

LEMMA OrderlyTail ==
  ASSUME NEW S, NEW t \in Seq(S), t # <<>>, NEW p, NEW d, Orderly(p, d, t)
  PROVE  Orderly(p, d, Tail(t))
<1>1. Len(t) \in Nat /\ Len(Tail(t)) = Len(t) - 1
      /\ \A i \in 1..Len(Tail(t)) : Tail(t)[i] = t[i + 1]
  BY HeadTailProperties, LenProperties
<1>2. \A i \in 1..Len(Tail(t)) : i + 1 \in 1..Len(t)
  BY <1>1
<1>3. \A i \in 1..Len(d), j \in 1..Len(Tail(t)) :
        Package(Tail(t)[j]) = p => ~Precedes(d[i][1], Version(Tail(t)[j]))
  BY <1>1, <1>2 DEF Orderly
<1>4. ASSUME NEW i \in 1..Len(Tail(t)), NEW j \in 1..Len(Tail(t)), i < j,
             Package(Tail(t)[i]) = p, Package(Tail(t)[j]) = p
      PROVE  ~Precedes(Version(Tail(t)[i]), Version(Tail(t)[j]))
  <2>1. i + 1 < j + 1 /\ Tail(t)[i] = t[i + 1] /\ Tail(t)[j] = t[j + 1]
    BY <1>1, <1>4
  <2> QED
    BY <1>2, <1>4, <2>1 DEF Orderly
<1> QED
  BY <1>3, <1>4 DEF Orderly

LEMMA OrderlyAppend ==
  ASSUME NEW S, NEW t \in Seq(S), t # <<>>, NEW p, NEW D, NEW d \in Seq(D), NEW e \in D,
         Package(Head(t)) = p, e[1] = Version(Head(t)), Orderly(p, d, t)
  PROVE  Orderly(p, Append(d, e), Tail(t))
<1> DEFINE a == Append(d, e)
<1>0. Orderly(p, d, Tail(t))
  BY OrderlyTail
<1>1. Len(t) \in Nat \ {0} /\ Len(Tail(t)) = Len(t) - 1 /\ Head(t) = t[1]
      /\ \A i \in 1..Len(Tail(t)) : Tail(t)[i] = t[i + 1]
  BY HeadTailProperties, EmptySeq
<1>2. Len(d) \in Nat /\ Len(a) = Len(d) + 1 /\ a[Len(d) + 1] = e
      /\ \A i \in 1..Len(d) : a[i] = d[i]
  BY AppendProperties, LenProperties
<1> HIDE DEF a
<1>3. \A i \in 1..Len(a) : i \in 1..Len(d) \/ i = Len(d) + 1
  BY <1>2
<1>4. ASSUME NEW i \in 1..Len(a), NEW j \in 1..Len(a), i < j
      PROVE  ~Precedes(a[i][1], a[j][1])
  <2>1. i \in 1..Len(d)
    BY <1>2, <1>4
  <2>2. CASE j \in 1..Len(d)
    BY <1>2, <1>4, <2>1, <2>2 DEF Orderly
  <2>3. CASE j = Len(d) + 1
    <3>1. a[i] = d[i] /\ a[j] = e /\ 1 \in 1..Len(t) /\ Package(t[1]) = p
      BY <1>1, <1>2, <2>1, <2>3
    <3> QED
      BY <1>1, <2>1, <3>1 DEF Orderly
  <2> QED
    BY <1>3, <2>2, <2>3
<1>5. ASSUME NEW i \in 1..Len(a), NEW j \in 1..Len(Tail(t)), Package(Tail(t)[j]) = p
      PROVE  ~Precedes(a[i][1], Version(Tail(t)[j]))
  <2>1. CASE i \in 1..Len(d)
    BY <1>0, <1>2, <1>5, <2>1 DEF Orderly
  <2>2. CASE i = Len(d) + 1
    <3>1. 1 \in 1..Len(t) /\ j + 1 \in 1..Len(t) /\ 1 < j + 1
      BY <1>1
    <3>2. a[i] = e /\ Package(t[1]) = p /\ Package(t[j + 1]) = p
          /\ Tail(t)[j] = t[j + 1] /\ e[1] = Version(t[1])
      BY <1>1, <1>2, <1>5, <2>2
    <3> QED
      BY <3>1, <3>2 DEF Orderly
  <2> QED
    BY <1>3, <2>1, <2>2
<1> QED
  BY <1>0, <1>4, <1>5 DEF Orderly, a

\* What is sorted, greatest first, when it is a package's turn.
LEMMA SortedFacts ==
  ASSUME NEW less, Agrees(less), NEW s \in Seq(Known), ToSet(s) \subseteq Parsed
  PROVE  Descending(SortFunc(less, s))
<1>1. s \in Seq(Parsed)
  <2>1. \A i \in 1..Len(s) : s[i] \in Parsed
    BY ToSetFacts
  <2> QED
    BY <2>1
<1> QED
  BY <1>1, SortDescends

LEMMA BuiltStays ==
  ASSUME BaseInv, BuiltInOrder, [Next]_allVars
  PROVE  BuiltInOrder'
<1>0. WorkInv /\ StoreInv /\ WorkTypeOK /\ \A p : Begun(p) \subseteq Begun(p)'
  BY StoreIsKept DEF BaseInv, RequestInv, WorkInv
<1>1. ASSUME UNCHANGED <<found, document, todo>> PROVE BuiltInOrder'
  BY <1>0, <1>1 DEF BuiltInOrder
<1>2. CASE Publishing
  BY <1>1, <1>2, PublishingCases DEF work
<1>3. CASE Walking
  BY <1>1, <1>3 DEF Walking, work
<1>4. CASE Collect \/ ListScopes \/ ListInScope
  BY <1>1, <1>4 DEF Collect, ListScopes, ListInScope
<1>5. CASE ListPackage
  <2>1. pc = "package" /\ UNCHANGED <<document, todo>>
    BY <1>5 DEF ListPackage
  <2>2. todo = <<>> /\ \A p \in Packages : document[p] = <<>>
    BY <1>0, <2>1 DEF WorkInv, WorkKept
  <2>3. ToSet(<<>>) = {}
    BY DEF ToSet
  <2> QED
    BY <1>0, <2>1, <2>2, <2>3 DEF BuiltInOrder
<1>6. CASE ScopeListed \/ AllListed \/ AllBuilt
  BY <1>1, <1>6 DEF ScopeListed, AllListed, AllBuilt, work
<1>7. CASE BuildPackage
  <2>1. PICK p \in Listings :
          /\ todo' = [i \in 1..Len(SortFunc(ListLess, found[p])) |->
                        <<p, SortFunc(ListLess, found[p])[i]>>]
          /\ found' = [found EXCEPT ![p] = <<>>]
    BY <1>7 DEF BuildPackage
  <2>2. todo = <<>> /\ document' = document
    BY <1>7 DEF BuildPackage
  <2>3. /\ p \in Packages /\ found[p] \in Seq(Known) /\ found[p] # <<>>
        /\ found \in [Packages -> Seq(Known)]
    BY <1>0 DEF Listings, WorkTypeOK
  <2>4. document[p] = <<>>
    BY <2>3 DEF BuiltInOrder
  <2> DEFINE t == SortFunc(ListLess, found[p])
  <2>5. /\ t \in Seq(Known) /\ Len(t) \in Nat /\ Len(todo') = Len(t)
        /\ \A i \in 1..Len(t) : todo'[i] = <<p, t[i]>>
        /\ \A x \in ToSet(todo') : x[1] = p
    BY <2>1, <2>3, NewestFirstFacts
  <2>6. ASSUME Begun(p) \subseteq Parsed PROVE Descending(t)
    <3>1. ToSet(found[p]) \subseteq Parsed
      BY <1>0, <2>3, <2>6 DEF WorkInv, WorkKept
    <3> QED
      BY <2>3, <3>1, BothAgree, SortedFacts
  <2> HIDE DEF t
  <2>7. \A i \in 1..Len(todo') : Package(todo'[i]) = p /\ Version(todo'[i]) = t[i]
    BY <2>5 DEF Package, Version
  <2>8. ASSUME NEW q \in Packages, Begun(q) \subseteq Parsed
        PROVE  Orderly(q, document[q], todo')
    <3>1. CASE q = p
      <4>1. \A i, j \in 1..Len(todo') : i < j => ~Precedes(t[i], t[j])
        BY <2>5, <2>6, <2>8, <3>1 DEF Descending
      <4>2. Len(document[q]) = 0
        BY <2>4, <3>1
      <4> QED
        BY <2>7, <4>1, <4>2 DEF Orderly
    <3>2. CASE q # p
      <4>1. \A i, j \in 1..Len(document[q]) :
              i < j => ~Precedes(document[q][i][1], document[q][j][1])
        BY <2>8 DEF BuiltInOrder, Orderly
      <4>2. \A i \in 1..Len(todo') : Package(todo'[i]) # q
        BY <2>7, <3>2
      <4> QED
        BY <4>1, <4>2 DEF Orderly
    <3> QED
      BY <3>1, <3>2
  <2>9. ASSUME NEW q \in Packages, found'[q] # <<>>
        PROVE  document[q] = <<>> /\ \A x \in ToSet(todo') : Package(x) # q
    <3>1. q # p /\ found'[q] = found[q]
      BY <2>1, <2>3, <2>9
    <3> QED
      BY <2>5, <2>9, <3>1 DEF BuiltInOrder, Package
  <2> QED
    BY <1>0, <2>2, <2>8, <2>9 DEF BuiltInOrder
<1>8. CASE LoadPackageJson
  <2>1. todo # <<>> /\ UNCHANGED <<found, document>> /\ (todo' = todo \/ todo' = Tail(todo))
    BY <1>8 DEF LoadPackageJson
  <2>2. CASE todo' = Tail(todo)
    <3>1. todo \in Seq(Packages \X Known)
      BY <1>0 DEF WorkTypeOK
    <3>2. ToSet(Tail(todo)) \subseteq ToSet(todo)
      BY <2>1, <3>1, TailFacts
    <3>3. \A p, d : Orderly(p, d, todo) => Orderly(p, d, Tail(todo))
      BY <2>1, <3>1, OrderlyTail
    <3> QED
      BY <1>0, <2>1, <2>2, <3>2, <3>3 DEF BuiltInOrder
  <2> QED
    BY <1>1, <2>1, <2>2
<1>9. CASE GetSwiftToolVersion
  <2> DEFINE h == Head(todo)
             D == Known \X {Own, Default}
  <2>1. PICK tools \in {Own, Default} :
          document' = [document EXCEPT ![Package(h)] = Append(@, <<Version(h), tools>>)]
    BY <1>9 DEF GetSwiftToolVersion
  <2>2. pc = "tools" /\ todo' = Tail(todo) /\ found' = found
    BY <1>9 DEF GetSwiftToolVersion
  <2>3. /\ todo # <<>> /\ h \in Releases
        /\ document[Package(h)] \in Seq(D)
        /\ document'[Package(h)] = Append(document[Package(h)], <<Version(h), tools>>)
        /\ \A p \in Packages : p # Package(h) => document'[p] = document[p]
    BY <1>0, <2>1, <2>2, Appended
  <2>4. Package(h) \in Packages /\ Version(h) \in Known
    BY <2>3, ReleaseFacts
  <2> DEFINE e == <<Version(h), tools>>
  <2>5. e \in D /\ e[1] = Version(h)
    BY <2>4
  <2>6. todo \in Seq(Packages \X Known)
    BY <1>0 DEF WorkTypeOK
  <2>7. h \in ToSet(todo) /\ ToSet(Tail(todo)) \subseteq ToSet(todo)
    BY <2>3, <2>6, TailFacts
  <2>8. \A p, d : Orderly(p, d, todo) => Orderly(p, d, Tail(todo))
    BY <2>3, <2>6, OrderlyTail
  <2> HIDE DEF e, D
  <2>9. document'[Package(h)] = Append(document[Package(h)], e)
    BY <2>3 DEF e
  <2>10. Orderly(Package(h), document[Package(h)], todo)
           => Orderly(Package(h), document'[Package(h)], Tail(todo))
    <3> DEFINE d == document[Package(h)]
    <3>1. d \in Seq(D) /\ document'[Package(h)] = Append(d, e)
      BY <2>3, <2>9
    <3>2. h = Head(todo)
      OBVIOUS
    <3> HIDE DEF d, h
    <3>3. \A p : Package(h) = p => (Orderly(p, d, todo) => Orderly(p, Append(d, e), Tail(todo)))
      BY <2>3, <2>5, <2>6, <3>1, <3>2, OrderlyAppend DEF D
    <3> QED
      BY <3>1, <3>3 DEF d
  <2> HIDE DEF h
  <2>11. ASSUME NEW p \in Packages, Begun(p) \subseteq Parsed
         PROVE  Orderly(p, document'[p], Tail(todo))
    <3>1. Orderly(p, document[p], todo)
      BY <2>11 DEF BuiltInOrder
    <3> QED
      BY <2>3, <2>8, <2>10, <3>1
  <2>12. ASSUME NEW p \in Packages, found[p] # <<>>
         PROVE  document'[p] = <<>> /\ \A x \in ToSet(Tail(todo)) : Package(x) # p
    <3>1. p # Package(h)
      BY <2>7, <2>12 DEF BuiltInOrder
    <3> QED
      BY <2>3, <2>7, <2>12, <3>1 DEF BuiltInOrder
  <2> QED
    BY <1>0, <2>2, <2>11, <2>12 DEF BuiltInOrder
<1>10. CASE Finished \/ UNCHANGED allVars
  BY <1>1, <1>10 DEF Finished, allVars, work
<1> QED
  BY <1>2, <1>3, <1>4, <1>5, <1>6, <1>7, <1>8, <1>9, <1>10 DEF Next, CollectStep

LEMMA ElementsStay ==
  ASSUME BaseInv, ElementsKept, [Next]_allVars
  PROVE  ElementsKept'
<1>0. RequestInv /\ RequestInv' /\ \A p : Begun(p) \subseteq Begun(p)'
  BY StoreIsKept, RequestStays DEF BaseInv, RequestInv
<1>1. ASSUME UNCHANGED elements, UNCHANGED package \/ pc = "idle",
             pc' # "idle" \/ pc' = pc
      PROVE  ElementsKept'
  <2>1. CASE pc = "idle"
    <3>1. elements' = <<>> /\ ToSet(<<>>) = {}
      BY <1>1, <2>1 DEF ElementsKept, ToSet
    <3>2. Descending(<<>>)
      BY DEF Descending
    <3> QED
      BY <3>1, <3>2 DEF ElementsKept
  <2>2. CASE pc # "idle"
    BY <1>0, <1>1, <2>2 DEF ElementsKept
  <2> QED
    BY <2>1, <2>2
<1>2. CASE Publishing
  BY <1>1, <1>2, PublishingCases DEF asked, walk
<1>3. CASE Begin \/ Collect
  BY <1>1, <1>3 DEF Begin, Collect, Again, Ask
<1>4. CASE ListReleases
  <2>1. /\ pc = "list" /\ UNCHANGED <<store, asked, first, faults, history>>
    BY <1>4, ListReleasesCases
  <2>2. package \in Packages /\ UNCHANGED package
    BY <1>0, <2>1 DEF RequestInv, AskKept, asked
  <2>3. CASE UNCHANGED <<pc, elements>>
    BY <1>1, <2>2, <2>3
  <2>4. ASSUME NEW s, s = SortFunc(ListLess, Result), elements' = s,
               pc' \in {"list", "exists", "done"}
        PROVE  ElementsKept'
    <3>1. ToSet(s) = ToSet(Result) /\ ToSet(s) \subseteq Begun(package)
      BY <1>0, <2>2, <2>4, ReleasesFacts
    <3>2. Result \in Seq(Known)
      BY <1>0, <2>2, ResultTyped DEF RequestInv, ClientTypeOK
    <3>3. ToSet(s) \subseteq Parsed => Descending(s)
      BY <2>4, <3>1, <3>2, BothAgree, SortedFacts
    <3> QED
      BY <1>0, <2>2, <2>4, <3>1, <3>3 DEF ElementsKept
  <2>5. pc' \in {"list", "exists", "done"}
    BY <1>4, ListReleasesCases DEF AnswerPage, AnswerLink, End, Again
  <2> QED
    BY <1>4, <2>3, <2>4, <2>5, ListReleasesCases
<1>5. CASE ListFails \/ CheckArchive
  BY <1>1, <1>5 DEF ListFails, CheckArchive, End, Again, asked
<1>6. ASSUME Apart, pc' # "idle" \/ pc' = pc PROVE ElementsKept'
  BY <1>1, <1>6 DEF Apart, asked
<1>7. CASE ListScopes \/ ListInScope
  BY <1>6, <1>7 DEF ListScopes, ListInScope, Again, End
<1>8. CASE ListPackage \/ ScopeListed \/ AllListed
  BY <1>6, <1>8 DEF ListPackage, ScopeListed, AllListed, Again, End
<1>9. CASE BuildPackage \/ LoadPackageJson
  BY <1>6, <1>9 DEF BuildPackage, LoadPackageJson, Again
<1>10. CASE GetSwiftToolVersion \/ AllBuilt
  BY <1>6, <1>10 DEF GetSwiftToolVersion, AllBuilt, Again, End
<1>11. CASE Finished \/ UNCHANGED allVars
  BY <1>1, <1>11 DEF Finished, allVars, vars, asked, walk
<1> QED
  BY <1>2, <1>3, <1>4, <1>5, <1>7, <1>8, <1>9, <1>10, <1>11
     DEF Next, Walking, WalkStep, CollectStep

----------------------------------------------------------------------------
(* A walk along the list. *)

\* In an ascending list the place follows from the name.
LEMMA IncreasingPlaces ==
  ASSUME NEW s \in Seq(Known), \A i, j \in 1..Len(s) : i < j => s[i] < s[j],
         NEW i \in 1..Len(s), NEW j \in 1..Len(s), s[i] < s[j]
  PROVE  i < j
<1>0. Len(s) \in Nat /\ s[i] \in Known /\ s[j] \in Known /\ i \in Nat /\ j \in Nat
  OBVIOUS
<1>1. s[i] \in Nat /\ s[j] \in Nat
  BY <1>0, KnownAssumption
<1>2. ~(i = j) /\ ~(j < i)
  BY <1>1
<1> QED
  BY <1>0, <1>2

ListsByName ==
  backend # "maven" =>
    \A p \in Packages : \A i, j \in 1..Len(List(p)) : i < j <=> List(p)[i] < List(p)[j]

LEMMA ByNameNow == StoreInv => ListsByName
<1> SUFFICES ASSUME StoreInv, backend # "maven", NEW p \in Packages,
                    NEW i \in 1..Len(List(p)), NEW j \in 1..Len(List(p))
             PROVE  i < j <=> List(p)[i] < List(p)[j]
  BY DEF ListsByName
<1>1. PICK R \in SUBSET Releases : List(p) = ByName(OfPackage(R, p))
  <2>1. backend \in {"file", "s3"}
    BY BackendAssumption DEF StoreInv, StoreTypeOK
  <2>2. Stored \subseteq Releases /\ folders \subseteq Releases
    BY DEF Stored, StoreInv, StoreTypeOK
  <2>3. CASE backend = "file"
    BY <2>2, <2>3 DEF List
  <2>4. CASE backend = "s3"
    BY <2>2, <2>4 DEF List
  <2> QED
    BY <2>1, <2>3, <2>4
<1> DEFINE S == OfPackage(R, p)
<1>2. S \subseteq Known
  BY OfPackageFacts
<1>3. List(p) = ByName(S)
  BY <1>1
<1> HIDE DEF S
<1>4. Len(ByName(S)) = Cardinality(S)
  BY <1>2, ByNameTyped
<1>5. \A k, l \in 1..Len(List(p)) : k < l => List(p)[k] < List(p)[l]
  BY <1>2, <1>3, <1>4, ByNameIncreases
<1>6. List(p) \in Seq(Known)
  BY ListTyped
<1>7. List(p)[i] < List(p)[j] => i < j
  BY <1>5, <1>6, IncreasingPlaces
<1> QED
  BY <1>5, <1>7

LEMMA ByNameNext == StoreInv' => ListsByName'
BY ByNameNow, PTL

\* A version that is added to a catalog does not change the order of two that are
\* there, unless the first precedes the second.
LEMMA AddEntryOrder ==
  ASSUME NEW s \in Seq(Known), Distinct(s), NEW x \in Known,
         NEW i \in 1..Len(s), NEW j \in 1..Len(s), i < j,
         s[i] \in Parsed, s[j] \in Parsed, ~Precedes(s[i], s[j]),
         NEW k \in 1..Len(AddEntry(s, x)), NEW l \in 1..Len(AddEntry(s, x)),
         AddEntry(s, x)[k] = s[i], AddEntry(s, x)[l] = s[j]
  PROVE  k < l
<1>0. s # <<>> /\ Len(s) \in Nat
  BY EmptySeq
<1> DEFINE u == IF Contains(s, x) THEN s ELSE Append(s, x)
           t == SortFunc(MetadataLess, u)
<1>1. AddEntry(s, x) = t
  BY <1>0 DEF AddEntry
<1>2. u \in Seq(Known) /\ Len(u) \in Nat
  BY AppendProperties, LenProperties
<1>3. Distinct(u)
  <2>1. CASE Contains(s, x)
    BY <2>1
  <2>2. CASE ~Contains(s, x)
    <3>1. Len(Append(s, x)) = Len(s) + 1
      BY AppendProperties
    <3>2. x \notin ToSet(s)
      BY <2>2, ToSetFacts DEF Contains
    <3>3. Cardinality(ToSet(s) \cup {x}) = Cardinality(ToSet(s)) + 1
      BY <3>2, ToSetFinite, FS_AddElement
    <3>4. ToSet(Append(s, x)) = ToSet(s) \cup {x}
      BY ToSetAppend
    <3>5. Distinct(Append(s, x))
      BY <3>1, <3>3, <3>4 DEF Distinct
    <3> QED
      BY <2>2, <3>5
  <2> QED
    BY <2>1, <2>2
<1>4. i \in 1..Len(u) /\ j \in 1..Len(u) /\ u[i] = s[i] /\ u[j] = s[j]
  <2>1. Len(Append(s, x)) = Len(s) + 1
        /\ \A m \in 1..Len(s) : Append(s, x)[m] = s[m]
    BY AppendProperties
  <2> QED
    BY <1>0, <2>1
<1> HIDE DEF u
<1>5. Len(t) = Len(u)
  BY <1>2, SortTyped
<1>6. k # l
  <2> SUFFICES ASSUME k = l PROVE FALSE
    OBVIOUS
  <2>1. s[i] = s[j]
    OBVIOUS
  <2> QED
    BY <2>1, DistinctPlaces
<1>7. ~(l < k)
  <2> SUFFICES ASSUME l < k PROVE FALSE
    OBVIOUS
  <2>1. k \in 1..Len(u) /\ l \in 1..Len(u) /\ t[k] = u[i] /\ t[l] = u[j]
    BY <1>1, <1>4, <1>5
  <2>2. <<u[j], u[i]>> \notin MetadataLess
    BY <1>4, OrdersAgree
  <2>3. PICK a, b \in 1..Len(u) : a < b /\ u[a] = u[j] /\ u[b] = u[i]
    BY <1>2, <2>1, <2>2, SortStable
  <2>4. a = j /\ b = i
    BY <1>2, <1>3, <1>4, <2>3, DistinctPlaces
  <2> QED
    BY <1>0, <2>3, <2>4
<1>8. k \in Nat /\ l \in Nat
  OBVIOUS
<1> QED
  BY <1>6, <1>7, <1>8

\* A publish leaves the versions a walk relies on in line.
LEMMA InLineStays ==
  ASSUME StoreInv, StoreInv', NEW r \in Releases, PublishAct(r), backend' = backend,
         package \in Packages, package' = package,
         NEW v \in Listed(package), NEW w \in Listed(package),
         v \in Parsed, w \in Parsed, ~Precedes(v, w), InLine(v, w)
  PROVE  InLine(v, w)'
<1> SUFFICES ASSUME InList(v, w) PROVE InList(v, w)'
  BY DEF InLine
<1> DEFINE s == List(package)
           t == List(package)'
<1>1. s \in Seq(Known) /\ Distinct(s) /\ Len(s) \in Nat
  BY ListsNow DEF Lists
<1>2. t \in Seq(Known) /\ Distinct(t) /\ Len(t) \in Nat
  BY ListsNext DEF Lists
<1>3. PICK i, j \in 1..Len(s) : s[i] = v /\ s[j] = w
  <2>1. v \in ToSet(s) /\ w \in ToSet(s)
    BY DEF Listed
  <2> HIDE DEF s
  <2>2. \A x : x \in ToSet(s) <=> \E i \in 1..Len(s) : s[i] = x
    BY <1>1, ToSetFacts
  <2> QED
    BY <2>1, <2>2
<1>4. i < j
  BY <1>3 DEF InList
<1> SUFFICES ASSUME NEW k \in 1..Len(t), NEW l \in 1..Len(t), t[k] = v, t[l] = w
             PROVE  k < l
  BY DEF InList
<1>5. CASE backend # "maven"
  <2>1. v < w
    BY <1>3, <1>4, <1>5, ByNameNow DEF ListsByName
  <2>2. \A a, b \in 1..Len(t) : a < b <=> t[a] < t[b]
    BY <1>5, ByNameNext DEF ListsByName
  <2> QED
    BY <2>1, <2>2
<1>6. CASE backend = "maven"
  <2>1. s = entries[package] /\ t = entries'[package]
    BY <1>6 DEF List
  <2>2. CASE t = s
    BY <1>1, <1>3, <1>4, <2>2, DistinctPlaces
  <2>3. CASE t # s
    <3>1. entries' = [entries EXCEPT ![Package(r)] = AddEntry(@, Version(r))]
      BY <2>1, <2>3, EntriesChange
    <3>2. entries \in [Packages -> Seq(Known)] /\ Package(r) \in Packages
          /\ Version(r) \in Known
      BY ReleaseFacts DEF StoreInv, StoreTypeOK
    <3>3. package = Package(r) /\ t = AddEntry(s, Version(r))
      BY <2>1, <2>3, <3>1, <3>2
    <3> HIDE DEF s, t
    <3> QED
      BY <1>1, <1>3, <1>4, <3>2, <3>3, AddEntryOrder
  <2> QED
    BY <2>2, <2>3
<1> QED
  BY <1>5, <1>6

WalkInv == WalkKept /\ PagesKept /\ LinksKept

LEMMA WalkPublished ==
  ASSUME BaseInv, RequestInv', ElementsKept, WalkInv, Publishing
  PROVE  WalkInv'
<1>1. PICK r \in Releases : PublishAct(r)
  BY PublishingCases
<1>2. UNCHANGED <<asked, walk>> /\ Observe
  BY PublishingCases
<1>3. CASE ~AtList' \/ ~Calm'
  BY <1>3 DEF WalkInv, WalkKept, PagesKept, LinksKept
<1>4. CASE AtList' /\ Calm'
  <2>1. /\ UNCHANGED <<kind, package, per, pc, page, first, current, acc, elements, seen>>
        /\ AtList
    BY <1>2, <1>4 DEF asked, walk, AtList
  <2>2. kind \in {"pages", "links"} /\ package \in Packages /\ pc # "idle"
    BY <2>1 DEF AtList, BaseInv, RequestInv, AskKept
  <2>3. /\ steady' = steady \cap Listed(package)'
        /\ vanished' = (vanished \/ ~(Listed(package) \subseteq Listed(package)'))
        /\ odd' = (odd \/ \E v \in Listed(package)' : ~Parses(v))
    BY <1>2, <2>2 DEF Observe
  <2>4. Calm /\ Listed(package) \subseteq Listed(package)'
    BY <1>4, <2>3, Zenon DEF Calm
  <2>5. \A v \in Listed(package)' : Parses(v)
    BY <1>4, <2>3, Zenon DEF Calm
  <2>6. Listed(package)' \subseteq Parsed
    <3>1. Listed(package)' \subseteq Known
      BY <2>1, <2>2, ListsNext DEF RequestInv, Lists
    <3> QED
      BY <2>5, <3>1 DEF Parsed
  <2>7. /\ Listed(package) \subseteq Parsed
        /\ steady \subseteq Listed(package) /\ ToSet(acc) \subseteq Listed(package)
        /\ ToSet(elements) \subseteq Listed(package)
        /\ Distinct(elements)
        /\ \A i, j \in 1..Len(elements) : i < j => InLine(elements[i], elements[j])
        /\ acc # <<>> => \A v \in steady \cup ToSet(elements) :
                            v <= Last(acc) => v \in ToSet(acc)
    BY <2>1, <2>4, Zenon DEF WalkInv, WalkKept
  <2>8. Descending(elements) /\ elements \in Seq(Known)
    BY <2>7 DEF ElementsKept, BaseInv, RequestInv, ClientTypeOK
  <2>9. ASSUME NEW i \in 1..Len(elements), NEW j \in 1..Len(elements), i < j
        PROVE  InLine(elements[i], elements[j])'
    <3> DEFINE v == elements[i]
               w == elements[j]
    <3>1. v \in ToSet(elements) /\ w \in ToSet(elements)
      BY <2>8, ToSetFacts
    <3>2. v \in Listed(package) /\ w \in Listed(package) /\ v \in Parsed /\ w \in Parsed
      BY <2>7, <3>1
    <3>3. ~Precedes(v, w) /\ InLine(v, w)
      BY <2>7, <2>8, <2>9 DEF Descending
    <3>4. StoreInv /\ StoreInv' /\ backend' = backend
      BY <1>1, PublishKeeps DEF BaseInv, RequestInv
    <3>5. v' = v /\ w' = w
      BY <2>1
    <3> HIDE DEF v, w
    <3>6. \A x, y \in Known : x = v /\ y = w => InLine(x, y)'
      BY <1>1, <2>1, <2>2, <3>2, <3>3, <3>4, InLineStays
    <3>7. v \in Known /\ w \in Known
      BY <3>2 DEF Parsed
    <3> QED
      BY <3>5, <3>6, <3>7 DEF v, w
  <2>10. WalkKept'
    <3>1. ToSet(elements)' = ToSet(elements) /\ ToSet(acc)' = ToSet(acc) /\ Last(acc)' = Last(acc)
          /\ Distinct(elements)' = Distinct(elements) /\ Len(elements)' = Len(elements)
      BY <2>1 DEF Distinct
    <3>2. \A i, j \in 1..Len(elements)' : i < j => InLine(elements[i], elements[j])'
      BY <2>9, <3>1
    <3>3. steady' \subseteq Listed(package)' /\ steady' \subseteq steady
      BY <2>3
    <3> HIDE DEF Descending
    <3> QED
      BY <2>1, <2>4, <2>6, <2>7, <3>1, <3>2, <3>3 DEF WalkKept
  <2>11. steady' \subseteq steady
    BY <2>3
  <2>12. PagesKept'
    BY <2>1, <2>4, <2>11 DEF WalkInv, PagesKept
  <2>13. LinksKept'
    BY <2>1, <2>4, <2>11 DEF WalkInv, LinksKept
  <2> QED
    BY <2>10, <2>12, <2>13 DEF WalkInv
<1> QED
  BY <1>3, <1>4

LEMMA WalkBegun ==
  ASSUME BaseInv, RequestInv', ElementsKept, Begin
  PROVE  WalkInv'
<1>1. /\ pc = "idle" /\ pc' = "list" /\ UNCHANGED <<store, current, acc, elements, seen>>
      /\ page' = first'
  BY DEF Begin, Ask, Again
<1>2. current = NoVersion /\ acc = <<>> /\ elements = <<>>
  BY <1>1 DEF BaseInv, RequestInv, AskKept, AccKept, ElementsKept
<1>3. package' \in Packages /\ per' \in Nat /\ MaxInt \in Nat
  BY <1>1, AskAssumption DEF RequestInv, AskKept, ClientTypeOK
<1>4. steady' = Listed(package)' /\ odd' = \E v \in Listed(package)' : ~Parses(v)
  BY <1>1 DEF Begin, Listed, List, Stored, store, catalog
<1>5. Listed(package)' \subseteq Known
  BY <1>3, ListsNext DEF RequestInv, Lists
<1>6. Calm' => Listed(package)' \subseteq Parsed
  <2>1. Calm' => \A v \in Listed(package)' : Parses(v)
    BY <1>4, Zenon DEF Calm
  <2> QED
    BY <1>5, <2>1 DEF Parsed
<1>7. elements' = <<>> /\ acc' = <<>> /\ current' = NoVersion
  BY <1>1, <1>2
<1>8. ToSet(<<>>) = {} /\ Len(<<>>) = 0 /\ Distinct(<<>>)
  BY FS_EmptySet DEF Distinct, ToSet
<1>9. WalkKept'
  BY <1>4, <1>6, <1>7, <1>8 DEF WalkKept, Distinct
<1>10. PagesKept'
  <2>1. first' = 1 => (page' - 1) * per' <= MaxInt /\ ~(page' > 1)
    <3> SUFFICES ASSUME page' = 1 PROVE (page' - 1) * per' <= MaxInt /\ ~(page' > 1)
      BY <1>1
    <3>1. \A n \in Nat : (1 - 1) * n = 0
      OBVIOUS
    <3>2. (page' - 1) * per' = 0
      BY <1>3, <3>1
    <3>3. 0 <= MaxInt /\ ~(1 > 1)
      BY <1>3
    <3> QED
      BY <3>2, <3>3
  <2> QED
    BY <2>1 DEF PagesKept
<1>11. LinksKept'
  BY <1>7 DEF LinksKept
<1> QED
  BY <1>9, <1>10, <1>11 DEF WalkInv

LEMMA WalkSame ==
  ASSUME WalkInv, AtList' => AtList,
         UNCHANGED <<store, asked, page, first, current, acc, elements, seen, steady,
                     vanished, odd>>
  PROVE  WalkInv'
<1>1. CASE ~AtList'
  BY <1>1 DEF WalkInv, WalkKept, PagesKept, LinksKept
<1>2. CASE AtList'
  <2>1. AtList /\ Calm' = Calm /\ package' = package /\ kind' = kind /\ per' = per
    BY <1>2 DEF Calm, asked
  <2>2. List(package)' = List(package)
    BY <2>1 DEF List, Stored, store, catalog
  <2>3. \A v, w : InLine(v, w)' <=> InLine(v, w)
    BY <2>2 DEF InLine, InList
  <2>4. WalkKept'
    BY <2>1, <2>2, <2>3 DEF WalkInv, WalkKept, Listed, Distinct
  <2>5. PagesKept' /\ LinksKept'
    BY <2>1 DEF WalkInv, PagesKept, LinksKept
  <2> QED
    BY <2>4, <2>5 DEF WalkInv
<1> QED
  BY <1>1, <1>2

\* Of what a walk relies on S3 has listed all up to where it is, so whichever backend
\* it is, a list that is complete holds it, with what was in the last one.
LEMMA ResultHolds ==
  ASSUME RequestInv, WalkKept, pc = "list", Calm
  PROVE  /\ steady \cup ToSet(elements) \subseteq ToSet(Result)
         /\ ToSet(Result) \subseteq Listed(package)
<1>1. package \in Packages /\ acc \in Seq(Known) /\ StoreInv
  BY DEF RequestInv, AskKept, ClientTypeOK
<1>2. /\ steady \subseteq Listed(package) /\ ToSet(acc) \subseteq Listed(package)
      /\ ToSet(elements) \subseteq Listed(package)
      /\ acc # <<>> => \A v \in steady \cup ToSet(elements) :
                          v <= Last(acc) => v \in ToSet(acc)
  BY DEF WalkKept, AtList
<1>3. Listed(package) \subseteq Known
  BY <1>1, ListsNow DEF Lists
<1>4. CASE backend = "s3"
  <2>1. Result = acc \o KeysLeft /\ KeysLeft \in Seq(Known)
    BY <1>1, <1>4, KeysLeftFacts DEF Result
  <2>2. ToSet(Result) = ToSet(acc) \cup ToSet(KeysLeft)
    BY <1>1, <2>1, ToSetConcat
  <2>3. \A v : v \in ToSet(KeysLeft) <=>
                 v \in Listed(package) /\ (acc = <<>> \/ v > Last(acc))
    BY <1>1, KeysLeftFacts
  <2>4. acc # <<>> => Last(acc) \in Nat
    <3> SUFFICES ASSUME acc # <<>> PROVE acc[Len(acc)] \in Nat
      BY DEF Last
    <3>1. Len(acc) \in 1..Len(acc)
      BY <1>1, EmptySeq
    <3>2. acc[Len(acc)] \in Known
      BY <1>1, <3>1
    <3> QED
      BY <3>2, KnownAssumption
  <2>5. \A v \in Known : v \in Nat
    BY KnownAssumption
  <2>6. ASSUME NEW v \in steady \cup ToSet(elements) PROVE v \in ToSet(Result)
    <3>1. v \in Listed(package) /\ v \in Nat
      BY <1>2, <1>3, <2>5
    <3>2. acc = <<>> \/ v > Last(acc) \/ v <= Last(acc)
      BY <2>4, <3>1
    <3> QED
      BY <1>2, <2>2, <2>3, <3>1, <3>2
  <2> QED
    BY <1>2, <2>2, <2>3, <2>6
<1>5. CASE backend # "s3"
  BY <1>2, <1>5 DEF Result, Listed
<1> QED
  BY <1>4, <1>5

\* The order of the new list is that of the versions, and of the backend's list.
LEMMA AnswerInLine ==
  ASSUME RequestInv, WalkKept, pc = "list", Calm, NEW s, s = SortFunc(ListLess, Result)
  PROVE  /\ Descending(s)
         /\ \A i, j \in 1..Len(s) : i < j => InLine(s[i], s[j])
<1>1. package \in Packages /\ acc \in Seq(Known) /\ StoreInv /\ AccKept
  BY DEF RequestInv, AskKept, ClientTypeOK
<1>2. Result \in Seq(Known) /\ Distinct(Result) /\ Len(Result) \in Nat
  BY <1>1, ResultTyped
<1>3. ToSet(Result) \subseteq Parsed
  BY ResultHolds DEF WalkKept, AtList
<1>4. Descending(s)
  BY <1>2, <1>3, BothAgree, SortedFacts
<1>5. s \in Seq(Known) /\ Len(s) = Len(Result) /\ ToSet(s) = ToSet(Result)
  BY <1>2, SortTyped, SortKeeps
<1>6. ASSUME NEW i \in 1..Len(s), NEW j \in 1..Len(s), i < j PROVE InLine(s[i], s[j])
  <2>1. s[i] \in Parsed /\ s[j] \in Parsed
    BY <1>3, <1>5, ToSetFacts
  <2>2. CASE <<s[i], s[j]>> \in ListLess
    <3>1. Precedes(s[j], s[i])
      BY <2>1, <2>2, OrdersAgree
    <3> QED
      BY <3>1 DEF InLine
  <2>3. CASE \E a, b \in 1..Len(Result) : a < b /\ Result[a] = s[i] /\ Result[b] = s[j]
    <3>1. PICK a, b \in 1..Len(Result) : a < b /\ Result[a] = s[i] /\ Result[b] = s[j]
      BY <2>3
    <3> SUFFICES ASSUME NEW k \in 1..Len(List(package)), NEW l \in 1..Len(List(package)),
                        List(package)[k] = s[i], List(package)[l] = s[j]
                 PROVE  k < l
      BY DEF InLine, InList
    <3>2. CASE backend # "s3"
      <4>1. Result = List(package)
        BY <3>2 DEF Result
      <4>2. k = a /\ l = b
        BY <1>2, <3>1, <4>1, DistinctPlaces
      <4> QED
        BY <3>1, <4>2
    <3>3. CASE backend = "s3"
      <4>1. Result[a] < Result[b]
        BY <1>1, <3>1, <3>3, ResultIncreases
      <4> QED
        BY <1>1, <3>1, <3>3, <4>1, ByNameNow DEF ListsByName
    <3> QED
      BY <3>2, <3>3
  <2>4. \/ <<s[i], s[j]>> \in ListLess
        \/ \E a, b \in 1..Len(Result) : a < b /\ Result[a] = s[i] /\ Result[b] = s[j]
    BY <1>2, <1>5, <1>6, SortStable
  <2> QED
    BY <2>2, <2>3, <2>4
<1> QED
  BY <1>4, <1>6

\* Two versions that were listed before are listed in the order they had.
LEMMA OrderKept ==
  ASSUME RequestInv, ElementsKept, WalkKept, pc = "list", Calm,
         NEW s, s = SortFunc(ListLess, Result),
         NEW a \in 1..Len(elements), NEW b \in 1..Len(elements), a < b,
         NEW i \in 1..Len(s), NEW j \in 1..Len(s), s[i] = elements[a], s[j] = elements[b]
  PROVE  i < j
<1>1. package \in Packages /\ elements \in Seq(Known) /\ StoreInv
  BY DEF RequestInv, AskKept, ClientTypeOK
<1>2. Distinct(elements) /\ InLine(elements[a], elements[b])
      /\ ToSet(elements) \subseteq Listed(package)
      /\ ToSet(elements) \subseteq Parsed
  BY DEF WalkKept, AtList
<1>3. ~Precedes(elements[a], elements[b])
  BY <1>2 DEF ElementsKept, Descending
<1>4. Descending(s) /\ \A k, l \in 1..Len(s) : k < l => InLine(s[k], s[l])
  BY AnswerInLine
<1>5. i # j
  <2> SUFFICES ASSUME i = j PROVE FALSE
    OBVIOUS
  <2>1. elements[a] = elements[b]
    OBVIOUS
  <2>2. a = b
    BY <1>1, <1>2, <2>1, DistinctPlaces
  <2> QED
    BY <1>1, <2>2
<1>6. ~(j < i)
  <2> SUFFICES ASSUME j < i PROVE FALSE
    OBVIOUS
  <2>1. InLine(elements[b], elements[a]) /\ ~Precedes(elements[b], elements[a])
    BY <1>4 DEF Descending
  <2>2. InList(elements[b], elements[a]) /\ InList(elements[a], elements[b])
    BY <1>2, <1>3, <2>1 DEF InLine
  <2>3. elements[a] \in Listed(package) /\ elements[b] \in Listed(package)
    BY <1>1, <1>2, ToSetFacts
  <2>4. List(package) \in Seq(Known)
    BY <1>1, ListsNow DEF Lists
  <2>5. PICK k, l \in 1..Len(List(package)) :
          List(package)[k] = elements[a] /\ List(package)[l] = elements[b]
    BY <2>3, <2>4, ToSetFacts DEF Listed
  <2>6. k < l /\ l < k
    BY <2>2, <2>5 DEF InList
  <2> QED
    BY <2>4, <2>6
<1>7. i \in Nat /\ j \in Nat
  OBVIOUS
<1> QED
  BY <1>5, <1>6, <1>7

\* So none moves to an earlier place.
LEMMA NoneMovesUp ==
  ASSUME RequestInv, ElementsKept, WalkKept, pc = "list", Calm,
         NEW s, s = SortFunc(ListLess, Result)
  PROVE  \A k \in 1..Len(elements), j \in 1..Len(s) : s[j] = elements[k] => k <= j
<1>1. package \in Packages /\ elements \in Seq(Known) /\ Len(elements) \in Nat
  BY DEF RequestInv, AskKept, ClientTypeOK
<1>2. s \in Seq(Known) /\ Len(s) \in Nat /\ ToSet(s) = ToSet(Result)
  BY <1>1, ReleasesFacts
<1>3. ToSet(elements) \subseteq ToSet(s)
  BY <1>2, ResultHolds
<1> DEFINE T == {k \in Nat : k \in 1..Len(elements) =>
                               \A j \in 1..Len(s) : s[j] = elements[k] => k <= j}
<1>4. 0 \in T
  OBVIOUS
<1>5. ASSUME NEW k \in 1..Len(elements), k - 1 \in T PROVE k \in T
  <2> SUFFICES ASSUME NEW j \in 1..Len(s), s[j] = elements[k] PROVE k <= j
    BY <1>1
  <2>1. CASE k = 1
    BY <1>2, <2>1
  <2>2. CASE k # 1
    <3>1. k - 1 \in 1..Len(elements) /\ k - 1 < k
      BY <1>1, <2>2
    <3>2. PICK i \in 1..Len(s) : s[i] = elements[k - 1]
      <4>1. elements[k - 1] \in ToSet(elements)
        BY <1>1, <3>1, ToSetFacts
      <4> QED
        BY <1>2, <1>3, <4>1, ToSetFacts
    <3>3. k - 1 <= i
      BY <1>5, <3>1, <3>2
    <3>4. i < j
      BY <3>1, <3>2, OrderKept
    <3> QED
      BY <1>1, <1>2, <3>3, <3>4
  <2> QED
    BY <2>1, <2>2
<1>6. \A k \in 0..Len(elements) : k \in T
  <2> HIDE DEF T
  <2> QED
    BY <1>1, <1>4, <1>5, Inductive
<1> QED
  BY <1>1, <1>6

\* S3 lists some more.
LEMMA WalkContinues ==
  ASSUME BaseInv, RequestInv', WalkInv, pc = "list", backend = "s3",
         Len(KeysLeft) > KeysPerPage, acc' = acc \o SubSeq(KeysLeft, 1, KeysPerPage),
         UNCHANGED <<pc, page, current, elements, seen, status>>,
         UNCHANGED <<store, asked, first, faults, history>>
  PROVE  WalkInv'
<1>1. package \in Packages /\ acc \in Seq(Known) /\ RequestInv /\ StoreInv
      /\ KeysPerPage \in Nat \ {0}
  BY AskAssumption DEF BaseInv, RequestInv, AskKept, ClientTypeOK
<1>2. CASE ~Calm
  <2>1. ~Calm'
    BY <1>2 DEF Calm, history
  <2> QED
    BY <2>1 DEF WalkInv, WalkKept, PagesKept, LinksKept
<1>3. CASE Calm
  <2>1. /\ Calm' /\ AtList /\ package' = package
        /\ UNCHANGED <<pc, steady, kind, per, page, first, current, elements, seen>>
    BY <1>3 DEF AtList, Calm, history, asked
  <2>2. List(package)' = List(package)
    BY <2>1 DEF List, Stored, store, catalog
  <2>3. \A v, w : InLine(v, w)' <=> InLine(v, w)
    BY <2>2 DEF InLine, InList
  <2>4. PagesKept' /\ LinksKept'
    BY <1>3, <2>1 DEF WalkInv, PagesKept, LinksKept
  <2> DEFINE k == SubSeq(KeysLeft, 1, KeysPerPage)
             n == KeysPerPage
  <2>5. /\ k \in Seq(Known) /\ Len(k) = n
        /\ \A i \in 1..n : i \in 1..Len(KeysLeft) /\ k[i] = KeysLeft[i]
    BY <1>1, KeysTyped
  <2>6. /\ KeysLeft \in Seq(Known)
        /\ \A i, j \in 1..Len(KeysLeft) : i < j => KeysLeft[i] < KeysLeft[j]
        /\ \A v : v \in ToSet(KeysLeft) <=>
                     v \in Listed(package) /\ (acc = <<>> \/ v > Last(acc))
    BY <1>1, KeysLeftFacts
  <2> HIDE DEF k
  <2>7. acc' = acc \o k
    BY DEF k
  <2>8. ToSet(acc') = ToSet(acc) \cup ToSet(k)
    <3>1. ToSet(acc \o k) = ToSet(acc) \cup ToSet(k)
      BY <1>1, <2>5, ToSetConcat
    <3> QED
      BY <2>7, <3>1
  <2>9. n \in 1..Len(KeysLeft) /\ k[n] = KeysLeft[n] /\ n \in 1..n
    BY <1>1, <2>5
  <2>10. acc' # <<>> /\ Last(acc') = KeysLeft[n]
    <3>1. /\ Len(acc) \in Nat /\ Len(acc') = Len(acc) + n
          /\ \A i \in 1..n : acc'[Len(acc) + i] = k[i]
      BY <1>1, <2>5, <2>7, ConcatProperties
    <3>2. Len(acc') # 0
      BY <1>1, <3>1
    <3>3. acc' # <<>>
      BY <3>2
    <3> QED
      BY <2>9, <3>1, <3>3 DEF Last
  <2>11. ToSet(k) \subseteq ToSet(KeysLeft)
    <3> SUFFICES ASSUME NEW x \in ToSet(k) PROVE x \in ToSet(KeysLeft)
      OBVIOUS
    <3>1. PICK i \in 1..Len(k) : k[i] = x
      BY <2>5, ToSetFacts
    <3>2. i \in 1..Len(KeysLeft) /\ KeysLeft[i] = x
      BY <2>5, <3>1
    <3> QED
      BY <2>6, <3>2, ToSetFacts
  <2>12. /\ Listed(package) \subseteq Parsed
         /\ steady \subseteq Listed(package) /\ ToSet(acc) \subseteq Listed(package)
         /\ ToSet(elements) \subseteq Listed(package)
         /\ Distinct(elements)
         /\ \A i, j \in 1..Len(elements) : i < j => InLine(elements[i], elements[j])
         /\ acc # <<>> => \A v \in steady \cup ToSet(elements) :
                             v <= Last(acc) => v \in ToSet(acc)
    BY <1>3, <2>1, Zenon DEF WalkInv, WalkKept
  <2>13. ASSUME NEW v \in steady \cup ToSet(elements), v <= KeysLeft[n]
         PROVE  v \in ToSet(acc')
    <3>1. v \in Listed(package) /\ v \in Nat
      BY <2>12, KnownAssumption DEF Parsed
    <3>2. acc # <<>> => Last(acc) \in Nat
      <4> SUFFICES ASSUME acc # <<>> PROVE acc[Len(acc)] \in Nat
        BY DEF Last
      <4>1. Len(acc) \in 1..Len(acc)
        BY <1>1, EmptySeq
      <4>2. acc[Len(acc)] \in Known
        BY <1>1, <4>1
      <4> QED
        BY <4>2, KnownAssumption
    <3>3. CASE acc # <<>> /\ v <= Last(acc)
      BY <2>8, <2>12, <3>3
    <3>4. CASE acc = <<>> \/ v > Last(acc)
      <4>1. PICK m \in 1..Len(KeysLeft) : KeysLeft[m] = v
        BY <2>6, <3>1, <3>4, ToSetFacts
      <4>2. m <= n
        <5> SUFFICES ASSUME n < m PROVE FALSE
          BY <1>1
        <5>1. KeysLeft[n] < v /\ KeysLeft[n] \in Known
          BY <2>6, <2>9, <4>1
        <5>2. KeysLeft[n] \in Nat
          BY <5>1, KnownAssumption
        <5> QED
          BY <2>13, <3>1, <5>1, <5>2
      <4>3. m \in 1..n /\ k[m] = v
        BY <1>1, <2>5, <4>1, <4>2
      <4> QED
        BY <2>5, <2>8, <4>3, ToSetFacts
    <3> QED
      BY <3>1, <3>2, <3>3, <3>4
  <2>14. WalkKept'
    <3>1. ToSet(elements)' = ToSet(elements) /\ Distinct(elements)' = Distinct(elements)
          /\ Listed(package)' = Listed(package) /\ Len(elements)' = Len(elements)
          /\ ToSet(acc)' = ToSet(acc') /\ Last(acc)' = KeysLeft[n]
      BY <2>1, <2>2, <2>10 DEF Listed, Distinct
    <3>2. ToSet(acc') \subseteq Listed(package)
      BY <2>6, <2>8, <2>11, <2>12
    <3>3. \A v \in steady' \cup ToSet(elements)' : v <= Last(acc)' => v \in ToSet(acc)'
      BY <2>1, <2>13, <3>1
    <3> QED
      BY <2>1, <2>3, <2>12, <3>1, <3>2, <3>3 DEF WalkKept
  <2> QED
    BY <2>4, <2>14 DEF WalkInv
<1> QED
  BY <1>2, <1>3

\* What a client who reads on needs.
LEMMA ListRead ==
  ASSUME BaseInv, RequestInv', ElementsKept, WalkInv, pc = "list", Calm,
         UNCHANGED <<store, asked, history>>, AtList',
         NEW s, s = SortFunc(ListLess, Result), acc' = <<>>, elements' = s
  PROVE  WalkKept'
<1>1. RequestInv /\ WalkKept /\ package \in Packages /\ package' = package
      /\ steady' = steady
  BY DEF BaseInv, RequestInv, AskKept, WalkInv, asked, history
<1>2. List(package)' = List(package)
  BY <1>1 DEF List, Stored, store, catalog
<1>3. \A v, w : InLine(v, w)' <=> InLine(v, w)
  BY <1>2 DEF InLine, InList
<1>4. s \in Seq(Known) /\ Distinct(s) /\ ToSet(s) = ToSet(Result)
  BY <1>1, ReleasesFacts
<1>5. \A i, j \in 1..Len(s) : i < j => InLine(s[i], s[j])
  BY <1>1, AnswerInLine
<1>6. steady \subseteq Listed(package) /\ Listed(package) \subseteq Parsed
  BY <1>1 DEF WalkKept, AtList
<1>7. ToSet(s) \subseteq Listed(package)
  BY <1>1, <1>4, ResultHolds
<1>8. ToSet(<<>>) = {}
  BY DEF ToSet
<1>9. Distinct(elements)' /\ Listed(package)' = Listed(package)
      /\ ToSet(elements)' = ToSet(s) /\ ToSet(acc)' = {}
  BY <1>2, <1>4, <1>8 DEF Listed, Distinct
<1>10. \A i, j \in 1..Len(elements') : i < j => InLine(elements[i], elements[j])'
  <2>1. \A i, j \in 1..Len(elements') : i < j => InLine(elements'[i], elements'[j])
    BY <1>5
  <2> QED
    BY <1>3, <2>1
<1> QED
  BY <1>1, <1>6, <1>7, <1>9, <1>10 DEF WalkKept

\* The pages.
LEMMA PageRead ==
  ASSUME BaseInv, RequestInv', ElementsKept, WalkInv, pc = "list", Calm, kind = "pages",
         UNCHANGED <<store, asked, first, history>>, first = 1,
         NEW s, s = SortFunc(ListLess, Result), elements' = s, AnswerPage(s)
  PROVE  /\ pc' = "list" => PagesKept'
         /\ pc' = "done" /\ status' = "complete" => steady' \subseteq seen'
<1>1. RequestInv /\ WalkKept /\ PagesKept /\ package \in Packages /\ AtList
      /\ steady' = steady /\ per' = per
  BY DEF BaseInv, RequestInv, AskKept, WalkInv, asked, history, AtList
<1>2. per \in 0..MaxInt /\ page \in Nat \ {0} /\ MaxInt \in Nat
  BY <1>1, AskAssumption DEF RequestInv, ClientTypeOK
<1>3. s \in Seq(Known) /\ Len(s) \in Nat /\ Len(s) <= MaxInt /\ ToSet(s) = ToSet(Result)
  BY <1>1, ReleasesFacts
<1>4. steady \subseteq ToSet(s)
  BY <1>1, <1>3, ResultHolds
<1>5. CASE per = 0
  BY <1>1, <1>4, <1>5 DEF AnswerPage, End
<1>6. CASE per > 0 /\ Panics(page, s)
  BY <1>6 DEF AnswerPage, End
<1>7. CASE per > 0 /\ ~Panics(page, s)
  <2>1. /\ seen' = seen \cup ToSet(OnPage(page, s))
        /\ \/ /\ page < TotalPages(s) /\ page' = page + 1 /\ pc' = "list"
           \/ /\ ~(page < TotalPages(s)) /\ pc' = "done"
    BY <1>7 DEF AnswerPage, End, Again
  <2> DEFINE shown == page * per
             before == (page - 1) * per
  <2>2. before <= MaxInt /\ (page > 1 => \A v \in steady \ seen :
           \E i \in 1..Len(elements) : i > before /\ elements[i] = v)
    BY <1>1 DEF PagesKept
  <2>3. shown \in Nat /\ before \in Nat /\ (page = 1 => before = 0)
    <3>1. \A m, n \in Nat : m * n \in Nat
      OBVIOUS
    <3>2. page - 1 \in Nat /\ per \in Nat /\ page \in Nat
      BY <1>2
    <3>3. \A n \in Nat : 0 * n = 0
      OBVIOUS
    <3>4. page = 1 => page - 1 = 0
      OBVIOUS
    <3> QED
      BY <3>1, <3>2, <3>3, <3>4
  <2>4. ASSUME NEW v \in steady \ seen'
        PROVE  \E j \in 1..Len(s) : j > shown /\ s[j] = v
    <3>1. v \in steady \ seen /\ v \notin ToSet(OnPage(page, s))
      BY <2>1
    <3>2. PICK j \in 1..Len(s) : s[j] = v
      BY <1>3, <1>4, <3>1, ToSetFacts
    <3>3. j > before
      <4>1. CASE page = 1
        BY <2>3, <4>1
      <4>2. CASE page > 1
        <5>1. PICK i \in 1..Len(elements) : i > before /\ elements[i] = v
          BY <2>2, <3>1, <4>2
        <5>2. i <= j
          BY <1>1, <3>2, <5>1, NoneMovesUp
        <5> HIDE DEF before
        <5> QED
          BY <2>3, <5>1, <5>2
      <4> QED
        BY <1>2, <4>1, <4>2
    <3>4. s[j] \in ToSet(OnPage(page, s)) \/ j > shown
      BY <1>2, <1>3, <1>7, <2>2, <3>3, OnPageShows
    <3> QED
      BY <3>1, <3>2, <3>4
  <2>5. /\ page < TotalPages(s) => shown < Len(s)
        /\ ~(page < TotalPages(s)) => shown >= Len(s)
    <3>1. per \in Nat \ {0} /\ page \in Nat
      BY <1>2, <1>7
    <3>2. TotalPages(s) \in Nat
      BY <1>3, <3>1, PagesFacts
    <3>3. page < TotalPages(s) \/ page >= TotalPages(s)
      BY <3>1, <3>2
    <3> QED
      BY <1>3, <3>1, <3>2, <3>3, PagesFacts
  <2>6. CASE page < TotalPages(s) /\ page' = page + 1 /\ pc' = "list"
    <3>1. page' - 1 = page
      BY <1>2, <2>6
    <3>2. (page' - 1) * per' = shown
      BY <1>1, <3>1
    <3>3. shown <= MaxInt
      <4> HIDE DEF shown
      <4> QED
        BY <1>2, <1>3, <2>3, <2>5, <2>6
    <3> HIDE DEF shown
    <3> QED
      BY <1>1, <2>4, <2>6, <3>2, <3>3 DEF PagesKept
  <2>7. CASE ~(page < TotalPages(s)) /\ pc' = "done"
    <3> HIDE DEF shown
    <3>1. steady' \subseteq seen'
      <4> SUFFICES ASSUME NEW v \in steady \ seen' PROVE FALSE
        BY <1>1
      <4>1. PICK j \in 1..Len(s) : j > shown
        BY <2>4
      <4> QED
        BY <1>3, <2>3, <2>5, <2>7, <4>1
    <3> QED
      BY <2>7, <3>1
  <2> QED
    BY <2>1, <2>6, <2>7
<1>8. per = 0 \/ per > 0
  BY <1>2
<1> QED
  BY <1>5, <1>6, <1>7, <1>8

\* The links.
LEMMA LinkRead ==
  ASSUME BaseInv, RequestInv', ElementsKept, WalkInv, pc = "list", Calm, kind = "links",
         UNCHANGED <<store, asked, history>>,
         NEW s, s = SortFunc(ListLess, Result), s # <<>>, elements' = s, AnswerLink(s)
  PROVE  /\ pc' = "exists" => LinksKept'
         /\ pc' = "done" => steady' \subseteq seen'
<1>1. RequestInv /\ WalkKept /\ LinksKept /\ package \in Packages /\ AtList
      /\ steady' = steady
  BY DEF BaseInv, RequestInv, AskKept, WalkInv, history, AtList
<1>2. /\ s \in Seq(Known) /\ Len(s) \in Nat /\ Len(s) >= 1 /\ Distinct(s)
      /\ ToSet(s) = ToSet(Result)
  BY <1>1, ReleasesFacts, EmptySeq
<1>3. steady \cup ToSet(elements) \subseteq ToSet(s)
  BY <1>1, <1>2, ResultHolds
<1>4. elements \in Seq(Known) /\ Len(elements) \in Nat
  BY <1>1 DEF RequestInv, ClientTypeOK
<1> DEFINE here == {i \in 1..Len(s) : s[i] = current}
           next == IF current = NoVersion THEN {1} ELSE {i + 1 : i \in here}
<1>5. /\ seen' = seen \cup ({current} \ {NoVersion})
      /\ \/ next \cap 1..Len(s) = {} /\ pc' = "done"
         \/ \E i \in next : current' = s[i] /\ pc' = "exists"
            /\ next \cap 1..Len(s) # {}
  BY DEF AnswerLink, End, Again
<1>6. CASE current = NoVersion
  <2>1. next = {1} /\ 1 \in 1..Len(s)
    BY <1>2, <1>6
  <2>2. current' = s[1] /\ pc' = "exists"
    BY <1>5, <2>1
  <2>3. \A v \in steady \ seen' : \E j \in 1..Len(s) : s[j] = v
    BY <1>2, <1>3, ToSetFacts
  <2>4. LinksKept'
    BY <1>1, <2>1, <2>2, <2>3 DEF LinksKept
  <2> QED
    BY <2>2, <2>4
<1>7. CASE current # NoVersion
  <2>1. PICK a \in 1..Len(elements) :
          /\ elements[a] = current
          /\ \A v \in steady \ seen : \E b \in a..Len(elements) : elements[b] = v
    BY <1>1, <1>7 DEF LinksKept
  <2>2. PICK h \in 1..Len(s) : s[h] = current
    <3>1. current \in ToSet(elements)
      BY <1>4, <2>1, ToSetFacts
    <3> QED
      BY <1>2, <1>3, <3>1, ToSetFacts
  <2>3. here = {h}
    BY <1>2, <2>2, DistinctPlaces
  <2>4. next = {h + 1}
    BY <1>7, <2>3
  <2>5. ASSUME NEW v \in steady \ seen' PROVE \E j \in (h + 1)..Len(s) : s[j] = v
    <3>1. v \in steady \ seen /\ v # current
      BY <1>5, <1>7
    <3>2. PICK b \in a..Len(elements) : elements[b] = v
      BY <2>1, <3>1
    <3>3. b \in 1..Len(elements) /\ a < b
      BY <1>4, <2>1, <3>1, <3>2
    <3>4. PICK j \in 1..Len(s) : s[j] = v
      BY <1>2, <1>3, ToSetFacts
    <3>5. h < j
      BY <1>1, <2>1, <2>2, <3>2, <3>3, <3>4, OrderKept
    <3> QED
      BY <1>2, <3>4, <3>5
  <2>6. CASE h + 1 \in 1..Len(s)
    <3>1. current' = s[h + 1] /\ pc' = "exists"
      BY <1>5, <2>4, <2>6
    <3>2. LinksKept'
      BY <1>1, <2>5, <2>6, <3>1 DEF LinksKept
    <3> QED
      BY <3>1, <3>2
  <2>7. CASE h + 1 \notin 1..Len(s)
    <3>1. pc' = "done"
      BY <1>5, <2>4, <2>7
    <3>2. steady \subseteq seen'
      BY <1>2, <2>5, <2>7
    <3> QED
      BY <1>1, <3>1, <3>2
  <2> QED
    BY <2>6, <2>7
<1> QED
  BY <1>6, <1>7

LEMMA WalkRead ==
  ASSUME BaseInv, RequestInv', ElementsKept, WalkInv, ListReleases
  PROVE  WalkInv' /\ WalkMissesNothing'
<1>1. pc = "list" /\ UNCHANGED <<store, asked, first, faults, history>>
  BY ListReleasesCases
<1>2. CASE ~Calm
  <2>1. ~Calm'
    BY <1>1, <1>2 DEF Calm, history
  <2> QED
    BY <2>1 DEF WalkInv, WalkKept, PagesKept, LinksKept, WalkMissesNothing, Calm
<1>3. ASSUME backend = "s3", Len(KeysLeft) > KeysPerPage,
             acc' = acc \o SubSeq(KeysLeft, 1, KeysPerPage),
             UNCHANGED <<pc, page, current, elements, seen, status>>
      PROVE  WalkInv' /\ WalkMissesNothing'
  <2>1. WalkInv'
    BY <1>1, <1>3, WalkContinues
  <2> QED
    BY <1>1, <1>3, <2>1 DEF WalkMissesNothing, Ended
<1>4. ASSUME NEW s, s = SortFunc(ListLess, Result), acc' = <<>>, elements' = s, Calm,
             \/ /\ s = <<>> /\ pc' = "done" /\ status' = "notfound"
                /\ UNCHANGED <<page, current, seen>>
             \/ s # <<>> /\ kind = "pages" /\ AnswerPage(s)
             \/ s # <<>> /\ kind # "pages" /\ AnswerLink(s)
      PROVE  WalkInv' /\ WalkMissesNothing'
  <2>1. kind \in {"pages", "links"} /\ kind' = kind /\ UNCHANGED <<store, asked, history>>
        /\ first' = first
    BY <1>1 DEF BaseInv, RequestInv, AskKept, AtList, asked
  <2>2. AtList' => WalkKept'
    BY <1>1, <1>4, <2>1, ListRead
  <2>3. CASE s = <<>> /\ pc' = "done" /\ status' = "notfound"
    <3>1. ~AtList' /\ ~Ended("complete")'
      BY <2>3 DEF AtList, Ended
    <3> QED
      BY <3>1 DEF WalkInv, WalkKept, PagesKept, LinksKept, WalkMissesNothing
  <2>4. CASE kind = "pages" /\ AnswerPage(s)
    <3>1. pc' \in {"list", "done"}
      BY <2>4 DEF AnswerPage, End, Again
    <3>2. first = 1 => /\ pc' = "list" => PagesKept'
                       /\ pc' = "done" /\ status' = "complete" => steady' \subseteq seen'
      BY <1>1, <1>4, <2>1, <2>4, PageRead
    <3>3. first # 1 => PagesKept'
      BY <1>1 DEF PagesKept
    <3>4. LinksKept'
      BY <2>1, <2>4 DEF LinksKept
    <3>5. pc' = "done" => ~AtList'
      BY DEF AtList
    <3>6. ~AtList' => WalkKept' /\ PagesKept'
      BY DEF WalkKept, PagesKept
    <3>7. WalkInv'
      BY <2>2, <3>1, <3>2, <3>3, <3>4, <3>5, <3>6 DEF WalkInv
    <3>8. WalkMissesNothing'
      BY <1>1, <3>2 DEF WalkMissesNothing, Ended
    <3> QED
      BY <3>7, <3>8
  <2>5. CASE s # <<>> /\ kind # "pages" /\ AnswerLink(s)
    <3>1. pc' \in {"exists", "done"}
      BY <2>5 DEF AnswerLink, End, Again
    <3>2. /\ pc' = "exists" => LinksKept'
          /\ pc' = "done" => steady' \subseteq seen'
      BY <1>1, <1>4, <2>1, <2>5, LinkRead
    <3>3. PagesKept'
      BY <2>1, <2>5 DEF PagesKept
    <3>4. pc' = "done" => ~AtList'
      BY DEF AtList
    <3>5. ~AtList' => WalkKept' /\ LinksKept'
      BY DEF WalkKept, LinksKept
    <3>6. WalkInv'
      BY <2>2, <3>1, <3>2, <3>3, <3>4, <3>5 DEF WalkInv
    <3>7. WalkMissesNothing'
      BY <3>2 DEF WalkMissesNothing, Ended
    <3> QED
      BY <3>6, <3>7
  <2> QED
    BY <1>4, <2>3, <2>4, <2>5
<1>5. CASE Calm
  <2>1. CASE \E s : /\ s = SortFunc(ListLess, Result)
                    /\ acc' = <<>> /\ elements' = s
                    /\ \/ /\ s = <<>> /\ pc' = "done" /\ status' = "notfound"
                          /\ UNCHANGED <<page, current, seen>>
                       \/ s # <<>> /\ kind = "pages" /\ AnswerPage(s)
                       \/ s # <<>> /\ kind # "pages" /\ AnswerLink(s)
    BY <1>4, <1>5, <2>1
  <2> QED
    BY <1>3, <2>1, ListReleasesCases
<1> QED
  BY <1>2, <1>5

LEMMA WalkStays ==
  ASSUME BaseInv, ElementsKept, WalkInv, WalkMissesNothing, [Next]_allVars
  PROVE  WalkInv' /\ WalkMissesNothing'
<1>0. RequestInv'
  BY RequestStays DEF BaseInv
<1>1. ASSUME ~AtList' PROVE WalkInv'
  BY <1>1 DEF WalkInv, WalkKept, PagesKept, LinksKept
<1>2. ASSUME ~Ended("complete")' PROVE WalkMissesNothing'
  BY <1>2 DEF WalkMissesNothing
<1>3. CASE Publishing
  <2>1. pc' # "done"
    BY <1>3, PublishingCases DEF walk
  <2> QED
    BY <1>0, <1>2, <1>3, <2>1, WalkPublished DEF Ended
<1>4. CASE Begin
  <2>1. pc' # "done"
    BY <1>4 DEF Begin, Again
  <2> QED
    BY <1>0, <1>2, <1>4, <2>1, WalkBegun DEF Ended
<1>5. CASE ListReleases
  BY <1>0, <1>5, WalkRead
<1>6. CASE ListFails \/ CheckArchive
  <2>1. /\ AtList' => AtList
        /\ UNCHANGED <<store, asked, page, first, current, acc, elements, seen, steady,
                       vanished, odd>>
        /\ pc' # "done" \/ status' # "complete"
    BY <1>6 DEF ListFails, CheckArchive, End, Again, AtList
  <2> QED
    BY <1>2, <2>1, WalkSame DEF Ended
<1>7. CASE CollectStep
  <2>1. pc' \notin {"list", "exists"} /\ (pc' # "done" \/ status' # "complete")
    <3>1. CASE Collect \/ ListScopes \/ ListInScope
      BY <3>1 DEF Collect, ListScopes, ListInScope, Again, End
    <3>2. CASE ListPackage \/ ScopeListed \/ AllListed
      BY <3>2 DEF ListPackage, ScopeListed, AllListed, Again, End
    <3>3. CASE BuildPackage \/ LoadPackageJson
      BY <3>3 DEF BuildPackage, LoadPackageJson, Again
    <3>4. CASE GetSwiftToolVersion \/ AllBuilt
      BY <3>4 DEF GetSwiftToolVersion, AllBuilt, Again, End
    <3> QED
      BY <1>7, <3>1, <3>2, <3>3, <3>4 DEF CollectStep
  <2> QED
    BY <1>1, <1>2, <2>1 DEF AtList, Ended
<1>8. CASE Finished \/ UNCHANGED allVars
  <2>1. /\ AtList' => AtList
        /\ UNCHANGED <<store, asked, page, first, current, acc, elements, seen, steady,
                       vanished, odd>>
        /\ pc' = pc /\ status' = status
    BY <1>8 DEF Finished, allVars, vars, walk, history, AtList
  <2> QED
    BY <2>1, WalkSame DEF WalkMissesNothing, Ended
<1> QED
  BY <1>3, <1>4, <1>5, <1>6, <1>7, <1>8 DEF Next, Walking, WalkStep

----------------------------------------------------------------------------
(* Later pages, the order of lists, and what is not in a collection. *)

LEMMA NoLaterPageStays ==
  ASSUME BaseInv, NoLaterPage, [Next]_allVars
  PROVE  NoLaterPage'
<1>0. RequestInv /\ RequestInv'
  BY RequestStays DEF BaseInv
<1>1. ASSUME UNCHANGED <<first, per, page, seen>>, status' = status \/ status' # "panic"
      PROVE  NoLaterPage'
  BY <1>1 DEF NoLaterPage, Overflows, Wrapped
<1>2. CASE Publishing
  BY <1>1, <1>2, PublishingCases DEF asked, walk
<1>3. CASE Begin \/ Collect
  <2>1. pc = "idle" /\ seen' = seen /\ status' = status /\ page' = first'
    BY <1>3 DEF Begin, Collect, Ask, Again
  <2> QED
    BY <1>0, <2>1 DEF NoLaterPage, RequestInv, AskKept
<1>4. CASE ListReleases
  <2>1. pc = "list" /\ UNCHANGED <<store, asked, first, faults, history>>
    BY <1>4, ListReleasesCases
  <2>2. package \in Packages /\ per \in 0..MaxInt /\ first \in Nat \ {0}
        /\ per' = per /\ first' = first
    BY <1>0, <2>1, AskAssumption DEF RequestInv, AskKept, asked, ClientTypeOK
  <2>3. CASE UNCHANGED <<page, seen, status>>
    BY <1>1, <2>2, <2>3
  <2>4. ASSUME NEW s, s = SortFunc(ListLess, Result), s # <<>>,
               \/ kind = "pages" /\ AnswerPage(s)
               \/ kind # "pages" /\ AnswerLink(s)
        PROVE  NoLaterPage'
    <3>1. s \in Seq(Known) /\ Len(s) \in Nat /\ Len(s) <= Cardinality(Releases)
      BY <1>0, <2>2, <2>4, ReleasesFacts
    <3>2. Len(s) >= 1 /\ Cardinality(Releases) \in Nat
      BY <2>4, <3>1, EmptySeq, BegunBound
    <3> SUFFICES ASSUME first > Cardinality(Releases), ~Overflows(first * per)
                 PROVE  page' = first /\ seen' = {} /\ status' # "panic"
      BY <2>2 DEF NoLaterPage, Overflows, Wrapped
    <3>3. first > 1 /\ first > Len(s)
      BY <2>2, <3>1, <3>2
    <3>4. per \in Nat \ {0} /\ kind = "pages"
      BY <1>0, <2>2, <3>3, AskAssumption DEF RequestInv, AskKept
    <3>5. page = first /\ seen = {} /\ status # "panic"
      BY DEF NoLaterPage
    <3>6. OnPage(first, s) = <<>> /\ ~Panics(first, s) /\ ~(first < TotalPages(s))
      BY <2>2, <3>1, <3>3, <3>4, BeyondTheEnd
    <3>7. ToSet(<<>>) = {}
      BY DEF ToSet
    <3> QED
      BY <2>4, <3>4, <3>5, <3>6, <3>7 DEF AnswerPage, End
  <2>5. ASSUME status' = "notfound", UNCHANGED <<page, seen>> PROVE NoLaterPage'
    BY <1>1, <2>2, <2>5
  <2>6. CASE UNCHANGED <<pc, page, current, elements, seen, status>>
    BY <2>3, <2>6
  <2>7. ASSUME NEW s, s = SortFunc(ListLess, Result),
               \/ s = <<>> /\ status' = "notfound" /\ UNCHANGED <<page, current, seen>>
               \/ s # <<>> /\ kind = "pages" /\ AnswerPage(s)
               \/ s # <<>> /\ kind # "pages" /\ AnswerLink(s)
        PROVE  NoLaterPage'
    <3>1. CASE s = <<>> /\ status' = "notfound" /\ UNCHANGED <<page, current, seen>>
      <4>1. UNCHANGED <<page, seen>>
        BY <3>1
      <4> QED
        BY <2>5, <3>1, <4>1
    <3>2. CASE s # <<>> /\ kind = "pages" /\ AnswerPage(s)
      BY <2>4, <2>7, <3>2
    <3>3. CASE s # <<>> /\ kind # "pages" /\ AnswerLink(s)
      BY <2>4, <2>7, <3>3
    <3> QED
      BY <2>7, <3>1, <3>2, <3>3
  <2> QED
    BY <1>4, <2>6, <2>7, ListReleasesCases
<1>5. CASE ListFails \/ CheckArchive
  BY <1>1, <1>5 DEF ListFails, CheckArchive, End, Again, asked
<1>6. ASSUME Apart, status' = status \/ status' # "panic" PROVE NoLaterPage'
  BY <1>1, <1>6 DEF Apart, asked
<1>7. CASE ListScopes \/ ListInScope
  BY <1>6, <1>7 DEF ListScopes, ListInScope, Again, End
<1>8. CASE ListPackage \/ ScopeListed \/ AllListed
  BY <1>6, <1>8 DEF ListPackage, ScopeListed, AllListed, Again, End
<1>9. CASE BuildPackage \/ LoadPackageJson
  BY <1>6, <1>9 DEF BuildPackage, LoadPackageJson, Again
<1>10. CASE GetSwiftToolVersion \/ AllBuilt
  BY <1>6, <1>10 DEF GetSwiftToolVersion, AllBuilt, Again, End
<1>11. CASE Finished \/ UNCHANGED allVars
  BY <1>1, <1>11 DEF Finished, allVars, vars, asked, walk
<1> QED
  BY <1>2, <1>3, <1>4, <1>5, <1>7, <1>8, <1>9, <1>10, <1>11
     DEF Next, Walking, WalkStep, CollectStep

LEMMA NewestFirstHolds ==
  ASSUME BaseInv, BuiltInOrder, ElementsKept
  PROVE  NewestFirst
<1> SUFFICES ASSUME NEW p \in Packages,
                    \A r \in Releases :
                      Package(r) = p /\ stage[r] # "none" => Parses(Version(r))
             PROVE  /\ Descending(VersionsOf(p))
                    /\ p = package => Descending(elements)
  BY DEF NewestFirst
<1>1. Begun(p) \subseteq Parsed
  <2> SUFFICES ASSUME NEW v \in Begun(p) PROVE v \in Parsed
    OBVIOUS
  <2>1. v \in Known /\ <<p, v>> \in Releases /\ stage[<<p, v>>] # "none"
    BY DEF Begun
  <2>2. Package(<<p, v>>) = p /\ Version(<<p, v>>) = v
    BY DEF Package, Version
  <2> QED
    BY <2>1, <2>2 DEF Parsed
<1>2. Orderly(p, document[p], todo)
  BY <1>1 DEF BuiltInOrder
<1>3. document[p] \in Seq(Known \X {Own, Default})
  BY DEF BaseInv, WorkInv, WorkTypeOK
<1>4. /\ Len(document[p]) \in Nat /\ Len(VersionsOf(p)) = Len(document[p])
      /\ \A i \in 1..Len(document[p]) : VersionsOf(p)[i] = document[p][i][1]
  <2> DEFINE d == document[p]
             f == [i \in 1..Len(d) |-> d[i][1]]
  <2>1. Len(d) \in Nat
    BY <1>3, LenProperties
  <2>2. f = VersionsOf(p)
    BY DEF VersionsOf
  <2> HIDE DEF d
  <2>3. f \in Seq({f[i] : i \in 1..Len(d)}) /\ Len(f) = Len(d)
    <3>1. DOMAIN f = 1..Len(d) /\ \A i \in 1..Len(d) : f[i] \in {f[j] : j \in 1..Len(d)}
      OBVIOUS
    <3>2. f \in [1..Len(d) -> {f[i] : i \in 1..Len(d)}]
      BY <3>1
    <3>3. f \in Seq({f[i] : i \in 1..Len(d)})
      BY <2>1, <3>2, SeqDef
    <3> QED
      BY <2>1, <3>1, <3>3, LenProperties
  <2> QED
    BY <2>1, <2>2, <2>3 DEF d
<1>5. Descending(VersionsOf(p))
  BY <1>2, <1>4 DEF Orderly, Descending
<1>6. p = package => Descending(elements)
  BY <1>1 DEF ElementsKept
<1> QED
  BY <1>5, <1>6

LEMMA GhostsHold ==
  ASSUME BaseInv, NoGhosts
  PROVE  CollectionHasNoGhosts
<1> SUFFICES ASSUME NEW r \in gone PROVE Version(r) \notin ToSet(VersionsOf(Package(r)))
  BY DEF CollectionHasNoGhosts
<1>1. r \in Releases /\ Package(r) \in Packages
  BY ReleaseFacts DEF BaseInv, RelyInv, HistoryTypeOK
<1>2. \A x \in ToSet(document[Package(r)]) : x[1] # Version(r)
  BY DEF NoGhosts
<1> QED
  BY <1>1, <1>2, VersionsOfFacts DEF BaseInv

----------------------------------------------------------------------------
(* The invariants hold in every behaviour. *)

\* All that is needed of one state for the next.
Inv ==
  /\ BaseInv
  /\ Gathered /\ NotFoundIsTrue
  /\ Included /\ CollectionIsComplete
  /\ GoneKept /\ NoGhosts
  /\ BuiltInOrder /\ ElementsKept
  /\ NoLaterPage
  /\ WalkInv /\ WalkMissesNothing

\* What Init says of the storage, apart from the client.
LEMMA InitStore ==
  ASSUME Init
  PROVE  StoreInv
<1>1. backend \in Backends /\ cleanup = [r \in Releases |-> <<>>] /\ publishes = 0
      /\ spoilt = FALSE /\ draft = {}
  BY DEF Init, StoreInit
<1>2. PICK R \in Before :
        /\ files = [r \in Releases |->
                      IF r \in R THEN {"archive", "manifest", "json"} ELSE {}]
        /\ folders = IF backend = "file" THEN R ELSE {}
        /\ entries = [p \in Packages |->
                        IF backend = "maven"
                        THEN SortFunc(MetadataLess, ByName(OfPackage(R, p)))
                        ELSE <<>>]
        /\ index = IF backend = "maven" THEN {Package(r) : r \in R} ELSE {}
        /\ stage = [r \in Releases |-> IF r \in R THEN "kept" ELSE "none"]
  BY DEF Init, StoreInit
<1>3. R \subseteq Releases
  BY <1>2, ReleaseAssumption
<1>4. \A r \in R : r \in Releases /\ Package(r) \in Packages /\ Version(r) \in Known
                   /\ r = <<Package(r), Version(r)>>
  BY <1>3, ReleaseFacts
<1>5. ASSUME NEW p \in Packages
      PROVE  /\ entries[p] \in Seq(Known) /\ Distinct(entries[p])
             /\ \A v \in ToSet(entries[p]) : <<p, v>> \in R
             /\ backend = "maven" => \A v : <<p, v>> \in R => v \in ToSet(entries[p])
  <2> DEFINE S == OfPackage(R, p)
             b == ByName(S)
             s == SortFunc(MetadataLess, b)
  <2>1. S \subseteq Known /\ \A v : v \in S <=> <<p, v>> \in R
    BY <1>3, OfPackageFacts
  <2> HIDE DEF S
  <2>2. b \in Seq(S) /\ Len(b) = Cardinality(S) /\ ToSet(b) = S
    BY <2>1, ByNameTyped, ByNameKeeps
  <2>3. Distinct(b)
    BY <2>2 DEF Distinct
  <2> HIDE DEF b
  <2>4. s \in Seq(S) /\ ToSet(s) = S /\ Distinct(s)
    BY <2>2, <2>3, SortTyped, SortKeeps, SortDistinct
  <2>5. s \in Seq(Known)
    BY <2>1, <2>4, SeqDef
  <2>6. entries[p] = IF backend = "maven" THEN s ELSE <<>>
    BY <1>2 DEF s, b, S
  <2> HIDE DEF s
  <2>7. <<>> \in Seq(Known) /\ ToSet(<<>>) = {} /\ Len(<<>>) = 0 /\ Cardinality({}) = 0
    BY FS_EmptySet DEF ToSet
  <2> QED
    BY <2>1, <2>4, <2>5, <2>6, <2>7 DEF Distinct
<1>6. StoreTypeOK
  <2>1. entries \in [Packages -> Seq(Known)]
    BY <1>2, <1>5
  <2>2. cleanup \in [Releases -> Seq(AllFiles)]
    BY <1>1
  <2>3. files \in [Releases -> SUBSET AllFiles] /\ stage \in [Releases -> Stages]
    BY <1>2 DEF AllFiles, Stages
  <2>4. folders \subseteq Releases /\ index \subseteq Packages /\ draft \subseteq Packages
    BY <1>1, <1>2, <1>3, <1>4
  <2>5. publishes \in 0..MaxPublishes
    BY <1>1, BoundAssumption
  <2>6. spoilt \in BOOLEAN
    BY <1>1
  <2> QED
    BY <1>1, <2>1, <2>2, <2>3, <2>4, <2>5, <2>6 DEF StoreTypeOK
<1>7. \A r \in Releases : /\ stage[r] = IF r \in R THEN "kept" ELSE "none"
                          /\ files[r] = IF r \in R THEN AllFiles \ {"stray"} ELSE {}
  BY <1>2 DEF AllFiles
<1>8. FilesKept
  BY <1>7 DEF FilesKept, AllFiles
<1>9. ListedKept
  BY <1>2, <1>3, <1>5, <1>7 DEF ListedKept
<1>10. HeldListed
  <2>1. ASSUME NEW r \in Releases, stage[r] # "none" PROVE r \in R
    BY <1>7, <2>1
  <2>2. \A r \in Releases : Filed(r) \/ Entered(r) => stage[r] # "none"
    BY DEF Held, Filed, Entered
  <2>3. \A r \in Releases : stage[r] # "indexing"
    BY <1>7
  <2>4. Indexed = index
    BY <2>3 DEF Indexed, Rewriting
  <2> QED
    BY <1>2, <1>4, <1>5, <2>1, <2>2, <2>3, <2>4 DEF HeldListed
<1> QED
  BY <1>6, <1>8, <1>9, <1>10 DEF StoreInv

LEMMA InitRequest ==
  ASSUME Init
  PROVE  BaseInv
<1> USE DEF Init, StoreInit
<1>1. StoreInv
  BY InitStore
<1>2. <<>> \in Seq(Known) /\ ToSet(<<>>) = {} /\ Len(<<>>) = 0
      /\ <<>> \in Seq(Packages \X Known) /\ <<>> \in Seq(Known \X {Own, Default})
  BY DEF ToSet
<1>3. ClientTypeOK
  BY <1>2, AskAssumption, BoundAssumption DEF ClientTypeOK, Labels, Ends
<1>4. AskKept
  BY DEF AskKept, AtList, AtCollect
<1>5. AccKept
  BY <1>2 DEF AccKept
<1>6. WorkTypeOK
  BY <1>2 DEF WorkTypeOK
<1>7. WorkKept
  BY <1>2 DEF WorkKept
<1>8. HistoryTypeOK
  BY DEF HistoryTypeOK
<1>9. FirmKept /\ WholeKept
  BY DEF FirmKept, WholeKept
<1> QED
  BY <1>1, <1>3, <1>4, <1>5, <1>6, <1>7, <1>8, <1>9
     DEF BaseInv, RequestInv, WorkInv, RelyInv

LEMMA InitRest ==
  ASSUME Init
  PROVE  /\ Gathered /\ NotFoundIsTrue /\ Included /\ CollectionIsComplete
         /\ GoneKept /\ NoGhosts /\ BuiltInOrder /\ ElementsKept /\ NoLaterPage
         /\ WalkKept /\ PagesKept /\ LinksKept /\ WalkMissesNothing
<1> USE DEF Init, StoreInit
<1>1. pc = "idle" /\ seen = {} /\ status = "none" /\ page = first /\ gone = {}
      /\ elements = <<>> /\ todo = <<>>
      /\ \A p \in Packages : found[p] = <<>> /\ document[p] = <<>>
  OBVIOUS
<1> USE DEF Init, StoreInit
<1>2. Len(<<>>) = 0 /\ ToSet(<<>>) = {}
  BY DEF ToSet
<1>3. Descending(<<>>)
  BY <1>2 DEF Descending
<1>4. \A p : Orderly(p, <<>>, <<>>)
  BY <1>2 DEF Orderly
<1> QED
  BY <1>1, <1>2, <1>3, <1>4
     DEF Gathered, NotFoundIsTrue, Included, CollectionIsComplete, GoneKept, NoGhosts,
         BuiltInOrder, ElementsKept, NoLaterPage, WalkKept, PagesKept, LinksKept,
         WalkMissesNothing, Ended, AtList

LEMMA InvBegins == Init => Inv
BY InitRequest, InitRest DEF Inv, WalkInv

LEMMA BaseStays ==
  ASSUME BaseInv, [Next]_allVars
  PROVE  BaseInv'
<1>1. RequestInv /\ WorkInv /\ RelyInv
  BY DEF BaseInv
<1>2. RequestInv' /\ WorkInv' /\ RelyInv'
  BY <1>1, RequestStays, WorkStays, RelyStays
<1> QED
  BY <1>2 DEF BaseInv

LEMMA InvStays == Inv /\ [Next]_allVars => Inv'
<1> SUFFICES ASSUME Inv, [Next]_allVars PROVE Inv'
  OBVIOUS
<1> USE DEF Inv
<1>1. BaseInv'
  BY BaseStays
<1>2. Gathered' /\ NotFoundIsTrue'
  BY GatheredStays, NotFoundStays
<1>3. Included' /\ CollectionIsComplete'
  BY IncludedStays, CompleteStays
<1>4. GoneKept' /\ NoGhosts'
  BY GoneStays
<1>5. BuiltInOrder' /\ ElementsKept'
  BY BuiltStays, ElementsStay
<1>6. NoLaterPage'
  BY NoLaterPageStays
<1>7. WalkInv' /\ WalkMissesNothing'
  BY WalkStays
<1> QED
  BY <1>1, <1>2, <1>3, <1>4, <1>5, <1>6, <1>7

LEMMA InvHolds == Spec => []Inv
BY InvBegins, InvStays, PTL DEF Spec, allVars

\* Every variable of the lists and the collections holds what it is meant to hold,
\* in whatever order publishes and requests take turns.
THEOREM CollectionsTypeCorrect == Spec => []TypeOK
<1>1. Inv => TypeOK
  BY TypeParts DEF Inv, BaseInv, RequestInv, WorkInv, RelyInv, StoreInv
<1> QED
  BY <1>1, InvHolds, PTL

\* A client that reads the list to its end, page by page or along the links, has
\* been told of every release that was listed all the time, however large a page is
\* and whatever is published meanwhile.  It is the one theorem that needs the list to
\* be sorted by insertion, which keeps versions that compare equal in their order:
\* of more than twelve slices.SortFunc does not promise that.
THEOREM WalksMissNothing == Spec => []WalkMissesNothing
<1>1. Inv => WalkMissesNothing
  BY DEF Inv
<1> QED
  BY <1>1, InvHolds, PTL

\* A page after the last is empty, and asking for it does not cut the connection
\* unless its start does not fit an int.
THEOREM LaterPagesAreEmpty == Spec => []PagesHaveAnEnd
<1>1. Inv => PagesHaveAnEnd
  BY DEF Inv, NoLaterPage, PagesHaveAnEnd
<1> QED
  BY <1>1, InvHolds, PTL

\* Nobody is told that there is nothing where a release had been accepted before the
\* request came, unless a call or an update of the Maven catalog has failed, or
\* Maven's index was asked for while a publish had deleted it.
THEOREM NotFoundOnlyIfNone == Spec => []NotFoundIsTrue
<1>1. Inv => NotFoundIsTrue
  BY DEF Inv
<1> QED
  BY <1>1, InvHolds, PTL

\* What is accepted with its files and not disturbed while a collection is gathered
\* is in it, with its own tools version, under the same conditions.
THEOREM CollectionsAreComplete == Spec => []CollectionIsComplete
<1>1. Inv => CollectionIsComplete
  BY DEF Inv
<1> QED
  BY <1>1, InvHolds, PTL

\* What is not there while a collection is gathered is not in it, listed or not.
THEOREM CollectionsHaveNoGhosts == Spec => []CollectionHasNoGhosts
<1>1. Inv => CollectionHasNoGhosts
  BY GhostsHold DEF Inv
<1> QED
  BY <1>1, InvHolds, PTL

\* Lists and collections are from the newest version down if all versions of the
\* package parse.
THEOREM ListsAreNewestFirst == Spec => []NewestFirst
<1>1. Inv => NewestFirst
  BY NewestFirstHolds DEF Inv
<1> QED
  BY <1>1, InvHolds, PTL
=============================================================================
