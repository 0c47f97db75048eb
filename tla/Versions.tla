------------------------------ MODULE Versions ------------------------------
(***************************************************************************)
(* The order of versions (models/models.go, controller/utils.go) and the   *)
(* two ways lists of them are sorted.  Nothing checks a version when it is *)
(* published, so some do not parse.                                        *)
(*                                                                         *)
(* A version is a number, its place in the order names are listed in.  Its *)
(* text is what ParseVersion looks at: the parts between the dots of what  *)
(* is before the first dash, and what is between and after the dashes,     *)
(* which strings.Compare orders as numbers.                                *)
(***************************************************************************)
EXTENDS Integers, Sequences, FiniteSets, SequencesExt, FiniteSetsExt

CONSTANTS
  Known,  \* the versions
  Text    \* what each of them looks like

\* A part that is no number, and a suffix that is empty.
NotANumber == -1
NoSuffix   == 0

ASSUME KnownAssumption == Known \subseteq Nat /\ IsFiniteSet(Known)
ASSUME TextAssumption  ==
  Text \in [Known -> [parts : Seq(Nat \cup {NotANumber}), suffixes : Seq(Nat)]]

Triple == [major : Nat, minor : Nat, patch : Nat, suffix : Nat]

\* At most one suffix, which is not empty, and no more than three parts count.
Parses(v) ==
  /\ Len(Text[v].suffixes) <= 1
  /\ \A i \in 1..Len(Text[v].suffixes) : Text[v].suffixes[i] # NoSuffix
  /\ \A i \in 1..Len(Text[v].parts) : i <= 3 => Text[v].parts[i] # NotANumber

Part(v, i) == IF i <= Len(Text[v].parts) THEN Text[v].parts[i] ELSE 0

ParseVersion(v) ==
  [major |-> Part(v, 1), minor |-> Part(v, 2), patch |-> Part(v, 3),
   suffix |-> IF Text[v].suffixes = <<>> THEN NoSuffix ELSE Text[v].suffixes[1]]

\* Mutant of Compare: a version with a suffix is greater than the one without.
CompareSuffixLast(a, b) ==
  IF a.major # b.major THEN a.major - b.major
  ELSE IF a.minor # b.minor THEN a.minor - b.minor
  ELSE IF a.patch # b.patch THEN a.patch - b.patch
  ELSE a.suffix - b.suffix

\* Version.Compare: negative if a precedes b.
Compare(a, b) ==
  IF a.major # b.major THEN a.major - b.major
  ELSE IF a.minor # b.minor THEN a.minor - b.minor
  ELSE IF a.patch # b.patch THEN a.patch - b.patch
  ELSE IF a.suffix = b.suffix THEN 0
  ELSE IF a.suffix # NoSuffix /\ b.suffix # NoSuffix THEN a.suffix - b.suffix
  ELSE IF a.suffix # NoSuffix THEN -1 ELSE 1

\* The comparison of listElements and sortVersionsDesc, greatest first: a
\* version that does not parse is equal to every other.
ListOrder(v, w) ==
  IF Parses(v) /\ Parses(w) THEN Compare(ParseVersion(w), ParseVersion(v)) ELSE 0

\* The comparison of SortVersions: a version that does not parse comes last.
MetadataOrder(v, w) ==
  IF ~Parses(v) THEN 1
  ELSE IF ~Parses(w) THEN -1
  ELSE Compare(ParseVersion(w), ParseVersion(v))

\* Who compares less than whom.
ListLess     == {p \in Known \X Known : ListOrder(p[1], p[2]) < 0}
MetadataLess == {p \in Known \X Known : MetadataOrder(p[1], p[2]) < 0}

\* slices.SortFunc sorts up to twelve elements by insertion: each is moved to the
\* left as long as it compares less than its neighbour.  (From a set of one TLC
\* takes what is sorted so far as a value.)
Stays(less, s, v) == {i \in 1..Len(s) : <<v, s[i]>> \notin less}

Insert(less, s, v) == InsertAt(s, 1 + Max({0} \cup Stays(less, s, v)), v)

SortFunc(less, s) ==
  LET sorted[n \in 0..Len(s)] ==
        IF n = 0 THEN <<>>
        ELSE CHOOSE t \in {Insert(less, u, s[n]) : u \in {sorted[n - 1]}} : TRUE
  IN sorted[Len(s)]

\* Names in the order in which directories and prefixes are listed.
ByName(S) ==
  [i \in 1..Cardinality(S) |-> CHOOSE v \in S : Cardinality({w \in S : w < v}) = i - 1]

\* Who precedes whom, in so many words.
Precedes(v, w) ==
  LET key(x) == LET p == ParseVersion(x) IN
                <<p.major, p.minor, p.patch,
                  IF p.suffix = NoSuffix THEN 1 ELSE 0, p.suffix>>
  IN \E i \in 1..5 : /\ key(v)[i] < key(w)[i]
                     /\ \A j \in 1..(i - 1) : key(v)[j] = key(w)[j]

Descending(s) ==
  \A i, j \in 1..Len(s) : i < j => ~Precedes(s[i], s[j])
=============================================================================
