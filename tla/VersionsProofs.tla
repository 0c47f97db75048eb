--------------------------- MODULE VersionsProofs ---------------------------
(***************************************************************************)
(* Proofs about the operators of Versions: what sorting by insertion does  *)
(* to a list whatever the order, what it does if the order is one, and the *)
(* lists of names.                                                         *)
(***************************************************************************)
EXTENDS Versions, SequenceTheorems, FiniteSetTheorems, WellFoundedInduction, TLAPS

----------------------------------------------------------------------------
\* Induction, with the set of the numbers a fact holds of in place of the fact.

LEMMA Least ==
  ASSUME NEW T, T \subseteq Nat, T # {}
  PROVE  \E x \in T : \A y \in T : x <= y
<1> DEFINE R == OpToRel(<, Nat)
<1>1. IsWellFoundedOn(R, Nat)
  BY NatLessThanWellFounded
<1>2. \A x, y \in Nat : x < y => <<x, y>> \in R
  BY DEF OpToRel
<1> HIDE DEF R
<1>3. PICK x \in T : \A y \in T : ~ (<<y, x>> \in R)
  BY <1>1, WFMin
<1>4. ASSUME NEW y \in T PROVE x <= y
  <2>1. x \in Nat /\ y \in Nat /\ ~ (<<y, x>> \in R)
    BY <1>3, <1>4
  <2>2. ~ (y < x)
    BY <1>2, <2>1
  <2> QED
    BY <2>1, <2>2
<1> QED
  BY <1>4

LEMMA Inductive ==
  ASSUME NEW n \in Nat, NEW T, 0 \in T,
         \A k \in 1..n : k - 1 \in T => k \in T
  PROVE  \A k \in 0..n : k \in T
<1> DEFINE U == {k \in 0..n : k \notin T}
<1> SUFFICES ASSUME U # {} PROVE FALSE
  OBVIOUS
<1>0. U \subseteq Nat /\ U # {}
  OBVIOUS
<1> HIDE DEF U
<1>1. PICK k \in U : \A j \in U : k <= j
  BY <1>0, Least
<1> USE DEF U
<1>2. k \in 1..n /\ k - 1 \in 0..n /\ k - 1 \notin U
  BY <1>1
<1> QED
  BY <1>1, <1>2

\* The greatest of finitely many numbers is one of them.
LEMMA MaxFacts ==
  ASSUME NEW n \in Nat, NEW T, T \subseteq 0..n, T # {}
  PROVE  Max(T) \in T /\ \A x \in T : Max(T) >= x
<1> DEFINE U == {u \in 0..n : n - u \in T}
<1>1. U \subseteq Nat /\ \A x \in T : n - x \in U
  OBVIOUS
<1>2. U # {}
  BY <1>1
<1> HIDE DEF U
<1>3. PICK u \in U : \A w \in U : u <= w
  BY <1>1, <1>2, Least
<1>4. u \in 0..n /\ n - u \in T
  BY <1>3 DEF U
<1>5. \A x \in T : n - u >= x
  BY <1>1, <1>3, <1>4
<1> QED
  BY <1>4, <1>5 DEF Max

----------------------------------------------------------------------------
\* Insertion.

LEMMA InsertAtFacts ==
  ASSUME NEW S, NEW s \in Seq(S), NEW v \in S, NEW at \in 1..Len(s) + 1
  PROVE  /\ InsertAt(s, at, v) \in Seq(S)
         /\ Len(InsertAt(s, at, v)) = Len(s) + 1
         /\ \A i \in 1..Len(s) + 1 :
              InsertAt(s, at, v)[i] =
                IF i < at THEN s[i] ELSE IF i = at THEN v ELSE s[i - 1]
<1> DEFINE l == SubSeq(s, 1, at - 1)
           r == SubSeq(s, at, Len(s))
           m == l \o <<v>>
<1>1. /\ l \in Seq(S) /\ Len(l) = at - 1
      /\ \A i \in 1..at - 1 : l[i] = s[i]
  BY SubSeqProperties
<1>2. /\ r \in Seq(S) /\ Len(r) = Len(s) - at + 1
      /\ \A i \in 1..Len(s) - at + 1 : r[i] = s[at + i - 1]
  BY SubSeqProperties
<1>3. <<v>> \in Seq(S) /\ Len(<<v>>) = 1 /\ <<v>>[1] = v
  OBVIOUS
<1> HIDE DEF l, r
<1>4. /\ m \in Seq(S) /\ Len(m) = at
      /\ \A i \in 1..at : m[i] = IF i < at THEN s[i] ELSE v
  BY <1>1, <1>3, ConcatProperties
<1> HIDE DEF m
<1>7. Len(m) + Len(r) = Len(s) + 1
  BY <1>2, <1>4
<1>5. /\ m \o r \in Seq(S) /\ Len(m \o r) = Len(s) + 1
      /\ \A i \in 1..Len(s) + 1 : (m \o r)[i] = IF i <= at THEN m[i] ELSE r[i - at]
  <2>1. /\ m \o r \in Seq(S) /\ Len(m \o r) = Len(m) + Len(r)
        /\ \A i \in 1..Len(m) + Len(r) :
             (m \o r)[i] = IF i <= Len(m) THEN m[i] ELSE r[i - Len(m)]
    BY <1>2, <1>4, ConcatProperties
  <2>2. Len(m) = at
    BY <1>4
  <2> QED
    BY <1>7, <2>1, <2>2
<1>6. InsertAt(s, at, v) = m \o r
  BY DEF InsertAt, m, l, r
<1> QED
  BY <1>2, <1>4, <1>5, <1>6

\* Where an element comes to stand: it is less than all to the right of it, and
\* not less than its neighbour to the left.
LEMMA InsertFacts ==
  ASSUME NEW less, NEW S, NEW s \in Seq(S), NEW v \in S
  PROVE  \E at \in 1..Len(s) + 1 :
           /\ Insert(less, s, v) = InsertAt(s, at, v)
           /\ \A i \in at..Len(s) : <<v, s[i]>> \in less
           /\ at > 1 => <<v, s[at - 1]>> \notin less
<1> DEFINE T == {0} \cup Stays(less, s, v)
           last == Max(T)
<1>1. T \subseteq 0..Len(s) /\ 0 \in T /\ Len(s) \in Nat
  BY DEF Stays
<1>6. Insert(less, s, v) = InsertAt(s, 1 + last, v)
  BY DEF Insert
<1>7. \A i \in 1..Len(s) : i \in T <=> <<v, s[i]>> \notin less
  BY DEF Stays
<1> HIDE DEF T
<1>2. last \in T /\ \A x \in T : last >= x
  BY <1>1, MaxFacts
<1> HIDE DEF last
<1>3. 1 + last \in 1..Len(s) + 1
  BY <1>1, <1>2
<1>4. \A i \in 1 + last..Len(s) : <<v, s[i]>> \in less
  BY <1>1, <1>2, <1>3, <1>7
<1>5. last > 0 => <<v, s[last]>> \notin less
  <2>1. last > 0 => last \in 1..Len(s)
    BY <1>1, <1>2
  <2> QED
    BY <1>2, <1>7, <2>1
<1>8. PICK at \in 1..Len(s) + 1 : at = 1 + last
  BY <1>3
<1>9. /\ Insert(less, s, v) = InsertAt(s, at, v)
      /\ \A i \in at..Len(s) : <<v, s[i]>> \in less
      /\ at > 1 => <<v, s[at - 1]>> \notin less
  <2>1. Insert(less, s, v) = InsertAt(s, at, v)
    BY <1>6, <1>8
  <2>2. \A i \in at..Len(s) : <<v, s[i]>> \in less
    BY <1>4, <1>8
  <2>3. at > 1 => <<v, s[at - 1]>> \notin less
    <3>1. last = at - 1 /\ (at > 1 => last > 0)
      BY <1>1, <1>2, <1>8
    <3> QED
      BY <1>5, <3>1
  <2> QED
    BY <2>1, <2>2, <2>3
<1> QED
  BY <1>9

\* An element is inserted among the others, and nothing else happens to them.
LEMMA InsertTyped ==
  ASSUME NEW less, NEW S, NEW s \in Seq(S), NEW v \in S
  PROVE  Insert(less, s, v) \in Seq(S) /\ Len(Insert(less, s, v)) = Len(s) + 1
<1>1. PICK at \in 1..Len(s) + 1 :
            /\ Insert(less, s, v) = InsertAt(s, at, v)
            /\ \A i \in at..Len(s) : <<v, s[i]>> \in less
            /\ at > 1 => <<v, s[at - 1]>> \notin less
  BY InsertFacts
<1> QED
  BY <1>1, InsertAtFacts

LEMMA InsertKeeps ==
  ASSUME NEW less, NEW S, NEW s \in Seq(S), NEW v \in S
  PROVE  \A x : x \in ToSet(Insert(less, s, v)) <=> x \in ToSet(s) \/ x = v
<1> DEFINE t == Insert(less, s, v)
<1>1. PICK at \in 1..Len(s) + 1 : t = InsertAt(s, at, v)
  <2> HIDE DEF t
  <2>1. PICK at \in 1..Len(s) + 1 :
              /\ Insert(less, s, v) = InsertAt(s, at, v)
              /\ \A i \in at..Len(s) : <<v, s[i]>> \in less
              /\ at > 1 => <<v, s[at - 1]>> \notin less
    BY InsertFacts
  <2> QED
    BY <2>1 DEF t
<1>2. /\ t \in Seq(S) /\ Len(t) = Len(s) + 1 /\ Len(s) \in Nat
      /\ \A i \in 1..Len(s) + 1 :
           t[i] = IF i < at THEN s[i] ELSE IF i = at THEN v ELSE s[i - 1]
  BY <1>1, InsertAtFacts
<1> HIDE DEF t
<1>3. ASSUME NEW x \in ToSet(t) PROVE x \in ToSet(s) \cup {v}
  <2>1. PICK i \in 1..Len(s) + 1 : x = t[i]
    BY <1>2, <1>3 DEF ToSet
  <2>2. i \in 1..Len(s) \/ i - 1 \in 1..Len(s) \/ i = at
    BY <1>2, <2>1
  <2>3. x = v \/ (i < at /\ x = s[i]) \/ (i > at /\ x = s[i - 1])
    BY <1>2, <2>1
  <2>4. (i < at => i \in 1..Len(s)) /\ (i > at => i - 1 \in 1..Len(s))
    BY <1>2, <2>1
  <2> QED
    BY <2>3, <2>4 DEF ToSet
<1>4. ASSUME NEW x \in ToSet(s) PROVE x \in ToSet(t)
  <2>1. PICK i \in 1..Len(s) : x = s[i]
    BY <1>2, <1>4 DEF ToSet
  <2>2. CASE i < at
    BY <1>2, <2>1, <2>2 DEF ToSet
  <2>3. CASE i >= at
    <3>1. i + 1 \in 1..Len(s) + 1 /\ t[i + 1] = s[i]
      BY <1>2, <2>1, <2>3
    <3> QED
      BY <1>2, <2>1, <3>1 DEF ToSet
  <2> QED
    BY <1>2, <2>1, <2>2, <2>3
<1>5. v \in ToSet(t)
  BY <1>2 DEF ToSet
<1> QED
  BY <1>2, <1>3, <1>4, <1>5 DEF t

----------------------------------------------------------------------------
\* Sorting.

\* There is a list for every number of elements inserted, and the last of them is
\* the result.
LEMMA SortSteps ==
  ASSUME NEW less, NEW S, NEW s \in Seq(S)
  PROVE  \E f : /\ f[0] = <<>>
                /\ \A n \in 1..Len(s) : f[n] = Insert(less, f[n - 1], s[n])
                /\ SortFunc(less, s) = f[Len(s)]
<1> DEFINE Next(t, n) == CHOOSE x \in {Insert(less, u, s[n]) : u \in {t}} : TRUE
           Lists(g, k) == [n \in 0..k |-> IF n = 0 THEN <<>> ELSE Next(g[n - 1], n)]
           f == CHOOSE g : g = Lists(g, Len(s))
           T == {k \in 0..Len(s) : \E g : g = Lists(g, k)}
<1>1. \A t, n : Next(t, n) = Insert(less, t, s[n])
  OBVIOUS
<1>2. SortFunc(less, s) = f[Len(s)]
  BY DEF SortFunc
<1>3. Len(s) \in Nat
  OBVIOUS
<1> HIDE DEF Next
<1>4. 0 \in T
  <2>1. \A g : [n \in 0..0 |-> <<>>] = Lists(g, 0)
    OBVIOUS
  <2> HIDE DEF Lists
  <2>2. \E g : g = Lists(g, 0)
    BY <2>1
  <2> QED
    BY <1>3, <2>2
<1>5. ASSUME NEW k \in 1..Len(s), k - 1 \in T PROVE k \in T
  <2>1. PICK g : g = Lists(g, k - 1)
    BY <1>5
  <2> DEFINE h == [n \in 0..k |-> IF n < k THEN g[n] ELSE Next(g[k - 1], k)]
  <2>2. h \in [0..k -> {h[n] : n \in 0..k}] /\ \A n \in 0..k - 1 : h[n] = g[n]
    BY <1>3
  <2>3. ASSUME NEW n \in 0..k
        PROVE  h[n] = IF n = 0 THEN <<>> ELSE Next(h[n - 1], n)
    <3>1. CASE n = k
      BY <1>3, <3>1
    <3>2. CASE n < k
      <4>1. h[n] = g[n] /\ n \in 0..k - 1
        BY <1>3, <3>2
      <4>2. g[n] = IF n = 0 THEN <<>> ELSE Next(g[n - 1], n)
        BY <2>1, <4>1
      <4>3. n # 0 => h[n - 1] = g[n - 1]
        BY <2>2, <4>1
      <4> QED
        BY <4>1, <4>2, <4>3
    <3> QED
      BY <1>3, <3>1, <3>2
  <2> HIDE DEF h
  <2>4. h = Lists(h, k)
    BY <2>2, <2>3
  <2> HIDE DEF Lists
  <2>5. \E u : u = Lists(u, k)
    BY <2>4
  <2> QED
    BY <1>3, <2>5
<1>6. Len(s) \in T
  <2> HIDE DEF T
  <2>1. \A k \in 0..Len(s) : k \in T
    BY <1>3, <1>4, <1>5, Inductive
  <2> QED
    BY <1>3, <2>1
<1>7. f = Lists(f, Len(s))
  BY <1>6
<1> HIDE DEF f
<1>8. f[0] = <<>>
  BY <1>3, <1>7
<1>9. \A n \in 1..Len(s) : f[n] = Insert(less, f[n - 1], s[n])
  <2>1. \A n \in 1..Len(s) : f[n] = Next(f[n - 1], n)
    BY <1>3, <1>7
  <2> QED
    BY <1>1, <2>1
<1> QED
  BY <1>2, <1>8, <1>9

\* The list after n steps has the first n elements.
LEMMA SortSame ==
  ASSUME NEW less, NEW S, NEW s \in Seq(S)
  PROVE  /\ SortFunc(less, s) \in Seq(S)
         /\ Len(SortFunc(less, s)) = Len(s)
         /\ \A x : x \in ToSet(SortFunc(less, s)) <=> x \in ToSet(s)
<1>1. PICK f : /\ f[0] = <<>>
               /\ \A n \in 1..Len(s) : f[n] = Insert(less, f[n - 1], s[n])
               /\ SortFunc(less, s) = f[Len(s)]
  BY SortSteps
<1> DEFINE Taken(x, n) == \E i \in 1..n : x = s[i]
           Good(t, n) == /\ t \in Seq(S) /\ Len(t) = n
                         /\ \A x : x \in ToSet(t) <=> Taken(x, n)
           T == {n \in 0..Len(s) : Good(f[n], n)}
<1>2. Len(s) \in Nat
  OBVIOUS
<1>3. ASSUME NEW x
      PROVE  /\ ~Taken(x, 0) /\ (Taken(x, Len(s)) <=> x \in ToSet(s))
             /\ \A n \in 1..Len(s) : Taken(x, n) <=> Taken(x, n - 1) \/ x = s[n]
  BY <1>2 DEF ToSet
<1> HIDE DEF Taken
<1>4. 0 \in T
  <2>1. Good(<<>>, 0)
    BY <1>3 DEF ToSet
  <2> HIDE DEF Good
  <2> QED
    BY <1>1, <1>2, <2>1
<1>5. ASSUME NEW n \in 1..Len(s), n - 1 \in T PROVE n \in T
  <2>1. Good(f[n - 1], n - 1) /\ n - 1 + 1 = n
    BY <1>2, <1>5
  <2>2. s[n] \in S /\ f[n] = Insert(less, f[n - 1], s[n])
    BY <1>1, <1>2
  <2>3. ASSUME NEW t, Good(t, n - 1) PROVE Good(Insert(less, t, s[n]), n)
    <3>1. t \in Seq(S) /\ Len(t) = n - 1 /\ \A x : x \in ToSet(t) <=> Taken(x, n - 1)
      BY <2>3
    <3> DEFINE u == Insert(less, t, s[n])
    <3>2. u \in Seq(S) /\ Len(u) = Len(t) + 1
      BY <2>2, <3>1, InsertTyped
    <3>6. \A x : x \in ToSet(u) <=> x \in ToSet(t) \/ x = s[n]
      BY <2>2, <3>1, InsertKeeps
    <3> HIDE DEF u
    <3>3. Len(u) = n
      BY <2>1, <3>1, <3>2
    <3>4. \A x : x \in ToSet(u) <=> Taken(x, n)
      BY <1>3, <3>1, <3>6
    <3>5. Good(u, n)
      BY <3>2, <3>3, <3>4
    <3> QED
      BY <3>5 DEF u
  <2>4. Good(f[n], n)
    BY <2>1, <2>2, <2>3
  <2> HIDE DEF Good
  <2> QED
    BY <1>2, <2>4
<1>6. Len(s) \in T
  <2> HIDE DEF T
  <2>1. \A n \in 0..Len(s) : n \in T
    BY <1>2, <1>4, <1>5, Inductive
  <2> QED
    BY <1>2, <2>1
<1>7. \A x : x \in ToSet(f[Len(s)]) <=> x \in ToSet(s)
  BY <1>3, <1>6
<1> QED
  BY <1>1, <1>6, <1>7

LEMMA SortTyped ==
  ASSUME NEW less, NEW S, NEW s \in Seq(S)
  PROVE  SortFunc(less, s) \in Seq(S) /\ Len(SortFunc(less, s)) = Len(s)
BY SortSame

\* Whatever the order, nothing is lost and nothing is new.
LEMMA SortKeeps ==
  ASSUME NEW less, NEW S, NEW s \in Seq(S)
  PROVE  ToSet(SortFunc(less, s)) = ToSet(s)
<1>1. \A x : x \in ToSet(SortFunc(less, s)) <=> x \in ToSet(s)
  BY SortSame
<1> QED
  BY <1>1

\* An element goes to the left of those it is less than, and to the right of one
\* that it is not less than.
LEMMA InsertOrder ==
  ASSUME NEW less, NEW S, NEW s \in Seq(S), NEW v \in S, NEW R,
         \A i, j \in 1..Len(s) : i < j => <<s[i], s[j]>> \in R,
         \A x \in S : <<v, x>> \in less => <<v, x>> \in R,
         \A k \in 1..Len(s) : <<v, s[k]>> \notin less =>
            /\ <<s[k], v>> \in R
            /\ \A j \in 1..Len(s) : <<s[j], s[k]>> \in R => <<s[j], v>> \in R
  PROVE  \A i, j \in 1..Len(s) + 1 :
            i < j => <<Insert(less, s, v)[i], Insert(less, s, v)[j]>> \in R
<1> DEFINE t == Insert(less, s, v)
<1>1. PICK at \in 1..Len(s) + 1 :
            /\ Insert(less, s, v) = InsertAt(s, at, v)
            /\ \A i \in at..Len(s) : <<v, s[i]>> \in less
            /\ at > 1 => <<v, s[at - 1]>> \notin less
  BY InsertFacts
<1>2. \A i \in 1..Len(s) + 1 :
        t[i] = IF i < at THEN s[i] ELSE IF i = at THEN v ELSE s[i - 1]
  <2>1. \A i \in 1..Len(s) + 1 :
          InsertAt(s, at, v)[i] =
            IF i < at THEN s[i] ELSE IF i = at THEN v ELSE s[i - 1]
    BY InsertAtFacts
  <2> QED
    BY <1>1, <2>1
<1>3. Len(s) \in Nat /\ \A i \in 1..Len(s) : s[i] \in S
  OBVIOUS
<1> HIDE DEF t
<1>4. ASSUME NEW i \in 1..Len(s), i < at PROVE <<s[i], v>> \in R
  <2>1. at - 1 \in 1..Len(s) /\ <<v, s[at - 1]>> \notin less
    BY <1>1, <1>3, <1>4
  <2>2. CASE i = at - 1
    BY <2>1, <2>2
  <2>3. CASE i < at - 1
    BY <2>1, <2>3
  <2> QED
    BY <1>3, <1>4, <2>2, <2>3
<1>5. ASSUME NEW i \in 1..Len(s) + 1, NEW j \in 1..Len(s) + 1, i < j
      PROVE  <<t[i], t[j]>> \in R
  <2>1. CASE j < at
    BY <1>2, <1>3, <1>5, <2>1
  <2>2. CASE j = at
    <3>1. t[j] = v /\ t[i] = s[i] /\ i \in 1..Len(s)
      BY <1>2, <1>3, <1>5, <2>2
    <3> QED
      BY <1>4, <1>5, <2>2, <3>1
  <2>3. CASE i = at
    <3>1. t[i] = v /\ t[j] = s[j - 1] /\ j - 1 \in at..Len(s) /\ j - 1 \in 1..Len(s)
      BY <1>2, <1>3, <1>5, <2>3
    <3> QED
      BY <1>1, <1>3, <3>1
  <2>4. CASE i < at /\ at < j
    <3>1. t[i] = s[i] /\ t[j] = s[j - 1]
      BY <1>2, <1>5, <2>4
    <3>2. i \in 1..Len(s) /\ j - 1 \in 1..Len(s) /\ i < j - 1
      BY <1>3, <1>5, <2>4
    <3> QED
      BY <3>1, <3>2
  <2>5. CASE at < i
    <3>1. t[i] = s[i - 1] /\ t[j] = s[j - 1]
      BY <1>2, <1>5, <2>5
    <3>2. i - 1 \in 1..Len(s) /\ j - 1 \in 1..Len(s) /\ i - 1 < j - 1
      BY <1>3, <1>5, <2>5
    <3> QED
      BY <3>1, <3>2
  <2> QED
    BY <1>3, <1>5, <2>1, <2>2, <2>3, <2>4, <2>5
<1> QED
  BY <1>5 DEF t

\* So a relation that each element gets into when it is inserted holds of every two
\* elements of the result.
LEMMA SortOrder ==
  ASSUME NEW less, NEW S, NEW s \in Seq(S), NEW R,
         \A x, y \in S : <<x, y>> \in less => <<x, y>> \in R,
         \A n \in 1..Len(s) : \A k \in 1..n - 1 : <<s[n], s[k]>> \notin less =>
            /\ <<s[k], s[n]>> \in R
            /\ \A j \in 1..n - 1 : <<s[j], s[k]>> \in R => <<s[j], s[n]>> \in R
  PROVE  \A i, j \in 1..Len(s) :
            i < j => <<SortFunc(less, s)[i], SortFunc(less, s)[j]>> \in R
<1>1. PICK f : /\ f[0] = <<>>
               /\ \A n \in 1..Len(s) : f[n] = Insert(less, f[n - 1], s[n])
               /\ SortFunc(less, s) = f[Len(s)]
  BY SortSteps
<1> DEFINE Good(t, n) == /\ t \in Seq(S) /\ Len(t) = n
                         /\ \A i \in 1..n : \E a \in 1..n : t[i] = s[a]
                         /\ \A i, j \in 1..n : i < j => <<t[i], t[j]>> \in R
           T == {n \in 0..Len(s) : Good(f[n], n)}
<1>2. Len(s) \in Nat
  OBVIOUS
<1>3. 0 \in T
  <2>1. Good(<<>>, 0)
    OBVIOUS
  <2> HIDE DEF Good
  <2> QED
    BY <1>1, <1>2, <2>1
<1>4. ASSUME NEW n \in 1..Len(s), n - 1 \in T PROVE n \in T
  <2>1. Good(f[n - 1], n - 1) /\ n - 1 + 1 = n
    BY <1>2, <1>4
  <2>2. s[n] \in S /\ f[n] = Insert(less, f[n - 1], s[n])
    BY <1>1, <1>2
  <2>3. ASSUME NEW t, Good(t, n - 1) PROVE Good(Insert(less, t, s[n]), n)
    <3> DEFINE u == Insert(less, t, s[n])
               v == s[n]
    <3>1. /\ t \in Seq(S) /\ Len(t) = n - 1
          /\ \A i, j \in 1..Len(t) : i < j => <<t[i], t[j]>> \in R
      BY <2>3
    <3>2. u \in Seq(S) /\ Len(u) = n
      BY <2>1, <2>2, <3>1, InsertTyped
    <3>3. ASSUME NEW i \in 1..n PROVE \E a \in 1..n : u[i] = s[a]
      <4>1. u[i] \in ToSet(u)
        BY <3>2 DEF ToSet
      <4>2. u[i] \in ToSet(t) \/ u[i] = s[n]
        BY <2>2, <3>1, <4>1, InsertKeeps
      <4>4. \A k \in 1..Len(t) : \E a \in 1..n - 1 : t[k] = s[a]
        BY <2>3
      <4> HIDE DEF u
      <4>3. ASSUME NEW x \in ToSet(t) PROVE \E a \in 1..n - 1 : x = s[a]
        <5>1. PICK k \in 1..Len(t) : x = t[k]
          BY <3>1, <4>3 DEF ToSet
        <5> QED
          BY <4>4, <5>1
      <4> QED
        BY <1>2, <4>2, <4>3
    <3>4. \A x \in S : <<v, x>> \in less => <<v, x>> \in R
      BY <2>2
    <3>5. ASSUME NEW k \in 1..Len(t), <<v, t[k]>> \notin less
          PROVE  /\ <<t[k], v>> \in R
                 /\ \A j \in 1..Len(t) : <<t[j], t[k]>> \in R => <<t[j], v>> \in R
      <4>1. \A i \in 1..Len(t) : \E a \in 1..n - 1 : t[i] = s[a]
        BY <2>3
      <4> QED
        BY <3>1, <3>5, <4>1
    <3>6. \A i, j \in 1..Len(t) + 1 : i < j => <<u[i], u[j]>> \in R
      <4>1. v \in S
        BY <2>2
      <4> HIDE DEF v
      <4>2. \A i, j \in 1..Len(t) + 1 :
              i < j => <<Insert(less, t, v)[i], Insert(less, t, v)[j]>> \in R
        BY <3>1, <3>4, <3>5, <4>1, InsertOrder
      <4> QED
        BY <4>2 DEF v
    <3>7. Len(t) + 1 = n
      BY <2>1, <3>1
    <3> HIDE DEF u
    <3>8. Good(u, n)
      BY <3>2, <3>3, <3>6, <3>7
    <3> QED
      BY <3>8 DEF u
  <2> HIDE DEF Good
  <2>4. Good(f[n], n)
    BY <2>1, <2>2, <2>3
  <2> QED
    BY <1>2, <2>4
<1>5. Len(s) \in T
  <2> HIDE DEF T
  <2>1. \A n \in 0..Len(s) : n \in T
    BY <1>2, <1>3, <1>4, Inductive
  <2> QED
    BY <1>2, <2>1
<1> QED
  BY <1>1, <1>5

----------------------------------------------------------------------------
\* The order of versions.

Parsed == {v \in Known : Parses(v)}

\* What a version is compared by, whether it parses or not.
LEMMA ParseTyped ==
  ASSUME NEW v \in Known
  PROVE  /\ ParseVersion(v).major \in Int /\ ParseVersion(v).minor \in Int
         /\ ParseVersion(v).patch \in Int /\ ParseVersion(v).suffix \in Nat
<1>1. /\ Text[v].parts \in Seq(Nat \cup {NotANumber})
      /\ Text[v].suffixes \in Seq(Nat)
  BY TextAssumption
<1>2. \A i \in 1..3 : Part(v, i) \in Int
  BY <1>1 DEF Part, NotANumber
<1>3. Text[v].suffixes # <<>> => Text[v].suffixes[1] \in Nat
  BY <1>1
<1> QED
  BY <1>2, <1>3 DEF ParseVersion, NoSuffix

\* Precedes says what Compare computes.
LEMMA PrecedesIsCompare ==
  ASSUME NEW v \in Known, NEW w \in Known
  PROVE  Precedes(v, w) <=> Compare(ParseVersion(v), ParseVersion(w)) < 0
<1> DEFINE a == ParseVersion(v)
           b == ParseVersion(w)
           k == <<a.major, a.minor, a.patch, IF a.suffix = NoSuffix THEN 1 ELSE 0,
                  a.suffix>>
           l == <<b.major, b.minor, b.patch, IF b.suffix = NoSuffix THEN 1 ELSE 0,
                  b.suffix>>
<1>1. /\ a.major \in Int /\ a.minor \in Int /\ a.patch \in Int /\ a.suffix \in Nat
      /\ b.major \in Int /\ b.minor \in Int /\ b.patch \in Int /\ b.suffix \in Nat
  BY ParseTyped
<1>2. Precedes(v, w) <=> \E i \in 1..5 : /\ k[i] < l[i]
                                         /\ \A j \in 1..(i - 1) : k[j] = l[j]
  BY DEF Precedes
<1> HIDE DEF a, b
<1>3. /\ k[1] = a.major /\ k[2] = a.minor /\ k[3] = a.patch
      /\ k[4] = (IF a.suffix = NoSuffix THEN 1 ELSE 0) /\ k[5] = a.suffix
      /\ l[1] = b.major /\ l[2] = b.minor /\ l[3] = b.patch
      /\ l[4] = (IF b.suffix = NoSuffix THEN 1 ELSE 0) /\ l[5] = b.suffix
  OBVIOUS
<1> HIDE DEF k, l
<1>4. (\E i \in 1..5 : k[i] < l[i] /\ \A j \in 1..(i - 1) : k[j] = l[j])
      <=> \/ k[1] < l[1]
          \/ k[1] = l[1] /\ k[2] < l[2]
          \/ k[1] = l[1] /\ k[2] = l[2] /\ k[3] < l[3]
          \/ k[1] = l[1] /\ k[2] = l[2] /\ k[3] = l[3] /\ k[4] < l[4]
          \/ k[1] = l[1] /\ k[2] = l[2] /\ k[3] = l[3] /\ k[4] = l[4] /\ k[5] < l[5]
  <2> DEFINE P(i) == k[i] < l[i] /\ \A j \in 1..(i - 1) : k[j] = l[j]
  <2>1. (\E i \in 1..5 : P(i)) <=> P(1) \/ P(2) \/ P(3) \/ P(4) \/ P(5)
    <3> HIDE DEF P
    <3> QED
      OBVIOUS
  <2>2. P(1) <=> k[1] < l[1]
    OBVIOUS
  <2>3. P(2) <=> k[1] = l[1] /\ k[2] < l[2]
    OBVIOUS
  <2>4. P(3) <=> k[1] = l[1] /\ k[2] = l[2] /\ k[3] < l[3]
    OBVIOUS
  <2>5. P(4) <=> k[1] = l[1] /\ k[2] = l[2] /\ k[3] = l[3] /\ k[4] < l[4]
    OBVIOUS
  <2>6. P(5) <=> k[1] = l[1] /\ k[2] = l[2] /\ k[3] = l[3] /\ k[4] = l[4]
                 /\ k[5] < l[5]
    OBVIOUS
  <2> QED
    BY <2>1, <2>2, <2>3, <2>4, <2>5, <2>6
<1>5. Compare(a, b) < 0
      <=> \/ k[1] < l[1]
          \/ k[1] = l[1] /\ k[2] < l[2]
          \/ k[1] = l[1] /\ k[2] = l[2] /\ k[3] < l[3]
          \/ k[1] = l[1] /\ k[2] = l[2] /\ k[3] = l[3] /\ k[4] < l[4]
          \/ k[1] = l[1] /\ k[2] = l[2] /\ k[3] = l[3] /\ k[4] = l[4] /\ k[5] < l[5]
  BY <1>1, <1>3 DEF Compare, NoSuffix
<1> QED
  BY <1>2, <1>4, <1>5 DEF a, b

\* It is an order: nobody precedes one that precedes it, and who does not precede
\* one that does not precede a third does not precede the third either.
LEMMA PrecedesOrder ==
  ASSUME NEW u \in Known, NEW v \in Known, NEW w \in Known
  PROVE  /\ ~(Precedes(u, v) /\ Precedes(v, u))
         /\ ~Precedes(u, v) /\ ~Precedes(v, w) => ~Precedes(u, w)
<1> DEFINE a == ParseVersion(u)
           b == ParseVersion(v)
           c == ParseVersion(w)
<1>1. /\ a.major \in Int /\ a.minor \in Int /\ a.patch \in Int /\ a.suffix \in Nat
      /\ b.major \in Int /\ b.minor \in Int /\ b.patch \in Int /\ b.suffix \in Nat
      /\ c.major \in Int /\ c.minor \in Int /\ c.patch \in Int /\ c.suffix \in Nat
  BY ParseTyped
<1>2. /\ Precedes(u, v) <=> Compare(a, b) < 0
      /\ Precedes(v, u) <=> Compare(b, a) < 0
      /\ Precedes(v, w) <=> Compare(b, c) < 0
      /\ Precedes(u, w) <=> Compare(a, c) < 0
  BY PrecedesIsCompare
<1> HIDE DEF a, b, c
<1>3. ~(Compare(a, b) < 0 /\ Compare(b, a) < 0)
  BY <1>1 DEF Compare, NoSuffix
<1>4. ~(Compare(a, b) < 0) /\ ~(Compare(b, c) < 0) => ~(Compare(a, c) < 0)
  BY <1>1 DEF Compare, NoSuffix
<1> QED
  BY <1>2, <1>3, <1>4

\* Among versions that parse, the two orders of the lists are both this one, the
\* greatest first.
LEMMA OrdersAgree ==
  ASSUME NEW v \in Parsed, NEW w \in Parsed
  PROVE  /\ <<v, w>> \in ListLess <=> Precedes(w, v)
         /\ <<v, w>> \in MetadataLess <=> Precedes(w, v)
<1>1. v \in Known /\ w \in Known /\ Parses(v) /\ Parses(w)
  BY DEF Parsed
<1>2. Precedes(w, v) <=> Compare(ParseVersion(w), ParseVersion(v)) < 0
  BY <1>1, PrecedesIsCompare
<1>3. /\ <<v, w>> \in ListLess <=> ListOrder(v, w) < 0
      /\ <<v, w>> \in MetadataLess <=> MetadataOrder(v, w) < 0
  BY <1>1 DEF ListLess, MetadataLess
<1>4. /\ ListOrder(v, w) = Compare(ParseVersion(w), ParseVersion(v))
      /\ MetadataOrder(v, w) = Compare(ParseVersion(w), ParseVersion(v))
  BY <1>1 DEF ListOrder, MetadataOrder
<1> QED
  BY <1>2, <1>3, <1>4

Agrees(less) == \A v, w \in Parsed : <<v, w>> \in less <=> Precedes(w, v)

LEMMA BothAgree == Agrees(ListLess) /\ Agrees(MetadataLess)
BY OrdersAgree DEF Agrees

\* A list of versions that parse is sorted in descending order.
LEMMA SortDescends ==
  ASSUME NEW less, Agrees(less), NEW s \in Seq(Parsed)
  PROVE  Descending(SortFunc(less, s))
<1> DEFINE R == {p \in Parsed \X Parsed : ~Precedes(p[1], p[2])}
           t == SortFunc(less, s)
<1>1. \A x, y \in Parsed : <<x, y>> \in R <=> ~Precedes(x, y)
  OBVIOUS
<1> HIDE DEF R
<1>2. \A n \in 1..Len(s) : s[n] \in Parsed
  OBVIOUS
<1>3. Parsed \subseteq Known
  BY DEF Parsed
<1>4. \A x, y \in Parsed : <<x, y>> \in less => <<x, y>> \in R
  BY <1>1, <1>3, PrecedesOrder DEF Agrees
<1>5. ASSUME NEW n \in 1..Len(s), NEW k \in 1..n - 1, <<s[n], s[k]>> \notin less
      PROVE  /\ <<s[k], s[n]>> \in R
             /\ \A j \in 1..n - 1 : <<s[j], s[k]>> \in R => <<s[j], s[n]>> \in R
  <2>1. Len(s) \in Nat /\ \A j \in 1..n - 1 : j \in 1..Len(s)
    OBVIOUS
  <2>2. ~Precedes(s[k], s[n]) /\ s[k] \in Parsed /\ s[n] \in Parsed
    BY <1>2, <1>5, <2>1 DEF Agrees
  <2>3. ASSUME NEW j \in 1..n - 1, <<s[j], s[k]>> \in R PROVE <<s[j], s[n]>> \in R
    <3>1. s[j] \in Parsed /\ ~Precedes(s[j], s[k])
      BY <1>1, <1>2, <2>1, <2>2, <2>3
    <3> QED
      BY <1>1, <1>3, <2>2, <3>1, PrecedesOrder
  <2> QED
    BY <1>1, <2>2, <2>3
<1>6. \A i, j \in 1..Len(s) : i < j => <<SortFunc(less, s)[i], SortFunc(less, s)[j]>> \in R
  BY <1>4, <1>5, SortOrder
<1>7. t \in Seq(Parsed) /\ Len(t) = Len(s)
  BY SortTyped
<1>8. \A i, j \in 1..Len(s) : i < j => <<t[i], t[j]>> \in R
  BY <1>6
<1> HIDE DEF t
<1>9. Descending(t)
  <2> SUFFICES ASSUME NEW i \in 1..Len(t), NEW j \in 1..Len(t), i < j
               PROVE  ~Precedes(t[i], t[j])
    BY DEF Descending
  <2>1. t[i] \in Parsed /\ t[j] \in Parsed
    BY <1>7
  <2>2. <<t[i], t[j]>> \in R
    BY <1>7, <1>8
  <2> QED
    BY <1>1, <2>1, <2>2
<1> QED
  BY <1>9 DEF t

\* Sorting is stable: of two elements that are not in order already the one that
\* was to the left of the other still is.
LEMMA SortStable ==
  ASSUME NEW less, NEW S, NEW s \in Seq(S), NEW i \in 1..Len(s), NEW j \in 1..Len(s),
         i < j
  PROVE  \/ <<SortFunc(less, s)[i], SortFunc(less, s)[j]>> \in less
         \/ \E a, b \in 1..Len(s) : /\ a < b /\ s[a] = SortFunc(less, s)[i]
                                    /\ s[b] = SortFunc(less, s)[j]
<1> DEFINE Left(x, y) == \E a, b \in 1..Len(s) : a < b /\ s[a] = x /\ s[b] = y
           R == {p \in S \X S : <<p[1], p[2]>> \in less \/ Left(p[1], p[2])}
<1>1. \A x, y \in S : <<x, y>> \in R <=> <<x, y>> \in less \/ Left(x, y)
  OBVIOUS
<1>2. \A p \in R : <<p[1], p[2]>> \in less \/ Left(p[1], p[2])
  OBVIOUS
<1> HIDE DEF R
<1>3. \A n \in 1..Len(s) : s[n] \in S
  OBVIOUS
<1>4. \A n \in 1..Len(s) : \A k \in 1..n - 1 : <<s[k], s[n]>> \in R
  <2> TAKE n \in 1..Len(s)
  <2> TAKE k \in 1..n - 1
  <2>1. Len(s) \in Nat /\ k \in 1..Len(s) /\ k < n
    OBVIOUS
  <2>2. Left(s[k], s[n])
    BY <2>1
  <2> HIDE DEF Left
  <2> QED
    BY <1>1, <1>3, <2>1, <2>2
<1> HIDE DEF Left
<1>5. \A x, y \in S : <<x, y>> \in less => <<x, y>> \in R
  BY <1>1
<1>6. \A n \in 1..Len(s) : \A k \in 1..n - 1 : <<s[n], s[k]>> \notin less =>
        /\ <<s[k], s[n]>> \in R
        /\ \A m \in 1..n - 1 : <<s[m], s[k]>> \in R => <<s[m], s[n]>> \in R
  BY <1>4
<1>7. \A k, m \in 1..Len(s) :
        k < m => <<SortFunc(less, s)[k], SortFunc(less, s)[m]>> \in R
  BY <1>5, <1>6, SortOrder
<1>8. <<SortFunc(less, s)[i], SortFunc(less, s)[j]>> \in R
  BY <1>7
<1>9. \/ <<SortFunc(less, s)[i], SortFunc(less, s)[j]>> \in less
      \/ Left(SortFunc(less, s)[i], SortFunc(less, s)[j])
  BY <1>2, <1>8
<1> QED
  BY <1>9 DEF Left

----------------------------------------------------------------------------
\* Lists of names.

\* The place of a name is the number of names before it, so each place is taken by
\* one name.
LEMMA RankFacts ==
  ASSUME NEW S, S \subseteq Known
  PROVE  /\ IsFiniteSet(S) /\ Cardinality(S) \in Nat
         /\ \A v \in S : Cardinality({x \in S : x < v}) \in 0..Cardinality(S) - 1
         /\ \A v, w \in S :
              v < w => Cardinality({x \in S : x < v}) < Cardinality({x \in S : x < w})
<1>1. IsFiniteSet(S) /\ S \subseteq Nat
  BY KnownAssumption, FS_Subset
<1>2. Cardinality(S) \in Nat
  BY <1>1, FS_CardinalityType
<1>3. ASSUME NEW v \in S, NEW w \in S, v < w
      PROVE  Cardinality({x \in S : x < v}) < Cardinality({x \in S : x < w})
  <2> DEFINE A == {x \in S : x < v}
             B == {x \in S : x < w}
  <2>1. A \subseteq S /\ B \subseteq S /\ v \notin A /\ A \cup {v} \subseteq B
    <3>1. A \subseteq S /\ B \subseteq S /\ v \notin A /\ v \in B
      BY <1>1, <1>3
    <3>2. \A x \in A : x \in B
      BY <1>1, <1>3
    <3> HIDE DEF A, B
    <3> QED
      BY <3>1, <3>2
  <2> HIDE DEF A, B
  <2>2. IsFiniteSet(A) /\ IsFiniteSet(B)
    BY <1>1, <2>1, FS_Subset
  <2>3. Cardinality(A \cup {v}) = Cardinality(A) + 1
    BY <2>1, <2>2, FS_AddElement
  <2>4. Cardinality(A \cup {v}) <= Cardinality(B)
    BY <2>1, <2>2, FS_Subset
  <2>5. Cardinality(A) \in Nat /\ Cardinality(B) \in Nat
    BY <2>2, FS_CardinalityType
  <2>6. Cardinality(A) < Cardinality(B)
    BY <2>3, <2>4, <2>5
  <2> QED
    BY <2>6 DEF A, B
<1>4. ASSUME NEW v \in S
      PROVE  Cardinality({x \in S : x < v}) \in 0..Cardinality(S) - 1
  <2> DEFINE A == {x \in S : x < v}
  <2>1. A \subseteq S /\ v \notin A /\ A \cup {v} \subseteq S
    BY <1>1
  <2> HIDE DEF A
  <2>2. IsFiniteSet(A)
    BY <1>1, <2>1, FS_Subset
  <2>3. Cardinality(A \cup {v}) = Cardinality(A) + 1
    BY <2>1, <2>2, FS_AddElement
  <2>4. Cardinality(A \cup {v}) <= Cardinality(S)
    BY <1>1, <2>1, FS_Subset
  <2>5. Cardinality(A) \in Nat
    BY <2>2, FS_CardinalityType
  <2>6. Cardinality(A) \in 0..Cardinality(S) - 1
    BY <1>2, <2>3, <2>4, <2>5
  <2> QED
    BY <2>6 DEF A
<1> QED
  BY <1>1, <1>2, <1>3, <1>4

LEMMA RankTaken ==
  ASSUME NEW S, S \subseteq Known, NEW i \in 1..Cardinality(S)
  PROVE  \E v \in S : Cardinality({x \in S : x < v}) = i - 1
<1> DEFINE n == Cardinality(S)
           Rank(v) == Cardinality({x \in S : x < v})
           f == [v \in S |-> Rank(v) + 1]
<1>1. /\ IsFiniteSet(S) /\ n \in Nat /\ S \subseteq Nat
      /\ \A v \in S : Rank(v) \in 0..n - 1
      /\ \A v, w \in S : v < w => Rank(v) < Rank(w)
  BY KnownAssumption, RankFacts
<1> HIDE DEF Rank, n
<1>2. \A v, w \in S : v # w => Rank(v) # Rank(w)
  <2> TAKE v, w \in S
  <2>1. v # w => v < w \/ w < v
    BY <1>1
  <2> QED
    BY <1>1, <2>1
<1>3. f \in [S -> 1..n]
  BY <1>1
<1>4. \A v, w \in S : f[v] = f[w] => v = w
  BY <1>1, <1>2
<1>5. f \in Injection(S, 1..n)
  BY <1>3, <1>4 DEF Injection, IsInjective
<1>6. IsFiniteSet(1..n) /\ Cardinality(1..n) = n
  BY <1>1, FS_Interval
<1>7. f \in Surjection(S, 1..n)
  <2> HIDE DEF f
  <2>1. Cardinality(S) = Cardinality(1..n)
    BY <1>6 DEF n
  <2> QED
    BY <1>5, <1>6, <2>1, FS_Injection
<1>8. i \in 1..n
  BY DEF n
<1>9. \E v \in S : f[v] = i
  BY <1>7, <1>8 DEF Surjection
<1>10. PICK v \in S : Rank(v) + 1 = i
  BY <1>9
<1>11. Rank(v) = i - 1
  BY <1>1, <1>8, <1>10
<1> QED
  BY <1>11 DEF Rank

\* The names of a set in their order: each once.
LEMMA ByNameTyped ==
  ASSUME NEW S, S \subseteq Known
  PROVE  ByName(S) \in Seq(S) /\ Len(ByName(S)) = Cardinality(S)
<1> DEFINE e(i) == CHOOSE v \in S : Cardinality({w \in S : w < v}) = i - 1
<1>1. \A i \in 1..Cardinality(S) : e(i) \in S
  BY RankTaken
<1>2. Cardinality(S) \in Nat
  BY RankFacts
<1> HIDE DEF e
<1>3. [i \in 1..Cardinality(S) |-> e(i)] \in Seq(S)
      /\ Len([i \in 1..Cardinality(S) |-> e(i)]) = Cardinality(S)
  BY <1>1, <1>2
<1> QED
  BY <1>3 DEF ByName, e

LEMMA ByNameIncreases ==
  ASSUME NEW S, S \subseteq Known, NEW i \in 1..Cardinality(S),
         NEW j \in 1..Cardinality(S), i < j
  PROVE  ByName(S)[i] < ByName(S)[j]
<1> DEFINE Rank(v) == Cardinality({x \in S : x < v})
           v == ByName(S)[i]
           w == ByName(S)[j]
<1>1. v \in S /\ Rank(v) = i - 1
  BY RankTaken DEF ByName
<1>2. w \in S /\ Rank(w) = j - 1
  BY RankTaken DEF ByName
<1>3. \A x, y \in S : x < y => Rank(x) < Rank(y)
  BY RankFacts
<1>4. S \subseteq Nat /\ Cardinality(S) \in Nat
  BY KnownAssumption, RankFacts
<1> HIDE DEF Rank, v, w
<1>5. ~(w < v) /\ v # w
  BY <1>1, <1>2, <1>3, <1>4
<1>6. v < w
  BY <1>1, <1>2, <1>4, <1>5
<1> QED
  BY <1>6 DEF v, w

LEMMA ByNameKeeps ==
  ASSUME NEW S, S \subseteq Known
  PROVE  ToSet(ByName(S)) = S
<1> DEFINE Rank(v) == Cardinality({x \in S : x < v})
           s == ByName(S)
<1>1. s \in Seq(S) /\ Len(s) = Cardinality(S)
  BY ByNameTyped
<1>2. /\ Cardinality(S) \in Nat /\ S \subseteq Nat
      /\ \A v \in S : Rank(v) \in 0..Cardinality(S) - 1
      /\ \A x, y \in S : x < y => Rank(x) < Rank(y)
  BY KnownAssumption, RankFacts
<1>3. \A i \in 1..Cardinality(S) : s[i] \in S /\ Rank(s[i]) = i - 1
  BY RankTaken DEF ByName
<1> HIDE DEF Rank, s
<1>6. \A v, w \in S : v # w => Rank(v) # Rank(w)
  <2> TAKE v, w \in S
  <2>1. v # w => v < w \/ w < v
    BY <1>2
  <2> QED
    BY <1>2, <2>1
<1>4. ASSUME NEW v \in S PROVE v \in ToSet(s)
  <2>1. PICK i \in 1..Cardinality(S) : i - 1 = Rank(v)
    <3> DEFINE r == Rank(v)
    <3>1. r + 1 \in 1..Cardinality(S) /\ r \in Nat
      BY <1>2
    <3> HIDE DEF r
    <3>2. \E i \in 1..Cardinality(S) : i - 1 = r
      BY <3>1
    <3> QED
      BY <3>2 DEF r
  <2>2. s[i] \in S /\ Rank(s[i]) = Rank(v)
    BY <1>3, <2>1
  <2>3. s[i] = v
    BY <1>6, <2>2
  <2> QED
    BY <1>1, <2>1, <2>3 DEF ToSet
<1>5. ASSUME NEW x \in ToSet(s) PROVE x \in S
  BY <1>1, <1>5 DEF ToSet
<1> QED
  BY <1>4, <1>5 DEF s
=============================================================================
