------------------------- MODULE RangeReaderProofs -------------------------
(***************************************************************************)
(* Proofs about RangeReader, for every server, every history of the file   *)
(* and every value of the bounds.                                          *)
(***************************************************************************)
EXTENDS RangeReader, SequenceTheorems, FiniteSetTheorems, TLAPS

\* What is read.
Bytes == [era : 1..Len(lengths), at : Nat]

\* A body ends after it begins, and one that is not at its end is of the file; the
\* buffer has the length of the file it was filled from.
Shape ==
  /\ body.at <= body.end
  /\ body.at < body.end => body.era \in 1..Len(lengths)
  /\ mode = "buffer" /\ pc \in {"seek", "read", "end", "close"} =>
       /\ body.era \in 1..Len(lengths)
       /\ body.end = size /\ size = lengths[body.era]
  /\ pc \in {"probe", "head", "first", "buffer"} => mode = "none"
  /\ pc \in {"seek", "read", "end"} => mode \in {"range", "buffer"}
  /\ pc = "refetch" => mode = "range"

\* The inductive invariant for the types.
Typed == TypeOK /\ Shape

----------------------------------------------------------------------------
(* What the operators of RangeReader return *)

\* Appending n elements leaves those before in their place.
LEMMA Appended ==
  ASSUME NEW S, NEW s \in Seq(S), NEW n \in Nat, NEW f \in [1..n -> S]
  PROVE  /\ s \o f \in Seq(S)
         /\ Len(s \o f) = Len(s) + n
         /\ \A i \in 1..Len(s) : (s \o f)[i] = s[i]
         /\ \A i \in 1..n : (s \o f)[Len(s) + i] = f[i]
<1>1. f \in Seq(S) /\ Len(f) = n
  OBVIOUS
<1>2. /\ s \o f \in Seq(S)
      /\ Len(s \o f) = Len(s) + n
      /\ \A i \in 1..Len(s) + n :
           (s \o f)[i] = IF i <= Len(s) THEN s[i] ELSE f[i - Len(s)]
  BY <1>1, ConcatProperties
<1>3. Len(s) \in Nat
  OBVIOUS
<1>4. \A i \in 1..Len(s) : (s \o f)[i] = s[i]
  BY <1>2, <1>3
<1>5. ASSUME NEW i \in 1..n PROVE (s \o f)[Len(s) + i] = f[i]
  <2>1. Len(s) + i \in 1..Len(s) + n /\ ~(Len(s) + i <= Len(s)) /\ Len(s) + i - Len(s) = i
    BY <1>3
  <2> QED
    BY <1>2, <2>1
<1> QED
  BY <1>2, <1>4, <1>5

\* The least of two numbers.
LEMMA LeastIs ==
  ASSUME NEW a \in Nat, NEW b \in Nat
  PROVE  /\ Least(a, b) \in Nat /\ Least(a, b) <= a /\ Least(a, b) <= b
         /\ Least(a, b) = a \/ Least(a, b) = b
  BY DEF Least

\* An answer is a body of the file there is now, from where it was asked for if
\* the server honours ranges, and not beyond the end of the file.
LEMMA Answered ==
  ASSUME TypeOK, NEW start \in Nat, NEW b \in Answers(start)
  PROVE  /\ There /\ lengths[era] \in Nat /\ b \in Bodies
         /\ b.era = era /\ b.era \in 1..Len(lengths) /\ b.at <= b.end
         /\ b.at = IF server.honours THEN start ELSE 0
         /\ start <= lengths[era] =>
              b.end <= lengths[era] /\ (~server.partial => b.end = lengths[era])
         /\ ~server.honours => b.end = lengths[era]
<1>1. There /\ lengths[era] \in Nat
  BY DEF TypeOK, Answers, There, Unknown
<1>2. CASE ~server.honours
  BY <1>1, <1>2 DEF TypeOK, Answers, Bodies
<1>3. CASE server.honours /\ start < lengths[era]
  <2>1. PICK e \in (IF server.partial THEN start + 1..lengths[era] ELSE {lengths[era]}) :
           b = [era |-> era, at |-> start, end |-> e]
    BY <1>1, <1>3 DEF Answers
  <2> QED
    BY <1>1, <1>3, <2>1 DEF TypeOK, Bodies
<1>4. CASE server.honours /\ ~(start < lengths[era])
  <2>1. b = [era |-> era, at |-> start, end |-> start]
    BY <1>1, <1>4 DEF Answers
  <2> QED
    BY <1>1, <1>4, <2>1 DEF TypeOK, Bodies
<1> QED
  BY <1>2, <1>3, <1>4

\* A request for a range is refused if there is no file, or by a server that is
\* strict about a range from the end.
LEMMA Unanswered ==
  ASSUME TypeOK, NEW start \in Nat, Answers(start) = {}
  PROVE  \/ lengths[era] = Unknown
         \/ server.honours /\ ~server.lenient /\ start >= lengths[era]
<1> SUFFICES ASSUME lengths[era] # Unknown
             PROVE  server.honours /\ ~server.lenient /\ start >= lengths[era]
  OBVIOUS
<1>1. There /\ lengths[era] \in Nat
  BY DEF TypeOK, There, Unknown
<1>2. server.honours
  BY <1>1 DEF Answers
<1>3. start >= lengths[era]
  <2> SUFFICES ASSUME start < lengths[era] PROVE FALSE
    BY <1>1
  <2>1. lengths[era] \in IF server.partial THEN start + 1..lengths[era] ELSE {lengths[era]}
    BY <1>1
  <2> QED
    BY <1>1, <1>2, <2>1 DEF Answers
<1>4. ~server.lenient
  <2> SUFFICES ASSUME server.lenient PROVE FALSE
    OBVIOUS
  <2>1. Answers(start) = {[era |-> era, at |-> start, end |-> start]}
    BY <1>1, <1>2, <1>3 DEF Answers
  <2> QED
    BY <2>1
<1> QED
  BY <1>2, <1>3, <1>4

\* Taking n bytes of a body appends them to what has been read.
LEMMA Taken ==
  ASSUME TypeOK, NEW b \in Bodies, b.at < b.end => b.era \in 1..Len(lengths),
         NEW n \in Nat, n <= Left(b), Take(b, n)
  PROVE  /\ out' \in Seq(Bytes)
         /\ Len(out') = Len(out) + n
         /\ \A i \in 1..Len(out) : out'[i] = out[i]
         /\ \A i \in 1..n : out'[Len(out) + i] = [era |-> b.era, at |-> b.at + i - 1]
         /\ pos' = pos + n
         /\ todo' = IF Served THEN todo - n ELSE todo
<1> DEFINE f == [i \in 1..n |-> [era |-> b.era, at |-> b.at + i - 1]]
<1>1. f \in [1..n -> Bytes]
  <2> SUFFICES ASSUME NEW i \in 1..n
               PROVE  [era |-> b.era, at |-> b.at + i - 1] \in Bytes
    OBVIOUS
  <2>1. b.at < b.end /\ b.at \in Nat
    BY DEF Left, Bodies
  <2> QED
    BY <2>1 DEF Bytes
<1>2. out \in Seq(Bytes)
  BY DEF TypeOK, Bytes
<1>3. out' = out \o f
  BY DEF Take
<1>4. \A i \in 1..n : f[i] = [era |-> b.era, at |-> b.at + i - 1]
  OBVIOUS
<1>5. pos' = pos + n /\ todo' = IF Served THEN todo - n ELSE todo
  BY DEF Take
<1> HIDE DEF f
<1>6. /\ out \o f \in Seq(Bytes) /\ Len(out \o f) = Len(out) + n
      /\ \A i \in 1..Len(out) : (out \o f)[i] = out[i]
      /\ \A i \in 1..n : (out \o f)[Len(out) + i] = f[i]
  <2>1. \A s \in Seq(Bytes), g \in [1..n -> Bytes] :
           /\ s \o g \in Seq(Bytes) /\ Len(s \o g) = Len(s) + n
           /\ \A i \in 1..Len(s) : (s \o g)[i] = s[i]
           /\ \A i \in 1..n : (s \o g)[Len(s) + i] = g[i]
    BY Appended
  <2> QED
    BY <1>1, <1>2, <2>1
<1> QED
  BY <1>3, <1>4, <1>5, <1>6

\* Read takes some of the open body.  It goes on to fetch the rest if the body is
\* at its end before the end of the file, or it meets the end, or neither.
LEMMA ReadTakes ==
  ASSUME Typed, Read
  PROVE  \E n \in Nat :
           /\ n <= Left(body) /\ (Served => n <= todo) /\ Take(body, n)
           /\ \/ /\ mode = "range" /\ n = Left(body) /\ pos + n < size
                 /\ body' = NoBody /\ pc' = "refetch"
                 /\ room' \in Nat /\ (Served => room' <= todo - n)
              \/ /\ body' = [body EXCEPT !.at = @ + n] /\ pc' = "read"
                 /\ UNCHANGED room
              \/ /\ n = Left(body) /\ (mode = "range" => pos + n >= size)
                 /\ body' = [body EXCEPT !.at = @ + n] /\ pc' = "end"
                 /\ UNCHANGED room
<1>1. PICK p \in 1..MaxRead, end \in BOOLEAN :
         LET n == Least(Wanted(p), Left(body))
         IN /\ end => n = Left(body)
            /\ n = 0 => end
            /\ mode = "buffer" /\ end => n = 0
            /\ Take(body, n)
            /\ IF end /\ mode = "range" /\ pos + n < size
               THEN /\ body' = NoBody
                    /\ room' = Wanted(p) - n
                    /\ GoTo("refetch")
               ELSE /\ body' = [body EXCEPT !.at = @ + n]
                    /\ UNCHANGED room
                    /\ GoTo(IF end THEN "end" ELSE "read")
  BY DEF Read
<1> DEFINE n == Least(Wanted(p), Left(body))
<1>2. Wanted(p) \in Nat /\ (Served => Wanted(p) <= todo)
  <2>1. p \in Nat
    BY BoundAssumption
  <2>2. Served => todo \in Nat
    BY DEF Read, Typed, TypeOK
  <2> QED
    BY <2>1, <2>2, LeastIs DEF Wanted
<1>3. Left(body) \in Nat
  BY DEF Typed, TypeOK, Shape, Bodies, Left
<1>4. n \in Nat /\ n <= Left(body) /\ n <= Wanted(p)
  BY <1>2, <1>3, LeastIs
<1>5. todo \in Int /\ pos \in Nat /\ size \in Nat
  BY DEF Typed, TypeOK
<1> HIDE DEF n
<1>6. Take(body, n)
  BY <1>1 DEF n
<1>7. CASE end /\ mode = "range" /\ pos + n < size
  <2>1. n = Left(body) /\ body' = NoBody /\ room' = Wanted(p) - n /\ pc' = "refetch"
    BY <1>1, <1>7 DEF n, GoTo
  <2> QED
    BY <1>2, <1>4, <1>5, <1>6, <1>7, <2>1
<1>8. CASE ~(end /\ mode = "range" /\ pos + n < size) /\ end
  <2>1. n = Left(body) /\ body' = [body EXCEPT !.at = @ + n] /\ UNCHANGED room /\ pc' = "end"
    BY <1>1, <1>8 DEF n, GoTo
  <2> QED
    BY <1>2, <1>4, <1>5, <1>6, <1>8, <2>1
<1>9. CASE ~end
  <2>1. body' = [body EXCEPT !.at = @ + n] /\ UNCHANGED room /\ pc' = "read"
    BY <1>1, <1>9 DEF n, GoTo
  <2> QED
    BY <1>2, <1>4, <1>5, <1>6, <2>1
<1> QED
  BY <1>7, <1>8, <1>9

\* The fetch of the rest takes some of a new body, or none.
LEMMA RefetchTakes ==
  ASSUME Typed, Refetch
  PROVE  /\ room' = 0
         /\ \/ /\ faults' = faults /\ trouble' = trouble /\ bodies' = bodies + 1
               /\ \E b \in Answers(pos), n \in Nat :
                    /\ n <= Left(b) /\ n <= room /\ Take(b, n)
                    /\ body' = [b EXCEPT !.at = @ + n]
                    /\ pc' = "read" \/ (pc' = "end" /\ n = Left(b))
            \/ /\ pc' = "end"
               /\ UNCHANGED <<out, pos, todo, body, bodies>>
               /\ faults' \in 0..MaxFaults
               /\ (trouble' = trouble /\ Answers(pos) = {}) \/ trouble' = TRUE
<1>1. room' = 0
  BY DEF Refetch
<1>2. CASE /\ Works /\ bodies' = bodies + 1
           /\ \E b \in Answers(pos), end \in BOOLEAN :
                LET n == Least(room, Left(b))
                IN /\ end => n = Left(b)
                   /\ room > 0 /\ n = 0 => end
                   /\ Take(b, n)
                   /\ body' = [b EXCEPT !.at = @ + n]
                   /\ GoTo(IF end THEN "end" ELSE "read")
  <2>1. PICK b \in Answers(pos), end \in BOOLEAN :
           LET n == Least(room, Left(b))
           IN /\ end => n = Left(b)
              /\ Take(b, n)
              /\ body' = [b EXCEPT !.at = @ + n]
              /\ GoTo(IF end THEN "end" ELSE "read")
    BY <1>2
  <2> DEFINE n == Least(room, Left(b))
  <2>2. Left(b) \in Nat
    <3>1. pos \in Nat
      BY DEF Typed, TypeOK
    <3> QED
      BY <3>1, Answered DEF Typed, Bodies, Left
  <2>3. n \in Nat /\ n <= Left(b) /\ n <= room
    BY <2>2, LeastIs DEF Typed, TypeOK
  <2> HIDE DEF n
  <2>4. Take(b, n) /\ body' = [b EXCEPT !.at = @ + n]
    BY <2>1 DEF n
  <2>5. pc' = "read" \/ (pc' = "end" /\ n = Left(b))
    <3>1. CASE end
      BY <2>1, <3>1 DEF n, GoTo
    <3>2. CASE ~end
      BY <2>1, <3>2 DEF n, GoTo
    <3> QED
      BY <3>1, <3>2
  <2> QED
    BY <1>1, <1>2, <2>3, <2>4, <2>5 DEF Works
<1>3. CASE /\ (Works /\ Answers(pos) = {}) \/ Fails
           /\ GoTo("end")
           /\ UNCHANGED <<out, pos, todo, body, bodies>>
  <2>1. faults' \in 0..MaxFaults
    BY <1>3, BoundAssumption DEF Works, Fails, Typed, TypeOK
  <2>2. (trouble' = trouble /\ Answers(pos) = {}) \/ trouble' = TRUE
    BY <1>3, Zenon DEF Works, Fails
  <2> QED
    BY <1>1, <1>3, <2>1, <2>2 DEF GoTo
<1> QED
  BY <1>2, <1>3 DEF Refetch

----------------------------------------------------------------------------
(* Types *)

\* What a request seeks: nothing, or something that ends at the first byte it wants.
LEMMA SeeksTyped ==
  ASSUME NEW a \in Asks, NEW f \in Nat
  PROVE  /\ Seeks(a, f) \in Seq({"start", "end", "from"})
         /\ Seeks(a, f) = <<>> => a \in {"copy", "peek"} /\ f = 0
         /\ a \in {"copy", "peek"} /\ f = 0 => Seeks(a, f) = <<>>
         /\ Seeks(a, f) # <<>> =>
              Seeks(a, f)[Len(Seeks(a, f))] = IF f > 0 THEN "from" ELSE "start"
<1>1. CASE a \in {"copy", "peek"}
  BY <1>1 DEF Seeks
<1>2. CASE a = "serve"
  BY <1>2 DEF Seeks
<1>3. CASE a = "manifest"
  BY <1>3 DEF Seeks
<1> QED
  BY <1>1, <1>2, <1>3 DEF Asks

\* No seek goes past the end.
LEMMA TargetIs ==
  ASSUME TypeOK, seeks # <<>>
  PROVE  /\ Target \in Nat /\ Target <= size
         /\ seeks[1] = "start" => Target = 0
         /\ seeks[1] = "from" /\ from < size => Target = from
<1>1. seeks[1] \in {"start", "end", "from"} /\ from \in Nat /\ size \in Nat
  BY DEF TypeOK
<1>2. Least(from, size) \in Nat /\ Least(from, size) <= size
      /\ (from < size => Least(from, size) = from)
  BY <1>1 DEF Least
<1>3. CASE seeks[1] = "start"
  BY <1>1, <1>3 DEF Target
<1>4. CASE seeks[1] = "end"
  BY <1>1, <1>4 DEF Target
<1>5. CASE seeks[1] = "from"
  BY <1>1, <1>2, <1>5 DEF Target
<1> QED
  BY <1>1, <1>3, <1>4, <1>5

\* A call to the server counts as a fault or not.
LEMMA CallTyped ==
  ASSUME TypeOK, Works \/ Fails
  PROVE  faults' \in 0..MaxFaults /\ trouble' \in BOOLEAN
<1>1. faults' \in 0..MaxFaults
  BY BoundAssumption DEF TypeOK, Works, Fails
<1>2. trouble' \in BOOLEAN
  BY Zenon DEF TypeOK, Works, Fails
<1> QED
  BY <1>1, <1>2

\* Every reader begins typed.
LEMMA TypedInit == Init => Typed
<1> SUFFICES ASSUME Init PROVE Typed
  OBVIOUS
<1>1. lengths \in Seq(Nat \cup {Unknown}) /\ Len(lengths) \in Nat /\ Len(lengths) >= 1
  <2>1. lengths \in Seq(Nat \cup {Unknown}) /\ lengths # <<>>
    BY HistoryAssumption DEF Init
  <2> QED
    BY <2>1
<1>2. body \in Bodies /\ Shape /\ seeks \in Seq({"start", "end", "from"})
  BY <1>1 DEF Init, NoBody, Bodies, Shape
<1>3. out \in Seq([era : 1..Len(lengths), at : Nat])
  BY DEF Init
<1>4. server \in Kinds /\ faults \in 0..MaxFaults
  BY ServerAssumption, BoundAssumption DEF Init
<1>5. trouble \in BOOLEAN
  BY Zenon DEF Init
<1> QED
  BY <1>1, <1>2, <1>3, <1>4, <1>5 DEF Init, Typed, TypeOK, Asks

\* The rest of a sequence.
LEMMA TailIs ==
  ASSUME NEW S, NEW s \in Seq(S), s # <<>>
  PROVE  /\ Tail(s) \in Seq(S) /\ Len(Tail(s)) = Len(s) - 1
         /\ Tail(s) # <<>> => Tail(s)[Len(Tail(s))] = s[Len(s)]
         /\ Tail(s) = <<>> => s[1] = s[Len(s)]
<1>1. PICK t \in Seq(S) :
         /\ t = Tail(s) /\ Len(t) = Len(s) - 1
         /\ \A i \in 1..Len(t) : t[i] = s[i + 1]
  BY HeadTailProperties, Zenon
<1>2. Len(s) \in Nat /\ Len(t) \in Nat /\ Len(s) = Len(t) + 1
  BY <1>1, LenProperties
<1>3. t = <<>> <=> Len(t) = 0
  BY EmptySeq
<1>4. ASSUME t # <<>> PROVE t[Len(t)] = s[Len(s)]
  <2>1. Len(t) \in 1..Len(t)
    BY <1>2, <1>3, <1>4
  <2> QED
    BY <1>1, <1>2, <2>1
<1>5. ASSUME t = <<>> PROVE s[1] = s[Len(s)]
  BY <1>2, <1>3, <1>5
<1> QED
  BY <1>1, <1>4, <1>5, Zenon

\* A seek keeps the types.
LEMMA TypedSeek ==
  ASSUME Typed, Seek
  PROVE  Typed'
<1>1. faults' \in 0..MaxFaults /\ trouble' \in BOOLEAN
  BY CallTyped DEF Seek, Typed
<1>2. pos' = Target /\ Target \in Nat /\ Target <= size
  BY TargetIs DEF Seek, Typed
<1>3. seeks' \in Seq({"start", "end", "from"})
  <2>1. seeks \in Seq({"start", "end", "from"}) /\ seeks # <<>>
    BY DEF Seek, Typed, TypeOK
  <2>2. seeks' = Tail(seeks) \/ seeks' = seeks
    BY DEF Seek
  <2> QED
    BY <2>1, <2>2, TailIs
<1>4. pc = "seek" /\ pc' \in {"seek", "close"} /\ status' \in {status, "error"}
  BY DEF Seek, GoTo
<1>5. UNCHANGED <<lengths, mode, size>>
  BY DEF Seek, world
<1>6. body' \in Bodies /\ Shape'
  <2>1. CASE mode = "range" /\ body' = NoBody
    BY <1>4, <1>5, <2>1 DEF NoBody, Bodies, Shape, Typed, TypeOK
  <2>2. CASE mode = "buffer" /\ body' = [body EXCEPT !.at = Target]
    BY <1>2, <1>4, <1>5, <2>2 DEF Bodies, Shape, Typed, TypeOK
  <2>3. CASE mode = "range" /\ body' \in Answers(Target)
    <3>1. body' \in Bodies /\ body'.at <= body'.end /\ body'.era \in 1..Len(lengths)
      BY <1>2, <2>3, Answered DEF Typed
    <3> QED
      BY <1>4, <1>5, <2>3, <3>1 DEF Shape
  <2> QED
    BY <2>1, <2>2, <2>3 DEF Seek, Typed, Shape
<1> QED
  BY <1>1, <1>2, <1>3, <1>4, <1>5, <1>6 DEF Seek, Typed, TypeOK, Bodies, world

\* A read keeps the types.
LEMMA TypedRead ==
  ASSUME Typed, Read
  PROVE  Typed'
<1>1. PICK n \in Nat :
         /\ n <= Left(body) /\ Take(body, n)
         /\ \/ body' = NoBody /\ pc' = "refetch" /\ mode = "range"
            \/ body' = [body EXCEPT !.at = @ + n] /\ pc' \in {"read", "end"}
         /\ room' \in Nat
  BY ReadTakes DEF Typed, TypeOK
<1>2. out' \in Seq(Bytes) /\ pos' \in Nat /\ todo' \in Int
  <2>1. body \in Bodies /\ (body.at < body.end => body.era \in 1..Len(lengths))
    BY DEF Typed, TypeOK, Shape
  <2>2. /\ out' \in Seq(Bytes) /\ pos' = pos + n
        /\ todo' = IF Served THEN todo - n ELSE todo
    BY <1>1, <2>1, Taken DEF Typed
  <2> QED
    BY <2>2 DEF Typed, TypeOK
<1>3. pc = "read" /\ UNCHANGED <<lengths, mode, size>>
  BY DEF Read, world
<1>4. body' \in Bodies /\ Shape'
  <2>1. CASE body' = NoBody /\ pc' = "refetch" /\ mode = "range"
    BY <1>3, <2>1 DEF NoBody, Bodies, Shape, Typed, TypeOK
  <2>2. CASE body' = [body EXCEPT !.at = @ + n] /\ pc' \in {"read", "end"}
    <3>1. body \in Bodies /\ n <= body.end - body.at
      BY <1>1 DEF Left, Typed, TypeOK
    <3>2. /\ body' \in Bodies /\ body'.at = body.at + n
          /\ body'.end = body.end /\ body'.era = body.era
      BY <2>2, <3>1 DEF Bodies
    <3>3. body.at \in Nat /\ body.end \in Nat
      BY <3>1 DEF Bodies
    <3> QED
      BY <1>3, <2>2, <3>1, <3>2, <3>3 DEF Shape, Typed
  <2> QED
    BY <1>1, <2>1, <2>2
<1> QED
  BY <1>1, <1>2, <1>3, <1>4 DEF Read, Typed, TypeOK, Bytes, Bodies, world, history

\* The fetch of the rest keeps the types.
LEMMA TypedRefetch ==
  ASSUME Typed, Refetch
  PROVE  Typed'
<1>1. /\ pc = "refetch" /\ room' = 0 /\ pc' \in {"read", "end"} /\ bodies' \in Nat
      /\ UNCHANGED <<world, era, supports, ask, from, seeks, status, mode, size,
                     opened, eras>>
  <2>1. pc' \in {"read", "end"} /\ (bodies' = bodies + 1 \/ bodies' = bodies) /\ room' = 0
    BY RefetchTakes
  <2> QED
    BY <2>1 DEF Refetch, Typed, TypeOK
<1>2. faults' \in 0..MaxFaults /\ trouble' \in BOOLEAN
  BY CallTyped DEF Refetch, Typed
<1>3. mode = "range"
  BY <1>1 DEF Typed, Shape
<1>4. CASE UNCHANGED <<out, pos, todo, body>>
  BY <1>1, <1>2, <1>3, <1>4 DEF Bodies, Typed, TypeOK, Shape, world
<1>5. ASSUME NEW b \in Answers(pos), NEW n \in Nat, n <= Left(b), Take(b, n),
             body' = [b EXCEPT !.at = @ + n]
      PROVE  Typed'
  <2>1. b \in Bodies /\ b.at <= b.end /\ b.era \in 1..Len(lengths)
    BY <1>5, Answered DEF Typed, TypeOK
  <2>2. /\ out' \in Seq(Bytes) /\ pos' = pos + n
        /\ todo' = IF Served THEN todo - n ELSE todo
    BY <1>5, <2>1, Taken DEF Typed
  <2>3. body' \in Bodies /\ Shape'
    BY <1>1, <1>3, <1>5, <2>1 DEF Bodies, Left, Shape, world
  <2> QED
    BY <1>1, <1>2, <2>2, <2>3 DEF Typed, TypeOK, Bytes, Bodies, world
<1> QED
  BY <1>4, <1>5, RefetchTakes

\* No step takes a variable out of its type: one step per action.
LEMMA TypedNext == Typed /\ [Next]_vars => Typed'
<1> SUFFICES ASSUME Typed, [Next]_vars PROVE Typed'
  OBVIOUS
<1> USE DEF Typed, TypeOK, Shape, GoTo, world, reader, request, history
<1>1. CASE Change
  BY <1>1 DEF Change, Bodies
<1>2. CASE GetReader
  <2>1. ask' \in Asks /\ from' \in Nat /\ seeks' \in Seq({"start", "end", "from"})
    BY <1>2, SeeksTyped, BoundAssumption DEF GetReader
  <2>2. body' \in Bodies' /\ Shape'
    BY <1>2 DEF GetReader, NoBody, Bodies
  <2>3. trouble' \in BOOLEAN
    BY <1>2, Zenon DEF GetReader
  <2>4. out' \in Seq([era : 1..Len(lengths'), at : Nat])
    BY <1>2 DEF GetReader
  <2>5. pc' \in {"probe", "head", "buffer"}
    BY <1>2 DEF GetReader
  <2> QED
    BY <1>2, <2>1, <2>2, <2>3, <2>4, <2>5 DEF GetReader
<1>3. CASE CheckRangeSupport
  <2>1. faults' \in 0..MaxFaults /\ trouble' \in BOOLEAN
    BY <1>3, CallTyped DEF CheckRangeSupport
  <2>2. supports' \in {"yes", "no"} /\ pc' \in {"head", "buffer"}
    BY <1>3 DEF CheckRangeSupport
  <2> QED
    BY <1>3, <2>1, <2>2 DEF CheckRangeSupport, Bodies
<1>4. CASE HeadSize
  <2>1. size' \in Nat /\ pc' \in {"first", "buffer"}
    BY <1>4, LengthAssumption DEF HeadSize, There, Unknown
  <2>2. faults' \in 0..MaxFaults /\ trouble' \in BOOLEAN
    BY <1>4, CallTyped DEF HeadSize
  <2> QED
    BY <1>4, <2>1, <2>2 DEF HeadSize, Bodies
<1>5. CASE FetchFirst
  <2>1. faults' \in 0..MaxFaults /\ trouble' \in BOOLEAN
    BY <1>5, CallTyped DEF FetchFirst
  <2>2. body' \in Bodies' /\ Shape'
    BY <1>5, Answered DEF FetchFirst, Bodies
  <2>3. bodies' \in Nat /\ mode' \in {"none", "range", "buffer"} /\ pc' \in {"seek", "buffer"}
    BY <1>5 DEF FetchFirst
  <2> QED
    BY <1>5, <2>1, <2>2, <2>3 DEF FetchFirst
<1>6. CASE Buffer
  <2>1. faults' \in 0..MaxFaults /\ trouble' \in BOOLEAN
    BY <1>6, CallTyped DEF Buffer
  <2>2. body' \in Bodies' /\ Shape' /\ size' \in Nat
    BY <1>6 DEF Buffer, Bodies, There, Unknown
  <2>3. /\ bodies' \in Nat /\ mode' \in {"none", "range", "buffer"}
        /\ pc' \in {"seek", "close"} /\ status' \in {status, "error"}
    BY <1>6 DEF Buffer
  <2> QED
    BY <1>6, <2>1, <2>2, <2>3 DEF Buffer
<1>7. CASE OutOfRange
  BY <1>7 DEF OutOfRange, Bodies
<1>8. CASE Seek
  BY <1>8, TypedSeek
<1>9. CASE Begin
  BY <1>9 DEF Begin, Bodies
<1>10. CASE Read
  BY <1>10, TypedRead
<1>11. CASE Refetch
  BY <1>11, TypedRefetch
<1>12. CASE ReadFails
  <2>1. faults' \in 0..MaxFaults /\ trouble' \in BOOLEAN
    BY <1>12, CallTyped DEF ReadFails
  <2> QED
    BY <1>12, <2>1 DEF ReadFails, Bodies
<1>13. CASE Finish
  BY <1>13 DEF Finish, Bodies
<1>14. CASE Close
  BY <1>14 DEF Close, NoBody, Bodies
<1>15. CASE UNCHANGED vars
  BY <1>15 DEF vars, Bodies
<1> QED
  BY <1>1, <1>2, <1>3, <1>4, <1>5, <1>6, <1>7, <1>8, <1>9, <1>10, <1>11, <1>12, <1>13,
     <1>14, <1>15 DEF Next, Handle, Quiet

\* Type correctness of the reader: in every reachable state every variable has its
\* type, whatever the server, the file and the faults (TypeOK).
THEOREM TypeCorrect == Spec => []TypeOK
<1>1. Init => Typed
  BY TypedInit
<1>2. Typed /\ [Next]_vars => Typed'
  BY TypedNext
<1>3. Typed => TypeOK
  BY DEF Typed
<1> QED
  BY <1>1, <1>2, <1>3, PTL DEF Spec

----------------------------------------------------------------------------
(* Before the file is read *)

\* Where a request is while its reader is opened.
Opening == {"probe", "head", "first", "buffer"}

\* The seeks of a request bring the reader to the first byte it wants, and a reader
\* that honours ranges, or is a buffer, is where it has been brought.
Aim ==
  /\ pc \in Opening => pos = 0
  /\ pc \in Opening \cup {"seek"} =>
       /\ out = <<>>
       /\ seeks = <<>> => pos = from /\ (pc = "seek" => pos <= size)
       /\ seeks # <<>> =>
            Served /\ seeks[Len(seeks)] = IF from > 0 THEN "from" ELSE "start"
  /\ pc = "seek" =>
       bodies = 1 /\ body.at = IF server.honours \/ mode = "buffer" THEN pos ELSE 0

\* A reader that is not asked for is nowhere.
LEMMA AimInit == Init => Aim
  BY DEF Init, Aim, Opening

\* Every step keeps the aim: one step per action that seeks or opens.
LEMMA AimNext == Typed /\ Aim /\ [Next]_vars => Aim'
<1> SUFFICES ASSUME Typed, Aim, [Next]_vars PROVE Aim'
  OBVIOUS
<1> USE DEF Aim, Opening, GoTo, world, reader, request, history, Served
<1>1. CASE Change
  BY <1>1 DEF Change
<1>2. CASE GetReader
  <2>1. PICK a \in Asks, f \in 0..MaxFrom :
           ask' = a /\ from' = f /\ seeks' = Seeks(a, f)
    BY <1>2 DEF GetReader
  <2>2. f \in Nat
    BY BoundAssumption
  <2>3. /\ seeks' = <<>> => from' = 0
        /\ seeks' # <<>> => /\ seeks'[Len(seeks')] = IF from' > 0 THEN "from" ELSE "start"
                            /\ ask' \notin {"copy", "peek"}
    BY <1>2, <2>1, <2>2, SeeksTyped DEF GetReader
  <2>4. ask' \in Asks /\ pos' = 0 /\ out' = <<>> /\ pc' \in {"probe", "head", "buffer"}
    BY <1>2, <2>1 DEF GetReader, Typed, TypeOK
  <2> QED
    BY <2>3, <2>4 DEF Asks
<1>3. CASE CheckRangeSupport
  BY <1>3 DEF CheckRangeSupport
<1>4. CASE HeadSize
  BY <1>4 DEF HeadSize
<1>5. CASE FetchFirst
  <2>1. CASE body' \in Answers(0) /\ mode' = "range" /\ bodies' = 1 /\ pc' = "seek"
    BY <1>5, <2>1, Answered DEF FetchFirst, Typed, TypeOK
  <2>2. CASE pc' = "buffer" /\ UNCHANGED <<body, mode, bodies>>
    BY <1>5, <2>2 DEF FetchFirst
  <2> QED
    BY <1>5, <2>1, <2>2 DEF FetchFirst
<1>6. CASE Buffer
  BY <1>6 DEF Buffer, There, Unknown, Typed, TypeOK
<1>7. CASE OutOfRange
  BY <1>7 DEF OutOfRange
<1>8. CASE Seek
  <2>1. CASE pc' = "close"
    BY <1>8, <2>1 DEF Seek
  <2>2. CASE /\ pc' = pc /\ seeks' = Tail(seeks)
             /\ body' \in IF mode = "buffer" THEN {[body EXCEPT !.at = Target]}
                          ELSE Answers(Target)
    <3>1. /\ pc = "seek" /\ seeks # <<>> /\ ~PastEnd /\ pos' = Target
          /\ UNCHANGED <<server, from, ask, size, mode, out, bodies>>
      BY <1>8 DEF Seek
    <3>2. body'.at = IF server.honours \/ mode = "buffer" THEN pos' ELSE 0
      <4>1. CASE mode = "buffer"
        BY <2>2, <3>1, <4>1 DEF Typed, TypeOK, Bodies
      <4>2. CASE mode # "buffer"
        <5>1. Target \in Nat /\ TypeOK
          BY <3>1, TargetIs DEF Typed
        <5>2. body'.at = IF server.honours THEN Target ELSE 0
          BY <2>2, <4>2, <5>1, Answered
        <5> QED
          BY <3>1, <4>2, <5>2
      <4> QED
        BY <4>1, <4>2
    <3>3. /\ seeks' # <<>> => seeks'[Len(seeks')] = seeks[Len(seeks)]
          /\ seeks' = <<>> => seeks[1] = seeks[Len(seeks)]
      BY <2>2, <3>1, TailIs DEF Typed, TypeOK
    <3>4. seeks' = <<>> => pos' = from /\ pos' <= size
      BY <3>1, <3>3, TargetIs DEF PastEnd, Typed, TypeOK
    <3> QED
      BY <2>2, <3>1, <3>2, <3>3, <3>4
  <2> QED
    BY <1>8, <2>1, <2>2 DEF Seek
<1>9. CASE Begin \/ Read \/ Refetch
  BY <1>9, ReadTakes, RefetchTakes DEF Begin
<1>10. CASE ReadFails \/ Finish \/ Close
  BY <1>10 DEF ReadFails, Finish, Close
<1>11. CASE UNCHANGED vars
  BY <1>11 DEF vars
<1> QED
  BY <1>1, <1>2, <1>3, <1>4, <1>5, <1>6, <1>7, <1>8, <1>9, <1>10, <1>11
  DEF Next, Handle, Quiet

----------------------------------------------------------------------------
(* The bytes handed out *)

\* The requests for which the server's bodies are where they were asked for.
Straight == server.honours \/ mode = "buffer" \/ (from = 0 /\ bodies <= 1)

\* The position is as far into the file as bytes have been handed out, and the
\* open body begins there.
Progress ==
  /\ pc \in {"read", "refetch", "end"} =>
       pos = from + Len(out) /\ (Served => todo = size - pos /\ todo >= 0)
  /\ pc = "refetch" /\ Served => room <= todo
  /\ pc \in {"read", "refetch"} => bodies >= 1
  /\ pc = "read" /\ Straight => body.at = pos

\* The inductive invariant for the bytes.
ReadInv == Typed /\ Aim /\ Progress /\ BytesAreConsecutive

\* Nothing has been handed out yet.
LEMMA ProgressInit == Init => Progress /\ BytesAreConsecutive
  BY DEF Init, Progress, BytesAreConsecutive

\* Bytes taken where the position is continue those handed out before.
LEMMA TakenOn ==
  ASSUME Typed, BytesAreConsecutive, UNCHANGED <<server, from, mode>>,
         Straight' => Straight, pos = from + Len(out),
         NEW b \in Bodies, b.at < b.end => b.era \in 1..Len(lengths),
         NEW n \in Nat, n <= Left(b), Take(b, n), Straight' => b.at = pos
  PROVE  BytesAreConsecutive'
<1> SUFFICES ASSUME Straight', NEW i \in 1..Len(out') PROVE out'[i].at = from + i - 1
  BY DEF BytesAreConsecutive, Straight
<1>1. /\ Len(out') = Len(out) + n
      /\ \A j \in 1..Len(out) : out'[j] = out[j]
      /\ \A j \in 1..n : out'[Len(out) + j] = [era |-> b.era, at |-> b.at + j - 1]
  BY Taken DEF Typed
<1>2. Len(out) \in Nat /\ from \in Nat /\ b.at = from + Len(out)
  BY DEF Typed, TypeOK
<1>3. CASE i <= Len(out)
  <2>1. i \in 1..Len(out)
    BY <1>2, <1>3
  <2> QED
    BY <1>1, <2>1 DEF BytesAreConsecutive, Straight
<1>4. CASE i > Len(out)
  <2>1. i - Len(out) \in 1..n /\ Len(out) + (i - Len(out)) = i
    BY <1>1, <1>2, <1>4
  <2>2. out'[i] = [era |-> b.era, at |-> b.at + (i - Len(out)) - 1]
    BY <1>1, <2>1
  <2> QED
    BY <1>2, <2>2
<1> QED
  BY <1>2, <1>3, <1>4

\* Every step keeps the position at the bytes handed out: one step per action.
LEMMA ProgressNext == ReadInv /\ [Next]_vars => Progress' /\ BytesAreConsecutive'
<1> SUFFICES ASSUME ReadInv, [Next]_vars PROVE Progress' /\ BytesAreConsecutive'
  OBVIOUS
<1> USE DEF ReadInv, Progress, GoTo, world, reader, request, history, Served, Straight
<1>1. CASE Change
  BY <1>1 DEF Change, BytesAreConsecutive
<1>2. CASE GetReader
  <2>1. out' = <<>> /\ pc' \in Opening
    BY <1>2 DEF GetReader, Opening, Typed, TypeOK
  <2> QED
    BY <2>1 DEF BytesAreConsecutive, Opening
<1>3. ASSUME CheckRangeSupport \/ HeadSize \/ FetchFirst \/ Buffer \/ OutOfRange \/ Seek
      PROVE  Progress' /\ BytesAreConsecutive'
  <2>1. out' = <<>> /\ pc' \in Opening \cup {"seek", "close"}
    BY <1>3 DEF CheckRangeSupport, HeadSize, FetchFirst, Buffer, OutOfRange, Seek, Aim, Opening
  <2> QED
    BY <2>1 DEF BytesAreConsecutive, Opening
<1>4. CASE Begin
  BY <1>4 DEF Begin, Aim, Opening, BytesAreConsecutive, Typed, TypeOK
<1>5. CASE Read
  <2>1. PICK n \in Nat :
           /\ n <= Left(body) /\ (Served => n <= todo) /\ Take(body, n)
           /\ \/ pc' = "refetch" /\ (Served => room' <= todo - n)
              \/ body' = [body EXCEPT !.at = @ + n] /\ pc' \in {"read", "end"}
    BY <1>5, ReadTakes
  <2>2. body \in Bodies /\ (body.at < body.end => body.era \in 1..Len(lengths))
    BY DEF Typed, TypeOK, Shape
  <2>3. pc = "read" /\ UNCHANGED <<server, from, mode, bodies, size, ask>>
    BY <1>5 DEF Read
  <2>4. BytesAreConsecutive'
    BY <2>1, <2>2, <2>3, TakenOn
  <2>5. Len(out') = Len(out) + n /\ pos' = pos + n /\ todo' = IF Served THEN todo - n ELSE todo
    BY <2>1, <2>2, Taken DEF Typed
  <2>6. Len(out) \in Nat /\ from \in Nat /\ todo \in Int /\ size \in Nat /\ bodies \in Nat
    BY DEF Typed, TypeOK
  <2>7. pos' = from' + Len(out') /\ (Served' => todo' = size' - pos' /\ todo' >= 0)
    BY <2>1, <2>3, <2>5, <2>6
  <2>8. CASE pc' = "refetch" /\ (Served => room' <= todo - n)
    <3>1. (Served' => room' <= todo') /\ bodies' >= 1
      BY <2>3, <2>5, <2>6, <2>8
    <3> HIDE DEF Straight, Served
    <3> QED
      BY <2>4, <2>7, <2>8, <3>1
  <2>9. CASE body' = [body EXCEPT !.at = @ + n] /\ pc' \in {"read", "end"}
    <3>1. body'.at = body.at + n
      BY <2>2, <2>9 DEF Bodies
    <3>2. Straight' => body'.at = pos'
      BY <2>3, <2>5, <3>1
    <3>3. bodies' >= 1
      BY <2>3
    <3> HIDE DEF Straight, Served
    <3> QED
      BY <2>4, <2>7, <2>9, <3>2, <3>3
  <2> QED
    BY <2>1, <2>8, <2>9
<1>6. CASE Refetch
  <2>1. pc = "refetch" /\ mode = "range" /\ UNCHANGED <<server, from, mode, size, ask>>
    BY <1>6 DEF Refetch, Typed, Shape
  <2>2. Len(out) \in Nat /\ from \in Nat /\ todo \in Int /\ size \in Nat /\ bodies \in Nat
        /\ pos \in Nat /\ room \in Nat
    BY DEF Typed, TypeOK
  <2>3. CASE pc' = "end" /\ UNCHANGED <<out, pos, todo, body, bodies>>
    BY <2>1, <2>3 DEF BytesAreConsecutive
  <2>4. ASSUME NEW b \in Answers(pos), NEW n \in Nat, n <= Left(b), n <= room, Take(b, n),
               body' = [b EXCEPT !.at = @ + n], pc' \in {"read", "end"}, bodies' = bodies + 1
        PROVE  Progress' /\ BytesAreConsecutive'
    <3>1. /\ b \in Bodies /\ b.at <= b.end /\ b.era \in 1..Len(lengths)
          /\ server.honours => b.at = pos
      BY <2>2, Answered DEF Typed
    <3>2. Straight' => server.honours
      BY <2>1, <2>2, <2>4
    <3>3. BytesAreConsecutive'
      BY <2>1, <2>4, <3>1, <3>2, TakenOn
    <3>4. Len(out') = Len(out) + n /\ pos' = pos + n /\ todo' = IF Served THEN todo - n ELSE todo
      BY <2>4, <3>1, Taken DEF Typed
    <3>5. body'.at = b.at + n
      BY <2>4, <3>1 DEF Bodies
    <3>6. pos' = from' + Len(out') /\ (Served' => todo' = size' - pos' /\ todo' >= 0)
      <4>1. pos = from + Len(out) /\ (Served => todo = size - pos /\ room <= todo)
        BY <2>1
      <4> HIDE DEF Progress, ReadInv, Straight
      <4>2. (Served' <=> Served) /\ size' = size /\ from' = from
        BY <2>1
      <4> HIDE DEF Served
      <4>3. pos' = from' + Len(out')
        BY <2>2, <3>4, <4>1, <4>2
      <4>4. ASSUME Served PROVE todo' = size' - pos' /\ todo' >= 0
        <5>1. todo' = todo - n /\ pos' = pos + n /\ size' = size
          BY <3>4, <4>2, <4>4
        <5>2. todo = size - pos /\ n <= todo
          BY <2>2, <2>4, <4>1, <4>4
        <5> QED
          BY <2>2, <5>1, <5>2
      <4> QED
        BY <4>2, <4>3, <4>4
    <3>7. Straight' => body'.at = pos'
      <4> HAVE Straight'
      <4>1. b.at = pos
        BY <3>1, <3>2
      <4> QED
        BY <3>4, <3>5, <4>1
    <3>8. bodies' >= 1
      BY <2>2, <2>4
    <3>9. pc' # "refetch"
      BY <2>4
    <3> HIDE DEF Straight, Served
    <3> QED
      BY <3>3, <3>6, <3>7, <3>8, <3>9
  <2> QED
    BY <1>6, <2>3, <2>4, RefetchTakes
<1>7. CASE ReadFails \/ Finish \/ Close
  BY <1>7 DEF ReadFails, Finish, Close, BytesAreConsecutive
<1>8. CASE UNCHANGED vars
  BY <1>8 DEF vars, BytesAreConsecutive
<1> QED
  BY <1>1, <1>2, <1>3, <1>4, <1>5, <1>6, <1>7, <1>8 DEF Next, Handle, Quiet

\* Whatever was sought, refetched or lost, the bytes handed out are consecutive bytes
\* of the file from the first one wanted, if the server honours ranges, or the reader
\* is a buffer, or the whole file was asked for and came in one body.
THEOREM BytesConsecutive == Spec => []BytesAreConsecutive
<1>1. Init => ReadInv
  BY TypedInit, AimInit, ProgressInit DEF ReadInv
<1>2. ReadInv /\ [Next]_vars => ReadInv'
  BY TypedNext, AimNext, ProgressNext DEF ReadInv
<1>3. ReadInv => BytesAreConsecutive
  BY DEF ReadInv
<1> QED
  BY <1>1, <1>2, <1>3, PTL DEF Spec

----------------------------------------------------------------------------
(* What is to blame for an error *)

\* The causes an error may have.
Cause == \/ trouble
         \/ \E e \in eras : lengths[e] = Unknown
         \/ Served /\ mode = "range" /\ server.honours /\ ~server.lenient

\* A request remembers every state the file has had since it began, and a cause of
\* the error it ends with.
Blamed ==
  /\ pc # "idle" => era \in eras
  /\ pc = "close" /\ status = "error" => Cause

\* A seek that is not answered has a cause.
LEMMA SeekBlamed ==
  ASSUME Typed, Aim, Blamed, Seek, pc' = "close"
  PROVE  Cause'
<1>1. /\ pc = "seek" /\ seeks # <<>> /\ mode = "range" /\ era \in eras
      /\ UNCHANGED <<server, lengths, era, ask, mode, eras>>
      /\ (trouble' = trouble /\ Answers(Target) = {}) \/ trouble' = TRUE
  BY DEF Seek, GoTo, Works, Fails, Blamed, world
<1>2. Served
  BY <1>1 DEF Aim
<1>3. CASE Answers(Target) = {}
  <2>1. Target \in Nat /\ TypeOK
    BY <1>1, TargetIs DEF Typed
  <2>2. \/ lengths[era] = Unknown
        \/ server.honours /\ ~server.lenient /\ Target >= lengths[era]
    BY <1>3, <2>1, Unanswered
  <2> QED
    BY <1>1, <1>2, <2>2 DEF Cause, Served
<1>4. CASE trouble' = TRUE
  BY <1>4 DEF Cause
<1> QED
  BY <1>1, <1>3, <1>4

\* Every step keeps a cause at hand: one step per action.
LEMMA BlamedNext == Typed /\ Aim /\ Blamed /\ [Next]_vars => Blamed'
<1> SUFFICES ASSUME Typed, Aim, Blamed, [Next]_vars PROVE Blamed'
  OBVIOUS
<1> USE DEF Blamed, GoTo, world, reader, request, history
<1>1. CASE Change
  BY <1>1 DEF Change, Cause, Served
<1>2. CASE GetReader
  BY <1>2 DEF GetReader
<1>3. CASE CheckRangeSupport \/ HeadSize \/ FetchFirst \/ Begin
  BY <1>3 DEF CheckRangeSupport, HeadSize, FetchFirst, Begin
<1>4. CASE Buffer
  <2>1. /\ pc = "buffer" /\ UNCHANGED <<lengths, era, eras>>
        /\ pc' = "close" => (trouble' = trouble /\ ~There) \/ trouble' = TRUE
        /\ pc' \in {"seek", "close"}
    BY <1>4 DEF Buffer, Works, Fails
  <2> QED
    BY <2>1 DEF There, Cause
<1>5. CASE OutOfRange \/ Finish
  BY <1>5 DEF OutOfRange, Finish
<1>6. CASE Seek
  <2>1. pc = "seek" /\ pc' \in {"seek", "close"} /\ UNCHANGED <<era, eras>>
    BY <1>6 DEF Seek
  <2> QED
    BY <1>6, <2>1, SeekBlamed
<1>7. CASE Read
  <2>1. pc = "read" /\ pc' \in {"read", "refetch", "end"} /\ UNCHANGED <<era, eras>>
    BY <1>7, ReadTakes DEF Read
  <2> QED
    BY <2>1
<1>8. CASE Refetch
  <2>1. pc = "refetch" /\ pc' \in {"read", "end"} /\ UNCHANGED <<era, eras>>
    BY <1>8, RefetchTakes DEF Refetch
  <2> QED
    BY <2>1
<1>9. CASE ReadFails
  BY <1>9 DEF ReadFails, Fails, Cause
<1>10. CASE Close
  BY <1>10 DEF Close
<1>11. CASE UNCHANGED vars
  BY <1>11 DEF vars, Cause, Served
<1> QED
  BY <1>1, <1>2, <1>3, <1>4, <1>5, <1>6, <1>7, <1>8, <1>9, <1>10, <1>11
  DEF Next, Handle, Quiet

\* A request ends with an error only if one of its own calls failed, the file was away
\* at some moment of it, or the server is strict about a range that starts at the
\* end of the file, where http.ServeContent seeks first.
THEOREM ErrorsCaused == Spec => []ErrorsHaveACause
<1>1. Init => Typed /\ Aim /\ Blamed
  BY TypedInit, AimInit DEF Init, Blamed
<1>2. Typed /\ Aim /\ Blamed /\ [Next]_vars => (Typed /\ Aim /\ Blamed)'
  BY TypedNext, AimNext, BlamedNext
<1>3. Blamed => ErrorsHaveACause
  BY DEF Blamed, Cause, ErrorsHaveACause
<1> QED
  BY <1>1, <1>2, <1>3, PTL DEF Spec

----------------------------------------------------------------------------
(* The buffered copy *)

\* While the buffer is read, what has been handed out is of the state of the file it
\* was filled from; and it has been read to its end once the end is met.
Copied ==
  mode = "buffer" /\ pc \in {"seek", "read", "end", "close"} =>
    /\ body.era \in eras
    /\ \A i \in 1..Len(out) : out[i].era = body.era
    /\ pc = "end" => pos = size

\* A read of the buffer hands out bytes of that state.
LEMMA CopiedRead ==
  ASSUME ReadInv, Copied, Read
  PROVE  Copied'
<1> SUFFICES ASSUME mode' = "buffer", pc' \in {"seek", "read", "end", "close"}
             PROVE  /\ body'.era \in eras'
                    /\ \A i \in 1..Len(out') : out'[i].era = body'.era
                    /\ pc' = "end" => pos' = size'
  BY DEF Copied
<1>1. pc = "read" /\ mode = "buffer" /\ UNCHANGED <<mode, size, eras>>
  BY DEF Read, history
<1>2. PICK n \in Nat :
         /\ n <= Left(body) /\ Take(body, n)
         /\ body' = [body EXCEPT !.at = @ + n]
         /\ pc' = "read" \/ (pc' = "end" /\ n = Left(body))
  BY <1>1, ReadTakes DEF ReadInv
<1>3. /\ body \in Bodies /\ body.at = pos /\ body.end = size
      /\ body.era \in 1..Len(lengths) /\ body.era \in eras
      /\ \A i \in 1..Len(out) : out[i].era = body.era
  BY <1>1 DEF ReadInv, Typed, TypeOK, Shape, Progress, Straight, Copied
<1>4. /\ Len(out') = Len(out) + n /\ pos' = pos + n
      /\ \A i \in 1..Len(out) : out'[i] = out[i]
      /\ \A i \in 1..n : out'[Len(out) + i] = [era |-> body.era, at |-> body.at + i - 1]
  BY <1>2, <1>3, Taken DEF ReadInv, Typed
<1>5. body'.era = body.era
  BY <1>2, <1>3 DEF Bodies
<1>6. Len(out) \in Nat /\ pos \in Nat /\ size \in Nat
  BY DEF ReadInv, Typed, TypeOK
<1>7. ASSUME NEW i \in 1..Len(out') PROVE out'[i].era = body'.era
  <2>1. CASE i <= Len(out)
    BY <1>3, <1>4, <1>5, <1>6, <2>1
  <2>2. CASE i > Len(out)
    <3>1. i - Len(out) \in 1..n /\ Len(out) + (i - Len(out)) = i
      BY <1>4, <1>6, <2>2
    <3>2. out'[i] = [era |-> body.era, at |-> body.at + (i - Len(out)) - 1]
      BY <1>4, <3>1
    <3> QED
      BY <1>5, <3>2
  <2> QED
    BY <1>4, <1>6, <2>1, <2>2
<1>8. pc' = "end" => pos' = size'
  BY <1>1, <1>2, <1>3, <1>4, <1>6 DEF Left
<1> QED
  BY <1>1, <1>3, <1>5, <1>7, <1>8

\* Every step keeps the copy: one step per action.
LEMMA CopiedNext == ReadInv /\ Blamed /\ Copied /\ [Next]_vars => Copied'
<1> SUFFICES ASSUME ReadInv, Blamed, Copied, [Next]_vars PROVE Copied'
  OBVIOUS
<1> USE DEF Copied, GoTo, world, reader, request, history
<1>1. CASE Change
  BY <1>1 DEF Change
<1>2. CASE GetReader
  BY <1>2 DEF GetReader
<1>3. CASE CheckRangeSupport \/ HeadSize \/ FetchFirst
  <2>1. mode' = "range" \/ pc' \in {"head", "first", "buffer"}
    BY <1>3 DEF CheckRangeSupport, HeadSize, FetchFirst
  <2> QED
    BY <2>1
<1>4. CASE Buffer
  <2>1. CASE pc' = "seek"
    BY <1>4, <2>1 DEF Buffer, Blamed, ReadInv, Aim, Opening
  <2>2. CASE pc' = "close"
    BY <1>4, <2>2 DEF Buffer, ReadInv, Typed, Shape
  <2> QED
    BY <1>4, <2>1, <2>2 DEF Buffer
<1>5. CASE OutOfRange
  BY <1>5 DEF OutOfRange
<1>6. CASE Seek
  <2> SUFFICES ASSUME mode' = "buffer"
               PROVE  /\ body'.era \in eras'
                      /\ \A i \in 1..Len(out') : out'[i].era = body'.era
                      /\ pc' # "end"
    OBVIOUS
  <2>1. /\ pc = "seek" /\ pc' # "end" /\ mode = "buffer" /\ UNCHANGED <<out, eras>>
        /\ body' = [body EXCEPT !.at = Target]
    BY <1>6 DEF Seek
  <2>2. body'.era = body.era
    BY <2>1 DEF ReadInv, Typed, TypeOK, Bodies
  <2> QED
    BY <2>1, <2>2
<1>7. CASE Begin
  BY <1>7 DEF Begin
<1>8. CASE Read
  BY <1>8, CopiedRead
<1>9. CASE Refetch
  BY <1>9 DEF Refetch, ReadInv, Typed, Shape
<1>10. CASE ReadFails
  BY <1>10 DEF ReadFails
<1>11. CASE Finish
  BY <1>11 DEF Finish
<1>12. CASE Close
  BY <1>12 DEF Close
<1>13. CASE UNCHANGED vars
  BY <1>13 DEF vars
<1> QED
  BY <1>1, <1>2, <1>3, <1>4, <1>5, <1>6, <1>7, <1>8, <1>9, <1>10, <1>11, <1>12, <1>13
  DEF Next, Handle, Quiet

\* A complete answer to a client, or of the buffer, has been read from its first byte
\* to the end.
Ended ==
  pc = "close" /\ status = "ok" =>
    /\ mode \in {"range", "buffer"}
    /\ ask # "peek" /\ (Served \/ mode = "buffer") => Len(out) = Rest(size)

\* Only at its end is a request answered completely.
LEMMA EndedNext == ReadInv /\ Copied /\ Ended /\ [Next]_vars => Ended'
<1> SUFFICES ASSUME ReadInv, Copied, Ended, [Next]_vars PROVE Ended'
  OBVIOUS
<1> USE DEF Ended, GoTo, world, reader, request, history
<1>1. CASE Change
  BY <1>1 DEF Change, Served, Rest
<1>2. CASE \/ GetReader \/ CheckRangeSupport \/ HeadSize \/ FetchFirst \/ Buffer
           \/ Seek \/ Begin \/ ReadFails \/ Close
  <2>1. pc' = "close" => status' # "ok"
    BY <1>2 DEF GetReader, CheckRangeSupport, HeadSize, FetchFirst, Buffer, Seek, Begin,
                ReadFails, Close
  <2> QED
    BY <2>1
<1>3. CASE Read \/ Refetch
  BY <1>3, ReadTakes, RefetchTakes DEF ReadInv
<1>4. CASE OutOfRange
  <2>1. /\ pc = "seek" /\ out = <<>> /\ mode \in {"range", "buffer"} /\ from \in Nat
        /\ UNCHANGED <<from, out, size, mode>> /\ (status' = "ok" => size = 0)
    BY <1>4 DEF OutOfRange, ReadInv, Typed, TypeOK, Shape, Aim
  <2> QED
    BY <2>1 DEF Rest
<1>5. CASE Finish
  <2> SUFFICES ASSUME status' = "ok"
               PROVE  /\ mode \in {"range", "buffer"}
                      /\ ask # "peek" /\ (Served \/ mode = "buffer") => Len(out) = Rest(size)
    BY <1>5 DEF Finish, Served, Rest
  <2>1. /\ pc \in {"read", "end"} /\ mode \in {"range", "buffer"}
        /\ Served => todo <= 0
    BY <1>5 DEF Finish, ReadInv, Typed, TypeOK, Shape, Served
  <2>2. /\ pos = from + Len(out) /\ (Served => todo = size - pos /\ todo >= 0)
        /\ size \in Nat /\ from \in Nat /\ Len(out) \in Nat
    BY <2>1 DEF ReadInv, Typed, TypeOK, Progress
  <2>3. ask # "peek" /\ (Served \/ mode = "buffer") => pos = size
    BY <1>5, <2>1, <2>2 DEF Finish, Copied
  <2> QED
    BY <2>1, <2>2, <2>3 DEF Rest
<1>6. CASE UNCHANGED vars
  BY <1>6 DEF vars, Served, Rest
<1> QED
  BY <1>1, <1>2, <1>3, <1>4, <1>5, <1>6 DEF Next, Handle, Quiet

\* The inductive invariant for the buffer.
CopyInv == ReadInv /\ Blamed /\ Copied /\ Ended

\* It holds before a reader is opened.
LEMMA CopyInit == Init => CopyInv
  BY TypedInit, AimInit, ProgressInit
  DEF Init, CopyInv, ReadInv, Blamed, Copied, Ended

\* It is inductive.
LEMMA CopyNext == CopyInv /\ [Next]_vars => CopyInv'
  BY TypedNext, AimNext, ProgressNext, BlamedNext, CopiedNext, EndedNext
  DEF CopyInv, ReadInv

\* A buffered copy is handed out whole and of one state of the file, whatever happens
\* to the file meanwhile.
THEOREM BufferOneState == Spec => []BufferIsOneState
<1>1. Init => CopyInv
  BY CopyInit
<1>2. CopyInv /\ [Next]_vars => CopyInv'
  BY CopyNext
<1>3. CopyInv => BufferIsOneState
  <2> SUFFICES ASSUME CopyInv, pc = "close", mode = "buffer", status = "ok", ask # "peek"
               PROVE  \E e \in eras : /\ \A i \in 1..Len(out) : out[i].era = e
                                      /\ Len(out) = Rest(lengths[e])
    BY DEF BufferIsOneState
  <2>1. /\ body.era \in eras /\ size = lengths[body.era]
        /\ \A i \in 1..Len(out) : out[i].era = body.era
        /\ Len(out) = Rest(size)
    BY DEF CopyInv, ReadInv, Typed, Shape, Copied, Ended
  <2> QED
    BY <2>1
<1> QED
  BY <1>1, <1>2, <1>3, PTL DEF Spec

----------------------------------------------------------------------------
(* A file that does not change *)

\* The length the reader found is the file's while the file stays as it was.
Sized ==
  pc # "idle" /\ eras = {era} =>
    /\ pc = "first" /\ There => size = lengths[era]
    /\ mode = "range" /\ pc \notin Opening => There /\ size = lengths[era]

\* What lets a reader over ranges take the middle of the file for its end.
Excused == trouble \/ (server.partial /\ bodies > 1)

\* Without it a copy comes to the end of each body where the file goes on or ends.
Whole ==
  ask = "copy" /\ mode = "range" /\ pc # "idle" /\ eras = {era} /\ ~Excused =>
    /\ pc \in {"seek", "read"} =>
         body.at = pos /\ body.end <= size /\ (body.end = size \/ server.partial)
    /\ pc = "refetch" => pos < size /\ server.partial
    /\ pc = "end" => pos = size
    /\ pc = "close" /\ status = "ok" => Len(out) = Rest(size)

\* A file that has not changed after a step had not before.
LEMMA SameFile ==
  ASSUME TypeOK, Blamed, [Next]_vars, ~GetReader, pc # "idle", eras' = {era'}
  PROVE  eras = {era} /\ UNCHANGED <<era, eras, lengths>>
<1>1. ~Change
  <2> SUFFICES ASSUME Change PROVE FALSE
    OBVIOUS
  <2>1. era \in eras' /\ era' = era + 1 /\ era \in Int
    BY DEF Change, Blamed, TypeOK
  <2> QED
    BY <2>1
<1>2. UNCHANGED <<era, eras, lengths>>
  BY <1>1 DEF Next, Handle, Quiet, vars, world, history, CheckRangeSupport, HeadSize,
              FetchFirst, Buffer, OutOfRange, Seek, Begin, Read, Refetch, ReadFails,
              Finish, Close
<1> QED
  BY <1>2

\* The length stays right: one step per action that finds or uses it.
LEMMA SizedNext == Typed /\ Blamed /\ Sized /\ [Next]_vars => Sized'
<1> SUFFICES ASSUME Typed, Blamed, Sized, [Next]_vars, pc' # "idle", eras' = {era'}
             PROVE  /\ pc' = "first" /\ There' => size' = lengths'[era']
                    /\ mode' = "range" /\ pc' \notin Opening =>
                         There' /\ size' = lengths'[era']
  BY DEF Sized
<1>1. CASE GetReader
  BY <1>1 DEF GetReader, Typed, TypeOK, GoTo
<1>2. CASE pc = "idle" /\ ~GetReader
  <2>1. Change \/ UNCHANGED vars
    BY <1>2 DEF Next, Handle, Quiet, CheckRangeSupport, HeadSize, FetchFirst, Buffer,
                OutOfRange, Seek, Begin, Read, Refetch, ReadFails, Finish, Close
  <2> QED
    BY <1>2, <2>1 DEF Change, vars
<1>3. CASE pc # "idle" /\ ~GetReader
  <2>1. eras = {era} /\ UNCHANGED <<era, eras, lengths>>
    BY <1>3, SameFile DEF Typed
  <2> USE <1>3, <2>1 DEF Sized, There, GoTo, Opening
  <2>2. CASE HeadSize
    <3>1. /\ pc = "head" /\ mode = "none" /\ UNCHANGED mode
          /\ pc' = "first" /\ There => size' = lengths[era]
      BY <2>2 DEF HeadSize, Typed, Shape
    <3> QED
      BY <3>1
  <2>3. CASE FetchFirst
    <3>1. CASE pc' = "seek" /\ body' \in Answers(0)
      <4>1. There
        BY <3>1, Answered DEF Typed
      <4> QED
        BY <2>3, <3>1, <4>1 DEF FetchFirst
    <3>2. CASE pc' = "buffer"
      BY <3>2
    <3> QED
      BY <2>3, <3>1, <3>2 DEF FetchFirst
  <2>4. CASE CheckRangeSupport \/ Buffer
    BY <2>4 DEF CheckRangeSupport, Buffer, Typed, Shape
  <2>5. CASE \/ OutOfRange \/ Seek \/ Begin \/ Read \/ Refetch \/ ReadFails
             \/ Finish \/ Close \/ UNCHANGED vars
    <3>1. pc' # "first" \/ UNCHANGED pc
      BY <2>5, ReadTakes, RefetchTakes
      DEF OutOfRange, Seek, Begin, ReadFails, Finish, Close, vars
    <3>2. UNCHANGED <<mode, size>> /\ (pc \in Opening => UNCHANGED pc)
      BY <2>5 DEF OutOfRange, Seek, Begin, Read, Refetch, ReadFails, Finish, Close, vars,
                  reader
    <3> QED
      BY <3>1, <3>2
  <2>6. ~Change
    BY DEF Change, Typed, TypeOK
  <2> QED
    BY <2>2, <2>3, <2>4, <2>5, <2>6 DEF Next, Handle, Quiet
<1> QED
  BY <1>1, <1>2, <1>3

\* The inductive invariant for complete answers.
WholeInv == CopyInv /\ Sized /\ Whole

\* A copy that goes on is in the middle of the file, one that ends at its end: one step
\* per action that copies.
LEMMA WholeNext == WholeInv /\ [Next]_vars => Whole'
<1> SUFFICES ASSUME WholeInv, [Next]_vars,
                    ask' = "copy", mode' = "range", pc' # "idle", eras' = {era'}, ~Excused'
             PROVE  /\ pc' \in {"seek", "read"} =>
                         /\ body'.at = pos' /\ body'.end <= size'
                         /\ body'.end = size' \/ server'.partial
                    /\ pc' = "refetch" => pos' < size' /\ server'.partial
                    /\ pc' = "end" => pos' = size'
                    /\ pc' = "close" /\ status' = "ok" => Len(out') = Rest(size)'
  BY DEF Whole
<1> USE DEF WholeInv, CopyInv, ReadInv, GoTo
<1>1. ~GetReader /\ pc # "idle" /\ Typed /\ TypeOK
  BY DEF GetReader, Next, Handle, Quiet, Change, CheckRangeSupport, HeadSize, FetchFirst,
         Buffer, OutOfRange, Seek, Begin, Read, Refetch, ReadFails, Finish, Close, vars,
         Typed
<1>2. eras = {era} /\ UNCHANGED <<era, eras, lengths>>
  BY <1>1, SameFile
<1>3. ~Change
  BY <1>2 DEF Change, Typed, TypeOK
<1>4. CASE CheckRangeSupport \/ HeadSize \/ Buffer
  BY <1>4 DEF CheckRangeSupport, HeadSize, Buffer, Typed, Shape, reader
<1>5. CASE FetchFirst
  <2>1. /\ pc = "first" /\ mode = "none" /\ pos = 0 /\ UNCHANGED <<server, pos, size>>
        /\ pc' = "seek" /\ body' \in Answers(0)
    BY <1>5 DEF FetchFirst, Typed, Shape, Aim, Opening, world
  <2>2. /\ There /\ lengths[era] \in Nat
        /\ body'.at = 0 /\ body'.end <= lengths[era]
        /\ body'.end = lengths[era] \/ server.partial
    BY <1>1, <2>1, Answered
  <2> QED
    BY <1>2, <2>1, <2>2 DEF Sized
<1>6. CASE Seek \/ OutOfRange
  <2>1. pc = "seek" /\ seeks # <<>> /\ UNCHANGED ask
    BY <1>6 DEF Seek, OutOfRange, PastEnd
  <2> QED
    BY <2>1 DEF Aim, Served
<1>7. CASE Begin
  BY <1>2, <1>7 DEF Begin, Whole, Excused, world, reader, history
<1>8. CASE Read
  <2>1. pc = "read" /\ ask = "copy" /\ mode = "range" /\ UNCHANGED <<server, size>> /\ ~Excused
    BY <1>8 DEF Read, Excused, history, world
  <2>2. /\ body \in Bodies /\ pos \in Nat /\ size \in Nat
        /\ body.at = pos /\ body.end <= size /\ (body.end = size \/ server.partial)
    BY <1>2, <2>1 DEF Whole, Typed, TypeOK
  <2>3. PICK n \in Nat :
           /\ n <= Left(body) /\ Take(body, n)
           /\ \/ n = Left(body) /\ pos + n < size /\ pc' = "refetch"
              \/ body' = [body EXCEPT !.at = @ + n] /\ pc' = "read"
              \/ /\ n = Left(body) /\ pos + n >= size
                 /\ body' = [body EXCEPT !.at = @ + n] /\ pc' = "end"
    BY <1>1, <1>8, <2>1, ReadTakes
  <2>4. pos' = pos + n
    BY <2>3 DEF Take
  <2> QED
    BY <2>1, <2>2, <2>3, <2>4 DEF Bodies, Left
<1>9. CASE Refetch
  <2>1. /\ pc = "refetch" /\ ask = "copy" /\ mode = "range"
        /\ UNCHANGED <<server, size, ask, mode>>
    BY <1>9 DEF Refetch, world
  <2>2. bodies \in Nat /\ bodies >= 1 /\ pos \in Nat /\ size \in Nat
    BY <2>1 DEF Typed, TypeOK, Progress
  <2>3. CASE trouble' = trouble /\ bodies' = bodies + 1
    <3>1. ~Excused
      BY <2>1, <2>2, <2>3 DEF Excused
    <3>2. server.partial
      BY <1>2, <2>1, <3>1 DEF Whole
    <3> QED
      BY <2>1, <2>2, <2>3, <3>2 DEF Excused
  <2>4. CASE trouble' = trouble /\ Answers(pos) = {} /\ bodies' = bodies
    <3>1. ~Excused
      BY <2>1, <2>4 DEF Excused
    <3>2. pos < size /\ There /\ size = lengths[era]
      BY <1>2, <2>1, <3>1 DEF Whole, Sized, Opening
    <3> QED
      BY <1>1, <2>2, <2>4, <3>2, Unanswered DEF There
  <2>5. CASE trouble' = TRUE
    BY <2>5 DEF Excused
  <2> QED
    BY <1>1, <1>9, <2>3, <2>4, <2>5, RefetchTakes
<1>10. CASE ReadFails
  BY <1>10 DEF ReadFails, Fails, Excused
<1>11. CASE Finish
  <2>1. /\ pc = "end" /\ pc' = "close"
        /\ UNCHANGED <<server, ask, mode, pos, size, out, from, trouble, bodies>>
    BY <1>11 DEF Finish, Served, world, reader, history
  <2>2. pos = size /\ pos = from + Len(out) /\ from \in Nat /\ Len(out) \in Nat
    BY <1>2, <2>1 DEF Whole, Excused, Progress, Typed, TypeOK
  <2> QED
    BY <2>1, <2>2 DEF Rest
<1>12. CASE Close
  BY <1>12 DEF Close
<1>13. CASE UNCHANGED vars
  BY <1>2, <1>13 DEF vars, Whole, Excused, Rest, world, reader, request, history
<1> QED
  BY <1>1, <1>3, <1>4, <1>5, <1>6, <1>7, <1>8, <1>9, <1>10, <1>11, <1>12, <1>13
  DEF Next, Handle, Quiet

\* A set of one element is that element's.
LEMMA OneIs ==
  ASSUME NEW n \in Nat, NEW S \in SUBSET (1..n), Cardinality(S) = 1, NEW e \in S
  PROVE  S = {e}
<1>1. IsFiniteSet(S)
  <2>1. IsFiniteSet(1..n)
    BY FS_Interval
  <2> QED
    BY <2>1, FS_Subset
<1>2. PICK x : S = {x}
  BY <1>1, FS_Singleton
<1> QED
  BY <1>2

\* If the file is not changed meanwhile a complete answer has every byte that was asked
\* for; only a copy may be short, and only after a failed call or two short answers.
THEOREM CompleteWhole == Spec => []CompleteIsWhole
<1>1. Init => WholeInv
  BY CopyInit DEF Init, WholeInv, Sized, Whole
<1>2. WholeInv /\ [Next]_vars => WholeInv'
  BY CopyNext, SizedNext, WholeNext DEF WholeInv, CopyInv, ReadInv
<1>3. WholeInv => CompleteIsWhole
  <2> SUFFICES ASSUME WholeInv, pc = "close", status = "ok", ask # "peek",
                      Cardinality(eras) = 1
               PROVE  \/ \E e \in eras : Len(out) = Rest(lengths[e])
                      \/ /\ ask = "copy" /\ mode = "range"
                         /\ trouble \/ (server.partial /\ bodies > 1)
    BY DEF CompleteIsWhole
  <2> USE DEF WholeInv, CopyInv, ReadInv
  <2>1. era \in eras
    BY DEF Blamed
  <2>2. eras = {era}
    <3>1. Len(lengths) \in Nat /\ eras \subseteq 1..Len(lengths)
      BY DEF Typed, TypeOK
    <3> QED
      BY <2>1, <3>1, OneIs
  <2>3. mode \in {"range", "buffer"} /\ (Served \/ mode = "buffer" => Len(out) = Rest(size))
    BY DEF Ended
  <2>4. size = lengths[era]
    BY <2>2, <2>3 DEF Sized, Opening, Copied, Typed, Shape
  <2>5. ask \in {"copy", "serve", "manifest"}
    BY DEF Typed, TypeOK, Asks
  <2>6. CASE Served \/ mode = "buffer"
    BY <2>1, <2>3, <2>4, <2>6
  <2>7. CASE ask = "copy" /\ mode = "range" /\ ~Excused
    BY <2>1, <2>2, <2>4, <2>7 DEF Whole
  <2>8. CASE ask = "copy" /\ mode = "range" /\ Excused
    BY <2>8 DEF Excused
  <2> QED
    BY <2>3, <2>5, <2>6, <2>7, <2>8 DEF Served
<1> QED
  BY <1>1, <1>2, <1>3, PTL DEF Spec
=============================================================================
