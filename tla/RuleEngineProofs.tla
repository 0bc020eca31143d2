-------------------------- MODULE RuleEngineProofs --------------------------
(***************************************************************************)
(* What holds of every registry and every policy: the shape and order of   *)
(* the rules, and what an evaluation finds, refuses and blocks.            *)
(***************************************************************************)
EXTENDS RuleEngine, NaturalsLemmas, SequenceTheorems

-----------------------------------------------------------------------------
(* The folds the model is built from, value by value. *)

LEMMA SequenceFacts ==
  ASSUME NEW S, NEW s \in Seq(S)
  PROVE  /\ Len(s) \in Nat /\ DOMAIN s = 1 .. Len(s) /\ \A i \in 1 .. Len(s) : s[i] \in S
         /\ Range(s) \subseteq S
<1>1. Len(s) \in Nat /\ DOMAIN s = 1 .. Len(s)
  BY LenProperties
<1>2. \A i \in 1 .. Len(s) : s[i] \in S
  BY ElementOfSeq
<1> QED
  BY <1>1, <1>2 DEF Range

\* Among is a recursive function, and such a function exists.
Filters(f, s, T) ==
  f[0] = <<>> /\ \A i \in 1 .. Len(s) :
                   f[i] = IF s[i] \in T THEN Append(f[i - 1], s[i]) ELSE f[i - 1]

LEMMA AmongUnfolds ==
  ASSUME NEW S, NEW s \in Seq(S), NEW T
  PROVE  \E f \in [0 .. Len(s) -> Seq(S)] : Filters(f, s, T) /\ f[Len(s)] = Among(s, T)
<1> DEFINE n         == Len(s)
           base      == <<>>
           Out       == Seq(S)
           One(x, e) == IF e \in T THEN Append(x, e) ELSE x
           Body(f)   == [i \in 0 .. n |-> IF i = 0 THEN base ELSE One(f[i - 1], s[i])]
           step      == [i \in 1 .. n |-> [x \in Out |-> One(x, s[i])]]
<1>1. n \in Nat /\ DOMAIN s = 1 .. n /\ \A i \in 1 .. n : s[i] \in S
  BY SequenceFacts
<1>2. Among(s, T) = (CHOOSE f : f = Body(f))[n]
  BY DEF Among
<1>3. \A i \in 1 .. n, x \in Out : One(x, s[i]) \in Out
  BY <1>1
<1>4. base \in Out
  OBVIOUS
<1> HIDE DEF n, Out, One, base
<1>5. step \in [1 .. n -> [Out -> Out]]
  BY <1>3
<1>6. \A i \in 1 .. n, x \in Out : step[i][x] = One(x, s[i])
  OBVIOUS
<1> HIDE DEF step
<1>7. PICK f \in [0 .. n -> Out] : Unfolds(f, n, base, step)
  BY <1>1, <1>4, <1>5, ForwardRecursion
<1>8. ASSUME NEW i \in 1 .. n PROVE f[i] = One(f[i - 1], s[i])
  <2>1. i - 1 \in 0 .. n
    BY <1>1
  <2>2. f[i - 1] \in Out
    BY <1>7, <2>1
  <2> QED
    BY <1>6, <1>7, <2>2 DEF Unfolds
<1>9. f = Body(f)
  <2>1. \A i \in 0 .. n : i # 0 => i \in 1 .. n
    BY <1>1
  <2>2. \A i \in 0 .. n : f[i] = Body(f)[i]
    BY <1>7, <1>8, <2>1 DEF Unfolds
  <2> QED
    BY <1>7, <2>2
<1>10. PICK g : g = Body(g) /\ Among(s, T) = g[n]
  BY <1>2, <1>9
<1>11. g[n] = f[n]
  <2> DEFINE A == {i \in Nat : i <= n => g[i] = f[i]}
  <2>1. \A i \in 0 .. n : g[i] = IF i = 0 THEN base ELSE One(g[i - 1], s[i])
    BY <1>10
  <2>2. 0 \in A
    BY <1>1, <1>7, <2>1 DEF Unfolds
  <2>3. ASSUME NEW i \in Nat, i \in A PROVE i + 1 \in A
    <3>1. SUFFICES ASSUME i + 1 <= n PROVE g[i + 1] = f[i + 1]
      OBVIOUS
    <3>2. i + 1 \in 1 .. n /\ i + 1 \in 0 .. n /\ (i + 1) - 1 = i /\ g[i] = f[i]
      BY <1>1, <2>3, <3>1
    <3> QED
      BY <1>8, <2>1, <3>2
  <2>4. \A i \in Nat : i \in A
    <3> HIDE DEF A
    <3> QED
      BY <2>2, <2>3, Induction
  <2> QED
    BY <1>1, <2>4
<1> QED
  BY <1>7, <1>8, <1>10, <1>11 DEF Unfolds, One, n, Out, base, Filters

-----------------------------------------------------------------------------
(* The stable sort. *)

Inserted(u, t, k, x) ==
  /\ Len(u) = Len(t) + 1
  /\ \A i \in 1 .. Len(t) + 1 :
       u[i] = IF i <= k THEN t[i] ELSE IF i = k + 1 THEN x ELSE t[i - 1]

LEMMA InsertFacts ==
  ASSUME NEW S, NEW t \in Seq(S), NEW x \in S, NEW k \in 0 .. Len(t)
  PROVE  /\ InsertAt(t, k + 1, x) \in Seq(S) /\ Inserted(InsertAt(t, k + 1, x), t, k, x)
         /\ Range(InsertAt(t, k + 1, x)) = Range(t) \union {x}
<1> DEFINE m == Len(t)
           a == SubSeq(t, 1, k)
           b == SubSeq(t, k + 1, m)
           ax == a \o <<x>>
           u == ax \o b
<1>1. m \in Nat /\ k \in Nat /\ k <= m
  BY LenProperties
<1>2. u = InsertAt(t, k + 1, x)
  <2>1. (k + 1) - 1 = k
    BY <1>1
  <2> QED
    BY <2>1 DEF InsertAt
<1>3. a \in Seq(S) /\ Len(a) = k /\ \A i \in 1 .. k : a[i] = t[i]
  <2>1. \A i \in 1 .. k : i \in 1 .. m /\ 1 + i - 1 = i
    BY <1>1
  <2>2. (IF 1 <= k THEN k - 1 + 1 ELSE 0) = k
    BY <1>1
  <2> QED
    BY <1>1, <2>1, <2>2
<1>4. b \in Seq(S) /\ Len(b) = m - k /\ \A i \in 1 .. m - k : b[i] = t[k + i]
  BY <1>1
<1> HIDE DEF m, a, b
<1>5. ax \in Seq(S) /\ Len(ax) = k + 1 /\ (\A i \in 1 .. k : ax[i] = t[i]) /\ ax[k + 1] = x
  BY <1>1, <1>3
<1> HIDE DEF ax
<1>6. u \in Seq(S) /\ Len(u) = m + 1
  <2>1. (k + 1) + (m - k) = m + 1
    BY <1>1
  <2>2. u \in Seq(S) /\ Len(u) = Len(ax) + Len(b)
    BY <1>4, <1>5, ConcatProperties
  <2> QED
    BY <1>4, <1>5, <2>1, <2>2
<1>7. \A i \in 1 .. m + 1 : u[i] = IF i <= k THEN t[i] ELSE IF i = k + 1 THEN x ELSE t[i - 1]
  <2>1. ASSUME NEW i \in 1 .. k + 1 PROVE u[i] = ax[i]
    BY <1>4, <1>5, <2>1
  <2>2. ASSUME NEW i \in k + 2 .. m + 1 PROVE u[i] = t[i - 1]
    <3>1. i - (k + 1) \in 1 .. m - k /\ k + (i - (k + 1)) = i - 1 /\ i \in Nat
      BY <1>1
    <3>2. u[i] = b[i - (k + 1)]
      BY <1>1, <1>4, <1>5, <3>1
    <3> QED
      BY <1>4, <3>1, <3>2
  <2>3. ASSUME NEW i \in 1 .. m + 1
        PROVE  u[i] = IF i <= k THEN t[i] ELSE IF i = k + 1 THEN x ELSE t[i - 1]
    <3>1. CASE i <= k
      BY <1>1, <1>5, <2>1, <3>1
    <3>2. CASE i = k + 1
      BY <1>1, <1>5, <2>1, <3>2
    <3>3. CASE i > k + 1
      <4>1. i \in k + 2 .. m + 1 /\ ~ (i <= k) /\ i # k + 1
        BY <1>1, <3>3
      <4> QED
        BY <2>2, <4>1
    <3>4. i <= k \/ i = k + 1 \/ i > k + 1
      BY <1>1
    <3> QED
      BY <3>1, <3>2, <3>3, <3>4
  <2> QED
    BY <2>3
<1> HIDE DEF u
<1>8. Range(u) = Range(t) \union {x}
  <2>1. DOMAIN t = 1 .. m /\ DOMAIN u = 1 .. m + 1
    BY <1>1, <1>6 DEF m
  <2>2. ASSUME NEW i \in 1 .. m + 1 PROVE u[i] \in Range(t) \union {x}
    <3>1. \A j \in 1 .. m : t[j] \in Range(t)
      BY <2>1 DEF Range
    <3>2. (i <= k => i \in 1 .. m) /\ (i > k + 1 => i - 1 \in 1 .. m)
      BY <1>1
    <3> QED
      BY <1>1, <1>7, <3>1, <3>2
  <2>3. \A i \in 1 .. m + 1 : u[i] \in Range(u)
    BY <2>1 DEF Range
  <2>4. x \in Range(u)
    <3>1. k + 1 \in 1 .. m + 1 /\ u[k + 1] = x
      BY <1>1, <1>7
    <3> QED
      BY <2>3, <3>1
  <2>5. ASSUME NEW j \in 1 .. m PROVE t[j] \in Range(u)
    <3>1. CASE j <= k
      <4>1. j \in 1 .. m + 1 /\ u[j] = t[j]
        BY <1>1, <1>7, <3>1
      <4> QED
        BY <2>3, <4>1
    <3>2. CASE j > k
      <4>1. j + 1 \in 1 .. m + 1 /\ ~ (j + 1 <= k) /\ j + 1 # k + 1 /\ (j + 1) - 1 = j
        BY <1>1, <3>2
      <4>2. u[j + 1] = t[j]
        BY <1>7, <4>1
      <4> QED
        BY <2>3, <4>1, <4>2
    <3> QED
      BY <1>1, <3>1, <3>2
  <2>6. Range(u) \subseteq Range(t) \union {x}
    BY <2>1, <2>2 DEF Range
  <2>7. Range(t) \subseteq Range(u)
    BY <2>1, <2>5 DEF Range
  <2> QED
    BY <2>4, <2>6, <2>7
<1> QED
  BY <1>2, <1>6, <1>7, <1>8 DEF m, Inserted

\* How many of n indices there are.
LEMMA CountOfIndices ==
  ASSUME NEW n \in Nat, NEW T, T \subseteq 1 .. n PROVE Cardinality(T) \in 0 .. n
<1>1. IsFiniteSet(1 .. n) /\ Cardinality(1 .. n) = n
  BY FS_Interval
<1>2. IsFiniteSet(T) /\ Cardinality(T) <= Cardinality(1 .. n)
  <2>1. T \in SUBSET (1 .. n)
    OBVIOUS
  <2> QED
    BY <1>1, <2>1, FS_Subset
<1>3. Cardinality(T) \in Nat
  BY <1>2, FS_CardinalityType
<1> QED
  BY <1>1, <1>2, <1>3

\* An element goes behind all that are not greater.
RankPlace(t, x) == Cardinality({i \in DOMAIN t : ~ ByRank(x, t[i])})

LEMMA RankPlaces ==
  ASSUME NEW S, NEW t \in Seq(S), NEW x \in S PROVE RankPlace(t, x) \in 0 .. Len(t)
<1> DEFINE n == Len(t)
           T == {i \in DOMAIN t : ~ ByRank(x, t[i])}
<1>1. n \in Nat /\ T \subseteq 1 .. n
  BY SequenceFacts
<1> HIDE DEF n, T
<1>2. Cardinality(T) \in 0 .. n
  BY <1>1, CountOfIndices
<1> QED
  BY <1>2 DEF RankPlace, n, T

LEMMA RankUnfolds ==
  ASSUME NEW S, NEW s \in Seq(S)
  PROVE  \E f \in [0 .. Len(s) -> Seq(S)] :
           /\ f[0] = <<>> /\ f[Len(s)] = SortedBy(s, ByRank)
           /\ \A i \in 1 .. Len(s) :
                f[i] = InsertAt(f[i - 1], RankPlace(f[i - 1], s[i]) + 1, s[i])
<1> DEFINE n         == Len(s)
           base      == <<>>
           Out       == Seq(S)
           One(x, e) == InsertAt(x, RankPlace(x, e) + 1, e)
           Body(f)   == [t \in SUBSET DOMAIN s |->
                          IF t = {} THEN base ELSE One(f[t \ {Max(t)}], s[Max(t)])]
           step      == [i \in 1 .. n |-> [x \in Out |-> One(x, s[i])]]
<1>1. n \in Nat /\ DOMAIN s = 1 .. n /\ \A i \in 1 .. n : s[i] \in S
  BY SequenceFacts
<1>2. SortedBy(s, ByRank) = (CHOOSE f : f = Body(f))[DOMAIN s]
  BY DEF SortedBy, FoldLeft, MapThenFoldSet, RankPlace
<1>3. \A i \in 1 .. n, x \in Out : One(x, s[i]) \in Out
  BY <1>1, RankPlaces, InsertFacts
<1>4. base \in Out
  OBVIOUS
<1> HIDE DEF n, Out, One, base
<1>5. step \in [1 .. n -> [Out -> Out]]
  BY <1>3
<1>6. \A i \in 1 .. n, x \in Out : step[i][x] = One(x, s[i])
  OBVIOUS
<1> HIDE DEF step
<1>7. \A f : Stages(Body(f), f, Out, n, base, step)
  BY <1>1, <1>6, MaxOfIndices DEF Stages
<1> HIDE DEF Body
<1>8. PICK g : g = Body(g) /\ SortedBy(s, ByRank) = g[1 .. n]
  BY <1>1, <1>2, <1>4, <1>5, <1>7, FoldFixes
<1>9. PICK f \in [0 .. n -> Out] : Unfolds(f, n, base, step) /\ f[n] = g[1 .. n]
  <2>1. Stages(g, g, Out, n, base, step)
    BY <1>7, <1>8
  <2> QED
    BY <1>1, <1>4, <1>5, <2>1, FoldUnfolds
<1>10. ASSUME NEW i \in 1 .. n PROVE f[i] = One(f[i - 1], s[i])
  <2>1. i - 1 \in 0 .. n
    BY <1>1
  <2>2. f[i - 1] \in Out
    BY <2>1
  <2> QED
    BY <1>6, <1>9, <2>2 DEF Unfolds
<1> QED
  BY <1>8, <1>9, <1>10 DEF Unfolds, One, n, Out, base


\* An element goes behind all that are not greater.
SpanPlace(t, x) == Cardinality({i \in DOMAIN t : ~ BySpan(x, t[i])})

LEMMA SpanPlaces ==
  ASSUME NEW S, NEW t \in Seq(S), NEW x \in S PROVE SpanPlace(t, x) \in 0 .. Len(t)
<1> DEFINE n == Len(t)
           T == {i \in DOMAIN t : ~ BySpan(x, t[i])}
<1>1. n \in Nat /\ T \subseteq 1 .. n
  BY SequenceFacts
<1> HIDE DEF n, T
<1>2. Cardinality(T) \in 0 .. n
  BY <1>1, CountOfIndices
<1> QED
  BY <1>2 DEF SpanPlace, n, T

LEMMA SpanUnfolds ==
  ASSUME NEW S, NEW s \in Seq(S)
  PROVE  \E f \in [0 .. Len(s) -> Seq(S)] :
           /\ f[0] = <<>> /\ f[Len(s)] = SortedBy(s, BySpan)
           /\ \A i \in 1 .. Len(s) :
                f[i] = InsertAt(f[i - 1], SpanPlace(f[i - 1], s[i]) + 1, s[i])
<1> DEFINE n         == Len(s)
           base      == <<>>
           Out       == Seq(S)
           One(x, e) == InsertAt(x, SpanPlace(x, e) + 1, e)
           Body(f)   == [t \in SUBSET DOMAIN s |->
                          IF t = {} THEN base ELSE One(f[t \ {Max(t)}], s[Max(t)])]
           step      == [i \in 1 .. n |-> [x \in Out |-> One(x, s[i])]]
<1>1. n \in Nat /\ DOMAIN s = 1 .. n /\ \A i \in 1 .. n : s[i] \in S
  BY SequenceFacts
<1>2. SortedBy(s, BySpan) = (CHOOSE f : f = Body(f))[DOMAIN s]
  BY DEF SortedBy, FoldLeft, MapThenFoldSet, SpanPlace
<1>3. \A i \in 1 .. n, x \in Out : One(x, s[i]) \in Out
  BY <1>1, SpanPlaces, InsertFacts
<1>4. base \in Out
  OBVIOUS
<1> HIDE DEF n, Out, One, base
<1>5. step \in [1 .. n -> [Out -> Out]]
  BY <1>3
<1>6. \A i \in 1 .. n, x \in Out : step[i][x] = One(x, s[i])
  OBVIOUS
<1> HIDE DEF step
<1>7. \A f : Stages(Body(f), f, Out, n, base, step)
  BY <1>1, <1>6, MaxOfIndices DEF Stages
<1> HIDE DEF Body
<1>8. PICK g : g = Body(g) /\ SortedBy(s, BySpan) = g[1 .. n]
  BY <1>1, <1>2, <1>4, <1>5, <1>7, FoldFixes
<1>9. PICK f \in [0 .. n -> Out] : Unfolds(f, n, base, step) /\ f[n] = g[1 .. n]
  <2>1. Stages(g, g, Out, n, base, step)
    BY <1>7, <1>8
  <2> QED
    BY <1>1, <1>4, <1>5, <2>1, FoldUnfolds
<1>10. ASSUME NEW i \in 1 .. n PROVE f[i] = One(f[i - 1], s[i])
  <2>1. i - 1 \in 0 .. n
    BY <1>1
  <2>2. f[i - 1] \in Out
    BY <2>1
  <2> QED
    BY <1>6, <1>9, <2>2 DEF Unfolds
<1> QED
  BY <1>8, <1>9, <1>10 DEF Unfolds, One, n, Out, base

-----------------------------------------------------------------------------
(* What the folds keep. *)

LEMMA AppendRange ==
  ASSUME NEW S, NEW t \in Seq(S), NEW x \in S
  PROVE  Append(t, x) \in Seq(S) /\ Range(Append(t, x)) = Range(t) \union {x}
<1> DEFINE m == Len(t)
           u == Append(t, x)
<1>1. m \in Nat /\ DOMAIN t = 1 .. m
  BY SequenceFacts
<1>2. u \in Seq(S) /\ Len(u) = m + 1 /\ (\A i \in 1 .. m : u[i] = t[i]) /\ u[m + 1] = x
  BY AppendProperties
<1> HIDE DEF m, u
<1>3. DOMAIN u = 1 .. m + 1 /\ \A i \in 1 .. m + 1 : i \in 1 .. m \/ i = m + 1
  BY <1>1, <1>2, SequenceFacts
<1>4. Range(u) = Range(t) \union {x}
  <2>1. Range(u) = {u[i] : i \in 1 .. m + 1} /\ Range(t) = {t[i] : i \in 1 .. m}
    BY <1>1, <1>3 DEF Range
  <2>2. \A i \in 1 .. m : i \in 1 .. m + 1
    BY <1>1
  <2>3. m + 1 \in 1 .. m + 1
    BY <1>1
  <2> QED
    BY <1>2, <1>3, <2>1, <2>2, <2>3
<1> QED
  BY <1>2, <1>4 DEF u

\* A fold that takes in each element that is in T ends with those of the sequence.
Gathers(f, s, T) ==
  f[0] = <<>> /\ \A i \in 1 .. Len(s) : Range(f[i]) = Range(f[i - 1]) \union ({s[i]} \cap T)

LEMMA Gathered ==
  ASSUME NEW S, NEW s \in Seq(S), NEW T, NEW f, Gathers(f, s, T)
  PROVE  Range(f[Len(s)]) = Range(s) \cap T
<1> DEFINE n == Len(s)
           Sofar(i) == Range(f[i]) = {s[j] : j \in 1 .. i} \cap T
           I == {i \in Nat : i <= n => Sofar(i)}
<1>1. n \in Nat /\ DOMAIN s = 1 .. n
  BY SequenceFacts
<1>2. 0 \in I
  <2>1. Range(f[0]) = {}
    BY DEF Gathers, Range
  <2> QED
    BY <2>1
<1>3. ASSUME NEW i \in Nat, i \in I PROVE i + 1 \in I
  <2>1. SUFFICES ASSUME i + 1 <= n PROVE Sofar(i + 1)
    OBVIOUS
  <2>2. i + 1 \in 1 .. n /\ (i + 1) - 1 = i /\ Sofar(i)
    BY <1>1, <1>3, <2>1
  <2>3. Range(f[i + 1]) = Range(f[i]) \union ({s[i + 1]} \cap T)
    BY <2>2 DEF Gathers
  <2>4. \A j : j \in 1 .. i + 1 <=> j \in 1 .. i \/ j = i + 1
    OBVIOUS
  <2>5. {s[j] : j \in 1 .. i + 1} = {s[j] : j \in 1 .. i} \union {s[i + 1]}
    BY <2>4
  <2> QED
    BY <2>2, <2>3, <2>5
<1>4. \A i \in Nat : i \in I
  <2> HIDE DEF I
  <2> QED
    BY <1>2, <1>3, Induction
<1>5. Sofar(n)
  BY <1>1, <1>4
<1> QED
  BY <1>1, <1>5 DEF Range

LEMMA AmongFacts ==
  ASSUME NEW S, NEW s \in Seq(S), NEW T
  PROVE  Among(s, T) \in Seq(S) /\ Range(Among(s, T)) = Range(s) \cap T
<1>1. PICK f \in [0 .. Len(s) -> Seq(S)] : Filters(f, s, T) /\ f[Len(s)] = Among(s, T)
  BY AmongUnfolds
<1>2. Len(s) \in Nat /\ Len(s) \in 0 .. Len(s) /\ \A i \in 1 .. Len(s) : s[i] \in S
  BY SequenceFacts
<1>3. ASSUME NEW i \in 1 .. Len(s) PROVE Range(f[i]) = Range(f[i - 1]) \union ({s[i]} \cap T)
  <2>1. i - 1 \in 0 .. Len(s)
    BY <1>2
  <2>2. f[i - 1] \in Seq(S)
    BY <2>1
  <2>3. Range(Append(f[i - 1], s[i])) = Range(f[i - 1]) \union {s[i]}
    BY <1>2, <2>2, AppendRange
  <2> QED
    BY <1>1, <2>3 DEF Filters
<1>4. Gathers(f, s, T)
  BY <1>1, <1>3 DEF Gathers, Filters
<1>5. Range(f[Len(s)]) = Range(s) \cap T
  BY <1>4, Gathered
<1> QED
  BY <1>1, <1>2, <1>5

LEMMA RankSorted ==
  ASSUME NEW S, NEW s \in Seq(S)
  PROVE  SortedBy(s, ByRank) \in Seq(S) /\ Range(SortedBy(s, ByRank)) = Range(s)
<1>1. PICK f \in [0 .. Len(s) -> Seq(S)] :
        /\ f[0] = <<>> /\ f[Len(s)] = SortedBy(s, ByRank)
        /\ \A i \in 1 .. Len(s) :
             f[i] = InsertAt(f[i - 1], RankPlace(f[i - 1], s[i]) + 1, s[i])
  BY RankUnfolds
<1>2. Len(s) \in Nat /\ Len(s) \in 0 .. Len(s) /\ \A i \in 1 .. Len(s) : s[i] \in S
  BY SequenceFacts
<1>3. ASSUME NEW i \in 1 .. Len(s) PROVE Range(f[i]) = Range(f[i - 1]) \union ({s[i]} \cap S)
  <2>1. i - 1 \in 0 .. Len(s)
    BY <1>2
  <2>2. f[i - 1] \in Seq(S) /\ s[i] \in S
    BY <1>2, <2>1
  <2>3. RankPlace(f[i - 1], s[i]) \in 0 .. Len(f[i - 1])
    BY <2>2, RankPlaces
  <2>4. Range(InsertAt(f[i - 1], RankPlace(f[i - 1], s[i]) + 1, s[i])) = Range(f[i - 1]) \union {s[i]}
    <3> DEFINE t == f[i - 1]
               x == s[i]
               k == RankPlace(t, x)
    <3>1. t \in Seq(S) /\ x \in S /\ k \in 0 .. Len(t)
      BY <2>2, <2>3
    <3> HIDE DEF t, x, k
    <3>2. Range(InsertAt(t, k + 1, x)) = Range(t) \union {x}
      BY <3>1, InsertFacts
    <3> QED
      BY <3>2 DEF t, x, k
  <2> QED
    BY <1>1, <2>2, <2>4
<1>4. Gathers(f, s, S)
  BY <1>1, <1>3 DEF Gathers
<1>5. Range(f[Len(s)]) = Range(s) \cap S
  BY <1>4, Gathered
<1> QED
  BY <1>1, <1>2, <1>5, SequenceFacts

LEMMA SpanSorted ==
  ASSUME NEW S, NEW s \in Seq(S)
  PROVE  SortedBy(s, BySpan) \in Seq(S) /\ Range(SortedBy(s, BySpan)) = Range(s)
<1>1. PICK f \in [0 .. Len(s) -> Seq(S)] :
        /\ f[0] = <<>> /\ f[Len(s)] = SortedBy(s, BySpan)
        /\ \A i \in 1 .. Len(s) :
             f[i] = InsertAt(f[i - 1], SpanPlace(f[i - 1], s[i]) + 1, s[i])
  BY SpanUnfolds
<1>2. Len(s) \in Nat /\ Len(s) \in 0 .. Len(s) /\ \A i \in 1 .. Len(s) : s[i] \in S
  BY SequenceFacts
<1>3. ASSUME NEW i \in 1 .. Len(s) PROVE Range(f[i]) = Range(f[i - 1]) \union ({s[i]} \cap S)
  <2>1. i - 1 \in 0 .. Len(s)
    BY <1>2
  <2>2. f[i - 1] \in Seq(S) /\ s[i] \in S
    BY <1>2, <2>1
  <2>3. SpanPlace(f[i - 1], s[i]) \in 0 .. Len(f[i - 1])
    BY <2>2, SpanPlaces
  <2>4. Range(InsertAt(f[i - 1], SpanPlace(f[i - 1], s[i]) + 1, s[i])) = Range(f[i - 1]) \union {s[i]}
    <3> DEFINE t == f[i - 1]
               x == s[i]
               k == SpanPlace(t, x)
    <3>1. t \in Seq(S) /\ x \in S /\ k \in 0 .. Len(t)
      BY <2>2, <2>3
    <3> HIDE DEF t, x, k
    <3>2. Range(InsertAt(t, k + 1, x)) = Range(t) \union {x}
      BY <3>1, InsertFacts
    <3> QED
      BY <3>2 DEF t, x, k
  <2> QED
    BY <1>1, <2>2, <2>4
<1>4. Gathers(f, s, S)
  BY <1>1, <1>3 DEF Gathers
<1>5. Range(f[Len(s)]) = Range(s) \cap S
  BY <1>4, Gathered
<1> QED
  BY <1>1, <1>2, <1>5, SequenceFacts

-----------------------------------------------------------------------------
(* The order of evaluation. *)

Ranked(S)    == \A x \in S : x.rank \in Int /\ x.id \in Ids
Follows(a, b) == ByRank(a, b) /\ a.id # b.id
Ascending(t) == \A i, j \in DOMAIN t : i < j => Follows(t[i], t[j])

LEMMA RankOrders ==
  ASSUME NEW S, Ranked(S)
  PROVE  /\ \A a, b, c \in S : ByRank(a, b) /\ ByRank(b, c) => ByRank(a, c)
         /\ \A a, b \in S : a.id # b.id => (ByRank(a, b) <=> ~ ByRank(b, a))
<1> DEFINE Before(p, q, u, v) == p < q \/ (p = q /\ u < v)
<1>1. /\ \A p, q, r \in Int, u, v, w \in Nat :
           Before(p, q, u, v) /\ Before(q, r, v, w) => Before(p, r, u, w)
      /\ \A p, q \in Int, u, v \in Nat : u # v => (Before(p, q, u, v) <=> ~ Before(q, p, v, u))
  OBVIOUS
<1> HIDE DEF Before
<1>2. \A x \in S : x.rank \in Int /\ IdOrder[x.id] \in Nat
  BY DocumentOK DEF Ranked
<1>3. \A a, b \in S : a.id # b.id => IdOrder[a.id] # IdOrder[b.id]
  BY DocumentOK DEF Ranked
<1>4. \A a, b : ByRank(a, b) <=> Before(a.rank, b.rank, IdOrder[a.id], IdOrder[b.id])
  BY DEF ByRank, Before
<1>5. ASSUME NEW a \in S, NEW b \in S, NEW c \in S, ByRank(a, b), ByRank(b, c)
      PROVE  ByRank(a, c)
  <2> DEFINE p == a.rank
             q == b.rank
             r == c.rank
             u == IdOrder[a.id]
             v == IdOrder[b.id]
             w == IdOrder[c.id]
  <2>1. p \in Int /\ q \in Int /\ r \in Int /\ u \in Nat /\ v \in Nat /\ w \in Nat
    BY <1>2
  <2>2. Before(p, q, u, v) /\ Before(q, r, v, w)
    BY <1>4, <1>5
  <2> HIDE DEF p, q, r, u, v, w
  <2>3. Before(p, r, u, w)
    BY <1>1, <2>1, <2>2
  <2> QED
    BY <1>4, <2>3 DEF p, q, r, u, v, w
<1>6. ASSUME NEW a \in S, NEW b \in S, a.id # b.id PROVE ByRank(a, b) <=> ~ ByRank(b, a)
  <2> DEFINE p == a.rank
             q == b.rank
             u == IdOrder[a.id]
             v == IdOrder[b.id]
  <2>1. p \in Int /\ q \in Int /\ u \in Nat /\ v \in Nat /\ u # v
    BY <1>2, <1>3, <1>6
  <2>2. (ByRank(a, b) <=> Before(p, q, u, v)) /\ (ByRank(b, a) <=> Before(q, p, v, u))
    BY <1>4
  <2> HIDE DEF p, q, u, v
  <2> QED
    BY <1>1, <2>1, <2>2
<1> QED
  BY <1>5, <1>6

\* In an ascending sequence the elements below a new one come first.
LEMMA PlaceSplits ==
  ASSUME NEW S, Ranked(S), NEW t \in Seq(S), Ascending(t), NEW x \in S,
         \A i \in DOMAIN t : t[i].id # x.id
  PROVE  /\ RankPlace(t, x) \in 0 .. Len(t)
         /\ \A i \in 1 .. Len(t) : IF i <= RankPlace(t, x) THEN ByRank(t[i], x) ELSE ByRank(x, t[i])
<1> DEFINE n == Len(t)
           L == {i \in DOMAIN t : ~ ByRank(x, t[i])}
           U == (1 .. n) \ L
<1>1. n \in Nat /\ DOMAIN t = 1 .. n /\ \A i \in 1 .. n : t[i] \in S
  BY SequenceFacts
<1>2. \A i \in 1 .. n : i \in L <=> ByRank(t[i], x)
  BY <1>1, RankOrders
<1>3. ASSUME NEW i \in 1 .. n, NEW j \in L, i < j PROVE i \in L
  <2>1. ByRank(t[i], t[j]) /\ ByRank(t[j], x) /\ t[i] \in S /\ t[j] \in S
    BY <1>1, <1>2, <1>3 DEF Ascending, Follows
  <2> QED
    BY <1>2, <2>1, RankOrders
<1>4. \E m \in 0 .. n : L = 1 .. m
  <2>1. CASE U = {}
    <3>1. L = 1 .. n
      BY <1>1, <2>1
    <3> QED
      BY <1>1, <3>1
  <2>2. CASE U # {}
    <3>1. PICK z \in U : \A y \in U : z <= y
      <4>1. U \subseteq Nat
        BY <1>1
      <4> HIDE DEF U
      <4> QED
        BY <2>2, <4>1, LeastNatural
    <3>2. z \in 1 .. n /\ z - 1 \in 0 .. n
      BY <1>1, <3>1
    <3>3. \A i \in 1 .. z - 1 : i \in L
      BY <1>1, <3>1, <3>2
    <3>4. \A i \in L : i \in 1 .. z - 1
      <4>1. ASSUME NEW i \in L, i >= z PROVE FALSE
        <5>1. i \in 1 .. n /\ (i = z \/ z < i) /\ z \notin L
          BY <1>1, <3>1, <3>2, <4>1
        <5> QED
          BY <1>3, <3>2, <5>1
      <4>2. \A i \in L : i \in 1 .. n
        BY <1>1
      <4> QED
        BY <3>2, <4>1, <4>2
    <3> QED
      BY <3>2, <3>3, <3>4
  <2> QED
    BY <2>1, <2>2
<1>5. PICK m \in 0 .. n : L = 1 .. m
  BY <1>4
<1>6. RankPlace(t, x) = m
  <2>1. m \in Nat
    BY <1>1
  <2>2. Cardinality(1 .. m) = m
    BY <2>1, FS_Interval
  <2> QED
    BY <1>5, <2>2 DEF RankPlace
<1>7. ASSUME NEW i \in 1 .. n PROVE IF i <= m THEN ByRank(t[i], x) ELSE ByRank(x, t[i])
  <2>1. i \in L <=> i <= m
    BY <1>1, <1>5
  <2> QED
    BY <1>1, <1>2, <2>1
<1> QED
  BY <1>6, <1>7

LEMMA InsertAscends ==
  ASSUME NEW S, Ranked(S), NEW t \in Seq(S), Ascending(t), NEW x \in S,
         \A i \in DOMAIN t : t[i].id # x.id
  PROVE  Ascending(InsertAt(t, RankPlace(t, x) + 1, x))
<1> DEFINE n == Len(t)
           k == RankPlace(t, x)
           u == InsertAt(t, k + 1, x)
<1>1. n \in Nat /\ DOMAIN t = 1 .. n /\ \A i \in 1 .. n : t[i] \in S
  BY SequenceFacts
<1>2. k \in 0 .. n /\ \A i \in 1 .. n : IF i <= k THEN Follows(t[i], x) ELSE Follows(x, t[i])
  BY <1>1, PlaceSplits DEF Follows
<1> HIDE DEF n, k
<1>3. u \in Seq(S) /\ Inserted(u, t, k, x)
  <2>1. k \in 0 .. Len(t)
    BY <1>2 DEF n
  <2> QED
    BY <2>1, InsertFacts
<1> HIDE DEF u
<1>4. /\ DOMAIN u = 1 .. n + 1
      /\ \A i \in 1 .. n + 1 :
           u[i] = IF i <= k THEN t[i] ELSE IF i = k + 1 THEN x ELSE t[i - 1]
  <2>1. DOMAIN u = 1 .. Len(u)
    BY <1>3, SequenceFacts
  <2> QED
    BY <1>3, <2>1 DEF Inserted, n
<1>5. ASSUME NEW i \in 1 .. n + 1, NEW j \in 1 .. n + 1, i < j PROVE Follows(u[i], u[j])
  <2>1. \A a, b \in 1 .. n : a < b => Follows(t[a], t[b])
    BY <1>1 DEF Ascending
  <2>2. CASE j <= k
    <3>1. i <= k /\ i \in 1 .. n /\ j \in 1 .. n
      BY <1>1, <1>2, <1>5, <2>2
    <3>2. u[i] = t[i] /\ u[j] = t[j]
      BY <1>4, <2>2, <3>1
    <3> QED
      BY <1>5, <2>1, <3>1, <3>2
  <2>3. CASE j = k + 1
    <3>1. i <= k /\ i \in 1 .. n /\ ~ (j <= k)
      BY <1>1, <1>2, <1>5, <2>3
    <3>2. u[i] = t[i] /\ u[j] = x
      BY <1>4, <2>3, <3>1
    <3> QED
      BY <1>2, <3>1, <3>2
  <2>4. CASE j > k + 1
    <3>1. ~ (j <= k) /\ j # k + 1 /\ j - 1 \in 1 .. n /\ ~ (j - 1 <= k)
      BY <1>1, <1>2, <2>4
    <3>2. u[j] = t[j - 1]
      BY <1>4, <3>1
    <3>3. CASE i <= k
      <4>1. i \in 1 .. n /\ i < j - 1
        BY <1>1, <1>2, <2>4, <3>3
      <4>2. u[i] = t[i]
        BY <1>4, <3>3
      <4> QED
        BY <2>1, <3>1, <3>2, <4>1, <4>2
    <3>4. CASE i = k + 1
      <4>1. u[i] = x
        <5>1. ~ (i <= k)
          BY <1>1, <1>2, <3>4
        <5> QED
          BY <1>4, <3>4, <5>1
      <4> QED
        BY <1>2, <3>1, <3>2, <4>1
    <3>5. CASE i > k + 1
      <4>1. ~ (i <= k) /\ i # k + 1 /\ i - 1 \in 1 .. n /\ i - 1 < j - 1
        BY <1>1, <1>2, <1>5, <3>5
      <4>2. u[i] = t[i - 1]
        BY <1>4, <4>1
      <4> QED
        BY <2>1, <3>1, <3>2, <4>1, <4>2
    <3>6. i <= k \/ i = k + 1 \/ i > k + 1
      BY <1>1, <1>2
    <3> QED
      BY <3>3, <3>4, <3>5, <3>6
  <2>5. j <= k \/ j = k + 1 \/ j > k + 1
    BY <1>1, <1>2
  <2> QED
    BY <2>2, <2>3, <2>4, <2>5
<1>6. Ascending(u)
  BY <1>4, <1>5 DEF Ascending
<1> QED
  BY <1>6 DEF u, k

LEMMA RankAscends ==
  ASSUME NEW S, Ranked(S), NEW s \in Seq(S),
         \A i, j \in DOMAIN s : i # j => s[i].id # s[j].id
  PROVE  Ascending(SortedBy(s, ByRank))
<1> DEFINE n == Len(s)
<1>1. n \in Nat /\ DOMAIN s = 1 .. n /\ \A i \in 1 .. n : s[i] \in S
  BY SequenceFacts
<1>2. PICK f \in [0 .. Len(s) -> Seq(S)] :
        /\ f[0] = <<>> /\ f[Len(s)] = SortedBy(s, ByRank)
        /\ \A i \in 1 .. Len(s) :
             f[i] = InsertAt(f[i - 1], RankPlace(f[i - 1], s[i]) + 1, s[i])
  BY RankUnfolds
<1> DEFINE Sofar(i) == Ascending(f[i]) /\ \A x \in Range(f[i]) : \E j \in 1 .. i : x = s[j]
           I == {i \in Nat : i <= n => Sofar(i)}
<1>3. 0 \in I
  BY <1>2 DEF Ascending, Range
<1>4. ASSUME NEW i \in Nat, i \in I PROVE i + 1 \in I
  <2>1. SUFFICES ASSUME i + 1 <= n PROVE Sofar(i + 1)
    OBVIOUS
  <2> DEFINE t == f[i]
             x == s[i + 1]
             k == RankPlace(t, x)
             u == InsertAt(t, k + 1, x)
  <2>2. i + 1 \in 1 .. n /\ (i + 1) - 1 = i /\ i \in 0 .. n
    BY <1>1, <2>1
  <2>3. f[i + 1] = u
    BY <1>2, <2>2
  <2>4. t \in Seq(S) /\ x \in S /\ Ascending(t) /\ \A y \in Range(t) : \E j \in 1 .. i : y = s[j]
    <3>1. Sofar(i)
      BY <1>4, <2>1
    <3>2. t \in Seq(S) /\ x \in S
      BY <1>1, <2>2
    <3> QED
      BY <3>1, <3>2
  <2>5. \A y \in Range(t) : y.id # x.id
    <3>1. ASSUME NEW j \in 1 .. i PROVE s[j].id # x.id
      <4>1. j \in 1 .. n /\ j # i + 1
        BY <1>1, <2>2
      <4> QED
        BY <1>1, <2>2, <4>1
    <3> QED
      BY <2>4, <3>1
  <2> HIDE DEF t, x
  <2>6. \A a \in DOMAIN t : t[a].id # x.id
    BY <2>5 DEF Range
  <2>7. Ascending(u)
    BY <2>4, <2>6, InsertAscends
  <2>8. k \in 0 .. Len(t)
    BY <2>4, RankPlaces
  <2> HIDE DEF k
  <2>9. Range(u) = Range(t) \union {x}
    BY <2>4, <2>8, InsertFacts
  <2> HIDE DEF u
  <2>10. ASSUME NEW y \in Range(u) PROVE \E j \in 1 .. i + 1 : y = s[j]
    <3>1. CASE y = x
      BY <2>2, <3>1 DEF x
    <3>2. CASE y \in Range(t)
      <4>1. PICK j \in 1 .. i : y = s[j]
        BY <2>4, <3>2
      <4>2. j \in 1 .. i + 1
        OBVIOUS
      <4> QED
        BY <4>1, <4>2
    <3> QED
      BY <2>9, <3>1, <3>2
  <2> QED
    BY <2>3, <2>7, <2>10
<1>5. \A i \in Nat : i \in I
  <2> HIDE DEF I
  <2> QED
    BY <1>3, <1>4, Induction
<1>6. Sofar(n)
  <2>1. n \in Nat /\ n <= n
    BY <1>1
  <2> HIDE DEF n, Sofar
  <2> QED
    BY <1>5, <2>1
<1> QED
  BY <1>2, <1>6

-----------------------------------------------------------------------------
(* What may be registered. *)

CompiledRules(d) == {CompiledRule(Defaulted(r)) : r \in Range(d.rules)}
BatchRules       == UNION {Range(batch) : batch \in Batches}
DocumentRules    == UNION {CompiledRules(d) : d \in Documents}
BuiltinRules     == {Builtin(id) : id \in Detectors}
RuleSet          == BatchRules \union DocumentRules \union BuiltinRules
Allowlists == {{}} \union {d.allow : d \in Documents}
Matchers   == {NoMatcher} \union {Compiled(d).sensitive : d \in Documents}

LEMMA RuleSetRanked == \A r \in RuleSet : r.rank \in Int
<1>1. \A batch \in Batches : \A r \in Range(batch) : r.rank \in Int
  BY EngineOK
<1>2. ASSUME NEW d \in Documents, NEW r \in Range(d.rules)
      PROVE  CompiledRule(Defaulted(r)).rank \in Int
  <2>1. {"scope", "priority"} \subseteq DOMAIN r /\ r.priority \in Int
    BY EngineOK
  <2>2. Defaulted(r).priority = IF r.priority = Absent THEN DefaultPriority ELSE r.priority
    BY <2>1 DEF Defaulted
  <2>3. CompiledRule(Defaulted(r)).rank = Defaulted(r).priority
    BY DEF CompiledRule
  <2> QED
    BY <2>1, <2>2, <2>3 DEF DefaultPriority
<1>3. \A id \in Detectors : Builtin(id).rank \in Int
  BY DEF Builtin, DefaultPriority
<1>4. \A r \in BatchRules : r.rank \in Int
  BY <1>1 DEF BatchRules
<1>5. ASSUME NEW d \in Documents, NEW r \in CompiledRules(d) PROVE r.rank \in Int
  BY <1>2 DEF CompiledRules
<1>6. \A r \in DocumentRules : r.rank \in Int
  BY <1>5 DEF DocumentRules
<1>7. \A r \in BuiltinRules : r.rank \in Int
  BY <1>3 DEF BuiltinRules
<1> QED
  BY <1>4, <1>6, <1>7 DEF RuleSet

\* The rules of a compiled document are those of the document, commands left out.
LEMMA CompiledShape ==
  ASSUME NEW d \in Documents
  PROVE  /\ Compiled(d).rules \in Seq(RuleSet)
         /\ Compiled(d).allow \in Allowlists /\ Compiled(d).sensitive \in Matchers
<1> DEFINE S == Range(d.rules)
           e == Evaluable(d)
           X == CompiledRules(d)
           s == [i \in DOMAIN e |-> CompiledRule(Defaulted(e[i]))]
<1>1. d.rules \in Seq(S)
  BY EngineOK
<1>2. e \in Seq(S)
  BY <1>1, AmongFacts DEF Evaluable
<1>3. Len(e) \in Nat /\ DOMAIN e = 1 .. Len(e) /\ \A i \in 1 .. Len(e) : e[i] \in S
  BY <1>2, SequenceFacts
<1>4. s \in Seq(X)
  <2>1. \A i \in 1 .. Len(e) : CompiledRule(Defaulted(e[i])) \in X
    BY <1>3 DEF CompiledRules
  <2> HIDE DEF X
  <2>2. s = [i \in 1 .. Len(e) |-> CompiledRule(Defaulted(e[i]))]
    BY <1>3
  <2> HIDE DEF s, e
  <2> QED
    BY <1>3, <2>1, <2>2
<1>5. SortedBy(s, ByRank) \in Seq(X)
  <2> HIDE DEF s, X
  <2> QED
    BY <1>4, RankSorted
<1>6. Compiled(d).rules = SortedBy(s, ByRank)
  BY DEF Compiled
<1>7. Seq(X) \subseteq Seq(RuleSet)
  <2>1. X \subseteq RuleSet
    BY DEF RuleSet, DocumentRules
  <2> HIDE DEF X
  <2> QED
    BY <2>1, SeqMonotonic
<1>8. Compiled(d).allow \in Allowlists /\ Compiled(d).sensitive \in Matchers
  <2>1. Compiled(d).allow = d.allow
    BY DEF Compiled
  <2> QED
    BY <2>1 DEF Allowlists, Matchers
<1> QED
  BY <1>5, <1>6, <1>7, <1>8

LEMMA BatchShape == \A batch \in Batches : batch \in Seq(RuleSet)
<1>1. ASSUME NEW batch \in Batches PROVE batch \in Seq(RuleSet)
  <2> DEFINE S == Range(batch)
  <2>1. batch \in Seq(S)
    BY EngineOK
  <2>2. S \subseteq RuleSet
    BY DEF RuleSet, BatchRules
  <2> HIDE DEF S
  <2> QED
    BY <2>1, <2>2, SeqMonotonic
<1> QED
  BY <1>1

\* The built-in rules of the detectors that are switched on.
LEMMA BuiltinShape ==
  ASSUME NEW on, NEW table, table = Among(DetectorTable, on)
  PROVE  [i \in DOMAIN table |-> Builtin(table[i])] \in Seq(BuiltinRules)
<1>1. table \in Seq(Detectors)
  BY EngineOK, AmongFacts
<1>2. /\ Len(table) \in Nat /\ DOMAIN table = 1 .. Len(table)
      /\ \A i \in 1 .. Len(table) : Builtin(table[i]) \in BuiltinRules
  BY <1>1, SequenceFacts DEF BuiltinRules
<1> DEFINE s == [i \in 1 .. Len(table) |-> Builtin(table[i])]
<1>3. s \in Seq(BuiltinRules)
  BY <1>2
<1>4. s = [i \in DOMAIN table |-> Builtin(table[i])]
  BY <1>2
<1> QED
  BY <1>3, <1>4

\* An entry of the registry: its rule passed the checks, and those the gateway
\* registers itself are the built-in ones, with no allowlist.
Entry ==
  {e \in [rule : RuleSet, origin : Origins, id : Ids, rank : Int, allow : Allowlists] :
     /\ e.id = e.rule.id /\ RuleRegisters(e.rule)
     /\ e.origin = "builtin" => e.allow = {} /\ e.rule \in BuiltinRules}

LEMMA EntryRanked == Ranked(Entry)
BY DEF Ranked, Entry

LEMMA EntriesShape ==
  ASSUME NEW origin \in Origins, NEW rules \in Seq(RuleSet), NEW allow \in Allowlists,
         \A i \in DOMAIN rules : RuleRegisters(rules[i]),
         origin = "builtin" => allow = {} /\ rules \in Seq(BuiltinRules)
  PROVE  /\ Entries(origin, rules, allow) \in Seq(Entry)
         /\ DOMAIN Entries(origin, rules, allow) = DOMAIN rules
         /\ \A i \in DOMAIN rules : /\ Entries(origin, rules, allow)[i].id = rules[i].id
                                    /\ Entries(origin, rules, allow)[i].rule = rules[i]
                                    /\ Entries(origin, rules, allow)[i].origin = origin
<1> DEFINE n == Len(rules)
           E(i) == [rule |-> rules[i], origin |-> origin, id |-> rules[i].id,
                    rank |-> rules[i].rank, allow |-> allow]
           s == [i \in 1 .. n |-> E(i)]
<1>1. n \in Nat /\ DOMAIN rules = 1 .. n /\ \A i \in 1 .. n : rules[i] \in RuleSet
  BY SequenceFacts
<1>2. ASSUME NEW i \in 1 .. n PROVE E(i) \in Entry
  <2>1. rules[i] \in RuleSet /\ rules[i].rank \in Int
    BY <1>1, RuleSetRanked
  <2>2. RuleRegisters(rules[i]) /\ rules[i].id \in Ids
    BY <1>1 DEF RuleRegisters
  <2>3. origin = "builtin" => rules[i] \in BuiltinRules
    BY ElementOfSeq
  <2> QED
    BY <2>1, <2>2, <2>3 DEF Entry
<1>3. s = Entries(origin, rules, allow)
  BY <1>1 DEF Entries
<1>4. s \in Seq(Entry)
  <2> HIDE DEF E
  <2> QED
    BY <1>1, <1>2
<1>5. DOMAIN s = 1 .. n /\ \A i \in 1 .. n : s[i].id = rules[i].id /\ s[i].rule = rules[i]
                                             /\ s[i].origin = origin
  OBVIOUS
<1> QED
  BY <1>1, <1>3, <1>4, <1>5

RegistryOK(reg) ==
  /\ reg \in [entries : Seq(Entry), ids : SUBSET Ids, sensitive : Matchers]
  /\ Ascending(reg.entries)
  /\ reg.ids = {reg.entries[i].id : i \in DOMAIN reg.entries}

Fresh(news, ids) ==
  /\ \A i \in DOMAIN news : news[i].id \notin ids
  /\ \A i, j \in DOMAIN news : news[i].id = news[j].id => i = j

\* New rules go between the old ones and nothing else changes.
LEMMA WithKeeps ==
  ASSUME NEW reg, RegistryOK(reg), NEW news \in Seq(Entry), Fresh(news, reg.ids)
  PROVE  /\ RegistryOK(With(reg, news)) /\ With(reg, news).sensitive = reg.sensitive
         /\ Range(With(reg, news).entries) = Range(reg.entries) \union Range(news)
<1> DEFINE old == reg.entries
           m   == Len(old)
           n   == Len(news)
           s   == old \o news
           t   == SortedBy(s, ByRank)
<1>1. old \in Seq(Entry) /\ Ascending(old) /\ reg.ids = {old[i].id : i \in DOMAIN old}
  BY DEF RegistryOK
<1>2. With(reg, news) = [entries   |-> t, ids |-> reg.ids \union {news[i].id : i \in DOMAIN news},
                         sensitive |-> reg.sensitive]
  <2> DEFINE ids == {news[i].id : i \in DOMAIN news}
  <2>1. reg = [entries |-> old, ids |-> reg.ids, sensitive |-> reg.sensitive]
    BY DEF RegistryOK
  <2>2. With(reg, news) = [reg EXCEPT !.entries = t, !.ids = reg.ids \union ids]
    BY DEF With
  <2> DEFINE a == reg.ids
             b == reg.sensitive
             c == a \union ids
  <2>3. reg = [entries |-> old, ids |-> a, sensitive |-> b]
    BY <2>1
  <2> HIDE DEF old, t, ids, a, b, c
  <2>4. [reg EXCEPT !.entries = t, !.ids = c] = [entries |-> t, ids |-> c, sensitive |-> b]
    <3>1. [[entries |-> old, ids |-> a, sensitive |-> b] EXCEPT !.entries = t]
            = [entries |-> t, ids |-> a, sensitive |-> b]
      OBVIOUS
    <3>2. [[entries |-> t, ids |-> a, sensitive |-> b] EXCEPT !.ids = c]
            = [entries |-> t, ids |-> c, sensitive |-> b]
      OBVIOUS
    <3>3. [reg EXCEPT !.entries = t, !.ids = c] = [[reg EXCEPT !.entries = t] EXCEPT !.ids = c]
      OBVIOUS
    <3> QED
      BY <2>3, <3>1, <3>2, <3>3
  <2> QED
    BY <2>2, <2>4 DEF ids, a, b, c
<1> HIDE DEF old
<1>3. /\ m \in Nat /\ DOMAIN old = 1 .. m /\ n \in Nat /\ DOMAIN news = 1 .. n
      /\ \A i \in 1 .. n : news[i] \in Entry
  BY <1>1, SequenceFacts
<1>4. s \in Seq(Entry) /\ Len(s) = m + n
      /\ \A i \in 1 .. m + n : s[i] = IF i <= m THEN old[i] ELSE news[i - m]
  BY <1>1, ConcatProperties
<1> HIDE DEF s, t
<1>5. t \in Seq(Entry) /\ Range(t) = Range(s)
  BY <1>4, RankSorted DEF t
<1>6. DOMAIN s = 1 .. m + n
  BY <1>4, SequenceFacts
<1>7. ASSUME NEW i \in 1 .. m + n, NEW j \in 1 .. m + n, i < j PROVE s[i].id # s[j].id
  <2>1. CASE j <= m
    <3>1. i \in 1 .. m /\ j \in 1 .. m /\ i <= m
      BY <1>3, <1>7, <2>1
    <3>2. s[i] = old[i] /\ s[j] = old[j]
      BY <1>4, <2>1, <3>1
    <3> QED
      BY <1>1, <1>3, <1>7, <3>1, <3>2 DEF Ascending, Follows
  <2>2. CASE i <= m /\ j > m
    <3>1. i \in 1 .. m /\ j - m \in 1 .. n /\ ~ (j <= m)
      BY <1>3, <2>2
    <3>2. s[i] = old[i] /\ s[j] = news[j - m]
      BY <1>4, <2>2, <3>1
    <3> QED
      BY <1>1, <1>3, <3>1, <3>2 DEF Fresh
  <2>3. CASE i > m
    <3>1. i - m \in 1 .. n /\ j - m \in 1 .. n /\ ~ (i <= m) /\ ~ (j <= m) /\ i - m # j - m
      BY <1>3, <1>7, <2>3
    <3>2. s[i] = news[i - m] /\ s[j] = news[j - m]
      BY <1>4, <3>1
    <3> QED
      BY <1>3, <3>1, <3>2 DEF Fresh
  <2>4. j <= m \/ (i <= m /\ j > m) \/ i > m
    BY <1>3, <1>7
  <2> QED
    BY <2>1, <2>2, <2>3, <2>4
<1>8. Ascending(t)
  <2>1. \A i, j \in 1 .. m + n : i < j \/ i = j \/ j < i
    BY <1>3
  <2>2. \A i, j \in DOMAIN s : i # j => s[i].id # s[j].id
    BY <1>6, <1>7, <2>1
  <2> QED
    BY <1>4, <2>2, EntryRanked, RankAscends DEF t
<1>9. Range(s) = Range(old) \union Range(news)
  BY <1>1, RangeConcatenation DEF s
<1>10. {t[i].id : i \in DOMAIN t} = reg.ids \union {news[i].id : i \in DOMAIN news}
  <2>1. \A u : {u[i].id : i \in DOMAIN u} = {x.id : x \in Range(u)}
    BY DEF Range
  <2>2. Range(t) = Range(old) \union Range(news)
    BY <1>5, <1>9
  <2>3. {x.id : x \in Range(t)} = {x.id : x \in Range(old)} \union {x.id : x \in Range(news)}
    BY <2>2
  <2>4. {t[i].id : i \in DOMAIN t} = {x.id : x \in Range(t)}
    BY <2>1
  <2>5. reg.ids = {x.id : x \in Range(old)}
    BY <1>1, <2>1
  <2>6. {news[i].id : i \in DOMAIN news} = {x.id : x \in Range(news)}
    BY <2>1
  <2> QED
    BY <2>3, <2>4, <2>5, <2>6
<1>11. {news[i].id : i \in DOMAIN news} \subseteq Ids
  BY <1>3 DEF Entry
<1> DEFINE ids == {news[i].id : i \in DOMAIN news}
           new == With(reg, news)
<1>12. new = [entries |-> t, ids |-> reg.ids \union ids, sensitive |-> reg.sensitive]
  BY <1>2
<1>13. reg.ids \subseteq Ids /\ reg.sensitive \in Matchers /\ ids \subseteq Ids
       /\ reg.ids \union ids = {t[i].id : i \in DOMAIN t}
  BY <1>10, <1>11 DEF RegistryOK
<1> HIDE DEF ids, new
<1>14. new.entries = t /\ new.ids = reg.ids \union ids /\ new.sensitive = reg.sensitive
  BY <1>12
<1>15. new \in [entries : Seq(Entry), ids : SUBSET Ids, sensitive : Matchers]
  BY <1>5, <1>12, <1>13
<1>16. RegistryOK(new)
  BY <1>8, <1>13, <1>14, <1>15 DEF RegistryOK
<1> QED
  BY <1>5, <1>9, <1>14, <1>16 DEF new, old

-----------------------------------------------------------------------------
(* The registry. *)

LEMMA AddKeeps ==
  ASSUME RegistryOK(registry), NEW origin \in Origins, NEW rules \in Seq(RuleSet),
         NEW allow \in Allowlists, Admissible(rules),
         origin = "builtin" => allow = {} /\ rules \in Seq(BuiltinRules)
  PROVE  /\ RegistryOK(Add(origin, rules, allow))
         /\ Add(origin, rules, allow).sensitive = registry.sensitive
         /\ Range(Add(origin, rules, allow).entries)
              = Range(registry.entries) \union Range(Entries(origin, rules, allow))
<1> DEFINE news == Entries(origin, rules, allow)
<1>1. \A i \in DOMAIN rules : RuleRegisters(rules[i]) /\ rules[i].id \notin registry.ids
  BY DEF Admissible
<1>2. /\ news \in Seq(Entry) /\ DOMAIN news = DOMAIN rules
      /\ \A i \in DOMAIN rules : news[i].id = rules[i].id
  BY <1>1, EntriesShape
<1> HIDE DEF news
<1>3. \A i, j \in DOMAIN news : news[i].id = news[j].id => i = j
  BY <1>2 DEF Admissible, Unique
<1>4. \A i \in DOMAIN news : news[i].id \notin registry.ids
  BY <1>1, <1>2
<1>5. Add(origin, rules, allow) = With(registry, news)
  BY DEF Add, news
<1>6. Fresh(news, registry.ids)
  BY <1>3, <1>4 DEF Fresh
<1>7. /\ RegistryOK(With(registry, news)) /\ With(registry, news).sensitive = registry.sensitive
      /\ Range(With(registry, news).entries) = Range(registry.entries) \union Range(news)
  BY <1>2, <1>6, WithKeeps
<1> QED
  BY <1>5, <1>7 DEF news

LEMMA RegisterCompiledKeeps ==
  ASSUME RegistryOK(registry), NEW d \in Documents, Admissible(Compiled(d).rules)
  PROVE  /\ RegistryOK(RegisterCompiled(Compiled(d)))
         /\ RegisterCompiled(Compiled(d)).sensitive = Compiled(d).sensitive
         /\ Range(RegisterCompiled(Compiled(d)).entries)
              = Range(registry.entries)
                  \union Range(Entries("remote_pack", Compiled(d).rules, Compiled(d).allow))
<1> DEFINE c == Compiled(d)
           a == Add("remote_pack", c.rules, c.allow)
           r == RegisterCompiled(c)
<1>1. c.rules \in Seq(RuleSet) /\ c.allow \in Allowlists /\ c.sensitive \in Matchers
  BY CompiledShape
<1>2. RegistryOK(a) /\ Range(a.entries) = Range(registry.entries)
                                     \union Range(Entries("remote_pack", c.rules, c.allow))
  BY <1>1, AddKeeps DEF Origins
<1>3. r = [a EXCEPT !.sensitive = c.sensitive]
  BY DEF RegisterCompiled
<1> HIDE DEF a, c, r
<1>4. /\ r \in [entries : Seq(Entry), ids : SUBSET Ids, sensitive : Matchers]
      /\ r.entries = a.entries /\ r.ids = a.ids /\ r.sensitive = c.sensitive
  <2>1. a \in [entries : Seq(Entry), ids : SUBSET Ids, sensitive : Matchers]
    BY <1>2 DEF RegistryOK
  <2> QED
    BY <1>1, <1>3, <2>1
<1> QED
  BY <1>2, <1>4 DEF RegistryOK, r, c

\* The assembly: the registry is well-formed and the policy a snapshot of it.
AssemblyInv ==
  /\ stage \in {"bare", "builtin", "loaded", "serving", "failed"}
  /\ RegistryOK(registry)
  /\ policy \in [entries : Seq(Entry), sensitive : Matchers] /\ Ascending(policy.entries)

LEMMA AssemblyStarts == Init => AssemblyInv
<1>1. <<>> \in Seq(Entry)
  OBVIOUS
<1>2. Ascending(<<>>)
  BY DEF Ascending
<1>3. ASSUME Init PROVE AssemblyInv
  <2>1. RegistryOK(registry)
    BY <1>1, <1>2, <1>3 DEF Init, RegistryOK, Matchers
  <2> QED
    BY <1>1, <1>2, <1>3, <2>1 DEF Init, AssemblyInv, Matchers
<1> QED
  BY <1>3

LEMMA RegistryStays ==
  ASSUME AssemblyInv, Next
  PROVE  RegistryOK(registry')
<1>0. RegistryOK(registry)
  BY DEF AssemblyInv
<1>1. ASSUME NEW on \in SUBSET Detectors, RegisterBuiltin(on) PROVE RegistryOK(registry')
  <2> DEFINE table == Among(DetectorTable, on)
             rules == [i \in DOMAIN table |-> Builtin(table[i])]
  <2>1. rules \in Seq(BuiltinRules)
    BY BuiltinShape
  <2>2. registry' = Add("builtin", rules, {})
    BY <1>1 DEF RegisterBuiltin
  <2> HIDE DEF rules
  <2>3. rules \in Seq(RuleSet)
    <3>1. BuiltinRules \subseteq RuleSet
      BY DEF RuleSet
    <3> QED
      BY <2>1, <3>1, SeqMonotonic
  <2>4. "builtin" \in Origins /\ {} \in Allowlists
    BY DEF Origins, Allowlists
  <2>5. CASE Admissible(rules)
    BY <1>0, <2>1, <2>2, <2>3, <2>4, <2>5, AddKeeps
  <2>6. CASE ~ Admissible(rules)
    BY <1>0, <2>2, <2>6 DEF Add
  <2> QED
    BY <2>5, <2>6
<1>2. ASSUME NEW d \in Documents, LoadCachedPack(d) \/ RegisterDocument(d) PROVE RegistryOK(registry')
  <2>1. registry' = registry \/ registry' = RegisterCompiled(Compiled(d))
    BY <1>2 DEF LoadCachedPack, RegisterDocument
  <2>2. CASE Admissible(Compiled(d).rules)
    BY <1>0, <2>1, <2>2, RegisterCompiledKeeps
  <2>3. CASE ~ Admissible(Compiled(d).rules)
    BY <1>0, <2>1, <2>3 DEF RegisterCompiled
  <2> QED
    BY <2>2, <2>3
<1>3. ASSUME NEW batch \in Batches, Register(batch) PROVE RegistryOK(registry')
  <2>1. registry' = Add("plugin", batch, {})
    BY <1>3 DEF Register
  <2>2. "plugin" \in Origins /\ {} \in Allowlists /\ "plugin" # "builtin" /\ batch \in Seq(RuleSet)
    BY BatchShape DEF Origins, Allowlists
  <2>3. CASE Admissible(batch)
    BY <1>0, <2>1, <2>2, <2>3, AddKeeps
  <2>4. CASE ~ Admissible(batch)
    BY <1>0, <2>1, <2>4 DEF Add
  <2> QED
    BY <2>3, <2>4
<1>4. CASE NewPolicy
  BY <1>0, <1>4 DEF NewPolicy
<1>5. ASSUME NEW leaves \in Bodies, NEW phase \in Phases,
             Evaluate(leaves, phase) \/ Decide(leaves, phase)
      PROVE  RegistryOK(registry')
  BY <1>0, <1>5 DEF Evaluate, Decide
<1> QED
  BY <1>1, <1>2, <1>3, <1>4, <1>5 DEF Next

LEMMA AssemblyStays == AssemblyInv /\ [Next]_vars => AssemblyInv'
<1> SUFFICES ASSUME AssemblyInv, [Next]_vars PROVE AssemblyInv'
  OBVIOUS
<1>1. CASE UNCHANGED vars
  BY <1>1 DEF vars, AssemblyInv, RegistryOK
<1>2. CASE Next
  <2>1. RegistryOK(registry')
    BY <1>2, RegistryStays
  <2>2. stage' \in {"bare", "builtin", "loaded", "serving", "failed"}
    BY <1>2 DEF Next, RegisterBuiltin, LoadCachedPack, RegisterDocument, NewPolicy, Register,
                Evaluate, Decide, AssemblyInv
  <2>3. \/ UNCHANGED policy
        \/ policy' = [entries |-> registry.entries, sensitive |-> registry.sensitive]
    BY <1>2 DEF Next, RegisterBuiltin, LoadCachedPack, RegisterDocument, NewPolicy, Register,
                Evaluate, Decide
  <2>4. policy' \in [entries : Seq(Entry), sensitive : Matchers] /\ Ascending(policy'.entries)
    BY <2>3 DEF AssemblyInv, RegistryOK
  <2> QED
    BY <2>1, <2>2, <2>4 DEF AssemblyInv
<1> QED
  BY <1>1, <1>2

-----------------------------------------------------------------------------
(* Whole documents. *)

RemoteIn(entries) == {e.rule : e \in {x \in Range(entries) : x.origin = "remote_pack"}}
Whole(rules)      == {d \in Valid : Range(Compiled(d).rules) \subseteq rules}
WholeRules(rules) == UNION {Range(Compiled(d).rules) : d \in Whole(rules)}

LEMMA WholeRestated ==
  /\ DocumentsWhole <=>
       /\ RemoteIn(registry.entries) = WholeRules(RemoteIn(registry.entries))
       /\ registry.sensitive \in
            {NoMatcher} \union {Compiled(d).sensitive : d \in Whole(RemoteIn(registry.entries))}
  /\ DocumentsWhole' <=>
       /\ RemoteIn(registry'.entries) = WholeRules(RemoteIn(registry'.entries))
       /\ registry'.sensitive \in
            {NoMatcher} \union {Compiled(d).sensitive : d \in Whole(RemoteIn(registry'.entries))}
<1>1. RemoteRules = RemoteIn(registry.entries) /\ RemoteRules' = RemoteIn(registry'.entries)
  BY DEF RemoteRules, RemoteIn, Range
<1>2. DocumentsWhole <=>
        /\ RemoteRules = WholeRules(RemoteRules)
        /\ registry.sensitive \in {NoMatcher} \union {Compiled(d).sensitive : d \in Whole(RemoteRules)}
  BY DEF DocumentsWhole, WholeRules, Whole
<1>3. DocumentsWhole' <=>
        /\ RemoteRules' = WholeRules(RemoteRules')
        /\ registry'.sensitive \in {NoMatcher} \union {Compiled(d).sensitive : d \in Whole(RemoteRules')}
  BY DEF DocumentsWhole, WholeRules, Whole
<1> QED
  BY <1>1, <1>2, <1>3

LEMMA WholeGrows ==
  ASSUME NEW R, R = WholeRules(R), NEW d \in Valid, NEW S, S = R \union Range(Compiled(d).rules)
  PROVE  S = WholeRules(S) /\ d \in Whole(S) /\ Whole(R) \subseteq Whole(S)
<1>1. d \in Whole(S) /\ Whole(R) \subseteq Whole(S)
  BY DEF Whole
<1>2. WholeRules(S) \subseteq S
  BY DEF WholeRules, Whole
<1>3. ASSUME NEW r \in S PROVE r \in WholeRules(S)
  <2>1. CASE r \in R
    <3>1. PICK e \in Whole(R) : r \in Range(Compiled(e).rules)
      BY <2>1 DEF WholeRules
    <3> QED
      BY <1>1, <3>1 DEF WholeRules
  <2>2. CASE r \in Range(Compiled(d).rules)
    BY <1>1, <2>2 DEF WholeRules
  <2> QED
    BY <2>1, <2>2
<1> QED
  BY <1>1, <1>2, <1>3

\* The rules that entries of one origin add.
LEMMA RemoteAdds ==
  ASSUME NEW origin \in Origins, NEW rules \in Seq(RuleSet), NEW allow \in Allowlists,
         NEW old, NEW new,
         Range(new) = Range(old) \union Range(Entries(origin, rules, allow))
  PROVE  RemoteIn(new) = RemoteIn(old) \union
                           (IF origin = "remote_pack" THEN Range(rules) ELSE {})
<1> DEFINE e(i) == [rule |-> rules[i], origin |-> origin, id |-> rules[i].id,
                    rank |-> rules[i].rank, allow |-> allow]
           added == Range(Entries(origin, rules, allow))
<1>1. added = {e(i) : i \in DOMAIN rules}
  BY DEF Entries, Range
<1>2. \A i : e(i).rule = rules[i] /\ e(i).origin = origin
  OBVIOUS
<1> HIDE DEF e, added
<1>3. {x.rule : x \in {y \in added : y.origin = "remote_pack"}}
        = IF origin = "remote_pack" THEN Range(rules) ELSE {}
  BY <1>1, <1>2 DEF Range
<1>4. RemoteIn(new) = RemoteIn(old) \union {x.rule : x \in {y \in added : y.origin = "remote_pack"}}
  BY DEF RemoteIn, added
<1> QED
  BY <1>3, <1>4

LEMMA WholeStarts == Init => DocumentsWhole
<1> SUFFICES ASSUME Init PROVE DocumentsWhole
  OBVIOUS
<1>1. RemoteIn(registry.entries) = {} /\ registry.sensitive = NoMatcher
  BY DEF Init, RemoteIn, Range
<1>2. WholeRules({}) = {}
  BY DEF WholeRules, Whole
<1> QED
  BY <1>1, <1>2, WholeRestated

LEMMA WholeStays ==
  ASSUME AssemblyInv, DocumentsWhole, [Next]_vars PROVE DocumentsWhole'
<1> DEFINE R == RemoteIn(registry.entries)
           S == RemoteIn(registry'.entries)
<1>1. /\ RegistryOK(registry) /\ R = WholeRules(R)
      /\ registry.sensitive \in {NoMatcher} \union {Compiled(d).sensitive : d \in Whole(R)}
  BY WholeRestated DEF AssemblyInv
<1>2. ASSUME registry' = registry PROVE DocumentsWhole'
  BY <1>1, <1>2, WholeRestated
<1>3. ASSUME NEW origin \in Origins, origin # "remote_pack", NEW rules \in Seq(RuleSet),
             origin = "builtin" => rules \in Seq(BuiltinRules),
             registry' = Add(origin, rules, {})
      PROVE  DocumentsWhole'
  <2>1. CASE ~ Admissible(rules)
    BY <1>2, <1>3, <2>1 DEF Add
  <2>2. CASE Admissible(rules)
    <3>1. {} \in Allowlists
      BY DEF Allowlists
    <3>2. registry'.sensitive = registry.sensitive
          /\ Range(registry'.entries) = Range(registry.entries) \union Range(Entries(origin, rules, {}))
      BY <1>1, <1>3, <2>2, <3>1, AddKeeps
    <3> DEFINE old == registry.entries
               new == registry'.entries
               none == {}
    <3>3. none \in Allowlists /\ Range(new) = Range(old) \union Range(Entries(origin, rules, none))
      BY <3>1, <3>2
    <3> HIDE DEF old, new, none
    <3>4. RemoteIn(new) = RemoteIn(old) \union (IF origin = "remote_pack" THEN Range(rules) ELSE {})
      BY <1>3, <3>3, RemoteAdds
    <3>5. S = R
      BY <1>3, <3>4 DEF old, new
    <3> QED
      BY <1>1, <3>2, <3>5, WholeRestated
  <2> QED
    BY <2>1, <2>2
<1>4. ASSUME NEW d \in Valid, registry' = RegisterCompiled(Compiled(d)) PROVE DocumentsWhole'
  <2>1. CASE ~ Admissible(Compiled(d).rules)
    BY <1>2, <1>4, <2>1 DEF RegisterCompiled
  <2>2. CASE Admissible(Compiled(d).rules)
    <3>1. d \in Documents
      BY DEF Valid
    <3>2. /\ registry'.sensitive = Compiled(d).sensitive
          /\ Range(registry'.entries)
               = Range(registry.entries)
                   \union Range(Entries("remote_pack", Compiled(d).rules, Compiled(d).allow))
      BY <1>1, <1>4, <2>2, <3>1, RegisterCompiledKeeps
    <3>3. "remote_pack" \in Origins /\ Compiled(d).rules \in Seq(RuleSet)
          /\ Compiled(d).allow \in Allowlists
      BY <3>1, CompiledShape DEF Origins
    <3>4. S = R \union Range(Compiled(d).rules)
      BY <3>2, <3>3, RemoteAdds
    <3>5. S = WholeRules(S) /\ d \in Whole(S)
      <4> HIDE DEF R, S
      <4> QED
        BY <1>1, <3>4, WholeGrows
    <3> QED
      BY <3>2, <3>5, WholeRestated
  <2> QED
    BY <2>1, <2>2
<1>5. ASSUME NEW on \in SUBSET Detectors, RegisterBuiltin(on) PROVE DocumentsWhole'
  <2> DEFINE table == Among(DetectorTable, on)
             rules == [i \in DOMAIN table |-> Builtin(table[i])]
  <2>1. rules \in Seq(BuiltinRules)
    BY BuiltinShape
  <2>2. registry' = Add("builtin", rules, {})
    BY <1>5 DEF RegisterBuiltin
  <2> HIDE DEF rules
  <2>3. rules \in Seq(RuleSet)
    <3>1. BuiltinRules \subseteq RuleSet
      BY DEF RuleSet
    <3> QED
      BY <2>1, <3>1, SeqMonotonic
  <2> QED
    BY <1>3, <2>1, <2>2, <2>3 DEF Origins
<1>6. ASSUME NEW d \in Documents, LoadCachedPack(d) \/ RegisterDocument(d) PROVE DocumentsWhole'
  <2>1. registry' = registry
          \/ (registry' = RegisterCompiled(Compiled(d)) /\ Decodes(d) /\ Compiles(d))
    BY <1>6 DEF LoadCachedPack, RegisterDocument, Accepts
  <2> QED
    BY <1>2, <1>4, <2>1 DEF Valid
<1>7. ASSUME NEW batch \in Batches, Register(batch) PROVE DocumentsWhole'
  <2>1. registry' = Add("plugin", batch, {})
    BY <1>7 DEF Register
  <2>2. batch \in Seq(RuleSet)
    BY BatchShape
  <2> QED
    BY <1>3, <2>1, <2>2 DEF Origins
<1>8. CASE NewPolicy
  BY <1>2, <1>8 DEF NewPolicy
<1>9. ASSUME NEW leaves \in Bodies, NEW phase \in Phases,
             Evaluate(leaves, phase) \/ Decide(leaves, phase)
      PROVE  DocumentsWhole'
  BY <1>2, <1>9 DEF Evaluate, Decide
<1>10. CASE UNCHANGED vars
  BY <1>2, <1>10 DEF vars
<1> QED
  BY <1>5, <1>6, <1>7, <1>8, <1>9, <1>10 DEF Next

\* A registration that is refused leaves nothing behind ("nothing is stored unless
\* every check passes"): in every reachable registry the remote rules are those of
\* whole documents, and the sensitive keys those of one of them.
THEOREM DocumentsAreWhole == Spec => []DocumentsWhole
<1>1. Init => AssemblyInv /\ DocumentsWhole
  BY AssemblyStarts, WholeStarts
<1>2. AssemblyInv /\ DocumentsWhole /\ [Next]_vars => AssemblyInv' /\ DocumentsWhole'
  BY AssemblyStays, WholeStays
<1> QED
  BY <1>1, <1>2, PTL DEF Spec

-----------------------------------------------------------------------------
(* What one rule finds in one value. *)

LEMMA PositionsFacts ==
  ASSUME NEW S, NEW s \in Seq(S)
  PROVE  /\ Positions(s) \in Seq(DOMAIN s) /\ Range(Positions(s)) = DOMAIN s
         /\ Len(Positions(s)) = Len(s) /\ \A i \in 1 .. Len(s) : Positions(s)[i] = i
<1>1. Len(s) \in Nat /\ DOMAIN s = 1 .. Len(s)
  BY SequenceFacts
<1> DEFINE n == Len(s)
           p == [i \in 1 .. n |-> i]
<1>2. Positions(s) = p
  BY <1>1 DEF Positions
<1>3. p \in Seq(1 .. n) /\ Range(p) = 1 .. n /\ Len(p) = n /\ \A i \in 1 .. n : p[i] = i
  <2>1. n \in Nat
    BY <1>1
  <2> HIDE DEF n
  <2> QED
    BY <2>1 DEF Range
<1> QED
  BY <1>1, <1>2, <1>3

LEMMA SubSeqRange ==
  ASSUME NEW S, NEW s \in Seq(S), NEW n \in Nat, n <= Len(s)
  PROVE  SubSeq(s, 1, n) \in Seq(S) /\ Range(SubSeq(s, 1, n)) \subseteq Range(s)
<1>1. Len(s) \in Nat /\ DOMAIN s = 1 .. Len(s) /\ \A i \in 1 .. Len(s) : s[i] \in S
  BY SequenceFacts
<1> DEFINE u == SubSeq(s, 1, n)
<1>2. \A i \in 1 .. n : i \in 1 .. Len(s)
  BY <1>1
<1>3. u \in Seq(S) /\ Len(u) = n /\ \A i \in 1 .. n : u[i] = s[i]
  <2>1. \A i \in 1 .. n : s[i] \in S
    BY <1>1, <1>2
  <2>2. (IF 1 <= n THEN n - 1 + 1 ELSE 0) = n /\ n - 1 + 1 = n /\ \A i \in 1 .. n : 1 + i - 1 = i
    OBVIOUS
  <2> QED
    BY <2>1, <2>2, SubSeqProperties
<1> HIDE DEF u
<1>4. DOMAIN u = 1 .. n
  BY <1>3, SequenceFacts
<1>5. Range(u) \subseteq Range(s)
  BY <1>1, <1>2, <1>3, <1>4 DEF Range
<1> QED
  BY <1>3, <1>5 DEF u

LEMMA SpansShape ==
  ASSUME NEW rule, NEW value \in Seq(Words)
  PROVE  Spans(rule, value) \in Seq(DOMAIN value)
<1> DEFINE all == Among(Positions(value), {i \in DOMAIN value : value[i] \in rule.finds})
           S   == DOMAIN value
<1>1. all \in Seq(S)
  BY PositionsFacts, AmongFacts
<1> HIDE DEF all, S
<1>2. Len(all) \in Nat
  BY <1>1, LenProperties
<1>3. MaxMatches \in Nat
  BY DocumentOK
<1>4. ASSUME Len(all) > MaxMatches PROVE SubSeq(all, 1, MaxMatches + 1) \in Seq(S)
  <2>1. MaxMatches + 1 \in Nat /\ MaxMatches + 1 <= Len(all)
    BY <1>2, <1>3, <1>4
  <2> QED
    BY <1>1, <2>1, SubSeqRange
<1>5. Spans(rule, value) = IF rule.capped /\ Len(all) > MaxMatches
                           THEN SubSeq(all, 1, MaxMatches + 1) ELSE all
  BY DEF Spans, all
<1> QED
  BY <1>1, <1>4, <1>5 DEF S

\* An evaluation reports positions of the value; no allowlist, and it reports all.
LEMMA InspectFacts ==
  ASSUME NEW e, NEW value \in Seq(Words)
  PROVE  /\ Inspect(e, value) \in Seq(Nat) /\ Range(Inspect(e, value)) \subseteq DOMAIN value
         /\ e.allow = {} /\ e.rule.allow = {} =>
              Range(Inspect(e, value)) = Range(Spans(e.rule, value))
<1> DEFINE spans == Spans(e.rule, value)
           lists == e.allow \union e.rule.allow
           T     == {i \in DOMAIN value : ~ Suppressed(value, i, lists)}
           S     == DOMAIN value
<1>1. spans \in Seq(S) /\ S \subseteq Nat
  <2>1. Len(value) \in Nat /\ DOMAIN value = 1 .. Len(value)
    BY SequenceFacts
  <2> QED
    BY <2>1, SpansShape
<1>2. Inspect(e, value) = Among(spans, T)
  BY DEF Inspect, Unsuppressed
<1> HIDE DEF spans
<1>3. Among(spans, T) \in Seq(S) /\ Range(Among(spans, T)) = Range(spans) \cap T
  <2> HIDE DEF S, T
  <2> QED
    BY <1>1, AmongFacts
<1>4. Range(spans) \subseteq S
  <2> HIDE DEF S
  <2> QED
    BY <1>1, SequenceFacts
<1>5. e.allow = {} /\ e.rule.allow = {} => T = S
  BY DEF Suppressed
<1>6. Inspect(e, value) \in Seq(Nat)
  <2> HIDE DEF S, T
  <2> QED
    BY <1>1, <1>2, <1>3, SeqMonotonic
<1>7. Range(Inspect(e, value)) \subseteq S
  <2> HIDE DEF T, S
  <2> QED
    BY <1>2, <1>3, <1>4
<1>8. e.allow = {} /\ e.rule.allow = {} => Range(Inspect(e, value)) = Range(spans)
  <2> HIDE DEF T, S
  <2> QED
    BY <1>2, <1>3, <1>4, <1>5
<1> QED
  BY <1>6, <1>7, <1>8 DEF spans

-----------------------------------------------------------------------------
(* collect: one rule, all rules of one leaf, all leaves. *)

Findings == [id : Ids \union {"sensitive_key"}, action : Actions, leaf : Nat, first : Nat,
             last : Nat, origin : Origins]
Failures == {NoFailure} \union
              [id : Ids \union {"sensitive_key"}, origin : Origins, reason : Reasons]
Partial  == [out : Seq(Findings), failure : Failures]

\* A failure stays one, and without one no finding is lost.
Keeps(a, b) == b.failure = NoFailure => a.failure = NoFailure /\ Range(a.out) \subseteq Range(b.out)

NoRedaction(out) == \A f \in Range(out) : f.action # "redact"

\* What a rule has to report of a value, unless the sensitive keys keep it out.
Reported(e, n, value, phase, gated, out) ==
  ~ Skipped(Asked(e.rule), gated) /\ ~ Skipped(Meta(e.rule).action, gated)
  /\ Covers(Meta(e.rule).scope, phase) =>
       \A k \in Range(Inspect(e, value)) :
         Finding(e.id, Meta(e.rule).action, n, k, k, e.origin) \in Range(out)

LEMMA KeepsChain ==
  /\ \A a : Keeps(a, a)
  /\ \A a, b, c : Keeps(a, b) /\ Keeps(b, c) => Keeps(a, c)
BY DEF Keeps

LEMMA ReportedKept ==
  ASSUME NEW e, NEW n, NEW value, NEW phase, NEW gated, NEW a, NEW b,
         Keeps(a, b), b.failure = NoFailure, Reported(e, n, value, phase, gated, a.out)
  PROVE  Reported(e, n, value, phase, gated, b.out)
BY DEF Keeps, Reported

LEMMA FailsFacts ==
  ASSUME NEW a \in Partial, NEW id \in Ids \union {"sensitive_key"}, NEW origin \in Origins,
         NEW reason \in Reasons
  PROVE  /\ Fails(a, id, origin, reason) \in Partial
         /\ Fails(a, id, origin, reason).failure # NoFailure
         /\ Fails(a, id, origin, reason).out = a.out
<1>1. Fails(a, id, origin, reason).failure = [id |-> id, origin |-> origin, reason |-> reason]
  BY DEF Fails, Partial
<1>2. reason # "none"
  BY DEF Reasons
<1>3. [id |-> id, origin |-> origin, reason |-> reason] \in Failures
  BY DEF Failures
<1>4. Fails(a, id, origin, reason).failure # NoFailure
  <2>1. Fails(a, id, origin, reason).failure.reason = reason /\ NoFailure.reason = "none"
    BY <1>1 DEF NoFailure
  <2> QED
    BY <1>2, <2>1
<1> QED
  BY <1>3, <1>4 DEF Fails, Partial

LEMMA MetaFacts ==
  ASSUME NEW e \in Entry
  PROVE  /\ Meta(e.rule).action \in Actions /\ Meta(e.rule).scope \in Scopes
         /\ e.rule.turn = "none" => Meta(e.rule).action = e.rule.action
                                   /\ Meta(e.rule).scope = e.rule.scope
                                   /\ Asked(e.rule) = e.rule.action
<1>1. e.rule.scope \in Scopes /\ e.rule.action \in Actions
  BY DEF Entry, RuleRegisters
<1> DEFINE r == e.rule
<1> HIDE DEF r
<1>2. CASE r.turn = "both"
  BY <1>2 DEF Meta, Actions, Scopes, r
<1>3. CASE r.turn = "mask"
  BY <1>3 DEF Meta, Actions, Scopes, r
<1>4. CASE r.turn # "both" /\ r.turn # "mask"
  <2>1. Meta(r) = [scope |-> r.scope, action |-> r.action] /\ Asked(r) = r.action
    BY <1>4 DEF Meta, Asked
  <2> QED
    BY <1>1, <2>1 DEF r
<1> QED
  BY <1>2, <1>3, <1>4 DEF r

LEMMA ReasonFacts ==
  ASSUME NEW e, NEW value, NEW phase
  PROVE  /\ Reason(e, value, phase) \in Reasons \union {"none"}
         /\ Reason(e, value, phase) = "none" =>
              ~ (Meta(e.rule).scope # "request" /\ Meta(e.rule).action = "redact")
<1>1. {"panic", "timeout", "budget", "malformed"} \subseteq Reasons
  BY DEF Reasons
<1> QED
  BY <1>1 DEF Reason

\* The findings one rule adds.
LEMMA EntryFindings ==
  ASSUME NEW e \in Entry, NEW n \in Nat, NEW value \in Seq(Words), NEW a \in Partial,
         NEW more, more = [k \in DOMAIN Inspect(e, value) |->
                             Finding(e.id, Meta(e.rule).action, n, Inspect(e, value)[k],
                                     Inspect(e, value)[k], e.origin)]
  PROVE  /\ more \in Seq(Findings) /\ a.out \o more \in Seq(Findings)
         /\ Range(a.out \o more) = Range(a.out) \union Range(more)
         /\ \A k \in Range(Inspect(e, value)) :
              Finding(e.id, Meta(e.rule).action, n, k, k, e.origin) \in Range(more)
         /\ \A f \in Range(more) : f.action = Meta(e.rule).action
<1> DEFINE spans == Inspect(e, value)
           F(k)  == Finding(e.id, Meta(e.rule).action, n, k, k, e.origin)
<1>1. spans \in Seq(Nat)
  BY InspectFacts
<1>2. more = [k \in DOMAIN spans |-> F(spans[k])]
  OBVIOUS
<1>3. \A k \in Nat : F(k) \in Findings
  <2>1. Meta(e.rule).action \in Actions /\ e.id \in Ids /\ e.origin \in Origins
    BY MetaFacts DEF Entry
  <2> QED
    BY <2>1 DEF Finding, Findings
<1>4. \A k : F(k).action = Meta(e.rule).action
  BY DEF Finding
<1> HIDE DEF spans, F
<1>5. Len(spans) \in Nat /\ DOMAIN spans = 1 .. Len(spans) /\ \A i \in 1 .. Len(spans) : spans[i] \in Nat
  BY <1>1, SequenceFacts
<1>6. more \in Seq(Findings)
  <2>1. \A i \in 1 .. Len(spans) : F(spans[i]) \in Findings
    BY <1>3, <1>5
  <2>2. more = [i \in 1 .. Len(spans) |-> F(spans[i])]
    BY <1>2, <1>5
  <2> QED
    BY <1>5, <2>1, <2>2
<1>7. Range(more) = {F(k) : k \in Range(spans)}
  BY <1>2 DEF Range
<1>8. a.out \in Seq(Findings)
  BY DEF Partial
<1>9. a.out \o more \in Seq(Findings) /\ Range(a.out \o more) = Range(a.out) \union Range(more)
  BY <1>6, <1>8, ConcatProperties, RangeConcatenation
<1>10. \A f \in Range(more) : f.action = Meta(e.rule).action
  BY <1>4, <1>7
<1>11. \A k \in Range(spans) : F(k) \in Range(more)
  BY <1>7
<1> QED
  BY <1>6, <1>9, <1>10, <1>11 DEF spans, F

LEMMA OneEntryFacts ==
  ASSUME NEW a \in Partial, NEW e \in Entry, NEW n \in Nat, NEW value \in Seq(Words),
         NEW phase \in Phases, NEW gated,
         NEW b, b = OneEntry(a, e, n, value, phase, gated)
  PROVE  /\ b \in Partial /\ Keeps(a, b)
         /\ b.failure = NoFailure => Reported(e, n, value, phase, gated, b.out)
         /\ phase = "response" /\ NoRedaction(a.out) => NoRedaction(b.out)
<1> DEFINE spans == Inspect(e, value)
           m     == Meta(e.rule)
           why   == Reason(e, value, phase)
           more  == [k \in DOMAIN spans |-> Finding(e.id, m.action, n, spans[k], spans[k], e.origin)]
           out   == a.out \o more
<1>1. /\ more \in Seq(Findings) /\ out \in Seq(Findings)
      /\ Range(out) = Range(a.out) \union Range(more)
      /\ \A k \in Range(spans) : Finding(e.id, m.action, n, k, k, e.origin) \in Range(more)
      /\ \A f \in Range(more) : f.action = m.action
  <2>1. more = [k \in DOMAIN Inspect(e, value) |->
                  Finding(e.id, Meta(e.rule).action, n, Inspect(e, value)[k],
                          Inspect(e, value)[k], e.origin)]
    OBVIOUS
  <2> HIDE DEF more
  <2> QED
    BY <2>1, EntryFindings
<1>2. e.id \in Ids /\ e.origin \in Origins
  BY DEF Entry
<1>3. CASE a.failure # NoFailure \/ Skipped(Asked(e.rule), gated)
  <2>1. b = a
    BY <1>3 DEF OneEntry
  <2> QED
    BY <1>3, <2>1, KeepsChain DEF Reported
<1>4. ASSUME NEW reason \in Reasons, b = Fails(a, e.id, e.origin, reason)
      PROVE  /\ b \in Partial /\ Keeps(a, b) /\ b.failure # NoFailure
             /\ NoRedaction(a.out) => NoRedaction(b.out)
  <2>1. b \in Partial /\ b.failure # NoFailure /\ b.out = a.out
    BY <1>2, <1>4, FailsFacts
  <2> QED
    BY <2>1 DEF Keeps
<1>5. CASE ~ (a.failure # NoFailure \/ Skipped(Asked(e.rule), gated)) /\ why # "none"
  <2>1. b = Fails(a, e.id, e.origin, why)
    BY <1>5 DEF OneEntry
  <2>2. why \in Reasons
    BY <1>5, ReasonFacts
  <2> QED
    BY <1>4, <2>1, <2>2
<1>6. CASE ~ (a.failure # NoFailure \/ Skipped(Asked(e.rule), gated)) /\ why = "none"
  <2>1. CASE ~ Covers(m.scope, phase) \/ Skipped(m.action, gated)
    <3>1. b = a
      BY <1>6, <2>1 DEF OneEntry
    <3> QED
      BY <2>1, <3>1, KeepsChain DEF Reported
  <2>2. CASE ~ (~ Covers(m.scope, phase) \/ Skipped(m.action, gated))
             /\ Len(a.out) + Len(spans) > MaxMatches
    <3>1. b = Fails(a, e.id, e.origin, "budget")
      BY <1>6, <2>2 DEF OneEntry
    <3> QED
      BY <1>4, <3>1 DEF Reasons
  <2>3. CASE ~ (~ Covers(m.scope, phase) \/ Skipped(m.action, gated))
             /\ ~ (Len(a.out) + Len(spans) > MaxMatches)
    <3>1. b = [a EXCEPT !.out = out]
      BY <1>6, <2>3 DEF OneEntry
    <3>2. phase = "response" => m.action # "redact"
      <4>1. ~ (m.scope # "request" /\ m.action = "redact")
        BY <1>6, ReasonFacts
      <4>2. Covers(m.scope, phase)
        BY <2>3
      <4> QED
        BY <4>1, <4>2 DEF Covers
    <3> HIDE DEF out, more, spans, m
    <3>3. b \in Partial /\ b.out = out /\ b.failure = a.failure
      BY <1>1, <3>1 DEF Partial
    <3>4. Keeps(a, b)
      BY <1>1, <3>3 DEF Keeps
    <3>5. Reported(e, n, value, phase, gated, b.out)
      BY <1>1, <3>3 DEF Reported, m, spans
    <3>6. phase = "response" /\ NoRedaction(a.out) => NoRedaction(b.out)
      BY <1>1, <3>2, <3>3 DEF NoRedaction
    <3> QED
      BY <3>3, <3>4, <3>5, <3>6
  <2> QED
    BY <2>1, <2>2, <2>3
<1> QED
  BY <1>3, <1>5, <1>6

Visits(f, a, entries, n, value, phase, gated) ==
  f[0] = a /\ \A i \in 1 .. Len(entries) :
                f[i] = OneEntry(f[i - 1], entries[i], n, value, phase, gated)

LEMMA AllEntriesUnfolds ==
  ASSUME NEW a \in Partial, NEW entries \in Seq(Entry), NEW n \in Nat, NEW value \in Seq(Words),
         NEW phase \in Phases, NEW gated
  PROVE  \E f \in [0 .. Len(entries) -> Partial] :
           /\ Visits(f, a, entries, n, value, phase, gated)
           /\ f[Len(entries)] = AllEntries(a, entries, n, value, phase, gated)
<1> DEFINE m         == Len(entries)
           One(x, e) == OneEntry(x, e, n, value, phase, gated)
           Body(f)   == [t \in SUBSET DOMAIN entries |->
                          IF t = {} THEN a ELSE One(f[t \ {Max(t)}], entries[Max(t)])]
           step      == [i \in 1 .. m |-> [x \in Partial |-> One(x, entries[i])]]
<1>1. m \in Nat /\ DOMAIN entries = 1 .. m /\ \A i \in 1 .. m : entries[i] \in Entry
  BY SequenceFacts
<1>2. AllEntries(a, entries, n, value, phase, gated) = (CHOOSE f : f = Body(f))[DOMAIN entries]
  BY DEF AllEntries, FoldLeft, MapThenFoldSet
<1>3. \A i \in 1 .. m, x \in Partial : One(x, entries[i]) \in Partial
  BY <1>1, OneEntryFacts
<1> HIDE DEF m, One
<1>4. step \in [1 .. m -> [Partial -> Partial]]
  BY <1>3
<1>5. \A i \in 1 .. m, x \in Partial : step[i][x] = One(x, entries[i])
  OBVIOUS
<1> HIDE DEF step
<1>6. \A f : Stages(Body(f), f, Partial, m, a, step)
  BY <1>1, <1>5, MaxOfIndices DEF Stages
<1> HIDE DEF Body
<1>7. PICK g : g = Body(g) /\ AllEntries(a, entries, n, value, phase, gated) = g[1 .. m]
  BY <1>1, <1>2, <1>4, <1>6, FoldFixes
<1>8. PICK f \in [0 .. m -> Partial] : Unfolds(f, m, a, step) /\ f[m] = g[1 .. m]
  <2>1. Stages(g, g, Partial, m, a, step)
    BY <1>6, <1>7
  <2> QED
    BY <1>1, <1>4, <2>1, FoldUnfolds
<1>9. ASSUME NEW i \in 1 .. m PROVE f[i] = One(f[i - 1], entries[i])
  <2>1. i - 1 \in 0 .. m
    BY <1>1
  <2>2. f[i - 1] \in Partial
    BY <2>1
  <2> QED
    BY <1>5, <1>8, <2>2 DEF Unfolds
<1> QED
  BY <1>7, <1>8, <1>9 DEF Unfolds, One, m, Visits

\* A chain of steps that each keep what came before.
LEMMA KeptToTheEnd ==
  ASSUME NEW n \in Nat, NEW f, \A i \in 1 .. n : Keeps(f[i - 1], f[i])
  PROVE  \A i \in 0 .. n : Keeps(f[i], f[n])
<1> DEFINE T == {i \in Nat : i <= n => Keeps(f[n - i], f[n])}
<1>1. 0 \in T
  BY KeepsChain
<1>2. ASSUME NEW i \in Nat, i \in T PROVE i + 1 \in T
  <2>1. SUFFICES ASSUME i + 1 <= n PROVE Keeps(f[n - (i + 1)], f[n])
    OBVIOUS
  <2>2. n - i \in 1 .. n /\ (n - i) - 1 = n - (i + 1) /\ Keeps(f[n - i], f[n])
    BY <1>2, <2>1
  <2>3. Keeps(f[n - (i + 1)], f[n - i])
    BY <2>2
  <2> QED
    BY <2>2, <2>3, KeepsChain
<1>3. \A i \in Nat : i \in T
  <2> HIDE DEF T
  <2> QED
    BY <1>1, <1>2, Induction
<1>4. ASSUME NEW i \in 0 .. n PROVE Keeps(f[i], f[n])
  <2>1. n - i \in T /\ n - i <= n /\ n - (n - i) = i
    BY <1>3
  <2> QED
    BY <2>1
<1> QED
  BY <1>4

LEMMA CleanToTheEnd ==
  ASSUME NEW n \in Nat, NEW f, NoRedaction(f[0].out),
         \A i \in 1 .. n : NoRedaction(f[i - 1].out) => NoRedaction(f[i].out)
  PROVE  NoRedaction(f[n].out)
<1> DEFINE T == {i \in Nat : i <= n => NoRedaction(f[i].out)}
<1>1. 0 \in T
  OBVIOUS
<1>2. ASSUME NEW i \in Nat, i \in T PROVE i + 1 \in T
  <2>1. SUFFICES ASSUME i + 1 <= n PROVE NoRedaction(f[i + 1].out)
    OBVIOUS
  <2>2. i + 1 \in 1 .. n /\ (i + 1) - 1 = i /\ NoRedaction(f[i].out)
    BY <1>2, <2>1
  <2>3. NoRedaction(f[(i + 1) - 1].out)
    BY <2>2
  <2> QED
    BY <2>2, <2>3
<1>3. n \in T
  <2> HIDE DEF T
  <2> QED
    BY <1>1, <1>2, Induction
<1> QED
  BY <1>3

LEMMA AllEntriesFacts ==
  ASSUME NEW a \in Partial, NEW entries \in Seq(Entry), NEW n \in Nat, NEW value \in Seq(Words),
         NEW phase \in Phases, NEW gated,
         NEW b, b = AllEntries(a, entries, n, value, phase, gated)
  PROVE  /\ b \in Partial /\ Keeps(a, b)
         /\ b.failure = NoFailure =>
              \A i \in DOMAIN entries : Reported(entries[i], n, value, phase, gated, b.out)
         /\ phase = "response" /\ NoRedaction(a.out) => NoRedaction(b.out)
<1> DEFINE m == Len(entries)
<1>1. m \in Nat /\ DOMAIN entries = 1 .. m /\ \A i \in 1 .. m : entries[i] \in Entry
  BY SequenceFacts
<1>2. PICK f \in [0 .. m -> Partial] :
        Visits(f, a, entries, n, value, phase, gated) /\ f[m] = b
  BY AllEntriesUnfolds
<1>3. ASSUME NEW i \in 1 .. m
      PROVE  /\ Keeps(f[i - 1], f[i])
             /\ f[i].failure = NoFailure => Reported(entries[i], n, value, phase, gated, f[i].out)
             /\ phase = "response" /\ NoRedaction(f[i - 1].out) => NoRedaction(f[i].out)
  <2> DEFINE x == f[i - 1]
             y == f[i]
             e == entries[i]
  <2>1. y = OneEntry(x, e, n, value, phase, gated)
    BY <1>2 DEF Visits
  <2>2. x \in Partial /\ e \in Entry
    <3>1. i - 1 \in 0 .. m
      BY <1>1
    <3> QED
      BY <1>1, <3>1
  <2> HIDE DEF x, y, e
  <2>3. /\ Keeps(x, y) /\ (y.failure = NoFailure => Reported(e, n, value, phase, gated, y.out))
        /\ (phase = "response" /\ NoRedaction(x.out) => NoRedaction(y.out))
    BY <2>1, <2>2, OneEntryFacts
  <2> QED
    BY <2>3 DEF x, y, e
<1> HIDE DEF m
<1>4. \A i \in 0 .. m : Keeps(f[i], f[m])
  BY <1>1, <1>3, KeptToTheEnd
<1>5. f[0] = a /\ b \in Partial /\ 0 \in 0 .. m
  <2>1. m \in 0 .. m /\ 0 \in 0 .. m
    BY <1>1
  <2> QED
    BY <1>2, <2>1 DEF Visits
<1>6. Keeps(a, b)
  BY <1>2, <1>4, <1>5
<1>7. ASSUME b.failure = NoFailure, NEW i \in 1 .. m
      PROVE  Reported(entries[i], n, value, phase, gated, b.out)
  <2>1. Keeps(f[i], b)
    <3>1. i \in 0 .. m
      BY <1>1
    <3> QED
      BY <1>2, <1>4, <3>1
  <2>2. f[i].failure = NoFailure
    BY <1>7, <2>1 DEF Keeps
  <2>3. Reported(entries[i], n, value, phase, gated, f[i].out)
    BY <1>3, <2>2
  <2> QED
    BY <1>7, <2>1, <2>3, ReportedKept
<1>8. phase = "response" /\ NoRedaction(a.out) => NoRedaction(b.out)
  <2>1. SUFFICES ASSUME phase = "response", NoRedaction(a.out) PROVE NoRedaction(f[m].out)
    BY <1>2
  <2>2. NoRedaction(f[0].out)
    BY <1>5, <2>1
  <2>3. \A i \in 1 .. m : NoRedaction(f[i - 1].out) => NoRedaction(f[i].out)
    BY <1>3, <2>1
  <2> QED
    BY <1>1, <2>2, <2>3, CleanToTheEnd
<1> QED
  BY <1>1, <1>5, <1>6, <1>7, <1>8

LEMMA GateFacts ==
  ASSUME NEW a \in Partial, NEW sensitive, NEW n \in Nat, NEW value \in Seq(Words), NEW gated,
         NEW b, b = OneGate(a, sensitive, n, value, gated)
  PROVE  /\ b \in Partial /\ Keeps(a, b) /\ (~ gated => b = a)
         /\ b.failure = NoFailure /\ gated /\ ~ Allows(sensitive, value) =>
              GateFinding(n, value) \in Range(b.out)
<1> DEFINE g   == GateFinding(n, value)
           out == Append(a.out, g)
<1>1. g \in Findings
  <2>1. Len(value) \in Nat
    BY LenProperties
  <2> QED
    BY <2>1 DEF GateFinding, Finding, Findings, Actions, Origins
<1> HIDE DEF g
<1>2. out \in Seq(Findings) /\ Range(out) = Range(a.out) \union {g}
  <2>1. a.out \in Seq(Findings)
    BY DEF Partial
  <2> QED
    BY <1>1, <2>1, AppendRange
<1>3. CASE a.failure # NoFailure \/ ~ gated \/ Allows(sensitive, value)
  <2>1. b = a
    BY <1>3 DEF OneGate
  <2> QED
    BY <1>3, <2>1, KeepsChain
<1>4. CASE ~ (a.failure # NoFailure \/ ~ gated \/ Allows(sensitive, value)) /\ Len(a.out) >= MaxMatches
  <2>1. b = Fails(a, "sensitive_key", "remote_pack", "budget")
    BY <1>4 DEF OneGate
  <2>2. "sensitive_key" \in Ids \union {"sensitive_key"} /\ "remote_pack" \in Origins
        /\ "budget" \in Reasons
    BY DEF Origins, Reasons
  <2>3. b \in Partial /\ b.failure # NoFailure
    BY <2>1, <2>2, FailsFacts
  <2> QED
    BY <1>4, <2>3 DEF Keeps
<1>5. CASE ~ (a.failure # NoFailure \/ ~ gated \/ Allows(sensitive, value)) /\ ~ (Len(a.out) >= MaxMatches)
  <2>1. b = [a EXCEPT !.out = out]
    BY <1>5 DEF OneGate, g
  <2> HIDE DEF out
  <2>2. b \in Partial /\ b.out = out /\ b.failure = a.failure
    BY <1>2, <2>1 DEF Partial
  <2> QED
    BY <1>2, <1>5, <2>2 DEF Keeps, g
<1> QED
  BY <1>3, <1>4, <1>5

\* What a leaf has to contribute.
GatedAt(from, leaves, k, phase) == phase = "request" /\ Gates(from.sensitive, leaves[k])
LeafReported(from, leaves, k, phase, out) ==
  leaves[k].value # <<>> =>
    /\ \A i \in DOMAIN from.entries :
         Reported(from.entries[i], k, leaves[k].value, phase, GatedAt(from, leaves, k, phase), out)
    /\ GatedAt(from, leaves, k, phase) /\ ~ Allows(from.sensitive, leaves[k].value) =>
         GateFinding(k, leaves[k].value) \in Range(out)

LEMMA LeafReportedKept ==
  ASSUME NEW from, NEW leaves, NEW k, NEW phase, NEW a, NEW b,
         Keeps(a, b), b.failure = NoFailure, LeafReported(from, leaves, k, phase, a.out)
  PROVE  LeafReported(from, leaves, k, phase, b.out)
<1>1. SUFFICES ASSUME leaves[k].value # <<>>
               PROVE  LeafReported(from, leaves, k, phase, b.out)
  BY DEF LeafReported
<1>2. ASSUME NEW i \in DOMAIN from.entries
      PROVE  Reported(from.entries[i], k, leaves[k].value, phase, GatedAt(from, leaves, k, phase), b.out)
  BY <1>1, ReportedKept DEF LeafReported
<1>3. Range(a.out) \subseteq Range(b.out)
  BY DEF Keeps
<1> QED
  BY <1>1, <1>2, <1>3 DEF LeafReported

LEMMA LeafValues ==
  ASSUME NEW leaves \in Bodies
  PROVE  /\ Len(leaves) \in Nat /\ DOMAIN leaves = 1 .. Len(leaves)
         /\ \A k \in DOMAIN leaves : leaves[k].value \in Seq(Words)
<1>1. leaves \in Seq(Range(leaves)) /\ \A leaf \in Range(leaves) : leaf.value \in Seq(Words)
  BY EngineOK
<1>2. Len(leaves) \in Nat /\ DOMAIN leaves = 1 .. Len(leaves)
  BY <1>1, LenProperties
<1> QED
  BY <1>1, <1>2 DEF Range

LEMMA OneLeafFacts ==
  ASSUME NEW a \in Partial, NEW from, from.entries \in Seq(Entry), NEW leaves \in Bodies,
         NEW k \in DOMAIN leaves, NEW phase \in Phases,
         NEW b, b = OneLeaf(a, from, leaves, k, phase)
  PROVE  /\ b \in Partial /\ Keeps(a, b)
         /\ b.failure = NoFailure => LeafReported(from, leaves, k, phase, b.out)
         /\ phase = "response" /\ NoRedaction(a.out) => NoRedaction(b.out)
<1> DEFINE value   == leaves[k].value
           gated   == GatedAt(from, leaves, k, phase)
           entries == from.entries
           all     == AllEntries(a, entries, k, value, phase, gated)
<1>1. value \in Seq(Words) /\ k \in Nat
  BY LeafValues
<1>2. CASE value = <<>>
  <2>1. b = a
    BY <1>2 DEF OneLeaf
  <2> QED
    BY <1>2, <2>1, KeepsChain DEF LeafReported
<1>3. CASE value # <<>>
  <2>1. b = OneGate(all, from.sensitive, k, value, gated)
    BY <1>3 DEF OneLeaf, GatedAt
  <2> HIDE DEF value, gated, entries
  <2>2. /\ all \in Partial /\ Keeps(a, all)
        /\ all.failure = NoFailure =>
             \A i \in DOMAIN entries : Reported(entries[i], k, value, phase, gated, all.out)
        /\ phase = "response" /\ NoRedaction(a.out) => NoRedaction(all.out)
    <3>1. entries \in Seq(Entry)
      BY DEF entries
    <3>2. all = AllEntries(a, entries, k, value, phase, gated)
      OBVIOUS
    <3> HIDE DEF all
    <3> QED
      BY <1>1, <3>1, <3>2, AllEntriesFacts
  <2> HIDE DEF all
  <2>3. /\ b \in Partial /\ Keeps(all, b) /\ (~ gated => b = all)
        /\ b.failure = NoFailure /\ gated /\ ~ Allows(from.sensitive, value) =>
             GateFinding(k, value) \in Range(b.out)
    BY <1>1, <2>1, <2>2, GateFacts
  <2>4. Keeps(a, b)
    BY <2>2, <2>3, KeepsChain
  <2>5. ASSUME b.failure = NoFailure PROVE LeafReported(from, leaves, k, phase, b.out)
    <3>1. all.failure = NoFailure
      BY <2>3, <2>5 DEF Keeps
    <3>2. ASSUME NEW i \in DOMAIN entries PROVE Reported(entries[i], k, value, phase, gated, b.out)
      <4>1. Reported(entries[i], k, value, phase, gated, all.out)
        BY <2>2, <3>1
      <4> QED
        BY <2>3, <2>5, <4>1, ReportedKept
    <3> QED
      BY <2>3, <2>5, <3>2 DEF LeafReported, value, gated, entries
  <2>6. phase = "response" => ~ gated
    BY DEF gated, GatedAt
  <2> QED
    BY <2>2, <2>3, <2>4, <2>5, <2>6
<1> QED
  BY <1>2, <1>3

Nothing == [out |-> <<>>, failure |-> NoFailure]
Collects(f, from, leaves, phase) ==
  f[0] = Nothing /\ \A k \in 1 .. Len(leaves) : f[k] = OneLeaf(f[k - 1], from, leaves, k, phase)

LEMMA NothingFacts == Nothing \in Partial /\ NoRedaction(Nothing.out)
<1>1. <<>> \in Seq(Findings) /\ Range(<<>>) = {}
  BY DEF Range
<1> QED
  BY <1>1 DEF Nothing, Partial, Failures, NoRedaction

LEMMA AllLeavesUnfolds ==
  ASSUME NEW from, from.entries \in Seq(Entry), NEW leaves \in Bodies, NEW phase \in Phases
  PROVE  \E f \in [0 .. Len(leaves) -> Partial] :
           Collects(f, from, leaves, phase) /\ f[Len(leaves)] = AllLeaves(from, leaves, phase)
<1> DEFINE m         == Len(leaves)
           s         == Positions(leaves)
           One(x, k) == OneLeaf(x, from, leaves, k, phase)
           Body(f)   == [t \in SUBSET DOMAIN s |->
                          IF t = {} THEN Nothing ELSE One(f[t \ {Max(t)}], s[Max(t)])]
           step      == [i \in 1 .. m |-> [x \in Partial |-> One(x, s[i])]]
<1>1. m \in Nat /\ DOMAIN s = 1 .. m /\ \A i \in 1 .. m : s[i] = i /\ i \in DOMAIN leaves
  BY LeafValues DEF Positions
<1>2. AllLeaves(from, leaves, phase) = (CHOOSE f : f = Body(f))[DOMAIN s]
  BY DEF AllLeaves, FoldLeft, MapThenFoldSet, Nothing
<1>3. \A i \in 1 .. m, x \in Partial : One(x, s[i]) \in Partial
  BY <1>1, OneLeafFacts
<1> HIDE DEF m, s, One
<1>4. step \in [1 .. m -> [Partial -> Partial]]
  BY <1>3
<1>5. \A i \in 1 .. m, x \in Partial : step[i][x] = One(x, s[i])
  OBVIOUS
<1> HIDE DEF step
<1>6. \A f : Stages(Body(f), f, Partial, m, Nothing, step)
  BY <1>1, <1>5, MaxOfIndices DEF Stages
<1> HIDE DEF Body
<1>7. PICK g : g = Body(g) /\ AllLeaves(from, leaves, phase) = g[1 .. m]
  <2>1. Nothing \in Partial /\ m \in Nat
    BY <1>1, NothingFacts
  <2>2. PICK h : \A b : Stages(b, h, Partial, m, Nothing, step) => b = h
    BY <1>4, <2>1, FoldFixes
  <2>3. Body(h) = h
    BY <1>6, <2>2
  <2> QED
    BY <1>1, <1>2, <2>3
<1>8. PICK f \in [0 .. m -> Partial] : Unfolds(f, m, Nothing, step) /\ f[m] = g[1 .. m]
  <2>1. Stages(g, g, Partial, m, Nothing, step)
    BY <1>6, <1>7
  <2>2. ASSUME NEW base \in Partial, Stages(g, g, Partial, m, base, step)
        PROVE  \E f \in [0 .. m -> Partial] : Unfolds(f, m, base, step) /\ f[m] = g[1 .. m]
    BY <1>1, <1>4, <2>2, FoldUnfolds
  <2>3. Nothing \in Partial
    BY NothingFacts
  <2> QED
    BY <2>1, <2>2, <2>3
<1>9. ASSUME NEW i \in 1 .. m PROVE f[i] = One(f[i - 1], i)
  <2>1. i - 1 \in 0 .. m
    BY <1>1
  <2>2. f[i - 1] \in Partial /\ s[i] = i
    BY <1>1, <2>1
  <2> QED
    BY <1>5, <1>8, <2>2 DEF Unfolds
<1> QED
  BY <1>7, <1>8, <1>9 DEF Unfolds, One, m, Collects

LEMMA AllLeavesFacts ==
  ASSUME NEW from, from.entries \in Seq(Entry), NEW leaves \in Bodies, NEW phase \in Phases,
         NEW b, b = AllLeaves(from, leaves, phase)
  PROVE  /\ b \in Partial
         /\ b.failure = NoFailure =>
              \A k \in DOMAIN leaves : LeafReported(from, leaves, k, phase, b.out)
         /\ phase = "response" => NoRedaction(b.out)
<1> DEFINE m == Len(leaves)
<1>1. m \in Nat /\ DOMAIN leaves = 1 .. m
  BY LeafValues
<1>2. PICK f \in [0 .. m -> Partial] : Collects(f, from, leaves, phase) /\ f[m] = b
  BY AllLeavesUnfolds
<1>3. ASSUME NEW k \in 1 .. m
      PROVE  /\ Keeps(f[k - 1], f[k])
             /\ f[k].failure = NoFailure => LeafReported(from, leaves, k, phase, f[k].out)
             /\ phase = "response" /\ NoRedaction(f[k - 1].out) => NoRedaction(f[k].out)
  <2> DEFINE x == f[k - 1]
             y == f[k]
  <2>1. y = OneLeaf(x, from, leaves, k, phase)
    BY <1>2 DEF Collects
  <2>2. x \in Partial /\ k \in DOMAIN leaves
    <3>1. k - 1 \in 0 .. m
      BY <1>1
    <3> QED
      BY <1>1, <3>1
  <2> HIDE DEF x, y
  <2>3. /\ Keeps(x, y) /\ (y.failure = NoFailure => LeafReported(from, leaves, k, phase, y.out))
        /\ (phase = "response" /\ NoRedaction(x.out) => NoRedaction(y.out))
    BY <2>1, <2>2, OneLeafFacts
  <2> QED
    BY <2>3 DEF x, y
<1> HIDE DEF m
<1>4. \A k \in 0 .. m : Keeps(f[k], f[m])
  BY <1>1, <1>3, KeptToTheEnd
<1>5. f[0] = Nothing /\ b \in Partial
  <2>1. m \in 0 .. m
    BY <1>1
  <2> QED
    BY <1>2, <2>1 DEF Collects
<1>6. ASSUME b.failure = NoFailure, NEW k \in 1 .. m
      PROVE  LeafReported(from, leaves, k, phase, b.out)
  <2>1. Keeps(f[k], b)
    <3>1. k \in 0 .. m
      BY <1>1
    <3> QED
      BY <1>2, <1>4, <3>1
  <2>2. f[k].failure = NoFailure
    BY <1>6, <2>1 DEF Keeps
  <2>3. LeafReported(from, leaves, k, phase, f[k].out)
    BY <1>3, <2>2
  <2> QED
    BY <1>6, <2>1, <2>3, LeafReportedKept
<1>7. phase = "response" => NoRedaction(b.out)
  <2>1. SUFFICES ASSUME phase = "response" PROVE NoRedaction(f[m].out)
    BY <1>2
  <2>2. NoRedaction(f[0].out)
    BY <1>5, NothingFacts
  <2>3. \A k \in 1 .. m : NoRedaction(f[k - 1].out) => NoRedaction(f[k].out)
    BY <1>3, <2>1
  <2> QED
    BY <1>1, <2>2, <2>3, CleanToTheEnd
<1> QED
  BY <1>1, <1>5, <1>6, <1>7

LEMMA CollectFacts ==
  ASSUME NEW from, from.entries \in Seq(Entry), NEW leaves \in Bodies, NEW phase \in Phases,
         NEW got, got = Collect(from, leaves, phase)
  PROVE  /\ got \in Partial
         /\ got.failure = NoFailure =>
              \A k \in DOMAIN leaves : LeafReported(from, leaves, k, phase, got.out)
         /\ phase = "response" => NoRedaction(got.out)
<1> DEFINE all == AllLeaves(from, leaves, phase)
           out == IF all.failure = NoFailure THEN SortedBy(all.out, BySpan) ELSE <<>>
<1>1. /\ all \in Partial
      /\ all.failure = NoFailure =>
           \A k \in DOMAIN leaves : LeafReported(from, leaves, k, phase, all.out)
      /\ phase = "response" => NoRedaction(all.out)
  BY AllLeavesFacts
<1>2. got = [all EXCEPT !.out = out]
  BY DEF Collect
<1>3. SortedBy(all.out, BySpan) \in Seq(Findings) /\ Range(SortedBy(all.out, BySpan)) = Range(all.out)
  <2>1. all.out \in Seq(Findings)
    BY <1>1 DEF Partial
  <2> QED
    BY <2>1, SpanSorted
<1>4. <<>> \in Seq(Findings) /\ Range(<<>>) = {}
  BY DEF Range
<1>5. /\ out \in Seq(Findings) /\ Range(out) \subseteq Range(all.out)
      /\ all.failure = NoFailure => Range(out) = Range(all.out)
  BY <1>3, <1>4
<1> HIDE DEF all, out
<1>6. got \in Partial /\ got.out = out /\ got.failure = all.failure
  BY <1>1, <1>2, <1>5 DEF Partial
<1>7. ASSUME got.failure = NoFailure, NEW k \in DOMAIN leaves
      PROVE  LeafReported(from, leaves, k, phase, got.out)
  <2>1. LeafReported(from, leaves, k, phase, all.out) /\ Keeps(all, got)
    BY <1>1, <1>5, <1>6, <1>7 DEF Keeps
  <2> QED
    BY <1>7, <2>1, LeafReportedKept
<1>8. phase = "response" => NoRedaction(got.out)
  BY <1>1, <1>5, <1>6 DEF NoRedaction
<1> QED
  BY <1>6, <1>7, <1>8

-----------------------------------------------------------------------------
(* The policy. *)

LEMMA HighestFacts ==
  ASSUME NEW out \in Seq(Findings)
  PROVE  /\ Highest(out) \in Actions
         /\ \A f \in Range(out) : f.action \in Actions /\ Rank[f.action] <= Rank[Highest(out)]
<1> DEFINE ranks == {0} \union {Rank[out[i].action] : i \in DOMAIN out}
<1>1. \A f \in Range(out) : f \in Findings /\ f.action \in Actions
  <2>1. Range(out) \subseteq Findings
    BY SequenceFacts
  <2>2. \A f \in Findings : f.action \in Actions
    BY DEF Findings
  <2> QED
    BY <2>1, <2>2
<1>2. \A i \in DOMAIN out : out[i] \in Range(out)
  BY DEF Range
<1>3. \A a \in Actions : Rank[a] \in 0 .. 3
  BY DEF Rank, Actions
<1>4. ranks \subseteq 0 .. 3 /\ ranks # {}
  BY <1>1, <1>2, <1>3
<1>5. \A f \in Range(out) : Rank[f.action] \in ranks
  BY DEF Range
<1>6. Highest(out) = CHOOSE a \in Actions : Rank[a] \in ranks /\ \A r \in ranks : r <= Rank[a]
  BY DEF Highest
<1> HIDE DEF ranks
<1>7. PICK top \in ranks : \A r \in ranks : top >= r
  BY <1>4, MaxUpTo
<1>8. \E a \in Actions : Rank[a] = top
  <2>1. top \in 0 .. 3
    BY <1>4
  <2>2. /\ Rank["allow"] = 0 /\ Rank["warn"] = 1 /\ Rank["redact"] = 2 /\ Rank["block"] = 3
        /\ {"allow", "warn", "redact", "block"} \subseteq Actions
    BY DEF Rank, Actions
  <2> QED
    BY <2>1, <2>2
<1>9. \E a \in Actions : Rank[a] \in ranks /\ \A r \in ranks : r <= Rank[a]
  <2>1. PICK a \in Actions : Rank[a] = top
    BY <1>8
  <2>2. \A r \in ranks : r <= top
    BY <1>4, <1>7
  <2> QED
    BY <2>1, <2>2
<1>10. Highest(out) \in Actions /\ \A r \in ranks : r <= Rank[Highest(out)]
  BY <1>6, <1>9
<1> QED
  BY <1>1, <1>5, <1>10

\* What outranks everything found is the action.
LEMMA HighestIs ==
  ASSUME NEW out \in Seq(Findings), NEW f \in Range(out)
  PROVE  /\ f.action = "block" => Highest(out) = "block"
         /\ f.action = "redact" => Highest(out) \in {"redact", "block"}
<1>1. Highest(out) \in Actions /\ Rank[f.action] <= Rank[Highest(out)]
  BY HighestFacts
<1>2. /\ Rank["allow"] = 0 /\ Rank["warn"] = 1 /\ Rank["redact"] = 2 /\ Rank["block"] = 3
      /\ \A a \in Actions : a \in {"allow", "warn", "redact", "block"}
  BY DEF Rank, Actions
<1> QED
  BY <1>1, <1>2

LEMMA DecisionFacts ==
  ASSUME policy.entries \in Seq(Entry), NEW leaves \in Bodies, NEW phase \in Phases,
         NEW d, d = Decision(leaves, phase)
  PROVE  /\ d.of = "decide" /\ d.leaves = leaves /\ d.phase = phase
         /\ d.action \in Actions /\ d.refusal \in Failures
         /\ phase = "response" => NoRedaction(d.findings)
         /\ d.refusal # NoFailure => d.action = "block"
         /\ d.refusal = NoFailure =>
              \E out \in Seq(Findings) :
                /\ d.action = Highest(out)
                /\ \A k \in DOMAIN leaves : LeafReported(policy, leaves, k, phase, out)
                /\ phase = "request" /\ d.action = "redact" =>
                     Range(d.substitutions) = {f \in Range(out) : f.action = "redact"}
<1> DEFINE got     == Collect(policy, leaves, phase)
           out     == got.out
           action  == IF got.failure = NoFailure THEN Highest(out) ELSE "block"
           backing == Among(out, {f \in Range(out) : f.action = action})
<1>1. /\ d.of = "decide" /\ d.leaves = leaves /\ d.phase = phase /\ d.action = action
      /\ d.findings = backing /\ d.refusal = got.failure
      /\ d.substitutions = IF phase = "request" /\ action = "redact" THEN backing ELSE <<>>
  BY DEF Decision
<1>2. /\ got \in Partial
      /\ got.failure = NoFailure =>
           \A k \in DOMAIN leaves : LeafReported(policy, leaves, k, phase, got.out)
      /\ phase = "response" => NoRedaction(got.out)
  BY CollectFacts
<1>3. out \in Seq(Findings) /\ got.failure \in Failures
  BY <1>2 DEF Partial
<1> HIDE DEF got
<1>4. phase = "response" => NoRedaction(out)
  BY <1>2
<1>5. got.failure = NoFailure => \A k \in DOMAIN leaves : LeafReported(policy, leaves, k, phase, out)
  BY <1>2
<1> HIDE DEF out
<1>6. action \in Actions
  BY <1>3, HighestFacts DEF Actions
<1>7. got.failure = NoFailure => action = Highest(out)
  OBVIOUS
<1>8. got.failure # NoFailure => action = "block"
  OBVIOUS
<1> HIDE DEF action
<1>9. Range(backing) = {f \in Range(out) : f.action = action}
  <2> DEFINE T == {f \in Range(out) : f.action = action}
  <2>1. Range(Among(out, T)) = Range(out) \cap T
    <3> HIDE DEF T
    <3> QED
      BY <1>3, AmongFacts
  <2> QED
    BY <2>1
<1> HIDE DEF backing
<1>10. phase = "response" => NoRedaction(d.findings)
  BY <1>1, <1>4, <1>9 DEF NoRedaction
<1>11. phase = "request" /\ d.action = "redact" =>
         Range(d.substitutions) = {f \in Range(out) : f.action = "redact"}
  BY <1>1, <1>9
<1> QED
  BY <1>1, <1>3, <1>5, <1>6, <1>7, <1>8, <1>10, <1>11

\* A block rule that hits is found, and outranks the rest.
LEMMA DecisionBlocks ==
  ASSUME policy.entries \in Seq(Entry), NEW leaves \in Bodies, NEW phase \in Phases,
         NEW d, d = Decision(leaves, phase), Outcome(d) \in {"allow", "warn"},
         NEW i \in DOMAIN policy.entries, NEW n \in DOMAIN leaves,
         policy.entries[i].rule.action = "block"
  PROVE  ~ Hits(policy.entries[i], leaves[n], phase)
<1> DEFINE e     == policy.entries[i]
           value == leaves[n].value
           gated == GatedAt(policy, leaves, n, phase)
<1>1. d.action # "block" /\ d.refusal = NoFailure
  BY DecisionFacts DEF Outcome
<1>2. PICK out \in Seq(Findings) :
        d.action = Highest(out) /\ \A k \in DOMAIN leaves : LeafReported(policy, leaves, k, phase, out)
  BY <1>1, DecisionFacts
<1>3. SUFFICES ASSUME Hits(e, leaves[n], phase) PROVE FALSE
  OBVIOUS
<1>4. e.rule.turn = "none" /\ Covers(e.rule.scope, phase) /\ Inspect(e, value) # <<>>
  BY <1>3 DEF Hits
<1>5. e \in Entry
  BY SequenceFacts
<1>6. value \in Seq(Words)
  BY LeafValues
<1>7. PICK k \in Range(Inspect(e, value)) : TRUE
  <2>1. Inspect(e, value) \in Seq(Nat)
    BY <1>6, InspectFacts
  <2>2. \A s \in Seq(Nat) : s # <<>> => s[1] \in Range(s)
    BY DEF Range
  <2> QED
    BY <1>4, <2>1, <2>2
<1>8. value # <<>>
  <2>1. k \in DOMAIN value
    BY <1>6, <1>7, InspectFacts
  <2> QED
    BY <2>1
<1>9. Reported(e, n, value, phase, gated, out)
  BY <1>2, <1>8 DEF LeafReported
<1>10. Meta(e.rule).action = "block" /\ Asked(e.rule) = "block" /\ Meta(e.rule).scope = e.rule.scope
  BY <1>4, <1>5, MetaFacts
<1> HIDE DEF e, value, gated
<1>11. Finding(e.id, "block", n, k, k, e.origin) \in Range(out)
  BY <1>4, <1>7, <1>9, <1>10 DEF Reported, Skipped
<1>12. Finding(e.id, "block", n, k, k, e.origin).action = "block"
  BY DEF Finding
<1> QED
  BY <1>1, <1>2, <1>11, <1>12, HighestIs

\* What a built-in detector finds is substituted.
Substituted(e, sensitive, n, leaf, substitutions) ==
  e.origin = "builtin" /\ ~ (Gates(sensitive, leaf) /\ Allows(sensitive, leaf.value)) =>
    \A k \in Range(Spans(e.rule, leaf.value)) :
      \E s \in Range(substitutions) : s.leaf = n /\ s.first <= k /\ k <= s.last

LEMMA DecisionSubstitutes ==
  ASSUME policy.entries \in Seq(Entry), NEW leaves \in Bodies, NEW phase, phase = "request",
         NEW d, d = Decision(leaves, phase), Outcome(d) = "allow",
         NEW i \in DOMAIN policy.entries, NEW n \in DOMAIN leaves
  PROVE  Substituted(policy.entries[i], policy.sensitive, n, leaves[n], d.substitutions)
<1>1. SUFFICES ASSUME policy.entries[i].origin = "builtin",
                      ~ (Gates(policy.sensitive, leaves[n])
                           /\ Allows(policy.sensitive, leaves[n].value)),
                      NEW k \in Range(Spans(policy.entries[i].rule, leaves[n].value))
               PROVE  \E s \in Range(d.substitutions) : s.leaf = n /\ s.first <= k /\ k <= s.last
  BY DEF Substituted
<1>2. d = Decision(leaves, "request")
  OBVIOUS
<1> DEFINE e     == policy.entries[i]
           value == leaves[n].value
           gated == GatedAt(policy, leaves, n, "request")
<1>3. "request" \in Phases
  BY DEF Phases
<1>4. d.action # "block" /\ d.refusal = NoFailure
  BY <1>3, DecisionFacts DEF Outcome
<1>5. PICK out \in Seq(Findings) :
        /\ d.action = Highest(out)
        /\ \A m \in DOMAIN leaves : LeafReported(policy, leaves, m, "request", out)
        /\ d.action = "redact" => Range(d.substitutions) = {f \in Range(out) : f.action = "redact"}
  BY <1>3, <1>4, DecisionFacts
<1>6. e \in Entry /\ value \in Seq(Words)
  BY SequenceFacts, LeafValues
<1>7. e.allow = {} /\ e.rule.allow = {} /\ e.rule.turn = "none" /\ e.rule.scope = "request"
      /\ e.rule.action = "redact"
  BY <1>1, <1>6 DEF Entry, BuiltinRules, Builtin
<1>8. Meta(e.rule).action = "redact" /\ Asked(e.rule) = "redact" /\ Meta(e.rule).scope = "request"
  BY <1>6, <1>7, MetaFacts
<1>9. k \in Range(Inspect(e, value)) /\ k \in DOMAIN value
  BY <1>1, <1>6, <1>7, InspectFacts
<1>10. Len(value) \in Nat /\ DOMAIN value = 1 .. Len(value) /\ value # <<>>
  BY <1>6, <1>9, LenProperties
<1>11. LeafReported(policy, leaves, n, "request", out)
  BY <1>5
<1>12. \E f \in Range(out) : f.action = "redact" /\ f.leaf = n /\ f.first <= k /\ k <= f.last
  <2>1. CASE gated
    <3>1. GateFinding(n, value) \in Range(out)
      BY <1>1, <1>10, <1>11, <2>1 DEF LeafReported, GatedAt
    <3> DEFINE f == GateFinding(n, value)
    <3>2. f.action = "redact" /\ f.leaf = n /\ f.first = 1 /\ f.last = Len(value)
      BY DEF GateFinding, Finding
    <3> HIDE DEF f, value
    <3>3. f.first <= k /\ k <= f.last
      BY <1>9, <1>10, <3>2
    <3> QED
      BY <3>1, <3>2, <3>3 DEF f
  <2>2. CASE ~ gated
    <3> DEFINE f == Finding(e.id, "redact", n, k, k, e.origin)
    <3>1. Reported(e, n, value, "request", gated, out)
      BY <1>10, <1>11 DEF LeafReported
    <3>2. Covers("request", "request")
      BY DEF Covers
    <3>3. f \in Range(out)
      <4> HIDE DEF e, value, gated
      <4> QED
        BY <1>8, <1>9, <2>2, <3>1, <3>2 DEF Reported, Skipped
    <3>4. f.action = "redact" /\ f.leaf = n /\ f.first = k /\ f.last = k
      BY DEF Finding
    <3> HIDE DEF f
    <3>5. k \in Nat
      BY <1>9, <1>10
    <3>6. k <= k
      BY <3>5
    <3> QED
      BY <3>3, <3>4, <3>6
  <2> QED
    BY <2>1, <2>2
<1>13. PICK f \in Range(out) : f.action = "redact" /\ f.leaf = n /\ f.first <= k /\ k <= f.last
  BY <1>12
<1>14. d.action = "redact"
  <2>1. Highest(out) \in {"redact", "block"}
    BY <1>13, HighestIs
  <2> QED
    BY <1>4, <1>5, <2>1
<1> QED
  BY <1>5, <1>13, <1>14

-----------------------------------------------------------------------------
(* The answers. *)

AnswerTyped ==
  /\ answer.of \in {"none", "evaluate", "decide"} /\ answer.action \in Actions
  /\ answer.refusal.reason \in Reasons \union {"none"}

AnswerInv == AnswerTyped /\ ResponseNeverRedacted /\ BlockWins /\ PackNeverWeakens

LEMMA NoAnswerFacts == answer = NoAnswer => AnswerInv
<1> SUFFICES ASSUME answer = NoAnswer PROVE AnswerInv
  OBVIOUS
<1>1. answer.of = "none" /\ answer.action = "allow" /\ answer.phase = "none"
      /\ answer.refusal.reason = "none"
  BY DEF NoAnswer, NoFailure
<1>2. AnswerTyped
  BY <1>1 DEF AnswerTyped, Actions
<1> QED
  BY <1>1, <1>2 DEF AnswerInv, ResponseNeverRedacted, BlockWins, PackNeverWeakens

LEMMA FailureReasons == \A f \in Failures : f.reason \in Reasons \union {"none"}
BY DEF Failures, NoFailure

LEMMA EvaluateAnswers ==
  ASSUME AssemblyInv, NEW leaves \in Bodies, NEW phase \in Phases, Evaluate(leaves, phase)
  PROVE  AnswerInv'
<1> DEFINE got == Collect(registry, leaves, phase)
<1>1. registry.entries \in Seq(Entry)
  BY DEF AssemblyInv, RegistryOK
<1>2. got \in Partial /\ (phase = "response" => NoRedaction(got.out))
  BY <1>1, CollectFacts
<1>3. answer' = [NoAnswer EXCEPT !.of = "evaluate", !.leaves = leaves, !.phase = phase,
                                 !.findings = got.out, !.refusal = got.failure]
  BY DEF Evaluate
<1> HIDE DEF got
<1>4. /\ answer'.of = "evaluate" /\ answer'.phase = phase /\ answer'.findings = got.out
      /\ answer'.refusal = got.failure /\ answer'.action = "allow"
  BY <1>3 DEF NoAnswer
<1>5. AnswerTyped'
  <2>1. got.failure \in Failures
    BY <1>2 DEF Partial
  <2> QED
    BY <1>4, <2>1, FailureReasons DEF AnswerTyped, Actions
<1>6. ResponseNeverRedacted'
  BY <1>2, <1>4 DEF ResponseNeverRedacted, NoRedaction, Range
<1>7. BlockWins' /\ PackNeverWeakens'
  BY <1>4 DEF BlockWins, PackNeverWeakens
<1> QED
  BY <1>5, <1>6, <1>7 DEF AnswerInv

LEMMA DecideAnswers ==
  ASSUME AssemblyInv, NEW leaves \in Bodies, NEW phase \in Phases, Decide(leaves, phase)
  PROVE  AnswerInv'
<1> DEFINE d == Decision(leaves, phase)
<1>1. policy.entries \in Seq(Entry) /\ policy' = policy /\ answer' = d
  BY DEF AssemblyInv, Decide
<1>2. /\ d.of = "decide" /\ d.leaves = leaves /\ d.phase = phase
      /\ d.action \in Actions /\ d.refusal \in Failures
      /\ phase = "response" => NoRedaction(d.findings)
  BY <1>1, DecisionFacts
<1>3. ASSUME Outcome(d) \in {"allow", "warn"}, NEW i \in DOMAIN policy.entries,
             NEW n \in DOMAIN leaves, policy.entries[i].rule.action = "block"
      PROVE  ~ Hits(policy.entries[i], leaves[n], phase)
  BY <1>1, <1>3, DecisionBlocks
<1>4. ASSUME phase = "request", Outcome(d) = "allow", NEW i \in DOMAIN policy.entries,
             NEW n \in DOMAIN leaves
      PROVE  Substituted(policy.entries[i], policy.sensitive, n, leaves[n], d.substitutions)
  BY <1>1, <1>4, DecisionSubstitutes
<1> HIDE DEF d
<1>5. AnswerTyped'
  BY <1>1, <1>2, FailureReasons DEF AnswerTyped
<1>6. ResponseNeverRedacted'
  BY <1>1, <1>2 DEF ResponseNeverRedacted, NoRedaction, Range
<1>7. BlockWins'
  BY <1>1, <1>2, <1>3 DEF BlockWins
<1>8. PackNeverWeakens'
  <2>1. CASE ~ (phase = "request" /\ Outcome(d) = "allow")
    BY <1>1, <1>2, <2>1 DEF PackNeverWeakens
  <2>2. CASE phase = "request" /\ Outcome(d) = "allow"
    <3>1. \A i \in DOMAIN policy'.entries, n \in DOMAIN answer'.leaves :
            Substituted(policy'.entries[i], policy'.sensitive, n, answer'.leaves[n],
                        answer'.substitutions)
      BY <1>1, <1>2, <1>4, <2>2
    <3> QED
      BY <3>1 DEF PackNeverWeakens, Substituted
  <2> QED
    BY <2>1, <2>2
<1> QED
  BY <1>5, <1>6, <1>7, <1>8 DEF AnswerInv

LEMMA AnswersStay == AssemblyInv /\ AnswerInv /\ [Next]_vars => AnswerInv'
<1> SUFFICES ASSUME AssemblyInv, AnswerInv, [Next]_vars PROVE AnswerInv'
  OBVIOUS
<1>1. ASSUME answer' = answer, policy' = policy PROVE AnswerInv'
  BY <1>1 DEF AnswerInv, AnswerTyped, ResponseNeverRedacted, BlockWins, PackNeverWeakens
<1>2. ASSUME answer' = NoAnswer PROVE AnswerInv'
  <2>1. answer'.of = "none" /\ answer'.action = "allow" /\ answer'.phase = "none"
        /\ answer'.refusal.reason = "none"
    BY <1>2 DEF NoAnswer, NoFailure
  <2>2. AnswerTyped'
    BY <2>1 DEF AnswerTyped, Actions
  <2> QED
    BY <2>1, <2>2 DEF AnswerInv, ResponseNeverRedacted, BlockWins, PackNeverWeakens
<1>3. ASSUME NEW on \in SUBSET Detectors, RegisterBuiltin(on) PROVE AnswerInv'
  BY <1>1, <1>3 DEF RegisterBuiltin
<1>4. ASSUME NEW d \in Documents, LoadCachedPack(d) \/ RegisterDocument(d) PROVE AnswerInv'
  BY <1>2, <1>4 DEF LoadCachedPack, RegisterDocument
<1>5. CASE NewPolicy
  BY <1>2, <1>5 DEF NewPolicy
<1>6. ASSUME NEW batch \in Batches, Register(batch) PROVE AnswerInv'
  BY <1>2, <1>6 DEF Register
<1>7. ASSUME NEW leaves \in Bodies, NEW phase \in Phases,
             Evaluate(leaves, phase) \/ Decide(leaves, phase)
      PROVE  AnswerInv'
  BY <1>7, EvaluateAnswers, DecideAnswers
<1>8. CASE UNCHANGED vars
  BY <1>1, <1>8 DEF vars
<1> QED
  BY <1>3, <1>4, <1>5, <1>6, <1>7, <1>8 DEF Next

LEMMA AlwaysAnswers == Spec => [](AssemblyInv /\ AnswerInv)
<1>1. Init => AssemblyInv /\ AnswerInv
  BY AssemblyStarts, NoAnswerFacts DEF Init
<1> QED
  BY <1>1, AssemblyStays, AnswersStay, PTL DEF Spec

\* The registry and the policy hold well-formed rules, once each, in the order of
\* evaluation, whatever documents and batches arrive and are refused.
THEOREM EngineTypeCorrect == Spec => []TypeOK
<1>1. AssemblyInv /\ AnswerInv => TypeOK
  <2> SUFFICES ASSUME AssemblyInv, AnswerInv PROVE TypeOK
    OBVIOUS
  <2>1. ASSUME NEW entries \in Seq(Entry), Ascending(entries) PROVE EntriesOK(entries)
    <3>1. \A i \in DOMAIN entries : entries[i] \in Entry
      BY SequenceFacts
    <3> QED
      BY <2>1, <3>1 DEF EntriesOK, Entry, Ascending, Follows
  <2>2. EntriesOK(registry.entries) /\ EntriesOK(policy.entries)
    BY <2>1 DEF AssemblyInv, RegistryOK
  <2> QED
    BY <2>2 DEF TypeOK, AssemblyInv, RegistryOK, AnswerInv, AnswerTyped
<1> QED
  BY <1>1, AlwaysAnswers, PTL

\* No response is redacted, through whichever door a rule came in: a rule that
\* would is refused when it registers, and a failure when it turns afterwards.
THEOREM NoResponseRedacted == Spec => []ResponseNeverRedacted
<1>1. AnswerInv => ResponseNeverRedacted
  BY DEF AnswerInv
<1> QED
  BY <1>1, AlwaysAnswers, PTL

\* A hit of a block rule is never decided away, by other rules, by the sensitive
\* keys, or by a rule that fails.
THEOREM BlockAlwaysWins == Spec => []BlockWins
<1>1. AnswerInv => BlockWins
  BY DEF AnswerInv
<1> QED
  BY <1>1, AlwaysAnswers, PTL

\* The decision on a request that goes out orders the substitution of what the
\* built-in detectors match, whatever packs and plugins were registered beside them.
THEOREM BuiltinsAlwaysSubstitute == Spec => []PackNeverWeakens
<1>1. AnswerInv => PackNeverWeakens
  BY DEF AnswerInv
<1> QED
  BY <1>1, AlwaysAnswers, PTL

=============================================================================
