--------------------------- MODULE NaturalsLemmas ---------------------------
(***************************************************************************)
(* Least elements and induction over the naturals, stated with sets, so    *)
(* that the recursive functions, the folds and the CHOOSE of a minimum in  *)
(* the models can be reasoned about.                                       *)
(***************************************************************************)
EXTENDS Integers, FiniteSets, FiniteSetsExt, FiniteSetTheorems, TLAPS

\* A non-empty set of naturals has a least element: among the intervals that end
\* in the set, which are finite, one has no strict subset.
LEMMA LeastNatural ==
  ASSUME NEW T, T \subseteq Nat, T # {} PROVE \E x \in T : \A y \in T : x <= y
<1> DEFINE B == {1 .. n : n \in T}
<1>1. B \subseteq FiniteSubsetsOf(Nat)
  <2>1. \A n \in T : IsFiniteSet(1 .. n)
    BY FS_Interval
  <2> QED
    BY <2>1 DEF FiniteSubsetsOf
<1>2. B # {}
  OBVIOUS
<1> HIDE DEF B
<1>3. PICK b \in B : \A c \in B : ~ (<<c, b>> \in StrictSubsetOrdering(Nat))
  BY <1>1, <1>2, FS_StrictSubsetOrderingWellFounded, WFMin
<1>4. PICK x \in T : b = 1 .. x
  BY DEF B
<1>5. ASSUME NEW y \in T, y < x PROVE FALSE
  <2>1. 1 .. y \in B /\ 1 .. y \in SUBSET Nat /\ b \in SUBSET Nat
    BY <1>4 DEF B
  <2>2. 1 .. y \subseteq b /\ x \in b /\ x \notin 1 .. y
    BY <1>4, <1>5
  <2> QED
    BY <1>3, <2>1, <2>2 DEF StrictSubsetOrdering
<1> QED
  BY <1>5

\* A set that holds zero and the successor of every natural in it holds them all.
LEMMA Induction ==
  ASSUME NEW T, 0 \in T, \A n \in Nat : n \in T => n + 1 \in T
  PROVE  \A n \in Nat : n \in T
<1>1. SUFFICES ASSUME NEW n \in Nat, n \notin T PROVE FALSE
  OBVIOUS
<1>2. PICK m \in Nat \ T : \A y \in Nat \ T : m <= y
  <2>1. Nat \ T # {} /\ Nat \ T \subseteq Nat
    BY <1>1
  <2> QED
    BY <2>1, LeastNatural
<1>3. m # 0 /\ m - 1 \in Nat /\ m - 1 \in T
  BY <1>2
<1> QED
  BY <1>2, <1>3, (m - 1) + 1 = m

\* A finite non-empty set of naturals has a greatest element: of the sets of those
\* that are not below one of its elements, one has no strict subset.
LEMMA GreatestNatural ==
  ASSUME NEW T, T \subseteq Nat, T # {}, IsFiniteSet(T) PROVE \E x \in T : \A y \in T : x >= y
<1> DEFINE Above(x) == {y \in T : y >= x}
           B == {Above(x) : x \in T}
<1>1. B \subseteq FiniteSubsetsOf(Nat)
  <2>1. \A x \in T : IsFiniteSet(Above(x))
    BY FS_Subset
  <2> QED
    BY <2>1 DEF FiniteSubsetsOf
<1>2. B # {}
  OBVIOUS
<1> HIDE DEF B
<1>3. PICK b \in B : \A c \in B : ~ (<<c, b>> \in StrictSubsetOrdering(Nat))
  BY <1>1, <1>2, FS_StrictSubsetOrderingWellFounded, WFMin
<1>4. PICK x \in T : b = Above(x)
  BY DEF B
<1>5. ASSUME NEW y \in T, y > x PROVE FALSE
  <2>1. Above(y) \in B /\ Above(y) \in SUBSET Nat /\ b \in SUBSET Nat
    BY <1>4 DEF B
  <2>2. \A z \in T : z >= y => z >= x
    BY <1>5
  <2>3. Above(y) \subseteq b /\ x \in b /\ x \notin Above(y)
    <3>1. x >= x /\ ~ (x >= y) /\ b = Above(x)
      BY <1>4, <1>5
    <3> QED
      BY <2>2, <3>1
  <2> QED
    BY <1>3, <2>1, <2>3 DEF StrictSubsetOrdering
<1> QED
  BY <1>5

\* The library's minimum and maximum.
LEMMA MinIsLeast ==
  ASSUME NEW T, T \subseteq Nat, T # {} PROVE Min(T) \in T /\ \A y \in T : Min(T) <= y
BY LeastNatural DEF Min

LEMMA MaxIsGreatest ==
  ASSUME NEW T, T \subseteq Nat, T # {}, IsFiniteSet(T)
  PROVE  Max(T) \in T /\ \A y \in T : Max(T) >= y
BY GreatestNatural DEF Max

LEMMA MaxUpTo ==
  ASSUME NEW n \in Nat, NEW T, T \subseteq 0 .. n, T # {}
  PROVE  Max(T) \in T /\ \A y \in T : Max(T) >= y
<1>1. IsFiniteSet(0 .. n)
  BY FS_Interval
<1>2. IsFiniteSet(T) /\ T \subseteq Nat
  <2>1. T \in SUBSET (0 .. n)
    OBVIOUS
  <2>2. IsFiniteSet(T)
    BY <1>1, <2>1, FS_Subset
  <2> QED
    BY <2>1, <2>2
<1> QED
  BY <1>2, MaxIsGreatest

LEMMA MaxOfIndices ==
  ASSUME NEW n \in Nat PROVE \A t \in SUBSET (1 .. n) : t # {} => Max(t) \in 1 .. n
<1>1. ASSUME NEW t \in SUBSET (1 .. n), t # {} PROVE Max(t) \in t
  <2>1. t \subseteq 0 .. n
    OBVIOUS
  <2> QED
    BY <1>1, <2>1, MaxUpTo
<1> QED
  BY <1>1

\* A function of the naturals up to n can be defined from each value to the next.
Unfolds(f, n, base, step) == f[0] = base /\ \A i \in 1 .. n : f[i] = step[i][f[i - 1]]

LEMMA ForwardRecursion ==
  ASSUME NEW S, NEW n \in Nat, NEW base \in S, NEW step \in [1 .. n -> [S -> S]]
  PROVE  \E f \in [0 .. n -> S] : Unfolds(f, n, base, step)
<1> DEFINE Defined(m) ==
             \E f \in [0 .. m -> S] : f[0] = base /\ \A i \in 1 .. m : f[i] = step[i][f[i - 1]]
           T == {m \in Nat : m <= n => Defined(m)}
<1>1. 0 \in T
  <2> DEFINE f == [i \in 0 .. 0 |-> base]
  <2>1. f \in [0 .. 0 -> S] /\ f[0] = base /\ \A i \in 1 .. 0 : f[i] = step[i][f[i - 1]]
    OBVIOUS
  <2> HIDE DEF f
  <2> QED
    BY <2>1
<1>2. ASSUME NEW m \in Nat, m \in T PROVE m + 1 \in T
  <2>1. SUFFICES ASSUME m + 1 <= n PROVE Defined(m + 1)
    OBVIOUS
  <2>2. PICK f \in [0 .. m -> S] : f[0] = base /\ \A i \in 1 .. m : f[i] = step[i][f[i - 1]]
    BY <1>2, <2>1
  <2> DEFINE g == [i \in 0 .. m + 1 |-> IF i = m + 1 THEN step[m + 1][f[m]] ELSE f[i]]
  <2>3. step[m + 1][f[m]] \in S
    <3>1. m + 1 \in 1 .. n /\ f[m] \in S
      BY <2>1
    <3> QED
      BY <3>1
  <2>4. g \in [0 .. m + 1 -> S] /\ g[0] = base
    BY <2>2, <2>3
  <2>5. ASSUME NEW i \in 1 .. m + 1 PROVE g[i] = step[i][g[i - 1]]
    <3>1. i - 1 \in 0 .. m /\ g[i - 1] = f[i - 1]
      OBVIOUS
    <3>2. CASE i = m + 1
      BY <3>1, <3>2
    <3>3. CASE i # m + 1
      BY <2>2, <3>1, <3>3
    <3> QED
      BY <3>2, <3>3
  <2> HIDE DEF g
  <2> QED
    BY <2>4, <2>5
<1>3. \A m \in Nat : m \in T
  <2> HIDE DEF T
  <2> QED
    BY <1>1, <1>2, Induction
<1>4. Defined(n)
  BY <1>3
<1> QED
  BY <1>4 DEF Unfolds

\* And from the end to the beginning, each value from one further on.
Onward(n) == {next \in [1 .. n -> 1 .. n + 1] : \A i \in 1 .. n : next[i] > i}
Solves(f, n, base, step, next) ==
  f[n + 1] = base /\ \A i \in 1 .. n : f[i] = step[i][f[next[i]]]

LEMMA BackwardRecursion ==
  ASSUME NEW S, NEW n \in Nat, NEW base \in S, NEW step \in [1 .. n -> [S -> S]],
         NEW next \in Onward(n)
  PROVE  \E f \in [1 .. n + 1 -> S] : Solves(f, n, base, step, next)
<1>0. next \in [1 .. n -> 1 .. n + 1] /\ \A i \in 1 .. n : next[i] > i
  BY DEF Onward
<1> DEFINE Defined(m) ==
             \E f \in [n + 1 - m .. n + 1 -> S] :
               f[n + 1] = base /\ \A i \in n + 1 - m .. n : f[i] = step[i][f[next[i]]]
           T == {m \in Nat : m <= n => Defined(m)}
<1>1. 0 \in T
  <2> DEFINE f == [i \in n + 1 - 0 .. n + 1 |-> base]
  <2>1. f \in [n + 1 - 0 .. n + 1 -> S] /\ f[n + 1] = base
    OBVIOUS
  <2>2. \A i \in n + 1 - 0 .. n : f[i] = step[i][f[next[i]]]
    OBVIOUS
  <2> HIDE DEF f
  <2> QED
    BY <2>1, <2>2
<1>2. ASSUME NEW m \in Nat, m \in T PROVE m + 1 \in T
  <2>1. SUFFICES ASSUME m + 1 <= n PROVE Defined(m + 1)
    OBVIOUS
  <2>2. PICK f \in [n + 1 - m .. n + 1 -> S] :
          f[n + 1] = base /\ \A i \in n + 1 - m .. n : f[i] = step[i][f[next[i]]]
    BY <1>2, <2>1
  <2> DEFINE k == n - m
             g == [i \in n + 1 - (m + 1) .. n + 1 |-> IF i = k THEN step[k][f[next[k]]] ELSE f[i]]
  <2>3. step[k][f[next[k]]] \in S
    <3>1. k \in 1 .. n /\ next[k] \in n + 1 - m .. n + 1
      BY <1>0, <2>1
    <3>2. f[next[k]] \in S
      BY <3>1
    <3> QED
      BY <3>1, <3>2
  <2>4. g \in [n + 1 - (m + 1) .. n + 1 -> S] /\ g[n + 1] = base
    BY <2>1, <2>2, <2>3
  <2>5. ASSUME NEW i \in n + 1 - (m + 1) .. n PROVE g[i] = step[i][g[next[i]]]
    <3>1. i \in 1 .. n /\ next[i] \in 1 .. n + 1 /\ next[i] > i
      BY <1>0, <2>1
    <3>2. next[i] \in n + 1 - m .. n + 1 /\ next[i] # k
      BY <2>1, <3>1
    <3>3. g[next[i]] = f[next[i]]
      BY <3>2
    <3>4. CASE i = k
      <4>1. g[i] = step[k][f[next[k]]]
        BY <3>4
      <4> QED
        BY <3>3, <3>4, <4>1
    <3>5. CASE i # k
      BY <2>2, <3>3, <3>5
    <3> QED
      BY <3>4, <3>5
  <2> HIDE DEF g
  <2> QED
    BY <2>4, <2>5
<1>3. \A m \in Nat : m \in T
  <2> HIDE DEF T
  <2> QED
    BY <1>1, <1>2, Induction
<1>4. Defined(n) /\ n + 1 - n = 1
  BY <1>3
<1> QED
  BY <1>4 DEF Solves

-----------------------------------------------------------------------------
(* Folds. The library folds a sequence with a function of sets of indices,  *)
(* from the greatest index down.                                            *)

SetBody(f, n, base, step) ==
  [s \in SUBSET (1 .. n) |-> IF s = {} THEN base ELSE step[Max(s)][f[s \ {Max(s)}]]]

Recurs(S, n, base, step) ==
  \E f \in [SUBSET (1 .. n) -> S] : f = SetBody(f, n, base, step)

LEMMA SetRecursion ==
  ASSUME NEW S, NEW n \in Nat, NEW base \in S, NEW step \in [1 .. n -> [S -> S]]
  PROVE  Recurs(S, n, base, step)
<1> DEFINE D == SUBSET (1 .. n)
           G == [D -> S]
           first == [s \in D |-> base]
           OneMore(i, g) == [s \in D |-> IF i \in s THEN step[i][g[s]] ELSE g[s]]
           more == [i \in 1 .. n |-> [g \in G |-> OneMore(i, g)]]
<1>1. first \in G /\ more \in [1 .. n -> [G -> G]]
  <2>1. first \in G
    OBVIOUS
  <2>2. ASSUME NEW i \in 1 .. n, NEW g \in G PROVE OneMore(i, g) \in G
    <3>1. \A s \in D : step[i][g[s]] \in S /\ g[s] \in S
      OBVIOUS
    <3> QED
      BY <3>1
  <2> HIDE DEF G, OneMore
  <2> QED
    BY <2>1, <2>2
<1>2. PICK h \in [0 .. n -> G] : Unfolds(h, n, first, more)
  <2> HIDE DEF G, first, more
  <2> QED
    BY <1>1, ForwardRecursion
<1>3. /\ \A s \in D : h[0][s] = base
      /\ \A i \in 1 .. n, s \in D : h[i][s] = IF i \in s THEN step[i][h[i - 1][s]] ELSE h[i - 1][s]
  <2>1. h[0] = first /\ \A i \in 1 .. n : h[i] = more[i][h[i - 1]]
    BY <1>2 DEF Unfolds
  <2>2. ASSUME NEW i \in 1 .. n, NEW s \in D
        PROVE  h[i][s] = IF i \in s THEN step[i][h[i - 1][s]] ELSE h[i - 1][s]
    <3>1. i - 1 \in 0 .. n
      OBVIOUS
    <3>2. h[i - 1] \in G
      BY <3>1
    <3>3. more[i][h[i - 1]] = OneMore(i, h[i - 1])
      BY <3>2
    <3> HIDE DEF more
    <3>4. h[i] = OneMore(i, h[i - 1])
      BY <2>1, <3>3
    <3> QED
      BY <3>4
  <2> QED
    BY <2>1, <2>2
<1>4. \A i \in 0 .. n, s \in D : h[i][s] \in S
  OBVIOUS
<1> HIDE DEF G
\* What h[i] says depends on the indices up to i only.
<1> DEFINE Local(i) == \A s, t \in D : (\A k \in 1 .. i : k \in s <=> k \in t) => h[i][s] = h[i][t]
           LT == {i \in Nat : i <= n => Local(i)}
<1>5. \A i \in 0 .. n : Local(i)
  <2>1. 0 \in LT
    BY <1>3
  <2>2. ASSUME NEW i \in Nat, i \in LT PROVE i + 1 \in LT
    <3>1. SUFFICES ASSUME i + 1 <= n, NEW s \in D, NEW t \in D,
                          \A k \in 1 .. i + 1 : k \in s <=> k \in t
                   PROVE  h[i + 1][s] = h[i + 1][t]
      OBVIOUS
    <3>2. h[i][s] = h[i][t]
      <4>1. \A k \in 1 .. i : k \in s <=> k \in t
        BY <3>1
      <4> QED
        BY <2>2, <3>1, <4>1
    <3>3. i + 1 \in 1 .. n /\ (i + 1) - 1 = i /\ (i + 1 \in s <=> i + 1 \in t)
      BY <3>1
    <3> QED
      BY <1>3, <3>2, <3>3
  <2>3. \A i \in Nat : i \in LT
    <3> HIDE DEF LT
    <3> QED
      BY <2>1, <2>2, Induction
  <2> HIDE DEF Local
  <2> QED
    BY <2>3
\* And no more is said after the greatest of them.
<1> DEFINE Above(s, m) == \A k \in s : k <= m
           Still(j) == \A s \in D, m \in 0 .. n : Above(s, m) /\ m <= j => h[j][s] = h[m][s]
           ST == {j \in Nat : j <= n => Still(j)}
<1>6. \A j \in 0 .. n : Still(j)
  <2>1. 0 \in ST
    <3>1. \A m \in 0 .. n : m <= 0 => m = 0
      OBVIOUS
    <3> QED
      BY <3>1
  <2>2. ASSUME NEW j \in Nat, j \in ST PROVE j + 1 \in ST
    <3>1. SUFFICES ASSUME j + 1 <= n, NEW s \in D, NEW m \in 0 .. n, Above(s, m), m <= j + 1
                   PROVE  h[j + 1][s] = h[m][s]
      OBVIOUS
    <3>2. CASE m = j + 1
      BY <3>2
    <3>3. CASE m <= j
      <4>1. h[j][s] = h[m][s]
        BY <2>2, <3>1, <3>3
      <4>2. j + 1 \in 1 .. n /\ (j + 1) - 1 = j /\ j + 1 \notin s
        BY <3>1, <3>3
      <4> QED
        BY <1>3, <4>1, <4>2
    <3> QED
      BY <3>1, <3>2, <3>3
  <2>3. \A j \in Nat : j \in ST
    <3> HIDE DEF ST
    <3> QED
      BY <2>1, <2>2, Induction
  <2> HIDE DEF Still
  <2> QED
    BY <2>3
<1> DEFINE f == h[n]
<1>7. f[{}] = base
  <2>1. {} \in D /\ Above({}, 0) /\ 0 \in 0 .. n /\ n \in 0 .. n
    OBVIOUS
  <2>2. h[n][{}] = h[0][{}]
    BY <1>6, <2>1
  <2> QED
    BY <1>3, <2>1, <2>2
<1>8. ASSUME NEW s \in D, s # {} PROVE f[s] = step[Max(s)][f[s \ {Max(s)}]]
  <2> DEFINE m == Max(s)
             t == s \ {m}
  <2>1. m \in s /\ (\A k \in s : m >= k)
    <3>1. s \subseteq 0 .. n
      OBVIOUS
    <3> QED
      BY <1>8, <3>1, MaxUpTo
  <2> HIDE DEF m
  <2>2. m \in 1 .. n /\ m \in 0 .. n /\ m - 1 \in 0 .. n /\ n \in 0 .. n /\ t \in D /\ m <= n /\ m - 1 <= n
    BY <2>1
  <2>3. h[n][s] = h[m][s]
    <3>1. Above(s, m)
      BY <2>1, <2>2
    <3> QED
      BY <1>6, <2>2, <3>1
  <2>4. h[m][s] = step[m][h[m - 1][s]]
    BY <1>3, <2>1, <2>2
  <2>5. h[m - 1][s] = h[m - 1][t]
    <3>1. \A k \in 1 .. m - 1 : k \in s <=> k \in t
      BY <2>2
    <3> QED
      BY <1>5, <2>2, <3>1
  <2>6. h[n][t] = h[m - 1][t]
    <3>1. Above(t, m - 1)
      BY <2>1, <2>2
    <3> QED
      BY <1>6, <2>2, <3>1
  <2> QED
    BY <2>3, <2>4, <2>5, <2>6 DEF m
<1>9. f \in [D -> S]
  <2>1. n \in 0 .. n
    OBVIOUS
  <2> QED
    BY <2>1 DEF G
<1> HIDE DEF f
<1>10. \A s \in D : f[s] = SetBody(f, n, base, step)[s]
  BY <1>7, <1>8 DEF SetBody
<1>11. SetBody(f, n, base, step) = [s \in D |-> SetBody(f, n, base, step)[s]]
  BY DEF SetBody
<1>12. f = SetBody(f, n, base, step)
  BY <1>9, <1>10, <1>11
<1> QED
  BY <1>9, <1>12 DEF Recurs

\* What a fold's body makes of f: b goes by the steps wherever f has a value.
Stages(b, f, S, n, base, step) ==
  /\ b = [t \in SUBSET (1 .. n) |-> b[t]] /\ b[{}] = base
  /\ \A t \in SUBSET (1 .. n) :
       t # {} /\ f[t \ {Max(t)}] \in S => b[t] = step[Max(t)][f[t \ {Max(t)}]]

\* Some function is what every such body makes of it.
LEMMA FoldFixes ==
  ASSUME NEW S, NEW n \in Nat, NEW base \in S, NEW step \in [1 .. n -> [S -> S]]
  PROVE  \E h : \A b : Stages(b, h, S, n, base, step) => b = h
<1>1. Recurs(S, n, base, step)
  BY SetRecursion
<1>2. PICK h \in [SUBSET (1 .. n) -> S] : h = SetBody(h, n, base, step)
  BY <1>1 DEF Recurs
<1>3. ASSUME NEW b, Stages(b, h, S, n, base, step) PROVE b = h
  <2>1. ASSUME NEW t \in SUBSET (1 .. n) PROVE b[t] = h[t]
    <3>1. CASE t = {}
      BY <1>2, <1>3, <3>1 DEF SetBody, Stages
    <3>2. CASE t # {}
      <4>1. h[t] = step[Max(t)][h[t \ {Max(t)}]]
        BY <1>2, <3>2 DEF SetBody
      <4>2. t \ {Max(t)} \in SUBSET (1 .. n)
        OBVIOUS
      <4>3. h[t \ {Max(t)}] \in S
        BY <4>2
      <4> QED
        BY <1>3, <3>2, <4>1, <4>3 DEF Stages
    <3> QED
      BY <3>1, <3>2
  <2>2. h = [t \in SUBSET (1 .. n) |-> h[t]] /\ b = [t \in SUBSET (1 .. n) |-> b[t]]
    BY <1>2, <1>3 DEF Stages
  <2> QED
    BY <2>1, <2>2
<1> QED
  BY <1>3

\* And one that its own body makes goes by the steps on the initial intervals.
LEMMA FoldUnfolds ==
  ASSUME NEW S, NEW n \in Nat, NEW base \in S, NEW step \in [1 .. n -> [S -> S]],
         NEW g, Stages(g, g, S, n, base, step)
  PROVE  \E f \in [0 .. n -> S] : Unfolds(f, n, base, step) /\ f[n] = g[1 .. n]
<1> DEFINE f == [i \in 0 .. n |-> g[1 .. i]]
           T == {i \in Nat : i <= n => g[1 .. i] \in S}
<1>1. g[{}] = base /\ 1 .. 0 = {}
  BY DEF Stages
<1>2. ASSUME NEW i \in Nat, i + 1 <= n, g[1 .. i] \in S
      PROVE  g[1 .. i + 1] = step[i + 1][g[1 .. i]] /\ g[1 .. i + 1] \in S
  <2> DEFINE s == 1 .. i + 1
  <2>1. s \in SUBSET (1 .. n) /\ s # {} /\ s \subseteq 0 .. n
    BY <1>2
  <2>2. Max(s) = i + 1
    <3>1. Max(s) \in s /\ \A y \in s : Max(s) >= y
      <4> HIDE DEF s
      <4> QED
        BY <2>1, MaxUpTo
    <3>2. i + 1 \in s
      OBVIOUS
    <3> QED
      BY <3>1, <3>2
  <2>3. s \ {i + 1} = 1 .. i
    OBVIOUS
  <2> HIDE DEF s
  <2>4. g[s] = step[i + 1][g[1 .. i]]
    BY <1>2, <2>1, <2>2, <2>3 DEF Stages
  <2>5. i + 1 \in 1 .. n
    BY <1>2
  <2> QED
    BY <1>2, <2>4, <2>5 DEF s
<1>3. 0 \in T
  BY <1>1
<1>4. ASSUME NEW i \in Nat, i \in T PROVE i + 1 \in T
  BY <1>2, <1>4
<1>5. \A i \in Nat : i \in T
  <2> HIDE DEF T
  <2> QED
    BY <1>3, <1>4, Induction
<1>6. f \in [0 .. n -> S]
  BY <1>5
<1>7. f[0] = base
  BY <1>1
<1>8. ASSUME NEW i \in 1 .. n PROVE f[i] = step[i][f[i - 1]]
  <2>1. i - 1 \in Nat /\ (i - 1) + 1 = i /\ i - 1 <= n /\ i <= n
    OBVIOUS
  <2>2. g[1 .. i - 1] \in S
    BY <1>5, <2>1
  <2>3. g[1 .. i] = step[i][g[1 .. i - 1]]
    BY <1>2, <2>1, <2>2
  <2> QED
    BY <2>3
<1>9. f[n] = g[1 .. n]
  OBVIOUS
<1> HIDE DEF f
<1> QED
  BY <1>6, <1>7, <1>8, <1>9 DEF Unfolds

=============================================================================
