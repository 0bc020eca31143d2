-------------------------- MODULE EventStreamLemmas --------------------------
(***************************************************************************)
(* The operators the event stream is modelled with: the placeholders of a  *)
(* text, the edits of a leaf, the writer that holds a tail back, the texts *)
(* put together from others, and the restored text. And the invariant of   *)
(* the backfiller's state, which every step keeps: the carry points at the *)
(* segments it came from, the events stay in order, what is held is        *)
(* bounded.                                                                *)
(***************************************************************************)
EXTENDS EventStream, NaturalsLemmas, SequenceTheorems

-----------------------------------------------------------------------------
(* Values defined by recursion. *)

\* What holds at the end, and at each place if it holds further on, holds.
LEMMA BackwardInduction ==
  ASSUME NEW S, NEW n \in Nat, NEW f, NEW next \in Onward(n),
         f[n + 1] \in S, \A i \in 1 .. n : f[next[i]] \in S => f[i] \in S
  PROVE  \A i \in 1 .. n + 1 : f[i] \in S
<1> DEFINE Bad == {m \in Nat : m <= n /\ f[n + 1 - m] \notin S}
<1>0. next \in [1 .. n -> 1 .. n + 1] /\ \A i \in 1 .. n : next[i] > i
  BY DEF Onward
<1>1. SUFFICES ASSUME NEW i \in 1 .. n + 1, f[i] \notin S PROVE FALSE
  OBVIOUS
<1>2. Bad # {}
  <2>1. n + 1 - i \in Nat /\ n + 1 - i <= n /\ n + 1 - (n + 1 - i) = i
    OBVIOUS
  <2> QED
    BY <1>1, <2>1
<1>3. PICK m \in Bad : \A y \in Bad : m <= y
  BY <1>2, LeastNatural
<1>4. m # 0 /\ n + 1 - m \in 1 .. n
  BY <1>3
<1>5. f[next[n + 1 - m]] \notin S
  BY <1>3, <1>4
<1>6. next[n + 1 - m] \in 1 .. n + 1 /\ next[n + 1 - m] > n + 1 - m
  BY <1>0, <1>4
<1>7. /\ n + 1 - next[n + 1 - m] \in Nat
      /\ n + 1 - next[n + 1 - m] < m
      /\ n + 1 - (n + 1 - next[n + 1 - m]) = next[n + 1 - m]
  BY <1>3, <1>4, <1>6
<1>8. n + 1 - next[n + 1 - m] \in Bad
  BY <1>3, <1>5, <1>7
<1> QED
  BY <1>3, <1>7, <1>8

\* What holds at the end, and at each place if it holds everywhere behind it, holds.
LEMMA Downward ==
  ASSUME NEW n \in Nat, NEW G, n + 1 \in G,
         \A i \in 1 .. n : (\A j \in i + 1 .. n + 1 : j \in G) => i \in G
  PROVE  \A i \in 1 .. n + 1 : i \in G
<1> DEFINE Bad == {m \in Nat : m <= n /\ n + 1 - m \notin G}
<1>1. SUFFICES ASSUME NEW i \in 1 .. n + 1, i \notin G PROVE FALSE
  OBVIOUS
<1>2. n + 1 - i \in Nat /\ n + 1 - i <= n /\ n + 1 - (n + 1 - i) = i
  OBVIOUS
<1>3. Bad # {}
  BY <1>1, <1>2
<1>4. PICK m \in Bad : \A y \in Bad : m <= y
  BY <1>3, LeastNatural
<1>5. m # 0 /\ n + 1 - m \in 1 .. n
  BY <1>4
<1>6. ASSUME NEW j \in n + 1 - m + 1 .. n + 1 PROVE j \in G
  <2>1. n + 1 - j \in Nat /\ n + 1 - j <= n /\ n + 1 - (n + 1 - j) = j /\ n + 1 - j < m
    BY <1>4, <1>5
  <2> QED
    BY <1>4, <2>1
<1> QED
  BY <1>4, <1>5, <1>6

\* Sequences put together from their elements.
LEMMA SequenceOf ==
  ASSUME NEW S, NEW n \in Nat, NEW f \in [1 .. n -> S]
  PROVE  f \in Seq(S) /\ Len(f) = n
OBVIOUS

LEMMA SecretsAreCells == SecretCells \subseteq Cells
BY DEF Cells

LEMMA SequenceFacts ==
  ASSUME NEW S, NEW t \in Seq(S)
  PROVE  Len(t) \in Nat /\ DOMAIN t = 1 .. Len(t) /\ \A i \in 1 .. Len(t) : t[i] \in S
BY LenProperties, ElementOfSeq

\* A stretch of n cells of a text.
LEMMA SliceIs ==
  ASSUME NEW S, NEW t \in Seq(S), NEW i \in 1 .. Len(t) + 1, NEW n \in Nat,
         i + n - 1 \in i - 1 .. Len(t)
  PROVE  /\ SubSeq(t, i, i + n - 1) \in Seq(S) /\ Len(SubSeq(t, i, i + n - 1)) = n
         /\ \A l \in 1 .. n : SubSeq(t, i, i + n - 1)[l] = t[i + l - 1]
<1> DEFINE m == i + n - 1
<1>1. Len(t) \in Nat /\ i \in Int /\ m \in Int /\ m - i + 1 = n /\ m <= Len(t) /\ i >= 1
  BY LenProperties
<1>2. IF i <= m THEN n = m - i + 1 ELSE n = 0
  BY <1>1
<1> HIDE DEF m
<1>3. \A l \in i .. m : t[l] \in S
  <2>1. \A l \in i .. m : l \in 1 .. Len(t)
    BY <1>1
  <2> QED
    BY <2>1, ElementOfSeq
<1>4. /\ SubSeq(t, i, m) \in Seq(S) /\ Len(SubSeq(t, i, m)) = (IF i <= m THEN m - i + 1 ELSE 0)
      /\ \A l \in 1 .. m - i + 1 : SubSeq(t, i, m)[l] = t[i + l - 1]
  BY <1>1, <1>3, SubSeqProperties
<1>5. Len(SubSeq(t, i, m)) = n /\ m - i + 1 = n
  BY <1>1, <1>2, <1>4
<1>6. \A l \in 1 .. n : SubSeq(t, i, m)[l] = t[i + l - 1]
  BY <1>4, <1>5
<1> QED
  BY <1>4, <1>5, <1>6 DEF m

-----------------------------------------------------------------------------
(* Texts. *)

\* A tail of a text.
LEMMA FromIsTail ==
  ASSUME NEW S, NEW t \in Seq(S), NEW i \in 1 .. Len(t) + 1
  PROVE  /\ From(t, i) \in Seq(S)
         /\ Len(From(t, i)) = Len(t) + 1 - i
         /\ \A j \in 1 .. Len(t) + 1 - i : From(t, i)[j] = t[i + j - 1]
<1>1. Len(t) \in Nat /\ \A j \in i .. Len(t) : t[j] \in S
  BY ElementOfSeq, LenProperties
<1> QED
  BY <1>1, SubSeqProperties DEF From

\* A placeholder at the start of a text lies in it.
LEMMA TokenLies ==
  ASSUME NEW S, NEW t \in Seq(S) PROVE TokenLen(t) \in 0 .. Len(t)
<1> DEFINE T == {0} \union {Len(u) : u \in {v \in Tokens : IsPrefix(v, t)}}
<1>1. Len(t) \in Nat /\ \A u \in Tokens : Len(u) \in Nat
  BY GrammarOK, LenProperties
<1>2. T \subseteq 0 .. Len(t)
  BY <1>1 DEF IsPrefix
<1>3. Max(T) \in T
  BY <1>1, <1>2, MaxUpTo
<1> QED
  BY <1>2, <1>3 DEF TokenLen

LEMMA LongestToken == MaxTokenLen \in Nat
<1> DEFINE T == {Len(t) : t \in Tokens}
<1>1. T \subseteq Nat /\ T # {}
  <2>1. \A t \in Tokens : Len(t) \in Nat
    BY GrammarOK, LenProperties
  <2> QED
    BY <2>1, GrammarOK
<1>2. IsFiniteSet(T)
  <2> DEFINE f == [t \in Tokens |-> Len(t)]
  <2>1. f \in Surjection(Tokens, T)
    BY DEF Surjection
  <2> QED
    BY <2>1, GrammarOK, FS_Surjection
<1>3. Max(T) \in T
  BY <1>1, <1>2, MaxIsGreatest
<1> QED
  BY <1>1, <1>3 DEF MaxTokenLen

\* A restored placeholder is its secret or itself.
LEMMA BackfilledText ==
  ASSUME NEW S, SecretCells \subseteq S, NEW t \in Seq(S), NEW json
  PROVE  Backfilled(t, json) \in Seq(S)
<1>1. t \in Mapped => Secret[t].raw \in S /\ Secret[t].json \in S
  BY DEF SecretCells
<1>2. t \in Mapped => <<Secret[t].raw>> \in Seq(S) /\ <<Secret[t].json>> \in Seq(S)
  BY <1>1
<1> QED
  BY <1>2 DEF Backfilled

\* A text put together from the end, at each place from a piece and from the text
\* further on: one exists, and whatever satisfies the equation is one.
Spells(f, n, put, next) ==
  f[n + 1] = <<>> /\ \A i \in 1 .. n : f[i] = put[i] \o f[next[i]]

LEMMA JoinedText ==
  ASSUME NEW S, NEW n \in Nat, NEW put \in [1 .. n -> Seq(S)], NEW next \in Onward(n)
  PROVE  \E f \in [1 .. n + 1 -> Seq(S)] : Spells(f, n, put, next)
<1> DEFINE step == [i \in 1 .. n |-> [x \in Seq(S) |-> put[i] \o x]]
<1>1. step \in [1 .. n -> [Seq(S) -> Seq(S)]] /\ <<>> \in Seq(S)
  <2>1. \A i \in 1 .. n, x \in Seq(S) : put[i] \o x \in Seq(S)
    BY ConcatProperties
  <2> QED
    BY <2>1
<1>2. \A i \in 1 .. n, x \in Seq(S) : step[i][x] = put[i] \o x
  OBVIOUS
<1> HIDE DEF step
<1>3. PICK f \in [1 .. n + 1 -> Seq(S)] : Solves(f, n, <<>>, step, next)
  BY <1>1, BackwardRecursion
<1>4. \A i \in 1 .. n : next[i] \in 1 .. n + 1
  BY DEF Onward
<1>5. f[n + 1] = <<>> /\ \A i \in 1 .. n : f[i] = put[i] \o f[next[i]]
  BY <1>2, <1>3, <1>4 DEF Solves
<1> QED
  BY <1>5 DEF Spells

LEMMA JoinedTextTyped ==
  ASSUME NEW S, NEW n \in Nat, NEW put \in [1 .. n -> Seq(S)], NEW next \in Onward(n),
         NEW f, Spells(f, n, put, next)
  PROVE  \A i \in 1 .. n + 1 : f[i] \in Seq(S)
<1>1. \A i \in 1 .. n : f[next[i]] \in Seq(S) => f[i] \in Seq(S)
  BY ConcatProperties DEF Spells
<1>2. f[n + 1] \in Seq(S)
  BY DEF Spells
<1> QED
  BY <1>1, <1>2, BackwardInduction

\* The edits of a text of n cells.
Edit(S, n) == [from : Nat, to : 0 .. n + 1, rep : Seq(S)]
\* What Apply makes of a text from each place on: each edit moves it on.
EditsAt(edits, i) == {k \in DOMAIN edits : edits[k].from = i /\ edits[k].to > i}
EditAt(edits, i)  == edits[Min(EditsAt(edits, i))]
EditedBy(g, t, edits) ==
  /\ g[Len(t) + 1] = <<>>
  /\ \A i \in 1 .. Len(t) :
       g[i] = IF EditsAt(edits, i) = {} THEN <<t[i]>> \o g[i + 1]
              ELSE EditAt(edits, i).rep \o g[EditAt(edits, i).to]

LEMMA ApplyFrom ==
  ASSUME NEW S, NEW t \in Seq(S), NEW edits \in Seq(Edit(S, Len(t)))
  PROVE  \E g \in [1 .. Len(t) + 1 -> Seq(S)] : EditedBy(g, t, edits) /\ Apply(t, edits) = g[1]
<1> DEFINE Here(i) == EditsAt(edits, i)
           e(i)    == EditAt(edits, i)
           Body(f) == [i \in 1 .. Len(t) + 1 |->
                         IF i > Len(t) THEN <<>>
                         ELSE IF Here(i) = {} THEN <<t[i]>> \o f[i + 1]
                         ELSE e(i).rep \o f[e(i).to]]
<1>1. Len(t) \in Nat
  BY LenProperties
<1>2. ASSUME NEW i \in 1 .. Len(t) PROVE <<t[i]>> \in Seq(S)
  <2>1. t[i] \in S
    BY ElementOfSeq
  <2> QED
    BY <2>1
<1>3. ASSUME NEW i \in 1 .. Len(t), Here(i) # {}
      PROVE  e(i).to \in 1 .. Len(t) + 1 /\ e(i).to > i /\ e(i).rep \in Seq(S)
  <2>1. DOMAIN edits \subseteq Nat /\ \A k \in DOMAIN edits : edits[k] \in Edit(S, Len(t))
    BY LenProperties, ElementOfSeq
  <2>2. Min(Here(i)) \in Here(i)
    BY <1>3, <2>1, MinIsLeast DEF EditsAt
  <2>3. e(i) \in Edit(S, Len(t)) /\ e(i).to > i
    BY <2>1, <2>2 DEF EditsAt, EditAt
  <2> QED
    BY <1>1, <2>3 DEF Edit
<1>4. Apply(t, edits) = (CHOOSE f : f = Body(f))[1]
  BY DEF Apply, EditsAt, EditAt
<1>5. ASSUME NEW f
      PROVE  /\ Body(f)[Len(t) + 1] = <<>>
             /\ \A i \in 1 .. Len(t) :
                  Body(f)[i] = IF Here(i) = {} THEN <<t[i]>> \o f[i + 1]
                               ELSE e(i).rep \o f[e(i).to]
  <2> HIDE DEF Here, e
  <2>1. Body(f)[Len(t) + 1] = <<>>
    BY <1>1
  <2>2. ASSUME NEW i \in 1 .. Len(t)
        PROVE  Body(f)[i] = IF Here(i) = {} THEN <<t[i]>> \o f[i + 1]
                            ELSE e(i).rep \o f[e(i).to]
    <3>1. i \in 1 .. Len(t) + 1 /\ ~ (i > Len(t))
      BY <1>1
    <3> QED
      BY <3>1
  <2> QED
    BY <2>1, <2>2
<1>6. \A f : Body(f) = [i \in 1 .. Len(t) + 1 |-> Body(f)[i]]
  <2> HIDE DEF Here, e
  <2> QED
    OBVIOUS
<1> HIDE DEF Here, e, Body
<1>7. PICK next \in Onward(Len(t)) :
        \A i \in 1 .. Len(t) : next[i] = IF Here(i) = {} THEN i + 1 ELSE e(i).to
  <2> DEFINE nx == [i \in 1 .. Len(t) |-> IF Here(i) = {} THEN i + 1 ELSE e(i).to]
  <2>1. \A i \in 1 .. Len(t) : nx[i] \in 1 .. Len(t) + 1 /\ nx[i] > i
    BY <1>1, <1>3
  <2>2. nx \in Onward(Len(t))
    BY <2>1 DEF Onward
  <2>3. \A i \in 1 .. Len(t) : nx[i] = IF Here(i) = {} THEN i + 1 ELSE e(i).to
    OBVIOUS
  <2> HIDE DEF nx
  <2> QED
    BY <2>2, <2>3
<1>8. PICK put \in [1 .. Len(t) -> Seq(S)] :
        \A i \in 1 .. Len(t) : put[i] = IF Here(i) = {} THEN <<t[i]>> ELSE e(i).rep
  <2> DEFINE pt == [i \in 1 .. Len(t) |-> IF Here(i) = {} THEN <<t[i]>> ELSE e(i).rep]
  <2>1. \A i \in 1 .. Len(t) : pt[i] \in Seq(S)
    BY <1>2, <1>3
  <2>2. pt \in [1 .. Len(t) -> Seq(S)]
    BY <2>1
  <2>3. \A i \in 1 .. Len(t) : pt[i] = IF Here(i) = {} THEN <<t[i]>> ELSE e(i).rep
    OBVIOUS
  <2> HIDE DEF pt
  <2> QED
    BY <2>2, <2>3
<1>9. ASSUME NEW f, NEW i \in 1 .. Len(t) PROVE Body(f)[i] = put[i] \o f[next[i]]
  <2>1. CASE Here(i) = {}
    BY <1>5, <1>7, <1>8, <2>1
  <2>2. CASE Here(i) # {}
    BY <1>5, <1>7, <1>8, <2>2
  <2> QED
    BY <2>1, <2>2
<1>10. \E f : f = Body(f)
  <2>1. PICK f \in [1 .. Len(t) + 1 -> Seq(S)] : Spells(f, Len(t), put, next)
    BY <1>1, JoinedText
  <2>2. f[Len(t) + 1] = <<>> /\ \A i \in 1 .. Len(t) : f[i] = put[i] \o f[next[i]]
    BY <2>1 DEF Spells
  <2>3. \A i \in 1 .. Len(t) + 1 : f[i] = Body(f)[i]
    <3>1. f[Len(t) + 1] = Body(f)[Len(t) + 1]
      BY <1>5, <2>2
    <3>2. \A i \in 1 .. Len(t) : f[i] = Body(f)[i]
      BY <1>9, <2>2
    <3> QED
      BY <1>1, <3>1, <3>2
  <2>4. f = [i \in 1 .. Len(t) + 1 |-> f[i]] /\ Body(f) = [i \in 1 .. Len(t) + 1 |-> Body(f)[i]]
    BY <1>6
  <2> QED
    BY <2>3, <2>4
<1>11. PICK g : g = Body(g) /\ Apply(t, edits) = g[1]
  BY <1>4, <1>10
<1>12. Spells(g, Len(t), put, next)
  BY <1>5, <1>9, <1>11 DEF Spells
<1>13. \A i \in 1 .. Len(t) + 1 : g[i] \in Seq(S)
  BY <1>1, <1>12, JoinedTextTyped
<1>14. g = [i \in 1 .. Len(t) + 1 |-> g[i]]
  BY <1>6, <1>11
<1>15. g \in [1 .. Len(t) + 1 -> Seq(S)]
  BY <1>13, <1>14
<1>16. EditedBy(g, t, edits)
  <2>1. Body(g)[Len(t) + 1] = <<>>
    BY <1>5
  <2>2. \A i \in 1 .. Len(t) :
          Body(g)[i] = IF Here(i) = {} THEN <<t[i]>> \o g[i + 1] ELSE e(i).rep \o g[e(i).to]
    BY <1>5
  <2>3. g = Body(g)
    BY <1>11
  <2>4. g[Len(t) + 1] = <<>>
    BY <2>1, <2>3
  <2>5. \A i \in 1 .. Len(t) :
          g[i] = IF Here(i) = {} THEN <<t[i]>> \o g[i + 1] ELSE e(i).rep \o g[e(i).to]
    BY <2>2, <2>3
  <2> QED
    BY <2>4, <2>5, Zenon DEF EditedBy, Here, e
<1> QED
  BY <1>11, <1>15, <1>16

LEMMA ApplyText ==
  ASSUME NEW S, NEW t \in Seq(S), NEW edits \in Seq(Edit(S, Len(t)))
  PROVE  Apply(t, edits) \in Seq(S)
<1>1. PICK g \in [1 .. Len(t) + 1 -> Seq(S)] : EditedBy(g, t, edits) /\ Apply(t, edits) = g[1]
  BY ApplyFrom
<1>2. 1 \in 1 .. Len(t) + 1
  BY LenProperties
<1> QED
  BY <1>1, <1>2

\* And what WithinLeafEdits returns are the edits of whole placeholders.
TokenAt(t, i)   == SubSeq(t, i, i + TokenLen(From(t, i)) - 1)
TokenEdit(t, i) ==
  [from |-> i, to |-> i + TokenLen(From(t, i)), rep |-> Backfilled(TokenAt(t, i), TRUE)]
TokenEdits(t)   == {TokenEdit(t, i) : i \in {j \in 1 .. Len(t) : TokenAt(t, j) \in Mapped}}

\* The scan of a text: how far it goes on at each place, and what it finds there.
Stride(t, i) == IF TokenLen(From(t, i)) = 0 THEN 1 ELSE TokenLen(From(t, i))
Own(t, i)    == IF TokenAt(t, i) \in Mapped THEN <<TokenEdit(t, i)>> ELSE <<>>
\* The edits found from each place on.
Scanned(g, t) ==
  /\ WithinLeafEdits(t) = g[1] /\ g[Len(t) + 1] = <<>>
  /\ \A i \in 1 .. Len(t) : g[i] = Own(t, i) \o g[i + Stride(t, i)]
  /\ \A i \in 1 .. Len(t) + 1 : g[i] \in Seq(TokenEdits(t))

LEMMA WithinLeafFrom ==
  ASSUME NEW S, NEW t \in Seq(S) PROVE \E g : Scanned(g, t)
<1> DEFINE n(i)    == TokenLen(From(t, i))
           u(i)    == TokenAt(t, i)
           e(i)    == TokenEdit(t, i)
           Body(f) == [i \in 1 .. Len(t) + 1 |->
                         IF i > Len(t) THEN <<>>
                         ELSE (IF u(i) \in Mapped THEN <<e(i)>> ELSE <<>>)
                              \o f[IF n(i) = 0 THEN i + 1 ELSE i + n(i)]]
<1>1. Len(t) \in Nat
  BY LenProperties
<1>2. ASSUME NEW i \in 1 .. Len(t)
      PROVE  n(i) \in 0 .. Len(t) + 1 - i /\ (u(i) \in Mapped => e(i) \in TokenEdits(t))
  <2>1. From(t, i) \in Seq(S) /\ Len(From(t, i)) = Len(t) + 1 - i
    BY <1>1, FromIsTail
  <2>2. n(i) \in 0 .. Len(t) + 1 - i
    BY <2>1, TokenLies
  <2> QED
    BY <2>2 DEF TokenEdits
<1>3. WithinLeafEdits(t) = (CHOOSE f : f = Body(f))[1]
  BY DEF WithinLeafEdits, TokenEdit, TokenAt
<1> HIDE DEF n, u, e
<1>4. ASSUME NEW f
      PROVE  /\ Body(f)[Len(t) + 1] = <<>>
             /\ \A i \in 1 .. Len(t) :
                  Body(f)[i] = (IF u(i) \in Mapped THEN <<e(i)>> ELSE <<>>)
                               \o f[IF n(i) = 0 THEN i + 1 ELSE i + n(i)]
             /\ Body(f) = [i \in 1 .. Len(t) + 1 |-> Body(f)[i]]
  <2>1. Body(f)[Len(t) + 1] = <<>>
    BY <1>1
  <2>2. ASSUME NEW i \in 1 .. Len(t)
        PROVE  Body(f)[i] = (IF u(i) \in Mapped THEN <<e(i)>> ELSE <<>>)
                            \o f[IF n(i) = 0 THEN i + 1 ELSE i + n(i)]
    <3>1. i \in 1 .. Len(t) + 1 /\ ~ (i > Len(t))
      BY <1>1
    <3> QED
      BY <3>1
  <2>3. Body(f) = [i \in 1 .. Len(t) + 1 |-> Body(f)[i]]
    OBVIOUS
  <2> QED
    BY <2>1, <2>2, <2>3
<1> HIDE DEF Body
<1>5. PICK next \in Onward(Len(t)) :
        \A i \in 1 .. Len(t) : next[i] = IF n(i) = 0 THEN i + 1 ELSE i + n(i)
  <2> DEFINE nx == [i \in 1 .. Len(t) |-> IF n(i) = 0 THEN i + 1 ELSE i + n(i)]
  <2>1. \A i \in 1 .. Len(t) : nx[i] \in 1 .. Len(t) + 1 /\ nx[i] > i
    BY <1>1, <1>2
  <2>2. nx \in Onward(Len(t))
    BY <2>1 DEF Onward
  <2>3. \A i \in 1 .. Len(t) : nx[i] = IF n(i) = 0 THEN i + 1 ELSE i + n(i)
    OBVIOUS
  <2> HIDE DEF nx
  <2> QED
    BY <2>2, <2>3
<1>6. PICK put \in [1 .. Len(t) -> Seq(TokenEdits(t))] :
        \A i \in 1 .. Len(t) : put[i] = IF u(i) \in Mapped THEN <<e(i)>> ELSE <<>>
  <2> DEFINE pt == [i \in 1 .. Len(t) |-> IF u(i) \in Mapped THEN <<e(i)>> ELSE <<>>]
  <2>1. ASSUME NEW i \in 1 .. Len(t) PROVE pt[i] \in Seq(TokenEdits(t))
    <3>1. CASE u(i) \in Mapped
      BY <1>2, <3>1
    <3>2. CASE u(i) \notin Mapped
      BY <3>2
    <3> QED
      BY <3>1, <3>2
  <2>2. pt \in [1 .. Len(t) -> Seq(TokenEdits(t))]
    BY <2>1
  <2>3. \A i \in 1 .. Len(t) : pt[i] = IF u(i) \in Mapped THEN <<e(i)>> ELSE <<>>
    OBVIOUS
  <2> HIDE DEF pt
  <2> QED
    BY <2>2, <2>3
<1>7. ASSUME NEW f, NEW i \in 1 .. Len(t) PROVE Body(f)[i] = put[i] \o f[next[i]]
  <2>1. put[i] = IF u(i) \in Mapped THEN <<e(i)>> ELSE <<>>
    BY <1>6
  <2>2. next[i] = IF n(i) = 0 THEN i + 1 ELSE i + n(i)
    BY <1>5
  <2>3. Body(f)[i] = (IF u(i) \in Mapped THEN <<e(i)>> ELSE <<>>)
                     \o f[IF n(i) = 0 THEN i + 1 ELSE i + n(i)]
    BY <1>4
  <2> QED
    BY <2>1, <2>2, <2>3, Zenon
<1>8. \E f : f = Body(f)
  <2>1. PICK f \in [1 .. Len(t) + 1 -> Seq(TokenEdits(t))] : Spells(f, Len(t), put, next)
    BY <1>1, JoinedText
  <2>2. f[Len(t) + 1] = <<>> /\ \A i \in 1 .. Len(t) : f[i] = put[i] \o f[next[i]]
    BY <2>1 DEF Spells
  <2>3. \A i \in 1 .. Len(t) + 1 : f[i] = Body(f)[i]
    <3>1. f[Len(t) + 1] = Body(f)[Len(t) + 1]
      BY <1>4, <2>2
    <3>2. \A i \in 1 .. Len(t) : f[i] = Body(f)[i]
      BY <1>7, <2>2
    <3> QED
      BY <1>1, <3>1, <3>2
  <2>4. f = [i \in 1 .. Len(t) + 1 |-> f[i]] /\ Body(f) = [i \in 1 .. Len(t) + 1 |-> Body(f)[i]]
    BY <1>4
  <2> QED
    BY <2>3, <2>4
<1>9. PICK g : g = Body(g) /\ WithinLeafEdits(t) = g[1]
  BY <1>3, <1>8
<1>10. Spells(g, Len(t), put, next)
  BY <1>4, <1>7, <1>9 DEF Spells
<1>11. \A i \in 1 .. Len(t) + 1 : g[i] \in Seq(TokenEdits(t))
  BY <1>1, <1>10, JoinedTextTyped
<1>12. \A i \in 1 .. Len(t) : g[i] = Own(t, i) \o g[i + Stride(t, i)]
  <2>1. ASSUME NEW i \in 1 .. Len(t) PROVE g[i] = Own(t, i) \o g[i + Stride(t, i)]
    <3>1. g[i] = (IF u(i) \in Mapped THEN <<e(i)>> ELSE <<>>) \o g[IF n(i) = 0 THEN i + 1 ELSE i + n(i)]
      BY <1>4, <1>9
    <3>2. (IF u(i) \in Mapped THEN <<e(i)>> ELSE <<>>) = Own(t, i)
      BY DEF u, e, Own
    <3>3. (IF n(i) = 0 THEN i + 1 ELSE i + n(i)) = i + Stride(t, i)
      BY DEF n, Stride
    <3> QED
      BY <3>1, <3>2, <3>3
  <2> QED
    BY <2>1
<1>13. g[Len(t) + 1] = <<>>
  BY <1>4, <1>9
<1> QED
  BY <1>1, <1>9, <1>11, <1>12, <1>13 DEF Scanned

LEMMA WithinLeafIs ==
  ASSUME NEW S, NEW t \in Seq(S) PROVE WithinLeafEdits(t) \in Seq(TokenEdits(t))
<1>1. 1 \in 1 .. Len(t) + 1
  BY LenProperties
<1> QED
  BY <1>1, WithinLeafFrom DEF Scanned

LEMMA WithinLeafText ==
  ASSUME NEW S, SecretCells \subseteq S, NEW t \in Seq(S)
  PROVE  WithinLeafEdits(t) \in Seq(Edit(S, Len(t)))
<1>1. Len(t) \in Nat
  BY LenProperties
<1>2. ASSUME NEW i \in 1 .. Len(t) PROVE TokenEdit(t, i) \in Edit(S, Len(t))
  <2> DEFINE n == TokenLen(From(t, i))
             u == TokenAt(t, i)
  <2>1. From(t, i) \in Seq(S) /\ Len(From(t, i)) = Len(t) + 1 - i
    BY <1>1, FromIsTail
  <2>2. n \in 0 .. Len(t) + 1 - i
    BY <2>1, TokenLies
  <2>3. TokenEdit(t, i) = [from |-> i, to |-> i + n, rep |-> Backfilled(u, TRUE)]
    BY DEF TokenEdit
  <2>4. u = SubSeq(t, i, i + n - 1)
    BY DEF TokenAt
  <2> HIDE DEF n, u
  <2>5. u \in Seq(S)
    <3>1. \A j \in i .. i + n - 1 : t[j] \in S
      BY <1>1, <2>2, ElementOfSeq
    <3> QED
      BY <1>1, <2>2, <2>4, <3>1, SubSeqProperties
  <2>6. Backfilled(u, TRUE) \in Seq(S)
    BY <2>5, BackfilledText
  <2>7. i \in Nat /\ i + n \in 0 .. Len(t) + 1
    BY <1>1, <2>2
  <2> DEFINE rep == Backfilled(u, TRUE)
             to  == i + n
             len == Len(t)
  <2>8. i \in Nat /\ to \in 0 .. len + 1 /\ rep \in Seq(S) /\ TokenEdit(t, i) = [from |-> i, to |-> to, rep |-> rep]
    BY <2>3, <2>6, <2>7
  <2> HIDE DEF rep, to, len
  <2>9. [from |-> i, to |-> to, rep |-> rep] \in Edit(S, len)
    BY <2>8 DEF Edit
  <2> QED
    BY <2>8, <2>9 DEF len
<1> DEFINE A == TokenEdits(t)
           B == Edit(S, Len(t))
           w == WithinLeafEdits(t)
<1>3. A \subseteq B
  BY <1>2 DEF TokenEdits
<1>4. w \in Seq(A)
  BY WithinLeafIs
<1> HIDE DEF A, B, w
<1>5. w \in Seq(B)
  BY <1>3, <1>4
<1> QED
  BY <1>5 DEF B, w

-----------------------------------------------------------------------------
(* What the writer releases, from each place of a text on. *)

\* What the writer makes of a text from each place on.
HeadOf(x, json) ==
  IF TokenLen(x) > 0 THEN Backfilled(SubSeq(x, 1, TokenLen(x)), json) ELSE <<x[1]>>
Halts(x)   == TokenLen(x) <= 0 /\ PrefixLen(x) = Len(x)
Trimmed(r) ==
  LET drop == Len(r.held) - MaxTokenLen
  IN  IF drop <= 0 THEN r
      ELSE [out |-> r.out \o SubSeq(r.held, 1, drop), held |-> From(r.held, drop + 1)]
ReleasedBy(g, S, h, json) ==
  /\ \A i \in 1 .. Len(h) + 1 : g[i] \in [out : Seq(S), held : Seq(S)]
  /\ g[Len(h) + 1] = [out |-> <<>>, held |-> <<>>]
  /\ \A i \in 1 .. Len(h) :
       g[i] = IF Halts(From(h, i)) THEN [out |-> <<>>, held |-> From(h, i)]
              ELSE [g[i + Stride(h, i)] EXCEPT !.out = HeadOf(From(h, i), json) \o @]
  /\ Release(h, json) = Trimmed(g[1])

LEMMA ReleaseFrom ==
  ASSUME NEW S, SecretCells \subseteq S, NEW h \in Seq(S), NEW json
  PROVE  \E g : ReleasedBy(g, S, h, json)
<1> DEFINE R       == [out : Seq(S), held : Seq(S)]
           rest(i) == From(h, i)
           n(i)    == TokenLen(rest(i))
           stop(i) == n(i) <= 0 /\ PrefixLen(rest(i)) = Len(rest(i))
           end(i)  == [out |-> <<>>, held |-> rest(i)]
           cells(i) == IF n(i) > 0 THEN Backfilled(SubSeq(rest(i), 1, n(i)), json)
                       ELSE <<rest(i)[1]>>
           Body(f) == [i \in 1 .. Len(h) + 1 |->
                         IF rest(i) = <<>> THEN [out |-> <<>>, held |-> <<>>]
                         ELSE IF n(i) > 0
                           THEN [f[i + n(i)] EXCEPT
                                  !.out = Backfilled(SubSeq(rest(i), 1, n(i)), json) \o @]
                         ELSE IF PrefixLen(rest(i)) = Len(rest(i))
                           THEN [out |-> <<>>, held |-> rest(i)]
                         ELSE [f[i + 1] EXCEPT !.out = <<rest(i)[1]>> \o @]]
           none    == [out |-> <<>>, held |-> <<>>]
<1>1. Len(h) \in Nat
  BY LenProperties
<1>2. ASSUME NEW i \in 1 .. Len(h)
      PROVE  /\ rest(i) \in Seq(S) /\ rest(i) # <<>>
             /\ n(i) \in 0 .. Len(h) + 1 - i
             /\ cells(i) \in Seq(S)
  <2>1. rest(i) \in Seq(S) /\ Len(rest(i)) = Len(h) + 1 - i
    BY <1>1, FromIsTail
  <2>2. rest(i) # <<>>
    BY <1>1, <2>1
  <2>3. n(i) \in 0 .. Len(h) + 1 - i
    BY <2>1, TokenLies
  <2> HIDE DEF rest
  <2>4. \A j \in 1 .. Len(rest(i)) : rest(i)[j] \in S
    BY <2>1, ElementOfSeq
  <2>5. <<rest(i)[1]>> \in Seq(S)
    <3>1. rest(i)[1] \in S
      BY <1>1, <2>1, <2>4
    <3> QED
      BY <3>1
  <2> HIDE DEF n
  <2>6. SubSeq(rest(i), 1, n(i)) \in Seq(S)
    BY <1>1, <2>1, <2>3, <2>4, SubSeqProperties
  <2>7. Backfilled(SubSeq(rest(i), 1, n(i)), json) \in Seq(S)
    BY <2>6, BackfilledText
  <2> QED
    BY <2>1, <2>2, <2>3, <2>5, <2>7
<1>3. rest(Len(h) + 1) = <<>>
  <2>1. Len(rest(Len(h) + 1)) = 0 /\ rest(Len(h) + 1) \in Seq(S)
    BY <1>1, FromIsTail
  <2> HIDE DEF rest
  <2> QED
    BY <2>1, EmptySeq
<1> HIDE DEF rest, n
<1>4. ASSUME NEW f
      PROVE  /\ Body(f)[Len(h) + 1] = none
             /\ Body(f) = [i \in 1 .. Len(h) + 1 |-> Body(f)[i]]
  BY <1>1, <1>3
<1>5. ASSUME NEW f, NEW i \in 1 .. Len(h)
      PROVE  Body(f)[i] =
               IF stop(i) THEN end(i)
               ELSE [f[IF n(i) > 0 THEN i + n(i) ELSE i + 1] EXCEPT !.out = cells(i) \o @]
  <2>1. i \in 1 .. Len(h) + 1 /\ rest(i) # <<>> /\ n(i) \in Nat
    BY <1>1, <1>2
  <2>2. CASE n(i) > 0
    BY <2>1, <2>2
  <2>3. CASE ~ (n(i) > 0)
    <3>1. n(i) <= 0
      BY <2>1, <2>3
    <3> QED
      BY <2>1, <2>3, <3>1
  <2> QED
    BY <2>2, <2>3

<1> HIDE DEF stop, end, cells, Body
<1>6. none \in R /\ \A i \in 1 .. Len(h) : end(i) \in R
  <2>1. \A i \in 1 .. Len(h) : end(i) \in R
    BY <1>2 DEF end
  <2> QED
    BY <2>1
<1> HIDE DEF none
<1>7. PICK next \in Onward(Len(h)) :
        \A i \in 1 .. Len(h) : next[i] = IF n(i) > 0 THEN i + n(i) ELSE i + 1
  <2> DEFINE nx == [i \in 1 .. Len(h) |-> IF n(i) > 0 THEN i + n(i) ELSE i + 1]
  <2>1. \A i \in 1 .. Len(h) : nx[i] \in 1 .. Len(h) + 1 /\ nx[i] > i
    BY <1>1, <1>2
  <2>2. nx \in Onward(Len(h))
    BY <2>1 DEF Onward
  <2>3. \A i \in 1 .. Len(h) : nx[i] = IF n(i) > 0 THEN i + n(i) ELSE i + 1
    OBVIOUS
  <2> HIDE DEF nx
  <2> QED
    BY <2>2, <2>3
<1> DEFINE Step(i, x) == IF stop(i) THEN end(i) ELSE [x EXCEPT !.out = cells(i) \o @]
<1>8. \A i \in 1 .. Len(h), x \in R : Step(i, x) \in R
  <2>1. ASSUME NEW i \in 1 .. Len(h), NEW x \in R PROVE Step(i, x) \in R
    <3>1. cells(i) \o x.out \in Seq(S)
      BY <1>2, ConcatProperties
    <3>2. [x EXCEPT !.out = cells(i) \o @] \in R
      BY <3>1
    <3> QED
      BY <1>6, <3>2
  <2> QED
    BY <2>1
<1>9. ASSUME NEW f, NEW i \in 1 .. Len(h) PROVE Body(f)[i] = Step(i, f[next[i]])
  <2>1. next[i] = IF n(i) > 0 THEN i + n(i) ELSE i + 1
    BY <1>7
  <2>2. Body(f)[i] =
          IF stop(i) THEN end(i)
          ELSE [f[IF n(i) > 0 THEN i + n(i) ELSE i + 1] EXCEPT !.out = cells(i) \o @]
    BY <1>5
  <2> QED
    BY <2>1, <2>2, Zenon
<1> HIDE DEF Step, R
<1>10. \E f : f = Body(f)
  <2> DEFINE step == [i \in 1 .. Len(h) |-> [x \in R |-> Step(i, x)]]
  <2>1. step \in [1 .. Len(h) -> [R -> R]]
    BY <1>8
  <2>2. \A i \in 1 .. Len(h), x \in R : step[i][x] = Step(i, x)
    OBVIOUS
  <2> HIDE DEF step
  <2>3. PICK f \in [1 .. Len(h) + 1 -> R] : Solves(f, Len(h), none, step, next)
    BY <1>1, <1>6, <2>1, BackwardRecursion
  <2>4. \A i \in 1 .. Len(h) : next[i] \in 1 .. Len(h) + 1
    BY DEF Onward
  <2>5. \A i \in 1 .. Len(h) : f[i] = Step(i, f[next[i]])
    BY <2>2, <2>3, <2>4 DEF Solves
  <2>6. \A i \in 1 .. Len(h) + 1 : f[i] = Body(f)[i]
    <3>1. f[Len(h) + 1] = Body(f)[Len(h) + 1]
      BY <1>4, <2>3 DEF Solves
    <3>2. \A i \in 1 .. Len(h) : f[i] = Body(f)[i]
      BY <1>9, <2>5
    <3> QED
      BY <1>1, <3>1, <3>2
  <2>7. f = [i \in 1 .. Len(h) + 1 |-> f[i]] /\ Body(f) = [i \in 1 .. Len(h) + 1 |-> Body(f)[i]]
    BY <1>4
  <2> QED
    BY <2>6, <2>7
<1>11. PICK g : g = Body(g) /\ g = CHOOSE f : f = Body(f)
  BY <1>10
<1>12. ASSUME NEW i \in 1 .. Len(h) + 1 PROVE g[i] \in R
  <2>1. g[Len(h) + 1] \in R
    BY <1>4, <1>6, <1>11
  <2>2. \A j \in 1 .. Len(h) : g[next[j]] \in R => g[j] \in R
    BY <1>8, <1>9, <1>11
  <2> QED
    BY <1>1, <2>1, <2>2, BackwardInduction
<1>13. ASSUME NEW i \in 1 .. Len(h)
       PROVE  g[i] = IF Halts(From(h, i)) THEN [out |-> <<>>, held |-> From(h, i)]
                     ELSE [g[i + Stride(h, i)] EXCEPT !.out = HeadOf(From(h, i), json) \o @]
  <2>1. next[i] = i + Stride(h, i)
    <3>1. n(i) \in Nat
      BY <1>1, <1>2
    <3> QED
      BY <1>7, <3>1 DEF Stride, n, rest
  <2>2. stop(i) = Halts(From(h, i)) /\ cells(i) = HeadOf(From(h, i), json)
        /\ end(i) = [out |-> <<>>, held |-> From(h, i)]
    BY DEF stop, cells, end, Halts, HeadOf, n, rest
  <2>3. g[i] = Step(i, g[next[i]])
    BY <1>9, <1>11
  <2> QED
    BY <2>1, <2>2, <2>3 DEF Step
<1>14. Release(h, json) = Trimmed(g[1]) /\ g[Len(h) + 1] = [out |-> <<>>, held |-> <<>>]
  <2>1. Release(h, json) = Trimmed(g[1])
    BY <1>11 DEF Release, Trimmed, Body, rest, n
  <2>2. g[Len(h) + 1] = [out |-> <<>>, held |-> <<>>]
    BY <1>4, <1>11 DEF none
  <2> QED
    BY <2>1, <2>2
<1> QED
  BY <1>12, <1>13, <1>14 DEF ReleasedBy, R

\* What the writer releases and holds are texts, and it holds no more than the
\* longest placeholder.
LEMMA ReleaseText ==
  ASSUME NEW S, SecretCells \subseteq S, NEW h \in Seq(S), NEW json
  PROVE  /\ Release(h, json) \in [out : Seq(S), held : Seq(S)]
         /\ Len(Release(h, json).held) <= MaxTokenLen
<1>11. PICK g : ReleasedBy(g, S, h, json)
  BY ReleaseFrom
<1>12. g[1] \in [out : Seq(S), held : Seq(S)]
  <2>1. 1 \in 1 .. Len(h) + 1
    BY LenProperties
  <2> QED
    BY <1>11, <2>1 DEF ReleasedBy
<1> DEFINE drop == Len(g[1].held) - MaxTokenLen
<1>13. Release(h, json) =
         IF drop <= 0 THEN g[1]
         ELSE [out  |-> g[1].out \o SubSeq(g[1].held, 1, drop), held |-> From(g[1].held, drop + 1)]
  BY <1>11 DEF ReleasedBy, Trimmed
<1>14. MaxTokenLen \in Nat /\ Len(g[1].held) \in Nat /\ g[1].out \in Seq(S) /\ g[1].held \in Seq(S)
  <2>1. g[1].out \in Seq(S) /\ g[1].held \in Seq(S)
    BY <1>12
  <2> QED
    BY <2>1, LongestToken, LenProperties
<1>15. CASE drop <= 0
  BY <1>12, <1>13, <1>14, <1>15
<1>16. CASE drop > 0
  <2>1. drop \in 1 .. Len(g[1].held) /\ ~ (drop <= 0)
    BY <1>14, <1>16
  <2>2. From(g[1].held, drop + 1) \in Seq(S) /\ Len(From(g[1].held, drop + 1)) = MaxTokenLen
    <3>1. drop + 1 \in 1 .. Len(g[1].held) + 1 /\ Len(g[1].held) + 1 - (drop + 1) = MaxTokenLen
      BY <1>14, <2>1
    <3> HIDE DEF drop
    <3> QED
      BY <1>14, <3>1, FromIsTail
  <2>3. SubSeq(g[1].held, 1, drop) \in Seq(S)
    <3> HIDE DEF drop
    <3>1. \A j \in 1 .. drop : g[1].held[j] \in S
      BY <1>14, <2>1, ElementOfSeq
    <3> QED
      BY <1>14, <2>1, <3>1, SubSeqProperties
  <2>4. g[1].out \o SubSeq(g[1].held, 1, drop) \in Seq(S)
    BY <1>14, <2>3, ConcatProperties
  <2> HIDE DEF drop
  <2>5. Release(h, json) =
          [out  |-> g[1].out \o SubSeq(g[1].held, 1, drop), held |-> From(g[1].held, drop + 1)]
    BY <1>13, <2>1
  <2> QED
    BY <1>14, <2>2, <2>4, <2>5
<1> QED
  BY <1>14, <1>15, <1>16

-----------------------------------------------------------------------------
(* Texts put together from a sequence of texts. *)

LEMMA JoinUnfolds ==
  ASSUME NEW S, NEW ss \in Seq(Seq(S)), Len(ss) # 0
  PROVE  \E f \in [1 .. Len(ss) -> Seq(S)] :
           /\ f[1] = ss[1] /\ Join(ss) = f[Len(ss)]
           /\ \A i \in 2 .. Len(ss) : f[i] = f[i - 1] \o ss[i]
<1> DEFINE Body(f) == [i \in 1 .. Len(ss) |-> IF i = 1 THEN ss[i] ELSE f[i - 1] \o ss[i]]
           step    == [i \in 1 .. Len(ss) |-> [x \in Seq(S) |-> x \o ss[i]]]
<1>0. Len(ss) \in Nat /\ 1 \in 1 .. Len(ss)
  BY LenProperties
<1>1. \A i \in 1 .. Len(ss) : ss[i] \in Seq(S)
  BY ElementOfSeq
<1>2. Join(ss) = (CHOOSE f : f = Body(f))[Len(ss)]
  BY DEF Join, FlattenSeq
<1>3. ASSUME NEW f
      PROVE  /\ Body(f)[1] = ss[1]
             /\ \A i \in 2 .. Len(ss) : Body(f)[i] = f[i - 1] \o ss[i]
             /\ Body(f) = [i \in 1 .. Len(ss) |-> Body(f)[i]]
  <2>1. Body(f)[1] = ss[1]
    BY <1>0
  <2>2. ASSUME NEW i \in 2 .. Len(ss) PROVE Body(f)[i] = f[i - 1] \o ss[i]
    <3>1. i \in 1 .. Len(ss) /\ i # 1
      BY <1>0
    <3> QED
      BY <3>1
  <2>3. Body(f) = [i \in 1 .. Len(ss) |-> Body(f)[i]]
    OBVIOUS
  <2> QED
    BY <2>1, <2>2, <2>3
<1> HIDE DEF Body
<1>4. \E f : f = Body(f)
  <2>1. step \in [1 .. Len(ss) -> [Seq(S) -> Seq(S)]] /\ <<>> \in Seq(S)
    <3>1. \A i \in 1 .. Len(ss), x \in Seq(S) : x \o ss[i] \in Seq(S)
      BY <1>1, ConcatProperties
    <3> QED
      BY <3>1
  <2>2. \A i \in 1 .. Len(ss), x \in Seq(S) : step[i][x] = x \o ss[i]
    OBVIOUS
  <2> HIDE DEF step
  <2>3. PICK h \in [0 .. Len(ss) -> Seq(S)] : Unfolds(h, Len(ss), <<>>, step)
    BY <1>0, <2>1, ForwardRecursion
  <2>4. h[0] = <<>> /\ \A i \in 1 .. Len(ss) : h[i] = h[i - 1] \o ss[i]
    <3>1. h[0] = <<>> /\ \A i \in 1 .. Len(ss) : h[i] = step[i][h[i - 1]]
      BY <2>3 DEF Unfolds
    <3>2. ASSUME NEW i \in 1 .. Len(ss) PROVE h[i - 1] \in Seq(S)
      <4>1. i - 1 \in 0 .. Len(ss)
        BY <1>0
      <4> QED
        BY <4>1
    <3> QED
      BY <2>2, <3>1, <3>2
  <2> DEFINE f == [i \in 1 .. Len(ss) |-> h[i]]
  <2>5. \A i \in 1 .. Len(ss) : f[i] = Body(f)[i]
    <3>1. f[1] = Body(f)[1]
      <4>1. h[1] = h[0] \o ss[1] /\ h[0] = <<>> /\ ss[1] \in Seq(S)
        <5>1. 1 - 1 = 0
          OBVIOUS
        <5> QED
          BY <1>0, <1>1, <2>4, <5>1
      <4>2. h[1] = ss[1]
        BY <4>1, ConcatEmptySeq
      <4> QED
        BY <1>0, <1>3, <4>2
    <3>2. ASSUME NEW i \in 2 .. Len(ss) PROVE f[i] = Body(f)[i]
      <4>0. i \in 1 .. Len(ss) /\ i - 1 \in 1 .. Len(ss)
        BY <1>0
      <4>1. f[i] = h[i] /\ f[i - 1] = h[i - 1] /\ h[i] = h[i - 1] \o ss[i]
        BY <2>4, <4>0
      <4> HIDE DEF f
      <4> QED
        BY <1>3, <4>1
    <3> HIDE DEF f
    <3>3. \A i \in 1 .. Len(ss) : i = 1 \/ i \in 2 .. Len(ss)
      BY <1>0
    <3> QED
      BY <3>1, <3>2, <3>3
  <2>6. f = [i \in 1 .. Len(ss) |-> f[i]]
    OBVIOUS
  <2> HIDE DEF f
  <2>7. Body(f) = [i \in 1 .. Len(ss) |-> Body(f)[i]]
    BY <1>3
  <2> QED
    BY <2>5, <2>6, <2>7
<1>5. PICK g : g = Body(g) /\ Join(ss) = g[Len(ss)]
  BY <1>2, <1>4
<1>6. g[1] = ss[1] /\ \A i \in 2 .. Len(ss) : g[i] = g[i - 1] \o ss[i]
  BY <1>3, <1>5
<1>7. g \in [1 .. Len(ss) -> Seq(S)]
  <2> DEFINE T == {m \in Nat : m + 1 <= Len(ss) => g[m + 1] \in Seq(S)}
  <2>1. 0 \in T
    BY <1>0, <1>1, <1>6
  <2>2. ASSUME NEW m \in Nat, m \in T PROVE m + 1 \in T
    <3>1. SUFFICES ASSUME m + 2 <= Len(ss) PROVE g[m + 2] \in Seq(S)
      OBVIOUS
    <3>2. g[m + 2] = g[m + 1] \o ss[m + 2] /\ g[m + 1] \in Seq(S) /\ ss[m + 2] \in Seq(S)
      <4>1. m + 2 \in 1 .. Len(ss) /\ m + 2 \in 2 .. Len(ss) /\ (m + 2) - 1 = m + 1
        BY <1>0, <3>1
      <4>2. g[m + 2] = g[(m + 2) - 1] \o ss[m + 2]
        BY <1>6, <4>1
      <4>3. g[m + 1] \in Seq(S)
        BY <1>0, <2>2, <3>1
      <4> QED
        BY <1>1, <4>1, <4>2, <4>3
    <3> QED
      BY <3>2, ConcatProperties
  <2>3. \A m \in Nat : m \in T
    <3> HIDE DEF T
    <3> QED
      BY <2>1, <2>2, Induction
  <2>4. \A i \in 1 .. Len(ss) : g[i] \in Seq(S)
    <3>1. ASSUME NEW i \in 1 .. Len(ss) PROVE g[i] \in Seq(S)
      <4>1. i - 1 \in Nat /\ (i - 1) + 1 = i /\ i <= Len(ss)
        BY <1>0
      <4>2. i - 1 \in T
        BY <2>3, <4>1
      <4> QED
        BY <4>1, <4>2
    <3> QED
      BY <3>1
  <2>5. g = [i \in 1 .. Len(ss) |-> g[i]]
    BY <1>3, <1>5
  <2> QED
    BY <2>4, <2>5
<1> QED
  BY <1>5, <1>6, <1>7

LEMMA JoinNone == Join(<<>>) = <<>>
BY DEF Join, FlattenSeq

LEMMA JoinOne ==
  ASSUME NEW S, NEW t \in Seq(S) PROVE Join(<<t>>) = t
<1> DEFINE ss == <<t>>
<1>1. ss \in Seq(Seq(S)) /\ Len(ss) = 1 /\ ss[1] = t
  OBVIOUS
<1> HIDE DEF ss
<1>2. Len(ss) # 0
  BY <1>1
<1>3. Join(ss) = ss[1]
  BY <1>1, <1>2, JoinUnfolds
<1> QED
  BY <1>1, <1>3 DEF ss

\* One more text comes at the end.
LEMMA JoinAppend ==
  ASSUME NEW S, NEW ss \in Seq(Seq(S)), NEW t \in Seq(S), Len(ss) # 0
  PROVE  Join(Append(ss, t)) = Join(ss) \o t
<1> DEFINE n  == Len(ss)
           tt == Append(ss, t)
<1>1. n \in Nat /\ tt \in Seq(Seq(S)) /\ Len(tt) = n + 1
  BY LenProperties
<1>2. tt[n + 1] = t /\ \A i \in 1 .. n : tt[i] = ss[i]
  BY LenProperties
<1>3. PICK f \in [1 .. n -> Seq(S)] :
        f[1] = ss[1] /\ Join(ss) = f[n] /\ \A i \in 2 .. n : f[i] = f[i - 1] \o ss[i]
  BY JoinUnfolds
<1> HIDE DEF tt
<1>4. PICK g \in [1 .. Len(tt) -> Seq(S)] :
        /\ g[1] = tt[1] /\ Join(tt) = g[Len(tt)]
        /\ \A i \in 2 .. Len(tt) : g[i] = g[i - 1] \o tt[i]
  <2>1. Len(tt) # 0
    BY <1>1
  <2> QED
    BY <1>1, <2>1, JoinUnfolds
<1> HIDE DEF n
<1> DEFINE T == {m \in Nat : m + 1 <= n => g[m + 1] = f[m + 1]}
<1>5. 0 \in T
  BY <1>1, <1>2, <1>3, <1>4
<1>6. ASSUME NEW m \in Nat, m \in T PROVE m + 1 \in T
  <2>1. SUFFICES ASSUME m + 2 <= n PROVE g[m + 2] = f[m + 2]
    OBVIOUS
  <2>2. m + 2 \in 2 .. n /\ m + 2 \in 2 .. Len(tt) /\ m + 2 \in 1 .. n /\ (m + 2) - 1 = m + 1
    BY <1>1, <2>1
  <2>3. g[m + 1] = f[m + 1]
    BY <1>1, <1>6, <2>1
  <2>4. f[m + 2] = f[m + 1] \o ss[m + 2]
    BY <1>3, <2>2
  <2>5. g[m + 2] = g[m + 1] \o tt[m + 2]
    BY <1>4, <2>2
  <2> QED
    BY <1>2, <2>2, <2>3, <2>4, <2>5
<1>7. \A m \in Nat : m \in T
  <2> HIDE DEF T
  <2> QED
    BY <1>5, <1>6, Induction
<1>8. g[n] = f[n]
  <2>1. n # 0 /\ n - 1 \in Nat /\ (n - 1) + 1 = n
    BY <1>1 DEF n
  <2>2. n - 1 \in T
    BY <1>7, <2>1
  <2> QED
    BY <2>1, <2>2
<1>9. g[n + 1] = g[n] \o t
  <2>1. n # 0 /\ n + 1 \in 2 .. Len(tt) /\ (n + 1) - 1 = n
    BY <1>1 DEF n
  <2> QED
    BY <1>2, <1>4, <2>1
<1> QED
  BY <1>1, <1>3, <1>4, <1>8, <1>9 DEF tt

-----------------------------------------------------------------------------
(* Placeholders in a text: at most one begins at each place, and what follows *)
(* does not change it.                                                        *)

LEMMA TokenText ==
  \A t \in Tokens : t \in Seq(Cells) /\ Len(t) \in Nat \ {0} /\ t \in Seq(Plain)
<1>1. ASSUME NEW t \in Tokens PROVE t \in Seq(Cells) /\ Len(t) \in Nat \ {0} /\ t \in Seq(Plain)
  <2>1. t \in Seq(TokenCells) /\ t # <<>>
    BY GrammarOK
  <2>2. TokenCells \subseteq Cells /\ TokenCells \subseteq Plain
    BY DEF Cells, Plain
  <2>3. Len(t) \in Nat \ {0}
    BY <2>1, EmptySeq
  <2> QED
    BY <2>1, <2>2, <2>3, SeqMonotonic
<1> QED
  BY <1>1

\* A head of a text, cell by cell.
LEMMA PrefixIs ==
  ASSUME NEW S, NEW u \in Seq(S), NEW t \in Seq(S)
  PROVE  IsPrefix(u, t) <=> Len(u) <= Len(t) /\ \A i \in 1 .. Len(u) : u[i] = t[i]
<1>1. Len(u) \in Nat /\ Len(t) \in Nat
  BY LenProperties
<1>2. SubSeq(u, 1, Len(u)) = u
  BY SubSeqFull
<1>3. ASSUME Len(u) <= Len(t)
      PROVE  /\ SubSeq(t, 1, Len(u)) \in Seq(S) /\ Len(SubSeq(t, 1, Len(u))) = Len(u)
             /\ \A i \in 1 .. Len(u) : SubSeq(t, 1, Len(u))[i] = t[i]
  <2>1. \A i \in 1 .. Len(u) : t[i] \in S
    BY <1>1, <1>3, ElementOfSeq
  <2>2. 1 \in Int /\ Len(u) \in Int /\ Len(u) - 1 + 1 = Len(u) /\ \A i \in 1 .. Len(u) : 1 + i - 1 = i
    BY <1>1
  <2>3. Len(SubSeq(t, 1, Len(u))) = IF 1 <= Len(u) THEN Len(u) - 1 + 1 ELSE 0
    BY <2>1, <2>2, SubSeqProperties
  <2>4. /\ SubSeq(t, 1, Len(u)) \in Seq(S)
        /\ \A i \in 1 .. Len(u) - 1 + 1 : SubSeq(t, 1, Len(u))[i] = t[1 + i - 1]
    BY <2>1, <2>2, SubSeqProperties
  <2> QED
    BY <1>1, <2>2, <2>3, <2>4
<1>4. IsPrefix(u, t) <=> Len(u) <= Len(t) /\ u = SubSeq(t, 1, Len(u))
  BY <1>2 DEF IsPrefix
<1>5. ASSUME Len(u) <= Len(t), \A i \in 1 .. Len(u) : u[i] = t[i] PROVE u = SubSeq(t, 1, Len(u))
  BY <1>3, <1>5, SeqEqual
<1>6. ASSUME Len(u) <= Len(t), u = SubSeq(t, 1, Len(u)) PROVE \A i \in 1 .. Len(u) : u[i] = t[i]
  BY <1>3, <1>6
<1> QED
  BY <1>4, <1>5, <1>6

\* At most one placeholder begins a text.
LEMMA TokensApart ==
  ASSUME NEW t \in Seq(Cells), NEW u \in Tokens, NEW v \in Tokens, IsPrefix(u, t), IsPrefix(v, t)
  PROVE  u = v
<1>1. /\ u \in Seq(Cells) /\ v \in Seq(Cells) /\ Len(u) \in Nat /\ Len(v) \in Nat
  BY TokenText
<1>2. /\ Len(u) <= Len(t) /\ \A i \in 1 .. Len(u) : u[i] = t[i]
      /\ Len(v) <= Len(t) /\ \A i \in 1 .. Len(v) : v[i] = t[i]
  BY <1>1, PrefixIs
<1>3. CASE Len(u) <= Len(v)
  <2>1. \A i \in 1 .. Len(u) : u[i] = v[i]
    BY <1>1, <1>2, <1>3
  <2>2. IsPrefix(u, v)
    BY <1>1, <1>3, <2>1, PrefixIs
  <2> QED
    BY <2>2, GrammarOK
<1>4. CASE Len(v) <= Len(u)
  <2>1. \A i \in 1 .. Len(v) : v[i] = u[i]
    BY <1>1, <1>2, <1>4
  <2>2. IsPrefix(v, u)
    BY <1>1, <1>4, <2>1, PrefixIs
  <2> QED
    BY <2>2, GrammarOK
<1> QED
  BY <1>1, <1>3, <1>4

\* The placeholder a text begins with.
LEMMA TokenIs ==
  ASSUME NEW t \in Seq(Cells)
  PROVE  /\ TokenLen(t) \in Nat
         /\ \A u \in Tokens : IsPrefix(u, t) => TokenLen(t) = Len(u)
         /\ TokenLen(t) # 0 => \E u \in Tokens : IsPrefix(u, t) /\ TokenLen(t) = Len(u)
<1> DEFINE T == {0} \union {Len(u) : u \in {v \in Tokens : IsPrefix(v, t)}}
<1>1. TokenLen(t) = Max(T)
  BY DEF TokenLen
<1>2. Len(t) \in Nat /\ \A u \in Tokens : Len(u) \in Nat \ {0}
  BY TokenText, LenProperties
<1>3. Max(T) \in T /\ \A y \in T : Max(T) >= y
  <2>1. T \subseteq 0 .. Len(t)
    BY <1>2 DEF IsPrefix
  <2> HIDE DEF T
  <2>2. CASE T = {}
    BY <2>2 DEF T
  <2> QED
    BY <1>2, <2>1, <2>2, MaxUpTo
<1>4. ASSUME NEW u \in Tokens, IsPrefix(u, t) PROVE Max(T) = Len(u)
  <2>1. Len(u) \in T
    BY <1>4
  <2>2. Max(T) # 0
    BY <1>2, <1>3, <2>1
  <2>3. PICK v \in Tokens : IsPrefix(v, t) /\ Max(T) = Len(v)
    BY <1>3, <2>2
  <2>4. u = v
    BY <1>4, <2>3, TokensApart
  <2> QED
    BY <2>3, <2>4
<1>5. Max(T) # 0 => \E u \in Tokens : IsPrefix(u, t) /\ Max(T) = Len(u)
  BY <1>3
<1>6. Max(T) \in Nat
  BY <1>2, <1>3
<1> QED
  BY <1>1, <1>4, <1>5, <1>6

\* What follows a placeholder does not change it.
LEMMA TokenStays ==
  ASSUME NEW t \in Seq(Cells), NEW w \in Seq(Cells), TokenLen(t) # 0
  PROVE  TokenLen(t \o w) = TokenLen(t)
<1>1. PICK u \in Tokens : IsPrefix(u, t) /\ TokenLen(t) = Len(u)
  BY TokenIs
<1>2. u \in Seq(Cells) /\ Len(u) \in Nat /\ Len(t) \in Nat /\ Len(w) \in Nat
  BY TokenText, LenProperties
<1>3. /\ t \o w \in Seq(Cells) /\ Len(t \o w) = Len(t) + Len(w)
      /\ \A i \in 1 .. Len(t) : (t \o w)[i] = t[i]
  <2>1. \A i \in 1 .. Len(t) : i \in 1 .. Len(t) + Len(w) /\ i <= Len(t)
    BY <1>2
  <2> QED
    BY <2>1, ConcatProperties
<1> DEFINE tw == t \o w
<1>4. Len(u) <= Len(t) /\ \A i \in 1 .. Len(u) : u[i] = t[i]
  BY <1>1, <1>2, PrefixIs
<1> HIDE DEF tw
<1>5. Len(u) <= Len(tw) /\ \A i \in 1 .. Len(u) : u[i] = tw[i]
  BY <1>2, <1>3, <1>4 DEF tw
<1>6. IsPrefix(u, tw)
  BY <1>2, <1>3, <1>5, PrefixIs DEF tw
<1> QED
  BY <1>1, <1>3, <1>6, TokenIs DEF tw

\* The cells of a text from some place on, when another text follows or comes before.
LEMMA FromHead ==
  ASSUME NEW S, NEW t \in Seq(S), NEW w \in Seq(S), NEW i \in 1 .. Len(t) + 1
  PROVE  From(t \o w, i) = From(t, i) \o w
<1> DEFINE tw == t \o w
           a  == From(tw, i)
           f  == From(t, i)
           b  == f \o w
<1>1. Len(t) \in Nat /\ Len(w) \in Nat
  BY LenProperties
<1>2. /\ tw \in Seq(S) /\ Len(tw) = Len(t) + Len(w)
      /\ \A j \in 1 .. Len(t) + Len(w) : tw[j] = IF j <= Len(t) THEN t[j] ELSE w[j - Len(t)]
  BY ConcatProperties
<1>3. f \in Seq(S) /\ Len(f) = Len(t) + 1 - i /\ \A j \in 1 .. Len(t) + 1 - i : f[j] = t[i + j - 1]
  BY FromIsTail
<1> HIDE DEF f, tw
<1>4. /\ b \in Seq(S) /\ Len(b) = Len(f) + Len(w)
      /\ \A j \in 1 .. Len(f) + Len(w) : b[j] = IF j <= Len(f) THEN f[j] ELSE w[j - Len(f)]
  BY <1>3, ConcatProperties
<1>5. i \in 1 .. Len(tw) + 1
  BY <1>1, <1>2
<1>6. a \in Seq(S) /\ Len(a) = Len(tw) + 1 - i /\ \A j \in 1 .. Len(tw) + 1 - i : a[j] = tw[i + j - 1]
  BY <1>2, <1>5, FromIsTail
<1> HIDE DEF a, b
<1>7. Len(a) = Len(b)
  BY <1>1, <1>2, <1>3, <1>4, <1>6
<1>8. ASSUME NEW j \in 1 .. Len(a) PROVE a[j] = b[j]
  <2>1. CASE i + j - 1 <= Len(t)
    <3>1. i + j - 1 \in 1 .. Len(t) + Len(w) /\ j \in 1 .. Len(tw) + 1 - i
      BY <1>1, <1>2, <1>6, <2>1
    <3>2. a[j] = t[i + j - 1]
      BY <1>2, <1>6, <2>1, <3>1
    <3>3. j \in 1 .. Len(t) + 1 - i /\ j <= Len(f) /\ j \in 1 .. Len(f) + Len(w)
      BY <1>1, <1>3, <2>1
    <3>4. b[j] = t[i + j - 1]
      BY <1>3, <1>4, <3>3
    <3> QED
      BY <3>2, <3>4
  <2>2. CASE i + j - 1 > Len(t)
    <3>1. (i + j - 1) - Len(t) = j - Len(f)
      BY <1>1, <1>3
    <3>2. i + j - 1 \in 1 .. Len(t) + Len(w) /\ ~ (i + j - 1 <= Len(t))
      BY <1>1, <1>2, <1>6, <2>2
    <3>3. a[j] = w[(i + j - 1) - Len(t)]
      BY <1>2, <1>6, <3>2
    <3>4. j \in 1 .. Len(f) + Len(w) /\ ~ (j <= Len(f))
      BY <1>1, <1>3, <1>4, <1>7, <2>2
    <3>5. b[j] = w[j - Len(f)]
      BY <1>4, <3>4
    <3> QED
      BY <3>1, <3>3, <3>5
  <2> QED
    BY <1>1, <2>1, <2>2
<1> QED
  BY <1>4, <1>6, <1>7, <1>8, SeqEqual DEF a, b, tw, f

LEMMA FromRest ==
  ASSUME NEW S, NEW t \in Seq(S), NEW w \in Seq(S), NEW j \in 1 .. Len(w) + 1
  PROVE  From(t \o w, Len(t) + j) = From(w, j)
<1> DEFINE tw == t \o w
           i  == Len(t) + j
           a  == From(tw, i)
           b  == From(w, j)
<1>1. Len(t) \in Nat /\ Len(w) \in Nat
  BY LenProperties
<1>2. /\ tw \in Seq(S) /\ Len(tw) = Len(t) + Len(w)
      /\ \A k \in 1 .. Len(t) + Len(w) : tw[k] = IF k <= Len(t) THEN t[k] ELSE w[k - Len(t)]
  BY ConcatProperties
<1>3. b \in Seq(S) /\ Len(b) = Len(w) + 1 - j /\ \A k \in 1 .. Len(w) + 1 - j : b[k] = w[j + k - 1]
  BY FromIsTail
<1> HIDE DEF tw
<1>4. i \in 1 .. Len(tw) + 1
  BY <1>1, <1>2
<1>5. a \in Seq(S) /\ Len(a) = Len(tw) + 1 - i /\ \A k \in 1 .. Len(tw) + 1 - i : a[k] = tw[i + k - 1]
  BY <1>2, <1>4, FromIsTail
<1> HIDE DEF a, b
<1>6. Len(a) = Len(b)
  BY <1>1, <1>2, <1>3, <1>5
<1>7. ASSUME NEW k \in 1 .. Len(a) PROVE a[k] = b[k]
  <2>1. /\ i + k - 1 \in 1 .. Len(t) + Len(w) /\ ~ (i + k - 1 <= Len(t))
        /\ (i + k - 1) - Len(t) = j + k - 1
    BY <1>1, <1>2, <1>5
  <2>2. a[k] = w[j + k - 1]
    BY <1>2, <1>5, <2>1
  <2> QED
    BY <1>3, <1>6, <2>2
<1> QED
  BY <1>3, <1>5, <1>6, <1>7, SeqEqual DEF a, b, tw

\* A placeholder in a text, when another text follows or comes before.
LEMMA TokenWithMore ==
  ASSUME NEW t \in Seq(Cells), NEW w \in Seq(Cells), NEW i \in 1 .. Len(t),
         TokenLen(From(t, i)) # 0
  PROVE  TokenLen(From(t \o w, i)) = TokenLen(From(t, i))
<1>1. i \in 1 .. Len(t) + 1
  BY LenProperties
<1>2. From(t, i) \in Seq(Cells) /\ From(t \o w, i) = From(t, i) \o w
  BY <1>1, FromIsTail, FromHead
<1> QED
  BY <1>2, TokenStays

LEMMA TokenAfter ==
  ASSUME NEW t \in Seq(Cells), NEW w \in Seq(Cells), NEW j \in 1 .. Len(w)
  PROVE  TokenLen(From(t \o w, Len(t) + j)) = TokenLen(From(w, j))
<1>1. j \in 1 .. Len(w) + 1
  BY LenProperties
<1> QED
  BY <1>1, FromRest

\* Where no placeholder begins inside another one, none does in a head of it.
LEMMA CleanHead ==
  ASSUME NEW t \in Seq(Cells), NEW w \in Seq(Cells), Clean(t \o w) PROVE Clean(t)
<1>1. Len(t) \in Nat /\ Len(w) \in Nat /\ DOMAIN t = 1 .. Len(t)
  BY LenProperties
<1>2. t \o w \in Seq(Cells) /\ Len(t \o w) = Len(t) + Len(w)
  BY ConcatProperties
<1>3. DOMAIN (t \o w) = 1 .. Len(t) + Len(w)
  BY <1>2, LenProperties
<1>4. ASSUME NEW i \in TokensAt(t)
      PROVE  /\ i \in TokensAt(t \o w) /\ i \in 1 .. Len(t)
             /\ TokenLen(From(t \o w, i)) = TokenLen(From(t, i))
  <2>1. i \in 1 .. Len(t) /\ TokenLen(From(t, i)) > 0
    BY <1>1 DEF TokensAt
  <2>2. TokenLen(From(t, i)) # 0
    BY <2>1
  <2>3. TokenLen(From(t \o w, i)) = TokenLen(From(t, i))
    BY <2>1, <2>2, TokenWithMore
  <2>4. i \in 1 .. Len(t) + Len(w)
    BY <1>1, <2>1
  <2> QED
    BY <1>3, <2>1, <2>3, <2>4 DEF TokensAt
<1>5. ASSUME NEW i \in TokensAt(t), NEW j \in TokensAt(t), i < j
      PROVE  i + TokenLen(From(t, i)) <= j
  BY <1>4, <1>5 DEF Clean
<1> QED
  BY <1>5 DEF Clean

\* Where a placeholder begins in such a text, none crosses its beginning and none
\* begins inside it.
LEMMA NothingCrosses ==
  ASSUME NEW t \in Seq(Cells), NEW u \in Seq(Cells), TokenLen(u) # 0, Clean(t \o u)
  PROVE  /\ \A i \in 1 .. Len(t) : TokenLen(From(t \o u, i)) <= Len(t) + 1 - i
         /\ \A j \in 2 .. TokenLen(u) : TokenLen(From(u, j)) = 0
<1> DEFINE tu == t \o u
           n  == TokenLen(u)
<1>1. Len(t) \in Nat /\ Len(u) \in Nat /\ n \in 1 .. Len(u)
  <2>1. Len(t) \in Nat /\ Len(u) \in Nat
    BY LenProperties
  <2>2. n \in 0 .. Len(u)
    BY TokenLies
  <2> QED
    BY <2>1, <2>2
<1>2. tu \in Seq(Cells) /\ DOMAIN tu = 1 .. Len(t) + Len(u)
  <2>1. tu \in Seq(Cells) /\ Len(tu) = Len(t) + Len(u)
    BY ConcatProperties
  <2> HIDE DEF tu
  <2> QED
    BY <2>1, LenProperties
<1>3. \A j \in 1 .. Len(u) : TokenLen(From(tu, Len(t) + j)) = TokenLen(From(u, j))
  BY TokenAfter
<1>4. From(u, 1) = u
  BY SubSeqFull DEF From
<1>5. \A j \in 1 .. Len(u) : From(u, j) \in Seq(Cells) /\ TokenLen(From(u, j)) \in Nat
  <2>1. ASSUME NEW j \in 1 .. Len(u) PROVE From(u, j) \in Seq(Cells) /\ TokenLen(From(u, j)) \in Nat
    <3>1. j \in 1 .. Len(u) + 1
      BY <1>1
    <3>2. From(u, j) \in Seq(Cells)
      BY <3>1, FromIsTail
    <3> QED
      BY <3>2, TokenIs
  <2> QED
    BY <2>1
<1>6. \A i \in 1 .. Len(t) : From(tu, i) \in Seq(Cells) /\ TokenLen(From(tu, i)) \in Nat
  <2>1. ASSUME NEW i \in 1 .. Len(t) PROVE From(tu, i) \in Seq(Cells) /\ TokenLen(From(tu, i)) \in Nat
    <3>1. Len(tu) = Len(t) + Len(u)
      BY ConcatProperties
    <3>2. i \in 1 .. Len(tu) + 1
      BY <1>1, <3>1
    <3> HIDE DEF tu
    <3>3. From(tu, i) \in Seq(Cells)
      BY <1>2, <3>2, FromIsTail
    <3> QED
      BY <3>3, TokenIs
  <2> QED
    BY <2>1
<1>7. Clean(tu)
  OBVIOUS
<1> HIDE DEF tu, n
<1>8. Len(t) + 1 \in TokensAt(tu) /\ TokenLen(From(tu, Len(t) + 1)) = n
  <2>1. 1 \in 1 .. Len(u) /\ Len(t) + 1 \in 1 .. Len(t) + Len(u) /\ n > 0
    BY <1>1
  <2>2. TokenLen(From(tu, Len(t) + 1)) = n
    BY <1>3, <1>4, <2>1 DEF n
  <2> QED
    BY <1>2, <2>1, <2>2 DEF TokensAt
<1>9. ASSUME NEW i \in 1 .. Len(t) PROVE TokenLen(From(tu, i)) <= Len(t) + 1 - i
  <2>1. CASE TokenLen(From(tu, i)) = 0
    BY <1>1, <2>1
  <2>2. CASE TokenLen(From(tu, i)) # 0
    <3>1. i \in TokensAt(tu)
      BY <1>1, <1>2, <1>6, <2>2 DEF TokensAt
    <3>2. i < Len(t) + 1
      BY <1>1
    <3>3. i + TokenLen(From(tu, i)) <= Len(t) + 1
      BY <1>7, <1>8, <3>1, <3>2 DEF Clean
    <3> DEFINE l == TokenLen(From(tu, i))
    <3>4. l \in Nat /\ i + l <= Len(t) + 1
      BY <1>6, <3>3
    <3> HIDE DEF l
    <3>5. l <= Len(t) + 1 - i
      BY <1>1, <3>4
    <3> QED
      BY <3>5 DEF l
  <2> QED
    BY <2>1, <2>2
<1>10. ASSUME NEW j \in 2 .. n, TokenLen(From(u, j)) # 0 PROVE FALSE
  <2>1. j \in 1 .. Len(u) /\ Len(t) + j \in 1 .. Len(t) + Len(u) /\ Len(t) + 1 < Len(t) + j
    BY <1>1
  <2>2. TokenLen(From(tu, Len(t) + j)) > 0
    BY <1>3, <1>5, <1>10, <2>1
  <2>3. Len(t) + j \in TokensAt(tu)
    BY <1>2, <2>1, <2>2 DEF TokensAt
  <2>4. Len(t) + 1 + n <= Len(t) + j
    BY <1>7, <1>8, <2>1, <2>3 DEF Clean
  <2> QED
    BY <1>1, <2>4
<1> QED
  BY <1>9, <1>10 DEF tu, n

-----------------------------------------------------------------------------
(* Texts joined in two parts, and a restored text with its placeholders back. *)

\* A sequence without its last element, and that one.
LEMMA LastApart ==
  ASSUME NEW S, NEW n \in Nat, NEW t \in Seq(S), Len(t) = n + 1
  PROVE  \E f \in Seq(S), x \in S : Len(f) = n /\ t = f \o <<x>> /\ \A i \in 1 .. n : f[i] = t[i]
<1> DEFINE f == SubSeq(t, 1, n)
<1>1. \A i \in 1 .. Len(t) : t[i] \in S
  BY ElementOfSeq
<1>2. f \in Seq(S) /\ Len(f) = n /\ \A i \in 1 .. n : f[i] = t[i]
  <2>1. \A i \in 1 .. n : t[i] \in S
    BY <1>1
  <2>2. 1 \in Int /\ n \in Int /\ n - 1 + 1 = n /\ \A i \in 1 .. n : 1 + i - 1 = i
    OBVIOUS
  <2>3. Len(f) = IF 1 <= n THEN n - 1 + 1 ELSE 0
    BY <2>1, <2>2, SubSeqProperties
  <2>4. f \in Seq(S) /\ \A i \in 1 .. n - 1 + 1 : f[i] = t[1 + i - 1]
    BY <2>1, <2>2, SubSeqProperties
  <2> QED
    BY <2>2, <2>3, <2>4
<1>3. t = f \o <<t[n + 1]>>
  <2>1. 1 \in 1 .. Len(t) /\ n + 1 \in 1 .. Len(t) /\ (n + 1) - 1 = n
    OBVIOUS
  <2>2. SubSeq(t, 1, n + 1) = SubSeq(t, 1, (n + 1) - 1) \o <<t[n + 1]>>
    BY <2>1, SubSeqRecursiveSecond
  <2>3. SubSeq(t, 1, n + 1) = t
    BY SubSeqFull
  <2> QED
    BY <2>1, <2>2, <2>3
<1>4. t[n + 1] \in S
  BY <1>1
<1> HIDE DEF f
<1> QED
  BY <1>2, <1>3, <1>4

LEMMA JoinedTyped ==
  ASSUME NEW S, NEW ss \in Seq(Seq(S)) PROVE Join(ss) \in Seq(S)
<1>1. CASE Len(ss) = 0
  <2>1. ss = <<>> /\ <<>> \in Seq(S)
    BY <1>1, EmptySeq
  <2> QED
    BY <2>1, JoinNone
<1>2. CASE Len(ss) # 0
  <2>1. Len(ss) \in 1 .. Len(ss)
    BY <1>2, LenProperties
  <2>2. PICK f \in [1 .. Len(ss) -> Seq(S)] : Join(ss) = f[Len(ss)]
    BY <1>2, JoinUnfolds
  <2> QED
    BY <2>1, <2>2
<1> QED
  BY <1>1, <1>2

LEMMA JoinLast ==
  ASSUME NEW S, NEW ss \in Seq(Seq(S)), NEW t \in Seq(S)
  PROVE  Join(ss \o <<t>>) = Join(ss) \o t
<1>1. ss \o <<t>> = Append(ss, t)
  BY AppendIsConcat
<1>2. CASE Len(ss) = 0
  <2>1. ss = <<>>
    BY <1>2, EmptySeq
  <2>2. <<t>> \in Seq(Seq(S))
    OBVIOUS
  <2>3. ss \o <<t>> = <<t>> /\ Join(ss) = <<>> /\ <<>> \o t = t
    BY <2>1, <2>2, ConcatEmptySeq, JoinNone
  <2> QED
    BY <2>3, JoinOne
<1>3. CASE Len(ss) # 0
  BY <1>1, <1>3, JoinAppend
<1> QED
  BY <1>2, <1>3

LEMMA JoinConcat ==
  ASSUME NEW S, NEW ss \in Seq(Seq(S)), NEW tt \in Seq(Seq(S))
  PROVE  Join(ss \o tt) = Join(ss) \o Join(tt)
<1> DEFINE A == Seq(Seq(S))
           T == {n \in Nat : \A uu \in A : Len(uu) = n => Join(ss \o uu) = Join(ss) \o Join(uu)}
<1>0. Join(ss) \in Seq(S)
  BY JoinedTyped
<1>1. 0 \in T
  <2>1. ASSUME NEW uu \in A, Len(uu) = 0 PROVE Join(ss \o uu) = Join(ss) \o Join(uu)
    <3>1. uu = <<>>
      BY <2>1, EmptySeq
    <3>2. ss \o <<>> = ss /\ Join(ss) \o <<>> = Join(ss)
      BY <1>0, ConcatEmptySeq
    <3> QED
      BY <3>1, <3>2, JoinNone
  <2> QED
    BY <2>1
<1>2. ASSUME NEW n \in Nat, n \in T PROVE n + 1 \in T
  <2>1. ASSUME NEW uu \in A, Len(uu) = n + 1 PROVE Join(ss \o uu) = Join(ss) \o Join(uu)
    <3>0. \E f \in A, x \in Seq(S) :
            Len(f) = n /\ uu = f \o <<x>> /\ \A i \in 1 .. n : f[i] = uu[i]
      BY <2>1, LastApart
    <3>1. PICK f \in A, x \in Seq(S) : Len(f) = n /\ uu = f \o <<x>>
      BY <3>0
    <3>2. Join(ss \o f) = Join(ss) \o Join(f)
      BY <1>2, <3>1
    <3>3. /\ ss \o f \in A /\ <<x>> \in A /\ Join(f) \in Seq(S)
      BY ConcatProperties, JoinedTyped
    <3>4. ss \o uu = (ss \o f) \o <<x>>
      BY <3>1, <3>3, ConcatAssociative
    <3>5. Join((ss \o f) \o <<x>>) = Join(ss \o f) \o x /\ Join(f \o <<x>>) = Join(f) \o x
      BY <3>3, JoinLast
    <3>6. (Join(ss) \o Join(f)) \o x = Join(ss) \o (Join(f) \o x)
      BY <1>0, <3>3, ConcatAssociative
    <3> QED
      BY <3>1, <3>2, <3>4, <3>5, <3>6
  <2> QED
    BY <2>1
<1>3. \A n \in Nat : n \in T
  <2> HIDE DEF T
  <2> QED
    BY <1>1, <1>2, Induction
<1>4. Len(tt) \in Nat
  BY LenProperties
<1>5. Len(tt) \in T
  BY <1>3, <1>4
<1> QED
  BY <1>5

\* The pieces a function makes of the elements of a sequence.
Makers(A, S) == [A -> Seq(S)]
Pieces(f, t) == [i \in 1 .. Len(t) |-> f[t[i]]]

LEMMA PiecesTyped ==
  ASSUME NEW A, NEW S, NEW f \in Makers(A, S), NEW t \in Seq(A)
  PROVE  /\ Pieces(f, t) \in Seq(Seq(S)) /\ Len(Pieces(f, t)) = Len(t)
         /\ \A i \in 1 .. Len(t) : Pieces(f, t)[i] = f[t[i]]
<1>1. Len(t) \in Nat /\ \A i \in 1 .. Len(t) : t[i] \in A
  BY SequenceFacts
<1>2. Pieces(f, t) \in [1 .. Len(t) -> Seq(S)] /\ \A i \in 1 .. Len(t) : Pieces(f, t)[i] = f[t[i]]
  BY <1>1 DEF Pieces, Makers
<1> QED
  BY <1>1, <1>2, SequenceOf

LEMMA PiecesConcat ==
  ASSUME NEW A, NEW S, NEW f \in Makers(A, S), NEW t \in Seq(A), NEW u \in Seq(A)
  PROVE  Join(Pieces(f, t \o u)) = Join(Pieces(f, t)) \o Join(Pieces(f, u))
<1> DEFINE tu == t \o u
           p  == Pieces(f, t)
           q  == Pieces(f, u)
           a  == Pieces(f, tu)
           b  == p \o q
<1>1. Len(t) \in Nat /\ Len(u) \in Nat
  BY LenProperties
<1>2. /\ tu \in Seq(A) /\ Len(tu) = Len(t) + Len(u)
      /\ \A i \in 1 .. Len(t) + Len(u) : tu[i] = IF i <= Len(t) THEN t[i] ELSE u[i - Len(t)]
  BY ConcatProperties
<1> HIDE DEF tu
<1>3. /\ p \in Seq(Seq(S)) /\ Len(p) = Len(t) /\ \A i \in 1 .. Len(t) : p[i] = f[t[i]]
      /\ q \in Seq(Seq(S)) /\ Len(q) = Len(u) /\ \A i \in 1 .. Len(u) : q[i] = f[u[i]]
  <2>1. p \in Seq(Seq(S)) /\ Len(p) = Len(t) /\ \A i \in 1 .. Len(t) : p[i] = f[t[i]]
    BY PiecesTyped
  <2>2. q \in Seq(Seq(S)) /\ Len(q) = Len(u) /\ \A i \in 1 .. Len(u) : q[i] = f[u[i]]
    BY PiecesTyped
  <2> HIDE DEF p, q
  <2> QED
    BY <2>1, <2>2
<1>4. a \in Seq(Seq(S)) /\ Len(a) = Len(tu) /\ \A i \in 1 .. Len(tu) : a[i] = f[tu[i]]
  <2>1. tu \in Seq(A)
    BY <1>2
  <2> QED
    BY <2>1, PiecesTyped
<1> HIDE DEF a, p, q
<1>5. /\ b \in Seq(Seq(S)) /\ Len(b) = Len(t) + Len(u)
      /\ \A i \in 1 .. Len(t) + Len(u) : b[i] = IF i <= Len(t) THEN p[i] ELSE q[i - Len(t)]
  <2>1. p \in Seq(Seq(S)) /\ q \in Seq(Seq(S))
    BY <1>3
  <2>2. /\ b \in Seq(Seq(S)) /\ Len(b) = Len(p) + Len(q)
        /\ \A i \in 1 .. Len(p) + Len(q) : b[i] = IF i <= Len(p) THEN p[i] ELSE q[i - Len(p)]
    BY <2>1, ConcatProperties
  <2> HIDE DEF b
  <2> QED
    BY <1>3, <2>2
<1> HIDE DEF b
<1>6. ASSUME NEW i \in 1 .. Len(a) PROVE a[i] = b[i]
  <2>0. i \in 1 .. Len(t) + Len(u) /\ i \in 1 .. Len(tu)
    BY <1>2, <1>4
  <2>1. CASE i <= Len(t)
    <3>1. i \in 1 .. Len(t)
      BY <1>1, <2>0, <2>1
    <3> QED
      <4>1. tu[i] = t[i] /\ a[i] = f[tu[i]] /\ b[i] = p[i] /\ p[i] = f[t[i]]
        BY <1>2, <1>3, <1>4, <1>5, <2>0, <2>1, <3>1
      <4> QED
        BY <4>1
  <2>2. CASE ~ (i <= Len(t))
    <3>1. i - Len(t) \in 1 .. Len(u)
      BY <1>1, <2>0, <2>2
    <3> QED
      BY <1>2, <1>3, <1>4, <1>5, <2>0, <2>2, <3>1
  <2> QED
    BY <2>1, <2>2
<1>7. Len(a) = Len(b)
  BY <1>2, <1>4, <1>5
<1>8. a = b
  BY <1>4, <1>5, <1>6, <1>7, SeqEqual
<1>9. Join(b) = Join(p) \o Join(q)
  BY <1>3, JoinConcat DEF b
<1> QED
  BY <1>8, <1>9 DEF a, b, p, q, tu

\* Only one of the texts is not empty.
LEMMA JoinBlank ==
  ASSUME NEW S, NEW ss \in Seq(Seq(S)), \A i \in 1 .. Len(ss) : ss[i] = <<>>
  PROVE  Join(ss) = <<>>
<1>1. CASE Len(ss) = 0
  BY <1>1, EmptySeq, JoinNone
<1>2. CASE Len(ss) # 0
  <2>1. PICK f \in [1 .. Len(ss) -> Seq(S)] :
          /\ f[1] = ss[1] /\ Join(ss) = f[Len(ss)]
          /\ \A i \in 2 .. Len(ss) : f[i] = f[i - 1] \o ss[i]
    BY <1>2, JoinUnfolds
  <2>2. Len(ss) \in Nat
    BY LenProperties
  <2> DEFINE T == {m \in Nat : m + 1 <= Len(ss) => f[m + 1] = <<>>}
  <2>3. 0 \in T
    <3>1. 1 \in 1 .. Len(ss)
      BY <1>2, <2>2
    <3> QED
      BY <2>1, <3>1
  <2>4. ASSUME NEW m \in Nat, m \in T PROVE m + 1 \in T
    <3>1. SUFFICES ASSUME m + 2 <= Len(ss) PROVE f[m + 2] = <<>>
      OBVIOUS
    <3>2. m + 2 \in 2 .. Len(ss) /\ m + 2 \in 1 .. Len(ss) /\ (m + 2) - 1 = m + 1 /\ m + 1 <= Len(ss)
      BY <2>2, <3>1
    <3>3. f[m + 2] = f[m + 1] \o ss[m + 2] /\ f[m + 1] = <<>> /\ ss[m + 2] = <<>>
      BY <2>1, <2>4, <3>2
    <3>4. <<>> \in Seq(S)
      OBVIOUS
    <3>5. <<>> \o <<>> = <<>>
      BY <3>4, ConcatEmptySeq
    <3> QED
      BY <3>3, <3>5
  <2>5. \A m \in Nat : m \in T
    <3> HIDE DEF T
    <3> QED
      BY <2>3, <2>4, Induction
  <2>6. Len(ss) - 1 \in Nat /\ (Len(ss) - 1) + 1 = Len(ss)
    BY <1>2, <2>2
  <2>7. Len(ss) - 1 \in T
    BY <2>5, <2>6
  <2> QED
    BY <2>1, <2>2, <2>6, <2>7
<1> QED
  BY <1>1, <1>2

LEMMA JoinSole ==
  ASSUME NEW S, NEW ss \in Seq(Seq(S)), NEW l \in 1 .. Len(ss),
         \A i \in 1 .. Len(ss) : i # l => ss[i] = <<>>
  PROVE  Join(ss) = ss[l]
<1> DEFINE n == Len(ss)
           a == SubSeq(ss, 1, l - 1)
           b == SubSeq(ss, l + 1, n)
           t == ss[l]
<1>1. n \in Nat /\ \A i \in 1 .. n : ss[i] \in Seq(S)
  BY SequenceFacts
<1>2. a \in Seq(Seq(S)) /\ Len(a) = l - 1 /\ \A i \in 1 .. l - 1 : a[i] = ss[i]
  <2>1. \A i \in 1 .. l - 1 : ss[i] \in Seq(S)
    BY <1>1
  <2>2. 1 \in Int /\ l - 1 \in Int /\ l - 1 - 1 + 1 = l - 1
        /\ (IF 1 <= l - 1 THEN l - 1 ELSE 0) = l - 1 /\ \A i \in 1 .. l - 1 : 1 + i - 1 = i
    BY <1>1
  <2>3. /\ a \in Seq(Seq(S)) /\ Len(a) = IF 1 <= l - 1 THEN l - 1 - 1 + 1 ELSE 0
        /\ \A i \in 1 .. l - 1 - 1 + 1 : a[i] = ss[1 + i - 1]
    BY <2>1, <2>2, SubSeqProperties
  <2> QED
    BY <2>2, <2>3
<1>3. b \in Seq(Seq(S)) /\ Len(b) = n - l /\ \A i \in 1 .. n - l : b[i] = ss[l + i]
  <2>1. \A i \in l + 1 .. n : ss[i] \in Seq(S)
    BY <1>1
  <2>2. l + 1 \in Int /\ n \in Int /\ n - (l + 1) + 1 = n - l
        /\ (IF l + 1 <= n THEN n - l ELSE 0) = n - l /\ \A i \in 1 .. n - l : l + 1 + i - 1 = l + i
    BY <1>1
  <2> DEFINE k == l + 1
  <2>3. k \in Int /\ \A i \in k .. n : ss[i] \in Seq(S)
    BY <2>1, <2>2
  <2> HIDE DEF k
  <2>5. b = SubSeq(ss, k, n) /\ n \in Int
    BY <1>1 DEF k
  <2> HIDE DEF b, n
  <2>6. /\ SubSeq(ss, k, n) \in Seq(Seq(S))
        /\ Len(SubSeq(ss, k, n)) = IF k <= n THEN n - k + 1 ELSE 0
        /\ \A i \in 1 .. n - k + 1 : SubSeq(ss, k, n)[i] = ss[k + i - 1]
    BY <2>3, <2>5, SubSeqProperties
  <2>4. /\ b \in Seq(Seq(S)) /\ Len(b) = IF k <= n THEN n - k + 1 ELSE 0
        /\ \A i \in 1 .. n - k + 1 : b[i] = ss[k + i - 1]
    BY <2>5, <2>6
  <2> QED
    BY <2>2, <2>4 DEF k
<1>4. ss = (a \o <<t>>) \o b
  <2>1. SubSeq(ss, 1, l) = SubSeq(ss, 1, l - 1) \o <<ss[l]>>
    <3>1. 1 \in 1 .. Len(ss) /\ l \in 1 .. Len(ss)
      BY <1>1
    <3> QED
      BY <3>1, SubSeqRecursiveSecond
  <2>2. SubSeq(ss, 1, l) \o SubSeq(ss, l + 1, n) = SubSeq(ss, 1, n)
    <3>1. 1 \in 1 .. Len(ss) + 1 /\ l \in 1 - 1 .. Len(ss) /\ n \in l .. Len(ss)
      BY <1>1
    <3> HIDE DEF n
    <3> QED
      BY <3>1, ConcatAdjacentSubSeq
  <2>3. SubSeq(ss, 1, n) = ss
    BY SubSeqFull
  <2> QED
    BY <2>1, <2>2, <2>3
<1>5. t \in Seq(S)
  BY <1>1
<1>6. Join(a) = <<>>
  <2>1. \A i \in 1 .. Len(a) : a[i] = <<>>
    BY <1>1, <1>2
  <2> HIDE DEF a
  <2> QED
    BY <1>2, <2>1, JoinBlank
<1>7. Join(b) = <<>>
  <2>1. \A i \in 1 .. n - l : l + i \in 1 .. n /\ l + i # l
    BY <1>1
  <2>2. \A i \in 1 .. Len(b) : b[i] = <<>>
    BY <1>3, <2>1
  <2> HIDE DEF b
  <2> QED
    BY <1>3, <2>2, JoinBlank
<1> HIDE DEF a, b, t, n
<1>8. a \o <<t>> \in Seq(Seq(S))
  <2>1. <<t>> \in Seq(Seq(S))
    BY <1>5
  <2> QED
    BY <1>2, <2>1, ConcatProperties
<1>9. Join(ss) = Join(a \o <<t>>) \o Join(b) /\ Join(a \o <<t>>) = Join(a) \o t
  BY <1>2, <1>3, <1>4, <1>5, <1>8, JoinConcat, JoinLast
<1>10. <<>> \o t = t /\ t \o <<>> = t
  BY <1>5, ConcatEmptySeq
<1> QED
  BY <1>6, <1>7, <1>9, <1>10 DEF t

\* What a cell of what left stood for.
Behind(x) == {u \in Mapped : x \in {Secret[u].raw, Secret[u].json}}
Back      == [x \in Cells |-> IF Behind(x) = {} THEN <<x>> ELSE CHOOSE u \in Behind(x) : TRUE]

LEMMA BackTyped == Back \in Makers(Cells, Cells)
<1>1. ASSUME NEW x \in Cells
      PROVE  (IF Behind(x) = {} THEN <<x>> ELSE CHOOSE u \in Behind(x) : TRUE) \in Seq(Cells)
  <2>1. CASE Behind(x) = {}
    BY <2>1
  <2>2. CASE Behind(x) # {}
    <3>1. (CHOOSE u \in Behind(x) : TRUE) \in Behind(x)
      BY <2>2
    <3>2. Behind(x) \subseteq Tokens
      BY GrammarOK DEF Behind
    <3> HIDE DEF Behind
    <3>3. (CHOOSE u \in Behind(x) : TRUE) \in Seq(Cells)
      BY <3>1, <3>2, TokenText
    <3> QED
      BY <2>2, <3>3
  <2> QED
    BY <2>1, <2>2
<1> QED
  BY <1>1 DEF Back, Makers

LEMMA UnrestoredIs ==
  ASSUME NEW t \in Seq(Cells) PROVE Unrestored(t) = Join(Pieces(Back, t))
<1>1. DOMAIN t = 1 .. Len(t) /\ \A i \in 1 .. Len(t) : t[i] \in Cells
  BY SequenceFacts
<1> DEFINE p == [i \in DOMAIN t |->
             LET v == {u \in Mapped : t[i] \in {Secret[u].raw, Secret[u].json}}
             IN  IF v = {} THEN <<t[i]>> ELSE CHOOSE u \in v : TRUE]
<1>2. p = [i \in 1 .. Len(t) |-> Back[t[i]]]
  BY <1>1 DEF Back, Behind
<1>3. Unrestored(t) = Join(p)
  BY DEF Unrestored
<1> HIDE DEF p
<1> QED
  BY <1>2, <1>3 DEF Pieces

LEMMA UnrestoredTyped ==
  ASSUME NEW t \in Seq(Cells) PROVE Unrestored(t) \in Seq(Cells)
BY UnrestoredIs, BackTyped, PiecesTyped, JoinedTyped

LEMMA UnrestoredNone == Unrestored(<<>>) = <<>>
<1>1. <<>> \in Seq(Cells) /\ Len(<<>>) = 0
  OBVIOUS
<1>3. Pieces(Back, <<>>) = <<>>
  BY <1>1 DEF Pieces
<1> QED
  BY <1>1, <1>3, UnrestoredIs, JoinNone

LEMMA UnrestoredConcat ==
  ASSUME NEW t \in Seq(Cells), NEW u \in Seq(Cells)
  PROVE  Unrestored(t \o u) = Unrestored(t) \o Unrestored(u)
<1>1. t \o u \in Seq(Cells)
  BY ConcatProperties
<1>2. Join(Pieces(Back, t \o u)) = Join(Pieces(Back, t)) \o Join(Pieces(Back, u))
  BY BackTyped, PiecesConcat
<1> DEFINE tu == t \o u
<1> HIDE DEF tu
<1>3. Unrestored(tu) = Join(Pieces(Back, tu))
  BY <1>1, UnrestoredIs DEF tu
<1>4. Unrestored(t) = Join(Pieces(Back, t)) /\ Unrestored(u) = Join(Pieces(Back, u))
  BY UnrestoredIs
<1> QED
  BY <1>2, <1>3, <1>4 DEF tu

LEMMA UnrestoredCell ==
  ASSUME NEW x \in Cells PROVE Unrestored(<<x>>) = Back[x]
<1> DEFINE t == <<x>>
<1>1. t \in Seq(Cells) /\ Len(t) = 1 /\ t[1] = x
  OBVIOUS
<1> HIDE DEF t
<1>2. /\ Pieces(Back, t) \in Seq(Seq(Cells)) /\ Len(Pieces(Back, t)) = 1
      /\ Pieces(Back, t)[1] = Back[x]
  BY <1>1, BackTyped, PiecesTyped
<1> DEFINE p == Pieces(Back, t)
<1> HIDE DEF p
<1>3. Join(p) = p[1]
  <2>1. 1 \in 1 .. Len(p) /\ \A i \in 1 .. Len(p) : i # 1 => p[i] = <<>>
    BY <1>2 DEF p
  <2> QED
    BY <1>2, <2>1, JoinSole DEF p
<1> QED
  BY <1>1, <1>2, <1>3, UnrestoredIs DEF p, t

\* A cell that the upstream wrote stands for itself, and a secret for the one
\* placeholder that has it.
LEMMA PlainCell ==
  ASSUME NEW x \in Plain PROVE x \in Cells /\ Back[x] = <<x>>
<1>1. x \in Cells /\ x \notin SecretCells
  BY SecretsApart DEF Cells
<1>2. Behind(x) = {}
  BY <1>1 DEF Behind, SecretCells
<1> QED
  BY <1>1, <1>2 DEF Back

LEMMA SecretCell ==
  ASSUME NEW t \in Mapped, NEW x \in {Secret[t].raw, Secret[t].json}
  PROVE  x \in Cells /\ Unrestored(<<x>>) = t
<1>1. x \in Cells
  BY DEF SecretCells, Cells
<1>2. Behind(x) = {t}
  <2>1. t \in Behind(x)
    BY DEF Behind
  <2>2. ASSUME NEW u \in Behind(x) PROVE u = t
    <3>1. u \in Mapped /\ x \in {Secret[u].raw, Secret[u].json}
      BY DEF Behind
    <3> QED
      BY <3>1, SecretsApart
  <2> QED
    BY <2>1, <2>2
<1>3. Back[x] = t
  BY <1>1, <1>2 DEF Back
<1> QED
  BY <1>1, <1>3, UnrestoredCell

LEMMA PlainStays ==
  ASSUME NEW t \in Seq(Plain) PROVE t \in Seq(Cells) /\ Unrestored(t) = t
<1> DEFINE T == {n \in Nat : \A u \in Seq(Plain) : Len(u) = n => Unrestored(u) = u}
<1>0. Plain \subseteq Cells
  BY DEF Cells
<1>1. 0 \in T
  BY EmptySeq, UnrestoredNone
<1>2. ASSUME NEW n \in Nat, n \in T PROVE n + 1 \in T
  <2>1. ASSUME NEW u \in Seq(Plain), Len(u) = n + 1 PROVE Unrestored(u) = u
    <3>0. \E f \in Seq(Plain), x \in Plain :
            Len(f) = n /\ u = f \o <<x>> /\ \A i \in 1 .. n : f[i] = u[i]
      BY <2>1, LastApart
    <3>1. PICK f \in Seq(Plain), x \in Plain : Len(f) = n /\ u = f \o <<x>>
      BY <3>0
    <3>2. Unrestored(f) = f
      BY <1>2, <3>1
    <3>3. f \in Seq(Cells) /\ <<x>> \in Seq(Cells) /\ Unrestored(<<x>>) = <<x>>
      <4>1. f \in Seq(Cells)
        BY <1>0, SeqMonotonic
      <4>2. x \in Cells /\ Unrestored(<<x>>) = <<x>>
        BY PlainCell, UnrestoredCell
      <4> QED
        BY <4>1, <4>2
    <3> QED
      BY <3>1, <3>2, <3>3, UnrestoredConcat
  <2> QED
    BY <2>1
<1>3. \A n \in Nat : n \in T
  <2> HIDE DEF T
  <2> QED
    BY <1>1, <1>2, Induction
<1>4. Len(t) \in Nat
  BY LenProperties
<1>5. Len(t) \in T
  BY <1>3, <1>4
<1>6. t \in Seq(Cells)
  BY <1>0, SeqMonotonic
<1> QED
  BY <1>5, <1>6

-----------------------------------------------------------------------------
(* What an edited text says, with its placeholders back. *)

LEMMA CellsRegroup ==
  \A x, y, z \in Seq(Cells) : (x \o y) \o z = x \o (y \o z)
BY ConcatAssociative

LEMMA CellsJoined ==
  \A x, y \in Seq(Cells) : x \o y \in Seq(Cells)
BY ConcatProperties

\* The cells between two places, in two parts.
LEMMA Between ==
  ASSUME NEW S, NEW t \in Seq(S), NEW i \in 1 .. Len(t) + 1, NEW j \in i .. Len(t) + 1,
         NEW k \in j .. Len(t) + 1
  PROVE  /\ SubSeq(t, i, j - 1) \in Seq(S)
         /\ SubSeq(t, i, j - 1) \o SubSeq(t, j, k - 1) = SubSeq(t, i, k - 1)
<1>1. Len(t) \in Nat
  BY LenProperties
<1> DEFINE a == j - 1
           b == k - 1
<1>2. a \in i - 1 .. Len(t) /\ b \in a .. Len(t) /\ a + 1 = j /\ i \in Int /\ a \in Int
  BY <1>1
<1>3. \A l \in i .. a : t[l] \in S
  BY <1>1, <1>2, ElementOfSeq
<1> HIDE DEF a, b
<1>4. SubSeq(t, i, a) \in Seq(S)
  BY <1>2, <1>3, SubSeqProperties
<1>5. SubSeq(t, i, a) \o SubSeq(t, a + 1, b) = SubSeq(t, i, b)
  BY <1>2, ConcatAdjacentSubSeq
<1> QED
  BY <1>2, <1>4, <1>5 DEF a, b

\* An edit that says what it replaces, and ends by the place f.
Faithful(t, e, f) ==
  e.to <= f /\ Unrestored(e.rep) = SubSeq(t, e.from, e.to - 1)
Drafts(n) == [1 .. n + 1 -> Seq(Cells)]
\* Faithful edits from a to f leave the text between them as it was.
LEMMA EditsSay ==
  ASSUME NEW t \in Seq(Plain), NEW edits \in Seq(Edit(Cells, Len(t))),
         NEW g \in Drafts(Len(t)), EditedBy(g, t, edits),
         NEW a \in 1 .. Len(t) + 1, NEW f \in a .. Len(t) + 1,
         \A k \in DOMAIN edits :
           edits[k].from \in a .. f - 1 /\ edits[k].to > edits[k].from => Faithful(t, edits[k], f)
  PROVE  Unrestored(g[a]) = SubSeq(t, a, f - 1) \o Unrestored(g[f])
<1> DEFINE Says(i) == Unrestored(g[i]) = SubSeq(t, i, f - 1) \o Unrestored(g[f])
           Bad == {m \in Nat : m <= f - a /\ ~ Says(f - m)}
<1>1. Len(t) \in Nat /\ DOMAIN edits = 1 .. Len(edits) /\ DOMAIN edits \subseteq Nat
      /\ \A k \in DOMAIN edits : edits[k] \in Edit(Cells, Len(t))
  BY LenProperties, ElementOfSeq
<1>2. \A i \in 1 .. Len(t) + 1 : g[i] \in Seq(Cells) /\ Unrestored(g[i]) \in Seq(Cells)
  BY UnrestoredTyped DEF Drafts
<1>3. Plain \subseteq Cells /\ t \in Seq(Cells)
  BY PlainStays DEF Cells
<1>4. Says(f)
  <2>1. SubSeq(t, f, f - 1) = <<>>
    BY <1>1, SubSeqEmpty
  <2>2. <<>> \o Unrestored(g[f]) = Unrestored(g[f])
    BY <1>1, <1>2, ConcatEmptySeq
  <2> QED
    BY <2>1, <2>2
<1>5. ASSUME NEW i \in a .. f - 1, NEW j \in i + 1 .. f, NEW put \in Seq(Cells),
             g[i] = put \o g[j], Unrestored(put) = SubSeq(t, i, j - 1), Says(j)
      PROVE  Says(i)
  <2>1. i \in 1 .. Len(t) + 1 /\ j \in i .. Len(t) + 1 /\ f \in j .. Len(t) + 1
        /\ j \in 1 .. Len(t) + 1 /\ f \in 1 .. Len(t) + 1
    BY <1>1
  <2>2. Unrestored(g[i]) = Unrestored(put) \o Unrestored(g[j])
    BY <1>2, <1>5, <2>1, UnrestoredConcat
  <2>3. /\ SubSeq(t, i, j - 1) \in Seq(Cells)
        /\ SubSeq(t, i, j - 1) \o SubSeq(t, j, f - 1) = SubSeq(t, i, f - 1)
    BY <1>3, <2>1, Between
  <2>4. SubSeq(t, j, f - 1) \in Seq(Cells)
    <3>1. f \in f .. Len(t) + 1
      BY <1>1
    <3> QED
      BY <1>3, <2>1, <3>1, Between
  <2> DEFINE u == SubSeq(t, i, j - 1)
             v == SubSeq(t, j, f - 1)
             w == Unrestored(g[f])
  <2>5. u \in Seq(Cells) /\ v \in Seq(Cells) /\ w \in Seq(Cells)
    BY <1>2, <2>1, <2>3, <2>4
  <2>6. Unrestored(g[i]) = u \o (v \o w)
    BY <1>5, <2>2
  <2>7. u \o v = SubSeq(t, i, f - 1)
    BY <2>3
  <2> HIDE DEF u, v, w
  <2>8. u \o (v \o w) = (u \o v) \o w
    BY <2>5, CellsRegroup
  <2> QED
    BY <2>6, <2>7, <2>8 DEF w
<1>6. ASSUME NEW i \in a .. f - 1, \A j \in i + 1 .. f : Says(j) PROVE Says(i)
  <2>1. i \in 1 .. Len(t) /\ i + 1 \in i + 1 .. f /\ (i + 1) - 1 = i
    BY <1>1
  <2>2. CASE EditsAt(edits, i) = {}
    <3>1. g[i] = <<t[i]>> \o g[i + 1]
      BY <2>1, <2>2 DEF EditedBy
    <3>2. t[i] \in Plain /\ t[i] \in Cells
      BY <1>3, <2>1, ElementOfSeq
    <3>3. <<t[i]>> \in Seq(Plain) /\ <<t[i]>> \in Seq(Cells)
      BY <3>2
    <3>4. Unrestored(<<t[i]>>) = <<t[i]>>
      BY <3>3, PlainStays
    <3>5. SubSeq(t, i, i) = <<t[i]>>
      <4>1. SubSeq(t, i, i) = SubSeq(t, i, i - 1) \o <<t[i]>>
        BY <2>1, SubSeqRecursiveSecond
      <4>2. SubSeq(t, i, i - 1) = <<>>
        BY <2>1, SubSeqEmpty
      <4>3. <<>> \o <<t[i]>> = <<t[i]>>
        BY <3>3, ConcatEmptySeq
      <4> QED
        BY <4>1, <4>2, <4>3
    <3>6. Says(i + 1)
      BY <1>6, <2>1
    <3> HIDE DEF Says
    <3>7. Unrestored(<<t[i]>>) = SubSeq(t, i, (i + 1) - 1)
      BY <2>1, <3>4, <3>5
    <3> QED
      BY <1>5, <2>1, <3>1, <3>3, <3>6, <3>7
  <2>3. CASE EditsAt(edits, i) # {}
    <3> DEFINE e == EditAt(edits, i)
               k == Min(EditsAt(edits, i))
    <3>1. k \in EditsAt(edits, i)
      <4>1. EditsAt(edits, i) \subseteq Nat
        BY <1>1 DEF EditsAt
      <4> QED
        BY <2>3, <4>1, MinIsLeast
    <3>2. k \in DOMAIN edits /\ e = edits[k] /\ e.from = i /\ e.to > i
      BY <3>1 DEF EditsAt, EditAt
    <3> HIDE DEF k
    <3>3. e \in Edit(Cells, Len(t)) /\ Faithful(t, e, f)
      BY <1>1, <3>2
    <3>4. e.rep \in Seq(Cells) /\ e.to \in i + 1 .. f /\ Unrestored(e.rep) = SubSeq(t, i, e.to - 1)
      BY <1>1, <3>2, <3>3 DEF Faithful, Edit
    <3>5. g[i] = e.rep \o g[e.to]
      BY <2>1, <2>3 DEF EditedBy
    <3>6. Says(e.to)
      BY <1>6, <3>4
    <3> HIDE DEF Says, e
    <3> QED
      BY <1>5, <3>4, <3>5, <3>6
  <2> QED
    BY <2>2, <2>3
<1>7. Bad = {}
  <2>1. SUFFICES ASSUME Bad # {} PROVE FALSE
    OBVIOUS
  <2>2. PICK m \in Bad : \A y \in Bad : m <= y
    BY <2>1, LeastNatural
  <2> HIDE DEF Says
  <2>3. m \in Nat /\ m <= f - a /\ ~ Says(f - m)
    OBVIOUS
  <2>4. m # 0
    <3>1. f - 0 = f
      BY <1>1
    <3> QED
      BY <1>4, <2>3, <3>1
  <2>5. f - m \in a .. f - 1
    BY <1>1, <2>3, <2>4
  <2>6. ASSUME NEW j \in (f - m) + 1 .. f, ~ Says(j) PROVE FALSE
    <3>1. f - j \in Nat /\ f - j < m /\ f - j <= f - a /\ f - (f - j) = j
      BY <1>1, <2>3
    <3>2. f - j \in Bad
      BY <2>6, <3>1
    <3> DEFINE z == f - j
    <3>3. z \in Bad /\ z < m /\ z \in Nat
      BY <3>1, <3>2
    <3> HIDE DEF z, Bad
    <3>4. m <= z
      BY <2>2, <3>3
    <3> QED
      BY <2>3, <3>3, <3>4
  <2> QED
    BY <1>6, <2>3, <2>5, <2>6
<1>8. f - a \in Nat /\ f - (f - a) = a
  BY <1>1
<1>9. Says(a)
  <2> DEFINE m == f - a
  <2>1. m \in Nat /\ m <= f - a /\ f - m = a
    BY <1>8
  <2> HIDE DEF Says, m
  <2>2. Says(f - m)
    BY <1>7, <2>1
  <2> QED
    BY <2>1, <2>2
<1> QED
  BY <1>9

\* The edit of a whole placeholder says what it replaces.
LEMMA TokenEditSays ==
  ASSUME NEW t \in Seq(Plain), NEW e \in TokenEdits(t)
  PROVE  /\ e \in Edit(Cells, Len(t)) /\ e.from \in 1 .. Len(t)
         /\ TokenLen(From(t, e.from)) \in Nat \ {0}
         /\ e.to = e.from + TokenLen(From(t, e.from)) /\ e.to <= Len(t) + 1
         /\ Unrestored(e.rep) = SubSeq(t, e.from, e.to - 1)
<1>1. Len(t) \in Nat /\ t \in Seq(Cells) /\ \A j \in 1 .. Len(t) : t[j] \in Cells
  BY PlainStays, SequenceFacts
<1>2. PICK i \in 1 .. Len(t) : TokenAt(t, i) \in Mapped /\ e = TokenEdit(t, i)
  BY DEF TokenEdits
<1> DEFINE n == TokenLen(From(t, i))
           u == TokenAt(t, i)
<1>3. n \in 0 .. Len(t) + 1 - i
  <2>1. i \in 1 .. Len(t) + 1
    BY <1>1
  <2>2. From(t, i) \in Seq(Cells) /\ Len(From(t, i)) = Len(t) + 1 - i
    BY <1>1, <2>1, FromIsTail
  <2> QED
    BY <2>2, TokenLies
<1>4. /\ e.from = i /\ e.to = i + n /\ e.rep = Backfilled(u, TRUE)
      /\ e = [from |-> i, to |-> i + n, rep |-> Backfilled(u, TRUE)]
  BY <1>2 DEF TokenEdit
<1>5. u = SubSeq(t, i, i + n - 1)
  BY DEF TokenAt
<1> HIDE DEF n, u
<1>6. n # 0
  <2>1. SUFFICES ASSUME n = 0 PROVE FALSE
    OBVIOUS
  <2>2. i + n - 1 \in Int /\ i + n - 1 < i
    BY <1>1, <2>1
  <2>3. u = <<>>
    BY <1>5, <2>2, SubSeqEmpty
  <2> QED
    BY <1>2, <2>3, GrammarOK DEF u
<1>7. Backfilled(u, TRUE) = <<Secret[u].json>>
  BY <1>2 DEF Backfilled, u
<1>8. Secret[u].json \in Cells /\ Unrestored(<<Secret[u].json>>) = u
  BY <1>2, SecretCell DEF u
<1>9. e.rep \in Seq(Cells) /\ Unrestored(e.rep) = u
  <2> DEFINE x == Secret[u].json
  <2>1. x \in Cells /\ Unrestored(<<x>>) = u /\ e.rep = <<x>>
    BY <1>4, <1>7, <1>8
  <2> HIDE DEF x
  <2> QED
    BY <2>1
<1>10. i \in Nat /\ i + n \in 0 .. Len(t) + 1 /\ i + n <= Len(t) + 1 /\ n \in Nat \ {0}
  BY <1>1, <1>3, <1>6
<1>11. e \in Edit(Cells, Len(t))
  BY <1>4, <1>9, <1>10 DEF Edit
<1>12. i + n - 1 = e.to - 1
  BY <1>4, <1>10
<1>13. Unrestored(e.rep) = SubSeq(t, e.from, e.to - 1)
  BY <1>4, <1>5, <1>9, <1>12
<1> QED
  BY <1>4, <1>10, <1>11, <1>13 DEF n

\* The edits of two lists.
ListOf(c, a, b) ==
  /\ DOMAIN c = 1 .. Len(a) + Len(b)
  /\ \A i \in DOMAIN c :
       (\E j \in 1 .. Len(a) : c[i] = a[j]) \/ (\E j \in 1 .. Len(b) : c[i] = b[j])
  /\ \A j \in 1 .. Len(b) : Len(a) + j \in DOMAIN c /\ c[Len(a) + j] = b[j]

LEMMA BothLists ==
  ASSUME NEW S, NEW a \in Seq(S), NEW b \in Seq(S), NEW c, c = a \o b
  PROVE  c \in Seq(S) /\ ListOf(c, a, b)
<1>1. Len(a) \in Nat /\ Len(b) \in Nat
  BY LenProperties
<1>2. /\ c \in Seq(S) /\ Len(c) = Len(a) + Len(b)
      /\ \A i \in 1 .. Len(a) + Len(b) : c[i] = IF i <= Len(a) THEN a[i] ELSE b[i - Len(a)]
  BY ConcatProperties
<1>3. DOMAIN c = 1 .. Len(a) + Len(b)
  BY <1>2, LenProperties
<1>4. ASSUME NEW i \in 1 .. Len(a) + Len(b)
      PROVE  (\E j \in 1 .. Len(a) : c[i] = a[j]) \/ (\E j \in 1 .. Len(b) : c[i] = b[j])
  <2>1. CASE i <= Len(a)
    <3>1. i \in 1 .. Len(a) /\ c[i] = a[i]
      BY <1>1, <1>2, <2>1
    <3> QED
      BY <3>1
  <2>2. CASE ~ (i <= Len(a))
    <3>1. i - Len(a) \in 1 .. Len(b) /\ c[i] = b[i - Len(a)]
      BY <1>1, <1>2, <2>2
    <3> QED
      BY <3>1
  <2> QED
    BY <2>1, <2>2
<1>5. ASSUME NEW j \in 1 .. Len(b)
      PROVE  Len(a) + j \in 1 .. Len(a) + Len(b) /\ c[Len(a) + j] = b[j]
  <2>1. /\ Len(a) + j \in 1 .. Len(a) + Len(b) /\ ~ (Len(a) + j <= Len(a))
        /\ (Len(a) + j) - Len(a) = j
    BY <1>1
  <2> QED
    BY <1>2, <2>1
<1> QED
  BY <1>2, <1>3, <1>4, <1>5 DEF ListOf

\* The edits of a leaf that are not restores of its own placeholders: none, or
\* the secret of a placeholder that ends in its first k cells, which says h.
Restoring(t, x, h, k) ==
  \/ x = <<>> /\ h = <<>> /\ k = 0
  \/ /\ k \in 1 .. Len(t) /\ TokenLen(t) = 0
     /\ \E r \in Seq(Cells) : x = <<[from |-> 1, to |-> k + 1, rep |-> r]>> /\ Unrestored(r) = h
\* Where a leaf is cut off: nowhere, or at f, which no placeholder crosses.
Cutting(t, cut, f) ==
  \/ cut = <<>> /\ f = Len(t) + 1
  \/ /\ cut = <<[from |-> f, to |-> Len(t) + 1, rep |-> <<>>]>>
     /\ f <= Len(t) => TokenLen(From(t, f)) = 0
     /\ \A i \in 1 .. f - 1 : TokenLen(From(t, i)) <= f - i

LEMMA LeafEditsTyped ==
  ASSUME NEW t \in Seq(Plain), NEW x, NEW h, NEW k, Restoring(t, x, h, k),
         NEW f \in 1 .. Len(t) + 1, NEW cut, Cutting(t, cut, f)
  PROVE  /\ x \in Seq(Edit(Cells, Len(t))) /\ cut \in Seq(Edit(Cells, Len(t)))
         /\ WithinLeafEdits(t) \in Seq(Edit(Cells, Len(t)))
<1>1. Len(t) \in Nat
  BY LenProperties
<1>2. x \in Seq(Edit(Cells, Len(t)))
  <2>1. CASE x = <<>>
    BY <2>1
  <2>2. CASE x # <<>>
    <3>1. k \in 1 .. Len(t) /\ \E r \in Seq(Cells) : x = <<[from |-> 1, to |-> k + 1, rep |-> r]>>
      BY <2>2 DEF Restoring
    <3>2. PICK r \in Seq(Cells) : x = <<[from |-> 1, to |-> k + 1, rep |-> r]>>
      BY <3>1
    <3>3. 1 \in Nat /\ k + 1 \in 0 .. Len(t) + 1
      BY <1>1, <3>1
    <3>4. [from |-> 1, to |-> k + 1, rep |-> r] \in Edit(Cells, Len(t))
      BY <3>3 DEF Edit
    <3> QED
      BY <3>2, <3>4
  <2> QED
    BY <2>1, <2>2
<1>3. cut \in Seq(Edit(Cells, Len(t)))
  <2>1. f \in Nat /\ Len(t) + 1 \in 0 .. Len(t) + 1 /\ <<>> \in Seq(Cells)
    BY <1>1
  <2>2. [from |-> f, to |-> Len(t) + 1, rep |-> <<>>] \in Edit(Cells, Len(t))
    BY <2>1 DEF Edit
  <2> DEFINE e == [from |-> f, to |-> Len(t) + 1, rep |-> <<>>]
  <2>3. cut = <<>> \/ cut = <<e>>
    BY DEF Cutting
  <2>4. e \in Edit(Cells, Len(t))
    BY <2>2
  <2> HIDE DEF e
  <2> DEFINE S == Edit(Cells, Len(t))
  <2>5. e \in S
    BY <2>4
  <2> HIDE DEF S
  <2>6. <<e>> \in Seq(S) /\ <<>> \in Seq(S)
    BY <2>5
  <2>7. cut \in Seq(S)
    BY <2>3, <2>6
  <2> QED
    BY <2>7 DEF S
<1>4. WithinLeafEdits(t) \in Seq(TokenEdits(t))
  BY WithinLeafIs
<1>5. TokenEdits(t) \subseteq Edit(Cells, Len(t))
  BY TokenEditSays
<1>6. WithinLeafEdits(t) \in Seq(Edit(Cells, Len(t)))
  BY <1>4, <1>5, SeqMonotonic
<1> QED
  BY <1>2, <1>3, <1>6

\* What the edited leaf says.
LeafSaid(t, x, h, k, f, cut) ==
  Unrestored(Apply(t, WithinLeafEdits(t) \o (x \o cut))) = h \o SubSeq(t, k + 1, f - 1)

LEMMA LeafSays ==
  ASSUME NEW t \in Seq(Plain), NEW h \in Seq(Cells), NEW k \in Nat, NEW x, Restoring(t, x, h, k),
         NEW f \in k + 1 .. Len(t) + 1, NEW cut, Cutting(t, cut, f)
  PROVE  LeafSaid(t, x, h, k, f, cut)
<1> DEFINE w     == WithinLeafEdits(t)
           xd    == x \o cut
           edits == w \o xd
           E     == Edit(Cells, Len(t))
<1>1. Len(t) \in Nat /\ t \in Seq(Cells) /\ f \in 1 .. Len(t) + 1
  BY PlainStays, LenProperties
<1>2. x \in Seq(E) /\ cut \in Seq(E) /\ w \in Seq(E)
  BY <1>1, LeafEditsTyped
<1>3. w \in Seq(TokenEdits(t))
  BY WithinLeafIs
<1>4. \A j \in 1 .. Len(w) : w[j] \in TokenEdits(t)
  BY <1>3, ElementOfSeq
<1> HIDE DEF w, E
<1>5. /\ xd \in Seq(E) /\ DOMAIN xd = 1 .. Len(xd)
      /\ \A i \in 1 .. Len(xd) :
           (\E j \in 1 .. Len(x) : xd[i] = x[j]) \/ (\E j \in 1 .. Len(cut) : xd[i] = cut[j])
      /\ \A j \in 1 .. Len(cut) : Len(x) + j \in DOMAIN xd /\ xd[Len(x) + j] = cut[j]
  <2>0. xd = x \o cut
    OBVIOUS
  <2> HIDE DEF xd
  <2>1. xd \in Seq(E) /\ ListOf(xd, x, cut)
    BY <1>2, <2>0, BothLists
  <2>2. DOMAIN xd = 1 .. Len(xd)
    BY <2>1, LenProperties
  <2> QED
    BY <2>1, <2>2 DEF ListOf
<1>6. \A j \in 1 .. Len(x) : \E i \in 1 .. Len(xd) : xd[i] = x[j]
  <2>1. ASSUME NEW j \in 1 .. Len(x) PROVE j \in 1 .. Len(xd) /\ xd[j] = x[j]
    <3>1. /\ Len(x) \in Nat /\ Len(cut) \in Nat /\ Len(xd) = Len(x) + Len(cut)
          /\ \A i \in 1 .. Len(x) + Len(cut) : xd[i] = IF i <= Len(x) THEN x[i] ELSE cut[i - Len(x)]
      BY <1>2, LenProperties, ConcatProperties
    <3> HIDE DEF xd
    <3> QED
      BY <3>1
  <2> QED
    BY <2>1
<1> HIDE DEF xd
<1>7. /\ edits \in Seq(E) /\ DOMAIN edits = 1 .. Len(w) + Len(xd)
      /\ \A i \in DOMAIN edits :
           (\E j \in 1 .. Len(w) : edits[i] = w[j]) \/ (\E j \in 1 .. Len(xd) : edits[i] = xd[j])
      /\ \A j \in 1 .. Len(xd) : Len(w) + j \in DOMAIN edits /\ edits[Len(w) + j] = xd[j]
  <2>1. edits = w \o xd
    OBVIOUS
  <2> HIDE DEF edits
  <2> QED
    <3>1. edits \in Seq(E) /\ ListOf(edits, w, xd)
      BY <1>2, <1>5, <2>1, BothLists
    <3> QED
      BY <3>1 DEF ListOf
<1> HIDE DEF edits
<1>8. DOMAIN edits \subseteq Nat
  BY <1>7, LenProperties
<1>9. \E g \in [1 .. Len(t) + 1 -> Seq(Cells)] : EditedBy(g, t, edits) /\ Apply(t, edits) = g[1]
  BY <1>1, <1>7, ApplyFrom DEF E
<1>10. PICK g \in [1 .. Len(t) + 1 -> Seq(Cells)] : EditedBy(g, t, edits) /\ Apply(t, edits) = g[1]
  BY <1>9
\* The kinds of edits.
<1>11. ASSUME NEW i \in DOMAIN edits
       PROVE  \/ edits[i] \in TokenEdits(t)
              \/ \E j \in 1 .. Len(x) : edits[i] = x[j]
              \/ \E j \in 1 .. Len(cut) : edits[i] = cut[j]
  BY <1>4, <1>5, <1>7
<1>12. \A j \in 1 .. Len(cut) : cut[j] = [from |-> f, to |-> Len(t) + 1, rep |-> <<>>]
  BY DEF Cutting
<1>13. ASSUME NEW r \in Seq(Cells), x = <<[from |-> 1, to |-> k + 1, rep |-> r]>>
       PROVE  \A j \in 1 .. Len(x) : x[j] = [from |-> 1, to |-> k + 1, rep |-> r]
  BY <1>13
<1>14. g[f] = <<>>
  <2>1. CASE f = Len(t) + 1
    BY <1>10, <2>1 DEF EditedBy
  <2>2. CASE f # Len(t) + 1
    <3>1. /\ f \in 1 .. Len(t) /\ cut = <<[from |-> f, to |-> Len(t) + 1, rep |-> <<>>]>>
          /\ TokenLen(From(t, f)) = 0
      BY <1>1, <2>2 DEF Cutting
    <3>2. 1 \in 1 .. Len(cut) /\ cut[1] = [from |-> f, to |-> Len(t) + 1, rep |-> <<>>]
      BY <3>1
    <3>3. \E i \in DOMAIN edits : edits[i] = cut[1]
      <4>1. Len(x) + 1 \in 1 .. Len(xd) /\ xd[Len(x) + 1] = cut[1]
        BY <1>5, <3>2
      <4> QED
        BY <1>7, <4>1
    <3>4. PICK i0 \in DOMAIN edits : edits[i0] = cut[1]
      BY <3>3
    <3>5. i0 \in EditsAt(edits, f)
      BY <1>1, <3>1, <3>2, <3>4 DEF EditsAt
    <3>6. Min(EditsAt(edits, f)) \in EditsAt(edits, f)
      <4>1. EditsAt(edits, f) \subseteq Nat
        BY <1>8 DEF EditsAt
      <4> QED
        BY <3>5, <4>1, MinIsLeast
    <3> DEFINE i1 == Min(EditsAt(edits, f))
    <3>7. i1 \in DOMAIN edits /\ edits[i1].from = f /\ edits[i1].to > f /\ EditAt(edits, f) = edits[i1]
      BY <3>6 DEF EditsAt, EditAt
    <3> HIDE DEF i1
    <3>8. edits[i1] = [from |-> f, to |-> Len(t) + 1, rep |-> <<>>]
      <4>1. CASE edits[i1] \in TokenEdits(t)
        BY <3>1, <3>7, <4>1, TokenEditSays
      <4>2. CASE \E j \in 1 .. Len(x) : edits[i1] = x[j]
        <5>1. x # <<>>
          BY <4>2
        <5>2. k \in 1 .. Len(t) /\ \E r \in Seq(Cells) : x = <<[from |-> 1, to |-> k + 1, rep |-> r]>>
          BY <5>1 DEF Restoring
        <5>3. edits[i1].from = 1
          BY <1>13, <4>2, <5>2
        <5> QED
          BY <1>1, <3>7, <5>2, <5>3
      <4>3. CASE \E j \in 1 .. Len(cut) : edits[i1] = cut[j]
        BY <1>12, <4>3
      <4> QED
        BY <1>11, <3>7, <4>1, <4>2, <4>3
    <3>9. g[f] = <<>> \o g[Len(t) + 1] /\ g[Len(t) + 1] = <<>>
      <4>1. EditAt(edits, f).rep = <<>> /\ EditAt(edits, f).to = Len(t) + 1
        BY <3>7, <3>8
      <4> QED
        BY <1>10, <3>1, <3>5, <4>1 DEF EditedBy
    <3>10. <<>> \o <<>> = <<>>
      OBVIOUS
    <3> QED
      BY <3>9, <3>10
  <2> QED
    BY <2>1, <2>2
\* The places between.
<1>15. ASSUME NEW i \in DOMAIN edits, edits[i].from \in k + 1 .. f - 1
       PROVE  Faithful(t, edits[i], f)
  <2>1. CASE edits[i] \in TokenEdits(t)
    <3> DEFINE e == edits[i]
               n == TokenLen(From(t, e.from))
    <3>1. /\ e.from \in 1 .. Len(t) /\ e.to = e.from + n /\ e.to <= Len(t) + 1 /\ n \in Nat
          /\ Unrestored(e.rep) = SubSeq(t, e.from, e.to - 1)
      BY <2>1, TokenEditSays
    <3>2. n <= f - e.from
      <4>1. CASE f = Len(t) + 1
        BY <1>1, <3>1, <4>1
      <4>2. CASE f # Len(t) + 1
        <5>1. e.from \in 1 .. f - 1
          BY <1>1, <1>15
        <5> QED
          BY <4>2, <5>1 DEF Cutting
      <4> QED
        BY <4>1, <4>2
    <3>3. e.to <= f
      BY <1>1, <3>1, <3>2
    <3> QED
      BY <3>1, <3>3 DEF Faithful
  <2>2. CASE \E j \in 1 .. Len(x) : edits[i] = x[j]
    <3>1. x # <<>>
      BY <2>2
    <3>2. k \in 1 .. Len(t) /\ \E r \in Seq(Cells) : x = <<[from |-> 1, to |-> k + 1, rep |-> r]>>
      BY <3>1 DEF Restoring
    <3>3. edits[i].from = 1
      BY <1>13, <2>2, <3>2
    <3> QED
      BY <1>1, <1>15, <3>2, <3>3
  <2>3. CASE \E j \in 1 .. Len(cut) : edits[i] = cut[j]
    <3>1. edits[i].from = f
      BY <1>12, <2>3
    <3> QED
      BY <1>1, <1>15, <3>1
  <2> QED
    BY <1>11, <2>1, <2>2, <2>3
<1>16. Unrestored(g[k + 1]) = SubSeq(t, k + 1, f - 1)
  <2> DEFINE a == k + 1
             u == SubSeq(t, a, f - 1)
  <2>1. a \in 1 .. Len(t) + 1 /\ f \in a .. Len(t) + 1
    BY <1>1
  <2>2. \A i \in DOMAIN edits :
          edits[i].from \in a .. f - 1 /\ edits[i].to > edits[i].from => Faithful(t, edits[i], f)
    BY <1>15
  <2>3. u \in Seq(Cells)
    <3>1. f \in f .. Len(t) + 1
      BY <1>1
    <3> HIDE DEF a
    <3> QED
      BY <1>1, <2>1, <3>1, Between
  <2> HIDE DEF a
  <2>4. Unrestored(g[a]) = SubSeq(t, a, f - 1) \o Unrestored(g[f])
    <3>1. edits \in Seq(Edit(Cells, Len(t))) /\ g \in Drafts(Len(t)) /\ EditedBy(g, t, edits)
      BY <1>7, <1>10 DEF E, Drafts
    <3> QED
      BY <2>1, <2>2, <3>1, EditsSay
  <2>5. u \o <<>> = u
    <3> HIDE DEF u
    <3> QED
      BY <2>3, ConcatEmptySeq
  <2> QED
    BY <1>14, <2>4, <2>5, UnrestoredNone DEF a
<1>17. Unrestored(g[1]) = h \o SubSeq(t, k + 1, f - 1)
  <2> DEFINE u == SubSeq(t, k + 1, f - 1)
  <2>0. g[k + 1] \in Seq(Cells) /\ u \in Seq(Cells)
    <3>1. k + 1 \in 1 .. Len(t) + 1
      BY <1>1
    <3>2. g[k + 1] \in Seq(Cells)
      BY <1>10, <3>1
    <3> QED
      BY <1>16, <3>2, UnrestoredTyped
  <2>1. CASE x = <<>>
    <3>1. h = <<>> /\ k = 0
      BY <2>1 DEF Restoring
    <3>2. k + 1 = 1
      BY <3>1
    <3>3. <<>> \o u = u
      BY <2>0, ConcatEmptySeq
    <3> QED
      BY <1>16, <3>1, <3>2, <3>3
  <2>2. CASE x # <<>>
    <3>1. /\ k \in 1 .. Len(t) /\ TokenLen(t) = 0
          /\ \E r \in Seq(Cells) :
               x = <<[from |-> 1, to |-> k + 1, rep |-> r]>> /\ Unrestored(r) = h
      BY <2>2 DEF Restoring
    <3>2. PICK r \in Seq(Cells) : x = <<[from |-> 1, to |-> k + 1, rep |-> r]>> /\ Unrestored(r) = h
      BY <3>1
    <3>3. 1 \in 1 .. Len(x) /\ x[1] = [from |-> 1, to |-> k + 1, rep |-> r] /\ 1 \in 1 .. Len(t)
      BY <1>1, <3>1, <3>2
    <3>4. \E i \in DOMAIN edits : edits[i] = x[1]
      <4>1. PICK j \in 1 .. Len(xd) : xd[j] = x[1]
        BY <1>6, <3>3
      <4>2. Len(w) + j \in DOMAIN edits /\ edits[Len(w) + j] = xd[j]
        BY <1>7
      <4> QED
        BY <4>1, <4>2
    <3>5. PICK i0 \in DOMAIN edits : edits[i0] = x[1]
      BY <3>4
    <3>6. i0 \in EditsAt(edits, 1)
      BY <3>1, <3>3, <3>5 DEF EditsAt
    <3>7. Min(EditsAt(edits, 1)) \in EditsAt(edits, 1)
      <4>1. EditsAt(edits, 1) \subseteq Nat
        BY <1>8 DEF EditsAt
      <4> QED
        BY <3>6, <4>1, MinIsLeast
    <3> DEFINE i1 == Min(EditsAt(edits, 1))
    <3>8. i1 \in DOMAIN edits /\ edits[i1].from = 1 /\ EditAt(edits, 1) = edits[i1]
      BY <3>7 DEF EditsAt, EditAt
    <3> HIDE DEF i1
    <3>9. edits[i1] = [from |-> 1, to |-> k + 1, rep |-> r]
      <4>1. CASE edits[i1] \in TokenEdits(t)
        <5>1. From(t, 1) = t
          BY <1>1, SubSeqFull DEF From
        <5> QED
          BY <3>1, <3>8, <4>1, <5>1, TokenEditSays
      <4>2. CASE \E j \in 1 .. Len(x) : edits[i1] = x[j]
        BY <1>13, <3>2, <4>2
      <4>3. CASE \E j \in 1 .. Len(cut) : edits[i1] = cut[j]
        <5>1. edits[i1].from = f
          BY <1>12, <4>3
        <5> QED
          BY <1>1, <3>1, <3>8, <5>1
      <4> QED
        BY <1>11, <3>8, <4>1, <4>2, <4>3
    <3>10. g[1] = r \o g[k + 1]
      <4>1. EditAt(edits, 1).rep = r /\ EditAt(edits, 1).to = k + 1
        BY <3>8, <3>9
      <4> QED
        BY <1>10, <3>3, <3>6, <4>1 DEF EditedBy
    <3>11. Unrestored(r \o g[k + 1]) = Unrestored(r) \o Unrestored(g[k + 1])
      BY <2>0, UnrestoredConcat
    <3> QED
      BY <1>16, <3>2, <3>10, <3>11
  <2> QED
    BY <2>1, <2>2
<1> QED
  BY <1>10, <1>17 DEF LeafSaid, edits, w, xd

-----------------------------------------------------------------------------
(* The scan of a text and the edits it finds. *)

\* An edit moves a text on, inside it.
LEMMA EditLies ==
  ASSUME NEW t \in Seq(Cells), NEW a \in Seq(Edit(Cells, Len(t))), NEW j, EditsAt(a, j) # {}
  PROVE  EditAt(a, j) \in Edit(Cells, Len(t)) /\ EditAt(a, j).to > j
<1>1. DOMAIN a \subseteq Nat /\ \A k \in DOMAIN a : a[k] \in Edit(Cells, Len(t))
  BY LenProperties, ElementOfSeq
<1>2. Min(EditsAt(a, j)) \in EditsAt(a, j)
  BY <1>1, MinIsLeast DEF EditsAt
<1> QED
  BY <1>1, <1>2 DEF EditsAt, EditAt

\* Two lists of edits that agree from a place on make the same of the text from there.
SameAt(a, b, j) ==
  /\ EditsAt(a, j) = {} <=> EditsAt(b, j) = {}
  /\ EditsAt(a, j) # {} => EditAt(a, j) = EditAt(b, j)
SameFrom(a, b, p, n) == \A j \in p .. n : SameAt(a, b, j)

LEMMA ApplyAgrees ==
  ASSUME NEW t \in Seq(Cells), NEW a \in Seq(Edit(Cells, Len(t))),
         NEW b, NEW g, EditedBy(g, t, a), NEW h, EditedBy(h, t, b),
         NEW p \in 1 .. Len(t) + 1, SameFrom(a, b, p, Len(t))
  PROVE  g[p] = h[p]
<1> DEFINE G == {j \in 1 .. Len(t) + 1 : j >= p => g[j] = h[j]}
<1>1. Len(t) \in Nat
  BY LenProperties
<1>2. Len(t) + 1 \in G
  BY <1>1 DEF EditedBy
<1>3. ASSUME NEW i \in 1 .. Len(t), \A j \in i + 1 .. Len(t) + 1 : j \in G PROVE i \in G
  <2>1. SUFFICES ASSUME i >= p PROVE g[i] = h[i]
    BY <1>1
  <2>2. \A j \in i + 1 .. Len(t) + 1 : g[j] = h[j]
    BY <1>1, <1>3, <2>1
  <2>3. SameAt(a, b, i)
    BY <1>1, <2>1 DEF SameFrom
  <2>4. CASE EditsAt(a, i) = {}
    <3>1. g[i] = <<t[i]>> \o g[i + 1] /\ h[i] = <<t[i]>> \o h[i + 1]
      BY <2>3, <2>4 DEF EditedBy, SameAt
    <3>2. g[i + 1] = h[i + 1]
      BY <1>1, <2>2
    <3> QED
      BY <3>1, <3>2
  <2>5. CASE EditsAt(a, i) # {}
    <3> DEFINE e == EditAt(a, i)
    <3>1. e.to \in i + 1 .. Len(t) + 1
      <4>1. e \in Edit(Cells, Len(t)) /\ e.to > i
        BY <2>5, EditLies
      <4> HIDE DEF e
      <4> QED
        BY <1>1, <4>1 DEF Edit
    <3>2. g[i] = e.rep \o g[e.to] /\ h[i] = e.rep \o h[e.to]
      BY <2>3, <2>5 DEF EditedBy, SameAt
    <3> HIDE DEF e
    <3>3. g[e.to] = h[e.to]
      BY <2>2, <3>1
    <3> QED
      BY <3>2, <3>3
  <2> QED
    BY <2>4, <2>5
<1> HIDE DEF G
<1>4. \A j \in 1 .. Len(t) + 1 : j \in G
  BY <1>1, <1>2, <1>3, Downward
<1> QED
  BY <1>1, <1>4 DEF G

\* One cell of a text.
LEMMA CellAt ==
  ASSUME NEW S, NEW t \in Seq(S), NEW i \in 1 .. Len(t)
  PROVE  SubSeq(t, i, i + 1 - 1) = <<t[i]>> /\ <<t[i]>> \in Seq(S)
<1> DEFINE c == SubSeq(t, i, i)
<1>1. Len(t) \in Nat /\ i + 1 - 1 = i /\ t[i] \in S
  BY LenProperties, ElementOfSeq
<1>2. c \in Seq(S) /\ Len(c) = 1 /\ c[1] = t[i]
  <2>1. \A j \in i .. i : t[j] \in S
    BY <1>1
  <2>2. i - i + 1 = 1 /\ i \in Nat
    BY <1>1
  <2> QED
    BY <1>1, <2>1, <2>2, SubSeqProperties
<1> HIDE DEF c
<1>3. c = <<t[i]>>
  BY <1>2
<1>4. <<t[i]>> \in Seq(S)
  BY <1>1
<1> QED
  BY <1>1, <1>3, <1>4 DEF c

\* Where no edit begins the text stays.
LEMMA Untouched ==
  ASSUME NEW t \in Seq(Cells), NEW a, NEW g \in Drafts(Len(t)), EditedBy(g, t, a),
         NEW p \in 1 .. Len(t) + 1, NEW q \in p .. Len(t) + 1,
         \A j \in p .. q - 1 : EditsAt(a, j) = {}
  PROVE  g[p] = SubSeq(t, p, q - 1) \o g[q]
<1> DEFINE Stays(j) == g[j] = SubSeq(t, j, q - 1) \o g[q]
           G == {j \in 1 .. Len(t) + 1 : j \in p .. q => Stays(j)}
<1>1. Len(t) \in Nat
  BY LenProperties
<1>2. ASSUME NEW i \in 1 .. Len(t) + 1 PROVE g[i] \in Seq(Cells)
  BY DEF Drafts
<1>3. g[q] = SubSeq(t, q, q - 1) \o g[q]
  <2>1. SubSeq(t, q, q - 1) = <<>>
    BY <1>1
  <2> QED
    BY <1>1, <1>2, <2>1
<1>4. Len(t) + 1 \in G
  <2>1. Stays(q)
    BY <1>3
  <2> HIDE DEF Stays
  <2> QED
    BY <1>1, <2>1
<1>5. ASSUME NEW i \in 1 .. Len(t), \A j \in i + 1 .. Len(t) + 1 : j \in G PROVE i \in G
  <2>1. SUFFICES ASSUME i \in p .. q PROVE Stays(i)
    <3> HIDE DEF Stays
    <3> QED
      BY <1>1
  <2>2. CASE i = q
    BY <1>3, <2>2
  <2>3. CASE i # q
    <3>1. i \in p .. q - 1 /\ i + 1 \in p .. q /\ i + 1 \in i + 1 .. Len(t) + 1
      BY <1>1, <2>1, <2>3
    <3>2. Stays(i + 1)
      <4> HIDE DEF Stays
      <4> QED
        BY <1>5, <3>1
    <3>3. g[i] = <<t[i]>> \o g[i + 1]
      BY <3>1 DEF EditedBy
    <3>4. /\ SubSeq(t, i, i + 1 - 1) \in Seq(Cells) /\ SubSeq(t, i + 1, q - 1) \in Seq(Cells)
          /\ SubSeq(t, i, i + 1 - 1) \o SubSeq(t, i + 1, q - 1) = SubSeq(t, i, q - 1)
      <4>1. i \in 1 .. Len(t) + 1 /\ i + 1 \in i .. Len(t) + 1 /\ q \in i + 1 .. Len(t) + 1
        BY <1>1, <3>1
      <4>2. SubSeq(t, i, i + 1 - 1) \in Seq(Cells) /\ SubSeq(t, i, i + 1 - 1) \o SubSeq(t, i + 1, q - 1) = SubSeq(t, i, q - 1)
        BY <4>1, Between
      <4>3. i + 1 \in 1 .. Len(t) + 1 /\ q \in i + 1 .. Len(t) + 1
        BY <1>1, <4>1
      <4>4. SubSeq(t, i + 1, q - 1) \in Seq(Cells)
        BY <4>3, Between
      <4> QED
        BY <4>2, <4>4
    <3>5. SubSeq(t, i, i + 1 - 1) = <<t[i]>>
      BY <1>1, CellAt
    <3>6. g[q] \in Seq(Cells)
      BY <1>1, <1>2
    <3> DEFINE A == SubSeq(t, i, i + 1 - 1)
               B == SubSeq(t, i + 1, q - 1)
    <3>7. (A \o B) \o g[q] = A \o (B \o g[q])
      BY <3>4, <3>6, CellsRegroup
    <3> HIDE DEF A, B
    <3> QED
      BY <3>2, <3>3, <3>4, <3>5, <3>7 DEF A, B
  <2> QED
    BY <2>2, <2>3
<1> HIDE DEF Stays, G
<1>6. \A j \in 1 .. Len(t) + 1 : j \in G
  BY <1>1, <1>4, <1>5, Downward
<1>7. Stays(p)
  BY <1>1, <1>6 DEF G
<1> QED
  BY <1>7 DEF Stays

\* Where the scan goes on, and that nothing it finds further on begins before.
LEMMA StrideLies ==
  ASSUME NEW S, NEW t \in Seq(S), NEW i \in 1 .. Len(t)
  PROVE  Stride(t, i) \in 1 .. Len(t) + 1 - i /\ TokenLen(From(t, i)) \in Nat
<1>1. Len(t) \in Nat
  BY LenProperties
<1>2. From(t, i) \in Seq(S) /\ Len(From(t, i)) = Len(t) + 1 - i
  BY <1>1, FromIsTail
<1>3. TokenLen(From(t, i)) \in 0 .. Len(t) + 1 - i
  BY <1>2, TokenLies
<1> QED
  BY <1>1, <1>3 DEF Stride

LEMMA ScannedOnward ==
  ASSUME NEW S, NEW t \in Seq(S), NEW w, Scanned(w, t)
  PROVE  \A i \in 1 .. Len(t) + 1 : \A k \in 1 .. Len(w[i]) : w[i][k].from >= i
<1> DEFINE G == {i \in 1 .. Len(t) + 1 : \A k \in 1 .. Len(w[i]) : w[i][k].from >= i}
<1>1. Len(t) \in Nat
  BY LenProperties
<1>2. Len(t) + 1 \in G
  <2>1. w[Len(t) + 1] = <<>>
    BY DEF Scanned
  <2> QED
    BY <1>1, <2>1
<1>3. ASSUME NEW i \in 1 .. Len(t), \A j \in i + 1 .. Len(t) + 1 : j \in G PROVE i \in G
  <2> DEFINE m == i + Stride(t, i)
  <2>1. m \in i + 1 .. Len(t) + 1
    BY <1>1, StrideLies
  <2>2. w[i] = Own(t, i) \o w[m]
    BY DEF Scanned
  <2> HIDE DEF m
  <2>3. \A k \in 1 .. Len(w[m]) : w[m][k].from >= m
    BY <1>3, <2>1
  <2>4. w[m] \in Seq(TokenEdits(t)) /\ \A k \in 1 .. Len(w[m]) : w[m][k].from \in Nat
    <3>1. w[m] \in Seq(TokenEdits(t))
      BY <1>1, <2>1 DEF Scanned
    <3>2. \A k \in 1 .. Len(w[m]) : w[m][k] \in TokenEdits(t)
      BY <3>1, ElementOfSeq
    <3>3. \A e \in TokenEdits(t) : e.from \in Nat
      <4>1. \A j \in 1 .. Len(t) : TokenEdit(t, j).from = j /\ j \in Nat
        BY DEF TokenEdit
      <4> QED
        BY <4>1 DEF TokenEdits
    <3> QED
      BY <3>1, <3>2, <3>3
  <2>5. CASE Own(t, i) = <<>>
    <3>1. w[i] = w[m]
      BY <2>2, <2>4, <2>5
    <3> QED
      BY <1>1, <2>1, <2>3, <2>4, <3>1
  <2>6. CASE Own(t, i) = <<TokenEdit(t, i)>>
    <3> DEFINE e == TokenEdit(t, i)
    <3>1. e.from = i
      BY DEF TokenEdit
    <3> HIDE DEF e
    <3>2. Len(w[m]) \in Nat
      BY <2>4, LenProperties
    <3>3. w[i] = <<e>> \o w[m]
      BY <2>2, <2>6 DEF e
    <3>4. Len(w[i]) = 1 + Len(w[m]) /\ w[i][1] = e /\ \A k \in 2 .. Len(w[i]) : w[i][k] = w[m][k - 1]
      <4>1. <<e>> \in Seq({e} \union TokenEdits(t)) /\ w[m] \in Seq({e} \union TokenEdits(t)) /\ Len(<<e>>) = 1
        BY <2>4
      <4> QED
        BY <3>2, <3>3, <4>1, ConcatProperties
    <3>5. ASSUME NEW k \in 1 .. Len(w[i]) PROVE w[i][k].from >= i
      <4>1. CASE k = 1
        BY <3>1, <3>4, <4>1
      <4>2. CASE k # 1
        <5>1. k \in 2 .. Len(w[i]) /\ k - 1 \in 1 .. Len(w[m])
          BY <3>2, <3>4, <4>2
        <5>2. w[i][k] = w[m][k - 1] /\ w[m][k - 1].from >= m /\ w[m][k - 1].from \in Nat
          BY <2>3, <2>4, <3>4, <5>1
        <5> QED
          BY <1>1, <2>1, <5>2
      <4> QED
        BY <4>1, <4>2
    <3> QED
      BY <1>1, <3>5
  <2> QED
    BY <2>5, <2>6 DEF Own
<1> HIDE DEF G
<1>4. \A j \in 1 .. Len(t) + 1 : j \in G
  BY <1>1, <1>2, <1>3, Downward
<1> QED
  BY <1>4 DEF G

\* What is put in the place of what the scan finds.
PieceAt(t, i, json) ==
  IF TokenLen(From(t, i)) = 0 THEN <<t[i]>> ELSE Backfilled(TokenAt(t, i), json)

LEMMA PieceTyped ==
  ASSUME NEW t \in Seq(Cells), NEW i \in 1 .. Len(t), NEW json
  PROVE  PieceAt(t, i, json) \in Seq(Cells)
<1>1. <<t[i]>> \in Seq(Cells)
  BY CellAt
<1>2. TokenAt(t, i) \in Seq(Cells) \/ TokenLen(From(t, i)) = 0
  <2>1. SUFFICES ASSUME TokenLen(From(t, i)) # 0 PROVE TokenAt(t, i) \in Seq(Cells)
    OBVIOUS
  <2> DEFINE m == i + TokenLen(From(t, i))
  <2>2. Len(t) \in Nat /\ m \in i + 1 .. Len(t) + 1
    BY <2>1, StrideLies, LenProperties DEF Stride
  <2>3. TokenAt(t, i) = SubSeq(t, i, m - 1)
    <3>1. m - 1 = i + TokenLen(From(t, i)) - 1
      BY StrideLies
    <3> HIDE DEF m
    <3> QED
      BY <3>1 DEF TokenAt
  <2> HIDE DEF m
  <2>4. i \in 1 .. Len(t) + 1 /\ m \in i .. Len(t) + 1 /\ m \in m .. Len(t) + 1
    BY <2>2
  <2>5. SubSeq(t, i, m - 1) \in Seq(Cells)
    BY <2>4, Between
  <2> QED
    BY <2>3, <2>5
<1>3. CASE TokenLen(From(t, i)) = 0
  BY <1>1, <1>3 DEF PieceAt
<1>4. CASE TokenLen(From(t, i)) # 0
  <2>1. Backfilled(TokenAt(t, i), json) \in Seq(Cells)
    BY <1>2, <1>4, BackfilledText, SecretsAreCells
  <2> QED
    BY <1>4, <2>1 DEF PieceAt
<1> QED
  BY <1>3, <1>4

LEMMA TokenEditsTyped ==
  ASSUME NEW t \in Seq(Cells) PROVE TokenEdits(t) \subseteq Edit(Cells, Len(t))
<1>1. Len(t) \in Nat
  BY LenProperties
<1>2. ASSUME NEW i \in 1 .. Len(t), TokenAt(t, i) \in Mapped PROVE TokenEdit(t, i) \in Edit(Cells, Len(t))
  <2> DEFINE rep == Backfilled(TokenAt(t, i), TRUE)
             to  == i + TokenLen(From(t, i))
  <2>1. TokenAt(t, i) \in Seq(Cells)
    BY <1>2, GrammarOK, TokenText
  <2>2. rep \in Seq(Cells)
    BY <2>1, BackfilledText, SecretsAreCells
  <2>3. From(t, i) \in Seq(Cells) /\ Len(From(t, i)) = Len(t) + 1 - i
    BY <1>1, FromIsTail
  <2>4. TokenLen(From(t, i)) \in 0 .. Len(t) + 1 - i
    BY <2>3, TokenLies
  <2>5. to \in 0 .. Len(t) + 1 /\ i \in Nat
    BY <1>1, <2>4
  <2>6. TokenEdit(t, i) = [from |-> i, to |-> to, rep |-> rep]
    BY DEF TokenEdit
  <2> HIDE DEF rep, to
  <2> QED
    BY <2>2, <2>5, <2>6 DEF Edit
<1> QED
  BY <1>2 DEF TokenEdits

LEMMA ScanStep ==
  ASSUME NEW t \in Seq(Cells), NEW w, Scanned(w, t), NEW i \in 1 .. Len(t),
         NEW g \in Drafts(Len(t)), EditedBy(g, t, w[i]),
         NEW h \in Drafts(Len(t)), EditedBy(h, t, w[i + Stride(t, i)])
  PROVE  g[i] = PieceAt(t, i, TRUE) \o h[i + Stride(t, i)]
<1> DEFINE m == i + Stride(t, i)
           a == w[i]
           b == w[m]
           e == TokenEdit(t, i)
           E == Edit(Cells, Len(t))
<1>1. Len(t) \in Nat /\ m \in i + 1 .. Len(t) + 1
  <2>1. Len(t) \in Nat
    BY LenProperties
  <2> QED
    BY <2>1, StrideLies
<1>2. a = Own(t, i) \o b
  BY DEF Scanned
<1>3. a \in Seq(E) /\ b \in Seq(E)
  <2> DEFINE T == TokenEdits(t)
  <2>1. i \in 1 .. Len(t) + 1 /\ m \in 1 .. Len(t) + 1
    BY <1>1
  <2> HIDE DEF m
  <2>2. a \in Seq(T) /\ b \in Seq(T)
    BY <2>1 DEF Scanned
  <2>3. T \subseteq E
    BY TokenEditsTyped
  <2> HIDE DEF a, b, E, T
  <2> QED
    BY <2>2, <2>3
<1>4. \A k \in 1 .. Len(b) : b[k].from >= m
  <2>1. m \in 1 .. Len(t) + 1
    BY <1>1
  <2> HIDE DEF m
  <2> QED
    BY <2>1, ScannedOnward
<1>5. EditedBy(g, t, a) /\ EditedBy(h, t, b)
  OBVIOUS
<1>6. (Own(t, i) = <<>> /\ TokenAt(t, i) \notin Mapped) \/ (Own(t, i) = <<e>> /\ TokenAt(t, i) \in Mapped)
  BY DEF Own
<1>7. DOMAIN a = 1 .. Len(a) /\ DOMAIN b = 1 .. Len(b) /\ Len(a) \in Nat /\ Len(b) \in Nat
      /\ \A k \in 1 .. Len(b) : b[k].from \in Nat
  <2> HIDE DEF a, b, E, m
  <2>1. \A k \in 1 .. Len(b) : b[k] \in E
    BY <1>3, ElementOfSeq
  <2>2. DOMAIN a = 1 .. Len(a) /\ DOMAIN b = 1 .. Len(b) /\ Len(a) \in Nat /\ Len(b) \in Nat
    BY <1>3, LenProperties
  <2>3. \A x \in E : x.from \in Nat
    BY DEF Edit, E
  <2> QED
    BY <2>1, <2>2, <2>3
<1>8. TokenLen(From(t, i)) # 0 => m - 1 = i + TokenLen(From(t, i)) - 1
  BY StrideLies DEF Stride
<1>9. e.from = i /\ e.to = i + TokenLen(From(t, i)) /\ e.rep = Backfilled(TokenAt(t, i), TRUE)
  BY DEF TokenEdit
<1>10. TokenAt(t, i) \in Mapped => TokenLen(From(t, i)) # 0 /\ e.to = m
  <2>1. SUFFICES ASSUME TokenAt(t, i) \in Mapped PROVE TokenLen(From(t, i)) # 0
    BY <1>9 DEF Stride
  <2>2. SUFFICES ASSUME TokenLen(From(t, i)) = 0 PROVE FALSE
    OBVIOUS
  <2>3. TokenAt(t, i) = SubSeq(t, i, i - 1)
    BY <2>2 DEF TokenAt
  <2>4. SubSeq(t, i, i - 1) = <<>>
    BY <1>1
  <2> QED
    BY <2>1, <2>3, <2>4, GrammarOK
<1>11. PieceAt(t, i, TRUE) = IF TokenAt(t, i) \in Mapped THEN e.rep ELSE SubSeq(t, i, m - 1)
  <2>1. CASE TokenLen(From(t, i)) = 0
    <3>1. SubSeq(t, i, i + 1 - 1) = <<t[i]>>
      BY CellAt
    <3>2. m = i + 1 /\ TokenAt(t, i) \notin Mapped
      BY <1>10, <2>1 DEF Stride
    <3> HIDE DEF m, e
    <3> QED
      BY <2>1, <3>1, <3>2 DEF PieceAt
  <2>2. CASE TokenLen(From(t, i)) # 0
    <3>1. TokenAt(t, i) = SubSeq(t, i, m - 1)
      <4> HIDE DEF m
      <4> QED
        BY <1>8, <2>2 DEF TokenAt
    <3>2. TokenAt(t, i) \notin Mapped => Backfilled(TokenAt(t, i), TRUE) = TokenAt(t, i)
      BY DEF Backfilled
    <3> HIDE DEF m, e
    <3> QED
      BY <1>9, <2>2, <3>1, <3>2 DEF PieceAt
  <2> QED
    BY <2>1, <2>2
<1> HIDE DEF m, a, b, e, E
<1>12. CASE Own(t, i) = <<>> /\ TokenAt(t, i) \notin Mapped
  <2>1. a = b
    BY <1>2, <1>3, <1>12
  <2>2. \A j \in i .. m - 1 : EditsAt(a, j) = {}
    BY <1>1, <1>4, <1>7, <2>1 DEF EditsAt
  <2>3. g[i] = SubSeq(t, i, m - 1) \o g[m]
    <3>1. i \in 1 .. Len(t) + 1 /\ m \in i .. Len(t) + 1
      BY <1>1
    <3> QED
      BY <1>5, <2>2, <3>1, Untouched
  <2>4. g[m] = h[m]
    <3>1. SameFrom(a, b, m, Len(t))
      BY <2>1 DEF SameAt, SameFrom
    <3>2. m \in 1 .. Len(t) + 1
      BY <1>1
    <3>4. a \in Seq(Edit(Cells, Len(t)))
      BY <1>3 DEF E
    <3> QED
      BY <1>5, <3>1, <3>2, <3>4, ApplyAgrees
  <2> QED
    BY <1>11, <1>12, <2>3, <2>4 DEF m
<1>13. CASE Own(t, i) = <<e>> /\ TokenAt(t, i) \in Mapped
  <2>1. Len(a) = 1 + Len(b) /\ a[1] = e /\ \A k \in 2 .. Len(a) : a[k] = b[k - 1]
    <3>1. <<e>> \in Seq({e} \union E) /\ b \in Seq({e} \union E) /\ Len(<<e>>) = 1 /\ a = <<e>> \o b
      BY <1>2, <1>3, <1>13
    <3> QED
      BY <1>7, <3>1, ConcatProperties
  <2>2. e.from = i /\ e.to = m /\ m > i
    BY <1>1, <1>9, <1>10, <1>13
  <2>3. EditsAt(a, i) = {1}
    <3>1. 1 \in EditsAt(a, i)
      BY <1>7, <2>1, <2>2 DEF EditsAt
    <3>2. ASSUME NEW k \in EditsAt(a, i), k # 1 PROVE FALSE
      <4>1. k \in 2 .. Len(a) /\ k - 1 \in 1 .. Len(b) /\ a[k].from = i
        BY <1>7, <2>1, <3>2 DEF EditsAt
      <4>2. b[k - 1].from = i /\ b[k - 1].from >= m
        BY <1>4, <2>1, <4>1
      <4> QED
        BY <1>1, <4>2
    <3> QED
      BY <3>1, <3>2
  <2>4. EditAt(a, i) = e
    <3>1. {1} \subseteq Nat /\ {1} # {}
      OBVIOUS
    <3>2. Min({1}) = 1
      BY <3>1, MinIsLeast
    <3> QED
      BY <2>1, <2>3, <3>2 DEF EditAt
  <2>5. g[i] = e.rep \o g[m]
    <3>1. EditsAt(a, i) # {}
      BY <2>3
    <3>2. g[i] = EditAt(a, i).rep \o g[EditAt(a, i).to]
      BY <1>5, <3>1 DEF EditedBy
    <3> QED
      BY <2>2, <2>4, <3>2
  <2>6. ASSUME NEW j \in m .. Len(t) PROVE SameAt(a, b, j)
    <3>1. \A k \in 1 .. Len(b) : k \in EditsAt(b, j) <=> k + 1 \in EditsAt(a, j)
      <4>1. \A k \in 1 .. Len(b) : k + 1 \in 1 .. Len(a) /\ a[k + 1] = b[k]
        <5>1. ASSUME NEW k \in 1 .. Len(b) PROVE k + 1 \in 1 .. Len(a) /\ a[k + 1] = b[k]
          <6>1. k + 1 \in 2 .. Len(a) /\ k + 1 \in 1 .. Len(a) /\ (k + 1) - 1 = k
            BY <1>7, <2>1
          <6>2. a[k + 1] = b[(k + 1) - 1]
            BY <2>1, <6>1
          <6> QED
            BY <6>1, <6>2
        <5> QED
          BY <5>1
      <4> QED
        BY <1>7, <4>1 DEF EditsAt
    <3>2. ASSUME NEW k \in EditsAt(a, j) PROVE k - 1 \in EditsAt(b, j) /\ k - 1 \in 1 .. Len(b)
      <4>1. k \in 1 .. Len(a) /\ k # 1
        BY <1>1, <1>7, <2>1, <2>2, <2>6, <3>2 DEF EditsAt
      <4>2. k - 1 \in 1 .. Len(b) /\ k - 1 + 1 = k
        BY <1>7, <2>1, <4>1
      <4> QED
        BY <3>1, <3>2, <4>2
    <3>3. EditsAt(a, j) = {} <=> EditsAt(b, j) = {}
      <4>1. EditsAt(b, j) \subseteq 1 .. Len(b)
        BY <1>7 DEF EditsAt
      <4> QED
        BY <3>1, <3>2, <4>1
    <3>4. ASSUME EditsAt(a, j) # {} PROVE EditAt(a, j) = EditAt(b, j)
      <4> DEFINE A == EditsAt(a, j)
                 B == EditsAt(b, j)
                 x == Min(A)
                 y == Min(B)
      <4>1. A \subseteq Nat /\ A # {} /\ B \subseteq Nat /\ B # {} /\ B \subseteq 1 .. Len(b)
        BY <1>7, <3>3, <3>4 DEF EditsAt
      <4>2. x \in A /\ (\A z \in A : x <= z) /\ y \in B /\ (\A z \in B : y <= z)
        <5> HIDE DEF A, B
        <5> QED
          BY <4>1, MinIsLeast
      <4>3. x - 1 \in B /\ y + 1 \in A /\ x \in Nat /\ y \in Nat /\ x - 1 \in 1 .. Len(b)
        BY <3>1, <3>2, <4>1, <4>2
      <4>4. y = x - 1 /\ x \in 2 .. Len(a)
        <5> HIDE DEF x, y, A, B
        <5>1. x <= y + 1 /\ y <= x - 1
          BY <4>2, <4>3
        <5> QED
          BY <1>7, <2>1, <4>3, <5>1
      <4>5. a[x] = b[y]
        BY <2>1, <4>4
      <4> QED
        BY <4>5 DEF EditAt
    <3> QED
      BY <3>3, <3>4 DEF SameAt
  <2>7. g[m] = h[m]
    <3>1. SameFrom(a, b, m, Len(t))
      BY <2>6 DEF SameFrom
    <3>2. m \in 1 .. Len(t) + 1
      BY <1>1
    <3>4. a \in Seq(Edit(Cells, Len(t)))
      BY <1>3 DEF E
    <3> QED
      BY <1>5, <3>1, <3>2, <3>4, ApplyAgrees
  <2> QED
    BY <1>11, <1>13, <2>5, <2>7 DEF m
<1> QED
  BY <1>6, <1>12, <1>13

-----------------------------------------------------------------------------
(* The restored text, in one spelling: a scan that puts a piece at each place. *)

\* A restored text, with each secret in the spelling of its run.
RespellCell(x, json) ==
  IF \E u \in Mapped : x = Secret[u].json
    THEN Backfilled(CHOOSE u \in Mapped : x = Secret[u].json, json)[1]
    ELSE x
Respell(text, json) == [i \in DOMAIN text |-> RespellCell(text[i], json)]

LEMMA RespellCells ==
  ASSUME NEW json
  PROVE  /\ \A x \in Cells : RespellCell(x, json) \in Cells
         /\ \A x \in Plain : RespellCell(x, json) = x
         /\ \A u \in Mapped : <<RespellCell(Secret[u].json, json)>> = Backfilled(u, json)
<1>1. \A u \in Mapped : /\ Backfilled(u, json) = IF json THEN <<Secret[u].json>> ELSE <<Secret[u].raw>>
                        /\ Backfilled(u, json)[1] \in SecretCells
                        /\ Backfilled(u, json) = <<Backfilled(u, json)[1]>>
  <2>1. ASSUME NEW u \in Mapped PROVE Backfilled(u, json) = IF json THEN <<Secret[u].json>> ELSE <<Secret[u].raw>>
    BY DEF Backfilled
  <2>2. \A u \in Mapped : Secret[u].json \in SecretCells /\ Secret[u].raw \in SecretCells
    BY DEF SecretCells
  <2> QED
    BY <2>1, <2>2
<1>2. ASSUME NEW x \in Cells PROVE RespellCell(x, json) \in Cells
  BY <1>1, SecretsAreCells DEF RespellCell
<1>3. ASSUME NEW x \in Plain PROVE RespellCell(x, json) = x
  <2>1. ~ \E u \in Mapped : x = Secret[u].json
    BY SecretsApart DEF SecretCells
  <2> QED
    BY <2>1 DEF RespellCell
<1>4. ASSUME NEW u \in Mapped PROVE <<RespellCell(Secret[u].json, json)>> = Backfilled(u, json)
  <2> DEFINE c == CHOOSE v \in Mapped : Secret[u].json = Secret[v].json
  <2>1. c \in Mapped /\ Secret[u].json = Secret[c].json
    OBVIOUS
  <2>2. c = u
    BY <2>1, SecretsApart
  <2>3. RespellCell(Secret[u].json, json) = Backfilled(c, json)[1]
    BY DEF RespellCell
  <2> HIDE DEF c
  <2> QED
    BY <1>1, <2>2, <2>3
<1> QED
  BY <1>2, <1>3, <1>4

LEMMA RespellText ==
  ASSUME NEW json
  PROVE  /\ \A x \in Seq(Cells) : Respell(x, json) \in Seq(Cells) /\ Len(Respell(x, json)) = Len(x)
         /\ \A x, y \in Seq(Cells) : Respell(x \o y, json) = Respell(x, json) \o Respell(y, json)
         /\ \A x \in Seq(Plain) : Respell(x, json) = x
         /\ Respell(<<>>, json) = <<>>
<1>1. ASSUME NEW x \in Seq(Cells)
      PROVE  /\ Respell(x, json) \in Seq(Cells) /\ Len(Respell(x, json)) = Len(x)
             /\ \A i \in 1 .. Len(x) : Respell(x, json)[i] = RespellCell(x[i], json)
  <2>1. DOMAIN x = 1 .. Len(x) /\ Len(x) \in Nat /\ \A i \in 1 .. Len(x) : x[i] \in Cells
    BY SequenceFacts
  <2> DEFINE f == [i \in 1 .. Len(x) |-> RespellCell(x[i], json)]
  <2>2. Respell(x, json) = f
    BY <2>1 DEF Respell
  <2>3. f \in [1 .. Len(x) -> Cells] /\ \A i \in 1 .. Len(x) : f[i] = RespellCell(x[i], json)
    BY <2>1, RespellCells
  <2> HIDE DEF f
  <2>4. f \in Seq(Cells) /\ Len(f) = Len(x)
    BY <2>1, <2>3, SequenceOf
  <2> QED
    BY <2>2, <2>3, <2>4
<1>2. ASSUME NEW x \in Seq(Cells), NEW y \in Seq(Cells)
      PROVE  Respell(x \o y, json) = Respell(x, json) \o Respell(y, json)
  <2> DEFINE z == x \o y
             a == Respell(x, json)
             b == Respell(y, json)
             c == Respell(z, json)
             d == a \o b
  <2>1. Len(x) \in Nat /\ Len(y) \in Nat
    BY LenProperties
  <2>2. /\ z \in Seq(Cells) /\ Len(z) = Len(x) + Len(y)
        /\ \A i \in 1 .. Len(z) : z[i] = IF i <= Len(x) THEN x[i] ELSE y[i - Len(x)]
    BY ConcatProperties
  <2> HIDE DEF z
  <2>3. /\ a \in Seq(Cells) /\ Len(a) = Len(x) /\ \A i \in 1 .. Len(x) : a[i] = RespellCell(x[i], json)
        /\ b \in Seq(Cells) /\ Len(b) = Len(y) /\ \A i \in 1 .. Len(y) : b[i] = RespellCell(y[i], json)
        /\ c \in Seq(Cells) /\ Len(c) = Len(z) /\ \A i \in 1 .. Len(z) : c[i] = RespellCell(z[i], json)
    BY <1>1, <2>2
  <2> HIDE DEF a, b, c
  <2>4. /\ d \in Seq(Cells) /\ Len(d) = Len(a) + Len(b)
        /\ \A i \in 1 .. Len(d) : d[i] = IF i <= Len(a) THEN a[i] ELSE b[i - Len(a)]
    <3>1. a \in Seq(Cells) /\ b \in Seq(Cells)
      BY <2>3
    <3> QED
      BY <3>1, ConcatProperties
  <2> HIDE DEF d
  <2>5. ASSUME NEW i \in 1 .. Len(z) PROVE c[i] = d[i]
    <3>1. CASE i <= Len(x)
      <4>1. i \in 1 .. Len(x)
        BY <2>1, <2>2, <3>1
      <4> QED
        BY <2>1, <2>2, <2>3, <2>4, <3>1, <4>1
    <3>2. CASE ~ (i <= Len(x))
      <4>1. i - Len(x) \in 1 .. Len(y)
        BY <2>1, <2>2, <3>2
      <4> QED
        BY <2>1, <2>2, <2>3, <2>4, <3>2, <4>1
    <3> QED
      BY <3>1, <3>2
  <2>6. c = d
    BY <2>1, <2>2, <2>3, <2>4, <2>5, SeqEqual
  <2> QED
    BY <2>6 DEF a, b, c, d, z
<1>3. ASSUME NEW x \in Seq(Plain) PROVE Respell(x, json) = x
  <2>1. x \in Seq(Cells) /\ \A i \in 1 .. Len(x) : x[i] \in Plain
    BY SequenceFacts, PlainStays
  <2>2. /\ Respell(x, json) \in Seq(Cells) /\ Len(Respell(x, json)) = Len(x)
        /\ \A i \in 1 .. Len(x) : Respell(x, json)[i] = x[i]
    BY <1>1, <2>1, RespellCells
  <2> DEFINE r == Respell(x, json)
  <2> HIDE DEF r
  <2>3. r \in Seq(Cells) /\ Len(r) = Len(x) /\ \A i \in 1 .. Len(r) : r[i] = x[i]
    BY <2>2 DEF r
  <2>4. r = x
    BY <2>1, <2>3, SeqEqual
  <2> QED
    BY <2>4 DEF r
<1>4. Respell(<<>>, json) = <<>>
  <2>1. <<>> \in Seq(Plain)
    OBVIOUS
  <2> QED
    BY <1>3, <2>1
<1> QED
  BY <1>1, <1>2, <1>3, <1>4

LEMMA PieceRespelled ==
  ASSUME NEW t \in Seq(Plain), NEW i \in 1 .. Len(t), NEW json
  PROVE  Respell(PieceAt(t, i, TRUE), json) = PieceAt(t, i, json)
<1>1. CASE TokenLen(From(t, i)) = 0
  <2>1. <<t[i]>> \in Seq(Plain)
    BY CellAt
  <2> QED
    BY <1>1, <2>1, RespellText DEF PieceAt
<1>2. CASE TokenLen(From(t, i)) # 0
  <2> DEFINE u == TokenAt(t, i)
  <2>1. PieceAt(t, i, TRUE) = Backfilled(u, TRUE) /\ PieceAt(t, i, json) = Backfilled(u, json)
    BY <1>2 DEF PieceAt
  <2>2. u \in Seq(Plain)
    <3> DEFINE m == i + TokenLen(From(t, i))
    <3>1. Len(t) \in Nat /\ m \in i + 1 .. Len(t) + 1 /\ m - 1 = i + TokenLen(From(t, i)) - 1
      BY <1>2, StrideLies, LenProperties DEF Stride
    <3>2. i \in 1 .. Len(t) + 1 /\ m \in i .. Len(t) + 1 /\ m \in m .. Len(t) + 1
      BY <3>1
    <3> HIDE DEF m
    <3>3. SubSeq(t, i, m - 1) \in Seq(Plain)
      BY <3>2, Between
    <3> QED
      BY <3>1, <3>3 DEF TokenAt
  <2> HIDE DEF u
  <2>3. CASE u \in Mapped
    <3>1. Backfilled(u, TRUE) = <<Secret[u].json>> /\ Secret[u].json \in Cells
      BY <2>3, SecretsAreCells DEF Backfilled, SecretCells
    <3> DEFINE c == Secret[u].json
    <3>2. c \in Cells /\ <<RespellCell(c, json)>> = Backfilled(u, json)
      BY <2>3, <3>1, RespellCells
    <3> HIDE DEF c
    <3>3. Respell(<<c>>, json) = <<RespellCell(c, json)>>
      BY DEF Respell
    <3> QED
      BY <2>1, <3>1, <3>2, <3>3 DEF c
  <2>4. CASE u \notin Mapped
    <3>1. Backfilled(u, TRUE) = u /\ Backfilled(u, json) = u
      BY <2>4 DEF Backfilled
    <3> QED
      BY <2>1, <2>2, <3>1, RespellText
  <2> QED
    BY <2>3, <2>4
<1> QED
  BY <1>1, <1>2

\* A restored text, from each place on.
Scan(v, t, json) ==
  /\ v[Len(t) + 1] = <<>>
  /\ \A i \in 1 .. Len(t) : v[i] = PieceAt(t, i, json) \o v[i + Stride(t, i)]
  /\ \A i \in 1 .. Len(t) + 1 : v[i] \in Seq(Cells)

LEMMA RestoredFrom ==
  ASSUME NEW t \in Seq(Plain), NEW json
  PROVE  \E v : Scan(v, t, json) /\ Restored(t, json) = v[1]
<1> DEFINE n == Len(t)
<1>1. t \in Seq(Cells) /\ n \in Nat
  BY PlainStays, LenProperties
<1>2. PICK w : Scanned(w, t)
  BY WithinLeafFrom
<1>3. ASSUME NEW i \in 1 .. n + 1
      PROVE  /\ w[i] \in Seq(Edit(Cells, n))
             /\ \E g \in Drafts(n) : EditedBy(g, t, w[i]) /\ Apply(t, w[i]) = g[1]
  <2> DEFINE a == w[i]
             T == TokenEdits(t)
             E == Edit(Cells, n)
  <2>1. a \in Seq(T)
    BY <1>2 DEF Scanned
  <2>2. T \subseteq E
    BY <1>1, TokenEditsTyped
  <2> HIDE DEF a, T, E
  <2>3. a \in Seq(E)
    BY <2>1, <2>2
  <2>4. a \in Seq(Edit(Cells, Len(t)))
    BY <2>3 DEF E
  <2>5. \E g \in [1 .. Len(t) + 1 -> Seq(Cells)] : EditedBy(g, t, a) /\ Apply(t, a) = g[1]
    BY <1>1, <2>4, ApplyFrom
  <2> QED
    BY <2>4, <2>5 DEF Drafts, a
<1> DEFINE d(i) == CHOOSE g \in Drafts(n) : EditedBy(g, t, w[i]) /\ Apply(t, w[i]) = g[1]
           v    == [i \in 1 .. n + 1 |-> Respell(d(i)[i], json)]
<1>4. \A i \in 1 .. n + 1 : d(i) \in Drafts(n) /\ EditedBy(d(i), t, w[i]) /\ Apply(t, w[i]) = d(i)[1]
  BY <1>3
<1> HIDE DEF d
<1>5. ASSUME NEW i \in 1 .. n + 1 PROVE d(i)[i] \in Seq(Cells) /\ v[i] = Respell(d(i)[i], json) /\ v[i] \in Seq(Cells)
  <2>1. d(i)[i] \in Seq(Cells)
    BY <1>4 DEF Drafts
  <2>2. v[i] = Respell(d(i)[i], json)
    OBVIOUS
  <2> HIDE DEF v
  <2> QED
    BY <2>1, <2>2, RespellText
<1> HIDE DEF v
<1>6. v[n + 1] = <<>>
  <2>1. n + 1 \in 1 .. n + 1
    BY <1>1
  <2>2. d(n + 1)[n + 1] = <<>>
    BY <1>4, <2>1 DEF EditedBy
  <2> QED
    BY <1>5, <2>1, <2>2, RespellText
<1>7. ASSUME NEW i \in 1 .. n PROVE v[i] = PieceAt(t, i, json) \o v[i + Stride(t, i)]
  <2> DEFINE m == i + Stride(t, i)
  <2>1. m \in 1 .. n + 1 /\ i \in 1 .. n + 1
    BY <1>1, StrideLies
  <2>2. d(i)[i] = PieceAt(t, i, TRUE) \o d(m)[m]
    <3> DEFINE g == d(i)
               h == d(m)
    <3>1. g \in Drafts(Len(t)) /\ EditedBy(g, t, w[i]) /\ h \in Drafts(Len(t)) /\ EditedBy(h, t, w[i + Stride(t, i)])
      BY <1>4, <2>1
    <3> HIDE DEF g, h, m
    <3>2. g[i] = PieceAt(t, i, TRUE) \o h[i + Stride(t, i)]
      BY <1>1, <1>2, <3>1, ScanStep
    <3> QED
      BY <3>2 DEF g, h, m
  <2> HIDE DEF m
  <2> DEFINE p == PieceAt(t, i, TRUE)
             r == d(m)[m]
  <2>3. p \in Seq(Cells) /\ r \in Seq(Cells)
    BY <1>1, <1>5, <2>1, PieceTyped
  <2>4. Respell(p, json) = PieceAt(t, i, json)
    BY PieceRespelled
  <2>5. v[i] = Respell(d(i)[i], json) /\ v[m] = Respell(r, json) /\ d(i)[i] = p \o r
    BY <1>5, <2>1, <2>2
  <2> HIDE DEF p, r
  <2>6. Respell(p \o r, json) = Respell(p, json) \o Respell(r, json)
    BY <2>3, RespellText
  <2> QED
    BY <2>4, <2>5, <2>6 DEF m
<1>8. Restored(t, json) = v[1]
  <2>1. 1 \in 1 .. n + 1
    BY <1>1
  <2>2. Restored(t, json) = Respell(Apply(t, WithinLeafEdits(t)), json)
    BY DEF Restored, Respell, RespellCell
  <2>3. Apply(t, WithinLeafEdits(t)) = d(1)[1]
    BY <1>2, <1>4, <2>1 DEF Scanned
  <2> QED
    BY <1>5, <2>1, <2>2, <2>3
<1>9. Scan(v, t, json)
  BY <1>5, <1>6, <1>7 DEF Scan
<1> QED
  BY <1>8, <1>9

LEMMA TailOfTail ==
  ASSUME NEW S, NEW t \in Seq(S), NEW k \in 1 .. Len(t) + 1, NEW j \in 1 .. Len(t) + 2 - k
  PROVE  From(From(t, k), j) = From(t, k + j - 1)
<1> DEFINE a == From(t, k)
           b == From(a, j)
           c == From(t, k + j - 1)
<1>1. Len(t) \in Nat
  BY LenProperties
<1>2. a \in Seq(S) /\ Len(a) = Len(t) + 1 - k /\ \A i \in 1 .. Len(t) + 1 - k : a[i] = t[k + i - 1]
  BY FromIsTail
<1> HIDE DEF a
<1>3. j \in 1 .. Len(a) + 1
  BY <1>1, <1>2
<1>4. b \in Seq(S) /\ Len(b) = Len(a) + 1 - j /\ \A i \in 1 .. Len(a) + 1 - j : b[i] = a[j + i - 1]
  <2>1. a \in Seq(S)
    BY <1>2
  <2> QED
    BY <1>3, <2>1, FromIsTail
<1>5. k + j - 1 \in 1 .. Len(t) + 1
  BY <1>1
<1>6. /\ c \in Seq(S) /\ Len(c) = Len(t) + 1 - (k + j - 1)
      /\ \A i \in 1 .. Len(t) + 1 - (k + j - 1) : c[i] = t[k + j - 1 + i - 1]
  <2> DEFINE q == k + j - 1
  <2>1. q \in 1 .. Len(t) + 1
    BY <1>5
  <2> HIDE DEF q
  <2>2. From(t, q) \in Seq(S) /\ Len(From(t, q)) = Len(t) + 1 - q /\ \A i \in 1 .. Len(t) + 1 - q : From(t, q)[i] = t[q + i - 1]
    BY <2>1, FromIsTail
  <2>3. q \in Int
    BY <2>1
  <2>4. ASSUME NEW i \in 1 .. Len(t) + 1 - q PROVE q + i - 1 = k + j - 1 + i - 1
    BY <2>3 DEF q
  <2> QED
    BY <2>2, <2>4 DEF q
<1> HIDE DEF b, c
<1>7. Len(b) = Len(c)
  BY <1>1, <1>2, <1>4, <1>6
<1>8. ASSUME NEW i \in 1 .. Len(b) PROVE b[i] = c[i]
  <2>1. i \in 1 .. Len(a) + 1 - j /\ j + i - 1 \in 1 .. Len(t) + 1 - k /\ i \in 1 .. Len(t) + 1 - (k + j - 1)
    BY <1>1, <1>2, <1>4, <1>6, <1>7
  <2>2. b[i] = a[j + i - 1] /\ a[j + i - 1] = t[k + (j + i - 1) - 1] /\ c[i] = t[k + j - 1 + i - 1]
    BY <1>2, <1>4, <1>6, <2>1
  <2>3. k + (j + i - 1) - 1 = k + j - 1 + i - 1
    OBVIOUS
  <2> QED
    BY <2>2, <2>3
<1>9. b = c
  BY <1>4, <1>6, <1>7, <1>8, SeqEqual
<1> QED
  BY <1>9 DEF a, b, c

\* A tail of a text is scanned as the text is from there on.
LEMMA TailPiece ==
  ASSUME NEW t \in Seq(Cells), NEW k \in 1 .. Len(t) + 1, NEW j \in k .. Len(t), NEW json
  PROVE  /\ Stride(From(t, k), j - k + 1) = Stride(t, j)
         /\ PieceAt(From(t, k), j - k + 1, json) = PieceAt(t, j, json)
<1> DEFINE a == From(t, k)
           i == j - k + 1
           n == TokenLen(From(t, j))
<1>1. Len(t) \in Nat /\ i \in 1 .. Len(t) + 1 - k /\ k + i - 1 = j /\ i \in 1 .. Len(t) + 2 - k
  BY LenProperties
<1>2. a \in Seq(Cells) /\ Len(a) = Len(t) + 1 - k /\ \A l \in 1 .. Len(t) + 1 - k : a[l] = t[k + l - 1]
  BY FromIsTail
<1>3. From(a, i) = From(t, j)
  <2> HIDE DEF i
  <2>1. From(From(t, k), i) = From(t, k + i - 1)
    BY <1>1, TailOfTail
  <2> QED
    BY <1>1, <2>1
<1>4. j \in 1 .. Len(t) /\ n \in Nat /\ n <= Len(t) + 1 - j
  <2>1. j \in 1 .. Len(t)
    BY <1>1
  <2>2. n \in Nat
    BY <2>1, StrideLies
  <2>3. Stride(t, j) \in 1 .. Len(t) + 1 - j
    BY <2>1, StrideLies
  <2> QED
    BY <1>1, <2>1, <2>2, <2>3 DEF Stride
<1> HIDE DEF a
<1>5. a[i] = t[j]
  BY <1>1, <1>2
<1>6. n # 0 => SubSeq(a, i, i + n - 1) = SubSeq(t, j, j + n - 1)
  <2>1. SUFFICES ASSUME n # 0 PROVE SubSeq(a, i, i + n - 1) = SubSeq(t, j, j + n - 1)
    OBVIOUS
  <2> DEFINE x == SubSeq(a, i, i + n - 1)
             y == SubSeq(t, j, j + n - 1)
  <2> HIDE DEF n, i
  <2>2. /\ Len(a) \in Nat /\ i \in 1 .. Len(a) + 1 /\ i + n - 1 \in i - 1 .. Len(a)
        /\ j \in 1 .. Len(t) + 1 /\ j + n - 1 \in j - 1 .. Len(t)
    BY <1>1, <1>2, <1>4, <2>1
  <2>4. x \in Seq(Cells) /\ Len(x) = n /\ \A l \in 1 .. n : x[l] = a[i + l - 1]
    BY <1>2, <1>4, <2>2, SliceIs
  <2>5. y \in Seq(Cells) /\ Len(y) = n /\ \A l \in 1 .. n : y[l] = t[j + l - 1]
    BY <1>4, <2>2, SliceIs
  <2> HIDE DEF x, y
  <2>6. ASSUME NEW l \in 1 .. n PROVE x[l] = y[l]
    <3>1. i + l - 1 \in 1 .. Len(t) + 1 - k /\ k + (i + l - 1) - 1 = j + l - 1
      BY <1>1, <1>2, <1>4, <2>2
    <3> QED
      BY <1>2, <2>4, <2>5, <3>1
  <2>7. x = y
    BY <2>4, <2>5, <2>6, SeqEqual
  <2> QED
    BY <2>7 DEF x, y
<1> HIDE DEF i, n
<1>7. Stride(a, i) = Stride(t, j)
  BY <1>3 DEF Stride
<1>8. PieceAt(a, i, json) = PieceAt(t, j, json)
  <2>1. TokenLen(From(a, i)) = n /\ TokenLen(From(t, j)) = n
    BY <1>3 DEF n
  <2>2. TokenAt(a, i) = SubSeq(a, i, i + n - 1) /\ TokenAt(t, j) = SubSeq(t, j, j + n - 1)
    BY <2>1 DEF TokenAt
  <2>3. n # 0 => TokenAt(a, i) = TokenAt(t, j)
    BY <1>6, <2>2
  <2> QED
    BY <1>5, <2>1, <2>3 DEF PieceAt
<1> QED
  BY <1>7, <1>8 DEF a, i

LEMMA TailScan ==
  ASSUME NEW t \in Seq(Cells), NEW k \in 1 .. Len(t) + 1, NEW json,
         NEW v, Scan(v, t, json), NEW u, Scan(u, From(t, k), json)
  PROVE  v[k] = u[1]
<1> DEFINE G == {j \in 1 .. Len(t) + 1 : j >= k => v[j] = u[j - k + 1]}
<1>1. Len(t) \in Nat /\ Len(From(t, k)) = Len(t) + 1 - k
  BY LenProperties, FromIsTail
<1>2. Len(t) + 1 \in G
  <2>1. v[Len(t) + 1] = <<>> /\ u[Len(From(t, k)) + 1] = <<>> /\ Len(From(t, k)) + 1 = Len(t) + 1 - k + 1
    BY <1>1 DEF Scan
  <2> QED
    BY <1>1, <2>1
<1>3. ASSUME NEW i \in 1 .. Len(t), \A j \in i + 1 .. Len(t) + 1 : j \in G PROVE i \in G
  <2>1. SUFFICES ASSUME i >= k PROVE v[i] = u[i - k + 1]
    BY <1>1
  <2> DEFINE m == i + Stride(t, i)
             p == PieceAt(t, i, json)
             l == i - k + 1
  <2>2. m \in i + 1 .. Len(t) + 1
    BY <1>1, StrideLies
  <2>3. i \in k .. Len(t) /\ l \in 1 .. Len(From(t, k))
    BY <1>1, <2>1
  <2>4. v[i] = p \o v[m]
    BY DEF Scan
  <2>5. u[l] = p \o u[m - k + 1]
    <3>1. u[l] = PieceAt(From(t, k), l, json) \o u[l + Stride(From(t, k), l)]
      BY <2>3 DEF Scan
    <3>2. Stride(From(t, k), l) = Stride(t, i) /\ PieceAt(From(t, k), l, json) = p
      BY <2>3, TailPiece
    <3>3. l + Stride(t, i) = m - k + 1
      <4>1. Stride(t, i) \in Int
        BY StrideLies
      <4> QED
        BY <4>1
    <3> QED
      BY <3>1, <3>2, <3>3
  <2> HIDE DEF m, p, l
  <2>6. v[m] = u[m - k + 1]
    BY <1>1, <1>3, <2>1, <2>2
  <2> QED
    BY <2>4, <2>5, <2>6 DEF l
<1> HIDE DEF G
<1>4. \A j \in 1 .. Len(t) + 1 : j \in G
  BY <1>1, <1>2, <1>3, Downward
<1>5. v[k] = u[k - k + 1] /\ k - k + 1 = 1
  BY <1>1, <1>4 DEF G
<1> QED
  BY <1>5

\* What is restored of a text: the first piece of it, and then what is restored of the
\* rest.
LEMMA RestoredUnfolds ==
  ASSUME NEW t \in Seq(Plain), NEW json
  PROVE  /\ Restored(t, json) \in Seq(Cells)
         /\ t = <<>> => Restored(t, json) = <<>>
         /\ t # <<>> => Restored(t, json) = PieceAt(t, 1, json) \o Restored(From(t, 1 + Stride(t, 1)), json)
<1>1. t \in Seq(Cells) /\ Len(t) \in Nat
  BY PlainStays, LenProperties
<1>2. PICK v : Scan(v, t, json) /\ Restored(t, json) = v[1]
  BY RestoredFrom
<1>3. v[1] \in Seq(Cells)
  BY <1>1, <1>2 DEF Scan
<1>4. t = <<>> => v[1] = <<>>
  BY <1>2 DEF Scan
<1>5. ASSUME t # <<>> PROVE v[1] = PieceAt(t, 1, json) \o Restored(From(t, 1 + Stride(t, 1)), json)
  <2> DEFINE m == 1 + Stride(t, 1)
  <2>1. 1 \in 1 .. Len(t)
    BY <1>1, <1>5, EmptySeq
  <2>2. m \in 1 .. Len(t) + 1
    BY <1>1, <2>1, StrideLies
  <2>3. v[1] = PieceAt(t, 1, json) \o v[m]
    BY <1>2, <2>1 DEF Scan
  <2> HIDE DEF m
  <2>4. From(t, m) \in Seq(Plain)
    BY <2>2, FromIsTail
  <2>5. PICK u : Scan(u, From(t, m), json) /\ Restored(From(t, m), json) = u[1]
    BY <2>4, RestoredFrom
  <2>6. v[m] = u[1]
    BY <1>1, <1>2, <2>2, <2>5, TailScan
  <2> QED
    BY <2>3, <2>5, <2>6 DEF m
<1> QED
  BY <1>2, <1>3, <1>4, <1>5

-----------------------------------------------------------------------------
(* The writer: what it released and what it holds say what it was fed. *)

\* What the writer holds: the beginning of a placeholder, and no more.
Stuck(x)  == x # <<>> /\ TokenLen(x) = 0 /\ IsPlaceholderPrefix(x)
Resting(x) == x \in Seq(Plain) /\ (x = <<>> \/ Stuck(x))

LEMMA FromFirst ==
  ASSUME NEW S, NEW x \in Seq(S) PROVE From(x, 1) = x
<1> DEFINE a == From(x, 1)
<1>1. Len(x) \in Nat /\ 1 \in 1 .. Len(x) + 1
  BY LenProperties
<1>2. a \in Seq(S) /\ Len(a) = Len(x) + 1 - 1 /\ \A j \in 1 .. Len(x) + 1 - 1 : a[j] = x[1 + j - 1]
  BY <1>1, FromIsTail
<1> HIDE DEF a
<1>3. Len(a) = Len(x) /\ \A j \in 1 .. Len(a) : a[j] = x[j]
  <2>1. ASSUME NEW j \in 1 .. Len(a) PROVE a[j] = x[j]
    <3>1. j \in 1 .. Len(x) + 1 - 1 /\ 1 + j - 1 = j
      BY <1>1, <1>2
    <3> QED
      BY <1>2, <3>1
  <2> QED
    BY <1>1, <1>2, <2>1
<1>4. a = x
  BY <1>2, <1>3, SeqEqual
<1> QED
  BY <1>4 DEF a

LEMMA TokensFit == \A t \in Tokens : Len(t) <= MaxTokenLen
<1> DEFINE T == {Len(t) : t \in Tokens}
<1>1. T \subseteq Nat /\ T # {}
  <2>1. \A t \in Tokens : Len(t) \in Nat
    BY GrammarOK, LenProperties
  <2> QED
    BY <2>1, GrammarOK
<1>2. IsFiniteSet(T)
  <2> DEFINE f == [t \in Tokens |-> Len(t)]
  <2>1. f \in Surjection(Tokens, T)
    BY DEF Surjection
  <2> QED
    BY <2>1, GrammarOK, FS_Surjection
<1>3. \A n \in T : Max(T) >= n
  <2> HIDE DEF T
  <2> QED
    BY <1>1, <1>2, MaxIsGreatest
<1>4. MaxTokenLen = Max(T) /\ MaxTokenLen \in Nat
  BY LongestToken DEF MaxTokenLen
<1>5. ASSUME NEW t \in Tokens PROVE Len(t) <= MaxTokenLen
  <2>1. Len(t) \in T
    OBVIOUS
  <2> HIDE DEF T
  <2>2. Max(T) >= Len(t) /\ Len(t) \in Nat
    BY <1>1, <1>3, <2>1
  <2> QED
    BY <1>4, <2>2
<1> QED
  BY <1>5

LEMMA WholePrefix ==
  ASSUME NEW x \in Seq(Cells) PROVE PrefixLen(x) = Len(x) <=> IsPlaceholderPrefix(x)
<1> DEFINE K == {k \in 0 .. Len(x) : IsPlaceholderPrefix(SubSeq(x, 1, k))}
<1>1. Len(x) \in Nat
  BY LenProperties
<1>2. SubSeq(x, 1, Len(x)) = x
  BY FromFirst DEF From
<1>3. 0 \in K
  <2>1. PICK t : t \in Tokens
    BY GrammarOK
  <2>2. SubSeq(x, 1, 0) = <<>> /\ <<>> \in Seq(Cells) /\ Len(<<>>) = 0
    BY <1>1
  <2>3. t \in Seq(Cells) /\ Len(t) \in Nat
    BY <2>1, TokenText
  <2>4. IsPrefix(<<>>, t)
    <3> DEFINE e == <<>>
    <3>1. e \in Seq(Cells) /\ Len(e) <= Len(t) /\ \A i \in 1 .. Len(e) : e[i] = t[i]
      BY <2>3
    <3> HIDE DEF e
    <3>2. IsPrefix(e, t)
      BY <2>3, <3>1, PrefixIs
    <3> QED
      BY <3>2 DEF e
  <2>5. IsPlaceholderPrefix(SubSeq(x, 1, 0))
    BY <2>1, <2>2, <2>4 DEF IsPlaceholderPrefix
  <2> QED
    BY <1>1, <2>5
<1>4. Max(K) \in K /\ \A k \in K : Max(K) >= k
  <2>1. K \subseteq 0 .. Len(x) /\ K # {}
    BY <1>3
  <2> HIDE DEF K
  <2> QED
    BY <1>1, <2>1, MaxUpTo
<1>5. PrefixLen(x) = Max(K)
  BY DEF PrefixLen
<1>6. Len(x) \in K <=> IsPlaceholderPrefix(x)
  <2>1. IsPlaceholderPrefix(SubSeq(x, 1, Len(x))) <=> IsPlaceholderPrefix(x)
    BY <1>2
  <2>2. Len(x) \in 0 .. Len(x)
    BY <1>1
  <2> QED
    BY <2>1, <2>2
<1>7. K \subseteq 0 .. Len(x)
  OBVIOUS
<1>8. Max(K) = Len(x) <=> Len(x) \in K
  <2> DEFINE m == Max(K)
  <2> HIDE DEF K
  <2>1. m \in K /\ (\A k \in K : m >= k) /\ m \in 0 .. Len(x)
    BY <1>4, <1>7
  <2> HIDE DEF m
  <2>2. m = Len(x) <=> Len(x) \in K
    BY <1>1, <2>1
  <2> QED
    BY <2>2 DEF m
<1> HIDE DEF K
<1> QED
  BY <1>5, <1>6, <1>8

LEMMA HaltsStuck ==
  ASSUME NEW x \in Seq(Cells), x # <<>> PROVE Halts(x) <=> Stuck(x)
<1>1. TokenLen(x) \in Nat
  BY TokenIs
<1> QED
  BY <1>1, WholePrefix DEF Halts, Stuck

\* What follows does not change what a text begins with, unless it is the beginning of
\* a placeholder.
LEMMA HeadStays ==
  ASSUME NEW x \in Seq(Cells), x # <<>>, ~ Stuck(x), NEW w \in Seq(Cells)
  PROVE  TokenLen(x \o w) = TokenLen(x)
<1> DEFINE y == x \o w
<1>1. CASE TokenLen(x) # 0
  BY <1>1, TokenStays
<1>2. CASE TokenLen(x) = 0
  <2>1. SUFFICES ASSUME TokenLen(y) # 0 PROVE FALSE
    BY <1>2
  <2>2. /\ y \in Seq(Cells) /\ Len(x) \in Nat /\ Len(w) \in Nat /\ Len(y) = Len(x) + Len(w)
        /\ \A i \in 1 .. Len(x) : y[i] = x[i]
    <3>1. Len(x) \in Nat /\ Len(w) \in Nat
      BY LenProperties
    <3>2. y \in Seq(Cells) /\ Len(y) = Len(x) + Len(w) /\ \A i \in 1 .. Len(y) : y[i] = IF i <= Len(x) THEN x[i] ELSE w[i - Len(x)]
      BY ConcatProperties
    <3> HIDE DEF y
    <3>3. ASSUME NEW i \in 1 .. Len(x) PROVE y[i] = x[i]
      <4>1. i \in 1 .. Len(y) /\ i <= Len(x)
        BY <3>1, <3>2
      <4> QED
        BY <3>2, <4>1
    <3> QED
      BY <3>1, <3>2, <3>3
  <2> HIDE DEF y
  <2>3. PICK u \in Tokens : IsPrefix(u, y)
    BY <2>1, <2>2, TokenIs
  <2>4. u \in Seq(Cells) /\ Len(u) \in Nat \ {0}
    BY TokenText
  <2>5. Len(u) <= Len(y) /\ \A i \in 1 .. Len(u) : u[i] = y[i]
    BY <2>2, <2>3, <2>4, PrefixIs
  <2>6. CASE Len(u) <= Len(x)
    <3>1. \A i \in 1 .. Len(u) : u[i] = x[i]
      BY <2>2, <2>4, <2>5, <2>6
    <3>2. IsPrefix(u, x)
      BY <2>4, <2>6, <3>1, PrefixIs
    <3>3. TokenLen(x) = Len(u)
      BY <3>2, TokenIs
    <3> QED
      BY <1>2, <2>4, <3>3
  <2>7. CASE Len(x) <= Len(u)
    <3>1. \A i \in 1 .. Len(x) : x[i] = u[i]
      BY <2>2, <2>4, <2>5, <2>7
    <3>2. IsPrefix(x, u)
      BY <2>4, <2>7, <3>1, PrefixIs
    <3> QED
      BY <1>2, <3>2 DEF Stuck, IsPlaceholderPrefix
  <2> QED
    BY <2>2, <2>4, <2>6, <2>7
<1> QED
  BY <1>1, <1>2

LEMMA PieceStays ==
  ASSUME NEW x \in Seq(Cells), x # <<>>, ~ Stuck(x), NEW w \in Seq(Cells), NEW json
  PROVE  /\ Stride(x, 1) \in 1 .. Len(x)
         /\ PieceAt(x, 1, json) = HeadOf(x, json)
         /\ PieceAt(x \o w, 1, json) = HeadOf(x, json)
         /\ From(x \o w, 1 + Stride(x \o w, 1)) = From(x, 1 + Stride(x, 1)) \o w
<1> DEFINE y == x \o w
           n == TokenLen(x)
<1>1. Len(x) \in Nat /\ 1 \in 1 .. Len(x) /\ Len(w) \in Nat
  BY EmptySeq, LenProperties
<1>2. y \in Seq(Cells) /\ Len(y) = Len(x) + Len(w) /\ \A i \in 1 .. Len(y) : y[i] = IF i <= Len(x) THEN x[i] ELSE w[i - Len(x)]
  BY ConcatProperties
<1>3. From(x, 1) = x /\ From(y, 1) = y
  BY <1>2, FromFirst
<1>4. TokenLen(y) = n
  BY HeadStays
<1>5. Stride(x, 1) = (IF n = 0 THEN 1 ELSE n) /\ Stride(y, 1) = Stride(x, 1)
  <2> HIDE DEF y
  <2> QED
    BY <1>3, <1>4 DEF Stride
<1>6. Stride(x, 1) \in 1 .. Len(x) /\ n \in Nat
  <2>1. Stride(x, 1) \in 1 .. Len(x) + 1 - 1 /\ TokenLen(From(x, 1)) \in Nat
    BY <1>1, StrideLies
  <2> QED
    BY <1>1, <1>3, <2>1
<1>7. y[1] = x[1]
  <2> HIDE DEF y
  <2>1. 1 \in 1 .. Len(y) /\ 1 <= Len(x)
    BY <1>1, <1>2
  <2> QED
    BY <1>2, <2>1
<1>8. n # 0 => SubSeq(y, 1, n) = SubSeq(x, 1, n)
  <2>1. SUFFICES ASSUME n # 0 PROVE SubSeq(y, 1, n) = SubSeq(x, 1, n)
    OBVIOUS
  <2> HIDE DEF y
  <2>2. n \in 1 .. Len(x)
    BY <1>5, <1>6, <2>1
  <2> HIDE DEF n
  <2> DEFINE a == SubSeq(y, 1, n)
             b == SubSeq(x, 1, n)
  <2>3. \A i \in 1 .. n : x[i] \in Cells /\ y[i] = x[i]
    <3>1. \A i \in 1 .. n : i \in 1 .. Len(x) /\ i \in 1 .. Len(y) /\ i <= Len(x)
      BY <1>1, <1>2, <2>2
    <3>2. \A i \in 1 .. Len(x) : x[i] \in Cells
      BY ElementOfSeq
    <3> QED
      BY <1>2, <3>1, <3>2
  <2>4. \A i \in 1 .. n : y[i] \in Cells
    BY <2>3
  <2>5. a \in Seq(Cells) /\ Len(a) = n /\ \A i \in 1 .. n : a[i] = y[i]
    <3>1. a \in Seq(Cells) /\ Len(a) = n - 1 + 1 /\ \A i \in 1 .. n - 1 + 1 : a[i] = y[1 + i - 1]
      BY <2>2, <2>4, SubSeqProperties
    <3> HIDE DEF a
    <3>2. n - 1 + 1 = n /\ \A i \in 1 .. n : 1 + i - 1 = i
      BY <2>2
    <3> QED
      BY <3>1, <3>2
  <2>6. b \in Seq(Cells) /\ Len(b) = n /\ \A i \in 1 .. n : b[i] = x[i]
    <3>1. b \in Seq(Cells) /\ Len(b) = n - 1 + 1 /\ \A i \in 1 .. n - 1 + 1 : b[i] = x[1 + i - 1]
      BY <2>2, <2>3, SubSeqProperties
    <3> HIDE DEF b
    <3>2. n - 1 + 1 = n /\ \A i \in 1 .. n : 1 + i - 1 = i
      BY <2>2
    <3> QED
      BY <3>1, <3>2
  <2> HIDE DEF a, b
  <2>7. a = b
    BY <2>3, <2>5, <2>6, SeqEqual
  <2> QED
    BY <2>7 DEF a, b
<1>9. From(y, 1 + Stride(y, 1)) = From(x, 1 + Stride(x, 1)) \o w
  <2> DEFINE m == 1 + Stride(x, 1)
  <2>1. m \in 1 .. Len(x) + 1
    BY <1>1, <1>6
  <2> HIDE DEF m
  <2>2. From(x \o w, m) = From(x, m) \o w
    BY <2>1, FromHead
  <2> QED
    BY <1>5, <2>2 DEF m
<1>10. TokenAt(x, 1) = SubSeq(x, 1, n) /\ TokenAt(y, 1) = SubSeq(y, 1, n)
  <2>1. 1 + n - 1 = n
    BY <1>6
  <2> HIDE DEF y
  <2> QED
    BY <1>3, <1>4, <2>1 DEF TokenAt
<1> HIDE DEF y
<1>11. CASE n = 0
  <2>1. HeadOf(x, json) = <<x[1]>>
    BY <1>11 DEF HeadOf
  <2>2. PieceAt(x, 1, json) = <<x[1]>> /\ PieceAt(y, 1, json) = <<y[1]>>
    BY <1>3, <1>4, <1>11 DEF PieceAt
  <2> QED
    BY <1>6, <1>7, <1>9, <2>1, <2>2 DEF y
<1>12. CASE n # 0
  <2>1. n > 0
    BY <1>6, <1>12
  <2>2. HeadOf(x, json) = Backfilled(SubSeq(x, 1, n), json)
    BY <2>1 DEF HeadOf
  <2>3. PieceAt(x, 1, json) = Backfilled(TokenAt(x, 1), json) /\ PieceAt(y, 1, json) = Backfilled(TokenAt(y, 1), json)
    BY <1>3, <1>4, <1>12 DEF PieceAt
  <2> QED
    BY <1>6, <1>8, <1>9, <1>10, <1>12, <2>2, <2>3 DEF y
<1> QED
  BY <1>11, <1>12

LEMMA RestoredHead ==
  ASSUME NEW x \in Seq(Plain), x # <<>>, ~ Stuck(x), NEW w \in Seq(Plain), NEW json
  PROVE  /\ From(x, 1 + Stride(x, 1)) \in Seq(Plain)
         /\ Restored(x \o w, json) = HeadOf(x, json) \o Restored(From(x, 1 + Stride(x, 1)) \o w, json)
<1>1. x \in Seq(Cells) /\ w \in Seq(Cells)
  BY PlainStays
<1>2. /\ Stride(x, 1) \in 1 .. Len(x)
      /\ PieceAt(x \o w, 1, json) = HeadOf(x, json)
      /\ From(x \o w, 1 + Stride(x \o w, 1)) = From(x, 1 + Stride(x, 1)) \o w
  BY <1>1, PieceStays
<1>3. x \o w \in Seq(Plain) /\ x \o w # <<>>
  <2>1. Len(x) \in Nat \ {0} /\ Len(w) \in Nat
    BY LenProperties, EmptySeq
  <2>2. x \o w \in Seq(Plain) /\ Len(x \o w) = Len(x) + Len(w)
    BY ConcatProperties
  <2> DEFINE y == x \o w
  <2>3. y \in Seq(Plain) /\ Len(y) = Len(x) + Len(w)
    BY <2>2
  <2> HIDE DEF y
  <2>4. y # <<>>
    BY <2>1, <2>3
  <2> QED
    BY <2>2, <2>4 DEF y
<1>4. From(x, 1 + Stride(x, 1)) \in Seq(Plain)
  <2> DEFINE m == 1 + Stride(x, 1)
  <2>1. m \in 1 .. Len(x) + 1
    BY <1>2, LenProperties
  <2> HIDE DEF m
  <2>2. From(x, m) \in Seq(Plain)
    BY <2>1, FromIsTail
  <2> QED
    BY <2>2 DEF m
<1> DEFINE y == x \o w
<1>5. Restored(y, json) = PieceAt(y, 1, json) \o Restored(From(y, 1 + Stride(y, 1)), json)
  <2>1. y \in Seq(Plain) /\ y # <<>>
    BY <1>3
  <2> HIDE DEF y
  <2> QED
    BY <2>1, RestoredUnfolds
<1> QED
  BY <1>2, <1>4, <1>5

\* What has left of h from place i on, and what is held, say what the rest of h does.
WrittenOut(r, h, i, json) ==
  /\ r.out \in Seq(Cells) /\ Resting(r.held)
  /\ r.held # <<>> => \E j \in 1 .. Len(h) : r.held = From(h, j)
  /\ \A w \in Seq(Plain) :
       Restored(From(h, i) \o w, json) = r.out \o Restored(r.held \o w, json)

LEMMA WrittenStep ==
  ASSUME NEW h \in Seq(Plain), NEW json, NEW g, ReleasedBy(g, Cells, h, json), NEW i \in 1 .. Len(h),
         \A j \in i + 1 .. Len(h) + 1 : WrittenOut(g[j], h, j, json)
  PROVE  WrittenOut(g[i], h, i, json)
<1> DEFINE x == From(h, i)
           m == i + Stride(h, i)
           c == HeadOf(x, json)
<1>1. h \in Seq(Cells) /\ Len(h) \in Nat
  BY PlainStays, LenProperties
<1>2. x \in Seq(Plain) /\ x \in Seq(Cells) /\ x # <<>>
  <2>1. x \in Seq(Plain) /\ Len(x) = Len(h) + 1 - i
    BY <1>1, FromIsTail
  <2> HIDE DEF x
  <2>2. x \in Seq(Cells) /\ Len(x) # 0
    BY <1>1, <2>1, PlainStays
  <2> QED
    BY <2>1, <2>2
<1>3. m \in i + 1 .. Len(h) + 1
  BY <1>1, StrideLies
<1>4. /\ Stride(x, 1) = Stride(h, i)
      /\ From(x, 1 + Stride(x, 1)) = From(h, m)
  <2>1. i \in 1 .. Len(h) + 1 /\ i \in i .. Len(h) /\ i - i + 1 = 1
    BY <1>1
  <2>2. Stride(From(h, i), i - i + 1) = Stride(h, i)
    BY <1>1, <2>1, TailPiece
  <2>3. 1 + Stride(h, i) \in 1 .. Len(h) + 2 - i /\ i + (1 + Stride(h, i)) - 1 = m
    BY <1>1, StrideLies
  <2> DEFINE k == 1 + Stride(h, i)
  <2>4. From(From(h, i), k) = From(h, i + k - 1)
    <3> HIDE DEF k, m
    <3>1. k \in 1 .. Len(h) + 2 - i
      BY <2>3 DEF k
    <3> QED
      BY <2>1, <3>1, TailOfTail
  <2> QED
    BY <2>1, <2>2, <2>3, <2>4
<1>5. g[i] = IF Halts(x) THEN [out |-> <<>>, held |-> x] ELSE [g[m] EXCEPT !.out = c \o @]
  BY DEF ReleasedBy
<1>6. g[m] \in [out : Seq(Cells), held : Seq(Cells)] /\ WrittenOut(g[m], h, m, json)
  BY <1>1, <1>3 DEF ReleasedBy
<1> HIDE DEF x, m
<1>7. CASE Stuck(x)
  <2>1. g[i] = [out |-> <<>>, held |-> x]
    BY <1>2, <1>5, <1>7, HaltsStuck
  <2>2. Resting(x)
    BY <1>2, <1>7 DEF Resting
  <2>3. ASSUME NEW w \in Seq(Plain) PROVE Restored(x \o w, json) = <<>> \o Restored(x \o w, json)
    <3> DEFINE y == x \o w
    <3>1. y \in Seq(Plain)
      BY <1>2, ConcatProperties
    <3> HIDE DEF y
    <3>2. Restored(y, json) \in Seq(Cells)
      BY <3>1, RestoredUnfolds
    <3> QED
      BY <3>2 DEF y
  <2>4. g[i].out = <<>> /\ g[i].held = x
    BY <2>1
  <2> QED
    BY <2>2, <2>3, <2>4 DEF WrittenOut, x
<1>8. CASE ~ Stuck(x)
  <2> DEFINE o == g[m].out
             d == g[m].held
  <2>1. g[i].out = c \o o /\ g[i].held = d /\ o \in Seq(Cells)
    <3> HIDE DEF c
    <3>1. g[i] = [g[m] EXCEPT !.out = c \o @]
      BY <1>2, <1>5, <1>8, HaltsStuck
    <3> QED
      BY <1>6, <3>1
  <2>2. c \in Seq(Cells)
    <3>1. 1 \in 1 .. Len(x)
      BY <1>2, EmptySeq
    <3>2. PieceAt(x, 1, json) \in Seq(Cells)
      BY <1>2, <3>1, PieceTyped
    <3>3. <<>> \in Seq(Cells)
      OBVIOUS
    <3> QED
      BY <1>2, <1>8, <3>2, <3>3, PieceStays
  <2>3. /\ Resting(d) /\ (d # <<>> => \E j \in 1 .. Len(h) : d = From(h, j))
        /\ \A w \in Seq(Plain) : Restored(From(h, m) \o w, json) = o \o Restored(d \o w, json)
    BY <1>6 DEF WrittenOut
  <2>0. \A w \in Seq(Plain) :
          Restored(x \o w, json) = HeadOf(x, json) \o Restored(From(x, 1 + Stride(x, 1)) \o w, json)
    BY <1>2, <1>8, RestoredHead
  <2> HIDE DEF c, o, d
  <2>4. ASSUME NEW w \in Seq(Plain) PROVE Restored(x \o w, json) = (c \o o) \o Restored(d \o w, json)
    <3>1. Restored(x \o w, json) = c \o Restored(From(h, m) \o w, json)
      BY <1>4, <2>0 DEF c
    <3>2. Restored(From(h, m) \o w, json) = o \o Restored(d \o w, json)
      BY <2>3
    <3>3. d \o w \in Seq(Plain)
      BY <2>3, ConcatProperties DEF Resting
    <3>4. Restored(d \o w, json) \in Seq(Cells)
      BY <3>3, RestoredUnfolds
    <3> DEFINE q == Restored(d \o w, json)
    <3> HIDE DEF q
    <3>5. c \o (o \o q) = (c \o o) \o q
      BY <2>1, <2>2, <3>4, CellsRegroup DEF q
    <3> QED
      BY <3>1, <3>2, <3>5 DEF q
  <2>5. c \o o \in Seq(Cells)
    BY <2>1, <2>2, CellsJoined
  <2> QED
    BY <2>1, <2>3, <2>4, <2>5 DEF WrittenOut, x
<1> QED
  BY <1>7, <1>8

\* What the writer releases of a text and still holds of it restore to what the text
\* does, whatever follows.
LEMMA WriterRestores ==
  ASSUME NEW h \in Seq(Plain), NEW json PROVE WrittenOut(Release(h, json), h, 1, json)
<1>1. h \in Seq(Cells) /\ Len(h) \in Nat
  BY PlainStays, LenProperties
<1>2. PICK g : ReleasedBy(g, Cells, h, json)
  BY <1>1, ReleaseFrom, SecretsAreCells
<1> DEFINE G == {i \in 1 .. Len(h) + 1 : WrittenOut(g[i], h, i, json)}
<1>3. Len(h) + 1 \in G
  <2>1. g[Len(h) + 1] = [out |-> <<>>, held |-> <<>>]
    BY <1>2 DEF ReleasedBy
  <2>2. From(h, Len(h) + 1) = <<>>
    BY <1>1 DEF From
  <2>3. <<>> \in Seq(Plain) /\ <<>> \in Seq(Cells)
    OBVIOUS
  <2>4. ASSUME NEW w \in Seq(Plain) PROVE Restored(<<>> \o w, json) = <<>> \o Restored(<<>> \o w, json)
    <3>1. <<>> \o w = w
      OBVIOUS
    <3>2. Restored(w, json) \in Seq(Cells)
      BY RestoredUnfolds
    <3> QED
      BY <3>1, <3>2
  <2> DEFINE r == g[Len(h) + 1]
  <2>6. r.out = <<>> /\ r.held = <<>>
    BY <2>1
  <2> HIDE DEF r
  <2>7. Resting(r.held) /\ r.out \in Seq(Cells)
    BY <2>3, <2>6 DEF Resting
  <2>8. \A w \in Seq(Plain) :
          Restored(From(h, Len(h) + 1) \o w, json) = r.out \o Restored(r.held \o w, json)
    BY <2>2, <2>4, <2>6
  <2>9. WrittenOut(r, h, Len(h) + 1, json)
    BY <2>6, <2>7, <2>8 DEF WrittenOut
  <2>5. WrittenOut(g[Len(h) + 1], h, Len(h) + 1, json)
    BY <2>9 DEF r
  <2> QED
    BY <1>1, <2>5
<1>4. ASSUME NEW i \in 1 .. Len(h), \A j \in i + 1 .. Len(h) + 1 : j \in G PROVE i \in G
  <2>1. WrittenOut(g[i], h, i, json)
    <3>1. \A j \in i + 1 .. Len(h) + 1 : WrittenOut(g[j], h, j, json)
      BY <1>4
    <3> QED
      BY <1>2, <3>1, WrittenStep
  <2> QED
    BY <1>1, <2>1
<1> HIDE DEF G
<1>5. \A i \in 1 .. Len(h) + 1 : i \in G
  BY <1>1, <1>3, <1>4, Downward
<1>6. WrittenOut(g[1], h, 1, json)
  BY <1>1, <1>5 DEF G
<1>7. Len(g[1].held) - MaxTokenLen <= 0
  <2> DEFINE d == g[1].held
  <2>1. d \in Seq(Plain) /\ (d = <<>> \/ IsPlaceholderPrefix(d))
    BY <1>6 DEF WrittenOut, Resting, Stuck
  <2> HIDE DEF d
  <2>2. MaxTokenLen \in Nat /\ Len(d) \in Nat
    BY <2>1, LongestToken, LenProperties
  <2>3. CASE d = <<>>
    <3>1. Len(d) = 0
      BY <2>3
    <3>2. Len(d) - MaxTokenLen <= 0
      BY <2>2, <3>1
    <3> QED
      BY <3>2 DEF d
  <2>4. CASE IsPlaceholderPrefix(d)
    <3>1. PICK t \in Tokens : IsPrefix(d, t)
      BY <2>4 DEF IsPlaceholderPrefix
    <3>2. Len(d) <= Len(t) /\ Len(t) <= MaxTokenLen /\ Len(t) \in Nat
      <4>1. d \in Seq(Cells) /\ t \in Seq(Cells) /\ Len(t) \in Nat
        BY <2>1, PlainStays, TokenText
      <4> QED
        BY <3>1, <4>1, PrefixIs, TokensFit
    <3>3. Len(d) - MaxTokenLen <= 0
      BY <2>2, <3>2
    <3> QED
      BY <3>3 DEF d
  <2> QED
    BY <2>1, <2>3, <2>4
<1>8. Release(h, json) = g[1]
  BY <1>2, <1>7 DEF ReleasedBy, Trimmed
<1> QED
  BY <1>6, <1>8

\* A text without a placeholder in it is restored as it is, and so is the beginning of one.
LEMMA NoneRestored ==
  ASSUME NEW x \in Seq(Plain), \A i \in 1 .. Len(x) : TokenLen(From(x, i)) = 0, NEW json
  PROVE  Restored(x, json) = x
<1>1. x \in Seq(Cells) /\ Len(x) \in Nat
  BY PlainStays, LenProperties
<1>2. PICK v : Scan(v, x, json) /\ Restored(x, json) = v[1]
  BY RestoredFrom
<1> DEFINE G == {i \in 1 .. Len(x) + 1 : v[i] = From(x, i)}
<1>3. Len(x) + 1 \in G
  <2>1. From(x, Len(x) + 1) = <<>>
    BY <1>1 DEF From
  <2> QED
    BY <1>1, <1>2, <2>1 DEF Scan
<1>4. ASSUME NEW i \in 1 .. Len(x), \A j \in i + 1 .. Len(x) + 1 : j \in G PROVE i \in G
  <2>1. TokenLen(From(x, i)) = 0
    OBVIOUS
  <2>2. v[i] = <<x[i]>> \o v[i + 1]
    BY <1>2, <2>1 DEF Scan, PieceAt, Stride
  <2>3. v[i + 1] = From(x, i + 1)
    BY <1>1, <1>4
  <2>4. <<x[i]>> \o From(x, i + 1) = From(x, i)
    <3>1. SubSeq(x, i, i + 1 - 1) = <<x[i]>>
      BY CellAt
    <3> DEFINE q == Len(x) + 1
    <3>2. i \in 1 .. Len(x) + 1 /\ i + 1 \in i .. Len(x) + 1 /\ q \in i + 1 .. Len(x) + 1 /\ q - 1 = Len(x)
      BY <1>1
    <3> HIDE DEF q
    <3>3. SubSeq(x, i, i + 1 - 1) \o SubSeq(x, i + 1, q - 1) = SubSeq(x, i, q - 1)
      BY <3>2, Between
    <3> QED
      BY <3>1, <3>2, <3>3 DEF From
  <2>5. v[i] = From(x, i)
    BY <2>2, <2>3, <2>4
  <2> QED
    BY <1>1, <2>5
<1> HIDE DEF G
<1>5. \A i \in 1 .. Len(x) + 1 : i \in G
  BY <1>1, <1>3, <1>4, Downward
<1>6. v[1] = From(x, 1)
  BY <1>1, <1>5 DEF G
<1> QED
  BY <1>2, <1>6, FromFirst

LEMMA RestingStays ==
  ASSUME NEW x, Resting(x), NEW json PROVE Restored(x, json) = x
<1>1. x \in Seq(Plain) /\ x \in Seq(Cells) /\ Len(x) \in Nat
  BY PlainStays, LenProperties DEF Resting
<1>2. CASE x = <<>>
  BY <1>1, <1>2, RestoredUnfolds
<1>3. CASE Stuck(x)
  <2>1. PICK t \in Tokens : IsPrefix(x, t)
    BY <1>3 DEF Stuck, IsPlaceholderPrefix
  <2>2. t \in Seq(Cells) /\ Len(t) \in Nat
    BY TokenText
  <2>3. Len(x) <= Len(t) /\ \A i \in 1 .. Len(x) : x[i] = t[i]
    BY <1>1, <2>1, <2>2, PrefixIs
  <2>4. ASSUME NEW i \in 1 .. Len(x) PROVE TokenLen(From(x, i)) = 0
    <3>1. CASE i = 1
      BY <1>1, <1>3, <3>1, FromFirst DEF Stuck
    <3>2. CASE i # 1
      <4> DEFINE y == From(x, i)
                 z == From(t, i)
      <4>1. i \in 1 .. Len(x) + 1 /\ i \in 1 .. Len(t) + 1 /\ i \in 2 .. Len(t)
        BY <1>1, <2>2, <2>3, <3>2
      <4>2. y \in Seq(Cells) /\ Len(y) = Len(x) + 1 - i /\ \A j \in 1 .. Len(x) + 1 - i : y[j] = x[i + j - 1]
        BY <1>1, <4>1, FromIsTail
      <4>3. z \in Seq(Cells) /\ Len(z) = Len(t) + 1 - i /\ \A j \in 1 .. Len(t) + 1 - i : z[j] = t[i + j - 1]
        BY <2>2, <4>1, FromIsTail
      <4> HIDE DEF y, z
      <4>4. SUFFICES ASSUME TokenLen(y) # 0 PROVE FALSE
        BY DEF y
      <4>5. PICK u \in Tokens : IsPrefix(u, y)
        BY <4>2, <4>4, TokenIs
      <4>6. u \in Seq(Cells) /\ Len(u) \in Nat
        BY TokenText
      <4>7. Len(u) <= Len(y) /\ \A j \in 1 .. Len(u) : u[j] = y[j]
        BY <4>2, <4>5, <4>6, PrefixIs
      <4>8. ASSUME NEW j \in 1 .. Len(u) PROVE u[j] = z[j]
        <5>1. j \in 1 .. Len(x) + 1 - i /\ j \in 1 .. Len(t) + 1 - i /\ i + j - 1 \in 1 .. Len(x)
          BY <1>1, <2>2, <2>3, <4>1, <4>2, <4>6, <4>7
        <5> QED
          BY <2>3, <4>2, <4>3, <4>7, <5>1
      <4>9. Len(u) <= Len(z)
        BY <1>1, <2>2, <2>3, <4>1, <4>2, <4>3, <4>6, <4>7
      <4>10. IsPrefix(u, z)
        BY <4>3, <4>6, <4>8, <4>9, PrefixIs
      <4> QED
        BY <4>1, <4>10, NoneInside DEF z
    <3> QED
      BY <3>1, <3>2
  <2> QED
    BY <1>1, <2>4, NoneRestored
<1> QED
  BY <1>2, <1>3 DEF Resting

-----------------------------------------------------------------------------
(* The invariant, of the record s. *)

Edits    == [from : Nat, to : Nat, rep : Seq(Cells)]
Part     == [seg : Nat, leaf : Nat, from : Nat, to : Nat]
Record   == [n : Nat, ev : Events, leaf : BOOLEAN, content : Seq(Seq(Cells)),
             extra : Seq(Seq(Edits))]
\* The edits of each leaf of an event.
ExtraOf(ev, extra) ==
  /\ extra \in Seq(Seq(Edits)) /\ Len(extra) = Len(ev.leaves)
  /\ \A i \in 1 .. Len(ev.leaves) : extra[i] \in Seq(Edit(Cells, Len(ev.leaves[i].text)))
\* A segment with one text for a raw value and no more than one for each leaf.
SegmentOf(seg) ==
  /\ seg \in Record
  /\ seg.leaf <=> Envelope(seg.ev)
  /\ Len(seg.content) <= Len(seg.ev.leaves)
  /\ RawData(seg) => Len(seg.content) = 1
  /\ ExtraOf(seg.ev, seg.extra)
SegmentSet == {seg \in Record : SegmentOf(seg)}
Stream == [queue : Seq(SegmentSet), held : Seq(Cells), carry : Seq(Cells),
           key : Identities \union {NoIdentity}, parts : Seq(Part), bytes : Nat,
           out : Seq(SegmentSet)]
\* What part p of x spells.
Spelled(x, p) == SubSeq(x.queue[p.seg].ev.leaves[p.leaf].text, p.from, p.to - 1)
\* A fragment runs to the end of an identified leaf of a queued envelope.
PartHome(x, p) ==
  /\ p.seg \in 1 .. Len(x.queue) /\ x.queue[p.seg].leaf
  /\ p.leaf \in 1 .. Len(x.queue[p.seg].ev.leaves)
  /\ x.queue[p.seg].ev.leaves[p.leaf].id = x.key
  /\ p.from >= 1 /\ p.from <= p.to
  /\ p.to = Len(x.queue[p.seg].ev.leaves[p.leaf].text) + 1
\* The first of them is at the head of the queue, which is why nothing before
\* the others leaves it.
Home(x) ==
  /\ (x.carry = <<>>) <=> (x.parts = <<>>)
  /\ x.parts # <<>> => x.key # NoIdentity /\ x.parts[1].seg = 1
  /\ \A k \in 1 .. Len(x.parts) :
       PartHome(x, x.parts[k]) /\ (k > 1 => x.parts[k - 1].seg < x.parts[k].seg)
  /\ x.carry = Join([k \in 1 .. Len(x.parts) |-> Spelled(x, x.parts[k])])
\* Where the writer's tail belongs.
HeldHome(x) ==
  x.held # <<>> =>
    \E i \in 1 .. Len(x.queue) :
      RawData(x.queue[i]) /\ \A j \in 1 .. Len(x.queue) : HasSpan(x.queue[j]) => j = i
Bounded(x) == Len(x.held) + Len(x.carry) + x.bytes <= Budget
\* The segments of x are the first n events, in order.
InLine(out, queue, n) ==
  /\ Len(out) + Len(queue) = n
  /\ \A i \in 1 .. Len(out) : out[i].n = i
  /\ \A i \in 1 .. Len(queue) : queue[i].n = Len(out) + i
Ordered(x, n) == InLine(x.out, x.queue, n)
StreamInv ==
  /\ s \in Stream /\ Home(s) /\ HeldHome(s) /\ Bounded(s) /\ Ordered(s, Len(fed))
  /\ fed \in Seq(Events) /\ overlooked \subseteq 1 .. Len(fed) /\ closed \in BOOLEAN
  /\ closed => s.queue = <<>> /\ s.held = <<>> /\ s.carry = <<>>
-----------------------------------------------------------------------------
(* Events: what they and what is made of them hold. *)

\* The leaves of an event.
LEMMA EventLeaves ==
  ASSUME NEW ev \in Events
  PROVE  /\ Len(ev.leaves) \in Nat /\ DOMAIN ev.leaves = 1 .. Len(ev.leaves)
         /\ \A i \in 1 .. Len(ev.leaves) :
              /\ ev.leaves[i].text \in Seq(Cells) /\ Len(ev.leaves[i].text) \in Nat
              /\ ev.leaves[i].id \in Identities
<1> DEFINE L == [id : Identities, text : Seq(Cells), torn : BOOLEAN]
<1>1. ev.leaves \in Seq(L)
  BY StreamOK
<1>2. Len(ev.leaves) \in Nat /\ DOMAIN ev.leaves = 1 .. Len(ev.leaves)
  BY <1>1, LenProperties
<1>3. \A i \in 1 .. Len(ev.leaves) : ev.leaves[i] \in L
  BY <1>1, ElementOfSeq
<1>4. \A i \in 1 .. Len(ev.leaves) : ev.leaves[i].text \in Seq(Cells) /\ ev.leaves[i].id \in Identities
  BY <1>3
<1>5. \A i \in 1 .. Len(ev.leaves) : Len(ev.leaves[i].text) \in Nat
  BY <1>4, LenProperties
<1> QED
  BY <1>2, <1>4, <1>5

LEMMA NoExtraOf ==
  ASSUME NEW ev \in Events PROVE ExtraOf(ev, NoExtra(ev))
<1> DEFINE x == NoExtra(ev)
<1>1. Len(ev.leaves) \in Nat /\ DOMAIN ev.leaves = 1 .. Len(ev.leaves)
  BY EventLeaves
<1>2. x \in [1 .. Len(ev.leaves) -> Seq(Edits)]
  BY <1>1 DEF NoExtra
<1>3. \A i \in 1 .. Len(ev.leaves) : x[i] \in Seq(Edit(Cells, Len(ev.leaves[i].text)))
  <2>1. \A i \in 1 .. Len(ev.leaves) : x[i] = <<>>
    BY <1>1 DEF NoExtra
  <2>2. \A i \in 1 .. Len(ev.leaves) : <<>> \in Seq(Edit(Cells, Len(ev.leaves[i].text)))
    BY EmptySeq
  <2> HIDE DEF x
  <2> QED
    BY <2>1, <2>2, Zenon
<1> HIDE DEF x
<1>4. x \in Seq(Seq(Edits)) /\ Len(x) = Len(ev.leaves)
  BY <1>1, <1>2, SequenceOf
<1> QED
  BY <1>3, <1>4 DEF ExtraOf, x

\* Every leaf edited, and so a text for each.
TextsOf(ev, content) == content \in Seq(Seq(Cells)) /\ Len(content) = Len(ev.leaves)

LEMMA ContentOf ==
  ASSUME NEW ev \in Events, NEW extra, ExtraOf(ev, extra)
  PROVE  TextsOf(ev, ContentWith(ev, extra))
<1> DEFINE c == ContentWith(ev, extra)
<1>1. Len(ev.leaves) \in Nat /\ DOMAIN ev.leaves = 1 .. Len(ev.leaves)
  BY EventLeaves
<1>2. ASSUME NEW i \in 1 .. Len(ev.leaves)
      PROVE  Apply(ev.leaves[i].text, WithinLeafEdits(ev.leaves[i].text) \o extra[i]) \in Seq(Cells)
  <2> DEFINE text == ev.leaves[i].text
  <2>1. text \in Seq(Cells)
    BY EventLeaves
  <2>2. extra[i] \in Seq(Edit(Cells, Len(text)))
    BY DEF ExtraOf
  <2> HIDE DEF text
  <2>3. WithinLeafEdits(text) \in Seq(Edit(Cells, Len(text)))
    BY <2>1, WithinLeafText, SecretsAreCells
  <2>4. WithinLeafEdits(text) \o extra[i] \in Seq(Edit(Cells, Len(text)))
    BY <2>2, <2>3, ConcatProperties
  <2>5. Apply(text, WithinLeafEdits(text) \o extra[i]) \in Seq(Cells)
    BY <2>1, <2>4, ApplyText
  <2> QED
    BY <2>5 DEF text
<1>3. c \in [1 .. Len(ev.leaves) -> Seq(Cells)]
  BY <1>1, <1>2 DEF ContentWith
<1> HIDE DEF c
<1>4. c \in Seq(Seq(Cells)) /\ Len(c) = Len(ev.leaves)
  BY <1>1, <1>3, SequenceOf
<1> QED
  BY <1>4 DEF c, TextsOf

LEMMA WithinLeafContentOf ==
  ASSUME NEW ev \in Events
  PROVE  TextsOf(ev, WithinLeafContent(ev))
BY NoExtraOf, ContentOf DEF WithinLeafContent

\* The cells of some texts are finitely many.
LEMMA WidthCounts ==
  ASSUME NEW S, NEW n \in Nat, NEW texts \in [1 .. n -> Seq(S)] PROVE Width(texts) \in Nat
<1> DEFINE Row   == [i \in 1 .. n |-> {i} \X DOMAIN texts[i]]
           Rows  == {{i} \X DOMAIN texts[i] : i \in DOMAIN texts}
<1>1. ASSUME NEW i \in 1 .. n PROVE IsFiniteSet({i} \X DOMAIN texts[i])
  <2>1. DOMAIN texts[i] = 1 .. Len(texts[i]) /\ Len(texts[i]) \in Nat
    BY LenProperties
  <2>2. IsFiniteSet({i})
    BY FS_Singleton
  <2>3. IsFiniteSet(1 .. Len(texts[i]))
    BY <2>1, FS_Interval
  <2> QED
    BY <2>1, <2>2, <2>3, FS_Product
<1>2. Row \in Surjection(1 .. n, Rows)
  BY DEF Surjection
<1>3. IsFiniteSet(Rows)
  <2>1. IsFiniteSet(1 .. n)
    BY FS_Interval
  <2> HIDE DEF Row, Rows
  <2> QED
    BY <1>2, <2>1, FS_Surjection
<1>4. \A R \in Rows : IsFiniteSet(R)
  BY <1>1
<1> HIDE DEF Rows
<1>5. IsFiniteSet(UNION Rows)
  BY <1>3, <1>4, FS_UNION
<1>6. Cardinality(UNION Rows) \in Nat
  BY <1>5, FS_CardinalityType
<1> QED
  BY <1>6 DEF Width, Rows

\* And so are those of an event, and of the contents of a segment.
LEMMA RawBytesCount ==
  ASSUME NEW ev \in Events PROVE RawBytes(ev) \in Nat
<1> DEFINE texts == [i \in DOMAIN ev.leaves |-> ev.leaves[i].text]
<1>1. Len(ev.leaves) \in Nat /\ texts \in [1 .. Len(ev.leaves) -> Seq(Cells)]
  BY EventLeaves
<1> HIDE DEF texts
<1>2. Width(texts) \in Nat
  BY <1>1, WidthCounts
<1> QED
  BY <1>2 DEF RawBytes, texts

LEMMA ContentWidth ==
  ASSUME NEW c \in Seq(Seq(Cells)) PROVE Width(c) \in Nat
<1>1. Len(c) \in Nat /\ c \in [1 .. Len(c) -> Seq(Cells)]
  BY LenProperties
<1> QED
  BY <1>1, WidthCounts

\* An unresolved prefix lies in the text it ends.
LEMMA PrefixAt ==
  ASSUME NEW t \in Seq(Cells), NEW from \in Nat, from >= 1
  PROVE  SmallestPrefixAt(t, from) # 0 => SmallestPrefixAt(t, from) \in from .. Len(t)
<1> DEFINE at == {i \in from .. Len(t) :
                    TokenLen(From(t, i)) = 0 /\ IsPlaceholderPrefix(From(t, i))}
<1>1. at # {} => Min(at) \in at
  <2>1. at \subseteq Nat
    BY LenProperties
  <2> HIDE DEF at
  <2> QED
    BY <2>1, MinIsLeast
<1>2. at \subseteq from .. Len(t)
  OBVIOUS
<1>3. SmallestPrefixAt(t, from) = IF at = {} THEN 0 ELSE Min(at)
  BY DEF SmallestPrefixAt
<1> HIDE DEF at
<1> QED
  BY <1>1, <1>2, <1>3

LEMMA LastPrefixLies ==
  ASSUME NEW ev \in Events, NEW scope, scope \subseteq Identified(ev), NEW start,
         \A i \in scope : start[i] \in Nat /\ start[i] >= 1
  PROVE  LET p == LastPrefix(ev, scope, start)
         IN  p.leaf # 0 => /\ p.leaf \in scope
                           /\ p.from >= 1 /\ p.from \in 1 .. Len(ev.leaves[p.leaf].text)
<1> DEFINE at(i) == SmallestPrefixAt(ev.leaves[i].text, start[i])
           found == {i \in scope : at(i) # 0}
<1>1. Identified(ev) \subseteq 1 .. Len(ev.leaves) /\ Len(ev.leaves) \in Nat
  BY EventLeaves DEF Identified
<1>2. found # {} => Max(found) \in found
  <2>1. found \subseteq 0 .. Len(ev.leaves)
    BY <1>1
  <2> HIDE DEF found
  <2> QED
    BY <1>1, <2>1, MaxUpTo
<1>3. LastPrefix(ev, scope, start) =
        IF found = {} THEN [leaf |-> 0, from |-> 0]
        ELSE [leaf |-> Max(found), from |-> at(Max(found))]
  BY DEF LastPrefix
<1>4. ASSUME NEW i \in found PROVE at(i) \in 1 .. Len(ev.leaves[i].text) /\ at(i) >= 1
  <2>1. ev.leaves[i].text \in Seq(Cells) /\ start[i] \in Nat /\ start[i] >= 1 /\ at(i) # 0
    BY <1>1, EventLeaves
  <2>2. at(i) \in start[i] .. Len(ev.leaves[i].text)
    BY <2>1, PrefixAt
  <2> QED
    BY <2>1, <2>2
<1>5. found \subseteq scope
  OBVIOUS
<1> HIDE DEF found, at
<1> QED
  BY <1>2, <1>3, <1>4, <1>5

\* The leaf that continues a channel is the one with its identity.
LEMMA MatchLies ==
  ASSUME NEW ev \in Events, NEW key, Match(ev, key) # 0
  PROVE  /\ Match(ev, key) \in Identified(ev) /\ Match(ev, key) \in 1 .. Len(ev.leaves)
         /\ ev.leaves[Match(ev, key)].id = key /\ key # NoIdentity
<1> DEFINE m == {i \in Identified(ev) : ev.leaves[i].id = key}
<1>1. Identified(ev) \subseteq 1 .. Len(ev.leaves) /\ Len(ev.leaves) \in Nat
  BY EventLeaves DEF Identified
<1>2. Cardinality(m) = 1 /\ Match(ev, key) = Max(m)
  BY DEF Match
<1>3. m # {}
  BY <1>2, FS_EmptySet
<1>4. m \subseteq 0 .. Len(ev.leaves)
  BY <1>1
<1>5. Max(m) \in m
  <2> HIDE DEF m
  <2> QED
    BY <1>1, <1>3, <1>4, MaxUpTo
<1> QED
  BY <1>1, <1>2, <1>5 DEF Identified

-----------------------------------------------------------------------------
(* What the functions on the record keep. *)

LEMMA StreamFields ==
  ASSUME NEW x \in Stream
  PROVE  /\ x.queue \in Seq(SegmentSet) /\ x.out \in Seq(SegmentSet)
         /\ Len(x.queue) \in Nat /\ Len(x.out) \in Nat
         /\ x.held \in Seq(Cells) /\ Len(x.held) \in Nat
         /\ x.carry \in Seq(Cells) /\ Len(x.carry) \in Nat
         /\ x.key \in Identities \union {NoIdentity} /\ x.bytes \in Nat
         /\ x.parts \in Seq(Part) /\ Len(x.parts) \in Nat
         /\ \A i \in 1 .. Len(x.queue) : x.queue[i] \in SegmentSet
<1>1. /\ x.queue \in Seq(SegmentSet) /\ x.out \in Seq(SegmentSet) /\ x.held \in Seq(Cells)
      /\ x.carry \in Seq(Cells) /\ x.key \in Identities \union {NoIdentity} /\ x.bytes \in Nat
      /\ x.parts \in Seq(Part)
  BY DEF Stream
<1>2. /\ Len(x.queue) \in Nat /\ Len(x.out) \in Nat /\ Len(x.held) \in Nat
      /\ Len(x.carry) \in Nat /\ Len(x.parts) \in Nat
  BY <1>1, LenProperties
<1>3. \A i \in 1 .. Len(x.queue) : x.queue[i] \in SegmentSet
  BY <1>1, ElementOfSeq
<1> QED
  BY <1>1, <1>2, <1>3

\* The carry of x is that of y, and so is what is held and counted.
SameCarry(x, y) ==
  y.carry = x.carry /\ y.key = x.key /\ y.parts = x.parts /\ y.bytes = x.bytes
\* The first n segments of a queue move to the end of what left.
LEMMA MoveFront ==
  ASSUME NEW S, NEW out \in Seq(S), NEW queue \in Seq(S), NEW n \in 0 .. Len(queue)
  PROVE  /\ out \o SubSeq(queue, 1, n) \in Seq(S) /\ From(queue, n + 1) \in Seq(S)
         /\ Len(From(queue, n + 1)) = Len(queue) - n
         /\ \A m : InLine(out, queue, m) => InLine(out \o SubSeq(queue, 1, n), From(queue, n + 1), m)
<1> DEFINE o == out \o SubSeq(queue, 1, n)
           q == From(queue, n + 1)
<1>1. /\ Len(queue) \in Nat /\ Len(out) \in Nat /\ n \in Nat
      /\ \A i \in 1 .. Len(queue) : queue[i] \in S
  BY LenProperties, ElementOfSeq
<1>2. /\ SubSeq(queue, 1, n) \in Seq(S) /\ Len(SubSeq(queue, 1, n)) = n
      /\ \A i \in 1 .. n : SubSeq(queue, 1, n)[i] = queue[i]
  BY <1>1, SubSeqProperties
<1>3. /\ o \in Seq(S) /\ Len(o) = Len(out) + n
      /\ \A i \in 1 .. Len(out) : o[i] = out[i]
      /\ \A i \in 1 .. n : o[Len(out) + i] = queue[i]
  <2> DEFINE sent == SubSeq(queue, 1, n)
  <2>1. sent \in Seq(S) /\ Len(sent) = n /\ \A i \in 1 .. n : sent[i] = queue[i]
    BY <1>2
  <2> HIDE DEF sent
  <2>2. /\ out \o sent \in Seq(S) /\ Len(out \o sent) = Len(out) + n
        /\ \A i \in 1 .. Len(out) + n :
             (out \o sent)[i] = IF i <= Len(out) THEN out[i] ELSE sent[i - Len(out)]
    BY <1>1, <2>1, ConcatProperties
  <2>3. ASSUME NEW i \in 1 .. n PROVE (out \o sent)[Len(out) + i] = queue[i]
    <3>1. Len(out) + i \in 1 .. Len(out) + n /\ ~ (Len(out) + i <= Len(out))
          /\ (Len(out) + i) - Len(out) = i
      BY <1>1
    <3> QED
      BY <2>1, <2>2, <3>1
  <2> QED
    BY <1>1, <2>2, <2>3 DEF sent
<1>4. /\ q \in Seq(S) /\ Len(q) = Len(queue) - n
      /\ \A i \in 1 .. Len(queue) - n : q[i] = queue[n + i]
  <2>1. n + 1 \in 1 .. Len(queue) + 1
    BY <1>1
  <2>2. /\ q \in Seq(S) /\ Len(q) = Len(queue) + 1 - (n + 1)
        /\ \A i \in 1 .. Len(queue) + 1 - (n + 1) : q[i] = queue[(n + 1) + i - 1]
    BY <2>1, FromIsTail
  <2> HIDE DEF q
  <2>3. Len(queue) + 1 - (n + 1) = Len(queue) - n
    BY <1>1
  <2>4. ASSUME NEW i \in 1 .. Len(queue) - n PROVE q[i] = queue[n + i]
    <3>1. i \in 1 .. Len(queue) + 1 - (n + 1) /\ (n + 1) + i - 1 = n + i
      BY <1>1
    <3> QED
      BY <2>2, <3>1
  <2> QED
    BY <2>2, <2>3, <2>4
<1> HIDE DEF o, q
<1>5. ASSUME NEW m, InLine(out, queue, m) PROVE InLine(o, q, m)
  <2>1. Len(o) + Len(q) = m
    BY <1>1, <1>3, <1>4, <1>5 DEF InLine
  <2>2. ASSUME NEW i \in 1 .. Len(o) PROVE o[i].n = i
    <3>1. CASE i <= Len(out)
      BY <1>1, <1>3, <1>5, <3>1 DEF InLine
    <3>2. CASE i > Len(out)
      <4>1. i - Len(out) \in 1 .. n /\ i - Len(out) \in 1 .. Len(queue)
            /\ Len(out) + (i - Len(out)) = i
        BY <1>1, <1>3, <3>2
      <4>2. o[i] = queue[i - Len(out)]
        BY <1>3, <4>1
      <4> QED
        BY <1>5, <4>1, <4>2 DEF InLine
    <3> QED
      BY <1>1, <1>3, <3>1, <3>2
  <2>3. ASSUME NEW i \in 1 .. Len(q) PROVE q[i].n = Len(o) + i
    <3>1. n + i \in 1 .. Len(queue) /\ i \in 1 .. Len(queue) - n
          /\ Len(o) + i = Len(out) + (n + i)
      BY <1>1, <1>3, <1>4
    <3> QED
      BY <1>4, <1>5, <3>1 DEF InLine
  <2> QED
    BY <2>1, <2>2, <2>3 DEF InLine
<1> QED
  BY <1>3, <1>4, <1>5 DEF o, q

LEMMA ReleaseNKeeps ==
  ASSUME NEW x \in Stream, NEW n \in 0 .. Len(x.queue)
  PROVE  LET y == ReleaseN(x, n)
         IN  /\ y \in Stream /\ SameCarry(x, y) /\ y.held = x.held
             /\ Len(y.queue) = Len(x.queue) - n
             /\ \A m : Ordered(x, m) => Ordered(y, m)
<1> DEFINE out   == x.out \o SubSeq(x.queue, 1, n)
           queue == From(x.queue, n + 1)
           y     == ReleaseN(x, n)
<1>1. /\ out \in Seq(SegmentSet) /\ queue \in Seq(SegmentSet) /\ Len(queue) = Len(x.queue) - n
      /\ \A m : InLine(x.out, x.queue, m) => InLine(out, queue, m)
  <2> DEFINE o == x.out
             q == x.queue
  <2>1. o \in Seq(SegmentSet) /\ q \in Seq(SegmentSet) /\ n \in 0 .. Len(q)
    BY StreamFields
  <2> HIDE DEF o, q
  <2>2. /\ o \o SubSeq(q, 1, n) \in Seq(SegmentSet) /\ From(q, n + 1) \in Seq(SegmentSet)
        /\ Len(From(q, n + 1)) = Len(q) - n
        /\ \A m : InLine(o, q, m) => InLine(o \o SubSeq(q, 1, n), From(q, n + 1), m)
    BY <2>1, MoveFront
  <2> QED
    BY <2>2, Zenon DEF o, q
<1>2. /\ y.out = out /\ y.queue = queue /\ y.held = x.held /\ SameCarry(x, y)
      /\ y = [x EXCEPT !.out = out, !.queue = queue]
  BY DEF ReleaseN, SameCarry, Stream
<1> HIDE DEF out, queue
<1>3. y \in Stream
  <2>1. [x EXCEPT !.out = out, !.queue = queue] \in Stream
    BY <1>1 DEF Stream
  <2> QED
    BY <1>2, <2>1
<1> HIDE DEF y
<1>4. \A m : Ordered(x, m) => Ordered(y, m)
  BY <1>1, <1>2 DEF Ordered
<1> QED
  BY <1>1, <1>2, <1>3, <1>4 DEF y

LEMMA ReleaseAllKeeps ==
  ASSUME NEW x \in Stream
  PROVE  LET y == ReleaseAll(x)
         IN  /\ y \in Stream /\ SameCarry(x, y) /\ y.held = x.held /\ y.queue = <<>>
             /\ \A m : Ordered(x, m) => Ordered(y, m)
<1> DEFINE y == ReleaseN(x, Len(x.queue))
<1>1. Len(x.queue) \in 0 .. Len(x.queue) /\ Len(x.queue) - Len(x.queue) = 0
  BY StreamFields
<1>2. /\ y \in Stream /\ SameCarry(x, y) /\ y.held = x.held /\ Len(y.queue) = 0
      /\ \A m : Ordered(x, m) => Ordered(y, m)
  BY <1>1, ReleaseNKeeps
<1> HIDE DEF y
<1>3. y.queue = <<>>
  <2>1. y.queue \in Seq(SegmentSet)
    BY <1>2, StreamFields
  <2> QED
    BY <1>2, <2>1, EmptySeq
<1> QED
  BY <1>2, <1>3 DEF y, ReleaseAll

LEMMA ReleaseNone ==
  ASSUME NEW x \in Stream PROVE ReleaseN(x, 0) = x
<1>1. /\ x.queue \in Seq(SegmentSet) /\ x.out \in Seq(SegmentSet)
      /\ x = [x EXCEPT !.out = x.out, !.queue = x.queue]
  BY DEF Stream
<1>2. SubSeq(x.queue, 1, 0) = <<>>
  BY SubSeqEmpty
<1>3. x.out \o <<>> = x.out
  BY <1>1, ConcatEmptySeq
<1>4. From(x.queue, 0 + 1) = x.queue
  <2>1. 0 + 1 = 1
    OBVIOUS
  <2>2. SubSeq(x.queue, 1, Len(x.queue)) = x.queue
    BY <1>1, SubSeqFull
  <2> QED
    BY <2>1, <2>2 DEF From
<1> QED
  BY <1>1, <1>2, <1>3, <1>4 DEF ReleaseN

LEMMA ClearCarryKeeps ==
  ASSUME NEW x \in Stream
  PROVE  LET y == ClearCarry(x)
         IN  /\ y \in Stream /\ y.held = x.held /\ y.queue = x.queue /\ y.out = x.out
             /\ y.carry = <<>> /\ y.parts = <<>> /\ y.bytes = 0
             /\ \A m : Ordered(x, m) => Ordered(y, m)
<1> DEFINE y == ClearCarry(x)
<1>1. /\ y.held = x.held /\ y.queue = x.queue /\ y.out = x.out
      /\ y.carry = <<>> /\ y.parts = <<>> /\ y.bytes = 0
  BY DEF ClearCarry, Stream
<1>2. y \in Stream
  <2>1. <<>> \in Seq(Cells) /\ <<>> \in Seq(Part)
    OBVIOUS
  <2> QED
    BY <2>1 DEF ClearCarry, Stream
<1> HIDE DEF y
<1>3. \A m : Ordered(x, m) => Ordered(y, m)
  BY <1>1 DEF Ordered
<1> QED
  BY <1>1, <1>2, <1>3 DEF y

LEMMA FlushHeldKeeps ==
  ASSUME NEW x \in Stream
  PROVE  LET y == FlushHeld(x)
         IN  /\ y \in Stream /\ y.held = x.held /\ y.queue = <<>>
             /\ y.carry = <<>> /\ y.parts = <<>> /\ y.bytes = 0
             /\ \A m : Ordered(x, m) => Ordered(y, m)
<1> DEFINE r == ReleaseAll(x)
<1>1. /\ r \in Stream /\ r.held = x.held /\ r.queue = <<>>
      /\ \A m : Ordered(x, m) => Ordered(r, m)
  BY ReleaseAllKeeps
<1> HIDE DEF r
<1> QED
  BY <1>1, ClearCarryKeeps DEF FlushHeld, r

\* A segment rendered again.
LEMMA NewContent ==
  ASSUME NEW seg \in SegmentSet, NEW c \in Seq(Seq(Cells)), Len(c) <= Len(seg.ev.leaves),
         RawData(seg) => Len(c) = 1,
         NEW extra, ExtraOf(seg.ev, extra)
  PROVE  LET r == [seg EXCEPT !.content = c, !.extra = extra]
         IN  r \in SegmentSet /\ r.n = seg.n /\ r.ev = seg.ev /\ r.leaf = seg.leaf
<1> DEFINE r == [seg EXCEPT !.content = c, !.extra = extra]
<1>1. seg \in Record /\ SegmentOf(seg) /\ extra \in Seq(Seq(Edits))
  BY DEF SegmentSet, ExtraOf
<1>2. /\ r \in Record /\ r.n = seg.n /\ r.ev = seg.ev /\ r.leaf = seg.leaf
      /\ r.content = c /\ r.extra = extra
  BY <1>1 DEF Record
<1> HIDE DEF r
<1>3. SegmentOf(r)
  BY <1>1, <1>2 DEF SegmentOf, RawData, HasSpan
<1> QED
  BY <1>2, <1>3 DEF SegmentSet, r

\* y is x but for what its queued segments say and for what the writer holds.
Alike(x, y) ==
  /\ SameCarry(x, y) /\ y.out = x.out /\ Len(y.queue) = Len(x.queue)
  /\ \A i \in 1 .. Len(x.queue) : /\ y.queue[i].n = x.queue[i].n
                                  /\ y.queue[i].ev = x.queue[i].ev
                                  /\ y.queue[i].leaf = x.queue[i].leaf

LEMMA AlikeKeeps ==
  ASSUME NEW x \in Stream, NEW y \in Stream, Alike(x, y)
  PROVE  /\ Home(x) => Home(y)
         /\ \A m : Ordered(x, m) => Ordered(y, m)
<1>1. Len(y.queue) = Len(x.queue)
  BY DEF Alike
<1>2. \A m : Ordered(x, m) => Ordered(y, m)
  BY DEF Alike, Ordered, InLine
<1>3. ASSUME Home(x) PROVE Home(y)
  <2>1. y.carry = x.carry /\ y.key = x.key /\ y.parts = x.parts
    BY DEF Alike, SameCarry
  <2>2. \A k \in 1 .. Len(x.parts) : PartHome(y, x.parts[k]) /\ Spelled(y, x.parts[k]) = Spelled(x, x.parts[k])
    <3>1. ASSUME NEW k \in 1 .. Len(x.parts)
          PROVE  PartHome(y, x.parts[k]) /\ Spelled(y, x.parts[k]) = Spelled(x, x.parts[k])
      <4>1. PartHome(x, x.parts[k]) /\ x.parts[k].seg \in 1 .. Len(x.queue)
        BY <1>3 DEF Home, PartHome
      <4>2. /\ y.queue[x.parts[k].seg].ev = x.queue[x.parts[k].seg].ev
            /\ y.queue[x.parts[k].seg].leaf = x.queue[x.parts[k].seg].leaf
        BY <4>1 DEF Alike
      <4> QED
        BY <1>1, <2>1, <4>1, <4>2 DEF PartHome, Spelled
    <3> QED
      BY <3>1
  <2>3. [k \in 1 .. Len(x.parts) |-> Spelled(y, x.parts[k])] = [k \in 1 .. Len(x.parts) |-> Spelled(x, x.parts[k])]
    BY <2>2
  <2>4. \A k \in 1 .. Len(x.parts) : k > 1 => x.parts[k - 1].seg < x.parts[k].seg
    BY <1>3 DEF Home
  <2>5. /\ (x.carry = <<>>) <=> (x.parts = <<>>)
        /\ x.parts # <<>> => x.key # NoIdentity /\ x.parts[1].seg = 1
        /\ x.carry = Join([k \in 1 .. Len(x.parts) |-> Spelled(x, x.parts[k])])
    BY <1>3 DEF Home
  <2>6. y.carry = Join([k \in 1 .. Len(y.parts) |-> Spelled(y, y.parts[k])])
    BY <2>1, <2>3, <2>5, Zenon
  <2> QED
    BY <2>1, <2>2, <2>4, <2>5, <2>6 DEF Home
<1> QED
  BY <1>2, <1>3

LEMMA HandoffKeeps ==
  ASSUME NEW x \in Stream, HeldHome(x)
  PROVE  LET y == HandoffWriter(x) IN y \in Stream /\ Alike(x, y) /\ y.held = <<>>
<1> DEFINE q    == x.queue
           raw  == {i \in DOMAIN q : RawData(q[i])}
           m    == Max(raw)
           c    == <<q[m].content[1] \o x.held>>
           seg  == [q[m] EXCEPT !.content = c]
           qq   == [q EXCEPT ![m] = seg]
           y    == HandoffWriter(x)
<1>1. /\ q \in Seq(SegmentSet) /\ Len(q) \in Nat /\ DOMAIN q = 1 .. Len(q)
      /\ \A i \in 1 .. Len(q) : q[i] \in SegmentSet
  BY StreamFields, LenProperties
<1>2. CASE x.held = <<>>
  <2>1. y = x
    BY <1>2 DEF HandoffWriter
  <2> QED
    BY <1>2, <2>1 DEF Alike, SameCarry
<1>3. CASE x.held # <<>>
  <2>1. raw # {}
    BY <1>1, <1>3 DEF HeldHome
  <2>2. m \in raw /\ m \in 1 .. Len(q) /\ q[m] \in SegmentSet /\ RawData(q[m])
    <3>1. raw \subseteq 0 .. Len(q)
      BY <1>1
    <3>2. Max(raw) \in raw
      <4> HIDE DEF raw, q
      <4> QED
        BY <1>1, <2>1, <3>1, MaxUpTo
    <3> QED
      BY <1>1, <3>2
  <2>3. y = [x EXCEPT !.queue = qq, !.held = <<>>]
    BY <1>3, <2>1 DEF HandoffWriter
  <2> HIDE DEF m, raw
  <2>4. c \in Seq(Seq(Cells)) /\ Len(c) = 1
    <3>1. q[m].content \in Seq(Seq(Cells)) /\ Len(q[m].content) = 1
      BY <2>2 DEF SegmentSet, SegmentOf, Record
    <3> DEFINE t == q[m].content
    <3>2. t \in Seq(Seq(Cells)) /\ Len(t) = 1
      BY <3>1
    <3> HIDE DEF t
    <3>3. t[1] \in Seq(Cells)
      BY <3>2, ElementOfSeq
    <3>4. t[1] \o x.held \in Seq(Cells)
      BY <3>3, StreamFields, ConcatProperties
    <3> QED
      BY <3>4 DEF t
  <2> HIDE DEF c
  <2>5. seg \in SegmentSet /\ seg.n = q[m].n /\ seg.ev = q[m].ev /\ seg.leaf = q[m].leaf
    <3> DEFINE g == q[m]
    <3>1. g \in SegmentSet /\ RawData(g)
      BY <2>2
    <3> HIDE DEF g
    <3>2. ExtraOf(g.ev, g.extra) /\ Len(c) <= Len(g.ev.leaves) /\ g \in Record
      <4>1. Len(g.content) = 1 /\ Len(g.content) <= Len(g.ev.leaves)
        BY <3>1 DEF SegmentSet, SegmentOf
      <4> QED
        BY <2>4, <3>1, <4>1 DEF SegmentSet, SegmentOf
    <3>3. [g EXCEPT !.content = c, !.extra = g.extra] = [g EXCEPT !.content = c]
      BY <3>2 DEF Record
    <3>4. LET r == [g EXCEPT !.content = c, !.extra = g.extra]
          IN  r \in SegmentSet /\ r.n = g.n /\ r.ev = g.ev /\ r.leaf = g.leaf
      BY <2>4, <3>1, <3>2, NewContent
    <3> QED
      BY <3>3, <3>4 DEF g
  <2> HIDE DEF seg
  <2>6. qq \in Seq(SegmentSet) /\ Len(qq) = Len(q)
        /\ \A j \in 1 .. Len(q) : qq[j] = IF j = m THEN seg ELSE q[j]
    <3> HIDE DEF q
    <3> QED
      BY <1>1, <2>2, <2>5, ExceptSeq
  <2>7. \A j \in 1 .. Len(q) : qq[j].n = q[j].n /\ qq[j].ev = q[j].ev /\ qq[j].leaf = q[j].leaf
    BY <2>5, <2>6
  <2> HIDE DEF qq
  <2>8. y \in Stream /\ y.held = <<>> /\ y.queue = qq /\ y.out = x.out /\ SameCarry(x, y)
    <3>1. <<>> \in Seq(Cells)
      OBVIOUS
    <3>2. [x EXCEPT !.queue = qq, !.held = <<>>] \in Stream
      BY <2>6, <3>1 DEF Stream
    <3>3. x \in Stream
      OBVIOUS
    <3>4. LET z == [x EXCEPT !.queue = qq, !.held = <<>>]
          IN  z.held = <<>> /\ z.queue = qq /\ z.out = x.out /\ SameCarry(x, z)
      BY <3>3 DEF Stream, SameCarry
    <3> QED
      BY <2>3, <3>2, <3>4
  <2> HIDE DEF y
  <2>9. Alike(x, y)
    BY <2>6, <2>7, <2>8 DEF Alike
  <2> QED
    BY <2>8, <2>9 DEF y
<1> QED
  BY <1>2, <1>3

LEMMA NoParts ==
  ASSUME NEW x, x.carry = <<>>, x.parts = <<>> PROVE Home(x)
<1>1. Len(x.parts) = 0 /\ 1 .. 0 = {}
  OBVIOUS
<1>2. [k \in 1 .. 0 |-> Spelled(x, x.parts[k])] = <<>>
  OBVIOUS
<1>3. x.carry = Join([k \in 1 .. Len(x.parts) |-> Spelled(x, x.parts[k])])
  BY <1>1, <1>2, JoinNone
<1>4. ~ (\E k \in 1 .. Len(x.parts) : TRUE)
  BY <1>1
<1> QED
  BY <1>3, <1>4 DEF Home

LEMMA EmitKeeps ==
  ASSUME NEW x \in Stream, NEW seg \in SegmentSet
  PROVE  LET y == EmitSegment(x, seg)
         IN  /\ y \in Stream /\ SameCarry(x, y) /\ y.held = x.held /\ y.out = x.out
             /\ Len(y.queue) = Len(x.queue) + 1 /\ y.queue[Len(x.queue) + 1] = seg
             /\ \A i \in 1 .. Len(x.queue) : y.queue[i] = x.queue[i]
             /\ \A m \in Nat : Ordered(x, m) /\ seg.n = m + 1 => Ordered(y, m + 1)
             /\ Home(x) => Home(y)
             /\ HeldHome(x) /\ ~ HasSpan(seg) => HeldHome(y)
<1> DEFINE q  == x.queue
           o  == x.out
           qq == Append(q, seg)
           y  == EmitSegment(x, seg)
<1>1. q \in Seq(SegmentSet) /\ Len(q) \in Nat /\ Len(o) \in Nat
  BY StreamFields
<1> HIDE DEF q, o
<1>2. /\ qq \in Seq(SegmentSet) /\ Len(qq) = Len(q) + 1 /\ qq[Len(q) + 1] = seg
      /\ \A i \in 1 .. Len(q) : qq[i] = q[i]
  BY <1>1
<1>3. /\ y = [x EXCEPT !.queue = qq]
      /\ y.held = x.held /\ y.out = o /\ y.queue = qq /\ SameCarry(x, y)
  <2> HIDE DEF qq
  <2>1. y = [x EXCEPT !.queue = qq]
    BY DEF EmitSegment, qq, q
  <2> QED
    BY <2>1 DEF SameCarry, Stream, o
<1> HIDE DEF qq
<1>4. y \in Stream
  BY <1>2, <1>3 DEF Stream
<1> HIDE DEF y
<1>5. ASSUME NEW m \in Nat, Ordered(x, m), seg.n = m + 1 PROVE Ordered(y, m + 1)
  <2>1. InLine(o, q, m)
    BY <1>5 DEF Ordered, o, q
  <2>2. Len(o) + Len(qq) = m + 1
    BY <1>1, <1>2, <2>1 DEF InLine
  <2>3. ASSUME NEW i \in 1 .. Len(qq) PROVE qq[i].n = Len(o) + i
    <3>1. CASE i = Len(q) + 1
      BY <1>1, <1>2, <1>5, <2>1, <3>1 DEF InLine
    <3>2. CASE i # Len(q) + 1
      BY <1>1, <1>2, <2>1, <3>2 DEF InLine
    <3> QED
      BY <3>1, <3>2
  <2>4. InLine(o, qq, m + 1)
    BY <2>1, <2>2, <2>3 DEF InLine
  <2> QED
    BY <1>3, <2>4 DEF Ordered
<1>6. ASSUME Home(x) PROVE Home(y)
  <2>1. y.carry = x.carry /\ y.key = x.key /\ y.parts = x.parts
    BY <1>3 DEF SameCarry
  <2>2. ASSUME NEW k \in 1 .. Len(x.parts)
        PROVE  PartHome(y, x.parts[k]) /\ Spelled(y, x.parts[k]) = Spelled(x, x.parts[k])
    <3>1. PartHome(x, x.parts[k]) /\ x.parts[k].seg \in 1 .. Len(q)
      BY <1>6 DEF Home, PartHome, q
    <3>2. qq[x.parts[k].seg] = q[x.parts[k].seg] /\ x.parts[k].seg \in 1 .. Len(qq)
      BY <1>1, <1>2, <3>1
    <3> QED
      BY <1>3, <2>1, <3>1, <3>2 DEF PartHome, Spelled, q
  <2>3. [k \in 1 .. Len(x.parts) |-> Spelled(y, x.parts[k])] = [k \in 1 .. Len(x.parts) |-> Spelled(x, x.parts[k])]
    BY <2>2
  <2>4. \A k \in 1 .. Len(x.parts) : k > 1 => x.parts[k - 1].seg < x.parts[k].seg
    BY <1>6 DEF Home
  <2>5. /\ (x.carry = <<>>) <=> (x.parts = <<>>)
        /\ x.parts # <<>> => x.key # NoIdentity /\ x.parts[1].seg = 1
        /\ x.carry = Join([k \in 1 .. Len(x.parts) |-> Spelled(x, x.parts[k])])
    BY <1>6 DEF Home
  <2>6. y.carry = Join([k \in 1 .. Len(y.parts) |-> Spelled(y, y.parts[k])])
    BY <2>1, <2>3, <2>5, Zenon
  <2> QED
    BY <2>1, <2>2, <2>4, <2>5, <2>6 DEF Home
<1>7. ASSUME HeldHome(x), ~ HasSpan(seg), y.held # <<>> PROVE HeldHome(y)
  <2>1. PICK i \in 1 .. Len(q) :
          RawData(q[i]) /\ \A j \in 1 .. Len(q) : HasSpan(q[j]) => j = i
    BY <1>3, <1>7 DEF HeldHome, q
  <2>2. i \in 1 .. Len(qq) /\ RawData(qq[i])
    BY <1>1, <1>2, <2>1
  <2>3. ASSUME NEW j \in 1 .. Len(qq), HasSpan(qq[j]) PROVE j = i
    <3>1. j # Len(q) + 1
      BY <1>2, <1>7, <2>3
    <3>2. j \in 1 .. Len(q) /\ qq[j] = q[j]
      BY <1>1, <1>2, <3>1
    <3> QED
      BY <2>1, <2>3, <3>2
  <2> QED
    BY <1>3, <2>2, <2>3 DEF HeldHome
<1>8. HeldHome(x) /\ ~ HasSpan(seg) => HeldHome(y)
  BY <1>7 DEF HeldHome
<1> QED
  BY <1>2, <1>3, <1>4, <1>5, <1>6, <1>8 DEF y, q, o

\* Nothing leaves before a carry, and so its parts stay where they are.
LEMMA DrainKeeps ==
  ASSUME NEW x \in Stream, Home(x), x.held = <<>>
  PROVE  LET y == Drain(x)
         IN  /\ y \in Stream /\ SameCarry(x, y) /\ y.held = <<>> /\ Home(y)
             /\ \A m : Ordered(x, m) => Ordered(y, m)
<1> DEFINE q     == x.queue
           stops == {i \in DOMAIN q :
             \/ q[i].leaf /\ \E p \in Range(x.parts) : p.seg = i
             \/ RawData(q[i]) /\ \A j \in DOMAIN q : j > i => ~ RawData(q[j])}
           n     == IF stops = {} THEN Len(q) ELSE Min(stops) - 1
           y     == ReleaseN(x, n)
<1>1. Drain(x) = y
  BY DEF Drain
<1>2. q \in Seq(SegmentSet) /\ Len(q) \in Nat /\ DOMAIN q = 1 .. Len(q)
  BY StreamFields, LenProperties
<1>3. stops # {} => Min(stops) \in stops /\ \A i \in stops : Min(stops) <= i
  <2>1. stops \subseteq Nat
    BY <1>2
  <2> HIDE DEF stops
  <2> QED
    BY <2>1, MinIsLeast
<1>4. stops \subseteq 1 .. Len(q)
  BY <1>2
<1>5. n \in 0 .. Len(q)
  <2> HIDE DEF stops, q
  <2>1. CASE stops = {}
    BY <1>2, <2>1
  <2>2. CASE stops # {}
    <3>1. Min(stops) \in 1 .. Len(q)
      BY <1>3, <1>4, <2>2
    <3> QED
      BY <1>2, <2>2, <3>1
  <2> QED
    BY <2>1, <2>2
<1>6. CASE x.parts = <<>>
  <2>1. /\ y \in Stream /\ SameCarry(x, y) /\ y.held = x.held
        /\ \A m : Ordered(x, m) => Ordered(y, m)
    <3> HIDE DEF n
    <3> QED
      BY <1>5, ReleaseNKeeps
  <2>2. y.carry = <<>> /\ y.parts = <<>>
    BY <1>6, <2>1 DEF Home, SameCarry
  <2> HIDE DEF y
  <2>3. Home(y)
    BY <2>2, NoParts
  <2> QED
    BY <1>1, <2>1, <2>3
<1>7. CASE x.parts # <<>>
  <2>1. x.parts \in Seq(Part) /\ 1 \in 1 .. Len(x.parts) /\ x.parts[1] \in Range(x.parts)
    <3> DEFINE p == x.parts
    <3>1. p \in Seq(Part) /\ p # <<>>
      BY <1>7, StreamFields
    <3> HIDE DEF p
    <3>2. 1 \in 1 .. Len(p) /\ 1 \in DOMAIN p
      BY <3>1, EmptySeq, LenProperties
    <3> QED
      BY <3>1, <3>2 DEF Range, p
  <2>2. x.parts[1].seg = 1 /\ 1 \in 1 .. Len(q) /\ q[1].leaf
    BY <1>7, <2>1 DEF Home, PartHome
  <2>3. 1 \in stops
    BY <1>2, <2>1, <2>2
  <2>4. n = 0
    <3> HIDE DEF stops, q
    <3>1. stops # {} /\ Min(stops) <= 1 /\ Min(stops) \in 1 .. Len(q)
      BY <1>3, <1>4, <2>3
    <3>2. Min(stops) = 1
      BY <1>2, <3>1
    <3> QED
      BY <3>1, <3>2
  <2>5. y = x
    BY <2>4, ReleaseNone
  <2> QED
    BY <1>1, <2>5 DEF SameCarry
<1> QED
  BY <1>6, <1>7

\* A fragment deleted from its segment.
LEMMA EditHeldKeeps ==
  ASSUME NEW seg \in SegmentSet, seg.leaf,
         NEW p \in Part, p.leaf \in 1 .. Len(seg.ev.leaves),
         p.to = Len(seg.ev.leaves[p.leaf].text) + 1
  PROVE  LET r == EditHeld(seg, p)
         IN  r \in SegmentSet /\ r.n = seg.n /\ r.ev = seg.ev /\ r.leaf = seg.leaf
<1> DEFINE ev   == seg.ev
           was  == seg.extra
           k    == p.leaf
           e    == [from |-> p.from, to |-> p.to, rep |-> <<>>]
           more == [was EXCEPT ![k] = Append(@, e)]
           c    == ContentWith(ev, more)
<1>1. /\ ev \in Events /\ ExtraOf(ev, was) /\ seg \in Record
      /\ ev.kind = "json" /\ k \in 1 .. Len(ev.leaves)
  BY DEF SegmentSet, SegmentOf, Record, Envelope
<1>2. /\ Len(ev.leaves) \in Nat
      /\ \A i \in 1 .. Len(ev.leaves) : Len(ev.leaves[i].text) \in Nat
  BY <1>1, EventLeaves
<1>3. p.from \in Nat /\ p.to \in Nat /\ p.to \in 0 .. Len(ev.leaves[k].text) + 1
  <2>1. p.from \in Nat /\ p.to \in Nat
    BY DEF Part
  <2> DEFINE len == Len(ev.leaves[k].text)
             to  == p.to
  <2>2. len \in Nat /\ to = len + 1
    BY <1>1, <1>2
  <2> HIDE DEF len, to
  <2>3. to \in 0 .. len + 1
    BY <2>2
  <2> QED
    BY <2>1, <2>3 DEF len, to
<1>4. e \in Edits /\ e \in Edit(Cells, Len(ev.leaves[k].text))
  <2>1. <<>> \in Seq(Cells)
    OBVIOUS
  <2> QED
    BY <1>3, <2>1 DEF Edits, Edit
<1>5. /\ was \in Seq(Seq(Edits)) /\ Len(was) = Len(ev.leaves)
      /\ \A i \in 1 .. Len(ev.leaves) : was[i] \in Seq(Edit(Cells, Len(ev.leaves[i].text)))
  BY <1>1 DEF ExtraOf
<1> HIDE DEF e, ev, was, k
<1>6. ExtraOf(ev, more)
  <2> DEFINE app == Append(was[k], e)
  <2>1. k \in 1 .. Len(was) /\ was[k] \in Seq(Edits)
    BY <1>1, <1>5, ElementOfSeq
  <2>2. app \in Seq(Edits) /\ app \in Seq(Edit(Cells, Len(ev.leaves[k].text)))
    BY <1>1, <1>4, <1>5, <2>1
  <2>3. more = [was EXCEPT ![k] = app]
    BY <1>5, <2>1
  <2> HIDE DEF app
  <2>4. /\ more \in Seq(Seq(Edits)) /\ Len(more) = Len(was)
        /\ \A j \in 1 .. Len(was) : more[j] = IF j = k THEN app ELSE was[j]
    <3>1. was \in Seq(Seq(Edits)) /\ app \in Seq(Edits)
      BY <1>5, <2>2
    <3> HIDE DEF more
    <3> QED
      BY <2>1, <2>3, <3>1, ExceptSeq
  <2> HIDE DEF more
  <2> QED
    BY <1>5, <2>2, <2>4 DEF ExtraOf
<1> HIDE DEF more
<1>7. c \in Seq(Seq(Cells)) /\ Len(c) = Len(ev.leaves)
  BY <1>1, <1>6, ContentOf DEF TextsOf
<1> HIDE DEF c
<1>8. ~ RawData(seg)
  BY DEF RawData
<1>9. LET r == [seg EXCEPT !.content = c, !.extra = more]
      IN  r \in SegmentSet /\ r.n = seg.n /\ r.ev = seg.ev /\ r.leaf = seg.leaf
  <2>1. Len(c) <= Len(ev.leaves)
    BY <1>2, <1>7
  <2> QED
    BY <1>6, <1>7, <1>8, <2>1, NewContent DEF ev
<1>10. EditHeld(seg, p) = [seg EXCEPT !.content = c, !.extra = more]
  <2>1. EditHeld(seg, p) = [seg EXCEPT !.extra = more, !.content = c]
    BY DEF EditHeld, c, more, e, ev, was, k
  <2> QED
    BY <1>1, <2>1 DEF Record
<1> QED
  BY <1>9, <1>10

LEMMA EditAllKeeps ==
  ASSUME NEW x \in Stream, Home(x)
  PROVE  LET y == EditAll(x) IN y \in Stream /\ Alike(x, y) /\ y.held = x.held
<1> DEFINE q       == x.queue
           mine(i) == {p \in Range(x.parts) : p.seg = i}
           seg(i)  == IF mine(i) = {} THEN q[i] ELSE EditHeld(q[i], CHOOSE p \in mine(i) : TRUE)
           qq      == [i \in 1 .. Len(q) |-> seg(i)]
           y       == EditAll(x)
<1>1. /\ q \in Seq(SegmentSet) /\ Len(q) \in Nat /\ DOMAIN q = 1 .. Len(q)
      /\ \A i \in 1 .. Len(q) : q[i] \in SegmentSet
  BY StreamFields, LenProperties
<1>2. \A p \in Range(x.parts) : p \in Part /\ PartHome(x, p)
  <2>1. x.parts \in Seq(Part) /\ DOMAIN x.parts = 1 .. Len(x.parts)
    BY StreamFields, LenProperties
  <2>2. \A k \in 1 .. Len(x.parts) : x.parts[k] \in Part /\ PartHome(x, x.parts[k])
    BY <2>1, ElementOfSeq DEF Home
  <2> QED
    BY <2>1, <2>2 DEF Range
<1>3. ASSUME NEW i \in 1 .. Len(q)
      PROVE  seg(i) \in SegmentSet /\ seg(i).n = q[i].n /\ seg(i).ev = q[i].ev /\ seg(i).leaf = q[i].leaf
  <2>1. CASE mine(i) = {}
    BY <1>1, <2>1
  <2>2. CASE mine(i) # {}
    <3> DEFINE p == CHOOSE p \in mine(i) : TRUE
    <3>1. p \in Range(x.parts) /\ p.seg = i
      BY <2>2
    <3>2. seg(i) = EditHeld(q[i], p)
      BY <2>2
    <3> HIDE DEF p, seg
    <3>3. /\ p \in Part /\ q[i].leaf /\ p.leaf \in 1 .. Len(q[i].ev.leaves)
          /\ p.to = Len(q[i].ev.leaves[p.leaf].text) + 1
      BY <1>2, <3>1 DEF PartHome
    <3>4. q[i] \in SegmentSet
      BY <1>1
    <3> DEFINE g == q[i]
    <3>5. /\ g \in SegmentSet /\ g.leaf /\ p.leaf \in 1 .. Len(g.ev.leaves)
          /\ p.to = Len(g.ev.leaves[p.leaf].text) + 1
      BY <3>3, <3>4
    <3> HIDE DEF g
    <3>6. LET r == EditHeld(g, p)
          IN  r \in SegmentSet /\ r.n = g.n /\ r.ev = g.ev /\ r.leaf = g.leaf
      BY <3>3, <3>5, EditHeldKeeps
    <3> QED
      BY <3>2, <3>6 DEF g
  <2> QED
    BY <2>1, <2>2
<1>4. y = [x EXCEPT !.queue = qq]
  BY <1>1 DEF EditAll, EditParts
<1> HIDE DEF seg, mine, q
<1>5. /\ qq \in Seq(SegmentSet) /\ Len(qq) = Len(q)
      /\ \A i \in 1 .. Len(q) : qq[i] = seg(i)
  <2>1. qq \in [1 .. Len(q) -> SegmentSet]
    BY <1>3
  <2>2. \A i \in 1 .. Len(q) : qq[i] = seg(i)
    OBVIOUS
  <2> HIDE DEF qq
  <2> QED
    BY <1>1, <2>1, <2>2, SequenceOf
<1> HIDE DEF qq
<1>6. y \in Stream /\ y.queue = qq /\ y.held = x.held /\ y.out = x.out /\ SameCarry(x, y)
  BY <1>4, <1>5 DEF Stream, SameCarry
<1> HIDE DEF y
<1>7. Alike(x, y)
  <2>1. \A i \in 1 .. Len(q) : y.queue[i].n = q[i].n /\ y.queue[i].ev = q[i].ev /\ y.queue[i].leaf = q[i].leaf
    BY <1>3, <1>5, <1>6
  <2>2. Len(y.queue) = Len(q)
    BY <1>5, <1>6
  <2> QED
    BY <1>6, <2>1, <2>2 DEF Alike, q
<1> QED
  BY <1>6, <1>7 DEF y

-----------------------------------------------------------------------------
(* What the steps make of the record. *)

Good(x, n) == x \in Stream /\ Home(x) /\ HeldHome(x) /\ Bounded(x) /\ Ordered(x, n)
\* The segment of the event fed next.
NextSegment(seg, ev, content) ==
  seg \in SegmentSet /\ seg.n = Len(fed) + 1 /\ seg.ev = ev /\ seg.content = content

LEMMA LeafSegment ==
  ASSUME fed \in Seq(Events), NEW ev \in Events, Envelope(ev),
         NEW content, TextsOf(ev, content), NEW extra, ExtraOf(ev, extra)
  PROVE  NextSegment(Segment(ev, TRUE, content, extra), ev, content)
<1> DEFINE seg == Segment(ev, TRUE, content, extra)
<1>1. Len(fed) + 1 \in Nat /\ extra \in Seq(Seq(Edits)) /\ Len(ev.leaves) \in Nat
  BY LenProperties, EventLeaves DEF ExtraOf
<1>2. /\ seg \in Record /\ seg.n = Len(fed) + 1 /\ seg.ev = ev /\ seg.leaf = TRUE
      /\ seg.content = content /\ seg.extra = extra
  BY <1>1 DEF Segment, Record, TextsOf
<1> HIDE DEF seg
<1>3. Len(content) <= Len(ev.leaves) /\ (ev.kind # "other" /\ ~ TRUE => Len(content) = 1)
  BY <1>1 DEF TextsOf
<1>4. SegmentOf(seg)
  BY <1>2, <1>3 DEF SegmentOf, RawData, HasSpan
<1> QED
  BY <1>2, <1>4 DEF SegmentSet, NextSegment, seg

LEMMA RawSegment ==
  ASSUME fed \in Seq(Events), NEW ev \in Events, ~ Envelope(ev),
         NEW content \in Seq(Seq(Cells)), Len(content) = IF ev.kind = "other" THEN 0 ELSE 1,
         NEW extra, ExtraOf(ev, extra)
  PROVE  NextSegment(Segment(ev, FALSE, content, extra), ev, content)
<1> DEFINE seg == Segment(ev, FALSE, content, extra)
<1>1. Len(fed) + 1 \in Nat /\ extra \in Seq(Seq(Edits)) /\ Len(ev.leaves) \in Nat
  BY LenProperties, EventLeaves DEF ExtraOf
<1>2. /\ seg \in Record /\ seg.n = Len(fed) + 1 /\ seg.ev = ev /\ seg.leaf = FALSE
      /\ seg.content = content /\ seg.extra = extra
  BY <1>1 DEF Segment, Record
<1> HIDE DEF seg
<1>3. Len(content) <= Len(ev.leaves) /\ (ev.kind # "other" /\ ~ FALSE => Len(content) = 1)
  <2>1. CASE ev.kind = "other"
    BY <1>1, <2>1
  <2>2. CASE ev.kind # "other"
    <3>1. Len(ev.leaves) = 1 /\ Len(content) = 1
      BY <2>2, StreamOK
    <3> QED
      BY <3>1
  <2> QED
    BY <2>1, <2>2
<1>4. SegmentOf(seg)
  BY <1>2, <1>3 DEF SegmentOf, RawData, HasSpan
<1> QED
  BY <1>2, <1>4 DEF SegmentSet, NextSegment, seg

\* What is held fits, whether it starts a carry or extends one.
LEMMA HoldSum ==
  ASSUME NEW h \in Nat, NEW c \in Nat, NEW b \in Nat, NEW r \in Nat, NEW w \in Nat, NEW f \in Nat,
         h + c + b + (r + w + f) <= Budget
  PROVE  h + f + (b + r + w) <= Budget /\ h + (c + f) + (b + r + w) <= Budget
BY StreamOK

LEMMA HoldSegmentKeeps ==
  ASSUME NEW x \in Stream, NEW seg \in SegmentSet
  PROVE  LET y == HoldSegment(x, seg)
         IN  /\ y \in Stream /\ y.held = x.held /\ y.out = x.out /\ y.carry = x.carry
             /\ y.key = x.key /\ y.parts = x.parts
             /\ y.queue = EmitSegment(x, seg).queue
             /\ y.bytes = x.bytes + RawBytes(seg.ev) + Width(seg.content)
             /\ RawBytes(seg.ev) \in Nat /\ Width(seg.content) \in Nat
<1> DEFINE r == RawBytes(seg.ev)
           w == Width(seg.content)
           e == EmitSegment(x, seg)
<1>1. seg.ev \in Events /\ seg.content \in Seq(Seq(Cells))
  BY DEF SegmentSet, Record
<1>2. r \in Nat /\ w \in Nat
  BY <1>1, RawBytesCount, ContentWidth
<1>3. /\ e \in Stream /\ e.held = x.held /\ e.out = x.out /\ SameCarry(x, e)
  BY EmitKeeps
<1>4. HoldSegment(x, seg) = [e EXCEPT !.bytes = @ + r + w]
  BY DEF HoldSegment
<1> HIDE DEF r, w, e
<1>5. e.bytes \in Nat /\ e.bytes = x.bytes
  BY <1>3 DEF Stream, SameCarry
<1> DEFINE b == x.bytes + r + w
<1>6. b \in Nat /\ HoldSegment(x, seg) = [e EXCEPT !.bytes = b]
  <2> DEFINE was == x.bytes
  <2>1. was \in Nat
    BY <1>5
  <2> HIDE DEF was
  <2>2. was + r + w \in Nat
    BY <1>2, <2>1
  <2>3. HoldSegment(x, seg) = [e EXCEPT !.bytes = b]
    BY <1>3, <1>4, <1>5 DEF Stream
  <2> QED
    BY <2>2, <2>3 DEF was
<1> HIDE DEF b
<1>7. LET y == [e EXCEPT !.bytes = b]
      IN  /\ y \in Stream /\ y.held = e.held /\ y.out = e.out /\ y.carry = e.carry
          /\ y.key = e.key /\ y.parts = e.parts /\ y.queue = e.queue /\ y.bytes = b
  BY <1>3, <1>6 DEF Stream
<1> QED
  BY <1>2, <1>3, <1>6, <1>7 DEF SameCarry, r, w, e, b

\* An envelope that is not held, when there is no carry.
LEMMA EmittedGood ==
  ASSUME fed \in Seq(Events), NEW ev \in Events, Envelope(ev),
         NEW content, TextsOf(ev, content),
         NEW x \in Stream, x.held = <<>>, x.carry = <<>>, x.parts = <<>>, Bounded(x),
         Ordered(x, Len(fed))
  PROVE  Good(Drain(Emitted(x, ev, content)), Len(fed) + 1)
<1> DEFINE seg == Segment(ev, TRUE, content, NoExtra(ev))
           y   == EmitSegment(x, seg)
           z   == Drain(y)
<1>1. seg \in SegmentSet /\ seg.n = Len(fed) + 1
  <2>1. ExtraOf(ev, NoExtra(ev))
    BY NoExtraOf
  <2>2. NextSegment(seg, ev, content)
    BY <2>1, LeafSegment
  <2> HIDE DEF seg
  <2> QED
    BY <2>2 DEF NextSegment
<1>2. Len(fed) \in Nat
  BY LenProperties
<1> HIDE DEF seg
<1>3. y \in Stream /\ SameCarry(x, y) /\ y.held = <<>> /\ Ordered(y, Len(fed) + 1)
  BY <1>1, <1>2, EmitKeeps
<1> HIDE DEF y
<1>4. Home(y)
  <2>1. y.carry = <<>> /\ y.parts = <<>>
    BY <1>3 DEF SameCarry
  <2> QED
    BY <2>1, NoParts
<1>5. z \in Stream /\ SameCarry(y, z) /\ z.held = <<>> /\ Home(z) /\ Ordered(z, Len(fed) + 1)
  BY <1>3, <1>4, DrainKeeps
<1> HIDE DEF z
<1>6. Bounded(z) /\ HeldHome(z)
  BY <1>3, <1>5 DEF Bounded, HeldHome, SameCarry
<1> QED
  BY <1>5, <1>6 DEF Good, Emitted, z, y, seg

\* Where an unfinished placeholder was found, if one was.
FoundIn(ev, p) ==
  p.leaf # 0 => p.leaf \in Identified(ev) /\ p.from \in 1 .. Len(ev.leaves[p.leaf].text)
\* The record y that starts a carry with event ev, before drain.
EstablishedAs(y, x, ev, content, extra, p) ==
  LET seg == Segment(ev, TRUE, content, extra)
  IN  /\ y \in Stream /\ Home(y) /\ y.held = <<>> /\ Bounded(y) /\ Ordered(y, Len(fed) + 1)
      /\ NextSegment(seg, ev, content) /\ y.queue = <<seg>> /\ y.out = x.out
      /\ y.carry = Fragment(ev, p) /\ y.carry # <<>> /\ y.key = ev.leaves[p.leaf].id
      /\ y.parts = <<[seg |-> 1, leaf |-> p.leaf, from |-> p.from,
                     to |-> Len(ev.leaves[p.leaf].text) + 1]>>

LEMMA EstablishedIs ==
  ASSUME fed \in Seq(Events), NEW ev \in Events, Envelope(ev),
         NEW content, TextsOf(ev, content), NEW extra, ExtraOf(ev, extra),
         NEW x \in Stream, x.held = <<>>, x.queue = <<>>, x.carry = <<>>, Ordered(x, Len(fed)),
         NEW p, FoundIn(ev, p), CanHold(x, ev, content, p)
  PROVE  EstablishedAs(Establish(x, ev, content, extra, p), x, ev, content, extra, p)
<1> DEFINE seg  == Segment(ev, TRUE, content, extra)
           h    == HoldSegment(x, seg)
           text == ev.leaves[p.leaf].text
           frag == Fragment(ev, p)
           part == [seg |-> Len(h.queue), leaf |-> p.leaf, from |-> p.from, to |-> Len(text) + 1]
           key  == ev.leaves[p.leaf].id
           y    == [h EXCEPT !.carry = frag, !.key = key, !.parts = <<part>>]
<1>1. NextSegment(seg, ev, content)
  BY LeafSegment
<1>2. Len(fed) \in Nat
  BY LenProperties
<1>3. /\ p.leaf # 0 /\ p.leaf \in 1 .. Len(ev.leaves) /\ p.leaf \in Nat
      /\ key # NoIdentity /\ key \in Identities
      /\ text \in Seq(Cells) /\ Len(text) \in Nat /\ p.from \in 1 .. Len(text) /\ p.from \in Nat
  <2>1. p.leaf # 0
    BY DEF CanHold
  <2>2. p.leaf \in Identified(ev) /\ p.from \in 1 .. Len(text)
    BY <2>1 DEF FoundIn
  <2>3. /\ Identified(ev) \subseteq 1 .. Len(ev.leaves) /\ Len(ev.leaves) \in Nat
        /\ \A i \in Identified(ev) : ev.leaves[i].id # NoIdentity
    BY EventLeaves DEF Identified
  <2>4. p.leaf \in 1 .. Len(ev.leaves) /\ key # NoIdentity
    BY <2>2, <2>3
  <2>5. text \in Seq(Cells) /\ Len(text) \in Nat /\ key \in Identities
    BY <2>4, EventLeaves
  <2> QED
    BY <2>1, <2>2, <2>3, <2>4, <2>5
<1>4. frag = From(text, p.from) /\ frag \in Seq(Cells) /\ frag # <<>>
  <2>1. frag = From(text, p.from)
    BY <1>3 DEF Fragment
  <2> DEFINE from == p.from
  <2>2. from \in 1 .. Len(text) + 1 /\ from \in 1 .. Len(text)
    BY <1>3
  <2>3. text \in Seq(Cells) /\ Len(text) \in Nat
    BY <1>3
  <2> HIDE DEF text, from
  <2>4. From(text, from) \in Seq(Cells) /\ Len(From(text, from)) = Len(text) + 1 - from
    BY <2>2, <2>3, FromIsTail
  <2>5. Len(From(text, from)) # 0
    BY <2>2, <2>3, <2>4
  <2> QED
    BY <2>1, <2>4, <2>5 DEF from
<1>5. seg \in SegmentSet /\ seg.n = Len(fed) + 1 /\ seg.ev = ev /\ seg.content = content /\ seg.leaf
  <2>1. seg.leaf
    BY DEF Segment
  <2> HIDE DEF seg
  <2> QED
    BY <1>1, <2>1 DEF NextSegment
<1> HIDE DEF seg, frag
<1>6. /\ h \in Stream /\ h.held = <<>> /\ h.out = x.out /\ Len(h.queue) = 1 /\ h.queue[1] = seg
      /\ h.bytes = x.bytes + RawBytes(ev) + Width(content)
      /\ RawBytes(ev) \in Nat /\ Width(content) \in Nat
  <2>1. EmitSegment(x, seg).queue = Append(<<>>, seg)
    BY DEF EmitSegment, Stream
  <2>2. Len(EmitSegment(x, seg).queue) = 1 /\ EmitSegment(x, seg).queue[1] = seg
    BY <2>1
  <2> QED
    BY <1>5, <2>2, HoldSegmentKeeps
<1>7. Ordered(h, Len(fed) + 1)
  <2>1. Ordered(EmitSegment(x, seg), Len(fed) + 1) /\ EmitSegment(x, seg).out = x.out
    BY <1>2, <1>5, EmitKeeps
  <2>2. h.queue = EmitSegment(x, seg).queue /\ h.out = x.out
    BY <1>5, HoldSegmentKeeps
  <2> QED
    BY <2>1, <2>2 DEF Ordered
<1> HIDE DEF h, text, key
<1>8. part \in Part /\ part.seg = 1 /\ part.leaf = p.leaf /\ part.from = p.from /\ part.to = Len(text) + 1
  <2>1. Len(text) + 1 \in Nat
    BY <1>3
  <2> QED
    BY <1>3, <1>6, <2>1 DEF Part
<1> HIDE DEF part
<1>9. /\ y \in Stream /\ y.held = <<>> /\ y.queue = h.queue /\ y.out = h.out /\ y.bytes = h.bytes
      /\ y.carry = frag /\ y.key = key /\ y.parts = <<part>>
  <2>1. <<part>> \in Seq(Part)
    BY <1>8
  <2> QED
    BY <1>3, <1>4, <1>6, <2>1 DEF Stream
<1> HIDE DEF y
<1>10. Home(y)
  <2>1. /\ Len(y.parts) = 1 /\ y.parts[1] = part /\ y.parts # <<>>
        /\ y.queue[1] = seg /\ Len(y.queue) = 1
    BY <1>6, <1>9
  <2>2. y.queue[part.seg].ev.leaves[part.leaf].text = text /\ y.queue[part.seg].ev.leaves[part.leaf].id = key
    BY <1>5, <1>8, <2>1 DEF text, key
  <2>3. part.from >= 1 /\ part.from <= part.to /\ part.to = Len(text) + 1 /\ part.to - 1 = Len(text)
    <3> DEFINE from == p.from
    <3>1. from \in 1 .. Len(text) /\ Len(text) \in Nat
      BY <1>3
    <3> HIDE DEF from
    <3>2. from >= 1 /\ from <= Len(text) + 1 /\ (Len(text) + 1) - 1 = Len(text)
      BY <3>1
    <3> QED
      BY <1>8, <3>2 DEF from
  <2>4. PartHome(y, part)
    <3>1. part.seg \in 1 .. Len(y.queue) /\ y.queue[part.seg].leaf
      BY <1>5, <1>8, <2>1
    <3>2. part.leaf \in 1 .. Len(y.queue[part.seg].ev.leaves)
      BY <1>3, <1>5, <1>8, <2>1
    <3>3. y.queue[part.seg].ev.leaves[part.leaf].id = y.key
      BY <1>9, <2>2
    <3>4. part.to = Len(y.queue[part.seg].ev.leaves[part.leaf].text) + 1
      BY <2>2, <2>3
    <3> QED
      BY <2>3, <3>1, <3>2, <3>3, <3>4 DEF PartHome
  <2>5. Spelled(y, part) = frag
    BY <1>4, <1>8, <2>2, <2>3 DEF Spelled, From
  <2>6. [k \in 1 .. Len(y.parts) |-> Spelled(y, y.parts[k])] = <<frag>>
    <3>1. [k \in 1 .. 1 |-> Spelled(y, y.parts[k])] = [k \in 1 .. 1 |-> frag]
      BY <2>1, <2>5
    <3>2. [k \in 1 .. 1 |-> frag] = <<frag>>
      OBVIOUS
    <3> QED
      BY <2>1, <3>1, <3>2
  <2>7. Join(<<frag>>) = frag
    BY <1>4, JoinOne
  <2>8. \A k \in 1 .. Len(y.parts) : k = 1
    BY <2>1
  <2> QED
    <3>1. /\ (y.carry = <<>>) <=> (y.parts = <<>>)
          /\ y.parts # <<>> => y.key # NoIdentity /\ y.parts[1].seg = 1
      BY <1>3, <1>4, <1>8, <1>9, <2>1
    <3>2. \A k \in 1 .. Len(y.parts) :
            PartHome(y, y.parts[k]) /\ (k > 1 => y.parts[k - 1].seg < y.parts[k].seg)
      BY <2>1, <2>4, <2>8
    <3>3. y.carry = Join([k \in 1 .. Len(y.parts) |-> Spelled(y, y.parts[k])])
      BY <1>9, <2>6, <2>7
    <3> QED
      BY <3>1, <3>2, <3>3 DEF Home
<1>11. Bounded(y)
  <2>1. FitsBudget(x, RawBytes(ev) + Width(content) + Len(frag))
    BY DEF CanHold, frag
  <2>2. /\ Len(x.held) = 0 /\ Len(x.carry) = 0 /\ x.bytes \in Nat /\ Len(frag) \in Nat /\ Len(y.held) = 0
    BY <1>4, <1>9, StreamFields, LenProperties
  <2> DEFINE b == x.bytes
             r == RawBytes(ev)
             w == Width(content)
             f == Len(frag)
  <2>3. b \in Nat /\ r \in Nat /\ w \in Nat /\ f \in Nat /\ 0 + 0 + b + (r + w + f) <= Budget
    BY <1>6, <2>1, <2>2 DEF FitsBudget
  <2>4. y.bytes = b + r + w /\ y.carry = frag
    BY <1>6, <1>9
  <2> HIDE DEF b, r, w
  <2>5. 0 + f + (b + r + w) <= Budget
    <3> HIDE DEF f
    <3> QED
      BY <2>3, HoldSum
  <2> QED
    BY <2>2, <2>4, <2>5 DEF Bounded
<1>12. Ordered(y, Len(fed) + 1)
  BY <1>7, <1>9 DEF Ordered
<1>13. Establish(x, ev, content, extra, p) = y
  BY DEF Establish, y, h, part, text, key, frag, seg
<1>14. y.queue = <<seg>> /\ y.out = x.out
  <2>1. EmitSegment(x, seg).queue = Append(<<>>, seg)
    BY DEF EmitSegment, Stream
  <2>2. h.queue = EmitSegment(x, seg).queue /\ h.out = x.out
    BY <1>5, HoldSegmentKeeps DEF h
  <2>3. y.queue = Append(<<>>, seg)
    BY <1>9, <2>1, <2>2
  <2> QED
    BY <1>9, <2>2, <2>3
<1>15. part = [seg |-> 1, leaf |-> p.leaf, from |-> p.from, to |-> Len(text) + 1]
  BY <1>6 DEF part
<1>16. y.carry # <<>> /\ NextSegment(seg, ev, content)
  BY <1>1, <1>4, <1>9
<1> QED
  BY <1>9, <1>10, <1>11, <1>12, <1>13, <1>14, <1>15, <1>16 DEF EstablishedAs, frag, key, text, seg

\* An envelope that starts a carry.
LEMMA EstablishedGood ==
  ASSUME fed \in Seq(Events), NEW ev \in Events, Envelope(ev),
         NEW content, TextsOf(ev, content), NEW extra, ExtraOf(ev, extra),
         NEW x \in Stream, x.held = <<>>, x.queue = <<>>, x.carry = <<>>, Ordered(x, Len(fed)),
         NEW p, FoundIn(ev, p), CanHold(x, ev, content, p)
  PROVE  Good(Drain(Establish(x, ev, content, extra, p)), Len(fed) + 1)
<1> DEFINE y == Establish(x, ev, content, extra, p)
           z == Drain(y)
<1>0. EstablishedAs(y, x, ev, content, extra, p)
  BY EstablishedIs
<1> HIDE DEF y
<1>1. y \in Stream /\ Home(y) /\ y.held = <<>> /\ Bounded(y) /\ Ordered(y, Len(fed) + 1)
  BY <1>0 DEF EstablishedAs
<1>2. z \in Stream /\ SameCarry(y, z) /\ z.held = <<>> /\ Home(z) /\ Ordered(z, Len(fed) + 1)
  BY <1>1, DrainKeeps
<1> HIDE DEF z
<1>3. Bounded(z) /\ HeldHome(z)
  BY <1>1, <1>2 DEF Bounded, HeldHome, SameCarry
<1> QED
  BY <1>2, <1>3 DEF Good, y, z

LEMMA FedKeeps ==
  ASSUME StreamInv, NEW ev \in Events, ~ closed, NEW x, Good(x, Len(fed) + 1),
         NEW lost, lost \subseteq {Len(fed) + 1}, Feed(ev, x, lost)
  PROVE  StreamInv'
<1>1. fed \in Seq(Events) /\ Len(fed) \in Nat /\ overlooked \subseteq 1 .. Len(fed) /\ closed = FALSE
  BY LenProperties DEF StreamInv
<1>2. s' = x /\ fed' = Append(fed, ev) /\ overlooked' = overlooked \union lost /\ closed' = closed
  BY DEF Feed
<1>3. fed' \in Seq(Events) /\ Len(fed') = Len(fed) + 1
  BY <1>1, <1>2
<1>4. overlooked' \subseteq 1 .. Len(fed')
  BY <1>1, <1>2, <1>3
<1>5. s' \in Stream /\ Home(s') /\ HeldHome(s') /\ Bounded(s') /\ Ordered(s', Len(fed'))
  BY <1>2, <1>3 DEF Good
<1> QED
  BY <1>1, <1>2, <1>3, <1>4, <1>5 DEF StreamInv

LEMMA HandoffGood ==
  ASSUME NEW x, NEW n, Good(x, n)
  PROVE  LET y == HandoffWriter(x) IN Good(y, n) /\ SameCarry(x, y) /\ y.held = <<>>
<1> DEFINE y == HandoffWriter(x)
<1>1. x \in Stream /\ Home(x) /\ HeldHome(x) /\ Bounded(x) /\ Ordered(x, n)
  BY DEF Good
<1>2. y \in Stream /\ Alike(x, y) /\ y.held = <<>>
  BY <1>1, HandoffKeeps
<1> HIDE DEF y
<1>3. Home(y) /\ Ordered(y, n)
  BY <1>1, <1>2, AlikeKeeps
<1>4. Bounded(y) /\ HeldHome(y)
  <2> DEFINE h == Len(x.held)
             c == Len(x.carry)
             b == x.bytes
  <2>1. h \in Nat /\ c \in Nat /\ b \in Nat /\ h + c + b <= Budget /\ Budget \in Nat
    BY <1>1, StreamFields, StreamOK DEF Bounded
  <2>2. Len(y.held) = 0 /\ Len(y.carry) = c /\ y.bytes = b
    BY <1>2 DEF Alike, SameCarry
  <2> HIDE DEF h, c, b
  <2>3. 0 + c + b <= Budget
    BY <2>1
  <2> QED
    BY <1>2, <2>2, <2>3 DEF Bounded, HeldHome
<1> QED
  BY <1>2, <1>3, <1>4 DEF Good, Alike, y

LEMMA FlushedGood ==
  ASSUME NEW x \in Stream, x.held = <<>>, NEW n, Ordered(x, n)
  PROVE  LET y == FlushHeld(x)
         IN  /\ y \in Stream /\ y.held = <<>> /\ y.queue = <<>> /\ y.carry = <<>> /\ y.parts = <<>>
             /\ Bounded(y) /\ Ordered(y, n)
<1> DEFINE y == FlushHeld(x)
<1>1. /\ y \in Stream /\ y.held = <<>> /\ y.queue = <<>> /\ y.carry = <<>> /\ y.parts = <<>>
      /\ y.bytes = 0 /\ Ordered(y, n)
  BY FlushHeldKeeps
<1> HIDE DEF y
<1>2. Bounded(y)
  BY <1>1, StreamOK DEF Bounded
<1> QED
  BY <1>1, <1>2 DEF y

LEMMA StartKeeps ==
  ASSUME StreamInv, NEW ev \in Events, ~ closed, Envelope(ev),
         NEW content, TextsOf(ev, content), NEW extra, ExtraOf(ev, extra), NEW p, FoundIn(ev, p),
         NEW x \in Stream, x.held = <<>>, x.carry = <<>>, x.parts = <<>>, Bounded(x),
         Ordered(x, Len(fed)),
         NEW hold \in Stream, hold.held = <<>>, hold.queue = <<>>, hold.carry = <<>>,
         Ordered(hold, Len(fed)),
         StartOrEmit(x, hold, ev, content, extra, p)
  PROVE  StreamInv'
<1>1. fed \in Seq(Events)
  BY DEF StreamInv
<1>2. \A kept : LeftOver(ev, kept) \subseteq {Len(fed) + 1}
  BY DEF LeftOver
<1>3. CASE CanHold(hold, ev, content, p)
  <2> DEFINE y == Drain(Establish(hold, ev, content, extra, p))
  <2>1. Good(y, Len(fed) + 1)
    BY <1>1, <1>3, EstablishedGood
  <2>2. Feed(ev, y, LeftOver(ev, {p.leaf}))
    BY <1>3 DEF StartOrEmit
  <2> HIDE DEF y
  <2> QED
    BY <1>2, <2>1, <2>2, FedKeeps
<1>4. CASE ~ CanHold(hold, ev, content, p)
  <2> DEFINE y == Drain(Emitted(x, ev, content))
  <2>1. Good(y, Len(fed) + 1)
    BY <1>1, EmittedGood
  <2>2. Feed(ev, y, LeftOver(ev, {}))
    BY <1>4 DEF StartOrEmit
  <2> HIDE DEF y
  <2> QED
    BY <1>2, <2>1, <2>2, FedKeeps
<1> QED
  BY <1>3, <1>4

\* Where TrailingPrefix and TrailingPrefixAfter look.
LEMMA TrailingPrefixFound ==
  ASSUME NEW ev \in Events PROVE FoundIn(ev, TrailingPrefix(ev))
<1> DEFINE start == [i \in DOMAIN ev.leaves |-> 1]
           p     == LastPrefix(ev, Identified(ev), start)
<1>1. \A i \in Identified(ev) : start[i] \in Nat /\ start[i] >= 1
  BY DEF Identified
<1> HIDE DEF start
<1>2. p.leaf # 0 => p.leaf \in Identified(ev) /\ p.from \in 1 .. Len(ev.leaves[p.leaf].text)
  BY <1>1, LastPrefixLies
<1> HIDE DEF p
<1> QED
  BY <1>2 DEF FoundIn, TrailingPrefix, p, start

LEMMA TrailingPrefixAfterFound ==
  ASSUME NEW ev \in Events, NEW m, NEW k \in Nat PROVE FoundIn(ev, TrailingPrefixAfter(ev, m, k))
<1> DEFINE start == [i \in DOMAIN ev.leaves |-> IF i = m THEN k + 1 ELSE 1]
           scope == {i \in Identified(ev) : i >= m}
           p     == LastPrefix(ev, scope, start)
<1>1. scope \subseteq Identified(ev) /\ \A i \in scope : start[i] \in Nat /\ start[i] >= 1
  BY DEF Identified
<1> HIDE DEF start, scope
<1>2. p.leaf # 0 => p.leaf \in scope /\ p.from \in 1 .. Len(ev.leaves[p.leaf].text)
  BY <1>1, LastPrefixLies
<1> HIDE DEF p
<1> QED
  BY <1>1, <1>2 DEF FoundIn, TrailingPrefixAfter, p, start, scope

-----------------------------------------------------------------------------
(* Every step keeps the invariant. *)

LEMMA GoodNow ==
  ASSUME StreamInv PROVE Good(s, Len(fed)) /\ fed \in Seq(Events) /\ Len(fed) \in Nat
BY LenProperties DEF StreamInv, Good

LEMMA OtherKeeps ==
  ASSUME StreamInv, NEW ev \in Events, AcceptOther(ev) PROVE StreamInv'
<1> DEFINE seg == Segment(ev, FALSE, <<>>, NoExtra(ev))
           x   == EmitSegment(s, seg)
           y   == IF Pending(x) THEN x ELSE ReleaseAll(x)
<1>1. Good(s, Len(fed)) /\ fed \in Seq(Events) /\ Len(fed) \in Nat
  BY GoodNow
<1>2. ev.kind = "other" /\ ~ Envelope(ev) /\ ~ closed /\ Feed(ev, y, {})
  BY DEF AcceptOther, Open, Envelope
<1>3. seg \in SegmentSet /\ seg.n = Len(fed) + 1 /\ ~ HasSpan(seg)
  <2>1. ExtraOf(ev, NoExtra(ev))
    BY NoExtraOf
  <2>2. <<>> \in Seq(Seq(Cells)) /\ Len(<<>>) = IF ev.kind = "other" THEN 0 ELSE 1
    BY <1>2
  <2>3. NextSegment(seg, ev, <<>>)
    BY <1>1, <1>2, <2>1, <2>2, RawSegment
  <2> HIDE DEF seg
  <2> QED
    BY <1>2, <2>3 DEF NextSegment, HasSpan
<1> HIDE DEF seg
<1>4. s \in Stream /\ Home(s) /\ HeldHome(s) /\ Bounded(s) /\ Ordered(s, Len(fed))
  BY <1>1 DEF Good
<1>5. /\ x \in Stream /\ SameCarry(s, x) /\ x.held = s.held
      /\ Home(x) /\ HeldHome(x) /\ Ordered(x, Len(fed) + 1)
  BY <1>1, <1>3, <1>4, EmitKeeps
<1>6. Good(x, Len(fed) + 1)
  BY <1>4, <1>5 DEF Good, Bounded, SameCarry
<1> HIDE DEF x
<1>7. CASE Pending(x)
  BY <1>2, <1>6, <1>7, FedKeeps
<1>8. CASE ~ Pending(x)
  <2> DEFINE r == ReleaseAll(x)
  <2>1. /\ r \in Stream /\ SameCarry(x, r) /\ r.held = x.held
        /\ Ordered(r, Len(fed) + 1)
    BY <1>5, ReleaseAllKeeps
  <2>2. DOMAIN x.queue = 1 .. Len(x.queue) /\ \A i \in 1 .. Len(x.queue) : x.queue[i] \in SegmentSet
    BY <1>5, StreamFields, LenProperties
  <2>3. x.parts = <<>>
    <3>1. SUFFICES ASSUME x.parts # <<>> PROVE FALSE
      OBVIOUS
    <3>2. 1 \in 1 .. Len(x.parts)
      <4> DEFINE p == x.parts
      <4>1. p \in Seq(Part) /\ p # <<>>
        BY <1>5, <3>1, StreamFields
      <4> HIDE DEF p
      <4>2. 1 \in 1 .. Len(p)
        BY <4>1, EmptySeq
      <4> QED
        BY <4>2 DEF p
    <3>3. 1 \in 1 .. Len(x.queue) /\ x.queue[1].leaf
      BY <1>5, <3>1, <3>2 DEF Home, PartHome
    <3>4. HasSpan(x.queue[1])
      BY <2>2, <3>3 DEF SegmentSet, SegmentOf, Envelope, HasSpan
    <3> QED
      BY <1>8, <2>2, <3>3, <3>4 DEF Pending
  <2>4. x.held = <<>>
    BY <1>5, <1>8, <2>2 DEF HeldHome, RawData, Pending
  <2>5. x.carry = <<>>
    BY <1>5, <2>3 DEF Home
  <2> HIDE DEF r
  <2>6. Home(r)
    BY <2>1, <2>3, <2>5, NoParts DEF SameCarry
  <2>7. Good(r, Len(fed) + 1)
    BY <1>6, <2>1, <2>4, <2>6 DEF Good, Bounded, SameCarry, HeldHome
  <2> QED
    BY <1>2, <1>8, <2>7, FedKeeps DEF r
<1> QED
  BY <1>7, <1>8

\* The segment of a text, and the record w that AcceptText leaves.
WrittenFrom(x, ev) ==
  LET y   == FlushHeld(x)
      r   == Release(y.held \o ev.leaves[1].text, ev.kind = "json")
      seg == Segment(ev, FALSE, <<r.out>>, NoExtra(ev))
      z   == EmitSegment(y, seg)
      w   == [z EXCEPT !.held = r.held]
  IN  /\ x \in Stream /\ y \in Stream /\ y.queue = <<>>
      /\ seg \in SegmentSet /\ seg.n = Len(fed) + 1 /\ RawData(seg)
      /\ r.held \in Seq(Cells) /\ Len(r.held) <= MaxTokenLen
      /\ w \in Stream /\ w.carry = <<>> /\ w.parts = <<>> /\ w.bytes = 0 /\ w.held = r.held
      /\ w.queue = <<seg>> /\ w.out = y.out /\ Ordered(w, Len(fed) + 1)
      /\ Feed(ev, w, {})

LEMMA TextWritten ==
  ASSUME StreamInv, NEW ev \in Events, AcceptText(ev)
  PROVE  WrittenFrom(IF ev.kind = "json" THEN HandoffWriter(s) ELSE s, ev)
<1> DEFINE x    == IF ev.kind = "json" THEN HandoffWriter(s) ELSE s
           y    == FlushHeld(x)
           text == y.held \o ev.leaves[1].text
           r    == Release(text, ev.kind = "json")
           seg  == Segment(ev, FALSE, <<r.out>>, NoExtra(ev))
           z    == EmitSegment(y, seg)
           w    == [z EXCEPT !.held = r.held]
<1>1. Good(s, Len(fed)) /\ fed \in Seq(Events) /\ Len(fed) \in Nat
  BY GoodNow
<1>2. /\ ev.kind # "other" /\ ~ Envelope(ev) /\ ~ closed
      /\ Feed(ev, ReleaseN(w, Len(z.queue) - 1), {})
  BY DEF AcceptText, Open
<1>3. x \in Stream /\ Ordered(x, Len(fed))
  BY <1>1, HandoffGood DEF Good
<1> HIDE DEF x
<1>4. /\ y \in Stream /\ y.queue = <<>> /\ y.carry = <<>> /\ y.parts = <<>> /\ y.bytes = 0
      /\ Ordered(y, Len(fed))
  BY <1>3, FlushHeldKeeps
<1> HIDE DEF y
<1>5. text \in Seq(Cells)
  <2>1. Len(ev.leaves) = 1 /\ 1 \in 1 .. Len(ev.leaves)
    BY <1>2, StreamOK
  <2>2. ev.leaves[1].text \in Seq(Cells)
    BY <2>1, EventLeaves
  <2>3. y.held \in Seq(Cells)
    BY <1>4, StreamFields
  <2> QED
    BY <2>2, <2>3, ConcatProperties
<1> HIDE DEF text
<1>6. r \in [out : Seq(Cells), held : Seq(Cells)] /\ Len(r.held) <= MaxTokenLen
  BY <1>5, ReleaseText, SecretsAreCells
<1>7. r.out \in Seq(Cells) /\ r.held \in Seq(Cells)
  BY <1>6
<1> HIDE DEF r
<1>8. seg \in SegmentSet /\ seg.n = Len(fed) + 1 /\ RawData(seg)
  <2> DEFINE c == <<r.out>>
  <2>1. ExtraOf(ev, NoExtra(ev))
    BY NoExtraOf
  <2>2. c \in Seq(Seq(Cells)) /\ Len(c) = IF ev.kind = "other" THEN 0 ELSE 1
    BY <1>2, <1>7
  <2>3. ~ seg.leaf
    BY DEF Segment
  <2> HIDE DEF c
  <2>4. NextSegment(Segment(ev, FALSE, c, NoExtra(ev)), ev, c)
    BY <1>1, <1>2, <2>1, <2>2, RawSegment
  <2>5. NextSegment(seg, ev, c)
    BY <2>4 DEF c
  <2> HIDE DEF seg
  <2> QED
    BY <1>2, <2>3, <2>5 DEF NextSegment, HasSpan, RawData
<1> HIDE DEF seg
<1>9. /\ z \in Stream /\ z.carry = <<>> /\ z.parts = <<>> /\ z.bytes = 0
      /\ Ordered(z, Len(fed) + 1)
  <2>1. z \in Stream /\ SameCarry(y, z) /\ Ordered(z, Len(fed) + 1)
    BY <1>1, <1>4, <1>8, EmitKeeps
  <2> QED
    BY <1>4, <2>1 DEF SameCarry
<1>10. z.queue = <<seg>>
  <2>1. z.queue = Append(<<>>, seg)
    BY <1>4 DEF EmitSegment, Stream
  <2> QED
    BY <2>1
<1> HIDE DEF z
<1>11. /\ w \in Stream /\ w.carry = <<>> /\ w.parts = <<>> /\ w.bytes = 0 /\ w.held = r.held
       /\ w.queue = <<seg>> /\ w.out = z.out
  BY <1>7, <1>9, <1>10 DEF Stream
<1> HIDE DEF w
<1>12. Feed(ev, w, {})
  <2>1. Len(z.queue) - 1 = 0
    BY <1>10
  <2>2. ReleaseN(w, 0) = w
    BY <1>11, ReleaseNone
  <2> QED
    BY <1>2, <2>1, <2>2
<1>13. Ordered(w, Len(fed) + 1) /\ w.out = y.out
  <2>1. z.out = y.out
    BY <1>4 DEF z, EmitSegment, Stream
  <2> QED
    BY <1>9, <1>10, <1>11, <2>1 DEF Ordered
<1> QED
  BY <1>3, <1>4, <1>6, <1>7, <1>8, <1>11, <1>12, <1>13 DEF WrittenFrom, x, y, text, r, seg, z, w

LEMMA TextKeeps ==
  ASSUME StreamInv, NEW ev \in Events, AcceptText(ev) PROVE StreamInv'
<1> DEFINE x   == IF ev.kind = "json" THEN HandoffWriter(s) ELSE s
           r   == Release(FlushHeld(x).held \o ev.leaves[1].text, ev.kind = "json")
           seg == Segment(ev, FALSE, <<r.out>>, NoExtra(ev))
           w   == [EmitSegment(FlushHeld(x), seg) EXCEPT !.held = r.held]
<1>1. WrittenFrom(x, ev)
  BY TextWritten
<1>2. ~ closed
  BY DEF AcceptText, Open
<1> HIDE DEF x
<1>3. /\ RawData(seg) /\ r.held \in Seq(Cells) /\ Len(r.held) <= MaxTokenLen
      /\ w \in Stream /\ w.carry = <<>> /\ w.parts = <<>> /\ w.bytes = 0 /\ w.held = r.held
      /\ w.queue = <<seg>> /\ Ordered(w, Len(fed) + 1) /\ Feed(ev, w, {})
  BY <1>1 DEF WrittenFrom
<1> HIDE DEF w, seg, r
<1>4. Good(w, Len(fed) + 1)
  <2>1. Home(w)
    BY <1>3, NoParts
  <2>2. HeldHome(w)
    <3>1. Len(w.queue) = 1 /\ w.queue[1] = seg
      BY <1>3
    <3>2. 1 \in 1 .. Len(w.queue) /\ \A j \in 1 .. Len(w.queue) : j = 1
      BY <3>1
    <3> QED
      BY <1>3, <3>1, <3>2 DEF HeldHome
  <2>3. Bounded(w)
    <3> DEFINE h == Len(r.held)
    <3>1. h \in Nat /\ h <= MaxTokenLen /\ MaxTokenLen \in Nat /\ Budget \in Nat /\ Budget >= MaxTokenLen
      BY <1>3, LenProperties, LongestToken, StreamOK
    <3>2. Len(w.held) = h /\ Len(w.carry) = 0 /\ w.bytes = 0
      BY <1>3
    <3> HIDE DEF h
    <3>3. h + 0 + 0 <= Budget
      BY <3>1
    <3> QED
      BY <3>2, <3>3 DEF Bounded
  <2> QED
    BY <1>3, <2>1, <2>2, <2>3 DEF Good
<1> QED
  BY <1>2, <1>3, <1>4, FedKeeps

LEMMA FirstKeeps ==
  ASSUME StreamInv, NEW ev \in Events, LeafFirst(ev) PROVE StreamInv'
<1> DEFINE x    == HandoffWriter(s)
           hold == ReleaseAll(x)
<1>1. Good(s, Len(fed)) /\ fed \in Seq(Events)
  BY GoodNow
<1>2. /\ Envelope(ev) /\ s.carry = <<>> /\ ~ closed
      /\ StartOrEmit(x, hold, ev, WithinLeafContent(ev), NoExtra(ev), TrailingPrefix(ev))
  BY DEF LeafFirst, Open
<1>3. Good(x, Len(fed)) /\ SameCarry(s, x) /\ x.held = <<>>
  BY <1>1, HandoffGood
<1> HIDE DEF x
<1>4. x \in Stream /\ Bounded(x) /\ Ordered(x, Len(fed)) /\ x.carry = <<>> /\ x.parts = <<>>
  BY <1>2, <1>3 DEF Good, Home, SameCarry
<1>5. hold \in Stream /\ hold.held = <<>> /\ hold.queue = <<>> /\ hold.carry = <<>> /\ Ordered(hold, Len(fed))
  BY <1>3, <1>4, ReleaseAllKeeps DEF SameCarry
<1> HIDE DEF hold
<1>6. /\ TextsOf(ev, WithinLeafContent(ev)) /\ ExtraOf(ev, NoExtra(ev))
      /\ FoundIn(ev, TrailingPrefix(ev))
  BY WithinLeafContentOf, NoExtraOf, TrailingPrefixFound
<1> QED
  BY <1>2, <1>3, <1>4, <1>5, <1>6, StartKeeps

LEMMA NoMatchKeeps ==
  ASSUME StreamInv, NEW ev \in Events, LeafNoMatch(ev) PROVE StreamInv'
<1> DEFINE h == HandoffWriter(s)
           x == FlushHeld(h)
<1>1. Good(s, Len(fed))
  BY GoodNow
<1>2. /\ Envelope(ev) /\ ~ closed
      /\ StartOrEmit(x, x, ev, WithinLeafContent(ev), NoExtra(ev), TrailingPrefix(ev))
  BY DEF LeafNoMatch, Open
<1>3. h \in Stream /\ Ordered(h, Len(fed)) /\ h.held = <<>>
  BY <1>1, HandoffGood DEF Good
<1> HIDE DEF h
<1>4. /\ x \in Stream /\ x.held = <<>> /\ x.queue = <<>> /\ x.carry = <<>> /\ x.parts = <<>>
      /\ Bounded(x) /\ Ordered(x, Len(fed))
  BY <1>3, FlushedGood
<1> HIDE DEF x
<1>5. /\ TextsOf(ev, WithinLeafContent(ev)) /\ ExtraOf(ev, NoExtra(ev))
      /\ FoundIn(ev, TrailingPrefix(ev))
  BY WithinLeafContentOf, NoExtraOf, TrailingPrefixFound
<1> QED
  BY <1>2, <1>4, <1>5, StartKeeps

LEMMA GiveUpKeeps ==
  ASSUME StreamInv, NEW ev \in Events, LeafGiveUp(ev) PROVE StreamInv'
<1> DEFINE h == HandoffWriter(s)
           x == FlushHeld(h)
           y == Drain(Emitted(x, ev, WithinLeafContent(ev)))
           l == IF ExtensionFits(ev) THEN LeftOver(ev, {}) ELSE {Len(fed) + 1}
<1>1. Good(s, Len(fed)) /\ fed \in Seq(Events)
  BY GoodNow
<1>2. Envelope(ev) /\ ~ closed /\ Feed(ev, y, l)
  BY DEF LeafGiveUp, Continues, Open
<1>3. h \in Stream /\ Ordered(h, Len(fed)) /\ h.held = <<>>
  BY <1>1, HandoffGood DEF Good
<1> HIDE DEF h
<1>4. /\ x \in Stream /\ x.held = <<>> /\ x.carry = <<>> /\ x.parts = <<>>
      /\ Bounded(x) /\ Ordered(x, Len(fed))
  BY <1>3, FlushedGood
<1> HIDE DEF x
<1>5. TextsOf(ev, WithinLeafContent(ev))
  BY WithinLeafContentOf
<1>6. Good(y, Len(fed) + 1)
  BY <1>1, <1>2, <1>4, <1>5, EmittedGood
<1>7. l \subseteq {Len(fed) + 1}
  BY DEF LeftOver
<1> HIDE DEF y, l
<1> QED
  BY <1>2, <1>6, <1>7, FedKeeps

\* How much of the leaf a completed placeholder takes.
LEMMA CompletedLies ==
  ASSUME NEW ev \in Events, s \in Stream, Match(ev, s.key) # 0, Completed(ev) \in Mapped
  PROVE  /\ Completed(ev) \in Seq(Cells)
         /\ Len(Completed(ev)) - Len(s.carry) \in 1 .. Len(ev.leaves[Match(ev, s.key)].text)
<1> DEFINE carry == s.carry
           text  == ev.leaves[Match(ev, s.key)].text
           both  == carry \o text
           n     == TokenLen(both)
<1>1. carry \in Seq(Cells) /\ text \in Seq(Cells) /\ Len(carry) \in Nat /\ Len(text) \in Nat
  <2>1. Match(ev, s.key) \in 1 .. Len(ev.leaves)
    BY MatchLies
  <2>2. text \in Seq(Cells) /\ Len(text) \in Nat
    BY <2>1, EventLeaves
  <2> QED
    BY <2>2, StreamFields
<1>2. Completed(ev) = IF n > Len(carry) THEN SubSeq(both, 1, n) ELSE <<>>
  BY DEF Completed, Combined
<1> HIDE DEF carry, text
<1>3. both \in Seq(Cells) /\ Len(both) = Len(carry) + Len(text)
  BY <1>1, ConcatProperties
<1> HIDE DEF both
<1>4. n \in 0 .. Len(both)
  BY <1>3, TokenLies
<1> HIDE DEF n
<1>5. n > Len(carry)
  <2>1. Completed(ev) # <<>>
    BY GrammarOK
  <2> QED
    BY <1>2, <2>1
<1>6. SubSeq(both, 1, n) \in Seq(Cells) /\ Len(SubSeq(both, 1, n)) = n
  <2>1. \A j \in 1 .. n : both[j] \in Cells
    BY <1>1, <1>3, <1>4, ElementOfSeq
  <2>2. 1 \in Int /\ n \in Int /\ 1 <= n /\ n - 1 + 1 = n
    BY <1>1, <1>3, <1>4, <1>5
  <2> QED
    BY <2>1, <2>2, SubSeqProperties
<1>7. Completed(ev) \in Seq(Cells) /\ Len(Completed(ev)) = n
  BY <1>2, <1>5, <1>6
<1>8. n - Len(carry) \in 1 .. Len(text)
  BY <1>1, <1>3, <1>4, <1>5
<1> QED
  BY <1>7, <1>8 DEF carry, text

\* The edit that restores it.
RestoredBy(x, ev, m, k, r) ==
  /\ ExtraOf(ev, x)
  /\ \A l \in 1 .. Len(ev.leaves) :
       x[l] = IF l = m THEN <<[from |-> 1, to |-> k + 1, rep |-> r]>> ELSE <<>>

LEMMA RestoreExtra ==
  ASSUME NEW ev \in Events, NEW m \in 1 .. Len(ev.leaves), NEW k \in 1 .. Len(ev.leaves[m].text),
         NEW r \in Seq(Cells)
  PROVE  RestoredBy([NoExtra(ev) EXCEPT ![m] = <<[from |-> 1, to |-> k + 1, rep |-> r]>>], ev, m, k, r)
<1> DEFINE len == Len(ev.leaves[m].text)
           was == NoExtra(ev)
           e   == [from |-> 1, to |-> k + 1, rep |-> r]
           u   == <<e>>
           x   == [was EXCEPT ![m] = u]
<1>1. len \in Nat /\ k \in 1 .. len
  BY EventLeaves
<1> HIDE DEF len
<1>2. k + 1 \in 0 .. len + 1 /\ k + 1 \in Nat
  BY <1>1
<1>3. e \in Edits /\ e \in Edit(Cells, len)
  BY <1>2 DEF Edits, Edit
<1> HIDE DEF e
<1>4. u \in Seq(Edits) /\ u \in Seq(Edit(Cells, len))
  BY <1>3
<1>5. \A l \in 1 .. Len(ev.leaves) : was[l] = <<>>
  BY EventLeaves DEF NoExtra
<1>6. ExtraOf(ev, was)
  BY NoExtraOf
<1> HIDE DEF was, u
<1>7. /\ was \in Seq(Seq(Edits)) /\ Len(was) = Len(ev.leaves) /\ m \in 1 .. Len(was)
      /\ \A i \in 1 .. Len(ev.leaves) : was[i] \in Seq(Edit(Cells, Len(ev.leaves[i].text)))
  BY <1>6 DEF ExtraOf
<1>8. /\ x \in Seq(Seq(Edits)) /\ Len(x) = Len(was)
      /\ \A j \in 1 .. Len(was) : x[j] = IF j = m THEN u ELSE was[j]
  BY <1>4, <1>7, ExceptSeq
<1> HIDE DEF x
<1>9. ExtraOf(ev, x)
  BY <1>4, <1>7, <1>8 DEF ExtraOf, len
<1> QED
  BY <1>5, <1>7, <1>8, <1>9 DEF x, was, u, e, RestoredBy

LEMMA CompleteKeeps ==
  ASSUME StreamInv, NEW ev \in Events, LeafComplete(ev) PROVE StreamInv'
<1> DEFINE m       == Match(ev, s.key)
           k       == Len(Completed(ev)) - Len(s.carry)
           h       == HandoffWriter(s)
           e       == EditAll(h)
           x       == FlushHeld(e)
           restore == [from |-> 1, to |-> k + 1, rep |-> Backfilled(Completed(ev), TRUE)]
           extra   == [NoExtra(ev) EXCEPT ![m] = <<restore>>]
<1>1. Good(s, Len(fed)) /\ s \in Stream
  BY GoodNow DEF Good
<1>2. /\ Envelope(ev) /\ ~ closed /\ m # 0 /\ Completed(ev) \in Mapped
      /\ StartOrEmit(x, x, ev, ContentWith(ev, extra), extra, TrailingPrefixAfter(ev, m, k))
  BY DEF LeafComplete, Restorable, Continues, Open
<1>3. h \in Stream /\ Home(h) /\ Ordered(h, Len(fed)) /\ h.held = <<>>
  BY <1>1, HandoffGood DEF Good
<1> HIDE DEF h
<1>4. e \in Stream /\ Ordered(e, Len(fed)) /\ e.held = <<>>
  BY <1>3, EditAllKeeps, AlikeKeeps
<1> HIDE DEF e
<1>5. /\ x \in Stream /\ x.held = <<>> /\ x.queue = <<>> /\ x.carry = <<>> /\ x.parts = <<>>
      /\ Bounded(x) /\ Ordered(x, Len(fed))
  BY <1>4, FlushedGood
<1> HIDE DEF x
<1>6. Completed(ev) \in Seq(Cells) /\ k \in 1 .. Len(ev.leaves[m].text) /\ k \in Nat
  BY <1>1, <1>2, CompletedLies
<1>7. m \in 1 .. Len(ev.leaves)
  BY <1>2, MatchLies
<1> HIDE DEF m, k
<1>8. ExtraOf(ev, extra)
  <2> DEFINE r == Backfilled(Completed(ev), TRUE)
  <2>1. r \in Seq(Cells)
    BY <1>6, BackfilledText, SecretsAreCells
  <2> HIDE DEF r
  <2>2. RestoredBy([NoExtra(ev) EXCEPT ![m] = <<[from |-> 1, to |-> k + 1, rep |-> r]>>], ev, m, k, r)
    BY <1>6, <1>7, <2>1, RestoreExtra
  <2>3. extra = [NoExtra(ev) EXCEPT ![m] = <<[from |-> 1, to |-> k + 1, rep |-> r]>>]
    BY DEF r
  <2> HIDE DEF extra
  <2> QED
    BY <2>2, <2>3 DEF RestoredBy
<1> HIDE DEF extra
<1>9. TextsOf(ev, ContentWith(ev, extra)) /\ FoundIn(ev, TrailingPrefixAfter(ev, m, k))
  BY <1>6, <1>8, ContentOf, TrailingPrefixAfterFound
<1> QED
  BY <1>2, <1>5, <1>8, <1>9, StartKeeps

\* What a part at home spells is a text.
LEMMA SpelledText ==
  ASSUME NEW x \in Stream, NEW p \in Part, PartHome(x, p) PROVE Spelled(x, p) \in Seq(Cells)
<1> DEFINE ev   == x.queue[p.seg].ev
           text == ev.leaves[p.leaf].text
           from == p.from
<1>1. ev \in Events
  <2>1. x.queue[p.seg] \in SegmentSet
    BY StreamFields DEF PartHome
  <2> QED
    BY <2>1 DEF SegmentSet, Record
<1>2. p.leaf \in 1 .. Len(ev.leaves) /\ p.to = Len(text) + 1 /\ from >= 1 /\ from <= Len(text) + 1
      /\ from \in Nat
  BY DEF PartHome, Part
<1>3. text \in Seq(Cells) /\ Len(text) \in Nat
  BY <1>1, <1>2, EventLeaves
<1> HIDE DEF text, from
<1>4. from \in 1 .. Len(text) + 1 /\ (Len(text) + 1) - 1 = Len(text)
  BY <1>2, <1>3
<1>5. From(text, from) \in Seq(Cells)
  BY <1>3, <1>4, FromIsTail
<1>6. Spelled(x, p) = SubSeq(text, from, Len(text))
  BY <1>2, <1>4 DEF Spelled, text, from
<1> QED
  BY <1>5, <1>6 DEF From

\* A carry with one more part.
LEMMA PartAdded ==
  ASSUME NEW e \in Stream, Home(e), e.carry # <<>>,
         NEW p \in Part, PartHome(e, p), \A k \in 1 .. Len(e.parts) : e.parts[k].seg < p.seg,
         NEW y, y.queue = e.queue, y.key = e.key, y.parts = Append(e.parts, p),
         y.carry = e.carry \o Spelled(e, p)
  PROVE  Home(y)
<1> DEFINE parts == e.parts
           more  == Append(parts, p)
           n     == Len(parts)
           ss    == [k \in 1 .. n |-> Spelled(e, parts[k])]
           tt    == [k \in 1 .. n + 1 |-> Spelled(y, more[k])]
           t     == Spelled(e, p)
<1>1. parts \in Seq(Part) /\ n \in Nat /\ \A k \in 1 .. n : parts[k] \in Part
  <2>1. parts \in Seq(Part)
    BY StreamFields
  <2> HIDE DEF parts
  <2> QED
    BY <2>1, LenProperties, ElementOfSeq
<1>2. /\ parts # <<>> /\ e.key # NoIdentity /\ parts[1].seg = 1
      /\ e.carry = Join(ss)
      /\ \A k \in 1 .. n : PartHome(e, parts[k]) /\ (k > 1 => parts[k - 1].seg < parts[k].seg)
  BY DEF Home
<1>3. \A k \in 1 .. n : parts[k].seg < p.seg
  OBVIOUS
<1>4. y.queue = e.queue /\ y.key = e.key /\ y.parts = more /\ y.carry = e.carry \o t
  OBVIOUS
<1>5. \A r : (PartHome(e, r) => PartHome(y, r)) /\ Spelled(y, r) = Spelled(e, r)
  BY <1>4 DEF PartHome, Spelled
<1> HIDE DEF parts
<1>6. /\ more \in Seq(Part) /\ Len(more) = n + 1 /\ more[n + 1] = p
      /\ \A k \in 1 .. n : more[k] = parts[k]
  BY <1>1
<1>7. n # 0 /\ 1 \in 1 .. n
  <2>1. n # 0
    BY <1>1, <1>2, EmptySeq
  <2> QED
    BY <1>1, <2>1
<1> HIDE DEF more, n
<1>8. ss \in Seq(Seq(Cells)) /\ Len(ss) = n /\ t \in Seq(Cells)
  <2>1. \A k \in 1 .. n : Spelled(e, parts[k]) \in Seq(Cells)
    BY <1>1, <1>2, SpelledText
  <2>2. ss \in [1 .. n -> Seq(Cells)]
    BY <2>1
  <2>3. t \in Seq(Cells)
    BY SpelledText
  <2> HIDE DEF ss, t
  <2> QED
    BY <1>1, <2>2, <2>3, SequenceOf
<1>9. tt = Append(ss, t)
  <2>1. \A k \in 1 .. n : tt[k] = ss[k]
    <3>1. ASSUME NEW k \in 1 .. n PROVE tt[k] = ss[k]
      <4>1. k \in 1 .. n + 1
        BY <1>1
      <4>2. tt[k] = Spelled(y, more[k])
        BY <4>1
      <4> QED
        BY <1>5, <1>6, <4>2
    <3> QED
      BY <3>1
  <2>2. tt[n + 1] = t
    <3>1. n + 1 \in 1 .. n + 1
      BY <1>1
    <3>2. tt[n + 1] = Spelled(y, more[n + 1])
      BY <3>1
    <3> QED
      BY <1>5, <1>6, <3>2
  <2>3. tt = [k \in 1 .. n + 1 |-> tt[k]]
    OBVIOUS
  <2> DEFINE aa == Append(ss, t)
  <2> HIDE DEF tt, ss, t
  <2>8. /\ aa \in Seq(Seq(Cells)) /\ Len(aa) = n + 1 /\ aa[n + 1] = t
        /\ \A k \in 1 .. n : aa[k] = ss[k]
    BY <1>1, <1>8
  <2>4. /\ aa = [k \in 1 .. n + 1 |-> aa[k]] /\ aa[n + 1] = t
        /\ \A k \in 1 .. n : aa[k] = ss[k]
    <3> HIDE DEF aa
    <3>1. aa \in [1 .. Len(aa) -> Seq(Cells)]
      BY <2>8, LenProperties
    <3> QED
      BY <2>8, <3>1
  <2> HIDE DEF aa
  <2>5. \A k \in 1 .. n + 1 : k = n + 1 \/ k \in 1 .. n
    BY <1>1
  <2>6. \A k \in 1 .. n + 1 : tt[k] = aa[k]
    BY <2>1, <2>2, <2>4, <2>5
  <2>7. tt = aa
    BY <2>3, <2>4, <2>6
  <2> QED
    BY <2>7 DEF aa
<1>10. y.carry = Join(tt)
  <2> HIDE DEF ss, t, tt
  <2>1. Len(ss) # 0
    BY <1>7, <1>8
  <2> QED
    BY <1>2, <1>4, <1>8, <1>9, <2>1, JoinAppend
<1>11. y.carry # <<>>
  <2>1. e.carry \in Seq(Cells) /\ t \in Seq(Cells)
    BY <1>8, StreamFields
  <2> HIDE DEF t
  <2> QED
    BY <1>4, <2>1, ConcatEqualIffEmpty
<1>12. more # <<>> /\ more[1].seg = 1
  BY <1>1, <1>2, <1>6, <1>7
<1>13. \A k \in 1 .. n + 1 : PartHome(y, more[k]) /\ (k > 1 => more[k - 1].seg < more[k].seg)
  <2>1. ASSUME NEW k \in 1 .. n
        PROVE  PartHome(y, more[k]) /\ (k > 1 => more[k - 1].seg < more[k].seg)
    <3>1. PartHome(y, more[k])
      BY <1>2, <1>5, <1>6
    <3>2. ASSUME k > 1 PROVE more[k - 1].seg < more[k].seg
      <4>1. k - 1 \in 1 .. n
        BY <1>1, <3>2
      <4> QED
        BY <1>2, <1>6, <3>2, <4>1
    <3> QED
      BY <3>1, <3>2
  <2>2. PartHome(y, more[n + 1]) /\ more[(n + 1) - 1].seg < more[n + 1].seg
    <3>1. (n + 1) - 1 = n /\ n \in 1 .. n
      BY <1>1, <1>7
    <3> QED
      BY <1>3, <1>5, <1>6, <3>1
  <2>3. \A k \in 1 .. n + 1 : k = n + 1 \/ k \in 1 .. n
    BY <1>1
  <2> QED
    BY <2>1, <2>2, <2>3
<1> QED
  <2> HIDE DEF tt
  <2>1. Len(y.parts) = n + 1 /\ y.parts = more
    BY <1>4, <1>6
  <2>2. y.carry = Join([k \in 1 .. Len(y.parts) |-> Spelled(y, y.parts[k])])
    BY <1>10, <2>1 DEF tt
  <2> QED
    BY <1>2, <1>4, <1>11, <1>12, <1>13, <2>1, <2>2 DEF Home

\* The carry that is extended, before drain.
Extended(ev) ==
  LET m == Match(ev, s.key)
      x == HoldSegment(HandoffWriter(s), Segment(ev, TRUE, WithinLeafContent(ev), NoExtra(ev)))
      p == [seg |-> Len(x.queue), leaf |-> m, from |-> 1, to |-> Len(ev.leaves[m].text) + 1]
  IN  [x EXCEPT !.carry = Combined(ev), !.parts = Append(@, p)]
ExtendedAs(y, ev) ==
  LET h   == HandoffWriter(s)
      m   == Match(ev, s.key)
      seg == Segment(ev, TRUE, WithinLeafContent(ev), NoExtra(ev))
  IN  /\ y \in Stream /\ Home(y) /\ y.held = <<>> /\ Bounded(y) /\ Ordered(y, Len(fed) + 1)
      /\ NextSegment(seg, ev, WithinLeafContent(ev)) /\ seg.leaf
      /\ y.out = h.out /\ y.queue = Append(h.queue, seg)
      /\ y.carry = s.carry \o ev.leaves[m].text /\ y.carry # <<>> /\ y.key = s.key
      /\ y.parts = Append(h.parts, [seg |-> Len(h.queue) + 1, leaf |-> m, from |-> 1,
                                    to |-> Len(ev.leaves[m].text) + 1])

LEMMA ExtendedIs ==
  ASSUME StreamInv, NEW ev \in Events, LeafExtend(ev)
  PROVE  ExtendedAs(Extended(ev), ev) /\ Feed(ev, Drain(Extended(ev)), LeftOver(ev, {Match(ev, s.key)}))
<1> DEFINE m     == Match(ev, s.key)
           text  == ev.leaves[m].text
           h     == HandoffWriter(s)
           seg   == Segment(ev, TRUE, WithinLeafContent(ev), NoExtra(ev))
           e     == EmitSegment(h, seg)
           x     == HoldSegment(h, seg)
           p     == [seg |-> Len(x.queue), leaf |-> m, from |-> 1, to |-> Len(text) + 1]
           carry == Combined(ev)
           parts == Append(x.parts, p)
           y     == [x EXCEPT !.carry = carry, !.parts = parts]
<1>1. Good(s, Len(fed)) /\ fed \in Seq(Events) /\ Len(fed) \in Nat /\ s \in Stream
  BY GoodNow DEF Good
<1>2. /\ Envelope(ev) /\ ~ closed /\ s.carry # <<>> /\ m # 0 /\ ExtensionFits(ev)
      /\ Feed(ev, Drain(y), LeftOver(ev, {m}))
  BY DEF LeafExtend, Continues, CanExtend, Open
<1>3. /\ m \in 1 .. Len(ev.leaves) /\ m \in Nat /\ ev.leaves[m].id = s.key
      /\ text \in Seq(Cells) /\ Len(text) \in Nat
  <2>1. m \in 1 .. Len(ev.leaves) /\ ev.leaves[m].id = s.key
    BY <1>2, MatchLies
  <2>2. text \in Seq(Cells) /\ Len(text) \in Nat /\ Len(ev.leaves) \in Nat
    BY <2>1, EventLeaves
  <2> QED
    BY <2>1, <2>2
<1>4. Good(h, Len(fed)) /\ SameCarry(s, h) /\ h.held = <<>>
  BY <1>1, HandoffGood
<1>5. FitsBudget(h, RawBytes(ev) + Width(WithinLeafContent(ev)) + Len(text))
  BY <1>2 DEF ExtensionFits
<1> HIDE DEF h
<1>6. h \in Stream /\ Home(h) /\ Ordered(h, Len(fed))
  BY <1>4 DEF Good
<1>7. /\ seg \in SegmentSet /\ seg.n = Len(fed) + 1 /\ seg.ev = ev /\ seg.leaf
      /\ seg.content = WithinLeafContent(ev)
  <2> DEFINE c == WithinLeafContent(ev)
  <2>1. TextsOf(ev, c) /\ ExtraOf(ev, NoExtra(ev))
    BY WithinLeafContentOf, NoExtraOf
  <2> HIDE DEF c
  <2>2. NextSegment(Segment(ev, TRUE, c, NoExtra(ev)), ev, c)
    BY <1>1, <1>2, <2>1, LeafSegment
  <2>3. seg.leaf
    BY DEF Segment
  <2>4. NextSegment(seg, ev, c)
    BY <2>2 DEF c
  <2> HIDE DEF seg
  <2> QED
    BY <2>3, <2>4 DEF NextSegment, c
<1> HIDE DEF seg
<1> DEFINE q == h.queue
           n == Len(q)
<1>8. q \in Seq(SegmentSet) /\ n \in Nat
  BY <1>6, StreamFields
<1>9. /\ e \in Stream /\ SameCarry(h, e) /\ e.held = <<>> /\ e.out = h.out
      /\ Len(e.queue) = n + 1 /\ e.queue[n + 1] = seg
      /\ Ordered(e, Len(fed) + 1) /\ Home(e)
  BY <1>1, <1>4, <1>6, <1>7, EmitKeeps
<1>10. /\ x \in Stream /\ x.held = <<>> /\ x.out = h.out /\ x.carry = h.carry
       /\ x.key = h.key /\ x.parts = h.parts /\ x.queue = e.queue
       /\ x.bytes = h.bytes + RawBytes(ev) + Width(WithinLeafContent(ev))
       /\ RawBytes(ev) \in Nat /\ Width(WithinLeafContent(ev)) \in Nat
  BY <1>4, <1>6, <1>7, HoldSegmentKeeps
<1>11. e.carry = s.carry /\ e.key = s.key /\ e.parts = h.parts /\ h.carry = s.carry /\ h.key = s.key
  BY <1>4, <1>9 DEF SameCarry
<1> HIDE DEF e, x
<1>12. p \in Part /\ p.seg = n + 1 /\ p.leaf = m /\ p.from = 1 /\ p.to = Len(text) + 1
  <2>1. Len(x.queue) = n + 1
    BY <1>9, <1>10
  <2>2. n + 1 \in Nat /\ Len(text) + 1 \in Nat
    BY <1>3, <1>8
  <2> HIDE DEF n, text, m
  <2> QED
    BY <1>3, <2>1, <2>2 DEF Part
<1> HIDE DEF p
<1>13. e.queue[p.seg] = seg /\ e.queue[p.seg].ev.leaves[p.leaf].text = text
  BY <1>7, <1>9, <1>12
<1>14. PartHome(e, p)
  <2>1. p.seg \in 1 .. Len(e.queue)
    <3>1. n + 1 \in 1 .. n + 1
      BY <1>8
    <3> QED
      BY <1>9, <1>12, <3>1
  <2>2. /\ e.queue[p.seg].leaf /\ p.leaf \in 1 .. Len(e.queue[p.seg].ev.leaves)
        /\ e.queue[p.seg].ev.leaves[p.leaf].id = e.key
    BY <1>3, <1>7, <1>11, <1>12, <1>13
  <2>3. p.from >= 1 /\ p.from <= p.to
    <3> DEFINE l == Len(text)
    <3>1. l \in Nat
      BY <1>3
    <3> HIDE DEF l
    <3>2. 1 >= 1 /\ 1 <= l + 1
      BY <3>1
    <3> QED
      BY <1>12, <3>2 DEF l
  <2>4. p.to = Len(e.queue[p.seg].ev.leaves[p.leaf].text) + 1
    BY <1>12, <1>13
  <2> QED
    BY <2>1, <2>2, <2>3, <2>4 DEF PartHome
<1>15. Spelled(e, p) = text
  <2>1. (Len(text) + 1) - 1 = Len(text)
    <3> HIDE DEF text
    <3> QED
      BY <1>3
  <2>2. Spelled(e, p) = SubSeq(text, 1, Len(text))
    BY <1>12, <1>13, <2>1 DEF Spelled
  <2> HIDE DEF text
  <2> QED
    BY <1>3, <2>2, SubSeqFull
<1>16. \A k \in 1 .. Len(e.parts) : e.parts[k].seg < p.seg
  <2>1. ASSUME NEW k \in 1 .. Len(h.parts) PROVE h.parts[k].seg < n + 1
    <3>1. h.parts[k].seg \in 1 .. n
      BY <1>6 DEF Home, PartHome
    <3> DEFINE i == h.parts[k].seg
    <3>2. i \in 1 .. n
      BY <3>1
    <3> HIDE DEF i, n
    <3>3. i < n + 1
      BY <1>8, <3>2
    <3> QED
      BY <3>3 DEF i
  <2> HIDE DEF n
  <2> QED
    BY <1>11, <1>12, <2>1
<1>17. carry = s.carry \o text /\ carry \in Seq(Cells) /\ Len(carry) = Len(s.carry) + Len(text)
       /\ Len(s.carry) \in Nat
  <2>1. carry = s.carry \o text
    BY DEF Combined
  <2> DEFINE c == s.carry
  <2>2. c \in Seq(Cells) /\ Len(c) \in Nat
    BY <1>1, StreamFields
  <2> HIDE DEF carry, text, c
  <2>3. c \o text \in Seq(Cells) /\ Len(c \o text) = Len(c) + Len(text)
    BY <1>3, <2>2, ConcatProperties
  <2> QED
    BY <2>1, <2>2, <2>3 DEF c
<1>18. parts \in Seq(Part) /\ parts = Append(e.parts, p)
  <2>1. x.parts \in Seq(Part) /\ x.parts = e.parts
    BY <1>10, <1>11, StreamFields
  <2> DEFINE was == x.parts
  <2> HIDE DEF was
  <2>2. was \in Seq(Part) => Append(was, p) \in Seq(Part)
    BY <1>12
  <2> QED
    BY <2>1, <2>2 DEF was
<1> HIDE DEF carry, parts
<1>19. /\ y \in Stream /\ y.held = <<>> /\ y.queue = e.queue /\ y.out = e.out /\ y.bytes = x.bytes
       /\ y.carry = carry /\ y.key = e.key /\ y.parts = parts
  BY <1>9, <1>10, <1>11, <1>17, <1>18 DEF Stream
<1> HIDE DEF y
<1>20. Home(y)
  <2>1. y.carry = e.carry \o Spelled(e, p) /\ y.parts = Append(e.parts, p) /\ e.carry # <<>>
    BY <1>2, <1>11, <1>15, <1>17, <1>18, <1>19
  <2> HIDE DEF text, m, n, q
  <2> QED
    BY <1>9, <1>12, <1>14, <1>16, <1>19, <2>1, PartAdded
<1>21. Bounded(y)
  <2> DEFINE b == h.bytes
             c == Len(s.carry)
             r == RawBytes(ev)
             w == Width(WithinLeafContent(ev))
             f == Len(text)
  <2>1. b \in Nat /\ c \in Nat /\ r \in Nat /\ w \in Nat /\ f \in Nat
    BY <1>3, <1>6, <1>10, <1>17, StreamFields
  <2>2. 0 + c + b + (r + w + f) <= Budget
    <3>1. Len(h.held) = 0 /\ Len(h.carry) = c
      BY <1>4, <1>11
    <3> QED
      BY <1>5, <3>1 DEF FitsBudget
  <2>3. Len(y.held) = 0 /\ Len(y.carry) = c + f /\ y.bytes = b + r + w
    BY <1>10, <1>17, <1>19
  <2> HIDE DEF b, c, r, w, f
  <2>4. 0 + (c + f) + (b + r + w) <= Budget
    BY <2>1, <2>2, HoldSum
  <2> QED
    BY <2>3, <2>4 DEF Bounded
<1>22. Ordered(y, Len(fed) + 1)
  BY <1>9, <1>19 DEF Ordered
<1>23. Extended(ev) = y
  BY DEF Extended, y, x, h, seg, p, parts, carry, m, text
<1>24. y.queue = Append(h.queue, seg)
  <2>1. e.queue = Append(h.queue, seg)
    BY <1>6 DEF e, EmitSegment, Stream
  <2> QED
    BY <1>19, <2>1
<1>25. p = [seg |-> Len(h.queue) + 1, leaf |-> m, from |-> 1, to |-> Len(text) + 1]
  BY <1>9, <1>10 DEF p, n, q
<1>26. y.carry = s.carry \o text /\ y.parts = Append(h.parts, p) /\ y.key = s.key /\ y.out = h.out
  BY <1>9, <1>10, <1>11, <1>17, <1>18, <1>19
<1>27. y.carry # <<>>
  <2> DEFINE c == s.carry
  <2>1. c \in Seq(Cells) /\ c # <<>> /\ text \in Seq(Cells)
    BY <1>1, <1>2, <1>3, StreamFields
  <2> HIDE DEF c, text
  <2>2. c \o text # <<>>
    BY <2>1, ConcatEqualIffEmpty
  <2> QED
    BY <1>26, <2>2 DEF c
<1>28. NextSegment(seg, ev, WithinLeafContent(ev)) /\ seg.leaf /\ Feed(ev, Drain(y), LeftOver(ev, {m}))
  BY <1>2, <1>7 DEF NextSegment
<1> QED
  BY <1>19, <1>20, <1>21, <1>22, <1>23, <1>24, <1>25, <1>26, <1>27, <1>28 DEF ExtendedAs, h, m, seg, text

LEMMA ExtendKeeps ==
  ASSUME StreamInv, NEW ev \in Events, LeafExtend(ev) PROVE StreamInv'
<1> DEFINE y == Extended(ev)
           z == Drain(y)
           m == Match(ev, s.key)
<1>1. /\ y \in Stream /\ Home(y) /\ y.held = <<>> /\ Bounded(y) /\ Ordered(y, Len(fed) + 1)
      /\ Feed(ev, z, LeftOver(ev, {m}))
  BY ExtendedIs DEF ExtendedAs
<1>2. ~ closed
  BY DEF LeafExtend, Continues, Open
<1> HIDE DEF y
<1>3. z \in Stream /\ SameCarry(y, z) /\ z.held = <<>> /\ Home(z) /\ Ordered(z, Len(fed) + 1)
  BY <1>1, DrainKeeps
<1> HIDE DEF z
<1>4. Good(z, Len(fed) + 1)
  BY <1>1, <1>3 DEF Good, Bounded, HeldHome, SameCarry
<1>5. LeftOver(ev, {m}) \subseteq {Len(fed) + 1}
  BY DEF LeftOver
<1> QED
  BY <1>1, <1>2, <1>4, <1>5, FedKeeps

\* What Flush makes of the record before it releases it.
Flushed(x) ==
  LET spans == {i \in DOMAIN x.queue : HasSpan(x.queue[i])}
  IN  IF spans = {} THEN x
      ELSE [x EXCEPT !.queue[Min(spans)].content =
              IF x.held = <<>> THEN @ ELSE <<@[1] \o x.held>>, !.held = <<>>]

LEMMA FlushedTail ==
  ASSUME NEW x \in Stream, HeldHome(x)
  PROVE  LET y == Flushed(x)
         IN  /\ y \in Stream /\ y.held = <<>> /\ y.out = x.out /\ Len(y.queue) = Len(x.queue)
             /\ \A i \in 1 .. Len(x.queue) :
                  /\ y.queue[i].n = x.queue[i].n
                  /\ y.queue[i] = x.queue[i] \/ (~ x.queue[i].leaf /\ ~ y.queue[i].leaf)
<1> DEFINE q     == x.queue
           spans == {i \in DOMAIN q : HasSpan(q[i])}
           m     == Min(spans)
           c     == IF x.held = <<>> THEN q[m].content ELSE <<q[m].content[1] \o x.held>>
           seg   == [q[m] EXCEPT !.content = c]
           qq    == [q EXCEPT ![m] = seg]
           y     == Flushed(x)
<1>1. /\ q \in Seq(SegmentSet) /\ Len(q) \in Nat /\ DOMAIN q = 1 .. Len(q)
      /\ \A i \in 1 .. Len(q) : q[i] \in SegmentSet
  BY StreamFields, LenProperties
<1>2. CASE spans = {}
  <2>1. y = x
    BY <1>2 DEF Flushed
  <2>2. x.held = <<>>
    BY <1>1, <1>2 DEF HeldHome, RawData
  <2> QED
    BY <2>1, <2>2
<1>3. CASE spans # {}
  <2>1. m \in 1 .. Len(q) /\ q[m] \in SegmentSet /\ HasSpan(q[m])
    <3>1. spans \subseteq Nat
      BY <1>1
    <3>2. Min(spans) \in spans
      <4> HIDE DEF spans
      <4> QED
        BY <1>3, <3>1, MinIsLeast
    <3> QED
      BY <1>1, <3>2
  <2>2. x.held # <<>> => RawData(q[m])
    BY <1>1, <2>1 DEF HeldHome
  <2>3. y = [x EXCEPT !.queue = qq, !.held = <<>>]
    BY <1>3 DEF Flushed
  <2> HIDE DEF m, spans
  <2> DEFINE g == q[m]
             t == g.content
  <2>4. g \in Record /\ SegmentOf(g) /\ t \in Seq(Seq(Cells))
    BY <2>1 DEF SegmentSet, Record
  <2>5. c \in Seq(Seq(Cells)) /\ Len(c) <= Len(g.ev.leaves) /\ (RawData(g) => Len(c) = 1)
    <3>1. CASE x.held = <<>>
      BY <2>4, <3>1 DEF SegmentOf
    <3>2. CASE x.held # <<>>
      <4>1. Len(t) = 1 /\ 1 <= Len(g.ev.leaves)
        BY <2>2, <2>4, <3>2 DEF SegmentOf
      <4>2. t \in Seq(Seq(Cells)) /\ Len(t) = 1
        BY <2>4, <4>1
      <4> HIDE DEF t
      <4>3. t[1] \in Seq(Cells)
        BY <4>2, ElementOfSeq
      <4>4. t[1] \o x.held \in Seq(Cells)
        BY <4>3, StreamFields, ConcatProperties
      <4>5. c = <<t[1] \o x.held>>
        BY <3>2 DEF t
      <4> HIDE DEF c
      <4> QED
        BY <4>1, <4>4, <4>5
    <3> QED
      BY <3>1, <3>2
  <2>6. x.held = <<>> => seg = g
    BY <2>4 DEF Record
  <2> HIDE DEF c
  <2>7. seg \in SegmentSet /\ seg.n = g.n /\ seg.leaf = g.leaf
    <3> HIDE DEF q
    <3>1. [g EXCEPT !.content = c, !.extra = g.extra] = [g EXCEPT !.content = c]
      BY <2>4 DEF Record
    <3>2. g \in SegmentSet /\ ExtraOf(g.ev, g.extra)
      BY <2>1, <2>4 DEF SegmentOf
    <3> HIDE DEF g
    <3>3. LET w == [g EXCEPT !.content = c, !.extra = g.extra]
          IN  w \in SegmentSet /\ w.n = g.n /\ w.ev = g.ev /\ w.leaf = g.leaf
      BY <2>5, <3>2, NewContent
    <3> QED
      BY <3>1, <3>3 DEF g
  <2> HIDE DEF seg
  <2>8. qq \in Seq(SegmentSet) /\ Len(qq) = Len(q)
        /\ \A j \in 1 .. Len(q) : qq[j] = IF j = m THEN seg ELSE q[j]
    <3> HIDE DEF q
    <3> QED
      BY <1>1, <2>1, <2>7, ExceptSeq
  <2>9. \A j \in 1 .. Len(q) : /\ qq[j].n = q[j].n
                               /\ qq[j] = q[j] \/ (~ q[j].leaf /\ ~ qq[j].leaf)
    BY <2>2, <2>6, <2>7, <2>8 DEF RawData
  <2> HIDE DEF qq
  <2>10. <<>> \in Seq(Cells)
    OBVIOUS
  <2>11. y \in Stream /\ y.held = <<>> /\ y.queue = qq /\ y.out = x.out
    BY <2>3, <2>8, <2>10 DEF Stream
  <2> HIDE DEF y
  <2> QED
    BY <2>8, <2>9, <2>11 DEF y
<1> QED
  BY <1>2, <1>3

LEMMA FlushKeeps ==
  ASSUME StreamInv, Flush PROVE StreamInv'
<1> DEFINE x == Flushed(s)
           r == ReleaseAll(x)
           y == ClearCarry(r)
<1>1. s \in Stream /\ HeldHome(s) /\ Ordered(s, Len(fed))
  BY DEF StreamInv
<1>2. fed \in Seq(Events) /\ overlooked \subseteq 1 .. Len(fed)
  BY DEF StreamInv
<1>3. s' = y /\ closed' = TRUE /\ fed' = fed /\ overlooked' = overlooked
  BY DEF Flush, Flushed
<1>5. x \in Stream /\ x.held = <<>> /\ Ordered(x, Len(fed))
  <2>1. /\ x \in Stream /\ x.held = <<>> /\ x.out = s.out /\ Len(x.queue) = Len(s.queue)
        /\ \A i \in 1 .. Len(s.queue) : x.queue[i].n = s.queue[i].n
    BY <1>1, FlushedTail
  <2> HIDE DEF x
  <2> QED
    BY <1>1, <2>1 DEF Ordered, InLine
<1> HIDE DEF x
<1>6. r \in Stream /\ r.held = <<>> /\ r.queue = <<>> /\ Ordered(r, Len(fed))
  BY <1>5, ReleaseAllKeeps
<1> HIDE DEF r
<1>7. /\ y \in Stream /\ y.held = <<>> /\ y.queue = <<>> /\ y.carry = <<>> /\ y.parts = <<>>
      /\ y.bytes = 0 /\ Ordered(y, Len(fed))
  BY <1>6, ClearCarryKeeps
<1> HIDE DEF y
<1>8. Home(y) /\ HeldHome(y) /\ Bounded(y)
  <2>1. Home(y)
    BY <1>7, NoParts
  <2> QED
    BY <1>7, <2>1, StreamOK DEF HeldHome, Bounded
<1>9. /\ s' \in Stream /\ Home(s') /\ HeldHome(s') /\ Bounded(s') /\ Ordered(s', Len(fed'))
      /\ s'.queue = <<>> /\ s'.held = <<>> /\ s'.carry = <<>>
  BY <1>3, <1>7, <1>8
<1>10. fed' \in Seq(Events) /\ overlooked' \subseteq 1 .. Len(fed') /\ closed' \in BOOLEAN
  BY <1>2, <1>3
<1> QED
  BY <1>9, <1>10 DEF StreamInv

LEMMA StepKeeps ==
  ASSUME StreamInv, [Next]_vars PROVE StreamInv'
<1>1. CASE Flush
  BY <1>1, FlushKeeps
<1>2. ASSUME NEW ev \in Events, Accept(ev) PROVE StreamInv'
  <2>1. CASE AcceptOther(ev)
    BY <2>1, OtherKeeps
  <2>2. CASE AcceptText(ev)
    BY <2>2, TextKeeps
  <2>3. CASE LeafFirst(ev)
    BY <2>3, FirstKeeps
  <2>4. CASE LeafNoMatch(ev)
    BY <2>4, NoMatchKeeps
  <2>5. CASE LeafComplete(ev)
    BY <2>5, CompleteKeeps
  <2>6. CASE LeafGiveUp(ev)
    BY <2>6, GiveUpKeeps
  <2>7. CASE LeafExtend(ev)
    BY <2>7, ExtendKeeps
  <2> QED
    BY <1>2, <2>1, <2>2, <2>3, <2>4, <2>5, <2>6, <2>7 DEF Accept, AcceptLeaf
<1>3. CASE UNCHANGED vars
  BY <1>3, Zenon DEF vars, StreamInv
<1> QED
  BY <1>1, <1>2, <1>3 DEF Next

LEMMA StartsWell == Init => StreamInv
<1> SUFFICES ASSUME Init PROVE StreamInv
  OBVIOUS
<1>1. /\ s.queue = <<>> /\ s.held = <<>> /\ s.carry = <<>> /\ s.parts = <<>> /\ s.bytes = 0
      /\ s.out = <<>> /\ s \in Stream
  BY DEF Init, Stream
<1>2. fed = <<>> /\ overlooked = {} /\ closed = FALSE
  BY DEF Init
<1>3. Home(s)
  BY <1>1, NoParts
<1>4. HeldHome(s) /\ Bounded(s) /\ Ordered(s, Len(fed))
  BY <1>1, <1>2, StreamOK DEF HeldHome, Bounded, Ordered, InLine
<1>5. fed \in Seq(Events) /\ overlooked \subseteq 1 .. Len(fed) /\ closed \in BOOLEAN /\ ~ closed
  <2>1. <<>> \in Seq(Events)
    OBVIOUS
  <2>2. {} \subseteq 1 .. Len(fed) /\ FALSE \in BOOLEAN
    OBVIOUS
  <2> QED
    BY <1>2, <2>1, <2>2, Zenon
<1> QED
  BY <1>1, <1>3, <1>4, <1>5 DEF StreamInv

LEMMA AlwaysStreamInv == Spec => []StreamInv
BY StartsWell, StepKeeps, PTL DEF Spec
=============================================================================
