-------------------------- MODULE EventStreamProofs --------------------------
(***************************************************************************)
(* What holds of every event stream: the order of the events, the bound of *)
(* what is held, that every channel says what the upstream said, and that  *)
(* raw text comes out restored, run by run; and, of the decoder below it,  *)
(* that no byte of the stream is lost between the records and the tail.    *)
(***************************************************************************)
EXTENDS EventStreamLemmas, SSEDecoder

-----------------------------------------------------------------------------
(* What follows from the invariant. *)

\* What left and what is queued.
LEMMA SegmentsAre ==
  ASSUME StreamInv
  PROVE  /\ Segments \in Seq(SegmentSet) /\ Len(Segments) = Len(fed) /\ Len(fed) \in Nat
         /\ \A i \in 1 .. Len(fed) : Segments[i].n = i
<1> DEFINE o == s.out
           q == s.queue
           z == o \o q
<1>1. s \in Stream /\ InLine(o, q, Len(fed))
  BY DEF StreamInv, Ordered
<1>2. o \in Seq(SegmentSet) /\ q \in Seq(SegmentSet) /\ Len(o) \in Nat /\ Len(q) \in Nat
  BY <1>1, StreamFields
<1> HIDE DEF o, q
<1>3. /\ z \in Seq(SegmentSet) /\ Len(z) = Len(o) + Len(q)
      /\ \A i \in 1 .. Len(o) + Len(q) : z[i] = IF i <= Len(o) THEN o[i] ELSE q[i - Len(o)]
  BY <1>2, ConcatProperties
<1> HIDE DEF z
<1>4. Len(o) + Len(q) = Len(fed) /\ Len(fed) \in Nat
  BY <1>1, <1>2 DEF InLine
<1>5. ASSUME NEW i \in 1 .. Len(fed) PROVE z[i].n = i
  <2>1. CASE i <= Len(o)
    <3>1. i \in 1 .. Len(o) /\ z[i] = o[i]
      BY <1>2, <1>3, <1>4, <2>1
    <3> QED
      BY <1>1, <3>1 DEF InLine
  <2>2. CASE ~ (i <= Len(o))
    <3>1. i - Len(o) \in 1 .. Len(q) /\ Len(o) + (i - Len(o)) = i /\ z[i] = q[i - Len(o)]
      BY <1>2, <1>3, <1>4, <2>2
    <3> QED
      BY <1>1, <3>1 DEF InLine
  <2> QED
    BY <2>1, <2>2
<1> QED
  BY <1>3, <1>4, <1>5 DEF Segments, z, o, q

LEMMA InLineInOrder == StreamInv => InOrder
<1> SUFFICES ASSUME StreamInv PROVE InOrder
  OBVIOUS
<1> DEFINE z == Segments
<1>1. /\ z \in Seq(SegmentSet) /\ Len(z) = Len(fed)
      /\ \A i \in 1 .. Len(fed) : z[i].n = i
  BY SegmentsAre
<1> HIDE DEF z
<1>2. DOMAIN z = 1 .. Len(fed) /\ DOMAIN fed = 1 .. Len(fed)
  BY <1>1, LenProperties DEF StreamInv
<1>3. [i \in DOMAIN z |-> z[i].n] = [i \in DOMAIN fed |-> i]
  BY <1>1, <1>2
<1> QED
  BY <1>3 DEF InOrder, z

LEMMA HomePointsHome == StreamInv => CarryPointsHome
<1> SUFFICES ASSUME StreamInv PROVE CarryPointsHome
  OBVIOUS
<1>1. s \in Stream /\ Home(s)
  BY DEF StreamInv
<1>2. DOMAIN s.parts = 1 .. Len(s.parts) /\ DOMAIN s.queue = 1 .. Len(s.queue)
  BY <1>1, StreamFields, LenProperties
<1>3. \A k \in DOMAIN s.parts :
        /\ s.parts[k].seg \in DOMAIN s.queue
        /\ s.queue[s.parts[k].seg].ev.leaves[s.parts[k].leaf].id = s.key
        /\ k > 1 => s.parts[k - 1].seg < s.parts[k].seg
  BY <1>1, <1>2 DEF Home, PartHome
<1>4. (s.carry = <<>>) <=> (s.parts = <<>>)
  BY <1>1 DEF Home
<1>5. s.carry = Join([k \in DOMAIN s.parts |-> Spelled(s, s.parts[k])])
  BY <1>1, <1>2 DEF Home
<1> QED
  BY <1>3, <1>4, <1>5 DEF CarryPointsHome, Spelled

LEMMA StreamTyped == StreamInv => TypeOK
<1> SUFFICES ASSUME StreamInv PROVE TypeOK
  OBVIOUS
<1> DEFINE z == Segments
<1>1. s \in Stream /\ fed \in Seq(Events) /\ HeldHome(s)
  BY DEF StreamInv
<1>2. /\ z \in Seq(SegmentSet)
      /\ DOMAIN z = 1 .. Len(z) /\ \A i \in 1 .. Len(z) : z[i] \in SegmentSet
  <2>1. z \in Seq(SegmentSet)
    BY SegmentsAre
  <2> HIDE DEF z
  <2> QED
    BY <2>1, LenProperties, ElementOfSeq
<1>3. ASSUME NEW seg \in SegmentSet
      PROVE  /\ seg.ev \in Events /\ Len(seg.content) <= Len(seg.ev.leaves)
             /\ \A j \in DOMAIN seg.content : Range(seg.content[j]) \subseteq Cells
  <2> DEFINE c == seg.content
  <2>1. seg \in Record /\ SegmentOf(seg) /\ c \in Seq(Seq(Cells))
    BY DEF SegmentSet, Record
  <2>2. seg.ev \in Events /\ Len(seg.content) <= Len(seg.ev.leaves)
    BY <2>1 DEF SegmentOf, Record
  <2> HIDE DEF c
  <2>3. \A j \in DOMAIN c : c[j] \in Seq(Cells)
    BY <2>1
  <2>4. \A t \in Seq(Cells) : Range(t) \subseteq Cells
    BY DEF Range
  <2> QED
    BY <2>2, <2>3, <2>4 DEF c
<1> HIDE DEF z
<1>4. \A i \in DOMAIN z :
        /\ z[i].ev \in Events /\ Len(z[i].content) <= Len(z[i].ev.leaves)
        /\ \A j \in DOMAIN z[i].content : Range(z[i].content[j]) \subseteq Cells
  BY <1>2, <1>3, Zenon
<1>5. Range(s.carry) \subseteq Cells /\ s.key \in Identities \union {NoIdentity}
  <2> DEFINE c == s.carry
  <2>1. c \in Seq(Cells) /\ s.key \in Identities \union {NoIdentity}
    BY <1>1, StreamFields
  <2> HIDE DEF c
  <2>2. Range(c) \subseteq Cells
    BY <2>1 DEF Range
  <2> QED
    BY <2>1, <2>2 DEF c
<1>6. s.held # <<>> =>
        \E i \in DOMAIN s.queue :
          RawData(s.queue[i]) /\ \A j \in DOMAIN s.queue : HasSpan(s.queue[j]) => j = i
  <2>1. DOMAIN s.queue = 1 .. Len(s.queue)
    BY <1>1, StreamFields, LenProperties
  <2> QED
    BY <1>1, <2>1 DEF HeldHome
<1>7. /\ closed => s.queue = <<>> /\ s.held = <<>> /\ s.carry = <<>>
      /\ closed \in BOOLEAN /\ overlooked \subseteq DOMAIN fed
  <2>1. DOMAIN fed = 1 .. Len(fed)
    BY <1>1, LenProperties
  <2> QED
    BY <2>1 DEF StreamInv
<1>8. CarryPointsHome
  BY HomePointsHome
<1> QED
  BY <1>4, <1>5, <1>6, <1>7, <1>8 DEF TypeOK, z

\* The state has its shape, the writer's tail belongs to the one raw segment
\* that is queued, and the carry is what its parts spell in segments still
\* queued: the indices sse_backfill.go keeps in carry.parts outlive every
\* drain, so that editHeld deletes the beginning of the placeholder it restores
\* and nothing else.
THEOREM StreamTypeCorrect == Spec => []TypeOK
BY AlwaysStreamInv, StreamTyped, PTL

\* The events leave in the order they came, each once, and none is missing after
\* Flush, whatever is held, edited, extended or given up in between: what accept
\* and drain release is always the head of the queue.
THEOREM StreamInOrder == Spec => []InOrder
BY AlwaysStreamInv, InLineInOrder, PTL

\* The writer's tail, the carry and the segments held for it never exceed
\* SSEBackfillHoldbackBytes together, for every budget the longest placeholder
\* fits: fitsBudget counts what establish and extend then hold.
THEOREM StreamBounded == Spec => []HeldBounded
<1>1. StreamInv => HeldBounded
  BY DEF StreamInv, Bounded, HeldBounded
<1> QED
  BY <1>1, AlwaysStreamInv, PTL

-----------------------------------------------------------------------------
(* The text of one channel: in an event, in a segment, and in many of them.   *)

EventText(c, ev) ==
  IF Envelope(ev)
    THEN Join([j \in DOMAIN ev.leaves |-> IF ev.leaves[j].id = c THEN ev.leaves[j].text ELSE <<>>])
    ELSE <<>>
SegText(c, seg) ==
  Join([j \in DOMAIN seg.content |->
    IF seg.leaf /\ seg.ev.leaves[j].id = c THEN seg.content[j] ELSE <<>>])
\* Leaf l of the event is the channel's, and the only one.
LeafOf(ev, c, l) ==
  /\ l \in 1 .. Len(ev.leaves) /\ ev.leaves[l].id = c
  /\ \A j \in 1 .. Len(ev.leaves) : ev.leaves[j].id = c => j = l
Elsewhere(ev, c) == \A j \in 1 .. Len(ev.leaves) : ev.leaves[j].id # c

LEMMA ChannelOf ==
  ASSUME NEW ev \in Events, NEW c, c # NoIdentity
  PROVE  Elsewhere(ev, c) \/ \E l \in 1 .. Len(ev.leaves) : LeafOf(ev, c, l)
<1>1. DOMAIN ev.leaves = 1 .. Len(ev.leaves)
  BY EventLeaves
<1>2. SUFFICES ASSUME NEW l \in 1 .. Len(ev.leaves), ev.leaves[l].id = c PROVE LeafOf(ev, c, l)
  BY DEF Elsewhere
<1>3. ASSUME NEW j \in 1 .. Len(ev.leaves), ev.leaves[j].id = c PROVE j = l
  <2>1. j \in Identified(ev) /\ l \in Identified(ev) /\ ev.leaves[j].id = ev.leaves[l].id
    BY <1>1, <1>2, <1>3 DEF Identified
  <2> QED
    BY <2>1, ChannelsApart
<1> QED
  BY <1>2, <1>3 DEF LeafOf

\* The leaf a channel continues in.
LEMMA MatchIsLeaf ==
  ASSUME NEW ev \in Events, NEW c, c # NoIdentity, NEW l, LeafOf(ev, c, l) PROVE Match(ev, c) = l
<1> DEFINE m == {i \in Identified(ev) : ev.leaves[i].id = c}
<1>1. DOMAIN ev.leaves = 1 .. Len(ev.leaves) /\ Len(ev.leaves) \in Nat
  BY EventLeaves
<1>2. m = {l}
  BY <1>1 DEF LeafOf, Identified
<1>3. Cardinality(m) = 1
  BY <1>2, FS_Singleton
<1>4. Max(m) \in m
  <2>1. m \subseteq 0 .. Len(ev.leaves) /\ m # {}
    BY <1>1, <1>2 DEF LeafOf
  <2> HIDE DEF m
  <2> QED
    BY <1>1, <2>1, MaxUpTo
<1>5. Match(ev, c) = IF Cardinality(m) = 1 THEN Max(m) ELSE 0
  BY DEF Match
<1> HIDE DEF m
<1> QED
  BY <1>2, <1>3, <1>4, <1>5

\* What an upstream writes are no secrets.
LEMMA PlainText ==
  ASSUME NEW ev \in Events, NEW l \in 1 .. Len(ev.leaves) PROVE ev.leaves[l].text \in Seq(Plain)
<1> DEFINE text == ev.leaves[l].text
<1>1. text \in Seq(Cells) /\ DOMAIN ev.leaves = 1 .. Len(ev.leaves)
  BY EventLeaves
<1>2. Range(text) \subseteq Plain
  BY <1>1 DEF Plain
<1> HIDE DEF text
<1>3. Len(text) \in Nat /\ DOMAIN text = 1 .. Len(text) /\ text \in [1 .. Len(text) -> Cells]
  BY <1>1, LenProperties
<1>4. \A i \in 1 .. Len(text) : text[i] \in Plain
  BY <1>2, <1>3 DEF Range
<1>5. text \in [1 .. Len(text) -> Plain]
  BY <1>3, <1>4
<1>6. text \in Seq(Plain)
  BY <1>3, <1>5, SequenceOf
<1> QED
  BY <1>6 DEF text

\* The text of a channel is that of its leaf.
LEMMA EventTextIs ==
  ASSUME NEW ev \in Events, NEW c
  PROVE  /\ EventText(c, ev) \in Seq(Plain)
         /\ ~ Envelope(ev) \/ Elsewhere(ev, c) => EventText(c, ev) = <<>>
         /\ \A l : Envelope(ev) /\ LeafOf(ev, c, l) => EventText(c, ev) = ev.leaves[l].text
<1> DEFINE ss == [j \in DOMAIN ev.leaves |->
                    IF ev.leaves[j].id = c THEN ev.leaves[j].text ELSE <<>>]
           n  == Len(ev.leaves)
<1>1. n \in Nat /\ DOMAIN ev.leaves = 1 .. n
  BY EventLeaves
<1>2. \A j \in 1 .. n : ss[j] = IF ev.leaves[j].id = c THEN ev.leaves[j].text ELSE <<>>
  BY <1>1
<1>3. ss \in Seq(Seq(Plain)) /\ Len(ss) = n
  <2>1. \A j \in 1 .. n : ev.leaves[j].text \in Seq(Plain) /\ <<>> \in Seq(Plain)
    BY PlainText
  <2>2. ss \in [1 .. n -> Seq(Plain)]
    BY <1>1, <2>1
  <2> HIDE DEF ss
  <2> QED
    BY <1>1, <2>2, SequenceOf
<1>4. EventText(c, ev) = IF Envelope(ev) THEN Join(ss) ELSE <<>>
  BY DEF EventText
<1> HIDE DEF ss
<1>5. EventText(c, ev) \in Seq(Plain)
  <2>1. Join(ss) \in Seq(Plain) /\ <<>> \in Seq(Plain)
    BY <1>3, JoinedTyped
  <2> QED
    BY <1>4, <2>1
<1>6. ASSUME Elsewhere(ev, c) PROVE EventText(c, ev) = <<>>
  <2>1. \A j \in 1 .. Len(ss) : ss[j] = <<>>
    BY <1>2, <1>3, <1>6 DEF Elsewhere
  <2>2. Join(ss) = <<>>
    BY <1>3, <2>1, JoinBlank
  <2> QED
    BY <1>4, <2>2
<1>7. ASSUME NEW l, Envelope(ev), LeafOf(ev, c, l) PROVE EventText(c, ev) = ev.leaves[l].text
  <2>1. l \in 1 .. Len(ss) /\ \A j \in 1 .. Len(ss) : j # l => ss[j] = <<>>
    BY <1>2, <1>3, <1>7 DEF LeafOf
  <2>2. Join(ss) = ss[l]
    BY <1>3, <2>1, JoinSole
  <2>3. ss[l] = ev.leaves[l].text
    BY <1>2, <1>7 DEF LeafOf
  <2> QED
    BY <1>4, <1>7, <2>2, <2>3
<1>8. ~ Envelope(ev) => EventText(c, ev) = <<>>
  BY <1>4
<1> QED
  BY <1>5, <1>6, <1>7, <1>8

LEMMA SegTextIs ==
  ASSUME NEW seg \in SegmentSet, NEW c
  PROVE  /\ SegText(c, seg) \in Seq(Cells)
         /\ ~ seg.leaf \/ Elsewhere(seg.ev, c) => SegText(c, seg) = <<>>
         /\ \A l : seg.leaf /\ LeafOf(seg.ev, c, l) /\ Len(seg.content) = Len(seg.ev.leaves)
              => SegText(c, seg) = seg.content[l]
<1> DEFINE ss == [j \in DOMAIN seg.content |->
                    IF seg.leaf /\ seg.ev.leaves[j].id = c THEN seg.content[j] ELSE <<>>]
           n  == Len(seg.content)
<1>0. seg.content \in Seq(Seq(Cells)) /\ Len(seg.content) <= Len(seg.ev.leaves) /\ seg.ev \in Events
  BY DEF SegmentSet, SegmentOf, Record
<1>1. /\ n \in Nat /\ DOMAIN seg.content = 1 .. n
      /\ \A j \in 1 .. n : seg.content[j] \in Seq(Cells) /\ j \in 1 .. Len(seg.ev.leaves)
  <2> DEFINE k == Len(seg.ev.leaves)
             t == seg.content
  <2>1. t \in Seq(Seq(Cells)) /\ k \in Nat /\ Len(t) <= k
    BY <1>0, EventLeaves
  <2> HIDE DEF k, t
  <2>2. Len(t) \in Nat /\ DOMAIN t = 1 .. Len(t) /\ \A j \in 1 .. Len(t) : t[j] \in Seq(Cells)
    BY <2>1, SequenceFacts
  <2>3. \A j \in 1 .. Len(t) : j \in 1 .. k
    BY <2>1, <2>2
  <2> QED
    BY <2>2, <2>3 DEF k, t
<1>2. \A j \in 1 .. n :
        ss[j] = IF seg.leaf /\ seg.ev.leaves[j].id = c THEN seg.content[j] ELSE <<>>
  BY <1>1
<1>3. ss \in Seq(Seq(Cells)) /\ Len(ss) = n
  <2>1. \A j \in 1 .. n : seg.content[j] \in Seq(Cells) /\ <<>> \in Seq(Cells)
    BY <1>1
  <2>2. ss \in [1 .. n -> Seq(Cells)]
    BY <1>1, <2>1
  <2> HIDE DEF ss
  <2> QED
    BY <1>1, <2>2, SequenceOf
<1>4. SegText(c, seg) = Join(ss)
  BY DEF SegText
<1> HIDE DEF ss
<1>5. SegText(c, seg) \in Seq(Cells)
  BY <1>3, <1>4, JoinedTyped
<1>6. ASSUME ~ seg.leaf \/ Elsewhere(seg.ev, c) PROVE SegText(c, seg) = <<>>
  <2>1. \A j \in 1 .. Len(ss) : ss[j] = <<>>
    BY <1>1, <1>2, <1>3, <1>6 DEF Elsewhere
  <2>2. Join(ss) = <<>>
    BY <1>3, <2>1, JoinBlank
  <2> QED
    BY <1>4, <2>2
<1>7. ASSUME NEW l, seg.leaf, LeafOf(seg.ev, c, l), Len(seg.content) = Len(seg.ev.leaves)
      PROVE  SegText(c, seg) = seg.content[l]
  <2>1. l \in 1 .. Len(ss) /\ \A j \in 1 .. Len(ss) : j # l => ss[j] = <<>>
    BY <1>1, <1>2, <1>3, <1>7 DEF LeafOf
  <2>2. Join(ss) = ss[l]
    BY <1>3, <2>1, JoinSole
  <2>3. ss[l] = seg.content[l]
    BY <1>2, <1>7 DEF LeafOf
  <2> QED
    BY <1>4, <2>2, <2>3
<1> QED
  BY <1>5, <1>6, <1>7

\* The events and the segments of a channel, one after the other.
EventMaker(c)   == [ev \in Events |-> EventText(c, ev)]
SegmentMaker(c) == [seg \in SegmentSet |-> SegText(c, seg)]
Fed(c)          == FedTo(c, 1, Len(fed))

LEMMA MakersTyped ==
  ASSUME NEW c
  PROVE  EventMaker(c) \in Makers(Events, Plain) /\ SegmentMaker(c) \in Makers(SegmentSet, Cells)
<1>1. \A ev \in Events : EventText(c, ev) \in Seq(Plain)
  BY EventTextIs
<1>2. \A seg \in SegmentSet : SegText(c, seg) \in Seq(Cells)
  BY SegTextIs
<1> QED
  BY <1>1, <1>2 DEF EventMaker, SegmentMaker, Makers

LEMMA TextOfIs ==
  ASSUME NEW segs \in Seq(SegmentSet), NEW c
  PROVE  TextOf(c, segs) = Join(Pieces(SegmentMaker(c), segs)) /\ TextOf(c, segs) \in Seq(Cells)
<1>1. DOMAIN segs = 1 .. Len(segs) /\ \A i \in 1 .. Len(segs) : segs[i] \in SegmentSet
  BY SequenceFacts
<1> DEFINE ss == [i \in DOMAIN segs |->
                    Join([j \in DOMAIN segs[i].content |->
                      IF segs[i].leaf /\ segs[i].ev.leaves[j].id = c THEN segs[i].content[j] ELSE <<>>])]
<1>2. TextOf(c, segs) = Join(ss)
  BY DEF TextOf
<1>3. ss = [i \in 1 .. Len(segs) |-> SegText(c, segs[i])]
  BY <1>1 DEF SegText
<1> HIDE DEF ss
<1>4. ss = Pieces(SegmentMaker(c), segs)
  <2>1. \A i \in 1 .. Len(segs) : SegmentMaker(c)[segs[i]] = SegText(c, segs[i])
    BY <1>1 DEF SegmentMaker
  <2> QED
    BY <1>3, <2>1 DEF Pieces
<1>5. Pieces(SegmentMaker(c), segs) \in Seq(Seq(Cells))
  BY MakersTyped, PiecesTyped
<1> QED
  BY <1>2, <1>4, <1>5, JoinedTyped

LEMMA TextOfConcat ==
  ASSUME NEW segs \in Seq(SegmentSet), NEW more \in Seq(SegmentSet), NEW c
  PROVE  TextOf(c, segs \o more) = TextOf(c, segs) \o TextOf(c, more)
<1>1. segs \o more \in Seq(SegmentSet)
  BY ConcatProperties
<1> DEFINE all == segs \o more
           mk  == SegmentMaker(c)
<1>2. mk \in Makers(SegmentSet, Cells)
  BY MakersTyped
<1> HIDE DEF mk
<1>3. Join(Pieces(mk, segs \o more)) = Join(Pieces(mk, segs)) \o Join(Pieces(mk, more))
  BY <1>2, PiecesConcat
<1> HIDE DEF all
<1>4. TextOf(c, all) = Join(Pieces(mk, all))
  BY <1>1, TextOfIs DEF mk, all
<1>5. TextOf(c, segs) = Join(Pieces(mk, segs)) /\ TextOf(c, more) = Join(Pieces(mk, more))
  BY TextOfIs DEF mk
<1> QED
  BY <1>3, <1>4, <1>5 DEF all

LEMMA TextOfOne ==
  ASSUME NEW seg \in SegmentSet, NEW c PROVE TextOf(c, <<seg>>) = SegText(c, seg)
<1> DEFINE segs == <<seg>>
           mk   == SegmentMaker(c)
<1>1. segs \in Seq(SegmentSet) /\ Len(segs) = 1 /\ segs[1] = seg
  OBVIOUS
<1>2. mk \in Makers(SegmentSet, Cells)
  BY MakersTyped
<1>3. mk[seg] = SegText(c, seg)
  BY DEF SegmentMaker
<1> HIDE DEF segs, mk
<1> DEFINE p == Pieces(mk, segs)
<1>4. p \in Seq(Seq(Cells)) /\ Len(p) = 1 /\ p[1] = SegText(c, seg)
  <2>1. p \in Seq(Seq(Cells)) /\ Len(p) = Len(segs) /\ \A i \in 1 .. Len(segs) : p[i] = mk[segs[i]]
    BY <1>1, <1>2, PiecesTyped
  <2> HIDE DEF p
  <2> QED
    BY <1>1, <1>3, <2>1
<1>5. TextOf(c, segs) = Join(p)
  BY <1>1, TextOfIs DEF mk
<1> HIDE DEF p
<1>6. Join(p) = p[1]
  <2>1. 1 \in 1 .. Len(p) /\ \A i \in 1 .. Len(p) : i # 1 => p[i] = <<>>
    BY <1>4
  <2> QED
    BY <1>4, <2>1, JoinSole
<1> QED
  BY <1>4, <1>5, <1>6 DEF segs

\* Contents that differ in what is not the channel's.
LEMMA TextOfSame ==
  ASSUME NEW a \in Seq(SegmentSet), NEW b \in Seq(SegmentSet), Len(a) = Len(b), NEW c,
         \A i \in 1 .. Len(a) : SegText(c, a[i]) = SegText(c, b[i])
  PROVE  TextOf(c, a) = TextOf(c, b)
<1>1. /\ \A i \in 1 .. Len(a) : a[i] \in SegmentSet /\ b[i] \in SegmentSet
      /\ \A i \in 1 .. Len(a) : SegmentMaker(c)[a[i]] = SegmentMaker(c)[b[i]]
  <2>1. \A i \in 1 .. Len(a) : a[i] \in SegmentSet /\ b[i] \in SegmentSet
    BY SequenceFacts
  <2> QED
    BY <2>1 DEF SegmentMaker
<1>2. Pieces(SegmentMaker(c), a) = Pieces(SegmentMaker(c), b)
  BY <1>1 DEF Pieces
<1> QED
  BY <1>2, TextOfIs

\* What was fed of a channel, and one event more.
Spoken(c, evs) == Join(Pieces(EventMaker(c), evs))

LEMMA SpokenMore ==
  ASSUME NEW evs \in Seq(Events), NEW ev \in Events, NEW c
  PROVE  Spoken(c, Append(evs, ev)) = Spoken(c, evs) \o EventText(c, ev)
<1> DEFINE mk == EventMaker(c)
           u  == <<ev>>
<1>1. u \in Seq(Events) /\ Len(u) = 1 /\ u[1] = ev /\ Append(evs, ev) = evs \o u
  BY AppendIsConcat
<1>2. mk \in Makers(Events, Plain)
  BY MakersTyped
<1>3. mk[ev] = EventText(c, ev)
  BY DEF EventMaker
<1> HIDE DEF mk, u
<1>4. Join(Pieces(mk, evs \o u)) = Join(Pieces(mk, evs)) \o Join(Pieces(mk, u))
  BY <1>1, <1>2, PiecesConcat
<1> DEFINE p == Pieces(mk, u)
<1>5. p \in Seq(Seq(Plain)) /\ Len(p) = 1 /\ p[1] = EventText(c, ev)
  <2>0. u \in Seq(Events)
    BY <1>1
  <2>1. /\ Pieces(mk, u) \in Seq(Seq(Plain)) /\ Len(Pieces(mk, u)) = Len(u)
        /\ \A i \in 1 .. Len(u) : Pieces(mk, u)[i] = mk[u[i]]
    BY <1>2, <2>0, PiecesTyped
  <2>2. p \in Seq(Seq(Plain)) /\ Len(p) = Len(u) /\ \A i \in 1 .. Len(u) : p[i] = mk[u[i]]
    BY <2>1
  <2> HIDE DEF p
  <2> QED
    BY <1>1, <1>3, <2>2
<1> HIDE DEF p
<1>6. Join(p) = p[1]
  <2>1. 1 \in 1 .. Len(p) /\ \A i \in 1 .. Len(p) : i # 1 => p[i] = <<>>
    BY <1>5
  <2> QED
    BY <1>5, <2>1, JoinSole
<1> QED
  BY <1>1, <1>4, <1>5, <1>6 DEF Spoken, p, mk

LEMMA SpokenTyped ==
  ASSUME NEW evs \in Seq(Events), NEW c PROVE Spoken(c, evs) \in Seq(Plain)
BY MakersTyped, PiecesTyped, JoinedTyped DEF Spoken

LEMMA FedIs ==
  ASSUME fed \in Seq(Events), NEW c PROVE Fed(c) = Spoken(c, fed)
<1>1. Len(fed) \in Nat /\ \A i \in 1 .. Len(fed) : fed[i] \in Events
  BY SequenceFacts
<1> DEFINE ss == [i \in 1 .. Len(fed) - 1 + 1 |->
                    LET ev == fed[1 + i - 1]
                    IN  IF Envelope(ev)
                          THEN Join([j \in DOMAIN ev.leaves |->
                                 IF ev.leaves[j].id = c THEN ev.leaves[j].text ELSE <<>>])
                          ELSE <<>>]
<1>2. Fed(c) = Join(ss)
  BY DEF Fed, FedTo
<1>3. ss = [i \in 1 .. Len(fed) - 1 + 1 |-> EventText(c, fed[1 + i - 1])]
  BY DEF EventText
<1> HIDE DEF ss
<1>4. Len(fed) - 1 + 1 = Len(fed) /\ \A i \in 1 .. Len(fed) : 1 + i - 1 = i
  BY <1>1
<1>5. ss = [i \in 1 .. Len(fed) |-> EventMaker(c)[fed[i]]]
  <2>1. \A i \in 1 .. Len(fed) : EventMaker(c)[fed[i]] = EventText(c, fed[1 + i - 1])
    BY <1>1, <1>4 DEF EventMaker
  <2> QED
    BY <1>3, <1>4, <2>1
<1> QED
  BY <1>2, <1>5 DEF Spoken, Pieces

-----------------------------------------------------------------------------
(* What an event's segment says, held or cut. *)

\* The edits extra restore, in the first k cells of leaf m, the placeholder h.
Lead(m, l, h)  == IF l = m THEN h ELSE <<>>
Taken(m, l, k) == IF l = m THEN k ELSE 0
Replacing(t, x, h, k) ==
  \/ x = <<>> /\ h = <<>> /\ k = 0
  \/ /\ k \in 1 .. Len(t)
     /\ \E r \in Seq(Cells) : x = <<[from |-> 1, to |-> k + 1, rep |-> r]>> /\ Unrestored(r) = h
Restores(ev, extra, m, h, k) ==
  /\ ExtraOf(ev, extra) /\ h \in Seq(Cells) /\ k \in Nat
  /\ \A l \in 1 .. Len(ev.leaves) :
       Replacing(ev.leaves[l].text, extra[l], Lead(m, l, h), Taken(m, l, k))
\* Where something was restored, the leaf begins no placeholder of its own.
Bare(ev, m, k, l) == Taken(m, l, k) # 0 => TokenLen(ev.leaves[l].text) = 0

LEMMA NoExtraRestores ==
  ASSUME NEW ev \in Events PROVE Restores(ev, NoExtra(ev), 0, <<>>, 0)
<1>1. DOMAIN ev.leaves = 1 .. Len(ev.leaves)
  BY EventLeaves
<1>2. \A l \in 1 .. Len(ev.leaves) : NoExtra(ev)[l] = <<>>
  BY <1>1 DEF NoExtra
<1>3. ASSUME NEW l \in 1 .. Len(ev.leaves)
      PROVE  Replacing(ev.leaves[l].text, NoExtra(ev)[l], Lead(0, l, <<>>), Taken(0, l, 0))
  <2>1. Lead(0, l, <<>>) = <<>> /\ Taken(0, l, 0) = 0
    BY DEF Lead, Taken
  <2> QED
    BY <1>2, <2>1 DEF Replacing
<1>4. <<>> \in Seq(Cells)
  OBVIOUS
<1> QED
  BY <1>3, <1>4, NoExtraOf DEF Restores

LEMMA FreshRestoring ==
  ASSUME NEW t, NEW x, NEW h, NEW k, Replacing(t, x, h, k), k # 0 => TokenLen(t) = 0, Len(t) \in Nat
  PROVE  Restoring(t, x, h, k)
<1>1. k \in 1 .. Len(t) => k # 0
  OBVIOUS
<1>2. CASE x = <<>> /\ h = <<>> /\ k = 0
  BY <1>2 DEF Restoring
<1>3. CASE ~ (x = <<>> /\ h = <<>> /\ k = 0)
  BY <1>1, <1>3, Zenon DEF Restoring, Replacing
<1> QED
  BY <1>2, <1>3

\* A leaf's edits, one by one.
LEMMA ContentIs ==
  ASSUME NEW ev \in Events, NEW extra, NEW l \in 1 .. Len(ev.leaves)
  PROVE  ContentWith(ev, extra)[l]
           = Apply(ev.leaves[l].text, WithinLeafEdits(ev.leaves[l].text) \o extra[l])
<1>1. DOMAIN ev.leaves = 1 .. Len(ev.leaves)
  BY EventLeaves
<1> QED
  BY <1>1 DEF ContentWith

ContentSaid(ev, extra, m, h, k, l) ==
  /\ Taken(m, l, k) \in 0 .. Len(ev.leaves[l].text) /\ Lead(m, l, h) \in Seq(Cells)
  /\ Bare(ev, m, k, l) =>
       Unrestored(ContentWith(ev, extra)[l])
         = Lead(m, l, h) \o From(ev.leaves[l].text, Taken(m, l, k) + 1)

LEMMA ContentSays ==
  ASSUME NEW ev \in Events, NEW extra, NEW m, NEW h, NEW k, Restores(ev, extra, m, h, k),
         NEW l \in 1 .. Len(ev.leaves)
  PROVE  ContentSaid(ev, extra, m, h, k, l)
<1> DEFINE t  == ev.leaves[l].text
           x  == extra[l]
           hh == Lead(m, l, h)
           kk == Taken(m, l, k)
           f  == Len(t) + 1
<1>1. t \in Seq(Plain) /\ Len(t) \in Nat /\ Replacing(t, x, hh, kk)
  BY PlainText, LenProperties DEF Restores
<1>2. hh \in Seq(Cells) /\ kk \in Nat
  BY DEF Restores, Lead, Taken
<1>3. Unrestored(ContentWith(ev, extra)[l]) = Unrestored(Apply(t, WithinLeafEdits(t) \o x))
  BY ContentIs
<1>4. Bare(ev, m, k, l) => Restoring(t, x, hh, kk)
  BY <1>1, FreshRestoring DEF Bare
<1> HIDE DEF hh, kk, t, x
<1>5. kk \in 0 .. Len(t)
  BY <1>1, <1>2 DEF Replacing
<1>6. f \in kk + 1 .. Len(t) + 1 /\ Cutting(t, <<>>, f) /\ f - 1 = Len(t) /\ f \in 1 .. Len(t) + 1
  BY <1>1, <1>5 DEF Cutting
<1> HIDE DEF f
<1>7. ASSUME Bare(ev, m, k, l)
      PROVE  Unrestored(ContentWith(ev, extra)[l]) = hh \o From(t, kk + 1)
  <2>1. Restoring(t, x, hh, kk)
    BY <1>4, <1>7
  <2>2. x \o <<>> = x
    <3>1. x \in Seq(Edit(Cells, Len(t)))
      BY <1>1, <1>6, <2>1, LeafEditsTyped
    <3> QED
      BY <3>1, ConcatEmptySeq
  <2>3. Unrestored(Apply(t, WithinLeafEdits(t) \o (x \o <<>>))) = hh \o SubSeq(t, kk + 1, f - 1)
    <3>1. LeafSaid(t, x, hh, kk, f, <<>>)
      BY <1>1, <1>2, <1>6, <2>1, LeafSays
    <3> QED
      BY <3>1 DEF LeafSaid
  <2>4. Unrestored(ContentWith(ev, extra)[l]) = hh \o SubSeq(t, kk + 1, Len(t))
    BY <1>3, <1>6, <2>2, <2>3
  <2> QED
    BY <2>4 DEF From
<1> QED
  BY <1>2, <1>5, <1>7 DEF ContentSaid, t, hh, kk

\* The segment of an event that is rendered from extra.
Rendered(seg, ev, extra) ==
  /\ seg \in SegmentSet /\ seg.leaf /\ seg.ev = ev /\ seg.extra = extra
  /\ seg.content = ContentWith(ev, extra)

LEMMA RenderedSegment ==
  ASSUME fed \in Seq(Events), NEW ev \in Events, Envelope(ev), NEW extra, ExtraOf(ev, extra)
  PROVE  Rendered(Segment(ev, TRUE, ContentWith(ev, extra), extra), ev, extra)
<1> DEFINE content == ContentWith(ev, extra)
           seg     == Segment(ev, TRUE, content, extra)
<1>1. TextsOf(ev, content)
  BY ContentOf
<1> HIDE DEF content
<1>2. NextSegment(seg, ev, content)
  BY <1>1, LeafSegment
<1>3. seg.leaf = TRUE /\ seg.extra = extra
  BY DEF Segment
<1> HIDE DEF seg
<1> QED
  BY <1>2, <1>3 DEF NextSegment, Rendered, seg, content

\* A channel's text in the segment of an event.
Says(text, ev, c, m, h, k) ==
  /\ Elsewhere(ev, c) => text = <<>>
  /\ \A l : LeafOf(ev, c, l) /\ Bare(ev, m, k, l) =>
       Unrestored(text) = Lead(m, l, h) \o From(ev.leaves[l].text, Taken(m, l, k) + 1)

LEMMA SegmentSays ==
  ASSUME NEW ev \in Events, NEW extra, NEW m, NEW h, NEW k, Restores(ev, extra, m, h, k),
         NEW seg \in SegmentSet, seg.leaf, seg.ev = ev, seg.content = ContentWith(ev, extra), NEW c
  PROVE  Says(SegText(c, seg), ev, c, m, h, k)
<1>1. Elsewhere(ev, c) => SegText(c, seg) = <<>>
  BY SegTextIs
<1>2. Len(seg.content) = Len(seg.ev.leaves)
  BY ContentOf DEF TextsOf, Restores
<1>3. ASSUME NEW l, LeafOf(ev, c, l), Bare(ev, m, k, l)
      PROVE  Unrestored(SegText(c, seg)) = Lead(m, l, h) \o From(ev.leaves[l].text, Taken(m, l, k) + 1)
  <2>1. SegText(c, seg) = seg.content[l]
    BY <1>2, <1>3, SegTextIs
  <2>2. l \in 1 .. Len(ev.leaves)
    BY <1>3 DEF LeafOf
  <2>3. ContentSaid(ev, extra, m, h, k, l)
    BY <2>2, ContentSays
  <2> QED
    BY <1>3, <2>1, <2>3 DEF ContentSaid
<1> QED
  BY <1>1, <1>3 DEF Says

\* With nothing restored across events it says what the event does.
LEMMA SaysEvent ==
  ASSUME NEW ev \in Events, Envelope(ev), NEW c, c # NoIdentity, NEW text \in Seq(Cells),
         Says(text, ev, c, 0, <<>>, 0)
  PROVE  Unrestored(text) = EventText(c, ev)
<1>1. CASE Elsewhere(ev, c)
  BY <1>1, EventTextIs, UnrestoredNone DEF Says
<1>2. CASE ~ Elsewhere(ev, c)
  <2>1. PICK l \in 1 .. Len(ev.leaves) : LeafOf(ev, c, l)
    BY <1>2, ChannelOf
  <2> DEFINE t == ev.leaves[l].text
  <2>3. Lead(0, l, <<>>) = <<>> /\ Taken(0, l, 0) = 0 /\ Taken(0, l, 0) + 1 = 1
    BY DEF Lead, Taken
  <2>2. Unrestored(text) = Lead(0, l, <<>>) \o From(t, Taken(0, l, 0) + 1)
    BY <2>1, <2>3 DEF Says, Bare
  <2>4. EventText(c, ev) = t /\ t \in Seq(Cells)
    BY <2>1, EventTextIs, EventLeaves
  <2> HIDE DEF t
  <2>5. From(t, 1) = t /\ <<>> \o t = t
    BY <2>4, SubSeqFull, ConcatEmptySeq DEF From
  <2> QED
    BY <2>2, <2>3, <2>4, <2>5
<1> QED
  BY <1>1, <1>2

\* A fragment p of the event, after what was restored in it, and a place in a
\* text that no placeholder crosses.
FragmentOf(ev, extra, m, h, k, seg, p) ==
  /\ Restores(ev, extra, m, h, k) /\ Rendered(seg, ev, extra)
  /\ p \in Part /\ p.leaf \in 1 .. Len(ev.leaves) /\ p.to = Len(ev.leaves[p.leaf].text) + 1
  /\ p.from \in Taken(m, p.leaf, k) + 1 .. p.to
Uncrossed(t, f) ==
  /\ f <= Len(t) => TokenLen(From(t, f)) = 0
  /\ \A i \in 1 .. f - 1 : TokenLen(From(t, i)) <= f - i
\* What the segment says without the fragment p of its leaf.
PartSays(ev, m, h, k, seg, p) ==
  LET r == EditHeld(seg, p)
      t == ev.leaves[p.leaf].text
      f == p.from
  IN  /\ r \in SegmentSet
      /\ \A c : LeafOf(ev, c, p.leaf) /\ Bare(ev, m, k, p.leaf) /\ Uncrossed(t, f)
           => Unrestored(SegText(c, r))
                = Lead(m, p.leaf, h) \o SubSeq(t, Taken(m, p.leaf, k) + 1, f - 1)
      /\ \A c : c # NoIdentity /\ ~ LeafOf(ev, c, p.leaf) => SegText(c, r) = SegText(c, seg)

LEMMA PartCut ==
  ASSUME NEW ev \in Events, NEW extra, NEW m, NEW h, NEW k, NEW seg, NEW p,
         FragmentOf(ev, extra, m, h, k, seg, p)
  PROVE  PartSays(ev, m, h, k, seg, p)
<1> DEFINE r    == EditHeld(seg, p)
           l    == p.leaf
           t    == ev.leaves[l].text
           f    == p.from
           e    == [from |-> f, to |-> p.to, rep |-> <<>>]
           more == [extra EXCEPT ![l] = Append(@, e)]
           x    == extra[l]
           hh   == Lead(m, l, h)
           kk   == Taken(m, l, k)
<1>0. /\ Restores(ev, extra, m, h, k) /\ Rendered(seg, ev, extra)
      /\ p \in Part /\ l \in 1 .. Len(ev.leaves) /\ p.to = Len(t) + 1 /\ f \in kk + 1 .. p.to
  BY DEF FragmentOf
<1>1. seg \in SegmentSet /\ seg.leaf /\ seg.ev = ev /\ seg.extra = extra
      /\ seg.content = ContentWith(ev, extra) /\ seg \in Record
  BY <1>0 DEF Rendered, SegmentSet
<1>2. r \in SegmentSet /\ r.ev = ev /\ r.leaf
  BY <1>0, <1>1, EditHeldKeeps
<1>3. r.content = ContentWith(ev, more)
  BY <1>1 DEF EditHeld, Record
<1>4. extra \in Seq(Seq(Edits)) /\ Len(extra) = Len(ev.leaves) /\ DOMAIN extra = 1 .. Len(ev.leaves)
  BY <1>0, LenProperties DEF Restores, ExtraOf
<1>5. more[l] = Append(x, e) /\ \A j \in 1 .. Len(ev.leaves) : j # l => more[j] = extra[j]
  BY <1>0, <1>4
<1>6. Len(r.content) = Len(ev.leaves)
  <2>1. /\ Len(ev.leaves) \in Nat /\ DOMAIN ev.leaves = 1 .. Len(ev.leaves)
    BY EventLeaves
  <2>2. r.content \in Seq(Seq(Cells))
    BY <1>2 DEF SegmentSet, Record
  <2>3. DOMAIN r.content = 1 .. Len(ev.leaves)
    BY <1>3, <2>1 DEF ContentWith
  <2>4. DOMAIN r.content = 1 .. Len(r.content) /\ Len(r.content) \in Nat
    BY <2>2, LenProperties
  <2> QED
    BY <2>1, <2>3, <2>4
<1>7. Len(seg.content) = Len(ev.leaves)
  BY <1>0, <1>1, ContentOf DEF TextsOf, Restores
<1>8. t \in Seq(Plain) /\ Len(t) \in Nat /\ Replacing(t, x, hh, kk) /\ hh \in Seq(Cells)
      /\ kk \in Nat /\ f \in kk + 1 .. Len(t) + 1 /\ f \in 1 .. Len(t) + 1 /\ p.to = Len(t) + 1
  <2>1. t \in Seq(Plain) /\ Len(t) \in Nat /\ Replacing(t, x, hh, kk)
    BY <1>0, PlainText, LenProperties DEF Restores
  <2>2. hh \in Seq(Cells) /\ kk \in Nat
    BY <1>0 DEF Restores, Lead, Taken
  <2>3. f \in kk + 1 .. p.to /\ p.to = Len(t) + 1
    BY <1>0
  <2> HIDE DEF t, kk, f, hh
  <2>4. f \in kk + 1 .. Len(t) + 1 /\ f \in 1 .. Len(t) + 1
    BY <2>1, <2>2, <2>3
  <2> QED
    BY <2>1, <2>2, <2>3, <2>4
<1>9. ASSUME NEW c, LeafOf(ev, c, l), Bare(ev, m, k, l), Uncrossed(t, f)
      PROVE  Unrestored(SegText(c, r)) = hh \o SubSeq(t, kk + 1, f - 1)
  <2> DEFINE cut == <<e>>
  <2>1. SegText(c, r) = r.content[l]
    BY <1>2, <1>6, <1>9, SegTextIs
  <2>2. r.content[l] = Apply(t, WithinLeafEdits(t) \o more[l])
    <3> HIDE DEF more, r
    <3> QED
      BY <1>0, <1>3, ContentIs
  <2>3. Cutting(t, cut, f)
    BY <1>0, <1>8, <1>9 DEF Cutting, Uncrossed
  <2>7. Restoring(t, x, hh, kk)
    BY <1>8, <1>9, FreshRestoring DEF Bare
  <2> HIDE DEF t, kk, f, hh, x, more, e, r
  <2>4. x \in Seq(Edit(Cells, Len(t))) /\ cut \in Seq(Edit(Cells, Len(t)))
    BY <1>8, <2>3, <2>7, LeafEditsTyped
  <2>5. more[l] = x \o cut
    BY <1>5, <2>4, AppendIsConcat
  <2> HIDE DEF cut
  <2>6. Unrestored(Apply(t, WithinLeafEdits(t) \o (x \o cut))) = hh \o SubSeq(t, kk + 1, f - 1)
    <3>1. LeafSaid(t, x, hh, kk, f, cut)
      BY <1>8, <2>3, <2>7, LeafSays
    <3> QED
      BY <3>1 DEF LeafSaid
  <2> QED
    BY <2>1, <2>2, <2>5, <2>6
<1>10. ASSUME NEW c, c # NoIdentity, ~ LeafOf(ev, c, l) PROVE SegText(c, r) = SegText(c, seg)
  <2>1. CASE Elsewhere(ev, c)
    BY <1>1, <1>2, <2>1, SegTextIs
  <2>2. CASE ~ Elsewhere(ev, c)
    <3>1. PICK j \in 1 .. Len(ev.leaves) : LeafOf(ev, c, j)
      BY <1>10, <2>2, ChannelOf
    <3>2. j # l
      BY <1>10, <3>1
    <3>3. SegText(c, r) = r.content[j] /\ SegText(c, seg) = seg.content[j]
      BY <1>1, <1>2, <1>6, <1>7, <3>1, SegTextIs
    <3>4. r.content[j] = Apply(ev.leaves[j].text, WithinLeafEdits(ev.leaves[j].text) \o more[j])
      <4> HIDE DEF more, r
      <4> QED
        BY <1>3, ContentIs
    <3>5. seg.content[j] = Apply(ev.leaves[j].text, WithinLeafEdits(ev.leaves[j].text) \o extra[j])
      BY <1>1, ContentIs
    <3>6. more[j] = extra[j]
      BY <1>5, <3>2
    <3> QED
      BY <3>3, <3>4, <3>5, <3>6
  <2> QED
    BY <2>1, <2>2
<1> HIDE DEF r, hh, kk
<1> QED
  BY <1>2, <1>9, <1>10 DEF PartSays, r, hh, kk

-----------------------------------------------------------------------------
(* What the functions on the record do to what its segments say.              *)

Segs(x) == x.out \o x.queue

LEMMA SegsTyped ==
  ASSUME NEW x \in Stream
  PROVE  Segs(x) \in Seq(SegmentSet) /\ Len(Segs(x)) = Len(x.out) + Len(x.queue)
<1> DEFINE o == x.out
           q == x.queue
<1>1. o \in Seq(SegmentSet) /\ q \in Seq(SegmentSet)
  BY StreamFields
<1> HIDE DEF o, q
<1>2. o \o q \in Seq(SegmentSet) /\ Len(o \o q) = Len(o) + Len(q)
  BY <1>1, ConcatProperties
<1> QED
  BY <1>2 DEF Segs, o, q

LEMMA SegmentsRegroup ==
  \A x, y, z \in Seq(SegmentSet) : (x \o y) \o z = x \o (y \o z)
BY ConcatAssociative

\* The head of a queue moves to what left, and nothing else happens.
LEMMA FrontMoved ==
  ASSUME NEW out \in Seq(SegmentSet), NEW queue \in Seq(SegmentSet), NEW n \in 0 .. Len(queue)
  PROVE  (out \o SubSeq(queue, 1, n)) \o From(queue, n + 1) = out \o queue
<1>1. Len(queue) \in Nat /\ n \in Int /\ n + 1 \in 1 .. Len(queue) + 1
  BY LenProperties
<1>2. SubSeq(queue, 1, n) \in Seq(SegmentSet) /\ From(queue, n + 1) \in Seq(SegmentSet)
  <2>1. \A i \in 1 .. n : queue[i] \in SegmentSet
    BY <1>1, ElementOfSeq
  <2>2. SubSeq(queue, 1, n) \in Seq(SegmentSet)
    BY <1>1, <2>1, SubSeqProperties
  <2> QED
    BY <1>1, <2>2, FromIsTail
<1>3. SubSeq(queue, 1, n) \o From(queue, n + 1) = queue
  <2>1. SubSeq(queue, 1, n) \o SubSeq(queue, n + 1, Len(queue)) = SubSeq(queue, 1, Len(queue))
    <3> DEFINE l == Len(queue)
    <3>1. 1 \in 1 .. l + 1 /\ n \in 1 - 1 .. l /\ l \in n .. l
      BY <1>1
    <3> QED
      BY <3>1, ConcatAdjacentSubSeq
  <2>2. SubSeq(queue, 1, Len(queue)) = queue
    BY SubSeqFull
  <2> QED
    BY <2>1, <2>2 DEF From
<1> DEFINE a == SubSeq(queue, 1, n)
           b == From(queue, n + 1)
<1>4. a \in Seq(SegmentSet) /\ b \in Seq(SegmentSet) /\ a \o b = queue
  BY <1>2, <1>3
<1> HIDE DEF a, b
<1>5. (out \o a) \o b = out \o (a \o b)
  BY <1>4, SegmentsRegroup
<1> QED
  BY <1>4, <1>5 DEF a, b

LEMMA ReleaseSays ==
  ASSUME NEW x \in Stream, NEW n \in 0 .. Len(x.queue) PROVE Segs(ReleaseN(x, n)) = Segs(x)
<1> DEFINE o == x.out
           q == x.queue
           y == ReleaseN(x, n)
<1>1. o \in Seq(SegmentSet) /\ q \in Seq(SegmentSet) /\ n \in 0 .. Len(q)
  BY StreamFields
<1>2. y.out = o \o SubSeq(q, 1, n) /\ y.queue = From(q, n + 1)
  BY DEF ReleaseN, Stream
<1> HIDE DEF o, q, y
<1>3. (o \o SubSeq(q, 1, n)) \o From(q, n + 1) = o \o q
  BY <1>1, FrontMoved
<1> QED
  BY <1>2, <1>3 DEF Segs, o, q, y

LEMMA ReleaseAllSays ==
  ASSUME NEW x \in Stream PROVE Segs(ReleaseAll(x)) = Segs(x)
<1>1. Len(x.queue) \in 0 .. Len(x.queue)
  BY StreamFields
<1> QED
  BY <1>1, ReleaseSays DEF ReleaseAll

LEMMA FlushHeldSays ==
  ASSUME NEW x \in Stream PROVE Segs(FlushHeld(x)) = Segs(x)
<1> DEFINE r == ReleaseAll(x)
<1>1. r \in Stream /\ Segs(r) = Segs(x)
  BY ReleaseAllKeeps, ReleaseAllSays
<1> HIDE DEF r
<1>2. ClearCarry(r).queue = r.queue /\ ClearCarry(r).out = r.out
  BY <1>1, ClearCarryKeeps
<1> QED
  BY <1>1, <1>2 DEF FlushHeld, Segs, r

LEMMA EmitSays ==
  ASSUME NEW x \in Stream, NEW seg \in SegmentSet
  PROVE  Segs(EmitSegment(x, seg)) = Segs(x) \o <<seg>>
<1> DEFINE o == x.out
           q == x.queue
           y == EmitSegment(x, seg)
           g == <<seg>>
<1>1. o \in Seq(SegmentSet) /\ q \in Seq(SegmentSet) /\ g \in Seq(SegmentSet)
  BY StreamFields
<1>2. y.out = o /\ y.queue = Append(q, seg)
  BY DEF EmitSegment, Stream
<1> HIDE DEF o, q, y
<1>3. Append(q, seg) = q \o g
  BY <1>1, AppendIsConcat
<1> HIDE DEF g
<1>4. o \o (q \o g) = (o \o q) \o g
  BY <1>1, SegmentsRegroup
<1> QED
  BY <1>2, <1>3, <1>4 DEF Segs, o, q, y, g

\* What drain releases is a head of the queue, and nothing under a carry.
LEMMA DrainSays ==
  ASSUME NEW x \in Stream PROVE Segs(Drain(x)) = Segs(x)
<1> DEFINE q     == x.queue
           stops == {i \in DOMAIN q :
             \/ q[i].leaf /\ \E p \in Range(x.parts) : p.seg = i
             \/ RawData(q[i]) /\ \A j \in DOMAIN q : j > i => ~ RawData(q[j])}
           n     == IF stops = {} THEN Len(q) ELSE Min(stops) - 1
<1>1. Drain(x) = ReleaseN(x, n)
  BY DEF Drain
<1>2. q \in Seq(SegmentSet) /\ Len(q) \in Nat /\ DOMAIN q = 1 .. Len(q)
  BY StreamFields, LenProperties
<1>3. stops \subseteq 1 .. Len(q) /\ stops \subseteq Nat
  BY <1>2
<1>4. n \in 0 .. Len(q)
  <2> HIDE DEF stops, q
  <2>1. stops # {} => Min(stops) \in 1 .. Len(q)
    BY <1>3, MinIsLeast
  <2> QED
    BY <1>2, <2>1
<1> HIDE DEF n
<1> QED
  BY <1>1, <1>4, ReleaseSays

LEMMA CarryIsFirst ==
  ASSUME NEW x \in Stream, Home(x), x.carry # <<>>
  PROVE  /\ x.parts # <<>> /\ 1 \in 1 .. Len(x.parts) /\ PartHome(x, x.parts[1]) /\ x.parts[1].seg = 1
         /\ x.parts[1] \in Range(x.parts)
         /\ 1 \in 1 .. Len(x.queue) /\ x.queue[1].leaf /\ HasSpan(x.queue[1])
         /\ x.key # NoIdentity
<1> DEFINE p == x.parts
<1>1. p \in Seq(Part) /\ p # <<>>
  BY StreamFields DEF Home
<1>2. 1 \in 1 .. Len(p) /\ p[1] \in Range(p)
  <2> HIDE DEF p
  <2>1. 1 \in 1 .. Len(p) /\ 1 \in DOMAIN p
    BY <1>1, EmptySeq, LenProperties
  <2> QED
    BY <2>1 DEF Range
<1>3. PartHome(x, x.parts[1]) /\ x.parts[1].seg = 1 /\ x.key # NoIdentity
  BY <1>1, <1>2 DEF Home
<1>4. 1 \in 1 .. Len(x.queue) /\ x.queue[1].leaf
  BY <1>3 DEF PartHome
<1>5. x.queue[1] \in SegmentSet
  BY <1>4, StreamFields
<1>6. HasSpan(x.queue[1])
  BY <1>4, <1>5 DEF SegmentSet, SegmentOf, Envelope, HasSpan
<1> QED
  BY <1>1, <1>2, <1>3, <1>4, <1>6

LEMMA DrainStays ==
  ASSUME NEW x \in Stream, Home(x), x.carry # <<>> PROVE Drain(x) = x
<1> DEFINE q     == x.queue
           stops == {i \in DOMAIN q :
             \/ q[i].leaf /\ \E p \in Range(x.parts) : p.seg = i
             \/ RawData(q[i]) /\ \A j \in DOMAIN q : j > i => ~ RawData(q[j])}
           n     == IF stops = {} THEN Len(q) ELSE Min(stops) - 1
<1>1. Drain(x) = ReleaseN(x, n)
  BY DEF Drain
<1>2. q \in Seq(SegmentSet) /\ Len(q) \in Nat /\ DOMAIN q = 1 .. Len(q)
  BY StreamFields, LenProperties
<1>3. stops \subseteq 1 .. Len(q) /\ stops \subseteq Nat
  BY <1>2
<1>4. 1 \in stops
  BY <1>2, CarryIsFirst
<1>5. n = 0
  <2> HIDE DEF stops, q
  <2>1. Min(stops) \in stops /\ Min(stops) <= 1 /\ Min(stops) \in 1 .. Len(q) /\ stops # {}
    BY <1>3, <1>4, MinIsLeast
  <2>2. Min(stops) = 1
    BY <1>2, <2>1
  <2> QED
    BY <2>1, <2>2
<1> HIDE DEF n
<1> QED
  BY <1>1, <1>5, ReleaseNone

\* The writer holds nothing while a carry is held.
LEMMA NoTailUnderCarry ==
  ASSUME NEW x \in Stream, Home(x), HeldHome(x), x.carry # <<>>
  PROVE  x.held = <<>> /\ HandoffWriter(x) = x
<1>1. 1 \in 1 .. Len(x.queue) /\ x.queue[1].leaf /\ HasSpan(x.queue[1])
  BY CarryIsFirst
<1>2. x.held = <<>>
  BY <1>1 DEF HeldHome, RawData
<1> QED
  BY <1>2 DEF HandoffWriter

\* What the writer hands off is no channel's.
LEMMA TextAlike ==
  ASSUME NEW x \in Stream, NEW y \in Stream, y.out = x.out, Len(y.queue) = Len(x.queue),
         \A i \in 1 .. Len(x.queue) :
           y.queue[i] = x.queue[i] \/ (~ x.queue[i].leaf /\ ~ y.queue[i].leaf),
         NEW c
  PROVE  TextOf(c, Segs(y)) = TextOf(c, Segs(x))
<1> DEFINE o == x.out
           q == x.queue
           r == y.queue
<1>1. /\ o \in Seq(SegmentSet) /\ q \in Seq(SegmentSet) /\ r \in Seq(SegmentSet)
      /\ Len(q) = Len(r) /\ \A i \in 1 .. Len(q) : q[i] \in SegmentSet /\ r[i] \in SegmentSet
  BY StreamFields
<1>2. \A i \in 1 .. Len(q) : r[i] = q[i] \/ (~ q[i].leaf /\ ~ r[i].leaf)
  OBVIOUS
<1>3. Segs(x) = o \o q /\ Segs(y) = o \o r
  BY DEF Segs
<1> HIDE DEF o, q, r
<1>4. \A i \in 1 .. Len(q) : SegText(c, q[i]) = SegText(c, r[i])
  <2>1. ASSUME NEW i \in 1 .. Len(q) PROVE SegText(c, q[i]) = SegText(c, r[i])
    <3>1. CASE r[i] = q[i]
      BY <3>1
    <3>2. CASE r[i] # q[i]
      <4>1. SegText(c, q[i]) = <<>> /\ SegText(c, r[i]) = <<>>
        BY <1>1, <1>2, <3>2, SegTextIs
      <4> QED
        BY <4>1
    <3> QED
      BY <3>1, <3>2
  <2> QED
    BY <2>1
<1>5. TextOf(c, q) = TextOf(c, r)
  BY <1>1, <1>4, TextOfSame
<1>6. TextOf(c, o \o q) = TextOf(c, o) \o TextOf(c, q)
  BY <1>1, TextOfConcat
<1>7. TextOf(c, o \o r) = TextOf(c, o) \o TextOf(c, r)
  BY <1>1, TextOfConcat
<1> QED
  BY <1>3, <1>5, <1>6, <1>7

LEMMA HandoffSays ==
  ASSUME NEW x \in Stream, HeldHome(x), NEW c
  PROVE  TextOf(c, Segs(HandoffWriter(x))) = TextOf(c, Segs(x))
<1> DEFINE q   == x.queue
           raw == {i \in DOMAIN q : RawData(q[i])}
           m   == Max(raw)
           y   == HandoffWriter(x)
<1>1. q \in Seq(SegmentSet) /\ Len(q) \in Nat /\ DOMAIN q = 1 .. Len(q)
  BY StreamFields, LenProperties
<1>2. y \in Stream /\ Alike(x, y)
  BY HandoffKeeps
<1>3. CASE x.held = <<>> \/ raw = {}
  BY <1>3 DEF HandoffWriter
<1>4. CASE ~ (x.held = <<>> \/ raw = {})
  <2>1. m \in 1 .. Len(q) /\ RawData(q[m])
    <3>1. raw \subseteq 0 .. Len(q) /\ raw \subseteq 1 .. Len(q)
      BY <1>1
    <3>2. Max(raw) \in raw
      <4> HIDE DEF raw, q
      <4> QED
        BY <1>1, <1>4, <3>1, MaxUpTo
    <3> QED
      BY <3>1, <3>2
  <2>2. y = [x EXCEPT !.queue[m].content = <<@[1] \o x.held>>, !.held = <<>>]
    BY <1>4 DEF HandoffWriter
  <2> HIDE DEF m, raw
  <2>3. \A i \in 1 .. Len(q) : i # m => y.queue[i] = q[i]
    BY <1>1, <2>1, <2>2 DEF Stream
  <2> HIDE DEF y
  <2>4. y.out = x.out /\ Len(y.queue) = Len(x.queue) /\ y.queue[m].leaf = q[m].leaf
    BY <1>2, <2>1 DEF Alike
  <2>5. \A i \in 1 .. Len(x.queue) : y.queue[i] = x.queue[i] \/ (~ x.queue[i].leaf /\ ~ y.queue[i].leaf)
    BY <2>1, <2>3, <2>4 DEF RawData
  <2> QED
    BY <1>2, <2>4, <2>5, TextAlike DEF y
<1> QED
  BY <1>3, <1>4

LEMMA FlushSays ==
  ASSUME StreamInv, Flush
  PROVE  s'.carry = <<>> /\ \A c : TextOf(c, Segs(s')) = TextOf(c, Segs(s))
<1> DEFINE x == Flushed(s)
           r == ReleaseAll(x)
<1>1. s \in Stream /\ HeldHome(s)
  BY DEF StreamInv
<1>2. s' = ClearCarry(r)
  BY DEF Flush, Flushed
<1>3. /\ x \in Stream /\ x.out = s.out /\ Len(x.queue) = Len(s.queue)
      /\ \A i \in 1 .. Len(s.queue) :
           x.queue[i] = s.queue[i] \/ (~ s.queue[i].leaf /\ ~ x.queue[i].leaf)
  BY <1>1, FlushedTail
<1> HIDE DEF x
<1>4. r \in Stream /\ Segs(r) = Segs(x)
  BY <1>3, ReleaseAllKeeps, ReleaseAllSays
<1> HIDE DEF r
<1>5. s'.carry = <<>> /\ s'.queue = r.queue /\ s'.out = r.out
  BY <1>2, <1>4, ClearCarryKeeps
<1>6. Segs(s') = Segs(x)
  BY <1>4, <1>5 DEF Segs
<1>7. \A c : TextOf(c, Segs(x)) = TextOf(c, Segs(s))
  BY <1>1, <1>3, TextAlike
<1> QED
  BY <1>5, <1>6, <1>7

-----------------------------------------------------------------------------
(* The segments without the fragments of the carry. *)

Mine(ps, i)   == {p \in ps : p.seg = i}
Chosen(ps)       == CHOOSE p \in ps : TRUE
Cut(q, ps, i) == IF Mine(ps, i) = {} THEN q[i] ELSE EditHeld(q[i], Chosen(Mine(ps, i)))

LEMMA EditAllIs ==
  ASSUME NEW x \in Stream
  PROVE  /\ EditAll(x).out = x.out
         /\ EditAll(x).queue = [i \in 1 .. Len(x.queue) |-> Cut(x.queue, Range(x.parts), i)]
<1> DEFINE q == x.queue
<1>1. DOMAIN q = 1 .. Len(q)
  BY StreamFields, LenProperties
<1>2. EditAll(x) = [x EXCEPT !.queue = [i \in DOMAIN q |-> Cut(q, Range(x.parts), i)]]
  BY DEF EditAll, EditParts, Cut, Mine, Chosen
<1> QED
  BY <1>1, <1>2 DEF Stream

LEMMA NoCut ==
  ASSUME NEW x \in Stream, x.parts = <<>> PROVE Segs(EditAll(x)) = Segs(x)
<1> DEFINE q == x.queue
<1>1. q \in Seq(SegmentSet) /\ Range(x.parts) = {}
  BY StreamFields DEF Range
<1>2. \A i \in 1 .. Len(q) : Cut(q, Range(x.parts), i) = q[i]
  BY <1>1 DEF Cut, Mine
<1>3. [i \in 1 .. Len(q) |-> Cut(q, Range(x.parts), i)] = [i \in 1 .. Len(q) |-> q[i]]
  BY <1>2
<1>4. [i \in 1 .. Len(q) |-> q[i]] = q
  <2> HIDE DEF q
  <2> QED
    BY <1>1
<1> QED
  BY <1>3, <1>4, EditAllIs DEF Segs

\* One segment more, of which the carry has no fragment, or the last one.
LEMMA CutMore ==
  ASSUME NEW x \in Stream, Home(x), NEW y \in Stream, NEW seg \in SegmentSet,
         y.out = x.out, y.queue = Append(x.queue, seg), NEW r \in SegmentSet,
         \/ y.parts = x.parts /\ r = seg
         \/ \E p \in Part : /\ y.parts = Append(x.parts, p) /\ p.seg = Len(x.queue) + 1
                            /\ r = EditHeld(seg, p)
  PROVE  Segs(EditAll(y)) = Segs(EditAll(x)) \o <<r>>
<1> DEFINE q  == x.queue
           n  == Len(q)
           z  == y.queue
           ps == Range(x.parts)
           ts == Range(y.parts)
           e  == EditAll(x).queue
           f  == EditAll(y).queue
           o  == x.out
<1>1. /\ q \in Seq(SegmentSet) /\ n \in Nat /\ z = Append(q, seg) /\ o \in Seq(SegmentSet)
      /\ EditAll(x).out = o /\ EditAll(y).out = o
  BY StreamFields, EditAllIs
<1>2. /\ x.parts \in Seq(Part) /\ DOMAIN x.parts = 1 .. Len(x.parts)
      /\ \A k \in 1 .. Len(x.parts) : x.parts[k].seg \in 1 .. n
  BY StreamFields, LenProperties DEF Home, PartHome
<1>3. \A p \in ps : p.seg \in 1 .. n
  BY <1>2 DEF Range
<1>4. e = [i \in 1 .. n |-> Cut(q, ps, i)] /\ e \in Seq(SegmentSet)
  <2>1. e = [i \in 1 .. n |-> Cut(q, ps, i)]
    BY EditAllIs
  <2>2. EditAll(x) \in Stream
    BY EditAllKeeps
  <2> QED
    BY <2>1, <2>2, StreamFields
<1>5. f = [i \in 1 .. Len(z) |-> Cut(z, ts, i)]
  BY EditAllIs
<1>6. /\ \A i \in 1 .. n : Mine(ts, i) = Mine(ps, i)
      /\ Cut(z, ts, n + 1) = r
  <2>0. z[n + 1] = seg
    <3> HIDE DEF q, z
    <3> QED
      BY <1>1
  <2>1. CASE y.parts = x.parts /\ r = seg
    <3>1. ts = ps
      BY <2>1
    <3>2. Mine(ps, n + 1) = {}
      <4> HIDE DEF n, ps
      <4> QED
        BY <1>1, <1>3 DEF Mine
    <3> QED
      BY <2>0, <2>1, <3>1, <3>2 DEF Cut
  <2>2. ASSUME NEW p \in Part, y.parts = Append(x.parts, p), p.seg = n + 1, r = EditHeld(seg, p)
        PROVE  /\ \A i \in 1 .. n : Mine(ts, i) = Mine(ps, i)
               /\ Cut(z, ts, n + 1) = r
    <3>1. ts = ps \union {p}
      <4> DEFINE a == x.parts
                 b == Append(a, p)
      <4>1. a \in Seq(Part) /\ y.parts = b
        BY <1>2, <2>2
      <4> HIDE DEF a
      <4>2. /\ Len(a) \in Nat /\ DOMAIN a = 1 .. Len(a) /\ DOMAIN b = 1 .. Len(a) + 1
            /\ b[Len(a) + 1] = p /\ \A i \in 1 .. Len(a) : b[i] = a[i]
        BY <4>1, LenProperties
      <4> HIDE DEF b
      <4>3. 1 .. Len(a) + 1 = (1 .. Len(a)) \union {Len(a) + 1}
        BY <4>2
      <4>4. Range(b) = Range(a) \union {p}
        <5>1. Range(a) \subseteq Range(b) /\ p \in Range(b)
          BY <4>2, <4>3 DEF Range
        <5>2. ASSUME NEW w \in Range(b) PROVE w \in Range(a) \/ w = p
          <6>1. PICK i \in 1 .. Len(a) + 1 : w = b[i]
            BY <4>2 DEF Range
          <6> QED
            BY <4>2, <4>3, <6>1 DEF Range
        <5> QED
          BY <5>1, <5>2
      <4> QED
        BY <4>1, <4>4 DEF a
    <3>2. \A i \in 1 .. n : Mine(ts, i) = Mine(ps, i)
      <4> HIDE DEF n, ps, ts
      <4>1. \A i \in 1 .. n : i # n + 1
        BY <1>1
      <4> QED
        BY <2>2, <3>1, <4>1 DEF Mine
    <3>3. Mine(ts, n + 1) = {p}
      <4> HIDE DEF n, ps, ts
      <4>1. \A w \in ps : w.seg # n + 1
        BY <1>1, <1>3
      <4> QED
        BY <2>2, <3>1, <4>1 DEF Mine
    <3> HIDE DEF ts, n, z
    <3>4. Chosen(Mine(ts, n + 1)) = p /\ Mine(ts, n + 1) # {}
      BY <3>3 DEF Chosen
    <3> QED
      BY <2>0, <2>2, <3>2, <3>4 DEF Cut
  <2> QED
    BY <2>1, <2>2
<1>7. /\ Len(z) = n + 1 /\ \A i \in 1 .. n : z[i] = q[i]
  <2> HIDE DEF q, z
  <2> QED
    BY <1>1
<1>8. f = Append(e, r)
  <2> HIDE DEF q, n, z, ps, ts, e, f
  <2>1. \A i \in 1 .. n : Cut(z, ts, i) = Cut(q, ps, i)
    <3>1. ASSUME NEW i \in 1 .. n PROVE Cut(z, ts, i) = Cut(q, ps, i)
      <4>1. Mine(ts, i) = Mine(ps, i) /\ z[i] = q[i]
        BY <1>6, <1>7
      <4> QED
        BY <4>1 DEF Cut
    <3> QED
      BY <3>1
  <2>2. Len(e) = n /\ \A i \in 1 .. n : e[i] = Cut(q, ps, i)
    <3> DEFINE g == [i \in 1 .. n |-> Cut(q, ps, i)]
    <3>1. e = g /\ DOMAIN g = 1 .. n /\ \A i \in 1 .. n : g[i] = Cut(q, ps, i)
      BY <1>4
    <3> HIDE DEF g
    <3>2. DOMAIN e = 1 .. n /\ Len(e) \in Nat /\ DOMAIN e = 1 .. Len(e)
      BY <1>4, <3>1, LenProperties
    <3> QED
      BY <1>1, <3>1, <3>2
  <2> DEFINE a == Append(e, r)
  <2>3. /\ a \in Seq(SegmentSet) /\ Len(a) = n + 1 /\ a[n + 1] = r
        /\ \A i \in 1 .. n : a[i] = e[i]
    BY <1>1, <1>4, <2>2
  <2> HIDE DEF a
  <2>4. a = [i \in 1 .. n + 1 |-> a[i]]
    BY <2>3
  <2>5. \A i \in 1 .. n + 1 : Cut(z, ts, i) = a[i]
    <3>1. ASSUME NEW i \in 1 .. n + 1 PROVE Cut(z, ts, i) = a[i]
      <4>1. CASE i = n + 1
        BY <1>6, <2>3, <4>1
      <4>2. CASE i # n + 1
        <5>1. i \in 1 .. n
          BY <1>1, <4>2
        <5> QED
          BY <2>1, <2>2, <2>3, <5>1
      <4> QED
        BY <4>1, <4>2
    <3> QED
      BY <3>1
  <2>6. f = [i \in 1 .. n + 1 |-> Cut(z, ts, i)]
    BY <1>5, <1>7
  <2>7. [i \in 1 .. n + 1 |-> Cut(z, ts, i)] = [i \in 1 .. n + 1 |-> a[i]]
    BY <2>5
  <2> QED
    BY <2>4, <2>6, <2>7 DEF a
<1>9. Segs(EditAll(y)) = o \o f /\ Segs(EditAll(x)) = o \o e
  BY <1>1 DEF Segs
<1> DEFINE g == <<r>>
<1>10. g \in Seq(SegmentSet)
  OBVIOUS
<1> HIDE DEF o, e, f
<1>11. Append(e, r) = e \o g
  BY <1>4, AppendIsConcat
<1> HIDE DEF g
<1>12. o \o (e \o g) = (o \o e) \o g
  BY <1>1, <1>4, <1>10, SegmentsRegroup
<1> QED
  BY <1>8, <1>9, <1>11, <1>12 DEF g

-----------------------------------------------------------------------------
(* What the segments say of a channel, one event after the other.             *)

Channels == Identities \ {NoIdentity}
\* What the segments say of channel c.
Speech(c, segs) == Unrestored(TextOf(c, segs))

LEMMA SpeechMore ==
  ASSUME NEW segs \in Seq(SegmentSet), NEW seg \in SegmentSet, NEW c
  PROVE  /\ TextOf(c, segs \o <<seg>>) = TextOf(c, segs) \o SegText(c, seg)
         /\ Speech(c, segs \o <<seg>>) = Speech(c, segs) \o Unrestored(SegText(c, seg))
         /\ TextOf(c, segs) \in Seq(Cells) /\ Speech(c, segs) \in Seq(Cells)
         /\ SegText(c, seg) \in Seq(Cells) /\ Unrestored(SegText(c, seg)) \in Seq(Cells)
<1> DEFINE g == <<seg>>
           a == TextOf(c, segs)
           b == SegText(c, seg)
<1>1. g \in Seq(SegmentSet) /\ TextOf(c, g) = b
  BY TextOfOne
<1>2. a \in Seq(Cells) /\ b \in Seq(Cells)
  BY TextOfIs, SegTextIs
<1> HIDE DEF g, a, b
<1>3. TextOf(c, segs \o g) = TextOf(c, segs) \o TextOf(c, g)
  BY <1>1, TextOfConcat
<1>4. Unrestored(a \o b) = Unrestored(a) \o Unrestored(b)
  BY <1>2, UnrestoredConcat
<1>5. Unrestored(a) \in Seq(Cells) /\ Unrestored(b) \in Seq(Cells)
  BY <1>2, UnrestoredTyped
<1> QED
  BY <1>1, <1>2, <1>3, <1>4, <1>5 DEF Speech, g, a, b

\* What precedes an event says what was spoken, and the first k cells of its
\* leaf m, but for h.
Before(c, segs, evs, ev, m, h, k) ==
  /\ Elsewhere(ev, c) => Speech(c, segs) = Spoken(c, evs)
  /\ \A l : LeafOf(ev, c, l) =>
       /\ Bare(ev, m, k, l)
       /\ Speech(c, segs) \o Lead(m, l, h) = Spoken(c, evs) \o SubSeq(ev.leaves[l].text, 1, Taken(m, l, k))
\* A text in two parts.
LEMMA TextSplit ==
  ASSUME NEW t \in Seq(Cells), NEW k \in 0 .. Len(t)
  PROVE  /\ SubSeq(t, 1, k) \in Seq(Cells) /\ From(t, k + 1) \in Seq(Cells)
         /\ SubSeq(t, 1, k) \o From(t, k + 1) = t
         /\ Len(SubSeq(t, 1, k)) = k
<1> DEFINE n == Len(t)
           j == k + 1
<1>1. n \in Nat /\ 1 \in 1 .. n + 1 /\ j \in 1 .. n + 1 /\ n + 1 \in j .. n + 1 /\ j - 1 = k
      /\ (n + 1) - 1 = n
  BY LenProperties
<1> HIDE DEF n, j
<1>2. SubSeq(t, 1, j - 1) \in Seq(Cells)
      /\ SubSeq(t, 1, j - 1) \o SubSeq(t, j, (n + 1) - 1) = SubSeq(t, 1, (n + 1) - 1)
  BY <1>1, Between DEF n
<1>3. From(t, j) \in Seq(Cells)
  BY <1>1, FromIsTail DEF n
<1>4. SubSeq(t, 1, n) = t
  BY SubSeqFull DEF n
<1>5. Len(SubSeq(t, 1, k)) = k
  <2>1. \A i \in 1 .. k : t[i] \in Cells
    BY <1>1, ElementOfSeq DEF n
  <2>2. 1 \in Int /\ k \in Int /\ 1 <= k + 1
    OBVIOUS
  <2> QED
    BY <2>1, <2>2, SubSeqProperties
<1> QED
  BY <1>1, <1>2, <1>3, <1>4, <1>5 DEF From, n, j

\* The whole event: its segment goes on with what is left of its leaf.
LEMMA WholeSays ==
  ASSUME NEW evs \in Seq(Events), NEW ev \in Events, Envelope(ev),
         NEW extra, NEW m, NEW h, NEW k, Restores(ev, extra, m, h, k),
         NEW seg \in SegmentSet, seg.leaf, seg.ev = ev, seg.content = ContentWith(ev, extra),
         NEW segs \in Seq(SegmentSet), NEW c, c # NoIdentity, Before(c, segs, evs, ev, m, h, k)
  PROVE  Speech(c, segs \o <<seg>>) = Spoken(c, Append(evs, ev))
<1> DEFINE a == Speech(c, segs)
           b == Unrestored(SegText(c, seg))
           d0 == Spoken(c, evs)
<1>1. Speech(c, segs \o <<seg>>) = a \o b /\ a \in Seq(Cells) /\ b \in Seq(Cells)
  BY SpeechMore
<1>2. Spoken(c, Append(evs, ev)) = d0 \o EventText(c, ev)
  BY SpokenMore
<1>3. d0 \in Seq(Cells)
  <2>1. d0 \in Seq(Plain)
    BY SpokenTyped
  <2> QED
    BY <2>1, PlainStays
<1>4. Says(SegText(c, seg), ev, c, m, h, k)
  BY SegmentSays
<1>5. CASE Elsewhere(ev, c)
  <2>1. b = <<>> /\ EventText(c, ev) = <<>> /\ a = d0
    BY <1>4, <1>5, UnrestoredNone, EventTextIs DEF Says, Before
  <2> QED
    BY <1>1, <1>2, <2>1
<1>6. CASE ~ Elsewhere(ev, c)
  <2>1. PICK l \in 1 .. Len(ev.leaves) : LeafOf(ev, c, l)
    BY <1>6, ChannelOf
  <2> DEFINE t  == ev.leaves[l].text
             hh == Lead(m, l, h)
             kk == Taken(m, l, k)
             u  == SubSeq(t, 1, kk)
             v  == From(t, kk + 1)
  <2>2. b = hh \o v /\ a \o hh = d0 \o u
    BY <1>4, <2>1 DEF Says, Before
  <2>3. EventText(c, ev) = t /\ t \in Seq(Cells)
    BY <2>1, EventTextIs, EventLeaves
  <2>4. kk \in 0 .. Len(t) /\ hh \in Seq(Cells)
    <3>1. ContentSaid(ev, extra, m, h, k, l)
      BY ContentSays
    <3> QED
      BY <3>1 DEF ContentSaid
  <2> HIDE DEF t, kk
  <2>5. u \in Seq(Cells) /\ v \in Seq(Cells) /\ u \o v = t
    BY <2>3, <2>4, TextSplit
  <2> HIDE DEF a, b, d0, hh, u, v
  <2>6. a \o b = (a \o hh) \o v
    BY <1>1, <2>2, <2>4, <2>5, CellsRegroup
  <2>7. (d0 \o u) \o v = d0 \o t
    BY <1>3, <2>5, CellsRegroup
  <2> QED
    BY <1>1, <1>2, <2>2, <2>3, <2>6, <2>7 DEF a, b, d0
<1> QED
  BY <1>5, <1>6

\* The event but for a fragment p that ends its leaf, which no placeholder
\* crosses.
CutReady(segs, evs, ev, extra, m, h, k, seg, p, c) ==
  /\ evs \in Seq(Events) /\ ev \in Events /\ Envelope(ev)
  /\ FragmentOf(ev, extra, m, h, k, seg, p) /\ segs \in Seq(SegmentSet) /\ LeafOf(ev, c, p.leaf)
  /\ Before(c, segs, evs, ev, m, h, k) /\ Uncrossed(ev.leaves[p.leaf].text, p.from)
CutSaid(segs, evs, ev, seg, p, c) ==
  Speech(c, segs \o <<EditHeld(seg, p)>>)
    = Spoken(c, evs) \o SubSeq(ev.leaves[p.leaf].text, 1, p.from - 1)

LEMMA CutSays ==
  ASSUME NEW segs, NEW evs, NEW ev, NEW extra, NEW m, NEW h, NEW k, NEW seg, NEW p, NEW c,
         CutReady(segs, evs, ev, extra, m, h, k, seg, p, c)
  PROVE  CutSaid(segs, evs, ev, seg, p, c)
<1> DEFINE r  == EditHeld(seg, p)
           l  == p.leaf
           t  == ev.leaves[l].text
           f  == p.from
           hh == Lead(m, l, h)
           kk == Taken(m, l, k)
           a  == Speech(c, segs)
           b  == Unrestored(SegText(c, r))
           d0 == Spoken(c, evs)
           u  == SubSeq(t, 1, kk)
           v  == SubSeq(t, kk + 1, f - 1)
<1>0. /\ Restores(ev, extra, m, h, k) /\ l \in 1 .. Len(ev.leaves)
      /\ f \in kk + 1 .. Len(t) + 1
      /\ evs \in Seq(Events) /\ ev \in Events /\ segs \in Seq(SegmentSet)
      /\ FragmentOf(ev, extra, m, h, k, seg, p) /\ LeafOf(ev, c, l) /\ Uncrossed(t, f)
      /\ Before(c, segs, evs, ev, m, h, k)
  BY DEF FragmentOf, CutReady
<1>2. a \o hh = d0 \o u /\ Bare(ev, m, k, l)
  BY <1>0 DEF Before
<1>1. r \in SegmentSet /\ b = hh \o v
  <2>1. PartSays(ev, m, h, k, seg, p)
    BY <1>0, PartCut
  <2> QED
    BY <1>0, <1>2, <2>1 DEF PartSays
<1>3. t \in Seq(Cells) /\ Len(t) \in Nat
  BY <1>0, EventLeaves
<1>4. kk \in 0 .. Len(t) /\ hh \in Seq(Cells)
  <2>1. ContentSaid(ev, extra, m, h, k, l)
    BY <1>0, ContentSays
  <2> QED
    BY <2>1 DEF ContentSaid
<1>5. f \in kk + 1 .. Len(t) + 1
  BY <1>0
<1>6. d0 \in Seq(Cells)
  <2>1. d0 \in Seq(Plain)
    BY <1>0, SpokenTyped
  <2> QED
    BY <2>1, PlainStays
<1> HIDE DEF r
<1>7. Speech(c, segs \o <<r>>) = a \o b /\ a \in Seq(Cells) /\ b \in Seq(Cells)
  BY <1>0, <1>1, SpeechMore
<1> HIDE DEF a, b, d0, hh, kk, t, f
<1>8. u \in Seq(Cells) /\ v \in Seq(Cells) /\ u \o v = SubSeq(t, 1, f - 1)
  <2> DEFINE j == kk + 1
             n == Len(t)
  <2>1. n \in Nat /\ 1 \in 1 .. n + 1 /\ j \in 1 .. n + 1 /\ f \in j .. n + 1 /\ j - 1 = kk
        /\ f \in 1 .. n + 1 /\ j \in j .. n + 1
    BY <1>3, <1>4, <1>5
  <2> HIDE DEF j, n
  <2>2. SubSeq(t, 1, j - 1) \in Seq(Cells)
        /\ SubSeq(t, 1, j - 1) \o SubSeq(t, j, f - 1) = SubSeq(t, 1, f - 1)
    BY <1>3, <2>1, Between DEF n
  <2>3. SubSeq(t, j, f - 1) \in Seq(Cells)
    BY <1>3, <2>1, Between DEF n
  <2> QED
    BY <2>1, <2>2, <2>3 DEF j
<1> HIDE DEF u, v
<1>9. a \o b = (a \o hh) \o v
  BY <1>1, <1>4, <1>7, <1>8, CellsRegroup
<1>10. (d0 \o u) \o v = d0 \o (u \o v)
  BY <1>6, <1>8, CellsRegroup
<1> QED
  BY <1>2, <1>7, <1>8, <1>9, <1>10 DEF r, d0, t, f, l, CutSaid

\* A placeholder that begins at place f of what was said last is crossed by none.
LEMMA NoneCross ==
  ASSUME NEW said \in Seq(Cells), NEW t \in Seq(Cells), NEW f \in 1 .. Len(t), NEW w \in Seq(Cells),
         Clean((said \o t) \o w), TokenLen(From(t, f) \o w) # 0
  PROVE  \A i \in 1 .. f - 1 : TokenLen(From(t, i)) <= f - i
<1> DEFINE a == SubSeq(t, 1, f - 1)
           b == From(t, f)
           p == said \o a
           u == b \o w
<1>1. Len(t) \in Nat /\ f \in Nat /\ f - 1 \in 0 .. Len(t) /\ (f - 1) + 1 = f /\ Len(said) \in Nat
  BY LenProperties
<1>2. a \in Seq(Cells) /\ b \in Seq(Cells) /\ a \o b = t /\ Len(a) = f - 1
  <2> DEFINE n == f - 1
  <2>1. n \in 0 .. Len(t) /\ n + 1 = f
    BY <1>1
  <2> HIDE DEF n
  <2>2. SubSeq(t, 1, n) \in Seq(Cells) /\ From(t, n + 1) \in Seq(Cells)
        /\ SubSeq(t, 1, n) \o From(t, n + 1) = t /\ Len(SubSeq(t, 1, n)) = n
    BY <2>1, TextSplit
  <2> QED
    BY <2>1, <2>2 DEF n
<1> HIDE DEF a, b
<1>3. p \in Seq(Cells) /\ u \in Seq(Cells) /\ Len(p) = Len(said) + (f - 1)
  BY <1>2, ConcatProperties
<1>4. p \o u = (said \o t) \o w
  <2>1. (said \o a) \o b = said \o t
    BY <1>2, CellsRegroup
  <2>2. (p \o b) \o w = p \o u
    <3>1. p \in Seq(Cells)
      BY <1>3
    <3> HIDE DEF p
    <3> QED
      BY <1>2, <3>1, CellsRegroup
  <2> QED
    BY <2>1, <2>2
<1>5. TokenLen(u) # 0 /\ Clean(p \o u)
  BY <1>4 DEF b
<1> HIDE DEF p, u
<1>6. \A i \in 1 .. Len(p) : TokenLen(From(p \o u, i)) <= Len(p) + 1 - i
  BY <1>3, <1>5, NothingCrosses
<1>7. ASSUME NEW i \in 1 .. f - 1 PROVE TokenLen(From(t, i)) <= f - i
  <2>1. i \in 1 .. Len(t) /\ i \in Nat
    BY <1>1
  <2>2. CASE TokenLen(From(t, i)) = 0
    BY <1>1, <2>1, <2>2
  <2>3. CASE TokenLen(From(t, i)) # 0
    <3>1. TokenLen(From(t \o w, i)) = TokenLen(From(t, i))
      BY <2>1, <2>3, TokenWithMore
    <3> DEFINE tw == t \o w
    <3>2. tw \in Seq(Cells) /\ Len(tw) = Len(t) + Len(w) /\ Len(w) \in Nat
      BY ConcatProperties, LenProperties
    <3>3. i \in 1 .. Len(tw)
      BY <1>1, <2>1, <3>2
    <3>4. (said \o t) \o w = said \o tw
      BY CellsRegroup
    <3> HIDE DEF tw
    <3>5. TokenLen(From(said \o tw, Len(said) + i)) = TokenLen(From(tw, i))
      BY <3>2, <3>3, TokenAfter
    <3> DEFINE j == Len(said) + i
    <3>6. j \in 1 .. Len(p) /\ Len(p) + 1 - j = f - i
      BY <1>1, <1>3, <2>1
    <3>7. TokenLen(From(p \o u, j)) <= Len(p) + 1 - j
      <4> HIDE DEF j
      <4> QED
        BY <1>6, <3>6
    <3> QED
      BY <1>4, <3>1, <3>4, <3>5, <3>6, <3>7 DEF tw
  <2> QED
    BY <2>2, <2>3
<1> QED
  BY <1>7

\* Every channel that is clean is what was spoken, and what precedes event ev is.
Speaks(segs, evs) ==
  \A c \in Channels : Clean(Spoken(c, evs)) => Speech(c, segs) = Spoken(c, evs)
AllBefore(segs, evs, ev, m, h, k) ==
  \A c \in Channels : Clean(Spoken(c, Append(evs, ev))) => Before(c, segs, evs, ev, m, h, k)
\* Where the carry may yet become a placeholder, the segments without their
\* fragments say what was spoken before it.
UpToCarry(x, evs) ==
  \A w \in Seq(Plain) :
    Clean(Spoken(x.key, evs) \o w) /\ TokenLen(x.carry \o w) > Len(x.carry)
      => Speech(x.key, Segs(EditAll(x))) \o x.carry = Spoken(x.key, evs)
Revocable(x, evs) ==
  x.carry # <<>> =>
    /\ \E said \in Seq(Cells) : Spoken(x.key, evs) = said \o x.carry
    /\ UpToCarry(x, evs)
    /\ \A b \in Channels \ {x.key} : TextOf(b, Segs(EditAll(x))) = TextOf(b, Segs(x))
Faith(x, evs) == Speaks(Segs(x), evs) /\ Revocable(x, evs)
\* What is clean was before the last event.
LEMMA CleanBefore ==
  ASSUME NEW evs \in Seq(Events), NEW ev \in Events, NEW c, Clean(Spoken(c, Append(evs, ev)))
  PROVE  Clean(Spoken(c, evs))
<1> DEFINE a == Spoken(c, evs)
           b == EventText(c, ev)
<1>1. a \in Seq(Plain) /\ b \in Seq(Plain)
  BY SpokenTyped, EventTextIs
<1>2. a \in Seq(Cells) /\ b \in Seq(Cells)
  BY <1>1, PlainStays
<1>3. Clean(a \o b)
  BY SpokenMore
<1> HIDE DEF a, b
<1>4. Clean(a)
  BY <1>2, <1>3, CleanHead
<1> QED
  BY <1>4 DEF a

LEMMA SpeaksMore ==
  ASSUME NEW evs \in Seq(Events), NEW ev \in Events, Envelope(ev),
         NEW extra, NEW m, NEW h, NEW k, Restores(ev, extra, m, h, k),
         NEW seg \in SegmentSet, seg.leaf, seg.ev = ev, seg.content = ContentWith(ev, extra),
         NEW segs \in Seq(SegmentSet), AllBefore(segs, evs, ev, m, h, k)
  PROVE  Speaks(segs \o <<seg>>, Append(evs, ev))
<1>1. ASSUME NEW c \in Channels, Clean(Spoken(c, Append(evs, ev)))
      PROVE  Speech(c, segs \o <<seg>>) = Spoken(c, Append(evs, ev))
  <2>1. c # NoIdentity /\ Before(c, segs, evs, ev, m, h, k)
    BY <1>1 DEF AllBefore, Channels
  <2> QED
    BY <2>1, WholeSays
<1> QED
  BY <1>1 DEF Speaks

\* An event of which nothing was taken goes on from what speaks.
LEMMA SpeaksBefore ==
  ASSUME NEW evs \in Seq(Events), NEW ev \in Events, NEW segs \in Seq(SegmentSet), Speaks(segs, evs)
  PROVE  AllBefore(segs, evs, ev, 0, <<>>, 0)
<1>1. ASSUME NEW c \in Channels, Clean(Spoken(c, Append(evs, ev)))
      PROVE  Before(c, segs, evs, ev, 0, <<>>, 0)
  <2> DEFINE a == Spoken(c, evs)
             b == Speech(c, segs)
  <2>1. b = a
    BY <1>1, CleanBefore DEF Speaks
  <2>2. a \in Seq(Plain)
    BY SpokenTyped
  <2>3. a \in Seq(Cells)
    BY <2>2, PlainStays
  <2> HIDE DEF a, b
  <2>4. a \o <<>> = a
    BY <2>3, ConcatEmptySeq
  <2>5. ASSUME NEW l, LeafOf(ev, c, l)
        PROVE  /\ Bare(ev, 0, 0, l)
               /\ b \o Lead(0, l, <<>>) = a \o SubSeq(ev.leaves[l].text, 1, Taken(0, l, 0))
    <3>1. Lead(0, l, <<>>) = <<>> /\ Taken(0, l, 0) = 0
      BY DEF Lead, Taken
    <3>2. SubSeq(ev.leaves[l].text, 1, 0) = <<>>
      BY SubSeqEmpty
    <3> QED
      BY <2>1, <2>4, <3>1, <3>2 DEF Bare
  <2> QED
    BY <2>1, <2>5 DEF Before, a, b
<1> QED
  BY <1>1 DEF AllBefore

-----------------------------------------------------------------------------
(* An event that starts a carry, or that is not held.                         *)

\* Where an unfinished placeholder was found, after the first k cells of leaf m.
Unfinished(ev, p, m, k) ==
  p.leaf # 0 =>
    /\ p.leaf \in Identified(ev)
    /\ p.from \in Taken(m, p.leaf, k) + 1 .. Len(ev.leaves[p.leaf].text)
    /\ TokenLen(From(ev.leaves[p.leaf].text, p.from)) = 0

LEMMA PrefixStarts ==
  ASSUME NEW t \in Seq(Cells), NEW from \in Nat, from >= 1, SmallestPrefixAt(t, from) # 0
  PROVE  /\ SmallestPrefixAt(t, from) \in from .. Len(t)
         /\ TokenLen(From(t, SmallestPrefixAt(t, from))) = 0
<1> DEFINE at == {i \in from .. Len(t) :
                    TokenLen(From(t, i)) = 0 /\ IsPlaceholderPrefix(From(t, i))}
<1>1. at # {} => Min(at) \in at
  <2>1. at \subseteq Nat
    BY LenProperties
  <2> HIDE DEF at
  <2> QED
    BY <2>1, MinIsLeast
<1>2. SmallestPrefixAt(t, from) = IF at = {} THEN 0 ELSE Min(at)
  BY DEF SmallestPrefixAt
<1>3. SmallestPrefixAt(t, from) \in at
  <2> HIDE DEF at
  <2> QED
    BY <1>1, <1>2
<1> QED
  BY <1>3

LEMMA LastPrefixUnfinished ==
  ASSUME NEW ev \in Events, NEW scope, scope \subseteq Identified(ev), NEW start, NEW m, NEW k,
         \A i \in scope : start[i] \in Nat /\ start[i] >= 1 /\ start[i] = Taken(m, i, k) + 1
  PROVE  Unfinished(ev, LastPrefix(ev, scope, start), m, k)
<1> DEFINE at(i) == SmallestPrefixAt(ev.leaves[i].text, start[i])
           found == {i \in scope : at(i) # 0}
<1>1. Identified(ev) \subseteq 1 .. Len(ev.leaves) /\ Len(ev.leaves) \in Nat
  BY EventLeaves DEF Identified
<1>2. found # {} => Max(found) \in found
  <2>1. found \subseteq 0 .. Len(ev.leaves)
    BY <1>1
  <2> HIDE DEF found
  <2> QED
    BY <1>1, <2>1, MaxUpTo
<1>3. LastPrefix(ev, scope, start) =
        IF found = {} THEN [leaf |-> 0, from |-> 0]
        ELSE [leaf |-> Max(found), from |-> at(Max(found))]
  BY DEF LastPrefix
<1>4. ASSUME NEW i \in found
      PROVE  /\ at(i) \in Taken(m, i, k) + 1 .. Len(ev.leaves[i].text)
             /\ TokenLen(From(ev.leaves[i].text, at(i))) = 0
  <2>1. /\ ev.leaves[i].text \in Seq(Cells) /\ start[i] \in Nat /\ start[i] >= 1 /\ at(i) # 0
        /\ start[i] = Taken(m, i, k) + 1
    BY <1>1, EventLeaves
  <2>2. /\ at(i) \in start[i] .. Len(ev.leaves[i].text)
        /\ TokenLen(From(ev.leaves[i].text, at(i))) = 0
    BY <2>1, PrefixStarts
  <2> QED
    BY <2>1, <2>2
<1>5. found \subseteq scope
  OBVIOUS
<1> HIDE DEF found, at
<1> DEFINE p == LastPrefix(ev, scope, start)
<1>6. p.leaf # 0 => p.leaf \in found /\ p.from = at(p.leaf)
  BY <1>2, <1>3
<1> HIDE DEF p
<1>7. Unfinished(ev, p, m, k)
  BY <1>4, <1>5, <1>6 DEF Unfinished
<1> QED
  BY <1>7 DEF p

LEMMA TrailingUnfinished ==
  ASSUME NEW ev \in Events PROVE Unfinished(ev, TrailingPrefix(ev), 0, 0)
<1> DEFINE start == [i \in DOMAIN ev.leaves |-> 1]
<1>1. \A i \in Identified(ev) : start[i] \in Nat /\ start[i] >= 1 /\ start[i] = Taken(0, i, 0) + 1
  BY DEF Identified, Taken
<1> HIDE DEF start
<1>2. Unfinished(ev, LastPrefix(ev, Identified(ev), start), 0, 0)
  BY <1>1, LastPrefixUnfinished
<1> QED
  BY <1>2 DEF TrailingPrefix, start

LEMMA TrailingAfterUnfinished ==
  ASSUME NEW ev \in Events, NEW m, NEW k \in Nat
  PROVE  Unfinished(ev, TrailingPrefixAfter(ev, m, k), m, k)
<1> DEFINE start == [i \in DOMAIN ev.leaves |-> IF i = m THEN k + 1 ELSE 1]
           scope == {i \in Identified(ev) : i >= m}
<1>1. scope \subseteq Identified(ev)
      /\ \A i \in scope : start[i] \in Nat /\ start[i] >= 1 /\ start[i] = Taken(m, i, k) + 1
  BY DEF Identified, Taken
<1> HIDE DEF start, scope
<1>2. Unfinished(ev, LastPrefix(ev, scope, start), m, k)
  BY <1>1, LastPrefixUnfinished
<1> QED
  BY <1>2 DEF TrailingPrefixAfter, start, scope

\* The leaf of an identity is its channel's.
LEMMA IdentityLeaf ==
  ASSUME NEW ev \in Events, NEW l \in 1 .. Len(ev.leaves), ev.leaves[l].id # NoIdentity
  PROVE  LeafOf(ev, ev.leaves[l].id, l)
<1> DEFINE c == ev.leaves[l].id
<1>1. ~ Elsewhere(ev, c)
  BY DEF Elsewhere
<1>2. PICK j \in 1 .. Len(ev.leaves) : LeafOf(ev, c, j)
  BY <1>1, ChannelOf
<1>3. j = l
  BY <1>2 DEF LeafOf
<1> QED
  BY <1>2, <1>3

LEMMA EstablishedFaithful ==
  ASSUME fed \in Seq(Events), NEW ev \in Events, Envelope(ev),
         NEW extra, NEW m, NEW h, NEW k, Restores(ev, extra, m, h, k),
         NEW x \in Stream, x.held = <<>>, x.queue = <<>>, x.carry = <<>>, x.parts = <<>>,
         Ordered(x, Len(fed)), AllBefore(Segs(x), fed, ev, m, h, k),
         NEW p, Unfinished(ev, p, m, k), CanHold(x, ev, ContentWith(ev, extra), p)
  PROVE  Faith(Drain(Establish(x, ev, ContentWith(ev, extra), extra, p)), Append(fed, ev))
<1> DEFINE content == ContentWith(ev, extra)
           y    == Establish(x, ev, content, extra, p)
           seg  == Segment(ev, TRUE, content, extra)
           l    == p.leaf
           t    == ev.leaves[l].text
           f    == p.from
           c    == ev.leaves[l].id
           part == [seg |-> 1, leaf |-> l, from |-> f, to |-> Len(t) + 1]
           r    == EditHeld(seg, part)
           before == Segs(x)
           evs  == Append(fed, ev)
           said == Spoken(c, fed)
<1>1. TextsOf(ev, content) /\ ExtraOf(ev, extra)
  BY ContentOf DEF Restores
<1>2. /\ l # 0 /\ l \in Identified(ev) /\ l \in 1 .. Len(ev.leaves) /\ l \in Nat
      /\ f \in Taken(m, l, k) + 1 .. Len(t) /\ TokenLen(From(t, f)) = 0
      /\ c # NoIdentity /\ c \in Identities
      /\ t \in Seq(Cells) /\ Len(t) \in Nat /\ t \in Seq(Plain) /\ f \in 1 .. Len(t) /\ f \in Nat
  <2>1. l # 0
    BY DEF CanHold
  <2>2. l \in Identified(ev) /\ f \in Taken(m, l, k) + 1 .. Len(t) /\ TokenLen(From(t, f)) = 0
    BY <2>1 DEF Unfinished
  <2>3. l \in 1 .. Len(ev.leaves) /\ c # NoIdentity /\ l \in Nat
    BY <2>2, EventLeaves DEF Identified
  <2>4. t \in Seq(Cells) /\ Len(t) \in Nat /\ t \in Seq(Plain) /\ c \in Identities
    BY <2>3, EventLeaves, PlainText
  <2>5. Taken(m, l, k) \in Nat
    BY DEF Restores, Taken
  <2> HIDE DEF l, f, t
  <2>6. f \in 1 .. Len(t) /\ f \in Nat
    BY <2>2, <2>4, <2>5
  <2> QED
    BY <2>1, <2>2, <2>3, <2>4, <2>6
<1>3. /\ y \in Stream /\ Home(y) /\ NextSegment(seg, ev, content) /\ y.queue = <<seg>>
      /\ y.out = x.out /\ y.carry = Fragment(ev, p) /\ y.carry # <<>> /\ y.key = c
      /\ y.parts = <<part>>
  <2>1. FoundIn(ev, p)
    BY <1>2 DEF FoundIn
  <2>2. CanHold(x, ev, content, p)
    OBVIOUS
  <2> HIDE DEF content
  <2>3. EstablishedAs(Establish(x, ev, content, extra, p), x, ev, content, extra, p)
    BY <1>1, <2>1, <2>2, EstablishedIs
  <2> QED
    BY <2>3 DEF EstablishedAs
<1>4. Drain(y) = y
  <2> HIDE DEF y
  <2> QED
    BY <1>3, DrainStays
<1>5. LeafOf(ev, c, l)
  BY <1>2, IdentityLeaf
<1>6. Rendered(seg, ev, extra)
  BY <1>1, RenderedSegment
<1>7. seg \in SegmentSet /\ seg.leaf /\ seg.ev = ev /\ seg.content = ContentWith(ev, extra)
  <2> HIDE DEF seg
  <2> QED
    BY <1>6 DEF Rendered
<1>8. before \in Seq(SegmentSet)
  BY SegsTyped
<1>9. Segs(y) = before \o <<seg>>
  <2> DEFINE o == x.out
  <2>1. o \in Seq(SegmentSet)
    BY StreamFields
  <2>2. before = o \o <<>> /\ Segs(y) = o \o <<seg>>
    BY <1>3 DEF Segs
  <2> HIDE DEF o, before
  <2>3. o \o <<>> = o
    BY <2>1, ConcatEmptySeq
  <2> QED
    BY <2>2, <2>3
<1>10. part \in Part /\ part.seg = 1 /\ part.leaf = l /\ part.from = f /\ part.to = Len(t) + 1
  <2>1. Len(t) + 1 \in Nat
    BY <1>2
  <2> QED
    BY <1>2, <2>1 DEF Part
<1> HIDE DEF y, content, seg, before, part, c, f, t, l, said
<1>11. Speaks(Segs(y), evs)
  <2>1. AllBefore(before, fed, ev, m, h, k)
    BY DEF before
  <2>2. Speaks(before \o <<seg>>, evs)
    BY <1>7, <1>8, <2>1, SpeaksMore
  <2> QED
    BY <1>9, <2>2
<1>12. part.from \in Taken(m, part.leaf, k) + 1 .. part.to
       /\ part.leaf \in 1 .. Len(ev.leaves) /\ part.to = Len(ev.leaves[part.leaf].text) + 1
  <2>1. Taken(m, l, k) \in Nat
    BY DEF Restores, Taken
  <2>2. f \in Taken(m, l, k) + 1 .. Len(t) + 1
    BY <1>2, <2>1
  <2> QED
    BY <1>2, <1>10, <2>2 DEF t
<1>13. FragmentOf(ev, extra, m, h, k, seg, part) /\ PartSays(ev, m, h, k, seg, part)
  <2>1. FragmentOf(ev, extra, m, h, k, seg, part)
    BY <1>6, <1>10, <1>12 DEF FragmentOf
  <2> QED
    BY <2>1, PartCut
<1>14. r \in SegmentSet
       /\ \A b : b # NoIdentity /\ ~ LeafOf(ev, b, l) => SegText(b, r) = SegText(b, seg)
  BY <1>10, <1>13 DEF PartSays
<1>15. Segs(EditAll(y)) = before \o <<r>>
  <2>1. Home(x)
    BY NoParts
  <2>2. y.out = x.out /\ y.queue = Append(x.queue, seg) /\ y.parts = Append(x.parts, part)
        /\ part.seg = Len(x.queue) + 1
    <3>1. Append(<<>>, seg) = <<seg>> /\ Append(<<>>, part) = <<part>> /\ Len(<<>>) + 1 = 1
      OBVIOUS
    <3> QED
      BY <1>3, <1>10, <3>1
  <2>3. Segs(EditAll(x)) = before
    BY NoCut DEF before
  <2>4. Segs(EditAll(y)) = Segs(EditAll(x)) \o <<r>>
    <3>1. \E w \in Part : /\ y.parts = Append(x.parts, w) /\ w.seg = Len(x.queue) + 1
                          /\ r = EditHeld(seg, w)
      BY <1>10, <2>2
    <3> HIDE DEF r
    <3> QED
      BY <1>3, <1>7, <1>14, <2>1, <2>2, <3>1, CutMore
  <2> QED
    BY <2>3, <2>4
<1> DEFINE a == SubSeq(t, 1, f - 1)
           carry == From(t, f)
<1>16. /\ a \in Seq(Cells) /\ carry \in Seq(Cells) /\ a \o carry = t /\ y.carry = carry
  <2> DEFINE n == f - 1
  <2>1. n \in 0 .. Len(t) /\ n + 1 = f
    BY <1>2
  <2> HIDE DEF n
  <2>2. SubSeq(t, 1, n) \in Seq(Cells) /\ From(t, n + 1) \in Seq(Cells)
        /\ SubSeq(t, 1, n) \o From(t, n + 1) = t
    BY <1>2, <2>1, TextSplit
  <2>3. y.carry = carry
    BY <1>2, <1>3 DEF Fragment, t, f, l
  <2> QED
    BY <2>1, <2>2, <2>3 DEF n
<1>17. said \in Seq(Cells) /\ Spoken(c, evs) = said \o t
  <2>1. said \in Seq(Plain)
    BY SpokenTyped DEF said
  <2>2. EventText(c, ev) = t
    BY <1>5, EventTextIs DEF t
  <2>3. Spoken(c, evs) = said \o EventText(c, ev)
    BY SpokenMore DEF said
  <2> QED
    BY <2>1, <2>2, <2>3, PlainStays
<1> HIDE DEF a, carry, r, evs
<1>18. Spoken(c, evs) = (said \o a) \o carry /\ said \o a \in Seq(Cells)
  BY <1>16, <1>17, CellsRegroup, CellsJoined
<1>19. ASSUME NEW w \in Seq(Plain), Clean(Spoken(c, evs) \o w), TokenLen(carry \o w) > Len(carry)
       PROVE  Speech(c, before \o <<r>>) = said \o a
  <2>1. w \in Seq(Cells) /\ Spoken(c, evs) \in Seq(Cells)
    <3>1. w \in Seq(Cells)
      BY PlainStays
    <3> QED
      BY <1>2, <1>17, <3>1, CellsJoined
  <2>2. Clean(Spoken(c, evs))
    BY <1>19, <2>1, CleanHead
  <2>3. Before(c, before, fed, ev, m, h, k)
    BY <1>2, <2>2 DEF AllBefore, Channels, before, evs
  <2>4. TokenLen(carry \o w) # 0
    <3>1. Len(carry) \in Nat
      BY <1>16, LenProperties
    <3> QED
      BY <1>19, <3>1
  <2>5. \A i \in 1 .. f - 1 : TokenLen(From(t, i)) <= f - i
    <3>1. Clean((said \o t) \o w) /\ TokenLen(From(t, f) \o w) # 0
      BY <1>17, <1>19, <2>4 DEF carry
    <3> QED
      BY <1>2, <1>17, <2>1, <3>1, NoneCross
  <2>6. Speech(c, before \o <<EditHeld(seg, part)>>)
          = Spoken(c, fed) \o SubSeq(ev.leaves[part.leaf].text, 1, part.from - 1)
    <3>1. LeafOf(ev, c, part.leaf)
      BY <1>5, <1>10
    <3>2. Uncrossed(ev.leaves[part.leaf].text, part.from)
      BY <1>2, <1>10, <2>5 DEF Uncrossed, t
    <3>3. CutReady(before, fed, ev, extra, m, h, k, seg, part, c)
      BY <1>8, <1>13, <2>3, <3>1, <3>2 DEF CutReady
    <3>4. CutSaid(before, fed, ev, seg, part, c)
      BY <3>3, CutSays
    <3> QED
      BY <3>4 DEF CutSaid
  <2> QED
    BY <1>10, <2>6 DEF r, said, a, t, f
<1>20. UpToCarry(y, evs)
  <2>1. y.key = c /\ y.carry = carry /\ Segs(EditAll(y)) = before \o <<r>>
    BY <1>3, <1>15, <1>16
  <2>2. ASSUME NEW w \in Seq(Plain), Clean(Spoken(c, evs) \o w), TokenLen(carry \o w) > Len(carry)
        PROVE  Speech(c, before \o <<r>>) \o carry = Spoken(c, evs)
    BY <1>18, <1>19, <2>2
  <2> QED
    BY <2>1, <2>2 DEF UpToCarry
<1>21. ASSUME NEW b \in Channels \ {c} PROVE TextOf(b, Segs(EditAll(y))) = TextOf(b, Segs(y))
  <2>1. b # NoIdentity /\ ~ LeafOf(ev, b, l)
    BY <1>21 DEF Channels, LeafOf, c
  <2>2. SegText(b, r) = SegText(b, seg)
    BY <1>14, <2>1
  <2>3. /\ TextOf(b, before \o <<r>>) = TextOf(b, before) \o SegText(b, r)
        /\ TextOf(b, before \o <<seg>>) = TextOf(b, before) \o SegText(b, seg)
    BY <1>7, <1>8, <1>14, SpeechMore
  <2> QED
    BY <1>9, <1>15, <2>2, <2>3
<1>22. Revocable(y, evs)
  <2>1. \E w \in Seq(Cells) : Spoken(y.key, evs) = w \o y.carry
    BY <1>3, <1>16, <1>18
  <2>2. \A b \in Channels \ {y.key} : TextOf(b, Segs(EditAll(y))) = TextOf(b, Segs(y))
    BY <1>3, <1>21
  <2> QED
    BY <1>20, <2>1, <2>2 DEF Revocable
<1> QED
  BY <1>4, <1>11, <1>22 DEF Faith, y, content, evs

\* An event that is not held.
LEMMA EmittedFaithful ==
  ASSUME fed \in Seq(Events), NEW ev \in Events, Envelope(ev),
         NEW extra, NEW m, NEW h, NEW k, Restores(ev, extra, m, h, k),
         NEW x \in Stream, x.held = <<>>, x.carry = <<>>, x.parts = <<>>,
         AllBefore(Segs(x), fed, ev, m, h, k)
  PROVE  Faith(Drain(Emitted(x, ev, ContentWith(ev, extra))), Append(fed, ev))
<1> DEFINE content == ContentWith(ev, extra)
           seg == Segment(ev, TRUE, content, NoExtra(ev))
           y   == EmitSegment(x, seg)
           z   == Drain(y)
           before == Segs(x)
           evs == Append(fed, ev)
<1>1. TextsOf(ev, content) /\ ExtraOf(ev, NoExtra(ev))
  BY ContentOf, NoExtraOf DEF Restores
<1>2. seg \in SegmentSet /\ seg.leaf /\ seg.ev = ev /\ seg.content = ContentWith(ev, extra)
  <2> HIDE DEF content
  <2>1. NextSegment(seg, ev, content)
    BY <1>1, LeafSegment
  <2>2. seg.leaf
    BY DEF Segment
  <2> HIDE DEF seg
  <2> QED
    BY <2>1, <2>2 DEF NextSegment, content
<1>3. before \in Seq(SegmentSet) /\ AllBefore(before, fed, ev, m, h, k)
  BY SegsTyped
<1>4. Emitted(x, ev, ContentWith(ev, extra)) = y
  BY DEF Emitted
<1> HIDE DEF content, seg, before
<1>5. Segs(y) = before \o <<seg>> /\ y \in Stream /\ SameCarry(x, y) /\ y.held = <<>>
  BY <1>2, EmitSays, EmitKeeps DEF before
<1>6. Speaks(before \o <<seg>>, evs)
  BY <1>2, <1>3, SpeaksMore
<1> HIDE DEF y
<1>7. y.carry = <<>> /\ y.parts = <<>>
  BY <1>5 DEF SameCarry
<1>8. Home(y)
  BY <1>7, NoParts
<1>9. Segs(z) = Segs(y) /\ SameCarry(y, z)
  BY <1>5, <1>8, DrainSays, DrainKeeps
<1> HIDE DEF z
<1>10. z.carry = <<>>
  BY <1>7, <1>9 DEF SameCarry
<1>11. Faith(z, evs)
  BY <1>5, <1>6, <1>9, <1>10 DEF Faith, Revocable
<1> QED
  BY <1>4, <1>11 DEF z

LEMMA StartFaithful ==
  ASSUME fed \in Seq(Events), NEW ev \in Events, Envelope(ev),
         NEW extra, NEW m, NEW h, NEW k, Restores(ev, extra, m, h, k),
         NEW x \in Stream, x.held = <<>>, x.carry = <<>>, x.parts = <<>>,
         NEW hold \in Stream, hold.held = <<>>, hold.queue = <<>>, hold.carry = <<>>, hold.parts = <<>>,
         Ordered(hold, Len(fed)), Segs(hold) = Segs(x),
         AllBefore(Segs(x), fed, ev, m, h, k),
         NEW p, Unfinished(ev, p, m, k),
         StartOrEmit(x, hold, ev, ContentWith(ev, extra), extra, p)
  PROVE  Faith(s', fed')
<1> DEFINE content == ContentWith(ev, extra)
           evs     == Append(fed, ev)
<1>1. CASE CanHold(hold, ev, content, p)
  <2> DEFINE y == Drain(Establish(hold, ev, content, extra, p))
  <2>1. AllBefore(Segs(hold), fed, ev, m, h, k)
    OBVIOUS
  <2>2. Faith(y, evs)
    BY <1>1, <2>1, EstablishedFaithful
  <2>3. s' = y /\ fed' = evs
    BY <1>1 DEF StartOrEmit, Feed
  <2> HIDE DEF y, evs
  <2> QED
    BY <2>2, <2>3
<1>2. CASE ~ CanHold(hold, ev, content, p)
  <2> DEFINE y == Drain(Emitted(x, ev, content))
  <2>1. Faith(y, evs)
    BY EmittedFaithful
  <2>2. s' = y /\ fed' = evs
    BY <1>2 DEF StartOrEmit, Feed
  <2> HIDE DEF y, evs
  <2> QED
    BY <2>1, <2>2
<1> QED
  BY <1>1, <1>2

-----------------------------------------------------------------------------
(* Each step, where no event is taken in part. *)

\* What is the same for every channel.
LEMMA SpeaksAlike ==
  ASSUME NEW a, NEW b, \A c : TextOf(c, b) = TextOf(c, a), NEW evs, Speaks(a, evs)
  PROVE  Speaks(b, evs)
BY DEF Speaks, Speech

StreamFaith == StreamInv /\ Faith(s, fed)

LEMMA FirstFaithful ==
  ASSUME StreamFaith, NEW ev \in Events, LeafFirst(ev) PROVE Faith(s', fed')
<1> DEFINE x    == HandoffWriter(s)
           hold == ReleaseAll(x)
<1>1. Good(s, Len(fed)) /\ fed \in Seq(Events) /\ Speaks(Segs(s), fed)
  BY GoodNow DEF StreamFaith, Faith
<1>2. /\ Envelope(ev) /\ s.carry = <<>>
      /\ StartOrEmit(x, hold, ev, ContentWith(ev, NoExtra(ev)), NoExtra(ev), TrailingPrefix(ev))
  BY DEF LeafFirst, WithinLeafContent
<1>3. Good(x, Len(fed)) /\ SameCarry(s, x) /\ x.held = <<>>
  BY <1>1, HandoffGood
<1>4. \A c : TextOf(c, Segs(x)) = TextOf(c, Segs(s))
  BY <1>1, HandoffSays DEF Good
<1> HIDE DEF x
<1>5. x \in Stream /\ Ordered(x, Len(fed)) /\ x.carry = <<>> /\ x.parts = <<>>
  BY <1>2, <1>3 DEF Good, Home, SameCarry
<1>6. /\ hold \in Stream /\ hold.held = <<>> /\ hold.queue = <<>> /\ hold.carry = <<>>
      /\ hold.parts = <<>> /\ Ordered(hold, Len(fed)) /\ Segs(hold) = Segs(x)
  BY <1>3, <1>5, ReleaseAllKeeps, ReleaseAllSays DEF SameCarry
<1> HIDE DEF hold
<1>7. Speaks(Segs(x), fed)
  BY <1>1, <1>4, SpeaksAlike
<1>8. AllBefore(Segs(x), fed, ev, 0, <<>>, 0)
  <2>1. Segs(x) \in Seq(SegmentSet)
    BY <1>5, SegsTyped
  <2> QED
    BY <1>1, <1>7, <2>1, SpeaksBefore
<1>9. Restores(ev, NoExtra(ev), 0, <<>>, 0) /\ Unfinished(ev, TrailingPrefix(ev), 0, 0)
  BY NoExtraRestores, TrailingUnfinished
<1> QED
  BY <1>1, <1>2, <1>3, <1>5, <1>6, <1>8, <1>9, StartFaithful

\* The carry is let go as it is.
LEMMA FlushedFaithful ==
  ASSUME StreamFaith
  PROVE  LET x == FlushHeld(HandoffWriter(s))
         IN  /\ x \in Stream /\ x.held = <<>> /\ x.queue = <<>> /\ x.carry = <<>> /\ x.parts = <<>>
             /\ Ordered(x, Len(fed)) /\ Speaks(Segs(x), fed) /\ Segs(x) \in Seq(SegmentSet)
<1> DEFINE h == HandoffWriter(s)
           x == FlushHeld(h)
<1>1. Good(s, Len(fed)) /\ Speaks(Segs(s), fed)
  BY GoodNow DEF StreamFaith, Faith
<1>2. h \in Stream /\ Ordered(h, Len(fed)) /\ h.held = <<>>
  BY <1>1, HandoffGood DEF Good
<1>3. \A c : TextOf(c, Segs(h)) = TextOf(c, Segs(s))
  BY <1>1, HandoffSays DEF Good
<1> HIDE DEF h
<1>4. /\ x \in Stream /\ x.held = <<>> /\ x.queue = <<>> /\ x.carry = <<>> /\ x.parts = <<>>
      /\ Ordered(x, Len(fed)) /\ Segs(x) = Segs(h)
  BY <1>2, FlushedGood, FlushHeldSays
<1> HIDE DEF x
<1>5. Speaks(Segs(x), fed)
  BY <1>1, <1>3, <1>4, SpeaksAlike
<1>6. Segs(x) \in Seq(SegmentSet)
  BY <1>4, SegsTyped
<1> QED
  BY <1>4, <1>5, <1>6 DEF x, h

LEMMA NoMatchFaithful ==
  ASSUME StreamFaith, NEW ev \in Events, LeafNoMatch(ev) PROVE Faith(s', fed')
<1> DEFINE x == FlushHeld(HandoffWriter(s))
<1>1. fed \in Seq(Events)
  BY DEF StreamFaith, StreamInv
<1>2. /\ Envelope(ev)
      /\ StartOrEmit(x, x, ev, ContentWith(ev, NoExtra(ev)), NoExtra(ev), TrailingPrefix(ev))
  BY DEF LeafNoMatch, WithinLeafContent
<1>3. /\ x \in Stream /\ x.held = <<>> /\ x.queue = <<>> /\ x.carry = <<>> /\ x.parts = <<>>
      /\ Ordered(x, Len(fed)) /\ Speaks(Segs(x), fed) /\ Segs(x) \in Seq(SegmentSet)
  BY FlushedFaithful
<1> HIDE DEF x
<1>4. AllBefore(Segs(x), fed, ev, 0, <<>>, 0)
  BY <1>1, <1>3, SpeaksBefore
<1>5. Restores(ev, NoExtra(ev), 0, <<>>, 0) /\ Unfinished(ev, TrailingPrefix(ev), 0, 0)
  BY NoExtraRestores, TrailingUnfinished
<1> QED
  BY <1>1, <1>2, <1>3, <1>4, <1>5, StartFaithful

LEMMA GiveUpFaithful ==
  ASSUME StreamFaith, NEW ev \in Events, LeafGiveUp(ev) PROVE Faith(s', fed')
<1> DEFINE x == FlushHeld(HandoffWriter(s))
           y == Drain(Emitted(x, ev, ContentWith(ev, NoExtra(ev))))
<1>1. fed \in Seq(Events)
  BY DEF StreamFaith, StreamInv
<1>2. Envelope(ev) /\ s' = y /\ fed' = Append(fed, ev)
  BY DEF LeafGiveUp, Continues, WithinLeafContent, Feed
<1>3. /\ x \in Stream /\ x.held = <<>> /\ x.carry = <<>> /\ x.parts = <<>>
      /\ Speaks(Segs(x), fed) /\ Segs(x) \in Seq(SegmentSet)
  BY FlushedFaithful
<1> HIDE DEF x
<1>4. AllBefore(Segs(x), fed, ev, 0, <<>>, 0)
  BY <1>1, <1>3, SpeaksBefore
<1>5. Restores(ev, NoExtra(ev), 0, <<>>, 0)
  BY NoExtraRestores
<1>6. Faith(y, Append(fed, ev))
  BY <1>1, <1>2, <1>3, <1>4, <1>5, EmittedFaithful
<1> HIDE DEF y
<1> QED
  BY <1>2, <1>6

LEMMA FlushFaithful ==
  ASSUME StreamFaith, Flush PROVE Faith(s', fed')
<1>1. s'.carry = <<>> /\ \A c : TextOf(c, Segs(s')) = TextOf(c, Segs(s))
  BY FlushSays DEF StreamFaith
<1>2. fed' = fed /\ Speaks(Segs(s), fed)
  BY DEF Flush, StreamFaith, Faith
<1>3. Speaks(Segs(s'), fed)
  BY <1>1, <1>2, SpeaksAlike
<1> QED
  BY <1>1, <1>2, <1>3 DEF Faith, Revocable

\* An event, and a segment, of no channel.
LEMMA SilentEvent ==
  ASSUME NEW evs \in Seq(Events), NEW ev \in Events, ~ Envelope(ev), NEW c
  PROVE  Spoken(c, Append(evs, ev)) = Spoken(c, evs)
<1> DEFINE a == Spoken(c, evs)
<1>1. a \in Seq(Plain)
  BY SpokenTyped
<1>2. Spoken(c, Append(evs, ev)) = a \o EventText(c, ev) /\ EventText(c, ev) = <<>>
  BY SpokenMore, EventTextIs
<1> HIDE DEF a
<1>3. a \o <<>> = a
  BY <1>1, ConcatEmptySeq
<1> QED
  BY <1>2, <1>3 DEF a

LEMMA SilentSegment ==
  ASSUME NEW segs \in Seq(SegmentSet), NEW seg \in SegmentSet, ~ seg.leaf, NEW c
  PROVE  TextOf(c, segs \o <<seg>>) = TextOf(c, segs)
<1> DEFINE a == TextOf(c, segs)
<1>1. TextOf(c, segs \o <<seg>>) = a \o SegText(c, seg) /\ a \in Seq(Cells)
  BY SpeechMore
<1>2. SegText(c, seg) = <<>>
  BY SegTextIs
<1> HIDE DEF a
<1>3. a \o <<>> = a
  BY <1>1, ConcatEmptySeq
<1> QED
  BY <1>1, <1>2, <1>3 DEF a

\* Nothing was said.
LEMMA StillFaithful ==
  ASSUME NEW x, NEW evs, Faith(x, evs), NEW y, NEW evs2,
         \A c : Spoken(c, evs2) = Spoken(c, evs),
         \A c : TextOf(c, Segs(y)) = TextOf(c, Segs(x)),
         \/ y.carry = <<>>
         \/ /\ y.carry = x.carry /\ y.key = x.key
            /\ \A c : TextOf(c, Segs(EditAll(y))) = TextOf(c, Segs(EditAll(x)))
  PROVE  Faith(y, evs2)
<1>1. Speaks(Segs(y), evs2)
  BY DEF Faith, Speaks, Speech
<1>2. CASE y.carry = <<>>
  BY <1>1, <1>2 DEF Faith, Revocable
<1>3. CASE y.carry # <<>>
  <2> DEFINE a == Segs(EditAll(x))
             b == Segs(EditAll(y))
  <2>1. y.carry = x.carry /\ y.key = x.key /\ \A c : TextOf(c, b) = TextOf(c, a)
    BY <1>3
  <2>2. /\ \E said \in Seq(Cells) : Spoken(x.key, evs) = said \o x.carry
        /\ UpToCarry(x, evs)
        /\ \A c \in Channels \ {x.key} : TextOf(c, a) = TextOf(c, Segs(x))
    BY <1>3, <2>1 DEF Faith, Revocable
  <2>3. UpToCarry(y, evs2)
    <3>1. \A w \in Seq(Plain) :
            Clean(Spoken(x.key, evs) \o w) /\ TokenLen(x.carry \o w) > Len(x.carry)
              => Speech(x.key, a) \o x.carry = Spoken(x.key, evs)
      BY <2>2 DEF UpToCarry
    <3>2. Speech(x.key, b) = Speech(x.key, a) /\ Spoken(x.key, evs2) = Spoken(x.key, evs)
      BY <2>1 DEF Speech
    <3> HIDE DEF a, b
    <3>3. \A w \in Seq(Plain) :
            Clean(Spoken(y.key, evs2) \o w) /\ TokenLen(y.carry \o w) > Len(y.carry)
              => Speech(y.key, b) \o y.carry = Spoken(y.key, evs2)
      BY <2>1, <3>1, <3>2
    <3> QED
      BY <3>3 DEF UpToCarry, b
  <2>4. \E said \in Seq(Cells) : Spoken(y.key, evs2) = said \o y.carry
    BY <2>1, <2>2
  <2>5. \A c \in Channels \ {y.key} : TextOf(c, b) = TextOf(c, Segs(y))
    BY <2>1, <2>2
  <2> QED
    BY <1>1, <2>3, <2>4, <2>5 DEF Faith, Revocable
<1> QED
  BY <1>2, <1>3

LEMMA OtherFaithful ==
  ASSUME StreamFaith, NEW ev \in Events, AcceptOther(ev) PROVE Faith(s', fed')
<1> DEFINE seg == Segment(ev, FALSE, <<>>, NoExtra(ev))
           x   == EmitSegment(s, seg)
           y   == IF Pending(x) THEN x ELSE ReleaseAll(x)
           evs == Append(fed, ev)
<1>1. Good(s, Len(fed)) /\ fed \in Seq(Events) /\ Faith(s, fed)
  BY GoodNow DEF StreamFaith
<1>2. ev.kind = "other" /\ ~ Envelope(ev) /\ s' = y /\ fed' = evs
  BY DEF AcceptOther, Envelope, Feed
<1>3. seg \in SegmentSet /\ ~ seg.leaf
  <2>1. ExtraOf(ev, NoExtra(ev))
    BY NoExtraOf
  <2>2. <<>> \in Seq(Seq(Cells)) /\ Len(<<>>) = IF ev.kind = "other" THEN 0 ELSE 1
    BY <1>2
  <2>3. NextSegment(seg, ev, <<>>)
    BY <1>1, <1>2, <2>1, <2>2, RawSegment
  <2>4. ~ seg.leaf
    BY DEF Segment
  <2> HIDE DEF seg
  <2> QED
    BY <2>3, <2>4 DEF NextSegment
<1> HIDE DEF seg
<1>4. s \in Stream /\ Home(s)
  BY <1>1 DEF Good
<1>5. /\ x \in Stream /\ SameCarry(s, x) /\ x.out = s.out /\ Segs(x) = Segs(s) \o <<seg>>
      /\ \A i \in 1 .. Len(s.queue) : x.queue[i] = s.queue[i]
      /\ Len(x.queue) = Len(s.queue) + 1
  BY <1>3, <1>4, EmitKeeps, EmitSays
<1>6. x.queue = Append(s.queue, seg)
  BY <1>4 DEF EmitSegment, Stream
<1> HIDE DEF x
<1>7. \A c : TextOf(c, Segs(x)) = TextOf(c, Segs(s))
  BY <1>3, <1>4, <1>5, SegsTyped, SilentSegment
<1>8. \A c : Spoken(c, evs) = Spoken(c, fed)
  BY <1>1, <1>2, SilentEvent
<1>9. CASE s.carry = <<>>
  <2>1. x.carry = <<>>
    BY <1>5, <1>9 DEF SameCarry
  <2>2. ReleaseAll(x).carry = <<>> /\ Segs(ReleaseAll(x)) = Segs(x)
    BY <1>5, <2>1, ReleaseAllKeeps, ReleaseAllSays DEF SameCarry
  <2>3. y.carry = <<>> /\ Segs(y) = Segs(x)
    BY <2>1, <2>2
  <2> HIDE DEF y, evs
  <2>4. Faith(y, evs)
    BY <1>1, <1>7, <1>8, <2>3, StillFaithful
  <2> QED
    BY <1>2, <2>4
<1>10. CASE s.carry # <<>>
  <2>1. 1 \in 1 .. Len(s.queue) /\ HasSpan(s.queue[1])
    BY <1>4, <1>10, CarryIsFirst
  <2>2. Pending(x)
    <3>1. DOMAIN x.queue = 1 .. Len(x.queue) /\ Len(s.queue) \in Nat
      BY <1>4, <1>5, StreamFields, LenProperties
    <3>2. 1 \in DOMAIN x.queue /\ HasSpan(x.queue[1])
      BY <1>5, <2>1, <3>1
    <3> QED
      BY <3>2 DEF Pending
  <2>3. y = x
    BY <2>2
  <2> DEFINE e == Segs(EditAll(s))
  <2>4. Segs(EditAll(x)) = e \o <<seg>>
    <3>1. x.parts = s.parts
      BY <1>5 DEF SameCarry
    <3> QED
      BY <1>3, <1>4, <1>5, <1>6, <3>1, CutMore
  <2>5. e \in Seq(SegmentSet)
    BY <1>4, EditAllKeeps, SegsTyped
  <2> HIDE DEF e
  <2>6. \A c : TextOf(c, Segs(EditAll(x))) = TextOf(c, e)
    BY <1>3, <2>4, <2>5, SilentSegment
  <2>7. x.carry = s.carry /\ x.key = s.key
    BY <1>5 DEF SameCarry
  <2> HIDE DEF evs
  <2>8. Faith(x, evs)
    <3>1. \A c : TextOf(c, Segs(EditAll(x))) = TextOf(c, Segs(EditAll(s)))
      BY <2>6 DEF e
    <3> QED
      BY <1>1, <1>7, <1>8, <2>7, <3>1, StillFaithful
  <2> QED
    BY <1>2, <2>3, <2>8
<1> QED
  BY <1>9, <1>10

LEMMA TextFaithful ==
  ASSUME StreamFaith, NEW ev \in Events, AcceptText(ev) PROVE Faith(s', fed')
<1> DEFINE x   == IF ev.kind = "json" THEN HandoffWriter(s) ELSE s
           y   == FlushHeld(x)
           r   == Release(y.held \o ev.leaves[1].text, ev.kind = "json")
           seg == Segment(ev, FALSE, <<r.out>>, NoExtra(ev))
           w   == [EmitSegment(y, seg) EXCEPT !.held = r.held]
           evs == Append(fed, ev)
<1>1. Good(s, Len(fed)) /\ fed \in Seq(Events) /\ Faith(s, fed)
  BY GoodNow DEF StreamFaith
<1>2. ~ Envelope(ev)
  BY DEF AcceptText
<1>3. \A c : TextOf(c, Segs(x)) = TextOf(c, Segs(s))
  BY <1>1, HandoffSays DEF Good
<1>4. WrittenFrom(x, ev)
  BY TextWritten DEF StreamFaith
<1> HIDE DEF x
<1>5. /\ x \in Stream /\ y \in Stream /\ y.queue = <<>> /\ seg \in SegmentSet /\ RawData(seg)
      /\ w.carry = <<>> /\ w.queue = <<seg>> /\ w.out = y.out /\ s' = w /\ fed' = evs
  BY <1>4 DEF WrittenFrom, Feed
<1> HIDE DEF seg, w
<1>6. Segs(y) = Segs(x)
  BY <1>5, FlushHeldSays
<1> HIDE DEF y
<1>7. Segs(y) \in Seq(SegmentSet) /\ Segs(w) = Segs(y) \o <<seg>>
  <2>1. Segs(w) = y.out \o <<seg>>
    BY <1>5 DEF Segs
  <2>2. Segs(y) = y.out
    <3>1. y.out \in Seq(SegmentSet) /\ Segs(y) = y.out \o <<>>
      BY <1>5, StreamFields DEF Segs
    <3> QED
      BY <3>1, ConcatEmptySeq
  <2> QED
    BY <1>5, <2>1, <2>2, SegsTyped
<1>8. \A c : TextOf(c, Segs(w)) = TextOf(c, Segs(s))
  <2>1. ~ seg.leaf
    BY <1>5 DEF RawData
  <2>2. \A c : TextOf(c, Segs(w)) = TextOf(c, Segs(y))
    BY <1>5, <1>7, <2>1, SilentSegment
  <2> QED
    BY <1>3, <1>6, <2>2
<1>9. \A c : Spoken(c, evs) = Spoken(c, fed)
  BY <1>1, <1>2, SilentEvent
<1> HIDE DEF evs
<1>10. Faith(w, evs)
  BY <1>1, <1>5, <1>8, <1>9, StillFaithful
<1> QED
  BY <1>5, <1>10

-----------------------------------------------------------------------------
(* The event that completes a placeholder.                                    *)

LEMMA FrontOfConcat ==
  ASSUME NEW S, NEW t \in Seq(S), NEW w \in Seq(S) PROVE SubSeq(t \o w, 1, Len(t)) = t
<1> DEFINE tw == t \o w
           n  == Len(t)
           a  == SubSeq(tw, 1, n)
<1>1. n \in Nat /\ Len(w) \in Nat /\ \A i \in 1 .. n : t[i] \in S
  BY LenProperties, ElementOfSeq
<1>2. \A i \in 1 .. n : tw[i] = t[i]
  BY <1>1, ConcatProperties
<1> HIDE DEF tw, n
<1>3. 1 \in Int /\ n \in Int /\ 1 <= n + 1 /\ \A i \in 1 .. n : tw[i] \in S
  BY <1>1, <1>2
<1>4. a \in Seq(S) /\ Len(a) = n /\ \A i \in 1 .. n : a[i] = tw[i]
  BY <1>1, <1>3, SubSeqProperties
<1> HIDE DEF a
<1> QED
  BY <1>2, <1>4, SeqEqual DEF n, a, tw

\* The placeholder is the carry and the first k cells of the leaf.
CompletedAs(ev, k) ==
  LET t == ev.leaves[Match(ev, s.key)].text
      T == Completed(ev)
  IN  /\ T \in Seq(Cells) /\ k \in 1 .. Len(t) /\ T = s.carry \o SubSeq(t, 1, k)
      /\ TokenLen(s.carry \o t) = Len(s.carry) + k

LEMMA CompletedIs ==
  ASSUME NEW ev \in Events, s \in Stream, Match(ev, s.key) # 0, Completed(ev) \in Mapped
  PROVE  CompletedAs(ev, Len(Completed(ev)) - Len(s.carry))
<1> DEFINE carry == s.carry
           text  == ev.leaves[Match(ev, s.key)].text
           both  == carry \o text
           n     == TokenLen(both)
           T     == Completed(ev)
           k     == Len(T) - Len(carry)
<1>1. /\ carry \in Seq(Cells) /\ text \in Seq(Cells) /\ Len(carry) \in Nat /\ Len(text) \in Nat
      /\ T \in Seq(Cells) /\ Len(T) \in Nat /\ k \in 1 .. Len(text)
  <2>1. Match(ev, s.key) \in 1 .. Len(ev.leaves)
    BY MatchLies
  <2>2. text \in Seq(Cells) /\ Len(text) \in Nat
    BY <2>1, EventLeaves
  <2> QED
    BY <2>2, StreamFields, CompletedLies, LenProperties
<1>2. T = SubSeq(both, 1, n) /\ n > Len(carry)
  <2>1. T # <<>>
    BY GrammarOK
  <2>2. T = IF n > Len(carry) THEN SubSeq(both, 1, n) ELSE <<>>
    BY DEF Completed, Combined
  <2> HIDE DEF n, T, both
  <2> QED
    BY <2>1, <2>2
<1> HIDE DEF carry, text, T
<1>3. both \in Seq(Cells) /\ Len(both) = Len(carry) + Len(text)
  BY <1>1, ConcatProperties
<1>4. n \in 0 .. Len(both)
  <2> HIDE DEF both
  <2> QED
    BY <1>3, TokenLies
<1> HIDE DEF n
<1>5. Len(T) = n
  <2> HIDE DEF both
  <2>1. SubSeq(both, 1, n) \in Seq(Cells) /\ Len(SubSeq(both, 1, n)) = n
    BY <1>3, <1>4, TextSplit
  <2> QED
    BY <1>2, <2>1
<1>6. k \in Nat /\ n = Len(carry) + k
  BY <1>1, <1>5
<1> HIDE DEF k
<1>7. SubSeq(both, 1, n) = carry \o SubSeq(text, 1, k)
  <2> DEFINE a == SubSeq(text, 1, k)
             b == From(text, k + 1)
  <2>1. a \in Seq(Cells) /\ b \in Seq(Cells) /\ a \o b = text /\ Len(a) = k
    <3>1. k \in 0 .. Len(text)
      BY <1>1, <1>6
    <3> QED
      BY <1>1, <3>1, TextSplit
  <2> HIDE DEF a, b
  <2> DEFINE c == carry \o a
  <2>2. c \in Seq(Cells) /\ Len(c) = n /\ Len(c) \in Nat
    BY <1>1, <1>6, <2>1, ConcatProperties, LenProperties
  <2>3. both = c \o b
    BY <1>1, <2>1, CellsRegroup
  <2> HIDE DEF c, both
  <2>4. SubSeq(c \o b, 1, Len(c)) = c
    BY <2>1, <2>2, FrontOfConcat
  <2> QED
    BY <2>2, <2>3, <2>4 DEF c, a
<1> QED
  BY <1>1, <1>2, <1>6, <1>7 DEF CompletedAs, T, k, carry, text, n, both

\* What precedes the event, with the carry's fragments deleted.
LEMMA CompletedBefore ==
  ASSUME StreamFaith, NEW ev \in Events, Envelope(ev), s.carry # <<>>, Match(ev, s.key) # 0,
         Completed(ev) \in Mapped
  PROVE  AllBefore(Segs(EditAll(s)), fed, ev, Match(ev, s.key), Completed(ev),
                   Len(Completed(ev)) - Len(s.carry))
<1> DEFINE m     == Match(ev, s.key)
           T     == Completed(ev)
           carry == s.carry
           k     == Len(T) - Len(carry)
           t     == ev.leaves[m].text
           base  == Segs(EditAll(s))
           key   == s.key
<1>1. s \in Stream /\ Home(s) /\ fed \in Seq(Events) /\ Speaks(Segs(s), fed) /\ Revocable(s, fed)
  BY DEF StreamFaith, Faith, StreamInv
<1>2. m \in 1 .. Len(ev.leaves) /\ key # NoIdentity /\ ev.leaves[m].id = key /\ m # 0
  BY MatchLies
<1>3. LeafOf(ev, key, m)
  BY <1>2, IdentityLeaf
<1>4. carry \in Seq(Cells) /\ carry # <<>> /\ Len(carry) \in Nat /\ t \in Seq(Cells) /\ t \in Seq(Plain)
      /\ Len(t) \in Nat
  BY <1>1, <1>2, StreamFields, EventLeaves, PlainText
<1>5. /\ k \in 1 .. Len(t) /\ T = carry \o SubSeq(t, 1, k)
      /\ TokenLen(carry \o t) = Len(carry) + k
  <2>1. CompletedAs(ev, k)
    BY <1>1, CompletedIs
  <2> QED
    BY <2>1 DEF CompletedAs
<1>6. /\ \E said \in Seq(Cells) : Spoken(key, fed) = said \o carry
      /\ UpToCarry(s, fed)
      /\ \A b \in Channels \ {key} : TextOf(b, base) = TextOf(b, Segs(s))
  BY <1>1, <1>4 DEF Revocable
<1>7. base \in Seq(SegmentSet)
  BY <1>1, EditAllKeeps, SegsTyped
<1> HIDE DEF carry, k, t, m, T, base
<1> DEFINE u == SubSeq(t, 1, k)
           v == From(t, k + 1)
<1>8. u \in Seq(Cells)
  BY <1>4, <1>5, TextSplit
<1> HIDE DEF u
\* The channel of the carry.
<1>9. ASSUME Clean(Spoken(key, Append(fed, ev)))
      PROVE  TokenLen(t) = 0 /\ Speech(key, base) \o T = Spoken(key, fed) \o u
  <2> DEFINE sp == Spoken(key, fed)
  <2>1. Spoken(key, Append(fed, ev)) = sp \o t
    <3>1. EventText(key, ev) = t
      BY <1>3, EventTextIs DEF t
    <3> QED
      BY <1>1, <3>1, SpokenMore
  <2>2. PICK said \in Seq(Cells) : sp = said \o carry
    BY <1>6
  <2> DEFINE both == carry \o t
  <2>3. both \in Seq(Cells) /\ (said \o carry) \o t = said \o both
    BY <1>4, CellsJoined, CellsRegroup
  <2>4. Clean(said \o both) /\ Clean(sp \o t)
    BY <1>9, <2>1, <2>2, <2>3
  <2>5. TokenLen(both) = Len(carry) + k /\ TokenLen(both) # 0 /\ TokenLen(both) > Len(carry)
    BY <1>4, <1>5
  <2>6. TokenLen(t) = 0
    <3> DEFINE j == Len(carry) + 1
    <3>1. Len(carry) # 0
      BY <1>4, EmptySeq
    <3>2. j \in 2 .. TokenLen(both)
      BY <1>4, <1>5, <2>5, <3>1
    <3>3. \A i \in 2 .. TokenLen(both) : TokenLen(From(both, i)) = 0
      <4> HIDE DEF both
      <4> QED
        BY <2>3, <2>4, <2>5, NothingCrosses
    <3>4. TokenLen(From(both, j)) = 0
      <4> HIDE DEF j, both
      <4> QED
        BY <3>2, <3>3
    <3>5. From(both, j) = From(t, 1)
      <4>1. 1 \in 1 .. Len(t) + 1
        BY <1>4
      <4> QED
        BY <1>4, <4>1, FromRest
    <3>6. From(t, 1) = t
      BY <1>4, SubSeqFull DEF From
    <3> HIDE DEF both, j
    <3> QED
      BY <3>4, <3>5, <3>6
  <2> DEFINE a == Speech(key, base)
  <2>7. a \o carry = sp
    <3>1. UpToCarry(s, fed) /\ s.carry = carry
      BY <1>6 DEF carry
    <3> QED
      BY <1>4, <2>4, <2>5, <3>1 DEF UpToCarry, base
  <2>8. a \in Seq(Cells)
    BY <1>7, TextOfIs, UnrestoredTyped DEF Speech
  <2> HIDE DEF a, both, sp
  <2>9. (a \o carry) \o u = a \o (carry \o u)
    BY <1>4, <1>8, <2>8, CellsRegroup
  <2> QED
    BY <1>5, <2>6, <2>7, <2>9 DEF a, sp, u
\* Every other one.
<1>10. ASSUME NEW c \in Channels \ {key}, Clean(Spoken(c, Append(fed, ev)))
       PROVE  Speech(c, base) = Spoken(c, fed)
  <2>1. Clean(Spoken(c, fed))
    BY <1>1, <1>10, CleanBefore
  <2>2. Speech(c, Segs(s)) = Spoken(c, fed)
    BY <1>1, <2>1 DEF Speaks
  <2> QED
    BY <1>6, <2>2 DEF Speech
<1>11. ASSUME NEW c \in Channels, Clean(Spoken(c, Append(fed, ev)))
       PROVE  Before(c, base, fed, ev, m, T, k)
  <2>1. CASE c = key
    <3>1. ~ Elsewhere(ev, c) /\ \A l : LeafOf(ev, c, l) => l = m
      BY <1>3, <2>1 DEF LeafOf, Elsewhere
    <3>2. TokenLen(t) = 0 /\ Speech(key, base) \o T = Spoken(key, fed) \o u
      BY <1>9, <1>11, <2>1
    <3>3. Bare(ev, m, k, m)
      BY <3>2 DEF Bare, t, m
    <3>4. Lead(m, m, T) = T /\ Taken(m, m, k) = k
      BY DEF Lead, Taken
    <3>5. Speech(c, base) \o Lead(m, m, T) = Spoken(c, fed) \o SubSeq(ev.leaves[m].text, 1, Taken(m, m, k))
      BY <2>1, <3>2, <3>4 DEF u, t, m
    <3> QED
      BY <3>1, <3>3, <3>5 DEF Before
  <2>2. CASE c # key
    <3> DEFINE a == Speech(c, base)
               b == Spoken(c, fed)
    <3>1. a = b
      BY <1>10, <1>11, <2>2
    <3>2. a \in Seq(Cells)
      BY <1>7, TextOfIs, UnrestoredTyped DEF Speech
    <3> HIDE DEF a, b
    <3>3. a \o <<>> = a
      BY <3>2, ConcatEmptySeq
    <3>4. ASSUME NEW l, LeafOf(ev, c, l)
          PROVE  /\ Bare(ev, m, k, l)
                 /\ a \o Lead(m, l, T) = b \o SubSeq(ev.leaves[l].text, 1, Taken(m, l, k))
      <4>1. l # m
        BY <1>2, <2>2, <3>4 DEF LeafOf
      <4>2. Lead(m, l, T) = <<>> /\ Taken(m, l, k) = 0
        BY <4>1 DEF Lead, Taken
      <4>3. SubSeq(ev.leaves[l].text, 1, 0) = <<>>
        BY SubSeqEmpty
      <4> QED
        BY <3>1, <3>3, <4>2, <4>3 DEF Bare
    <3> QED
      BY <3>1, <3>4 DEF Before, a, b
  <2> QED
    BY <2>1, <2>2
<1> QED
  BY <1>11 DEF AllBefore, base, m, T, k, carry

LEMMA CompleteFaithful ==
  ASSUME StreamFaith, NEW ev \in Events, LeafComplete(ev) PROVE Faith(s', fed')
<1> DEFINE m == Match(ev, s.key)
           T == Completed(ev)
           k == Len(T) - Len(s.carry)
           r == Backfilled(T, TRUE)
           e == EditAll(s)
           x == FlushHeld(e)
           extra == [NoExtra(ev) EXCEPT ![m] = <<[from |-> 1, to |-> k + 1, rep |-> r]>>]
<1>1. Good(s, Len(fed)) /\ fed \in Seq(Events) /\ s \in Stream /\ Home(s) /\ HeldHome(s)
      /\ Ordered(s, Len(fed))
  BY GoodNow DEF Good, StreamFaith
<1>2. Envelope(ev) /\ s.carry # <<>> /\ m # 0 /\ T \in Mapped
  BY DEF LeafComplete, Restorable, Continues
<1>3. s.held = <<>> /\ HandoffWriter(s) = s
  BY <1>1, <1>2, NoTailUnderCarry
<1>4. StartOrEmit(x, x, ev, ContentWith(ev, extra), extra, TrailingPrefixAfter(ev, m, k))
  BY <1>3 DEF LeafComplete
<1>5. e \in Stream /\ Ordered(e, Len(fed)) /\ e.held = <<>>
  BY <1>1, <1>3, EditAllKeeps, AlikeKeeps
<1>6. AllBefore(Segs(e), fed, ev, m, T, k)
  BY <1>2, CompletedBefore
<1> HIDE DEF e
<1>7. /\ x \in Stream /\ x.held = <<>> /\ x.queue = <<>> /\ x.carry = <<>> /\ x.parts = <<>>
      /\ Ordered(x, Len(fed)) /\ Segs(x) = Segs(e)
  BY <1>5, FlushedGood, FlushHeldSays
<1> HIDE DEF x
<1>8. T \in Seq(Cells) /\ m \in 1 .. Len(ev.leaves) /\ k \in 1 .. Len(ev.leaves[m].text) /\ k \in Nat
  <2>1. CompletedAs(ev, k)
    BY <1>1, <1>2, CompletedIs
  <2>2. m \in 1 .. Len(ev.leaves)
    BY <1>2, MatchLies
  <2>3. Len(ev.leaves[m].text) \in Nat
    BY <2>2, EventLeaves
  <2>4. T \in Seq(Cells) /\ k \in 1 .. Len(ev.leaves[m].text)
    BY <2>1 DEF CompletedAs
  <2> HIDE DEF k, m
  <2>5. k \in Nat
    BY <2>3, <2>4
  <2> QED
    BY <2>2, <2>4, <2>5
<1>9. r \in Seq(Cells) /\ Unrestored(r) = T
  <2> DEFINE x0 == Secret[T].json
  <2>1. r = <<x0>>
    BY <1>2 DEF Backfilled
  <2>2. x0 \in Cells /\ Unrestored(<<x0>>) = T
    <3>1. x0 \in {Secret[T].raw, Secret[T].json}
      OBVIOUS
    <3> HIDE DEF x0, T
    <3> QED
      BY <1>2, <3>1, SecretCell
  <2> HIDE DEF x0, r, T
  <2>3. <<x0>> \in Seq(Cells)
    BY <2>2
  <2> QED
    BY <2>1, <2>2, <2>3
<1> HIDE DEF m, T, k, r
<1>10. Restores(ev, extra, m, T, k)
  <2>1. /\ ExtraOf(ev, extra)
        /\ \A l \in 1 .. Len(ev.leaves) :
             extra[l] = IF l = m THEN <<[from |-> 1, to |-> k + 1, rep |-> r]>> ELSE <<>>
    <3>1. RestoredBy(extra, ev, m, k, r)
      BY <1>8, <1>9, RestoreExtra
    <3> QED
      BY <3>1 DEF RestoredBy
  <2> HIDE DEF extra
  <2>2. ASSUME NEW l \in 1 .. Len(ev.leaves)
        PROVE  Replacing(ev.leaves[l].text, extra[l], Lead(m, l, T), Taken(m, l, k))
    <3>1. CASE l = m
      <4>1. Lead(m, l, T) = T /\ Taken(m, l, k) = k /\ extra[l] = <<[from |-> 1, to |-> k + 1, rep |-> r]>>
        BY <2>1, <3>1 DEF Lead, Taken
      <4> QED
        BY <1>8, <1>9, <3>1, <4>1 DEF Replacing
    <3>2. CASE l # m
      <4>1. Lead(m, l, T) = <<>> /\ Taken(m, l, k) = 0 /\ extra[l] = <<>>
        BY <2>1, <3>2 DEF Lead, Taken
      <4> QED
        BY <4>1 DEF Replacing
    <3> QED
      BY <3>1, <3>2
  <2> QED
    BY <1>8, <2>1, <2>2 DEF Restores
<1> HIDE DEF extra
<1>11. Unfinished(ev, TrailingPrefixAfter(ev, m, k), m, k)
  BY <1>8, TrailingAfterUnfinished
<1> DEFINE p == TrailingPrefixAfter(ev, m, k)
<1> HIDE DEF p
<1>12. AllBefore(Segs(x), fed, ev, m, T, k) /\ Unfinished(ev, p, m, k)
       /\ StartOrEmit(x, x, ev, ContentWith(ev, extra), extra, p)
  BY <1>4, <1>6, <1>7, <1>11 DEF p
<1> QED
  BY <1>1, <1>2, <1>7, <1>10, <1>12, StartFaithful

-----------------------------------------------------------------------------
(* The event that extends the carry.                                          *)

\* What goes on from the carry into a placeholder begins none of its own.
LEMMA ContinuedBare ==
  ASSUME NEW said \in Seq(Cells), NEW carry \in Seq(Cells), carry # <<>>, NEW rest \in Seq(Cells),
         Clean(said \o (carry \o rest)), TokenLen(carry \o rest) > Len(carry)
  PROVE  TokenLen(rest) = 0
<1> DEFINE both == carry \o rest
           j    == Len(carry) + 1
           n    == TokenLen(both)
<1>1. both \in Seq(Cells) /\ Len(carry) \in Nat /\ Len(rest) \in Nat /\ Len(carry) # 0
  BY CellsJoined, LenProperties, EmptySeq
<1>2. n \in Nat
  <2>1. n \in 0 .. Len(both)
    <3> HIDE DEF both
    <3> QED
      BY <1>1, TokenLies
  <2> QED
    BY <2>1
<1>3. n > Len(carry) /\ Clean(said \o both)
  OBVIOUS
<1>4. From(both, j) = rest
  <2>1. 1 \in 1 .. Len(rest) + 1
    BY <1>1
  <2>2. From(both, j) = From(rest, 1)
    BY <2>1, FromRest
  <2>3. From(rest, 1) = rest
    BY SubSeqFull DEF From
  <2> QED
    BY <2>2, <2>3
<1>5. n # 0 /\ j \in 2 .. n
  <2> HIDE DEF n
  <2> QED
    BY <1>1, <1>2, <1>3
<1>6. \A i \in 2 .. n : TokenLen(From(both, i)) = 0
  <2> HIDE DEF both
  <2> QED
    BY <1>1, <1>3, <1>5, NothingCrosses
<1> HIDE DEF both, j, n
<1> QED
  BY <1>4, <1>5, <1>6

\* What ends the carry in a placeholder, after one event more.
LEMMA UpToMore ==
  ASSUME NEW said \in Seq(Cells), NEW carry \in Seq(Cells), carry # <<>>,
         NEW t \in Seq(Plain), NEW w \in Seq(Plain),
         Clean(((said \o carry) \o t) \o w), TokenLen((carry \o t) \o w) > Len(carry \o t)
  PROVE  /\ t \o w \in Seq(Plain) /\ TokenLen(t) = 0
         /\ Clean((said \o carry) \o (t \o w)) /\ TokenLen(carry \o (t \o w)) > Len(carry)
<1> DEFINE rest == t \o w
           sp   == said \o carry
<1>1. t \in Seq(Cells) /\ w \in Seq(Cells)
  BY PlainStays
<1>2. rest \in Seq(Plain) /\ rest \in Seq(Cells) /\ sp \in Seq(Cells)
  <2>1. rest \in Seq(Plain)
    BY ConcatProperties
  <2> QED
    BY <1>1, <2>1, CellsJoined
<1>3. (carry \o t) \o w = carry \o rest /\ (sp \o t) \o w = sp \o rest /\ sp \o rest = said \o (carry \o rest)
  <2>1. (carry \o t) \o w = carry \o rest
    BY <1>1, CellsRegroup
  <2>2. (sp \o t) \o w = sp \o rest
    <3> HIDE DEF sp
    <3> QED
      BY <1>1, <1>2, CellsRegroup
  <2>3. sp \o rest = said \o (carry \o rest)
    <3> HIDE DEF rest
    <3> QED
      BY <1>2, CellsRegroup
  <2> QED
    BY <2>1, <2>2, <2>3
<1>4. Len(carry \o t) = Len(carry) + Len(t) /\ Len(carry) \in Nat /\ Len(t) \in Nat
  BY <1>1, ConcatProperties, LenProperties
<1>5. TokenLen(carry \o rest) > Len(carry)
  <2> DEFINE n == TokenLen(carry \o rest)
             b == carry \o rest
  <2>1. b \in Seq(Cells)
    BY <1>2, CellsJoined
  <2>2. TokenLen(b) \in 0 .. Len(b)
    <3> HIDE DEF b
    <3> QED
      BY <2>1, TokenLies
  <2>3. n > Len(carry) + Len(t) /\ n \in Nat
    <3>1. TokenLen(b) > Len(carry) + Len(t)
      BY <1>3, <1>4
    <3> QED
      BY <2>2, <3>1
  <2> HIDE DEF n
  <2> QED
    BY <1>4, <2>3 DEF n
<1>6. Clean(said \o (carry \o rest)) /\ Clean(sp \o rest)
  BY <1>3
<1>7. TokenLen(rest) = 0
  <2> HIDE DEF rest
  <2> QED
    BY <1>2, <1>5, <1>6, ContinuedBare
<1>8. TokenLen(t) = 0
  BY <1>1, <1>7, TokenStays
<1> QED
  BY <1>2, <1>5, <1>6, <1>8

LEMMA ExtendFaithful ==
  ASSUME StreamFaith, NEW ev \in Events, LeafExtend(ev) PROVE Faith(s', fed')
<1> DEFINE m     == Match(ev, s.key)
           t     == ev.leaves[m].text
           key   == s.key
           carry == s.carry
           seg   == Segment(ev, TRUE, WithinLeafContent(ev), NoExtra(ev))
           y     == Extended(ev)
           part  == [seg |-> Len(s.queue) + 1, leaf |-> m, from |-> 1, to |-> Len(t) + 1]
           r     == EditHeld(seg, part)
           was   == Segs(s)
           base  == Segs(EditAll(s))
           evs   == Append(fed, ev)
           sp    == Spoken(key, fed)
           z     == carry \o t
<1>1. /\ s \in Stream /\ Home(s) /\ HeldHome(s) /\ fed \in Seq(Events)
      /\ Speaks(was, fed) /\ Revocable(s, fed) /\ StreamInv
  BY DEF StreamFaith, Faith, StreamInv
<1>2. Envelope(ev) /\ carry # <<>> /\ m # 0
  BY DEF LeafExtend, Continues
<1>3. HandoffWriter(s) = s
  BY <1>1, <1>2, NoTailUnderCarry
<1>4. /\ y \in Stream /\ Home(y) /\ seg.leaf
      /\ y.out = s.out /\ y.queue = Append(s.queue, seg)
      /\ y.carry = z /\ y.carry # <<>> /\ y.key = key /\ y.parts = Append(s.parts, part)
      /\ s' = Drain(y) /\ fed' = evs
  <2>1. ExtendedAs(y, ev) /\ Feed(ev, Drain(y), LeftOver(ev, {m}))
    BY <1>1, ExtendedIs
  <2> HIDE DEF y
  <2> QED
    BY <1>3, <2>1 DEF ExtendedAs, Feed
<1> HIDE DEF y
<1>5. s' = y
  BY <1>4, DrainStays
<1>6. /\ m \in 1 .. Len(ev.leaves) /\ m \in Nat /\ key # NoIdentity /\ ev.leaves[m].id = key
      /\ t \in Seq(Cells) /\ t \in Seq(Plain) /\ Len(t) \in Nat /\ key \in Identities
  <2>1. m \in 1 .. Len(ev.leaves) /\ key # NoIdentity /\ ev.leaves[m].id = key
    BY <1>2, MatchLies
  <2>2. t \in Seq(Cells) /\ Len(t) \in Nat /\ t \in Seq(Plain) /\ Len(ev.leaves) \in Nat
        /\ ev.leaves[m].id \in Identities
    BY <2>1, EventLeaves, PlainText
  <2> QED
    BY <2>1, <2>2
<1>7. LeafOf(ev, key, m)
  BY <1>6, IdentityLeaf
<1>8. carry \in Seq(Cells) /\ Len(s.queue) \in Nat
  BY <1>1, StreamFields
<1>9. /\ \E said \in Seq(Cells) : sp = said \o carry
      /\ UpToCarry(s, fed)
      /\ \A b \in Channels \ {key} : TextOf(b, base) = TextOf(b, was)
  BY <1>1, <1>2 DEF Revocable
<1>10. was \in Seq(SegmentSet) /\ base \in Seq(SegmentSet)
  BY <1>1, EditAllKeeps, SegsTyped
<1>11. /\ Rendered(seg, ev, NoExtra(ev)) /\ Restores(ev, NoExtra(ev), 0, <<>>, 0)
  <2>1. ExtraOf(ev, NoExtra(ev))
    BY NoExtraOf
  <2>2. Rendered(Segment(ev, TRUE, ContentWith(ev, NoExtra(ev)), NoExtra(ev)), ev, NoExtra(ev))
    BY <1>1, <1>2, <2>1, RenderedSegment
  <2> QED
    BY <2>2, NoExtraRestores DEF WithinLeafContent
<1> HIDE DEF seg
<1>12. seg \in SegmentSet /\ seg.leaf /\ seg.ev = ev /\ seg.content = ContentWith(ev, NoExtra(ev))
  BY <1>11 DEF Rendered
<1>13. /\ part \in Part /\ part.seg = Len(s.queue) + 1 /\ part.leaf = m /\ part.from = 1
       /\ part.to = Len(t) + 1
  <2>1. Len(t) + 1 \in Nat /\ Len(s.queue) + 1 \in Nat
    BY <1>6, <1>8
  <2> HIDE DEF m, t
  <2> QED
    BY <1>6, <2>1 DEF Part
<1> HIDE DEF part
<1>14. FragmentOf(ev, NoExtra(ev), 0, <<>>, 0, seg, part)
  <2>1. Taken(0, part.leaf, 0) = 0
    BY DEF Taken
  <2>2. part.from \in 0 + 1 .. part.to
    <3> HIDE DEF t
    <3> QED
      BY <1>6, <1>13
  <2>3. part.leaf \in 1 .. Len(ev.leaves) /\ part.to = Len(ev.leaves[part.leaf].text) + 1
    BY <1>6, <1>13
  <2> QED
    BY <1>11, <1>13, <2>1, <2>2, <2>3 DEF FragmentOf
<1>15. /\ r \in SegmentSet
       /\ Uncrossed(t, 1) => Unrestored(SegText(key, r)) = <<>>
       /\ \A b : b # NoIdentity /\ ~ LeafOf(ev, b, m) => SegText(b, r) = SegText(b, seg)
  <2>1. PartSays(ev, 0, <<>>, 0, seg, part)
    BY <1>14, PartCut
  <2>2. Bare(ev, 0, 0, m) /\ Lead(0, m, <<>>) = <<>> /\ Taken(0, m, 0) = 0
    BY DEF Bare, Lead, Taken
  <2>3. SubSeq(t, 0 + 1, 1 - 1) = <<>> /\ <<>> \o <<>> = <<>>
    BY SubSeqEmpty
  <2>4. /\ r \in SegmentSet
        /\ \A b : b # NoIdentity /\ ~ LeafOf(ev, b, m) => SegText(b, r) = SegText(b, seg)
    BY <1>13, <2>1 DEF PartSays
  <2>5. ASSUME Uncrossed(t, 1) PROVE Unrestored(SegText(key, r)) = <<>>
    <3>1. Unrestored(SegText(key, r)) = Lead(0, m, <<>>) \o SubSeq(t, Taken(0, m, 0) + 1, 1 - 1)
      BY <1>7, <1>13, <2>1, <2>2, <2>5 DEF PartSays
    <3> QED
      BY <2>2, <2>3, <3>1
  <2> QED
    BY <2>4, <2>5
<1>16. Segs(y) = was \o <<seg>>
  <2> DEFINE o == s.out
             q == s.queue
             g == <<seg>>
  <2>1. o \in Seq(SegmentSet) /\ q \in Seq(SegmentSet) /\ g \in Seq(SegmentSet)
    BY <1>1, <1>12, StreamFields
  <2>2. Segs(y) = o \o Append(q, seg) /\ was = o \o q
    BY <1>4 DEF Segs
  <2> HIDE DEF o, q, was
  <2>3. Append(q, seg) = q \o g
    BY <1>12, <2>1, AppendIsConcat
  <2> HIDE DEF g
  <2>4. o \o (q \o g) = (o \o q) \o g
    BY <2>1, SegmentsRegroup
  <2> QED
    BY <2>2, <2>3, <2>4 DEF g
<1>17. Segs(EditAll(y)) = base \o <<r>>
  <2>1. \E p \in Part : /\ y.parts = Append(s.parts, p) /\ p.seg = Len(s.queue) + 1
                        /\ r = EditHeld(seg, p)
    BY <1>4, <1>13 DEF part
  <2>2. y.out = s.out /\ y.queue = Append(s.queue, seg)
    BY <1>4
  <2> HIDE DEF r
  <2> QED
    BY <1>1, <1>4, <1>12, <1>15, <2>1, <2>2, CutMore
<1> HIDE DEF was, base, r, m, t, evs, sp
<1>18. Speaks(Segs(y), evs)
  <2>1. AllBefore(was, fed, ev, 0, <<>>, 0)
    BY <1>1, <1>10, SpeaksBefore
  <2>2. Speaks(was \o <<seg>>, evs)
    BY <1>1, <1>2, <1>10, <1>11, <1>12, <2>1, SpeaksMore DEF evs
  <2> QED
    BY <1>16, <2>2
<1>19. Spoken(key, evs) = sp \o t /\ sp \in Seq(Cells)
  <2>1. sp \in Seq(Plain)
    BY <1>1, SpokenTyped DEF sp
  <2>2. EventText(key, ev) = t
    BY <1>2, <1>7, EventTextIs DEF t
  <2>3. Spoken(key, evs) = sp \o EventText(key, ev)
    BY <1>1, SpokenMore DEF sp, evs
  <2> QED
    BY <2>1, <2>2, <2>3, PlainStays
<1>20. PICK said \in Seq(Cells) : sp = said \o carry
  BY <1>9
<1> HIDE DEF carry, z
<1>21. Spoken(key, evs) = said \o z
  BY <1>6, <1>8, <1>19, <1>20, CellsRegroup DEF z
<1>22. ASSUME NEW w \in Seq(Plain), Clean(Spoken(key, evs) \o w), TokenLen(z \o w) > Len(z)
       PROVE  Speech(key, base \o <<r>>) \o z = Spoken(key, evs)
  <2> DEFINE rest == t \o w
             a    == Speech(key, base)
             b    == Unrestored(SegText(key, r))
  <2>1. /\ rest \in Seq(Plain) /\ TokenLen(t) = 0
        /\ Clean(sp \o rest) /\ TokenLen(carry \o rest) > Len(carry)
    <3>1. Clean(((said \o carry) \o t) \o w) /\ TokenLen((carry \o t) \o w) > Len(carry \o t)
      BY <1>19, <1>20, <1>22 DEF z
    <3>2. carry # <<>>
      BY <1>2 DEF carry
    <3> QED
      BY <1>6, <1>8, <1>20, <3>1, <3>2, UpToMore
  <2> HIDE DEF rest
  <2>2. a \o carry = sp
    BY <1>9, <2>1 DEF UpToCarry, base, carry, sp
  <2>3. Uncrossed(t, 1)
    <3>1. From(t, 1) = t
      BY <1>6, SubSeqFull DEF From
    <3>2. \A i \in 1 .. 1 - 1 : TokenLen(From(t, i)) <= 1 - i
      OBVIOUS
    <3> QED
      BY <2>1, <3>1, <3>2 DEF Uncrossed
  <2>4. b = <<>>
    BY <1>15, <2>3
  <2>5. Speech(key, base \o <<r>>) = a \o b /\ a \in Seq(Cells)
    BY <1>10, <1>15, SpeechMore
  <2> HIDE DEF a, b
  <2>6. a \o <<>> = a
    BY <2>5, ConcatEmptySeq
  <2>7. a \o (carry \o t) = (a \o carry) \o t
    BY <1>6, <1>8, <2>5, CellsRegroup
  <2> QED
    BY <1>19, <2>2, <2>4, <2>5, <2>6, <2>7 DEF z
<1>23. UpToCarry(y, evs)
  <2>1. y.key = key /\ y.carry = z /\ Segs(EditAll(y)) = base \o <<r>>
    BY <1>4, <1>17
  <2> QED
    BY <1>22, <2>1 DEF UpToCarry
<1>24. ASSUME NEW b \in Channels \ {key} PROVE TextOf(b, Segs(EditAll(y))) = TextOf(b, Segs(y))
  <2>1. b # NoIdentity /\ ~ LeafOf(ev, b, m)
    BY <1>6, <1>24 DEF Channels, LeafOf, m
  <2>2. SegText(b, r) = SegText(b, seg) /\ TextOf(b, base) = TextOf(b, was)
    BY <1>9, <1>15, <1>24, <2>1
  <2>3. /\ TextOf(b, base \o <<r>>) = TextOf(b, base) \o SegText(b, r)
        /\ TextOf(b, was \o <<seg>>) = TextOf(b, was) \o SegText(b, seg)
    BY <1>10, <1>12, <1>15, SpeechMore
  <2> QED
    BY <1>16, <1>17, <2>2, <2>3
<1>25. Revocable(y, evs)
  <2>1. \E w \in Seq(Cells) : Spoken(y.key, evs) = w \o y.carry
    BY <1>4, <1>20, <1>21
  <2>2. \A b \in Channels \ {y.key} : TextOf(b, Segs(EditAll(y))) = TextOf(b, Segs(y))
    BY <1>4, <1>24
  <2> QED
    BY <1>23, <2>1, <2>2 DEF Revocable
<1> QED
  BY <1>4, <1>5, <1>18, <1>25 DEF Faith

-----------------------------------------------------------------------------
(* What was fed of a channel is what the segments say of it, always.          *)

LEMMA NothingSaid == \A c : TextOf(c, <<>>) = <<>> /\ Spoken(c, <<>>) = <<>>
<1>1. <<>> \in Seq(SegmentSet) /\ Len(<<>>) = 0
  OBVIOUS
<1>2. ASSUME NEW f PROVE Pieces(f, <<>>) = <<>>
  BY <1>1 DEF Pieces
<1> QED
  BY <1>1, <1>2, TextOfIs, JoinNone DEF Spoken

LEMMA StartsFaithful == Init => StreamFaith
<1> SUFFICES ASSUME Init PROVE StreamFaith
  OBVIOUS
<1>1. StreamInv
  BY StartsWell
<1>2. s.out = <<>> /\ s.queue = <<>> /\ s.carry = <<>> /\ fed = <<>>
  BY DEF Init
<1>3. Segs(s) = <<>>
  <2>1. <<>> \o <<>> = <<>>
    OBVIOUS
  <2> QED
    BY <1>2, <2>1 DEF Segs
<1>4. Speaks(<<>>, <<>>)
  BY NothingSaid, UnrestoredNone DEF Speaks, Speech
<1> QED
  BY <1>1, <1>2, <1>3, <1>4 DEF StreamFaith, Faith, Revocable

LEMMA StepFaithful ==
  ASSUME StreamFaith, [Next]_vars PROVE StreamFaith'
<1>1. StreamInv'
  BY StepKeeps DEF StreamFaith
<1>2. ASSUME Flush PROVE Faith(s', fed')
  BY <1>2, FlushFaithful
<1>3. ASSUME NEW ev \in Events, Accept(ev) PROVE Faith(s', fed')
  <2>1. CASE AcceptOther(ev)
    BY <2>1, OtherFaithful
  <2>2. CASE AcceptText(ev)
    BY <2>2, TextFaithful
  <2>3. CASE LeafFirst(ev)
    BY <2>3, FirstFaithful
  <2>4. CASE LeafNoMatch(ev)
    BY <2>4, NoMatchFaithful
  <2>5. CASE LeafComplete(ev)
    BY <2>5, CompleteFaithful
  <2>6. CASE LeafGiveUp(ev)
    BY <2>6, GiveUpFaithful
  <2>7. CASE LeafExtend(ev)
    BY <2>7, ExtendFaithful
  <2> QED
    BY <1>3, <2>1, <2>2, <2>3, <2>4, <2>5, <2>6, <2>7 DEF Accept, AcceptLeaf
<1>4. ASSUME UNCHANGED vars PROVE Faith(s', fed')
  <2>1. s' = s /\ fed' = fed /\ Faith(s, fed)
    BY <1>4, Zenon DEF vars, StreamFaith
  <2> QED
    BY <2>1
<1>5. Faith(s', fed')
  BY <1>2, <1>3, <1>4 DEF Next
<1> QED
  BY <1>1, <1>5 DEF StreamFaith

LEMMA AlwaysFaithful == Spec => []StreamFaith
BY StartsFaithful, StepFaithful, PTL DEF Spec

LEMMA FaithfulConserves == StreamFaith => Conserved
<1> SUFFICES ASSUME StreamFaith PROVE Conserved
  OBVIOUS
<1>1. fed \in Seq(Events) /\ Speaks(Segs(s), fed)
  BY DEF StreamFaith, StreamInv, Faith
<1>2. \A c : FedTo(c, 1, Len(fed)) = Spoken(c, fed)
  BY <1>1, FedIs DEF Fed
<1>3. Segments = Segs(s)
  BY DEF Segments, Segs
<1> QED
  BY <1>1, <1>2, <1>3 DEF Conserved, Speaks, Speech, Channels

\* With every secret written back as its placeholder, the events of a channel
\* say what the upstream said, whatever accept, acceptLeaf and editHeld held,
\* edited, completed or gave up in between, over every stream: nothing is lost,
\* doubled, fabricated or moved to another channel.
THEOREM StreamConserved == Spec => []Conserved
BY AlwaysFaithful, FaithfulConserves, PTL

-----------------------------------------------------------------------------
(* Raw text: what the events that are no envelopes say, and what became of it. *)

\* What segments that are no envelopes say, and what their events asked for.
RawText(ev) == IF ev.kind = "other" THEN <<>> ELSE ev.leaves[1].text
Saying      == [seg \in SegmentSet |-> Join(seg.content)]
Asking      == [ev \in Events |-> RawText(ev)]
RawSaid(segs)  == Join(Pieces(Saying, segs))
RawAsked(evs)  == Join(Pieces(Asking, evs))

LEMMA RawMakers == Saying \in Makers(SegmentSet, Cells) /\ Asking \in Makers(Events, Plain)
<1>1. ASSUME NEW seg \in SegmentSet PROVE Join(seg.content) \in Seq(Cells)
  <2>1. seg.content \in Seq(Seq(Cells))
    BY DEF SegmentSet, Record
  <2> QED
    BY <2>1, JoinedTyped
<1>2. ASSUME NEW ev \in Events PROVE RawText(ev) \in Seq(Plain)
  <2>1. CASE ev.kind = "other"
    BY <2>1 DEF RawText
  <2>2. CASE ev.kind # "other"
    <3>1. Len(ev.leaves) \in Nat /\ DOMAIN ev.leaves = 1 .. Len(ev.leaves)
      BY EventLeaves
    <3>2. 1 \in 1 .. Len(ev.leaves)
      <4>1. CASE Envelope(ev)
        <5>1. PICK i \in 1 .. Len(ev.leaves) : TRUE
          BY <3>1, <4>1 DEF Envelope, Identified
        <5> QED
          BY <3>1, <5>1
      <4>2. CASE ~ Envelope(ev)
        BY <2>2, <3>1, <4>2, StreamOK
      <4> QED
        BY <4>1, <4>2
    <3> QED
      BY <2>2, <3>2, PlainText DEF RawText
  <2> QED
    BY <2>1, <2>2
<1> QED
  BY <1>1, <1>2 DEF Saying, Asking, Makers

LEMMA PiecesOne ==
  ASSUME NEW A, NEW S, NEW f \in Makers(A, S), NEW x \in A
  PROVE  Join(Pieces(f, <<x>>)) = f[x] /\ Join(Pieces(f, <<>>)) = <<>>
<1> DEFINE t == <<x>>
           p == Pieces(f, t)
<1>1. t \in Seq(A) /\ Len(t) = 1 /\ t[1] = x
  OBVIOUS
<1> HIDE DEF t
<1>2. p \in Seq(Seq(S)) /\ Len(p) = 1 /\ p[1] = f[x]
  <2>1. p \in Seq(Seq(S)) /\ Len(p) = Len(t) /\ \A i \in 1 .. Len(t) : p[i] = f[t[i]]
    BY <1>1, PiecesTyped
  <2> HIDE DEF p
  <2> QED
    BY <1>1, <2>1
<1> HIDE DEF p
<1>3. Join(p) = p[1]
  <2>1. 1 \in 1 .. Len(p) /\ \A i \in 1 .. Len(p) : i # 1 => p[i] = <<>>
    BY <1>2
  <2> QED
    BY <1>2, <2>1, JoinSole
<1>4. Pieces(f, <<>>) = <<>>
  BY DEF Pieces
<1> QED
  BY <1>2, <1>3, <1>4, JoinNone DEF p, t

LEMMA SaidTyped ==
  ASSUME NEW segs \in Seq(SegmentSet) PROVE RawSaid(segs) \in Seq(Cells)
BY RawMakers, PiecesTyped, JoinedTyped DEF RawSaid

LEMMA AskedTyped ==
  ASSUME NEW evs \in Seq(Events) PROVE RawAsked(evs) \in Seq(Plain)
BY RawMakers, PiecesTyped, JoinedTyped DEF RawAsked

LEMMA SaidConcat ==
  ASSUME NEW a \in Seq(SegmentSet), NEW b \in Seq(SegmentSet) PROVE RawSaid(a \o b) = RawSaid(a) \o RawSaid(b)
<1> DEFINE f == Saying
<1>1. f \in Makers(SegmentSet, Cells)
  BY RawMakers
<1> HIDE DEF f
<1>2. Join(Pieces(f, a \o b)) = Join(Pieces(f, a)) \o Join(Pieces(f, b))
  BY <1>1, PiecesConcat
<1> QED
  BY <1>2 DEF RawSaid, f

LEMMA AskedConcat ==
  ASSUME NEW a \in Seq(Events), NEW b \in Seq(Events) PROVE RawAsked(a \o b) = RawAsked(a) \o RawAsked(b)
<1> DEFINE f == Asking
<1>1. f \in Makers(Events, Plain)
  BY RawMakers
<1> HIDE DEF f
<1>2. Join(Pieces(f, a \o b)) = Join(Pieces(f, a)) \o Join(Pieces(f, b))
  BY <1>1, PiecesConcat
<1> QED
  BY <1>2 DEF RawAsked, f

LEMMA SaidOne ==
  ASSUME NEW seg \in SegmentSet PROVE RawSaid(<<seg>>) = Join(seg.content) /\ RawSaid(<<>>) = <<>>
<1> DEFINE f == Saying
<1>1. f \in Makers(SegmentSet, Cells) /\ f[seg] = Join(seg.content)
  BY RawMakers DEF Saying
<1> HIDE DEF f
<1>2. Join(Pieces(f, <<seg>>)) = f[seg] /\ Join(Pieces(f, <<>>)) = <<>>
  BY <1>1, PiecesOne
<1> QED
  BY <1>1, <1>2 DEF RawSaid, f

LEMMA AskedOne ==
  ASSUME NEW ev \in Events PROVE RawAsked(<<ev>>) = RawText(ev) /\ RawAsked(<<>>) = <<>>
<1> DEFINE f == Asking
<1>1. f \in Makers(Events, Plain) /\ f[ev] = RawText(ev)
  BY RawMakers DEF Asking
<1> HIDE DEF f
<1>2. Join(Pieces(f, <<ev>>)) = f[ev] /\ Join(Pieces(f, <<>>)) = <<>>
  BY <1>1, PiecesOne
<1> QED
  BY <1>1, <1>2 DEF RawAsked, f

LEMMA NoneSaid == RawSaid(<<>>) = <<>> /\ RawAsked(<<>>) = <<>>
<1>1. ASSUME NEW f PROVE Pieces(f, <<>>) = <<>>
  BY DEF Pieces
<1> QED
  BY <1>1, JoinNone DEF RawSaid, RawAsked

\* The elements between two places, when one more follows.
LEMMA Within ==
  ASSUME NEW S, NEW t \in Seq(S), NEW x \in S, NEW i \in 1 .. Len(t) + 1, NEW j \in i - 1 .. Len(t)
  PROVE  /\ SubSeq(t \o <<x>>, i, j) = SubSeq(t, i, j)
         /\ SubSeq(t, i, j) \in Seq(S) /\ Len(SubSeq(t, i, j)) = j + 1 - i
         /\ \A k \in 1 .. j + 1 - i : SubSeq(t, i, j)[k] = t[i + k - 1]
<1> DEFINE u == t \o <<x>>
           a == SubSeq(u, i, j)
           b == SubSeq(t, i, j)
           n == j + 1 - i
<1>1. Len(t) \in Nat /\ i \in Nat /\ j \in Int /\ n \in Nat
  BY LenProperties
<1>2. \A k \in 1 .. Len(t) : u[k] = t[k] /\ t[k] \in S
  <2>1. \A k \in 1 .. Len(t) : t[k] \in S
    BY ElementOfSeq
  <2>2. <<x>> \in Seq(S) /\ Len(<<x>>) = 1
    OBVIOUS
  <2>3. \A k \in 1 .. Len(t) + Len(<<x>>) : u[k] = IF k <= Len(t) THEN t[k] ELSE <<x>>[k - Len(t)]
    BY <2>2, ConcatProperties
  <2>4. \A k \in 1 .. Len(t) : k \in 1 .. Len(t) + Len(<<x>>) /\ k <= Len(t)
    BY <1>1, <2>2
  <2> HIDE DEF u
  <2> QED
    BY <2>1, <2>3, <2>4
<1> HIDE DEF u
<1>3. \A k \in i .. j : u[k] = t[k] /\ t[k] \in S
  BY <1>1, <1>2
<1>4. b \in Seq(S) /\ Len(b) = n /\ \A k \in 1 .. n : b[k] = t[i + k - 1]
  <2>1. /\ b \in Seq(S) /\ Len(b) = IF i <= j THEN j - i + 1 ELSE 0
        /\ \A k \in 1 .. j - i + 1 : b[k] = t[i + k - 1]
    BY <1>1, <1>3, SubSeqProperties
  <2> HIDE DEF b
  <2>2. n = (IF i <= j THEN j - i + 1 ELSE 0) /\ 1 .. n = 1 .. j - i + 1
    BY <1>1
  <2> QED
    BY <2>1, <2>2
<1>5. a \in Seq(S) /\ Len(a) = n /\ \A k \in 1 .. n : a[k] = u[i + k - 1]
  <2>0. \A k \in i .. j : u[k] \in S
    BY <1>3
  <2>1. /\ a \in Seq(S) /\ Len(a) = IF i <= j THEN j - i + 1 ELSE 0
        /\ \A k \in 1 .. j - i + 1 : a[k] = u[i + k - 1]
    BY <1>1, <2>0, SubSeqProperties
  <2> HIDE DEF a
  <2>2. n = (IF i <= j THEN j - i + 1 ELSE 0) /\ 1 .. n = 1 .. j - i + 1
    BY <1>1
  <2> QED
    BY <2>1, <2>2
<1> HIDE DEF a, b
<1>6. \A k \in 1 .. n : a[k] = b[k]
  <2>1. \A k \in 1 .. n : i + k - 1 \in i .. j
    BY <1>1
  <2> QED
    BY <1>3, <1>4, <1>5, <2>1
<1>7. a = b
  BY <1>4, <1>5, <1>6, SeqEqual
<1> QED
  BY <1>4, <1>7 DEF a, b, u

\* A run of text events that nothing ended yet, and what has ended.
Starts(evs, i)   == i > 1 => evs[i - 1].kind = "json"
Running(evs, i)  == Starts(evs, i) /\ \A k \in i .. Len(evs) : evs[k].kind # "json"
Ended(evs, i, j) ==
  \/ /\ Starts(evs, i) /\ (\A k \in i .. j : evs[k].kind # "json")
     /\ j < Len(evs) /\ evs[j + 1].kind = "json"
  \/ i = j /\ evs[i].kind = "json" /\ ~ Envelope(evs[i])
EndedSays(segs, evs, i, j) ==
  RawSaid(SubSeq(segs, i, j)) = Restored(RawAsked(SubSeq(evs, i, j)), evs[i].kind = "json")
\* What is written of a run, and what is held of it, restore what it asked for,
\* whatever it goes on with; when it is over they are what it asked for.
RunningSays(segs, evs, i, held) ==
  \A w \in Seq(Plain) :
    Restored(RawAsked(From(evs, i)) \o w, FALSE) = RawSaid(From(segs, i)) \o Restored(held \o w, FALSE)
OverSays(segs, evs, i) == RawSaid(From(segs, i)) = Restored(RawAsked(From(evs, i)), FALSE)
LastIsText(evs) ==
  \E k \in 1 .. Len(evs) :
    evs[k].kind = "text" /\ \A j \in k + 1 .. Len(evs) : evs[j].kind = "other"
Paired(segs, evs) ==
  /\ segs \in Seq(SegmentSet) /\ evs \in Seq(Events) /\ Len(segs) = Len(evs)
  /\ \A i \in 1 .. Len(evs) : segs[i].ev = evs[i]
AllEnded(segs, evs) ==
  \A i, j \in 1 .. Len(evs) : i <= j /\ Ended(evs, i, j) => EndedSays(segs, evs, i, j)
Openly(segs, evs, held) ==
  /\ Paired(segs, evs) /\ AllEnded(segs, evs)
  /\ \A i \in 1 .. Len(evs) + 1 : Running(evs, i) => RunningSays(segs, evs, i, held)
  /\ Resting(held) /\ (held # <<>> => LastIsText(evs))
Over(segs, evs) ==
  /\ Paired(segs, evs) /\ AllEnded(segs, evs)
  /\ \A i \in 1 .. Len(evs) + 1 : Running(evs, i) => OverSays(segs, evs, i)

\* One event and its segment more.
MorePaired(ss, ee, n, evs, seg, ev) ==
  /\ Paired(ss, ee) /\ Len(ee) = n + 1 /\ n \in Nat
  /\ (\A k \in 1 .. n : ee[k] = evs[k]) /\ ee[n + 1] = ev /\ ss[n + 1] = seg

LEMMA OneMore ==
  ASSUME NEW segs, NEW evs, Paired(segs, evs), NEW seg \in SegmentSet, NEW ev \in Events, seg.ev = ev
  PROVE  MorePaired(segs \o <<seg>>, evs \o <<ev>>, Len(evs), evs, seg, ev)
<1> DEFINE ss == segs \o <<seg>>
           ee == evs \o <<ev>>
           n  == Len(evs)
           g  == <<seg>>
           e  == <<ev>>
<1>1. n \in Nat /\ Len(segs) = n /\ segs \in Seq(SegmentSet) /\ evs \in Seq(Events)
  BY LenProperties DEF Paired
<1>2. g \in Seq(SegmentSet) /\ Len(g) = 1 /\ g[1] = seg /\ e \in Seq(Events) /\ Len(e) = 1 /\ e[1] = ev
  OBVIOUS
<1> HIDE DEF g, e
<1>3. /\ segs \o g \in Seq(SegmentSet) /\ Len(segs \o g) = Len(segs) + Len(g)
      /\ \A k \in 1 .. Len(segs) + Len(g) : (segs \o g)[k] = IF k <= Len(segs) THEN segs[k] ELSE g[k - Len(segs)]
  BY <1>1, <1>2, ConcatProperties
<1>4. /\ evs \o e \in Seq(Events) /\ Len(evs \o e) = Len(evs) + Len(e)
      /\ \A k \in 1 .. Len(evs) + Len(e) : (evs \o e)[k] = IF k <= Len(evs) THEN evs[k] ELSE e[k - Len(evs)]
  BY <1>1, <1>2, ConcatProperties
<1>5. ss = segs \o g /\ ee = evs \o e
  BY DEF g, e
<1> HIDE DEF ss, ee, n
<1>6. /\ ss \in Seq(SegmentSet) /\ Len(ss) = n + 1
      /\ \A k \in 1 .. n + 1 : ss[k] = IF k <= n THEN segs[k] ELSE g[k - n]
  BY <1>1, <1>2, <1>3, <1>5
<1>7. /\ ee \in Seq(Events) /\ Len(ee) = n + 1
      /\ \A k \in 1 .. n + 1 : ee[k] = IF k <= n THEN evs[k] ELSE e[k - n]
  BY <1>1, <1>2, <1>4, <1>5 DEF n
<1>8. \A k \in 1 .. n : ss[k] = segs[k] /\ ee[k] = evs[k]
  BY <1>1, <1>6, <1>7
<1>9. ss[n + 1] = seg /\ ee[n + 1] = ev
  <2> DEFINE p == n + 1
  <2>1. p \in 1 .. n + 1 /\ ~ (p <= n) /\ p - n = 1
    BY <1>1
  <2> HIDE DEF p
  <2>2. ss[p] = g[p - n] /\ ee[p] = e[p - n]
    BY <1>6, <1>7, <2>1
  <2>3. ss[p] = seg /\ ee[p] = ev
    BY <1>2, <2>1, <2>2
  <2> QED
    BY <2>3 DEF p
<1>10. \A k \in 1 .. n + 1 : ss[k].ev = ee[k]
  <2>1. \A k \in 1 .. n : segs[k].ev = evs[k]
    BY DEF Paired, n
  <2>2. \A k \in 1 .. n + 1 : k \in 1 .. n \/ k = n + 1
    BY <1>1
  <2> QED
    BY <1>8, <1>9, <2>1, <2>2
<1>11. Paired(ss, ee)
  BY <1>6, <1>7, <1>10 DEF Paired
<1>12. MorePaired(ss, ee, n, evs, seg, ev)
  BY <1>1, <1>7, <1>8, <1>9, <1>11 DEF MorePaired
<1> QED
  BY <1>12 DEF ss, ee, n

LEMMA SameWithin ==
  ASSUME NEW segs, NEW evs, Paired(segs, evs), NEW seg \in SegmentSet, NEW ev \in Events, seg.ev = ev,
         NEW i \in 1 .. Len(evs), NEW j \in i .. Len(evs), EndedSays(segs, evs, i, j)
  PROVE  EndedSays(segs \o <<seg>>, evs \o <<ev>>, i, j)
<1> DEFINE ee == evs \o <<ev>>
<1>1. i \in 1 .. Len(evs) + 1 /\ j \in i - 1 .. Len(evs) /\ Len(segs) = Len(evs)
      /\ segs \in Seq(SegmentSet) /\ evs \in Seq(Events)
  BY LenProperties DEF Paired
<1>2. SubSeq(segs \o <<seg>>, i, j) = SubSeq(segs, i, j)
  BY <1>1, Within
<1>3. SubSeq(ee, i, j) = SubSeq(evs, i, j)
  BY <1>1, Within
<1>4. ee[i] = evs[i]
  <2>1. MorePaired(segs \o <<seg>>, ee, Len(evs), evs, seg, ev)
    BY OneMore
  <2> HIDE DEF ee
  <2> QED
    BY <2>1 DEF MorePaired
<1> HIDE DEF ee
<1> QED
  BY <1>2, <1>3, <1>4 DEF EndedSays, ee

LEMMA EndedMore ==
  ASSUME NEW segs, NEW evs, Paired(segs, evs), AllEnded(segs, evs),
         NEW seg \in SegmentSet, NEW ev \in Events, seg.ev = ev,
         ev.kind = "json" => Over(segs, evs),
         ev.kind = "json" /\ ~ Envelope(ev) => Join(seg.content) = Restored(RawText(ev), TRUE)
  PROVE  AllEnded(segs \o <<seg>>, evs \o <<ev>>)
<1> DEFINE ss == segs \o <<seg>>
           ee == evs \o <<ev>>
           n  == Len(evs)
<1>1. /\ Paired(ss, ee) /\ Len(ee) = n + 1 /\ n \in Nat
      /\ (\A k \in 1 .. n : ee[k] = evs[k]) /\ ee[n + 1] = ev /\ ss[n + 1] = seg
  <2>1. MorePaired(ss, ee, n, evs, seg, ev)
    BY OneMore
  <2> HIDE DEF ss, ee, n
  <2> QED
    BY <2>1 DEF MorePaired
<1> SUFFICES ASSUME NEW i \in 1 .. Len(ee), NEW j \in 1 .. Len(ee), i <= j, Ended(ee, i, j)
             PROVE  EndedSays(ss, ee, i, j)
  BY DEF AllEnded
<1>2. i \in 1 .. n + 1 /\ j \in i .. n + 1
  BY <1>1
<1>3. ASSUME i \in 1 .. n, j \in i .. n, EndedSays(segs, evs, i, j) PROVE EndedSays(ss, ee, i, j)
  BY <1>3, SameWithin
<1> HIDE DEF ss, ee
<1>4. ASSUME i \in 1 .. n, j \in i .. n, Ended(evs, i, j) PROVE EndedSays(ss, ee, i, j)
  <2>1. j \in 1 .. Len(evs) /\ i <= j
    BY <1>1, <1>4
  <2>2. EndedSays(segs, evs, i, j)
    BY <1>4, <2>1 DEF AllEnded
  <2> QED
    BY <1>3, <1>4, <2>2
<1>5. CASE i = j /\ ee[i].kind = "json" /\ ~ Envelope(ee[i])
  <2>1. CASE i = n + 1
    <3>1. ev.kind = "json" /\ ~ Envelope(ev) /\ ee[i] = ev /\ j = n + 1
      BY <1>1, <1>5, <2>1
    <3>2. SubSeq(ss, n + 1, n + 1) = <<seg>>
      <4>1. ss \in Seq(SegmentSet) /\ n + 1 \in 1 .. Len(ss) /\ n + 1 + 1 - 1 = n + 1
        BY <1>1 DEF Paired
      <4>2. SubSeq(ss, n + 1, n + 1 + 1 - 1) = <<ss[n + 1]>>
        BY <4>1, CellAt
      <4> QED
        BY <1>1, <4>1, <4>2
    <3>3. SubSeq(ee, n + 1, n + 1) = <<ev>>
      <4>1. ee \in Seq(Events) /\ n + 1 \in 1 .. Len(ee) /\ n + 1 + 1 - 1 = n + 1
        BY <1>1 DEF Paired
      <4>2. SubSeq(ee, n + 1, n + 1 + 1 - 1) = <<ee[n + 1]>>
        BY <4>1, CellAt
      <4> QED
        BY <1>1, <4>1, <4>2
    <3>4. RawSaid(<<seg>>) = Join(seg.content) /\ RawAsked(<<ev>>) = RawText(ev)
      BY SaidOne, AskedOne
    <3>5. (ee[i].kind = "json") = TRUE
      BY <1>5
    <3> QED
      BY <2>1, <3>1, <3>2, <3>3, <3>4, <3>5 DEF EndedSays
  <2>2. CASE i # n + 1
    <3>1. i \in 1 .. n /\ j \in i .. n /\ ee[i] = evs[i]
      BY <1>1, <1>2, <1>5, <2>2
    <3>2. Ended(evs, i, j)
      BY <1>5, <3>1 DEF Ended
    <3> QED
      BY <1>4, <3>1, <3>2
  <2> QED
    BY <2>1, <2>2
<1>6. CASE /\ Starts(ee, i) /\ (\A k \in i .. j : ee[k].kind # "json")
           /\ j < Len(ee) /\ ee[j + 1].kind = "json"
  <2>1. i \in 1 .. n /\ j \in i .. n
    BY <1>1, <1>2, <1>6
  <2>2. Starts(evs, i) /\ \A k \in i .. j : evs[k].kind # "json"
    <3>1. \A k \in i .. j : k \in 1 .. n
      BY <1>1, <2>1
    <3>2. i > 1 => i - 1 \in 1 .. n
      BY <1>1, <2>1
    <3> QED
      BY <1>1, <1>6, <3>1, <3>2 DEF Starts
  <2>3. CASE j < n
    <3>1. j + 1 \in 1 .. n
      BY <1>1, <2>1, <2>3
    <3>2. Ended(evs, i, j)
      BY <1>1, <1>6, <2>2, <2>3, <3>1 DEF Ended
    <3> QED
      BY <1>4, <2>1, <3>2
  <2>4. CASE ~ (j < n)
    <3>1. j = n /\ ev.kind = "json"
      BY <1>1, <1>6, <2>1, <2>4
    <3>2. Running(evs, i) /\ i \in 1 .. Len(evs) + 1
      BY <1>1, <2>1, <2>2, <3>1 DEF Running
    <3>3. OverSays(segs, evs, i)
      BY <3>1, <3>2 DEF Over
    <3>4. (evs[i].kind = "json") = FALSE
      BY <2>1, <2>2
    <3>5. Len(segs) = n
      BY DEF Paired
    <3>6. EndedSays(segs, evs, i, j)
      BY <3>1, <3>3, <3>4, <3>5 DEF EndedSays, OverSays, From
    <3> QED
      BY <1>3, <2>1, <3>6
  <2> QED
    BY <2>3, <2>4
<1> QED
  BY <1>5, <1>6 DEF Ended

LEMMA MoreSaid ==
  ASSUME NEW segs \in Seq(SegmentSet), NEW seg \in SegmentSet, NEW i \in 1 .. Len(segs) + 1
  PROVE  /\ RawSaid(From(segs \o <<seg>>, i)) = RawSaid(From(segs, i)) \o Join(seg.content)
         /\ RawSaid(From(segs, i)) \in Seq(Cells) /\ Join(seg.content) \in Seq(Cells)
<1> DEFINE g == <<seg>>
           a == From(segs, i)
<1>1. g \in Seq(SegmentSet) /\ RawSaid(g) = Join(seg.content)
  BY SaidOne
<1> HIDE DEF g
<1>2. From(segs \o g, i) = a \o g /\ a \in Seq(SegmentSet)
  BY <1>1, FromHead, FromIsTail
<1> HIDE DEF a
<1>3. RawSaid(a \o g) = RawSaid(a) \o RawSaid(g)
  BY <1>1, <1>2, SaidConcat
<1>4. RawSaid(a) \in Seq(Cells) /\ RawSaid(g) \in Seq(Cells)
  BY <1>1, <1>2, SaidTyped
<1> QED
  BY <1>1, <1>2, <1>3, <1>4 DEF a, g

LEMMA MoreAsked ==
  ASSUME NEW evs \in Seq(Events), NEW ev \in Events, NEW i \in 1 .. Len(evs) + 1
  PROVE  /\ RawAsked(From(evs \o <<ev>>, i)) = RawAsked(From(evs, i)) \o RawText(ev)
         /\ RawAsked(From(evs, i)) \in Seq(Plain) /\ RawText(ev) \in Seq(Plain)
<1> DEFINE e == <<ev>>
           b == From(evs, i)
<1>1. e \in Seq(Events) /\ RawAsked(e) = RawText(ev)
  BY AskedOne
<1> HIDE DEF e
<1>2. From(evs \o e, i) = b \o e /\ b \in Seq(Events)
  BY <1>1, FromHead, FromIsTail
<1> HIDE DEF b
<1>3. RawAsked(b \o e) = RawAsked(b) \o RawAsked(e)
  BY <1>1, <1>2, AskedConcat
<1>4. RawAsked(b) \in Seq(Plain) /\ RawAsked(e) \in Seq(Plain)
  BY <1>1, <1>2, AskedTyped
<1> QED
  BY <1>1, <1>2, <1>3, <1>4 DEF b, e

LEMMA PlainRegroup ==
  \A x, y, z \in Seq(Plain) : (x \o y) \o z = x \o (y \o z)
BY ConcatAssociative

LEMMA PlainJoined ==
  \A x, y \in Seq(Plain) : x \o y \in Seq(Plain)
BY ConcatProperties

\* A run goes on with an event and its segment.
GoesOn(held, text, out, held2) ==
  \A w \in Seq(Plain) :
    Restored((held \o text) \o w, FALSE) = out \o Restored(held2 \o w, FALSE)

LEMMA RunGoesOn ==
  ASSUME NEW segs, NEW evs, Paired(segs, evs), NEW seg \in SegmentSet, NEW ev \in Events,
         NEW held \in Seq(Plain), NEW held2 \in Seq(Plain),
         GoesOn(held, RawText(ev), Join(seg.content), held2),
         NEW i \in 1 .. Len(evs) + 1, RunningSays(segs, evs, i, held)
  PROVE  RunningSays(segs \o <<seg>>, evs \o <<ev>>, i, held2)
<1> DEFINE a == RawSaid(From(segs, i))
           b == RawAsked(From(evs, i))
           c == Join(seg.content)
           t == RawText(ev)
           a2 == RawSaid(From(segs \o <<seg>>, i))
           b2 == RawAsked(From(evs \o <<ev>>, i))
<1>1. /\ a2 = a \o c /\ b2 = b \o t
      /\ a \in Seq(Cells) /\ b \in Seq(Plain) /\ c \in Seq(Cells) /\ t \in Seq(Plain)
  <2>0. /\ segs \in Seq(SegmentSet) /\ evs \in Seq(Events)
        /\ i \in 1 .. Len(segs) + 1 /\ i \in 1 .. Len(evs) + 1
    BY DEF Paired
  <2>1. a2 = a \o c /\ a \in Seq(Cells) /\ c \in Seq(Cells)
    BY <2>0, MoreSaid
  <2>2. b2 = b \o t /\ b \in Seq(Plain) /\ t \in Seq(Plain)
    BY <2>0, MoreAsked
  <2> QED
    BY <2>1, <2>2
<1>2. \A w \in Seq(Plain) : Restored(b \o w, FALSE) = a \o Restored(held \o w, FALSE)
  BY DEF RunningSays
<1>3. \A w \in Seq(Plain) : Restored((held \o t) \o w, FALSE) = c \o Restored(held2 \o w, FALSE)
  BY DEF GoesOn
<1> HIDE DEF a, b, c, t, a2, b2
<1>4. ASSUME NEW w \in Seq(Plain) PROVE Restored(b2 \o w, FALSE) = a2 \o Restored(held2 \o w, FALSE)
  <2> DEFINE tw == t \o w
             r  == Restored(held2 \o w, FALSE)
  <2>1. (b \o t) \o w = b \o tw /\ (held \o t) \o w = held \o tw /\ tw \in Seq(Plain)
    <3>0. t \o w \in Seq(Plain)
      BY <1>1, PlainJoined
    <3>1. (b \o t) \o w = b \o (t \o w)
      BY <1>1, PlainRegroup
    <3>2. (held \o t) \o w = held \o (t \o w)
      BY <1>1, PlainRegroup
    <3> QED
      BY <3>0, <3>1, <3>2
  <2>2. Restored((held \o t) \o w, FALSE) = c \o r
    BY <1>3
  <2>3. r \in Seq(Cells)
    <3> DEFINE z == held2 \o w
    <3>1. z \in Seq(Plain)
      BY PlainJoined
    <3> HIDE DEF z
    <3>2. Restored(z, FALSE) \in Seq(Cells)
      BY <3>1, RestoredUnfolds
    <3> QED
      BY <3>2 DEF z
  <2> HIDE DEF tw, r
  <2>4. Restored(b \o tw, FALSE) = a \o Restored(held \o tw, FALSE)
    BY <1>2, <2>1
  <2>5. a \o (c \o r) = (a \o c) \o r
    BY <1>1, <2>3, CellsRegroup
  <2>6. Restored((b \o t) \o w, FALSE) = (a \o c) \o r
    BY <2>1, <2>2, <2>4, <2>5
  <2> QED
    BY <1>1, <2>6 DEF r
<1> QED
  BY <1>4 DEF RunningSays, a2, b2

LEMMA OpenGoesOn ==
  ASSUME NEW segs, NEW evs, NEW held, Openly(segs, evs, held),
         NEW seg \in SegmentSet, NEW ev \in Events, seg.ev = ev, ev.kind # "json",
         NEW held2, Resting(held2), held2 # <<>> => LastIsText(evs \o <<ev>>),
         GoesOn(held, RawText(ev), Join(seg.content), held2)
  PROVE  Openly(segs \o <<seg>>, evs \o <<ev>>, held2)
<1> DEFINE ss == segs \o <<seg>>
           ee == evs \o <<ev>>
           n  == Len(evs)
<1>1. Paired(segs, evs) /\ AllEnded(segs, evs) /\ held \in Seq(Plain) /\ held2 \in Seq(Plain)
  BY DEF Openly, Resting
<1>2. MorePaired(ss, ee, n, evs, seg, ev)
  BY <1>1, OneMore
<1>3. AllEnded(ss, ee)
  BY <1>1, EndedMore
<1>4. ASSUME NEW i \in 1 .. n + 1, Running(evs, i) PROVE RunningSays(ss, ee, i, held2)
  <2>1. RunningSays(segs, evs, i, held)
    BY <1>4 DEF Openly
  <2> QED
    BY <1>1, <2>1, RunGoesOn
<1>5. held2 # <<>> => LastIsText(ee)
  OBVIOUS
<1> HIDE DEF ss, ee, n
<1>6. ASSUME NEW i \in 1 .. Len(ee) + 1, Running(ee, i) PROVE RunningSays(ss, ee, i, held2)
  <2>1. n \in Nat /\ Len(ee) = n + 1 /\ ee[n + 1] = ev /\ \A k \in 1 .. n : ee[k] = evs[k]
    BY <1>2 DEF MorePaired
  <2>2. i \in 1 .. n + 1
    <3>1. SUFFICES ASSUME i = n + 2 PROVE FALSE
      BY <2>1
    <3>2. i > 1 /\ i - 1 = n + 1
      BY <2>1, <3>1
    <3> QED
      BY <1>6, <2>1, <3>2 DEF Running, Starts
  <2>3. Running(evs, i)
    <3>1. \A k \in i .. n : k \in i .. Len(ee) /\ k \in 1 .. n
      BY <2>1, <2>2
    <3>2. i > 1 => i - 1 \in 1 .. n
      BY <2>1, <2>2
    <3> QED
      BY <1>6, <2>1, <3>1, <3>2 DEF Running, Starts, n
  <2> QED
    BY <1>4, <2>2, <2>3
<1>7. Openly(ss, ee, held2)
  BY <1>2, <1>3, <1>5, <1>6 DEF Openly, MorePaired
<1> QED
  BY <1>7 DEF ss, ee

\* A document ends the run before it, which is over.
LEMMA DocumentOpens ==
  ASSUME NEW segs, NEW evs, Over(segs, evs),
         NEW seg \in SegmentSet, NEW ev \in Events, seg.ev = ev, ev.kind = "json",
         ~ Envelope(ev) => Join(seg.content) = Restored(RawText(ev), TRUE)
  PROVE  Openly(segs \o <<seg>>, evs \o <<ev>>, <<>>)
<1> DEFINE ss == segs \o <<seg>>
           ee == evs \o <<ev>>
           n  == Len(evs)
<1>1. Paired(segs, evs) /\ AllEnded(segs, evs)
  BY DEF Over
<1>2. MorePaired(ss, ee, n, evs, seg, ev)
  BY <1>1, OneMore
<1>3. AllEnded(ss, ee)
  BY <1>1, EndedMore
<1> HIDE DEF ss, ee, n
<1>4. n \in Nat /\ Len(ee) = n + 1 /\ ee[n + 1] = ev /\ Paired(ss, ee)
  BY <1>2 DEF MorePaired
<1>5. ASSUME NEW i \in 1 .. Len(ee) + 1, Running(ee, i) PROVE RunningSays(ss, ee, i, <<>>)
  <2>1. i = Len(ee) + 1
    <3>1. SUFFICES ASSUME i \in 1 .. n + 1 PROVE FALSE
      BY <1>4
    <3>2. n + 1 \in i .. Len(ee)
      BY <1>4, <3>1
    <3> QED
      BY <1>4, <1>5, <3>2 DEF Running
  <2>2. From(ee, i) = <<>> /\ From(ss, i) = <<>>
    <3>1. Len(ss) = Len(ee) /\ Len(ee) \in Nat
      BY <1>4 DEF Paired
    <3> QED
      BY <2>1, <3>1 DEF From
  <2>3. ASSUME NEW w \in Seq(Plain) PROVE Restored(<<>> \o w, FALSE) = <<>> \o Restored(<<>> \o w, FALSE)
    <3>1. <<>> \o w = w
      OBVIOUS
    <3>2. Restored(w, FALSE) \in Seq(Cells)
      BY RestoredUnfolds
    <3> QED
      BY <3>1, <3>2
  <2> QED
    BY <2>2, <2>3, NoneSaid DEF RunningSays
<1>6. Resting(<<>>)
  <2>1. <<>> \in Seq(Plain)
    OBVIOUS
  <2> QED
    BY <2>1 DEF Resting
<1>7. Openly(ss, ee, <<>>)
  BY <1>3, <1>4, <1>5, <1>6 DEF Openly
<1> QED
  BY <1>7 DEF ss, ee

LEMMA SameBetween ==
  ASSUME NEW S, NEW a \in Seq(S), NEW b \in Seq(S), Len(a) = Len(b),
         NEW i \in 1 .. Len(a) + 1, NEW j \in i - 1 .. Len(a), \A l \in i .. j : a[l] = b[l]
  PROVE  SubSeq(a, i, j) = SubSeq(b, i, j) /\ SubSeq(a, i, j) \in Seq(S)
<1> DEFINE u == SubSeq(a, i, j)
           v == SubSeq(b, i, j)
           n == j + 1 - i
<1>1. Len(a) \in Nat /\ i \in Nat /\ j \in Int /\ n \in Nat
  BY LenProperties
<1>2. \A l \in i .. j : a[l] \in S /\ b[l] \in S
  <2>1. \A l \in i .. j : l \in 1 .. Len(a)
    BY <1>1
  <2> QED
    BY <2>1, ElementOfSeq
<1>3. u \in Seq(S) /\ Len(u) = n /\ \A k \in 1 .. n : u[k] = a[i + k - 1]
  <2>1. /\ u \in Seq(S) /\ Len(u) = IF i <= j THEN j - i + 1 ELSE 0
        /\ \A k \in 1 .. j - i + 1 : u[k] = a[i + k - 1]
    BY <1>1, <1>2, SubSeqProperties
  <2> HIDE DEF u
  <2>2. n = (IF i <= j THEN j - i + 1 ELSE 0) /\ 1 .. n = 1 .. j - i + 1
    BY <1>1
  <2> QED
    BY <2>1, <2>2
<1>4. v \in Seq(S) /\ Len(v) = n /\ \A k \in 1 .. n : v[k] = b[i + k - 1]
  <2>1. /\ v \in Seq(S) /\ Len(v) = IF i <= j THEN j - i + 1 ELSE 0
        /\ \A k \in 1 .. j - i + 1 : v[k] = b[i + k - 1]
    BY <1>1, <1>2, SubSeqProperties
  <2> HIDE DEF v
  <2>2. n = (IF i <= j THEN j - i + 1 ELSE 0) /\ 1 .. n = 1 .. j - i + 1
    BY <1>1
  <2> QED
    BY <2>1, <2>2
<1> HIDE DEF u, v
<1>5. \A k \in 1 .. n : u[k] = v[k]
  <2>1. \A k \in 1 .. n : i + k - 1 \in i .. j
    BY <1>1
  <2> QED
    BY <1>3, <1>4, <2>1
<1>6. u = v
  BY <1>3, <1>4, <1>5, SeqEqual
<1> QED
  BY <1>3, <1>6 DEF u, v

LEMMA SaysSame ==
  ASSUME NEW a, NEW b, NEW evs, Paired(a, evs), Paired(b, evs),
         NEW i \in 1 .. Len(evs), NEW j \in i .. Len(evs), \A l \in i .. j : a[l] = b[l],
         EndedSays(a, evs, i, j)
  PROVE  EndedSays(b, evs, i, j)
<1>1. /\ a \in Seq(SegmentSet) /\ b \in Seq(SegmentSet) /\ Len(a) = Len(b)
      /\ i \in 1 .. Len(a) + 1 /\ j \in i - 1 .. Len(a)
  BY LenProperties DEF Paired
<1>2. SubSeq(a, i, j) = SubSeq(b, i, j)
  BY <1>1, SameBetween
<1> QED
  BY <1>2 DEF EndedSays

\* Nothing an envelope's segment says is looked at.
LEMMA EnvelopesAside ==
  ASSUME NEW a, NEW b, NEW evs, Over(a, evs), Paired(b, evs),
         \A l \in 1 .. Len(evs) : ~ a[l].leaf => b[l] = a[l]
  PROVE  Over(b, evs)
<1>1. Paired(a, evs) /\ AllEnded(a, evs) /\ Len(evs) \in Nat
      /\ a \in Seq(SegmentSet) /\ b \in Seq(SegmentSet) /\ Len(a) = Len(evs) /\ Len(b) = Len(evs)
  BY LenProperties DEF Over, Paired
<1>2. ASSUME NEW l \in 1 .. Len(evs), evs[l].kind # "json" \/ ~ Envelope(evs[l]) PROVE a[l] = b[l]
  <2>1. a[l] \in SegmentSet /\ a[l].ev = evs[l]
    BY <1>1, ElementOfSeq DEF Paired
  <2>2. ~ a[l].leaf
    BY <1>2, <2>1 DEF SegmentSet, SegmentOf, Envelope
  <2> QED
    BY <2>2
<1>3. AllEnded(b, evs)
  <2>1. SUFFICES ASSUME NEW i \in 1 .. Len(evs), NEW j \in 1 .. Len(evs), i <= j, Ended(evs, i, j)
                 PROVE  EndedSays(b, evs, i, j)
    BY DEF AllEnded
  <2>2. EndedSays(a, evs, i, j) /\ j \in i .. Len(evs)
    BY <1>1, <2>1 DEF AllEnded
  <2>3. \A l \in i .. j : l \in 1 .. Len(evs) /\ (evs[l].kind # "json" \/ ~ Envelope(evs[l]))
    <3>1. \A l \in i .. j : l \in 1 .. Len(evs)
      BY <1>1
    <3>2. CASE \A k \in i .. j : evs[k].kind # "json"
      BY <3>1, <3>2
    <3>3. CASE i = j /\ ~ Envelope(evs[i])
      <4>1. \A l \in i .. j : l = i
        BY <3>3
      <4> QED
        BY <3>1, <3>3, <4>1
    <3> QED
      BY <2>1, <3>2, <3>3 DEF Ended
  <2>4. \A l \in i .. j : a[l] = b[l]
    BY <1>2, <2>3
  <2> QED
    BY <1>1, <2>2, <2>4, SaysSame
<1>4. ASSUME NEW i \in 1 .. Len(evs) + 1, Running(evs, i) PROVE OverSays(b, evs, i)
  <2>1. OverSays(a, evs, i)
    BY <1>4 DEF Over
  <2>2. \A l \in i .. Len(evs) : a[l] = b[l]
    <3>1. \A l \in i .. Len(evs) : l \in 1 .. Len(evs) /\ evs[l].kind # "json"
      BY <1>1, <1>4 DEF Running
    <3> QED
      BY <1>2, <3>1
  <2>3. i \in 1 .. Len(a) + 1 /\ Len(evs) \in i - 1 .. Len(a)
    BY <1>1
  <2>4. SubSeq(a, i, Len(evs)) = SubSeq(b, i, Len(evs))
    BY <1>1, <2>2, <2>3, SameBetween
  <2> QED
    BY <1>1, <2>1, <2>4 DEF OverSays, From
<1> QED
  BY <1>3, <1>4 DEF Over

LEMMA RunningIs ==
  ASSUME NEW segs, NEW evs, Paired(segs, evs), NEW held, Resting(held),
         NEW i \in 1 .. Len(evs) + 1, RunningSays(segs, evs, i, held)
  PROVE  Restored(RawAsked(From(evs, i)), FALSE) = RawSaid(From(segs, i)) \o held
<1> DEFINE a == RawSaid(From(segs, i))
           b == RawAsked(From(evs, i))
<1>1. b \in Seq(Plain)
  <2>1. From(evs, i) \in Seq(Events)
    BY FromIsTail DEF Paired
  <2> QED
    BY <2>1, AskedTyped
<1>2. <<>> \in Seq(Plain)
  OBVIOUS
<1>3. Restored(b \o <<>>, FALSE) = a \o Restored(held \o <<>>, FALSE)
  BY <1>2 DEF RunningSays
<1> HIDE DEF a, b
<1>4. b \o <<>> = b /\ held \o <<>> = held
  BY <1>1, ConcatEmptySeq DEF Resting
<1>5. Restored(held, FALSE) = held
  BY RestingStays
<1> QED
  BY <1>3, <1>4, <1>5 DEF a, b

-----------------------------------------------------------------------------
(* The queue of such events, as the tail of the writer moves over it. *)

\* Segments of events that are not looked at say nothing.
LEMMA NothingSaidThere ==
  ASSUME NEW segs \in Seq(SegmentSet), \A i \in 1 .. Len(segs) : segs[i].ev.kind = "other"
  PROVE  RawSaid(segs) = <<>>
<1> DEFINE f == Saying
           ps == Pieces(f, segs)
<1>1. f \in Makers(SegmentSet, Cells) /\ \A seg \in SegmentSet : f[seg] = Join(seg.content)
  BY RawMakers DEF Saying
<1> HIDE DEF f
<1>2. ps \in Seq(Seq(Cells)) /\ Len(ps) = Len(segs) /\ \A i \in 1 .. Len(segs) : ps[i] = f[segs[i]]
  BY <1>1, PiecesTyped
<1> HIDE DEF ps
<1>3. ASSUME NEW i \in 1 .. Len(ps) PROVE ps[i] = <<>>
  <2> DEFINE seg == segs[i]
             c   == seg.content
  <2>1. seg \in SegmentSet /\ ps[i] = Join(c) /\ seg.ev.kind = "other" /\ seg.ev \in Events
    <3>1. segs[i] \in SegmentSet
      BY <1>2, ElementOfSeq
    <3> QED
      BY <1>1, <1>2, <3>1 DEF SegmentSet, Record
  <2>2. c \in Seq(Seq(Cells)) /\ Len(c) <= Len(seg.ev.leaves) /\ seg.ev.leaves = <<>>
    <3>1. seg.ev.leaves = <<>>
      BY <2>1, StreamOK
    <3> HIDE DEF seg
    <3> QED
      BY <2>1, <3>1 DEF SegmentSet, SegmentOf, Record
  <2>3. c = <<>>
    <3> HIDE DEF seg, c
    <3>1. Len(seg.ev.leaves) = 0
      BY <2>2
    <3>2. Len(c) = 0
      BY <2>2, <3>1, LenProperties
    <3> QED
      BY <2>2, <3>2, EmptySeq
  <2> QED
    BY <2>1, <2>3, JoinNone
<1>4. Join(ps) = <<>>
  BY <1>2, <1>3, JoinBlank
<1> QED
  BY <1>4 DEF RawSaid, ps, f

\* What is said from place i on, apart at k.
LEMMA SaidApart ==
  ASSUME NEW segs \in Seq(SegmentSet), NEW k \in 1 .. Len(segs), NEW i \in 1 .. k,
         \A j \in k + 1 .. Len(segs) : segs[j].ev.kind = "other"
  PROVE  RawSaid(From(segs, i)) = RawSaid(SubSeq(segs, i, k - 1)) \o Join(segs[k].content)
<1> DEFINE n == Len(segs)
           a == SubSeq(segs, i, k - 1)
           z == From(segs, k + 1)
           m == From(segs, k)
           g == <<segs[k]>>
<1>1. n \in Nat /\ segs[k] \in SegmentSet
  BY LenProperties, ElementOfSeq
<1>2. a \in Seq(SegmentSet) /\ z \in Seq(SegmentSet) /\ g \in Seq(SegmentSet)
  <2>1. k + 1 \in 1 .. Len(segs) + 1 /\ i \in 1 .. Len(segs) + 1 /\ k - 1 \in i - 1 .. Len(segs)
    BY <1>1
  <2>2. z \in Seq(SegmentSet)
    BY <2>1, FromIsTail
  <2>3. a \in Seq(SegmentSet)
    BY <2>1, SameBetween
  <2> QED
    BY <1>1, <2>2, <2>3
<1>3. From(segs, i) = a \o m
  <2>1. SubSeq(segs, i, k - 1) \o SubSeq(segs, (k - 1) + 1, n) = SubSeq(segs, i, n)
    <3>1. i \in 1 .. Len(segs) + 1 /\ k - 1 \in i - 1 .. Len(segs) /\ n \in k - 1 .. Len(segs)
      BY <1>1
    <3> QED
      BY <3>1, ConcatAdjacentSubSeq
  <2>2. (k - 1) + 1 = k
    BY <1>1
  <2> QED
    BY <2>1, <2>2 DEF From
<1>4. m = g \o z
  <2>1. SubSeq(segs, k, k) \o SubSeq(segs, k + 1, n) = SubSeq(segs, k, n)
    <3>1. k \in 1 .. Len(segs) + 1 /\ k \in k - 1 .. Len(segs) /\ n \in k .. Len(segs)
      BY <1>1
    <3> QED
      BY <3>1, ConcatAdjacentSubSeq
  <2>2. SubSeq(segs, k, k) = g
    <3>1. SubSeq(segs, k, k + 1 - 1) = g
      BY CellAt
    <3>2. k + 1 - 1 = k
      BY <1>1
    <3> QED
      BY <3>1, <3>2
  <2> QED
    BY <2>1, <2>2 DEF From
<1>5. RawSaid(z) = <<>>
  <2>1. Len(z) = n - k /\ \A j \in 1 .. n - k : z[j] = segs[(k + 1) + j - 1]
    <3>1. k + 1 \in 1 .. Len(segs) + 1 /\ Len(segs) + 1 - (k + 1) = n - k
      BY <1>1
    <3> QED
      BY <3>1, FromIsTail
  <2> HIDE DEF z
  <2>2. \A j \in 1 .. n - k : (k + 1) + j - 1 \in k + 1 .. Len(segs)
    BY <1>1
  <2>3. \A j \in 1 .. Len(z) : z[j].ev.kind = "other"
    BY <2>1, <2>2
  <2> QED
    BY <1>2, <2>3, NothingSaidThere
<1>6. RawSaid(g) = Join(segs[k].content)
  BY <1>1, SaidOne
<1> HIDE DEF a, z, m, g
<1>7. RawSaid(m) = RawSaid(g) \o RawSaid(z) /\ m \in Seq(SegmentSet)
  BY <1>2, <1>4, SaidConcat, ConcatProperties
<1>8. RawSaid(a \o m) = RawSaid(a) \o RawSaid(m)
  BY <1>2, <1>7, SaidConcat
<1>9. RawSaid(m) = RawSaid(g)
  <2>1. RawSaid(g) \in Seq(Cells)
    BY <1>2, SaidTyped
  <2> QED
    BY <1>5, <1>7, <2>1, ConcatEmptySeq
<1> QED
  BY <1>3, <1>6, <1>8, <1>9 DEF a

\* Segment k of b says held more than that of a, and nothing else differs.
MovedTo(a, b, k, held) ==
  /\ Len(a) = Len(b) /\ k \in 1 .. Len(a)
  /\ \A l \in 1 .. Len(a) : l # k => a[l] = b[l]
  /\ Join(b[k].content) = Join(a[k].content) \o held

LEMMA PlainIsCells == Seq(Plain) \subseteq Seq(Cells)
<1>1. Plain \subseteq Cells
  BY DEF Cells
<1> QED
  BY <1>1

\* What is held moves onto the last event that is looked at, and all is over.
LEMMA TailOver ==
  ASSUME NEW a, NEW b, NEW evs, NEW held, Openly(a, evs, held), Paired(b, evs), held # <<>>,
         NEW k, MovedTo(a, b, k, held), evs[k].kind # "other",
         \A j \in k + 1 .. Len(evs) : evs[j].kind = "other"
  PROVE  Over(b, evs)
<1> DEFINE n == Len(evs)
<1>1. /\ Paired(a, evs) /\ AllEnded(a, evs) /\ Resting(held) /\ LastIsText(evs) /\ n \in Nat
      /\ a \in Seq(SegmentSet) /\ b \in Seq(SegmentSet) /\ Len(a) = n /\ Len(b) = n
      /\ k \in 1 .. n /\ evs \in Seq(Events)
  BY LenProperties DEF Openly, Paired, MovedTo
<1>2. evs[k].kind = "text"
  <2>1. PICK t \in 1 .. n : evs[t].kind = "text" /\ \A j \in t + 1 .. n : evs[j].kind = "other"
    BY <1>1 DEF LastIsText
  <2>2. t = k
    <3>1. ~ (t < k)
      <4>1. SUFFICES ASSUME t < k PROVE FALSE
        OBVIOUS
      <4>2. k \in t + 1 .. n
        BY <1>1, <2>1, <4>1
      <4> QED
        BY <2>1, <4>2
    <3>2. ~ (k < t)
      <4>1. SUFFICES ASSUME k < t PROVE FALSE
        OBVIOUS
      <4>2. t \in k + 1 .. n
        BY <1>1, <2>1, <4>1
      <4> QED
        BY <2>1, <4>2
    <3> QED
      BY <1>1, <2>1, <3>1, <3>2
  <2> QED
    BY <2>1, <2>2
<1>3. \A l \in 1 .. n : evs[l].kind = "json" => l < k
  <2>1. \A l \in 1 .. n : l < k \/ l = k \/ l \in k + 1 .. n
    BY <1>1
  <2> QED
    BY <1>2, <2>1
<1>4. AllEnded(b, evs)
  <2>1. SUFFICES ASSUME NEW i \in 1 .. n, NEW j \in 1 .. n, i <= j, Ended(evs, i, j)
                 PROVE  EndedSays(b, evs, i, j)
    BY DEF AllEnded
  <2>2. EndedSays(a, evs, i, j) /\ j \in i .. n
    BY <1>1, <2>1 DEF AllEnded
  <2>3. j < k
    <3>1. CASE j < n /\ evs[j + 1].kind = "json"
      <4>1. j + 1 \in 1 .. n
        BY <1>1, <3>1
      <4>2. j + 1 < k
        BY <1>3, <3>1, <4>1
      <4> QED
        BY <1>1, <4>2
    <3>2. CASE i = j /\ evs[i].kind = "json"
      BY <1>3, <3>2
    <3> QED
      BY <2>1, <3>1, <3>2 DEF Ended
  <2>4. \A l \in i .. j : a[l] = b[l]
    <3>1. \A l \in i .. j : l \in 1 .. Len(a) /\ l # k
      BY <1>1, <2>3
    <3> QED
      BY <3>1 DEF MovedTo
  <2> QED
    BY <1>1, <2>2, <2>4, SaysSame
<1>5. ASSUME NEW i \in 1 .. n + 1, Running(evs, i) PROVE OverSays(b, evs, i)
  <2>1. i \in 1 .. k
    <3>1. CASE i > 1
      <4>1. i - 1 \in 1 .. n /\ evs[i - 1].kind = "json"
        BY <1>1, <1>5, <3>1 DEF Running, Starts
      <4>2. i - 1 < k
        BY <1>3, <4>1
      <4> QED
        BY <1>1, <4>2
    <3>2. CASE ~ (i > 1)
      BY <1>1, <3>2
    <3> QED
      BY <3>1, <3>2
  <2>2. RunningSays(a, evs, i, held)
    BY <1>5 DEF Openly
  <2>3. Restored(RawAsked(From(evs, i)), FALSE) = RawSaid(From(a, i)) \o held
    BY <1>1, <2>2, RunningIs
  <2> DEFINE p == SubSeq(a, i, k - 1)
             ca == Join(a[k].content)
             cb == Join(b[k].content)
  <2>4. SubSeq(a, i, k - 1) = SubSeq(b, i, k - 1) /\ p \in Seq(SegmentSet)
    <3>1. i \in 1 .. Len(a) + 1 /\ k - 1 \in i - 1 .. Len(a)
      BY <1>1, <2>1
    <3>2. \A l \in i .. k - 1 : a[l] = b[l]
      <4>1. \A l \in i .. k - 1 : l \in 1 .. Len(a) /\ l # k
        BY <1>1, <2>1
      <4> QED
        BY <4>1 DEF MovedTo
    <3> QED
      BY <1>1, <3>1, <3>2, SameBetween
  <2>5. RawSaid(From(a, i)) = RawSaid(p) \o ca
    <3>1. \A j \in k + 1 .. Len(a) : a[j].ev.kind = "other"
      <4>1. \A j \in k + 1 .. n : j \in 1 .. n
        BY <1>1
      <4> QED
        BY <1>1, <4>1 DEF Paired
    <3> QED
      BY <1>1, <2>1, <3>1, SaidApart
  <2>6. RawSaid(From(b, i)) = RawSaid(SubSeq(b, i, k - 1)) \o cb
    <3>1. \A j \in k + 1 .. Len(b) : b[j].ev.kind = "other"
      <4>1. \A j \in k + 1 .. n : j \in 1 .. n
        BY <1>1
      <4> QED
        BY <1>1, <4>1 DEF Paired
    <3> QED
      BY <1>1, <2>1, <3>1, SaidApart
  <2>7. cb = ca \o held
    BY DEF MovedTo
  <2>8. ca \in Seq(Cells) /\ held \in Seq(Cells) /\ RawSaid(p) \in Seq(Cells)
    <3>1. a[k] \in SegmentSet
      BY <1>1, ElementOfSeq
    <3>2. ca \in Seq(Cells)
      BY <3>1, JoinedTyped DEF SegmentSet, Record
    <3>3. held \in Seq(Cells)
      BY <1>1, PlainIsCells DEF Resting
    <3> HIDE DEF p, ca
    <3> QED
      BY <2>4, <3>2, <3>3, SaidTyped
  <2> DEFINE sp == RawSaid(p)
  <2>9. sp \in Seq(Cells) /\ RawSaid(From(a, i)) = sp \o ca /\ RawSaid(From(b, i)) = sp \o cb
    BY <2>4, <2>5, <2>6, <2>8
  <2> HIDE DEF p, ca, cb, sp
  <2>10. (sp \o ca) \o held = sp \o (ca \o held)
    BY <2>8, <2>9, CellsRegroup
  <2> QED
    BY <2>3, <2>7, <2>9, <2>10 DEF OverSays
<1> QED
  BY <1>4, <1>5 DEF Over

\* Nothing is held, and all is over.
LEMMA NoneHeldOver ==
  ASSUME NEW a, NEW evs, Openly(a, evs, <<>>) PROVE Over(a, evs)
<1>1. Paired(a, evs) /\ AllEnded(a, evs) /\ Resting(<<>>)
  BY DEF Openly
<1>2. ASSUME NEW i \in 1 .. Len(evs) + 1, Running(evs, i) PROVE OverSays(a, evs, i)
  <2>1. RunningSays(a, evs, i, <<>>)
    BY <1>2 DEF Openly
  <2>2. Restored(RawAsked(From(evs, i)), FALSE) = RawSaid(From(a, i)) \o <<>>
    BY <1>1, <2>1, RunningIs
  <2>3. RawSaid(From(a, i)) \in Seq(Cells)
    <3>1. a \in Seq(SegmentSet) /\ i \in 1 .. Len(a) + 1
      BY <1>1 DEF Paired
    <3> QED
      BY <3>1, FromIsTail, SaidTyped
  <2> DEFINE x == RawSaid(From(a, i))
  <2> HIDE DEF x
  <2>4. x \o <<>> = x
    BY <2>3, ConcatEmptySeq DEF x
  <2> QED
    BY <2>2, <2>4 DEF OverSays, x
<1> QED
  BY <1>1, <1>2 DEF Over

\* What x holds went to the one segment of its queue that has a span.
TailMoved(x, y) ==
  /\ y \in Stream /\ y.out = x.out /\ Len(y.queue) = Len(x.queue)
  /\ \E m \in 1 .. Len(x.queue) :
       /\ RawData(x.queue[m]) /\ y.queue[m].ev = x.queue[m].ev
       /\ y.queue[m].content = <<x.queue[m].content[1] \o x.held>>
       /\ \A j \in 1 .. Len(x.queue) : j # m => ~ HasSpan(x.queue[j]) /\ y.queue[j] = x.queue[j]

LEMMA MovedUpdate ==
  ASSUME NEW x \in Stream, NEW m \in 1 .. Len(x.queue), RawData(x.queue[m]),
         \A j \in 1 .. Len(x.queue) : HasSpan(x.queue[j]) => j = m,
         NEW y \in Stream,
         y = [x EXCEPT !.queue[m].content = <<@[1] \o x.held>>, !.held = <<>>]
  PROVE  TailMoved(x, y)
<1> DEFINE q == x.queue
<1>1. /\ q \in Seq(SegmentSet) /\ Len(q) \in Nat /\ DOMAIN q = 1 .. Len(q) /\ q[m] \in SegmentSet
  BY StreamFields, LenProperties
<1>2. y.queue = [q EXCEPT ![m].content = <<@[1] \o x.held>>] /\ y.out = x.out
  BY DEF Stream
<1>3. y.queue = [q EXCEPT ![m] = [q[m] EXCEPT !.content = <<q[m].content[1] \o x.held>>]]
  BY <1>2
<1> DEFINE seg == [q[m] EXCEPT !.content = <<q[m].content[1] \o x.held>>]
<1>4. seg.ev = q[m].ev /\ seg.content = <<q[m].content[1] \o x.held>>
  BY <1>1 DEF SegmentSet, Record
<1> HIDE DEF seg
<1>5. y.queue[m] = seg /\ \A j \in 1 .. Len(q) : j # m => y.queue[j] = q[j]
  BY <1>1, <1>3 DEF seg
<1>6. DOMAIN y.queue = DOMAIN q
  BY <1>3
<1>7. Len(y.queue) = Len(q)
  <2>1. DOMAIN y.queue = 1 .. Len(y.queue) /\ Len(y.queue) \in Nat
    BY StreamFields, LenProperties
  <2> QED
    BY <1>1, <1>6, <2>1
<1> QED
  BY <1>2, <1>4, <1>5, <1>7 DEF TailMoved

LEMMA HandoffMoves ==
  ASSUME NEW x \in Stream, HeldHome(x), x.held # <<>> PROVE TailMoved(x, HandoffWriter(x))
<1> DEFINE q   == x.queue
           raw == {i \in DOMAIN q : RawData(q[i])}
           m   == Max(raw)
           y   == HandoffWriter(x)
<1>1. q \in Seq(SegmentSet) /\ Len(q) \in Nat /\ DOMAIN q = 1 .. Len(q)
  BY StreamFields, LenProperties
<1>2. y \in Stream
  BY HandoffKeeps
<1>3. PICK i \in 1 .. Len(q) : RawData(q[i]) /\ \A j \in 1 .. Len(q) : HasSpan(q[j]) => j = i
  BY DEF HeldHome
<1>4. raw # {} /\ raw \subseteq 0 .. Len(q) /\ i \in raw
  BY <1>1, <1>3
<1>5. m \in raw
  <2> HIDE DEF raw, q
  <2> QED
    BY <1>1, <1>4, MaxUpTo
<1>6. m \in 1 .. Len(q) /\ RawData(q[m]) /\ \A j \in 1 .. Len(q) : HasSpan(q[j]) => j = m
  <2>1. m \in 1 .. Len(q) /\ RawData(q[m])
    BY <1>1, <1>5
  <2>2. m = i
    BY <1>3, <2>1 DEF RawData
  <2> QED
    BY <1>3, <2>1, <2>2
<1>7. y = [x EXCEPT !.queue[m].content = <<@[1] \o x.held>>, !.held = <<>>]
  BY <1>4 DEF HandoffWriter
<1> HIDE DEF m, raw, y
<1> QED
  BY <1>2, <1>6, <1>7, MovedUpdate DEF y

LEMMA FlushedMoves ==
  ASSUME NEW x \in Stream, HeldHome(x), x.held # <<>> PROVE TailMoved(x, Flushed(x))
<1> DEFINE q     == x.queue
           spans == {i \in DOMAIN q : HasSpan(q[i])}
           m     == Min(spans)
           y     == Flushed(x)
<1>1. q \in Seq(SegmentSet) /\ Len(q) \in Nat /\ DOMAIN q = 1 .. Len(q)
  BY StreamFields, LenProperties
<1>2. y \in Stream
  BY FlushedTail
<1>3. PICK i \in 1 .. Len(q) : RawData(q[i]) /\ \A j \in 1 .. Len(q) : HasSpan(q[j]) => j = i
  BY DEF HeldHome
<1>4. spans # {} /\ spans \subseteq Nat /\ i \in spans
  BY <1>1, <1>3 DEF RawData
<1>5. m \in spans
  <2> HIDE DEF spans, q
  <2> QED
    BY <1>1, <1>4, MinIsLeast
<1>6. m \in 1 .. Len(q) /\ RawData(q[m]) /\ \A j \in 1 .. Len(q) : HasSpan(q[j]) => j = m
  <2>1. m \in 1 .. Len(q) /\ HasSpan(q[m])
    BY <1>1, <1>5
  <2>2. m = i
    BY <1>3, <2>1
  <2> QED
    BY <1>3, <2>1, <2>2
<1>7. y = [x EXCEPT !.queue[m].content = <<@[1] \o x.held>>, !.held = <<>>]
  BY <1>4 DEF Flushed
<1> HIDE DEF m, spans, y
<1> QED
  BY <1>2, <1>6, <1>7, MovedUpdate DEF y

LEMMA MovedOver ==
  ASSUME NEW x \in Stream, x.held # <<>>, NEW y, TailMoved(x, y),
         NEW evs, Openly(Segs(x), evs, x.held)
  PROVE  Over(Segs(y), evs)
<1> DEFINE o == x.out
           q == x.queue
           r == y.queue
           h == x.held
           a == Segs(x)
           b == Segs(y)
<1>1. PICK m \in 1 .. Len(q) :
        /\ RawData(q[m]) /\ r[m].ev = q[m].ev /\ r[m].content = <<q[m].content[1] \o h>>
        /\ \A j \in 1 .. Len(q) : j # m => ~ HasSpan(q[j]) /\ r[j] = q[j]
  BY DEF TailMoved
<1>2. /\ o \in Seq(SegmentSet) /\ q \in Seq(SegmentSet) /\ r \in Seq(SegmentSet)
      /\ Len(o) \in Nat /\ Len(q) \in Nat /\ Len(r) = Len(q) /\ y \in Stream
      /\ a = o \o q /\ b = o \o r
  BY StreamFields DEF TailMoved, Segs
<1>3. Paired(a, evs) /\ Resting(h)
  BY DEF Openly
<1>4. Openly(a, evs, h) /\ h # <<>>
  OBVIOUS
<1> HIDE DEF o, q, r, h, a, b
<1>5. /\ a \in Seq(SegmentSet) /\ Len(a) = Len(o) + Len(q)
      /\ \A i \in 1 .. Len(o) + Len(q) : a[i] = IF i <= Len(o) THEN o[i] ELSE q[i - Len(o)]
  BY <1>2, ConcatProperties
<1>6. /\ b \in Seq(SegmentSet) /\ Len(b) = Len(o) + Len(q)
      /\ \A i \in 1 .. Len(o) + Len(q) : b[i] = IF i <= Len(o) THEN o[i] ELSE r[i - Len(o)]
  <2>1. /\ b \in Seq(SegmentSet) /\ Len(b) = Len(o) + Len(r)
        /\ \A i \in 1 .. Len(o) + Len(r) : b[i] = IF i <= Len(o) THEN o[i] ELSE r[i - Len(o)]
    <3>1. o \in Seq(SegmentSet) /\ r \in Seq(SegmentSet) /\ b = o \o r
      BY <1>2
    <3> QED
      BY <3>1, ConcatProperties
  <2>2. Len(r) = Len(q)
    BY <1>2
  <2> QED
    BY <2>1, <2>2, Zenon
<1> DEFINE k == Len(o) + m
<1>7. k \in 1 .. Len(a) /\ k - Len(o) = m /\ ~ (k <= Len(o)) /\ k \in 1 .. Len(o) + Len(q)
  BY <1>2, <1>5
<1> HIDE DEF k
<1>8. a[k] = q[m] /\ b[k] = r[m]
  BY <1>5, <1>6, <1>7
<1>9. \A i \in 1 .. Len(a) : i # k =>
        a[i] = b[i] /\ (i > Len(o) => ~ HasSpan(a[i]))
  <2>1. ASSUME NEW i \in 1 .. Len(a), i # k PROVE a[i] = b[i] /\ (i > Len(o) => ~ HasSpan(a[i]))
    <3>1. CASE i <= Len(o)
      <4>1. i \in 1 .. Len(o) + Len(q) /\ ~ (i > Len(o))
        BY <1>2, <1>5, <3>1
      <4> QED
        BY <1>5, <1>6, <3>1, <4>1
    <3>2. CASE ~ (i <= Len(o))
      <4>1. i \in 1 .. Len(o) + Len(q) /\ i - Len(o) \in 1 .. Len(q) /\ i - Len(o) # m
        BY <1>2, <1>5, <1>7, <2>1, <3>2 DEF k
      <4>2. a[i] = q[i - Len(o)] /\ b[i] = r[i - Len(o)]
        BY <1>5, <1>6, <3>2, <4>1
      <4> QED
        BY <1>1, <4>1, <4>2
    <3> QED
      BY <3>1, <3>2
  <2> QED
    BY <2>1
<1>10. Join(b[k].content) = Join(a[k].content) \o h
  <2> DEFINE c == q[m].content
  <2>1. c \in Seq(Seq(Cells)) /\ Len(c) = 1
    <3>1. q[m] \in SegmentSet
      BY <1>2, ElementOfSeq
    <3> QED
      BY <1>1, <3>1 DEF SegmentSet, SegmentOf, Record
  <2>2. r[m].content = <<c[1] \o h>>
    BY <1>1
  <2> HIDE DEF c
  <2>3. c[1] \in Seq(Cells)
    BY <2>1, ElementOfSeq
  <2>4. Join(c) = c[1]
    <3>1. 1 \in 1 .. Len(c) /\ \A i \in 1 .. Len(c) : i # 1 => c[i] = <<>>
      BY <2>1
    <3> QED
      BY <2>1, <3>1, JoinSole
  <2>5. h \in Seq(Cells)
    BY <1>3, PlainIsCells DEF Resting
  <2>6. c[1] \o h \in Seq(Cells)
    BY <2>3, <2>5, ConcatProperties
  <2>7. Join(<<c[1] \o h>>) = c[1] \o h
    BY <2>6, JoinOne
  <2> QED
    BY <1>8, <2>2, <2>4, <2>7 DEF c
<1>11. MovedTo(a, b, k, h)
  BY <1>5, <1>6, <1>7, <1>9, <1>10 DEF MovedTo
<1>12. Len(evs) = Len(a) /\ \A i \in 1 .. Len(a) : a[i].ev = evs[i]
  BY <1>3 DEF Paired
<1>13. Paired(b, evs)
  <2>1. \A i \in 1 .. Len(a) : b[i].ev = a[i].ev
    BY <1>1, <1>8, <1>9
  <2> QED
    BY <1>3, <1>5, <1>6, <1>12, <2>1 DEF Paired
<1>14. evs[k].kind # "other"
  BY <1>1, <1>7, <1>8, <1>12 DEF RawData, HasSpan
<1>15. \A j \in k + 1 .. Len(evs) : evs[j].kind = "other"
  <2>1. \A j \in k + 1 .. Len(evs) : j \in 1 .. Len(a) /\ j # k /\ j > Len(o)
    BY <1>2, <1>7, <1>12
  <2> QED
    BY <1>9, <1>12, <2>1 DEF HasSpan
<1>16. Over(b, evs)
  BY <1>4, <1>11, <1>13, <1>14, <1>15, TailOver
<1> QED
  BY <1>16 DEF b

\* After the handoff, and after Flush, every run is over.
LEMMA HandedOver ==
  ASSUME NEW x \in Stream, HeldHome(x), NEW evs, Openly(Segs(x), evs, x.held)
  PROVE  Over(Segs(HandoffWriter(x)), evs)
<1>1. CASE x.held = <<>>
  <2>1. HandoffWriter(x) = x
    BY <1>1 DEF HandoffWriter
  <2> QED
    BY <1>1, <2>1, NoneHeldOver
<1>2. CASE x.held # <<>>
  BY <1>2, HandoffMoves, MovedOver
<1> QED
  BY <1>1, <1>2

LEMMA FlushedOver ==
  ASSUME NEW x \in Stream, HeldHome(x), NEW evs, Openly(Segs(x), evs, x.held)
  PROVE  Over(Segs(Flushed(x)), evs)
<1>1. CASE x.held = <<>>
  <2> DEFINE q     == x.queue
             spans == {i \in DOMAIN q : HasSpan(q[i])}
             m     == Min(spans)
  <2>1. Flushed(x).queue = x.queue /\ Flushed(x).out = x.out
    <3>1. CASE spans = {}
      BY <3>1 DEF Flushed
    <3>2. CASE spans # {}
      <4>1. q \in Seq(SegmentSet) /\ Len(q) \in Nat /\ DOMAIN q = 1 .. Len(q)
        BY StreamFields, LenProperties
      <4>2. m \in DOMAIN q
        <5>1. spans \subseteq Nat
          BY <4>1
        <5>2. m \in spans
          <6> HIDE DEF spans
          <6> QED
            BY <3>2, <5>1, MinIsLeast
        <5> QED
          BY <5>2
      <4>3. Flushed(x) = [x EXCEPT !.queue[m].content = @, !.held = <<>>]
        BY <1>1, <3>2 DEF Flushed
      <4> HIDE DEF m, spans
      <4>4. q[m] \in SegmentSet
        BY <4>1, <4>2, ElementOfSeq
      <4>5. [q[m] EXCEPT !.content = @] = q[m]
        BY <4>4 DEF SegmentSet, Record
      <4>6. Flushed(x).queue = [q EXCEPT ![m] = [q[m] EXCEPT !.content = @]] /\ Flushed(x).out = x.out
        BY <4>3 DEF Stream
      <4>7. [q EXCEPT ![m] = q[m]] = q
        <5> HIDE DEF q
        <5> QED
          BY <4>1, <4>2
      <4> QED
        BY <4>5, <4>6, <4>7
    <3> QED
      BY <3>1, <3>2
  <2>2. Segs(Flushed(x)) = Segs(x)
    BY <2>1 DEF Segs
  <2> QED
    BY <1>1, <2>2, NoneHeldOver
<1>2. CASE x.held # <<>>
  BY <1>2, FlushedMoves, MovedOver
<1> QED
  BY <1>1, <1>2

-----------------------------------------------------------------------------
(* The steps, for the raw text. *)

\* The raw text of what x has written so far, for the events evs.
Opens(y, evs) == Openly(Segs(y), evs, y.held)

LEMMA LeafOpens ==
  ASSUME fed \in Seq(Events), NEW ev \in Events, Envelope(ev), NEW seg \in SegmentSet, seg.ev = ev,
         NEW a, Over(a, fed), NEW y, y.held = <<>>, Segs(y) = a \o <<seg>>
  PROVE  Opens(y, Append(fed, ev))
<1>1. ev.kind = "json"
  BY DEF Envelope
<1>2. Openly(a \o <<seg>>, fed \o <<ev>>, <<>>)
  BY <1>1, DocumentOpens
<1>3. Append(fed, ev) = fed \o <<ev>>
  BY AppendIsConcat
<1> QED
  BY <1>2, <1>3 DEF Opens

LEMMA EmittedOpens ==
  ASSUME fed \in Seq(Events), NEW ev \in Events, Envelope(ev), NEW content, TextsOf(ev, content),
         NEW x \in Stream, x.held = <<>>, x.carry = <<>>, x.parts = <<>>, Over(Segs(x), fed)
  PROVE  Opens(Drain(Emitted(x, ev, content)), Append(fed, ev))
<1> DEFINE seg == Segment(ev, TRUE, content, NoExtra(ev))
           y   == EmitSegment(x, seg)
           z   == Drain(y)
           a   == Segs(x)
<1>1. seg \in SegmentSet /\ seg.ev = ev
  <2>1. NextSegment(seg, ev, content)
    BY NoExtraOf, LeafSegment
  <2> HIDE DEF seg
  <2> QED
    BY <2>1 DEF NextSegment
<1>2. Emitted(x, ev, content) = y
  BY DEF Emitted
<1> HIDE DEF seg
<1>3. Segs(y) = a \o <<seg>> /\ y \in Stream /\ SameCarry(x, y) /\ y.held = <<>>
  BY <1>1, EmitSays, EmitKeeps
<1> HIDE DEF y
<1>4. Home(y)
  <2>1. y.carry = <<>> /\ y.parts = <<>>
    BY <1>3 DEF SameCarry
  <2> QED
    BY <2>1, NoParts
<1>5. Segs(z) = Segs(y) /\ z.held = <<>>
  BY <1>3, <1>4, DrainSays, DrainKeeps
<1>6. Over(a, fed)
  OBVIOUS
<1> HIDE DEF z, a
<1>7. Opens(z, Append(fed, ev))
  BY <1>1, <1>3, <1>5, <1>6, LeafOpens
<1> QED
  BY <1>2, <1>7 DEF z

LEMMA EstablishedOpens ==
  ASSUME fed \in Seq(Events), NEW ev \in Events, Envelope(ev), NEW content, TextsOf(ev, content),
         NEW extra, ExtraOf(ev, extra), NEW p, FoundIn(ev, p),
         NEW x \in Stream, x.held = <<>>, x.queue = <<>>, x.carry = <<>>,
         Ordered(x, Len(fed)), Over(Segs(x), fed), CanHold(x, ev, content, p)
  PROVE  Opens(Drain(Establish(x, ev, content, extra, p)), Append(fed, ev))
<1> DEFINE seg == Segment(ev, TRUE, content, extra)
           y   == Establish(x, ev, content, extra, p)
           z   == Drain(y)
           a   == Segs(x)
<1>1. EstablishedAs(y, x, ev, content, extra, p)
  BY EstablishedIs
<1> HIDE DEF y
<1>2. /\ y \in Stream /\ Home(y) /\ y.held = <<>> /\ y.queue = <<seg>> /\ y.out = x.out
      /\ seg \in SegmentSet /\ seg.ev = ev
  BY <1>1 DEF EstablishedAs, NextSegment
<1> HIDE DEF seg
<1>3. Segs(y) = a \o <<seg>>
  <2>1. x.out \in Seq(SegmentSet) /\ a = x.out \o <<>>
    BY StreamFields DEF Segs
  <2>2. a = x.out
    BY <2>1, ConcatEmptySeq
  <2> QED
    BY <1>2, <2>2 DEF Segs
<1>4. Segs(z) = Segs(y) /\ z.held = <<>>
  BY <1>2, DrainSays, DrainKeeps
<1>5. Over(a, fed)
  OBVIOUS
<1> HIDE DEF z, a
<1>6. Opens(z, Append(fed, ev))
  BY <1>2, <1>3, <1>4, <1>5, LeafOpens
<1> QED
  BY <1>6 DEF z, y

LEMMA StartOpens ==
  ASSUME fed \in Seq(Events), NEW ev \in Events, Envelope(ev), NEW content, TextsOf(ev, content),
         NEW extra, ExtraOf(ev, extra), NEW p, FoundIn(ev, p),
         NEW x \in Stream, x.held = <<>>, x.carry = <<>>, x.parts = <<>>, Over(Segs(x), fed),
         NEW hold \in Stream, hold.held = <<>>, hold.queue = <<>>, hold.carry = <<>>,
         Ordered(hold, Len(fed)), Segs(hold) = Segs(x),
         StartOrEmit(x, hold, ev, content, extra, p)
  PROVE  Opens(s', fed')
<1> DEFINE evs == Append(fed, ev)
<1>1. CASE CanHold(hold, ev, content, p)
  <2> DEFINE y == Drain(Establish(hold, ev, content, extra, p))
  <2>1. Over(Segs(hold), fed)
    OBVIOUS
  <2>2. Opens(y, evs)
    BY <1>1, <2>1, EstablishedOpens
  <2>3. s' = y /\ fed' = evs
    BY <1>1 DEF StartOrEmit, Feed
  <2> HIDE DEF y, evs
  <2> QED
    BY <2>2, <2>3
<1>2. CASE ~ CanHold(hold, ev, content, p)
  <2> DEFINE y == Drain(Emitted(x, ev, content))
  <2>1. Opens(y, evs)
    BY EmittedOpens
  <2>2. s' = y /\ fed' = evs
    BY <1>2 DEF StartOrEmit, Feed
  <2> HIDE DEF y, evs
  <2> QED
    BY <2>1, <2>2
<1> QED
  BY <1>1, <1>2

\* Deleting the fragments of a carry changes envelopes only.
LEMMA EditedOver ==
  ASSUME NEW x \in Stream, Home(x), NEW evs, Over(Segs(x), evs)
  PROVE  Over(Segs(EditAll(x)), evs)
<1> DEFINE o == x.out
           q == x.queue
           y == EditAll(x)
           r == y.queue
           a == Segs(x)
           b == Segs(y)
<1>1. y \in Stream /\ Alike(x, y)
  BY EditAllKeeps
<1>2. /\ o \in Seq(SegmentSet) /\ q \in Seq(SegmentSet) /\ Len(o) \in Nat /\ Len(q) \in Nat
  BY StreamFields
<1>3. \A i \in 1 .. Len(q) : r[i].ev = q[i].ev /\ (~ q[i].leaf => r[i] = q[i])
  <2>1. ASSUME NEW i \in 1 .. Len(q), ~ q[i].leaf PROVE r[i] = q[i]
    <3>1. r[i] = Cut(q, Range(x.parts), i)
      BY EditAllIs
    <3>2. Mine(Range(x.parts), i) = {}
      <4>1. ASSUME NEW p \in Range(x.parts), p.seg = i PROVE FALSE
        <5>1. PICK k \in 1 .. Len(x.parts) : p = x.parts[k]
          <6>1. DOMAIN x.parts = 1 .. Len(x.parts)
            BY StreamFields, LenProperties
          <6> QED
            BY <4>1, <6>1 DEF Range
        <5>2. PartHome(x, p)
          BY <5>1 DEF Home
        <5> QED
          BY <2>1, <4>1, <5>2 DEF PartHome
      <4> QED
        BY <4>1 DEF Mine
    <3> QED
      BY <3>1, <3>2 DEF Cut
  <2>2. \A i \in 1 .. Len(q) : r[i].ev = q[i].ev
    BY <1>1 DEF Alike
  <2> QED
    BY <2>1, <2>2
<1>4. r \in Seq(SegmentSet) /\ Len(r) = Len(q) /\ a = o \o q /\ b = o \o r
  BY <1>1, StreamFields DEF Alike, Segs
<1>5. Paired(a, evs) /\ Over(a, evs)
  BY DEF Over
<1> HIDE DEF o, q, r, y, a, b
<1>6. /\ Len(a) = Len(o) + Len(q)
      /\ \A i \in 1 .. Len(o) + Len(q) : a[i] = IF i <= Len(o) THEN o[i] ELSE q[i - Len(o)]
  BY <1>2, <1>4, ConcatProperties
<1>7. /\ b \in Seq(SegmentSet) /\ Len(b) = Len(o) + Len(q)
      /\ \A i \in 1 .. Len(o) + Len(q) : b[i] = IF i <= Len(o) THEN o[i] ELSE r[i - Len(o)]
  <2>1. /\ b \in Seq(SegmentSet) /\ Len(b) = Len(o) + Len(r)
        /\ \A i \in 1 .. Len(o) + Len(r) : b[i] = IF i <= Len(o) THEN o[i] ELSE r[i - Len(o)]
    <3>1. o \in Seq(SegmentSet) /\ r \in Seq(SegmentSet) /\ b = o \o r
      BY <1>2, <1>4
    <3> QED
      BY <3>1, ConcatProperties
  <2>2. Len(r) = Len(q)
    BY <1>4
  <2> QED
    BY <2>1, <2>2, Zenon
<1>8. \A i \in 1 .. Len(a) : b[i].ev = a[i].ev /\ (~ a[i].leaf => b[i] = a[i])
  <2>1. ASSUME NEW i \in 1 .. Len(a) PROVE b[i].ev = a[i].ev /\ (~ a[i].leaf => b[i] = a[i])
    <3>1. CASE i <= Len(o)
      BY <1>6, <1>7, <2>1, <3>1
    <3>2. CASE ~ (i <= Len(o))
      <4>1. i - Len(o) \in 1 .. Len(q)
        BY <1>2, <1>6, <2>1, <3>2
      <4>2. a[i] = q[i - Len(o)] /\ b[i] = r[i - Len(o)]
        BY <1>6, <1>7, <2>1, <3>2
      <4> QED
        BY <1>3, <4>1, <4>2
    <3> QED
      BY <3>1, <3>2
  <2> QED
    BY <2>1
<1>9. Len(evs) = Len(a)
  BY <1>5 DEF Paired
<1>10. Paired(b, evs)
  BY <1>5, <1>6, <1>7, <1>8, <1>9 DEF Paired
<1>11. Over(b, evs)
  BY <1>5, <1>8, <1>9, <1>10, EnvelopesAside
<1> QED
  BY <1>11 DEF b, y

Raw(x, evs, shut) == IF shut THEN Over(Segs(x), evs) ELSE Opens(x, evs)
StreamRaw == StreamInv /\ Raw(s, fed, closed)

LEMMA HandoffOver ==
  ASSUME StreamRaw, ~ closed
  PROVE  /\ Good(s, Len(fed)) /\ fed \in Seq(Events) /\ s \in Stream
         /\ Good(HandoffWriter(s), Len(fed)) /\ SameCarry(s, HandoffWriter(s))
         /\ HandoffWriter(s).held = <<>> /\ Over(Segs(HandoffWriter(s)), fed)
<1>1. Good(s, Len(fed)) /\ fed \in Seq(Events)
  BY GoodNow DEF StreamRaw
<1>2. s \in Stream /\ HeldHome(s)
  BY <1>1 DEF Good
<1>3. Openly(Segs(s), fed, s.held)
  BY DEF StreamRaw, Raw, Opens
<1>4. Over(Segs(HandoffWriter(s)), fed)
  BY <1>2, <1>3, HandedOver
<1> QED
  BY <1>1, <1>2, <1>4, HandoffGood

LEMMA FirstOpens ==
  ASSUME StreamRaw, NEW ev \in Events, LeafFirst(ev) PROVE Opens(s', fed')
<1> DEFINE x    == HandoffWriter(s)
           hold == ReleaseAll(x)
<1>1. /\ Envelope(ev) /\ s.carry = <<>> /\ ~ closed
      /\ StartOrEmit(x, hold, ev, WithinLeafContent(ev), NoExtra(ev), TrailingPrefix(ev))
  BY DEF LeafFirst, Open
<1>2. /\ fed \in Seq(Events) /\ Good(x, Len(fed)) /\ SameCarry(s, x) /\ x.held = <<>>
      /\ Over(Segs(x), fed)
  BY <1>1, HandoffOver
<1> HIDE DEF x
<1>3. x \in Stream /\ Ordered(x, Len(fed)) /\ x.carry = <<>> /\ x.parts = <<>>
  BY <1>1, <1>2 DEF Good, Home, SameCarry
<1>4. /\ hold \in Stream /\ hold.held = <<>> /\ hold.queue = <<>> /\ hold.carry = <<>>
      /\ Ordered(hold, Len(fed)) /\ Segs(hold) = Segs(x)
  BY <1>2, <1>3, ReleaseAllKeeps, ReleaseAllSays DEF SameCarry
<1> HIDE DEF hold
<1>5. /\ TextsOf(ev, WithinLeafContent(ev)) /\ ExtraOf(ev, NoExtra(ev))
      /\ FoundIn(ev, TrailingPrefix(ev))
  BY WithinLeafContentOf, NoExtraOf, TrailingPrefixFound
<1> QED
  BY <1>1, <1>2, <1>3, <1>4, <1>5, StartOpens

LEMMA FlushedRaw ==
  ASSUME StreamRaw, ~ closed
  PROVE  LET x == FlushHeld(HandoffWriter(s))
         IN  /\ x \in Stream /\ x.held = <<>> /\ x.queue = <<>> /\ x.carry = <<>> /\ x.parts = <<>>
             /\ Ordered(x, Len(fed)) /\ Over(Segs(x), fed)
<1> DEFINE h == HandoffWriter(s)
           x == FlushHeld(h)
<1>1. Good(h, Len(fed)) /\ h.held = <<>> /\ Over(Segs(h), fed)
  BY HandoffOver
<1>2. h \in Stream /\ Ordered(h, Len(fed))
  BY <1>1 DEF Good
<1> HIDE DEF h
<1>3. /\ x \in Stream /\ x.held = <<>> /\ x.queue = <<>> /\ x.carry = <<>> /\ x.parts = <<>>
      /\ Ordered(x, Len(fed)) /\ Segs(x) = Segs(h)
  BY <1>1, <1>2, FlushedGood, FlushHeldSays
<1> HIDE DEF x
<1> QED
  BY <1>1, <1>3 DEF x, h

LEMMA NoMatchOpens ==
  ASSUME StreamRaw, NEW ev \in Events, LeafNoMatch(ev) PROVE Opens(s', fed')
<1> DEFINE x == FlushHeld(HandoffWriter(s))
<1>1. fed \in Seq(Events)
  BY DEF StreamRaw, StreamInv
<1>2. /\ Envelope(ev) /\ ~ closed
      /\ StartOrEmit(x, x, ev, WithinLeafContent(ev), NoExtra(ev), TrailingPrefix(ev))
  BY DEF LeafNoMatch, Open
<1>3. /\ x \in Stream /\ x.held = <<>> /\ x.queue = <<>> /\ x.carry = <<>> /\ x.parts = <<>>
      /\ Ordered(x, Len(fed)) /\ Over(Segs(x), fed)
  BY <1>2, FlushedRaw
<1> HIDE DEF x
<1>4. /\ TextsOf(ev, WithinLeafContent(ev)) /\ ExtraOf(ev, NoExtra(ev))
      /\ FoundIn(ev, TrailingPrefix(ev))
  BY WithinLeafContentOf, NoExtraOf, TrailingPrefixFound
<1> QED
  BY <1>1, <1>2, <1>3, <1>4, StartOpens

LEMMA GiveUpOpens ==
  ASSUME StreamRaw, NEW ev \in Events, LeafGiveUp(ev) PROVE Opens(s', fed')
<1> DEFINE x == FlushHeld(HandoffWriter(s))
           y == Drain(Emitted(x, ev, WithinLeafContent(ev)))
<1>1. fed \in Seq(Events)
  BY DEF StreamRaw, StreamInv
<1>2. Envelope(ev) /\ ~ closed /\ s' = y /\ fed' = Append(fed, ev)
  BY DEF LeafGiveUp, Continues, Open, Feed
<1>3. /\ x \in Stream /\ x.held = <<>> /\ x.carry = <<>> /\ x.parts = <<>> /\ Over(Segs(x), fed)
  BY <1>2, FlushedRaw
<1> HIDE DEF x
<1>4. TextsOf(ev, WithinLeafContent(ev))
  BY WithinLeafContentOf
<1>5. Opens(y, Append(fed, ev))
  BY <1>1, <1>2, <1>3, <1>4, EmittedOpens
<1> HIDE DEF y
<1> QED
  BY <1>2, <1>5

LEMMA CompleteOpens ==
  ASSUME StreamRaw, NEW ev \in Events, LeafComplete(ev) PROVE Opens(s', fed')
<1> DEFINE m == Match(ev, s.key)
           k == Len(Completed(ev)) - Len(s.carry)
           h == HandoffWriter(s)
           e == EditAll(h)
           x == FlushHeld(e)
           restore == [from |-> 1, to |-> k + 1, rep |-> Backfilled(Completed(ev), TRUE)]
           extra   == [NoExtra(ev) EXCEPT ![m] = <<restore>>]
<1>2. /\ Envelope(ev) /\ ~ closed /\ m # 0 /\ Completed(ev) \in Mapped
      /\ StartOrEmit(x, x, ev, ContentWith(ev, extra), extra, TrailingPrefixAfter(ev, m, k))
  BY DEF LeafComplete, Restorable, Continues, Open
<1>1. /\ Good(s, Len(fed)) /\ fed \in Seq(Events) /\ s \in Stream
      /\ Good(h, Len(fed)) /\ h.held = <<>> /\ Over(Segs(h), fed)
  BY <1>2, HandoffOver
<1>3. h \in Stream /\ Home(h) /\ Ordered(h, Len(fed))
  BY <1>1 DEF Good
<1> HIDE DEF h
<1>4. e \in Stream /\ Ordered(e, Len(fed)) /\ e.held = <<>> /\ Over(Segs(e), fed)
  BY <1>1, <1>3, EditAllKeeps, AlikeKeeps, EditedOver
<1> HIDE DEF e
<1>5. /\ x \in Stream /\ x.held = <<>> /\ x.queue = <<>> /\ x.carry = <<>> /\ x.parts = <<>>
      /\ Ordered(x, Len(fed)) /\ Segs(x) = Segs(e)
  BY <1>4, FlushedGood, FlushHeldSays
<1> HIDE DEF x
<1>6. Completed(ev) \in Seq(Cells) /\ k \in 1 .. Len(ev.leaves[m].text) /\ k \in Nat
  BY <1>1, <1>2, CompletedLies DEF StreamRaw
<1>7. m \in 1 .. Len(ev.leaves)
  BY <1>2, MatchLies
<1> HIDE DEF m, k
<1>8. ExtraOf(ev, extra)
  <2> DEFINE r == Backfilled(Completed(ev), TRUE)
  <2>1. r \in Seq(Cells)
    BY <1>6, BackfilledText, SecretsAreCells
  <2> HIDE DEF r
  <2>2. RestoredBy([NoExtra(ev) EXCEPT ![m] = <<[from |-> 1, to |-> k + 1, rep |-> r]>>], ev, m, k, r)
    BY <1>6, <1>7, <2>1, RestoreExtra
  <2>3. extra = [NoExtra(ev) EXCEPT ![m] = <<[from |-> 1, to |-> k + 1, rep |-> r]>>]
    BY DEF r
  <2> HIDE DEF extra
  <2> QED
    BY <2>2, <2>3 DEF RestoredBy
<1> HIDE DEF extra
<1>9. TextsOf(ev, ContentWith(ev, extra)) /\ FoundIn(ev, TrailingPrefixAfter(ev, m, k))
  BY <1>6, <1>8, ContentOf, TrailingPrefixAfterFound
<1>10. Over(Segs(x), fed)
  BY <1>4, <1>5
<1> QED
  BY <1>1, <1>2, <1>5, <1>8, <1>9, <1>10, StartOpens

LEMMA ExtendOpens ==
  ASSUME StreamRaw, NEW ev \in Events, LeafExtend(ev) PROVE Opens(s', fed')
<1> DEFINE h   == HandoffWriter(s)
           seg == Segment(ev, TRUE, WithinLeafContent(ev), NoExtra(ev))
           y   == Extended(ev)
           z   == Drain(y)
           a   == Segs(h)
<1>1. Envelope(ev) /\ ~ closed
  BY DEF LeafExtend, Continues, Open
<1>2. fed \in Seq(Events) /\ Good(h, Len(fed)) /\ Over(a, fed)
  BY <1>1, HandoffOver
<1>3. ExtendedAs(y, ev) /\ Feed(ev, z, LeftOver(ev, {Match(ev, s.key)}))
  BY ExtendedIs DEF StreamRaw
<1> HIDE DEF y
<1>4. /\ y \in Stream /\ Home(y) /\ y.held = <<>> /\ seg \in SegmentSet /\ seg.ev = ev
      /\ y.out = h.out /\ y.queue = Append(h.queue, seg)
  BY <1>3 DEF ExtendedAs, NextSegment
<1>5. s' = z /\ fed' = Append(fed, ev)
  BY <1>3 DEF Feed
<1> HIDE DEF seg
<1>6. Segs(y) = a \o <<seg>>
  <2>1. h \in Stream
    BY <1>2 DEF Good
  <2> HIDE DEF h
  <2>2. Segs(EmitSegment(h, seg)) = Segs(h) \o <<seg>>
    BY <1>4, <2>1, EmitSays
  <2>3. EmitSegment(h, seg).out = h.out /\ EmitSegment(h, seg).queue = Append(h.queue, seg)
    BY <2>1 DEF EmitSegment, Stream
  <2> QED
    BY <1>4, <2>2, <2>3 DEF Segs
<1> HIDE DEF h, a
<1>7. Segs(z) = Segs(y) /\ z.held = <<>>
  BY <1>4, DrainSays, DrainKeeps
<1> HIDE DEF z
<1>8. Opens(z, Append(fed, ev))
  BY <1>1, <1>2, <1>4, <1>6, <1>7, LeafOpens
<1> QED
  BY <1>5, <1>8

LEMMA StillText ==
  ASSUME NEW evs \in Seq(Events), LastIsText(evs), NEW ev \in Events, ev.kind = "other"
  PROVE  LastIsText(evs \o <<ev>>)
<1> DEFINE e  == <<ev>>
           ee == evs \o e
           n  == Len(evs)
<1>1. n \in Nat /\ e \in Seq(Events) /\ Len(e) = 1 /\ e[1] = ev
  BY LenProperties
<1> HIDE DEF e
<1>2. /\ Len(ee) = n + Len(e)
      /\ \A i \in 1 .. n + Len(e) : ee[i] = IF i <= n THEN evs[i] ELSE e[i - n]
  BY <1>1, ConcatProperties
<1> HIDE DEF ee
<1>3. Len(ee) = n + 1
  BY <1>1, <1>2
<1>4. \A i \in 1 .. n : ee[i] = evs[i]
  BY <1>1, <1>2
<1>5. \A i \in 1 .. n + 1 : i > n => ee[i] = ev
  <2>1. \A i \in 1 .. n + 1 : i > n => i - n = 1 /\ ~ (i <= n) /\ i \in 1 .. n + Len(e)
    BY <1>1
  <2> QED
    BY <1>1, <1>2, <2>1
<1>6. PICK k \in 1 .. n : evs[k].kind = "text" /\ \A j \in k + 1 .. n : evs[j].kind = "other"
  BY DEF LastIsText
<1>7. k \in 1 .. Len(ee) /\ ee[k].kind = "text"
  BY <1>1, <1>3, <1>4, <1>6
<1>8. \A j \in k + 1 .. Len(ee) : ee[j].kind = "other"
  <2>1. ASSUME NEW j \in k + 1 .. Len(ee) PROVE ee[j].kind = "other"
    <3>1. CASE j > n
      <4>1. j \in 1 .. n + 1
        BY <1>1, <1>3
      <4> QED
        BY <1>5, <3>1, <4>1
    <3>2. CASE ~ (j > n)
      <4>1. j \in k + 1 .. n /\ j \in 1 .. n
        BY <1>1, <1>3, <3>2
      <4> QED
        BY <1>4, <1>6, <4>1
    <3> QED
      BY <3>1, <3>2
  <2> QED
    BY <2>1
<1> QED
  BY <1>7, <1>8 DEF LastIsText, ee, e

LEMMA TextIsLast ==
  ASSUME NEW evs \in Seq(Events), NEW ev \in Events, ev.kind = "text"
  PROVE  LastIsText(evs \o <<ev>>)
<1> DEFINE e  == <<ev>>
           ee == evs \o e
           n  == Len(evs)
           p  == n + 1
<1>1. n \in Nat /\ e \in Seq(Events) /\ Len(e) = 1 /\ e[1] = ev
  BY LenProperties
<1> HIDE DEF e
<1>2. /\ Len(ee) = n + Len(e)
      /\ \A i \in 1 .. n + Len(e) : ee[i] = IF i <= n THEN evs[i] ELSE e[i - n]
  BY <1>1, ConcatProperties
<1> HIDE DEF ee
<1>3. Len(ee) = p /\ p \in 1 .. n + Len(e) /\ ~ (p <= n) /\ p - n = 1 /\ p \in 1 .. p
  BY <1>1, <1>2
<1> HIDE DEF p
<1>4. ee[p] = ev
  BY <1>1, <1>2, <1>3
<1>5. \A j \in p + 1 .. Len(ee) : FALSE
  BY <1>1, <1>3 DEF p
<1> QED
  BY <1>3, <1>4, <1>5 DEF LastIsText, ee, e

LEMMA OtherOpens ==
  ASSUME StreamRaw, NEW ev \in Events, AcceptOther(ev) PROVE Opens(s', fed')
<1> DEFINE seg  == Segment(ev, FALSE, <<>>, NoExtra(ev))
           x    == EmitSegment(s, seg)
           y    == IF Pending(x) THEN x ELSE ReleaseAll(x)
           evs  == Append(fed, ev)
           held == s.held
<1>1. s \in Stream /\ fed \in Seq(Events)
  BY DEF StreamRaw, StreamInv
<1>2. ev.kind = "other" /\ ~ Envelope(ev) /\ s' = y /\ fed' = evs /\ ~ closed
  BY DEF AcceptOther, Envelope, Feed, Open
<1>3. seg \in SegmentSet /\ seg.ev = ev /\ seg.content = <<>>
  <2>1. ExtraOf(ev, NoExtra(ev))
    BY NoExtraOf
  <2>2. <<>> \in Seq(Seq(Cells)) /\ Len(<<>>) = IF ev.kind = "other" THEN 0 ELSE 1
    BY <1>2
  <2>3. NextSegment(seg, ev, <<>>)
    BY <1>1, <1>2, <2>1, <2>2, RawSegment
  <2> HIDE DEF seg
  <2> QED
    BY <2>3 DEF NextSegment
<1> HIDE DEF seg
<1>4. x \in Stream /\ x.held = held /\ Segs(x) = Segs(s) \o <<seg>>
  BY <1>1, <1>3, EmitKeeps, EmitSays
<1> HIDE DEF x
<1>5. y.held = held /\ Segs(y) = Segs(s) \o <<seg>>
  BY <1>4, ReleaseAllKeeps, ReleaseAllSays
<1> HIDE DEF y
<1>6. Openly(Segs(s), fed, held)
  BY <1>2 DEF StreamRaw, Raw, Opens
<1>7. Resting(held) /\ (held # <<>> => LastIsText(fed))
  BY <1>6 DEF Openly
<1> HIDE DEF held
<1>8. held # <<>> => LastIsText(fed \o <<ev>>)
  BY <1>1, <1>2, <1>7, StillText
<1>9. GoesOn(held, RawText(ev), Join(seg.content), held)
  <2>1. RawText(ev) = <<>> /\ Join(seg.content) = <<>>
    BY <1>2, <1>3, JoinNone DEF RawText
  <2>2. ASSUME NEW w \in Seq(Plain)
        PROVE  Restored((held \o <<>>) \o w, FALSE) = <<>> \o Restored(held \o w, FALSE)
    <3> DEFINE z == held \o w
    <3>1. held \o <<>> = held
      BY <1>7, ConcatEmptySeq DEF Resting
    <3>2. z \in Seq(Plain)
      BY <1>7, PlainJoined DEF Resting
    <3> HIDE DEF z
    <3>3. Restored(z, FALSE) \in Seq(Cells)
      BY <3>2, RestoredUnfolds
    <3>4. <<>> \o Restored(z, FALSE) = Restored(z, FALSE)
      BY <3>3, ConcatEmptySeq
    <3> QED
      BY <3>1, <3>4 DEF z
  <2> QED
    BY <2>1, <2>2 DEF GoesOn
<1>10. ev.kind # "json"
  BY <1>2
<1>11. Openly(Segs(s) \o <<seg>>, fed \o <<ev>>, held)
  BY <1>3, <1>6, <1>7, <1>8, <1>9, <1>10, OpenGoesOn
<1>12. evs = fed \o <<ev>>
  BY <1>1, AppendIsConcat
<1> QED
  BY <1>2, <1>5, <1>11, <1>12 DEF Opens

\* The text of an event goes through the writer.
WrittenOn(r, held, text, json) ==
  /\ r.out \in Seq(Cells) /\ Resting(r.held)
  /\ \A w \in Seq(Plain) :
       Restored((held \o text) \o w, json) = r.out \o Restored(r.held \o w, json)

LEMMA FeedWritten ==
  ASSUME NEW held, Resting(held), NEW text \in Seq(Plain), NEW json
  PROVE  WrittenOn(Release(held \o text, json), held, text, json)
<1> DEFINE h == held \o text
<1>1. h \in Seq(Plain)
  BY PlainJoined DEF Resting
<1> HIDE DEF h
<1>2. WrittenOut(Release(h, json), h, 1, json)
  BY <1>1, WriterRestores
<1>3. From(h, 1) = h
  BY <1>1, FromFirst
<1> QED
  BY <1>2, <1>3 DEF WrittenOut, WrittenOn, h

\* A document is written whole.
LEMMA DocumentWritten ==
  ASSUME NEW ev \in Events, ev.kind = "json", ~ Envelope(ev)
  PROVE  LET r == Release(RawText(ev), TRUE)
         IN  r.held = <<>> /\ r.out \in Seq(Cells) /\ r.out = Restored(RawText(ev), TRUE)
<1> DEFINE t == RawText(ev)
           r == Release(t, TRUE)
<1>1. t \in Seq(Plain)
  <2>1. <<ev>> \in Seq(Events)
    OBVIOUS
  <2> QED
    BY <2>1, AskedOne, AskedTyped
<1>2. t = ev.leaves[1].text
  BY DEF RawText
<1> HIDE DEF t
<1>3. WrittenOut(r, t, 1, TRUE)
  BY <1>1, WriterRestores
<1>4. From(t, 1) = t
  BY <1>1, FromFirst
<1> HIDE DEF r
<1>5. r.held = <<>>
  <2>1. SUFFICES ASSUME r.held # <<>> PROVE FALSE
    OBVIOUS
  <2>2. PICK j \in 1 .. Len(t) : r.held = From(t, j)
    BY <1>3, <2>1 DEF WrittenOut
  <2>3. IsPlaceholderPrefix(From(t, j))
    BY <1>3, <2>1, <2>2 DEF WrittenOut, Resting, Stuck
  <2>4. j \in DOMAIN ev.leaves[1].text
    <3>1. DOMAIN t = 1 .. Len(t)
      BY <1>1, LenProperties
    <3> QED
      BY <1>2, <3>1
  <2> QED
    BY <1>2, <2>3, <2>4, DocumentsEnd
<1>6. <<>> \in Seq(Plain)
  OBVIOUS
<1>7. Restored(t \o <<>>, TRUE) = r.out \o Restored(<<>> \o <<>>, TRUE) /\ r.out \in Seq(Cells)
  BY <1>3, <1>4, <1>5, <1>6 DEF WrittenOut
<1>8. t \o <<>> = t /\ <<>> \o <<>> = <<>> /\ Restored(<<>>, TRUE) = <<>>
  <2>1. t \o <<>> = t
    BY <1>1, ConcatEmptySeq
  <2>2. Resting(<<>>)
    BY <1>6 DEF Resting
  <2>3. Restored(<<>>, TRUE) = <<>>
    BY <2>2, RestingStays
  <2>4. <<>> \o <<>> = <<>>
    OBVIOUS
  <2> QED
    BY <2>1, <2>3, <2>4
<1>9. r.out \o <<>> = r.out
  BY <1>7, ConcatEmptySeq
<1>10. Restored(t, TRUE) = r.out
  BY <1>7, <1>8, <1>9
<1> QED
  BY <1>5, <1>7, <1>10 DEF r, t

LEMMA TextOpens ==
  ASSUME StreamRaw, NEW ev \in Events, AcceptText(ev) PROVE Opens(s', fed')
<1> DEFINE x    == IF ev.kind = "json" THEN HandoffWriter(s) ELSE s
           y    == FlushHeld(x)
           text == ev.leaves[1].text
           json == ev.kind = "json"
           r    == Release(y.held \o text, json)
           seg  == Segment(ev, FALSE, <<r.out>>, NoExtra(ev))
           w    == [EmitSegment(y, seg) EXCEPT !.held = r.held]
           evs  == Append(fed, ev)
           a    == Segs(x)
           held == x.held
<1>1. /\ ev.kind # "other" /\ ev.kind \in {"text", "json"} /\ ~ Envelope(ev) /\ ~ closed
      /\ text = RawText(ev) /\ json \in BOOLEAN
  BY StreamOK DEF AcceptText, Open, RawText
<1>2. WrittenFrom(x, ev)
  BY TextWritten DEF StreamRaw
<1>3. fed \in Seq(Events)
  BY DEF StreamRaw, StreamInv
<1>4. CASE json
  <2>1. x = HandoffWriter(s) /\ x.held = <<>> /\ Over(a, fed) /\ json = TRUE
    <3>1. x = HandoffWriter(s)
      BY <1>4
    <3>2. HandoffWriter(s).held = <<>> /\ Over(Segs(HandoffWriter(s)), fed)
      BY <1>1, HandoffOver
    <3> QED
      BY <1>1, <1>4, <3>1, <3>2
  <2> HIDE DEF x
  <2>2. /\ x \in Stream /\ y \in Stream /\ y.queue = <<>> /\ seg \in SegmentSet
        /\ w.held = r.held /\ w.queue = <<seg>> /\ w.out = y.out /\ s' = w /\ fed' = evs
    BY <1>2 DEF WrittenFrom, Feed
  <2>3. seg.ev = ev /\ seg.content = <<r.out>>
    BY DEF Segment
  <2> HIDE DEF seg, w
  <2>4. y.held = <<>> /\ Segs(y) = a
    BY <2>1, <2>2, FlushHeldKeeps, FlushHeldSays
  <2>5. Segs(w) = a \o <<seg>>
    <3> HIDE DEF y, a
    <3>1. y.out \in Seq(SegmentSet) /\ Segs(y) = y.out \o <<>>
      BY <2>2, StreamFields DEF Segs
    <3>2. Segs(y) = y.out
      BY <3>1, ConcatEmptySeq
    <3> QED
      BY <2>2, <2>4, <3>2 DEF Segs
  <2> HIDE DEF y, a
  <2> DEFINE w2 == Release(RawText(ev), TRUE)
  <2>6. r = w2
    <3>1. text \in Seq(Plain)
      <4>1. <<ev>> \in Seq(Events)
        OBVIOUS
      <4> QED
        BY <1>1, <4>1, AskedOne, AskedTyped
    <3>2. <<>> \o text = text
      BY <3>1, ConcatEmptySeq
    <3> QED
      BY <1>1, <2>1, <2>4, <3>2
  <2>7. w2.held = <<>> /\ w2.out \in Seq(Cells) /\ w2.out = Restored(RawText(ev), TRUE)
    BY <1>1, <1>4, DocumentWritten
  <2> HIDE DEF r, w2
  <2>8. Join(seg.content) = Restored(RawText(ev), TRUE)
    BY <2>3, <2>6, <2>7, JoinOne
  <2>9. w.held = <<>>
    BY <2>2, <2>6, <2>7
  <2>10. Openly(a \o <<seg>>, fed \o <<ev>>, <<>>)
    BY <1>4, <2>1, <2>2, <2>3, <2>8, DocumentOpens
  <2>11. evs = fed \o <<ev>>
    BY <1>3, AppendIsConcat
  <2> QED
    BY <2>2, <2>5, <2>9, <2>10, <2>11 DEF Opens
<1>5. CASE ~ json
  <2>1. x = s /\ ev.kind = "text" /\ json = FALSE
    BY <1>1, <1>5
  <2>2. Openly(a, fed, held)
    BY <1>1, <2>1 DEF StreamRaw, Raw, Opens
  <2> HIDE DEF x
  <2>3. /\ x \in Stream /\ y \in Stream /\ y.queue = <<>> /\ seg \in SegmentSet
        /\ w.held = r.held /\ w.queue = <<seg>> /\ w.out = y.out /\ s' = w /\ fed' = evs
    BY <1>2 DEF WrittenFrom, Feed
  <2>4. seg.ev = ev /\ seg.content = <<r.out>>
    BY DEF Segment
  <2> HIDE DEF seg, w
  <2>5. y.held = held /\ Segs(y) = a
    BY <2>3, FlushHeldKeeps, FlushHeldSays
  <2>6. Segs(w) = a \o <<seg>>
    <3> HIDE DEF y, a
    <3>1. y.out \in Seq(SegmentSet) /\ Segs(y) = y.out \o <<>>
      BY <2>3, StreamFields DEF Segs
    <3>2. Segs(y) = y.out
      BY <3>1, ConcatEmptySeq
    <3> QED
      BY <2>3, <2>5, <3>2 DEF Segs
  <2> HIDE DEF y, a
  <2> DEFINE t == RawText(ev)
             w2 == Release(held \o t, FALSE)
  <2>7. r = w2
    BY <1>1, <2>1, <2>5
  <2>8. t \in Seq(Plain)
    <3>1. <<ev>> \in Seq(Events)
      OBVIOUS
    <3> QED
      BY <3>1, AskedOne, AskedTyped
  <2>9. Resting(held)
    BY <2>2 DEF Openly
  <2> HIDE DEF r, t, held
  <2>10. /\ w2.out \in Seq(Cells) /\ Resting(w2.held)
         /\ \A v \in Seq(Plain) :
              Restored((held \o t) \o v, FALSE) = w2.out \o Restored(w2.held \o v, FALSE)
    <3>1. WrittenOn(w2, held, t, FALSE)
      BY <2>8, <2>9, FeedWritten
    <3> HIDE DEF w2
    <3> QED
      BY <3>1 DEF WrittenOn
  <2> HIDE DEF w2
  <2>11. Join(seg.content) = w2.out
    BY <2>4, <2>7, <2>10, JoinOne
  <2>12. GoesOn(held, RawText(ev), Join(seg.content), w2.held)
    BY <2>10, <2>11 DEF GoesOn, t
  <2>13. LastIsText(fed \o <<ev>>)
    BY <1>3, <2>1, TextIsLast
  <2>14. ev.kind # "json" /\ Resting(w2.held)
    BY <2>1, <2>10
  <2>15. Openly(a \o <<seg>>, fed \o <<ev>>, w2.held)
    BY <2>2, <2>3, <2>4, <2>12, <2>13, <2>14, OpenGoesOn
  <2>16. evs = fed \o <<ev>> /\ w.held = w2.held
    BY <1>3, <2>3, <2>7, AppendIsConcat
  <2> QED
    BY <2>3, <2>6, <2>15, <2>16 DEF Opens
<1> QED
  BY <1>4, <1>5

LEMMA FlushOver ==
  ASSUME StreamRaw, Flush PROVE Over(Segs(s'), fed')
<1> DEFINE x == Flushed(s)
           r == ReleaseAll(x)
<1>1. s \in Stream /\ HeldHome(s) /\ Openly(Segs(s), fed, s.held)
  BY DEF StreamRaw, StreamInv, Raw, Opens, Flush
<1>2. s' = ClearCarry(r) /\ fed' = fed
  BY DEF Flush, Flushed
<1>3. x \in Stream /\ Over(Segs(x), fed)
  BY <1>1, FlushedTail, FlushedOver
<1> HIDE DEF x
<1>4. r \in Stream /\ Segs(r) = Segs(x)
  BY <1>3, ReleaseAllKeeps, ReleaseAllSays
<1> HIDE DEF r
<1>5. s'.queue = r.queue /\ s'.out = r.out
  BY <1>2, <1>4, ClearCarryKeeps
<1>6. Segs(s') = Segs(x)
  BY <1>4, <1>5 DEF Segs
<1> QED
  BY <1>2, <1>3, <1>6

LEMMA StartsRaw == Init => StreamRaw
<1> SUFFICES ASSUME Init PROVE StreamRaw
  OBVIOUS
<1>1. StreamInv
  BY StartsWell
<1>2. s.out = <<>> /\ s.queue = <<>> /\ s.held = <<>> /\ fed = <<>> /\ ~ closed
  BY DEF Init
<1>3. Segs(s) = <<>>
  <2>1. <<>> \o <<>> = <<>>
    OBVIOUS
  <2> QED
    BY <1>2, <2>1 DEF Segs
<1>4. <<>> \in Seq(SegmentSet) /\ <<>> \in Seq(Events) /\ <<>> \in Seq(Plain) /\ Len(<<>>) = 0
  OBVIOUS
<1>5. Paired(<<>>, <<>>) /\ AllEnded(<<>>, <<>>) /\ Resting(<<>>)
  BY <1>4 DEF Paired, AllEnded, Resting
<1>6. ASSUME NEW i \in 1 .. Len(<<>>) + 1 PROVE RunningSays(<<>>, <<>>, i, <<>>)
  <2>1. From(<<>>, i) = <<>>
    BY <1>4 DEF From
  <2>2. ASSUME NEW w \in Seq(Plain) PROVE Restored(<<>> \o w, FALSE) = <<>> \o Restored(<<>> \o w, FALSE)
    <3>1. <<>> \o w = w
      OBVIOUS
    <3>2. Restored(w, FALSE) \in Seq(Cells)
      BY RestoredUnfolds
    <3> QED
      BY <3>1, <3>2
  <2> QED
    BY <2>1, <2>2, NoneSaid DEF RunningSays
<1>7. Openly(<<>>, <<>>, <<>>)
  BY <1>5, <1>6 DEF Openly
<1> QED
  BY <1>1, <1>2, <1>3, <1>7 DEF StreamRaw, Raw, Opens

LEMMA StepRaw ==
  ASSUME StreamRaw, [Next]_vars PROVE StreamRaw'
<1>1. StreamInv'
  BY StepKeeps DEF StreamRaw
<1>2. ASSUME Flush PROVE Raw(s', fed', closed')
  <2>1. Over(Segs(s'), fed')
    BY <1>2, FlushOver
  <2>2. closed' = TRUE
    BY <1>2 DEF Flush
  <2> QED
    BY <2>1, <2>2 DEF Raw
<1>3. ASSUME NEW ev \in Events, Accept(ev) PROVE Raw(s', fed', closed')
  <2>1. Opens(s', fed')
    <3>1. CASE AcceptOther(ev)
      BY <3>1, OtherOpens
    <3>2. CASE AcceptText(ev)
      BY <3>2, TextOpens
    <3>3. CASE LeafFirst(ev)
      BY <3>3, FirstOpens
    <3>4. CASE LeafNoMatch(ev)
      BY <3>4, NoMatchOpens
    <3>5. CASE LeafComplete(ev)
      BY <3>5, CompleteOpens
    <3>6. CASE LeafGiveUp(ev)
      BY <3>6, GiveUpOpens
    <3>7. CASE LeafExtend(ev)
      BY <3>7, ExtendOpens
    <3> QED
      BY <1>3, <3>1, <3>2, <3>3, <3>4, <3>5, <3>6, <3>7 DEF Accept, AcceptLeaf
  <2>2. ~ closed'
    <3>1. ~ closed /\ closed' = closed
      BY <1>3 DEF Accept, AcceptLeaf, AcceptOther, AcceptText, LeafFirst, LeafNoMatch, LeafComplete,
                  LeafGiveUp, LeafExtend, Restorable, Continues, Open, StartOrEmit, Feed
    <3> QED
      BY <3>1
  <2> QED
    BY <2>1, <2>2 DEF Raw
<1>4. ASSUME UNCHANGED vars PROVE Raw(s', fed', closed')
  <2>1. s' = s /\ fed' = fed /\ closed' = closed /\ Raw(s, fed, closed)
    BY <1>4, Zenon DEF vars, StreamRaw
  <2> QED
    BY <2>1
<1>5. Raw(s', fed', closed')
  BY <1>2, <1>3, <1>4 DEF Next
<1> QED
  BY <1>1, <1>5 DEF StreamRaw

LEMMA AlwaysRaw == Spec => []StreamRaw
BY StartsRaw, StepRaw, PTL DEF Spec

LEMMA SaidAre ==
  ASSUME NEW segs \in Seq(SegmentSet), NEW i \in 1 .. Len(segs), NEW j \in i .. Len(segs)
  PROVE  /\ Join([k \in 1 .. j - i + 1 |-> Join(segs[i + k - 1].content)]) = RawSaid(SubSeq(segs, i, j))
         /\ RawSaid(SubSeq(segs, i, j)) \in Seq(Cells)
<1> DEFINE t == SubSeq(segs, i, j)
<1>1. Len(segs) \in Nat /\ \A l \in i .. j : segs[l] \in SegmentSet
  BY LenProperties, ElementOfSeq
<1>2. t \in Seq(SegmentSet) /\ Len(t) = j - i + 1 /\ \A k \in 1 .. j - i + 1 : t[k] = segs[i + k - 1]
  BY <1>1, SubSeqProperties
<1>3. RawSaid(t) \in Seq(Cells)
  BY <1>2, SaidTyped
<1>4. [k \in 1 .. j - i + 1 |-> Join(segs[i + k - 1].content)] = Pieces(Saying, t)
  <2>1. \A k \in 1 .. j - i + 1 : t[k] \in SegmentSet
    BY <1>2, ElementOfSeq
  <2>2. \A k \in 1 .. j - i + 1 : Saying[t[k]] = Join(segs[i + k - 1].content)
    BY <1>2, <2>1 DEF Saying
  <2>3. Pieces(Saying, t) = [k \in 1 .. j - i + 1 |-> Saying[t[k]]]
    BY <1>2 DEF Pieces
  <2> HIDE DEF t
  <2> QED
    BY <2>2, <2>3
<1> QED
  BY <1>3, <1>4 DEF RawSaid

LEMMA AskedAre ==
  ASSUME NEW evs \in Seq(Events), NEW i \in 1 .. Len(evs), NEW j \in i .. Len(evs)
  PROVE  Join([k \in 1 .. j - i + 1 |->
           IF evs[i + k - 1].kind = "other" THEN <<>> ELSE evs[i + k - 1].leaves[1].text])
         = RawAsked(SubSeq(evs, i, j))
<1> DEFINE t == SubSeq(evs, i, j)
           f == [k \in 1 .. j - i + 1 |->
                  IF evs[i + k - 1].kind = "other" THEN <<>> ELSE evs[i + k - 1].leaves[1].text]
<1>1. Len(evs) \in Nat /\ \A l \in i .. j : evs[l] \in Events
  BY LenProperties, ElementOfSeq
<1>2. t \in Seq(Events) /\ Len(t) = j - i + 1 /\ \A k \in 1 .. j - i + 1 : t[k] = evs[i + k - 1]
  BY <1>1, SubSeqProperties
<1>3. f = Pieces(Asking, t)
  <2>1. \A k \in 1 .. j - i + 1 : t[k] \in Events
    BY <1>2, ElementOfSeq
  <2>2. \A k \in 1 .. j - i + 1 : Asking[t[k]] = RawText(evs[i + k - 1])
    BY <1>2, <2>1 DEF Asking
  <2>3. Pieces(Asking, t) = [k \in 1 .. j - i + 1 |-> Asking[t[k]]]
    BY <1>2 DEF Pieces
  <2>4. f = [k \in 1 .. j - i + 1 |-> RawText(evs[i + k - 1])]
    BY DEF RawText
  <2> HIDE DEF t, f
  <2> QED
    BY <2>2, <2>3, <2>4
<1> QED
  BY <1>3 DEF RawAsked

LEMMA RawIsRestored == StreamRaw => RawRestored
<1> SUFFICES ASSUME StreamRaw, NEW i \in DOMAIN fed, NEW j \in i .. Len(fed), RawRun(i, j)
             PROVE  Join([k \in 1 .. j - i + 1 |-> Join(Segments[i + k - 1].content)])
                        \o (IF j = Len(fed) THEN s.held ELSE <<>>)
                      = Restored(Join([k \in 1 .. j - i + 1 |->
                          IF fed[i + k - 1].kind = "other" THEN <<>> ELSE fed[i + k - 1].leaves[1].text]),
                          fed[i].kind = "json")
  BY DEF RawRestored
<1> DEFINE n    == Len(fed)
           segs == Segs(s)
           held == s.held
           over == IF j = n THEN held ELSE <<>>
           said == RawSaid(SubSeq(segs, i, j))
<1>1. /\ fed \in Seq(Events) /\ n \in Nat /\ i \in 1 .. n /\ DOMAIN fed = 1 .. n
      /\ (closed => held = <<>>) /\ Raw(s, fed, closed) /\ Segments = segs
  <2>1. fed \in Seq(Events) /\ (closed => held = <<>>)
    BY DEF StreamRaw, StreamInv
  <2>2. DOMAIN fed = 1 .. n /\ n \in Nat
    BY <2>1, LenProperties
  <2> QED
    BY <2>1, <2>2 DEF StreamRaw, Segments, Segs
<1>2. Paired(segs, fed) /\ AllEnded(segs, fed)
  BY <1>1 DEF Raw, Over, Opens, Openly
<1>3. /\ Join([k \in 1 .. j - i + 1 |-> Join(Segments[i + k - 1].content)]) = said
      /\ said \in Seq(Cells)
  <2>1. segs \in Seq(SegmentSet) /\ i \in 1 .. Len(segs) /\ j \in i .. Len(segs)
    BY <1>1, <1>2 DEF Paired
  <2> HIDE DEF segs
  <2> QED
    BY <1>1, <2>1, SaidAre
<1>4. Join([k \in 1 .. j - i + 1 |->
         IF fed[i + k - 1].kind = "other" THEN <<>> ELSE fed[i + k - 1].leaves[1].text])
      = RawAsked(SubSeq(fed, i, j))
  BY <1>1, AskedAre
<1> HIDE DEF segs, held, said, over
<1>5. j \in 1 .. n /\ i <= j /\ n \in Nat /\ i \in 1 .. n /\ i \in Nat /\ j \in Nat
  <2>1. n \in Nat /\ i \in 1 .. n
    BY <1>1
  <2> QED
    BY <2>1
<1>6. ASSUME Ended(fed, i, j), over = <<>>
      PROVE  said \o over = Restored(RawAsked(SubSeq(fed, i, j)), fed[i].kind = "json")
  <2>1. EndedSays(segs, fed, i, j)
    BY <1>1, <1>2, <1>5, <1>6 DEF AllEnded
  <2>2. said \o <<>> = said
    BY <1>3, ConcatEmptySeq
  <2> QED
    BY <1>6, <2>1, <2>2 DEF EndedSays, said
<1>7. CASE TextRun(i, j)
  <2>1. \A k \in i .. j : fed[k].kind # "json"
    BY <1>7 DEF TextRun
  <2>2. Starts(fed, i)
    BY <1>7 DEF TextRun, Starts
  <2>3. CASE j < n
    <3>1. Ended(fed, i, j)
      BY <1>7, <2>1, <2>2, <2>3 DEF Ended, TextRun
    <3>2. over = <<>>
      <4>1. j # n
        BY <1>5, <2>3
      <4> QED
        BY <4>1 DEF over
    <3> QED
      BY <1>3, <1>4, <1>6, <3>1, <3>2 DEF over, held
  <2>4. CASE ~ (j < n)
    <3>1. j = n /\ i \in 1 .. n + 1 /\ (fed[i].kind = "json") = FALSE /\ over = held
      <4>1. j = n
        BY <1>5, <2>4
      <4>2. i \in 1 .. n + 1 /\ i \in i .. j
        BY <1>5
      <4>3. fed[i].kind # "json"
        BY <2>1, <4>2
      <4> QED
        BY <4>1, <4>2, <4>3 DEF over
    <3>2. Running(fed, i)
      BY <2>1, <2>2, <3>1 DEF Running
    <3>3. SubSeq(fed, i, j) = From(fed, i) /\ said = RawSaid(From(segs, i))
      BY <1>2, <3>1 DEF From, said, Paired
    <3>4. CASE closed
      <4>1. OverSays(segs, fed, i)
        BY <1>1, <3>1, <3>2, <3>4 DEF Raw, Over, segs
      <4>2. over = <<>> /\ said \o <<>> = said
        BY <1>1, <1>3, <3>1, <3>4, ConcatEmptySeq
      <4>3. said \o over = Restored(RawAsked(SubSeq(fed, i, j)), fed[i].kind = "json")
        BY <3>1, <3>3, <4>1, <4>2 DEF OverSays
      <4> QED
        BY <1>3, <1>4, <4>3 DEF over, held
    <3>5. CASE ~ closed
      <4>1. Openly(segs, fed, held)
        BY <1>1, <3>5 DEF Raw, Opens, segs, held
      <4>2. RunningSays(segs, fed, i, held) /\ Resting(held)
        BY <3>1, <3>2, <4>1 DEF Openly
      <4>3. Restored(RawAsked(From(fed, i)), FALSE) = RawSaid(From(segs, i)) \o held
        BY <1>2, <3>1, <4>2, RunningIs
      <4>4. said \o over = Restored(RawAsked(SubSeq(fed, i, j)), fed[i].kind = "json")
        BY <3>1, <3>3, <4>3
      <4> QED
        BY <1>3, <1>4, <4>4 DEF over, held
    <3> QED
      BY <3>4, <3>5
  <2> QED
    BY <2>3, <2>4
<1>8. CASE i = j /\ fed[i].kind = "json" /\ Identified(fed[i]) = {}
  <2>1. Ended(fed, i, j)
    BY <1>8 DEF Ended, Envelope
  <2>2. over = <<>>
    <3>1. CASE j = n /\ ~ closed
      <4>1. Openly(segs, fed, held)
        BY <1>1, <3>1 DEF Raw, Opens, segs, held
      <4>2. SUFFICES ASSUME held # <<>> PROVE FALSE
        BY DEF over
      <4>3. PICK k \in 1 .. n : fed[k].kind = "text" /\ \A l \in k + 1 .. n : fed[l].kind = "other"
        BY <4>1, <4>2 DEF Openly, LastIsText
      <4>4. k = n \/ n \in k + 1 .. n
        BY <1>5
      <4> QED
        BY <1>8, <3>1, <4>3, <4>4
    <3>2. CASE j = n /\ closed
      BY <1>1, <3>2 DEF over
    <3>3. CASE j # n
      BY <3>3 DEF over
    <3> QED
      BY <3>1, <3>2, <3>3
  <2> QED
    BY <1>3, <1>4, <1>6, <2>1, <2>2 DEF over, held
<1> QED
  BY <1>7, <1>8 DEF RawRun

\* A placeholder split over text events is restored as if they were one text,
\* with the rest of the text unchanged, however the upstream cut it, and a
\* secret inside an envelope is escaped: for every stream, what BackfillWriter
\* wrote of a run of raw events and what it still holds is the restored run.
THEOREM StreamRestoresRaw == Spec => []RawRestored
BY AlwaysRaw, RawIsRestored, PTL

-----------------------------------------------------------------------------
(* The decoder below the backfiller: its folds over records. *)

Marks    == Seq([from : Nat, to : Nat])
Records  == [event : Seq(Alphabet), data : Seq(Seq(Alphabet)), id : Seq(Alphabet),
             hasID : BOOLEAN, raw : Seq(Alphabet), spans : Marks]
Decoders == [buf : Seq(Alphabet), scan : Nat \ {0}, event : Seq(Alphabet),
             data : Seq(Seq(Alphabet)), spans : Marks, id : Seq(Alphabet),
             hasID : BOOLEAN, closed : BOOLEAN]
Runs     == [dec : Decoders, recs : Seq(Records)]

LEMMA Regroup ==
  \A x, y, z \in Seq(Alphabet) : (x \o y) \o z = x \o (y \o z)
BY ConcatAssociative

LEMMA Joined ==
  \A x, y \in Seq(Alphabet) : x \o y \in Seq(Alphabet)
BY ConcatProperties

LEMMA RecordFacts ==
  ASSUME NEW recs \in Seq(Records)
  PROVE  /\ Len(recs) \in Nat /\ DOMAIN recs = 1 .. Len(recs)
         /\ \A i \in 1 .. Len(recs) : recs[i].raw \in Seq(Alphabet)
<1>1. Len(recs) \in Nat /\ DOMAIN recs = 1 .. Len(recs)
      /\ \A i \in 1 .. Len(recs) : recs[i] \in Records
  BY SequenceFacts
<1>2. \A r \in Records : r.raw \in Seq(Alphabet)
  BY DEF Records
<1> QED
  BY <1>1, <1>2

\* The cells from some place on.
LEMMA RestIs ==
  ASSUME NEW S, NEW t \in Seq(S), NEW i \in Nat \ {0}
  PROVE  /\ Rest(t, i) \in Seq(S)
         /\ i <= Len(t) + 1 => /\ Len(Rest(t, i)) = Len(t) + 1 - i
                               /\ SubSeq(t, 1, i - 1) \in Seq(S)
                               /\ Len(SubSeq(t, 1, i - 1)) = i - 1
                               /\ SubSeq(t, 1, i - 1) \o Rest(t, i) = t
<1>1. Len(t) \in Nat /\ \A j \in 1 .. Len(t) : t[j] \in S
  BY SequenceFacts
<1>2. \A j \in i .. Len(t) : t[j] \in S
  BY <1>1
<1>3. Rest(t, i) \in Seq(S) /\ Len(Rest(t, i)) = IF i <= Len(t) THEN Len(t) - i + 1 ELSE 0
  BY <1>1, <1>2, SubSeqProperties DEF Rest
<1>4. CASE i <= Len(t) + 1
  <2>1. Len(Rest(t, i)) = Len(t) + 1 - i
    BY <1>1, <1>3, <1>4
  <2>2. SubSeq(t, 1, i - 1) \in Seq(S) /\ Len(SubSeq(t, 1, i - 1)) = i - 1
    <3>1. \A j \in 1 .. i - 1 : t[j] \in S
      BY <1>1, <1>4
    <3> QED
      BY <1>1, <1>4, <3>1, SubSeqProperties
  <2>3. SubSeq(t, 1, i - 1) \o SubSeq(t, (i - 1) + 1, Len(t)) = SubSeq(t, 1, Len(t))
    <3>1. 1 \in 1 .. Len(t) + 1 /\ i - 1 \in 1 - 1 .. Len(t) /\ Len(t) \in i - 1 .. Len(t)
      BY <1>1, <1>4
    <3> QED
      BY <3>1, ConcatAdjacentSubSeq
  <2>4. (i - 1) + 1 = i /\ SubSeq(t, 1, Len(t)) = t
    BY SubSeqFull
  <2> QED
    BY <1>3, <2>1, <2>2, <2>3, <2>4 DEF Rest
<1> QED
  BY <1>3, <1>4

\* A head taken off.
LEMMA RestOfJoined ==
  ASSUME NEW S, NEW x \in Seq(S), NEW y \in Seq(S)
  PROVE  Rest(x \o y, Len(x) + 1) = y
<1> DEFINE t == x \o y
           i == Len(x) + 1
<1>1. Len(x) \in Nat /\ Len(y) \in Nat /\ t \in Seq(S) /\ Len(t) = Len(x) + Len(y)
  BY ConcatProperties, LenProperties
<1>2. \A j \in 1 .. Len(y) : t[i + j - 1] = y[j]
  <2>1. ASSUME NEW j \in 1 .. Len(y) PROVE t[i + j - 1] = y[j]
    <3>1. i + j - 1 = Len(x) + j /\ Len(x) + j \in 1 .. Len(x) + Len(y)
          /\ ~ (Len(x) + j <= Len(x)) /\ (Len(x) + j) - Len(x) = j
      BY <1>1
    <3> QED
      BY <3>1, ConcatProperties
  <2> QED
    BY <2>1
<1> HIDE DEF t
<1>3. \A j \in i .. Len(t) : t[j] \in S
  <2>1. \A j \in 1 .. Len(t) : t[j] \in S
    BY <1>1, SequenceFacts
  <2> QED
    BY <1>1, <2>1
<1>4. /\ SubSeq(t, i, Len(t)) \in Seq(S) /\ Len(SubSeq(t, i, Len(t))) = Len(y)
      /\ \A j \in 1 .. Len(y) : SubSeq(t, i, Len(t))[j] = y[j]
  <2>1. i \in Int /\ Len(t) \in Int /\ Len(t) - i + 1 = Len(y)
    BY <1>1
  <2>2. (IF i <= Len(t) THEN Len(y) ELSE 0) = Len(y)
    BY <1>1
  <2> HIDE DEF i
  <2> QED
    BY <1>2, <1>3, <2>1, <2>2, SubSeqProperties
<1> QED
  BY <1>4, SeqEqual DEF Rest, t, i

LEMMA RawsUnfold ==
  ASSUME NEW recs \in Seq(Records)
  PROVE  \E f \in [0 .. Len(recs) -> Seq(Alphabet)] :
           /\ f[0] = <<>> /\ f[Len(recs)] = Raws(recs)
           /\ \A i \in 1 .. Len(recs) : f[i] = f[i - 1] \o recs[i].raw
<1> DEFINE n       == Len(recs)
           base    == <<>>
           S       == Seq(Alphabet)
           Body(f) == [t \in SUBSET DOMAIN recs |->
                        IF t = {} THEN base ELSE f[t \ {Max(t)}] \o recs[Max(t)].raw]
           step    == [i \in 1 .. n |-> [x \in S |-> x \o recs[i].raw]]
<1>1. n \in Nat /\ DOMAIN recs = 1 .. n /\ \A i \in 1 .. n : recs[i].raw \in S
  BY RecordFacts
<1>2. Raws(recs) = (CHOOSE f : f = Body(f))[DOMAIN recs]
  BY DEF Raws, FoldLeft, MapThenFoldSet
<1>3. \A i \in 1 .. n, x \in S : x \o recs[i].raw \in S
  BY <1>1, ConcatProperties
<1>4. base \in S
  OBVIOUS
<1> HIDE DEF n, S, base
<1>5. step \in [1 .. n -> [S -> S]]
  BY <1>3
<1>6. \A i \in 1 .. n, x \in S : step[i][x] = x \o recs[i].raw
  OBVIOUS
<1> HIDE DEF step
<1>7. \A f : Stages(Body(f), f, S, n, base, step)
  BY <1>1, <1>6, MaxOfIndices DEF Stages
<1> HIDE DEF Body
<1>8. PICK g : g = Body(g) /\ Raws(recs) = g[1 .. n]
  BY <1>1, <1>2, <1>4, <1>5, <1>7, FoldFixes
<1>9. PICK f \in [0 .. n -> S] : Unfolds(f, n, base, step) /\ f[n] = g[1 .. n]
  <2>1. Stages(g, g, S, n, base, step)
    BY <1>7, <1>8
  <2> QED
    BY <1>1, <1>4, <1>5, <2>1, FoldUnfolds
<1>10. ASSUME NEW i \in 1 .. n PROVE f[i] = f[i - 1] \o recs[i].raw
  <2>1. i - 1 \in 0 .. n
    BY <1>1
  <2>2. f[i - 1] \in S
    BY <2>1
  <2> QED
    BY <1>6, <1>9, <2>2 DEF Unfolds
<1> QED
  BY <1>8, <1>9, <1>10 DEF Unfolds, n, S, base

LEMMA ConsumeUnfolds ==
  ASSUME NEW recs \in Seq(Records), NEW u \in Seq(Alphabet)
  PROVE  \E f \in [0 .. Len(recs) -> Seq(Alphabet)] :
           /\ f[0] = u /\ f[Len(recs)] = Consume(u, recs)
           /\ \A i \in 1 .. Len(recs) : f[i] = Rest(f[i - 1], Len(recs[i].raw) + 1)
<1> DEFINE n       == Len(recs)
           S       == Seq(Alphabet)
           Body(f) == [t \in SUBSET DOMAIN recs |->
                        IF t = {} THEN u ELSE Rest(f[t \ {Max(t)}], Len(recs[Max(t)].raw) + 1)]
           step    == [i \in 1 .. n |-> [x \in S |-> Rest(x, Len(recs[i].raw) + 1)]]
<1>1. n \in Nat /\ DOMAIN recs = 1 .. n /\ \A i \in 1 .. n : recs[i].raw \in S
  BY RecordFacts
<1>2. Consume(u, recs) = (CHOOSE f : f = Body(f))[DOMAIN recs]
  BY DEF Consume, FoldLeft, MapThenFoldSet
<1>3. \A i \in 1 .. n, x \in S : Rest(x, Len(recs[i].raw) + 1) \in S
  <2>1. \A i \in 1 .. n : Len(recs[i].raw) + 1 \in Nat \ {0}
    BY <1>1, SequenceFacts
  <2> QED
    BY <2>1, RestIs
<1>4. u \in S
  OBVIOUS
<1> HIDE DEF n, S
<1>5. step \in [1 .. n -> [S -> S]]
  BY <1>3
<1>6. \A i \in 1 .. n, x \in S : step[i][x] = Rest(x, Len(recs[i].raw) + 1)
  OBVIOUS
<1> HIDE DEF step
<1>7. \A f : Stages(Body(f), f, S, n, u, step)
  BY <1>1, <1>6, MaxOfIndices DEF Stages
<1> HIDE DEF Body
<1>8. PICK g : g = Body(g) /\ Consume(u, recs) = g[1 .. n]
  BY <1>1, <1>2, <1>4, <1>5, <1>7, FoldFixes
<1>9. PICK f \in [0 .. n -> S] : Unfolds(f, n, u, step) /\ f[n] = g[1 .. n]
  <2>1. Stages(g, g, S, n, u, step)
    BY <1>7, <1>8
  <2> QED
    BY <1>1, <1>4, <1>5, <2>1, FoldUnfolds
<1>10. ASSUME NEW i \in 1 .. n PROVE f[i] = Rest(f[i - 1], Len(recs[i].raw) + 1)
  <2>1. i - 1 \in 0 .. n
    BY <1>1
  <2>2. f[i - 1] \in S
    BY <2>1
  <2> QED
    BY <1>6, <1>9, <2>2 DEF Unfolds
<1> QED
  BY <1>8, <1>9, <1>10 DEF Unfolds, n, S

LEMMA RawsTyped ==
  ASSUME NEW recs \in Seq(Records) PROVE Raws(recs) \in Seq(Alphabet)
<1>1. Len(recs) \in 0 .. Len(recs)
  BY SequenceFacts
<1> QED
  BY <1>1, RawsUnfold

LEMMA RawsNone == Raws(<<>>) = <<>>
<1>1. <<>> \in Seq(Records) /\ Len(<<>>) = 0
  OBVIOUS
<1> QED
  BY <1>1, RawsUnfold

\* The bytes of two runs of records.
LEMMA RawsJoin ==
  ASSUME NEW a \in Seq(Records), NEW b \in Seq(Records)
  PROVE  Raws(a \o b) = Raws(a) \o Raws(b)
<1> DEFINE ab == a \o b
<1>1. /\ Len(a) \in Nat /\ Len(b) \in Nat /\ ab \in Seq(Records) /\ Len(ab) = Len(a) + Len(b)
      /\ \A i \in 1 .. Len(a) : ab[i] = a[i]
      /\ \A i \in 1 .. Len(b) : ab[Len(a) + i] = b[i]
  <2>1. Len(a) \in Nat /\ Len(b) \in Nat /\ ab \in Seq(Records) /\ Len(ab) = Len(a) + Len(b)
    BY SequenceFacts, ConcatProperties
  <2>2. \A i \in 1 .. Len(a) : i \in 1 .. Len(a) + Len(b) /\ i <= Len(a)
    BY <2>1
  <2>3. \A i \in 1 .. Len(b) : /\ Len(a) + i \in 1 .. Len(a) + Len(b)
                               /\ ~ (Len(a) + i <= Len(a)) /\ (Len(a) + i) - Len(a) = i
    BY <2>1
  <2> QED
    BY <2>1, <2>2, <2>3, ConcatProperties
<1> HIDE DEF ab
<1>2. PICK f \in [0 .. Len(ab) -> Seq(Alphabet)] :
        /\ f[0] = <<>> /\ f[Len(ab)] = Raws(ab)
        /\ \A i \in 1 .. Len(ab) : f[i] = f[i - 1] \o ab[i].raw
  BY <1>1, RawsUnfold
<1>3. PICK g \in [0 .. Len(a) -> Seq(Alphabet)] :
        /\ g[0] = <<>> /\ g[Len(a)] = Raws(a)
        /\ \A i \in 1 .. Len(a) : g[i] = g[i - 1] \o a[i].raw
  BY RawsUnfold
<1>4. PICK h \in [0 .. Len(b) -> Seq(Alphabet)] :
        /\ h[0] = <<>> /\ h[Len(b)] = Raws(b)
        /\ \A i \in 1 .. Len(b) : h[i] = h[i - 1] \o b[i].raw
  BY RawsUnfold
<1>5. f[Len(a)] = Raws(a)
  <2> DEFINE T == {m \in Nat : m <= Len(a) => f[m] = g[m]}
  <2>1. 0 \in T
    BY <1>2, <1>3
  <2>2. ASSUME NEW m \in Nat, m \in T PROVE m + 1 \in T
    <3>1. SUFFICES ASSUME m + 1 <= Len(a) PROVE f[m + 1] = g[m + 1]
      OBVIOUS
    <3>2. m + 1 \in 1 .. Len(a) /\ m + 1 \in 1 .. Len(ab) /\ (m + 1) - 1 = m /\ m <= Len(a)
      BY <1>1, <3>1
    <3>3. f[m] = g[m]
      BY <2>2, <3>2
    <3>4. f[m + 1] = f[(m + 1) - 1] \o ab[m + 1].raw /\ ab[m + 1] = a[m + 1]
      BY <1>1, <1>2, <3>2
    <3>5. g[m + 1] = g[(m + 1) - 1] \o a[m + 1].raw
      BY <1>3, <3>2
    <3> QED
      BY <3>2, <3>3, <3>4, <3>5
  <2> HIDE DEF T
  <2>3. \A m \in Nat : m \in T
    BY <2>1, <2>2, Induction
  <2>4. Len(a) \in T
    BY <1>1, <2>3
  <2> QED
    BY <1>1, <1>3, <2>4 DEF T
<1>6. f[Len(a) + Len(b)] = Raws(a) \o h[Len(b)]
  <2> DEFINE T == {m \in Nat : m <= Len(b) => f[Len(a) + m] = Raws(a) \o h[m]}
  <2>0. Raws(a) \in Seq(Alphabet)
    BY RawsTyped
  <2>1. 0 \in T
    <3>1. Raws(a) \o <<>> = Raws(a) /\ Len(a) + 0 = Len(a)
      BY <1>1, <2>0, ConcatEmptySeq
    <3> QED
      BY <1>4, <1>5, <3>1
  <2>2. ASSUME NEW m \in Nat, m \in T PROVE m + 1 \in T
    <3>1. SUFFICES ASSUME m + 1 <= Len(b) PROVE f[Len(a) + (m + 1)] = Raws(a) \o h[m + 1]
      OBVIOUS
    <3>2. /\ m + 1 \in 1 .. Len(b) /\ Len(a) + (m + 1) \in 1 .. Len(ab)
          /\ (Len(a) + (m + 1)) - 1 = Len(a) + m /\ m <= Len(b) /\ m \in 0 .. Len(b)
          /\ (m + 1) - 1 = m
      BY <1>1, <3>1
    <3>3. f[Len(a) + (m + 1)] = f[Len(a) + m] \o b[m + 1].raw
      BY <1>1, <1>2, <3>2
    <3>4. f[Len(a) + m] = Raws(a) \o h[m] /\ h[m + 1] = h[m] \o b[m + 1].raw
      BY <1>4, <2>2, <3>2
    <3>5. h[m] \in Seq(Alphabet) /\ b[m + 1].raw \in Seq(Alphabet)
      BY <3>2, RecordFacts
    <3>6. (Raws(a) \o h[m]) \o b[m + 1].raw = Raws(a) \o (h[m] \o b[m + 1].raw)
      BY <2>0, <3>5, Regroup
    <3> QED
      BY <3>3, <3>4, <3>6
  <2> HIDE DEF T
  <2>3. \A m \in Nat : m \in T
    BY <2>1, <2>2, Induction
  <2>4. Len(b) \in T
    BY <1>1, <2>3
  <2> QED
    BY <1>1, <2>4 DEF T
<1> QED
  BY <1>1, <1>2, <1>4, <1>6 DEF ab

LEMMA RawsOne ==
  ASSUME NEW r \in Records PROVE Raws(<<r>>) = r.raw
<1>1. <<r>> \in Seq(Records) /\ Len(<<r>>) = 1 /\ <<r>>[1] = r
  OBVIOUS
<1>2. PICK f \in [0 .. 1 -> Seq(Alphabet)] :
        f[0] = <<>> /\ f[1] = Raws(<<r>>) /\ \A i \in 1 .. 1 : f[i] = f[i - 1] \o <<r>>[i].raw
  BY <1>1, RawsUnfold
<1>3. f[1] = f[0] \o r.raw
  <2>1. 1 \in 1 .. 1 /\ 1 - 1 = 0
    OBVIOUS
  <2> QED
    BY <1>1, <1>2, <2>1
<1>4. r.raw \in Seq(Alphabet)
  BY DEF Records
<1> QED
  BY <1>2, <1>3, <1>4, ConcatEmptySeq

LEMMA RawsAppend ==
  ASSUME NEW a \in Seq(Records), NEW r \in Records
  PROVE  Raws(Append(a, r)) = Raws(a) \o r.raw
<1>1. Append(a, r) = a \o <<r>> /\ <<r>> \in Seq(Records)
  BY AppendIsConcat
<1> QED
  BY <1>1, RawsJoin, RawsOne

\* What is left of a tail that begins with the records.
LEMMA ConsumeTakesOff ==
  ASSUME NEW recs \in Seq(Records), NEW x \in Seq(Alphabet)
  PROVE  Consume(Raws(recs) \o x, recs) = x
<1> DEFINE u == Raws(recs) \o x
           n == Len(recs)
<1>1. n \in Nat /\ Raws(recs) \in Seq(Alphabet) /\ u \in Seq(Alphabet)
  BY RawsTyped, SequenceFacts, ConcatProperties
<1>2. PICK g \in [0 .. n -> Seq(Alphabet)] :
        g[0] = <<>> /\ g[n] = Raws(recs) /\ \A i \in 1 .. n : g[i] = g[i - 1] \o recs[i].raw
  BY RawsUnfold
<1>3. PICK f \in [0 .. n -> Seq(Alphabet)] :
        /\ f[0] = u /\ f[n] = Consume(u, recs)
        /\ \A i \in 1 .. n : f[i] = Rest(f[i - 1], Len(recs[i].raw) + 1)
  BY <1>1, ConsumeUnfolds
<1>4. \A i \in 1 .. n : recs[i].raw \in Seq(Alphabet)
  BY RecordFacts
\* Each step leaves the rest of u behind the first records: after the first m
\* records f[m] is y for the y that completes them.
<1>5. \A m \in 0 .. n : \E y \in Seq(Alphabet) : g[m] \o y = Raws(recs)
  <2> DEFINE T == {k \in Nat : k <= n => \E y \in Seq(Alphabet) : g[n - k] \o y = Raws(recs)}
  <2>1. 0 \in T
    <3>1. Raws(recs) \o <<>> = Raws(recs) /\ n - 0 = n /\ <<>> \in Seq(Alphabet)
      BY <1>1, ConcatEmptySeq
    <3> QED
      BY <1>2, <3>1
  <2>2. ASSUME NEW k \in Nat, k \in T PROVE k + 1 \in T
    <3>1. SUFFICES ASSUME k + 1 <= n
                   PROVE  \E y \in Seq(Alphabet) : g[n - (k + 1)] \o y = Raws(recs)
      <4>1. k + 1 \in Nat
        OBVIOUS
      <4> HIDE DEF n
      <4> QED
        BY <4>1
    <3>2. n - k \in 1 .. n /\ (n - k) - 1 = n - (k + 1) /\ n - (k + 1) \in 0 .. n /\ k <= n
      BY <1>1, <3>1
    <3>3. PICK y \in Seq(Alphabet) : g[n - k] \o y = Raws(recs)
      BY <2>2, <3>2
    <3>4. g[n - k] = g[n - (k + 1)] \o recs[n - k].raw
      BY <1>2, <3>2
    <3>5. g[n - (k + 1)] \in Seq(Alphabet) /\ recs[n - k].raw \in Seq(Alphabet)
      BY <1>4, <3>2
    <3>6. /\ recs[n - k].raw \o y \in Seq(Alphabet)
          /\ g[n - (k + 1)] \o (recs[n - k].raw \o y) = Raws(recs)
      <4>1. recs[n - k].raw \o y \in Seq(Alphabet)
        BY <3>5, Joined
      <4>2. (g[n - (k + 1)] \o recs[n - k].raw) \o y = g[n - (k + 1)] \o (recs[n - k].raw \o y)
        BY <3>5, Regroup
      <4> QED
        BY <3>3, <3>4, <4>1, <4>2
    <3> QED
      BY <3>6
  <2> HIDE DEF T
  <2>3. \A k \in Nat : k \in T
    BY <2>1, <2>2, Induction
  <2>4. ASSUME NEW m \in 0 .. n PROVE \E y \in Seq(Alphabet) : g[m] \o y = Raws(recs)
    <3>1. n - m \in Nat /\ n - m <= n /\ n - (n - m) = m
      BY <1>1
    <3> QED
      BY <2>3, <3>1 DEF T
  <2> QED
    BY <2>4
<1> HIDE DEF u, n
<1>6. \A m \in 0 .. n : g[m] \o f[m] = u
  <2> DEFINE T == {m \in Nat : m <= n => g[m] \o f[m] = u}
  <2>1. 0 \in T
    <3>1. <<>> \o u = u
      BY <1>1, ConcatEmptySeq
    <3> QED
      BY <1>2, <1>3, <3>1
  <2>2. ASSUME NEW m \in Nat, m \in T PROVE m + 1 \in T
    <3>1. SUFFICES ASSUME m + 1 <= n PROVE g[m + 1] \o f[m + 1] = u
      OBVIOUS
    <3>2. m + 1 \in 1 .. n /\ m + 1 \in 0 .. n /\ (m + 1) - 1 = m /\ m \in 0 .. n /\ m <= n
      BY <1>1, <3>1
    <3> DEFINE raw == recs[m + 1].raw
    <3>3. /\ raw \in Seq(Alphabet) /\ g[m] \in Seq(Alphabet) /\ f[m] \in Seq(Alphabet)
          /\ g[m + 1] = g[m] \o raw /\ f[m + 1] = Rest(f[m], Len(raw) + 1)
          /\ g[m] \o f[m] = u
      BY <1>2, <1>3, <1>4, <2>2, <3>2
    <3>4. PICK y \in Seq(Alphabet) : g[m + 1] \o y = Raws(recs)
      BY <1>5, <3>2
    <3> HIDE DEF raw
    <3>5. g[m] \o (raw \o (y \o x)) = g[m] \o f[m]
      <4>1. (g[m + 1] \o y) \o x = u
        BY <3>4 DEF u
      <4>2. g[m + 1] \in Seq(Alphabet) /\ raw \o (y \o x) \in Seq(Alphabet) /\ y \o x \in Seq(Alphabet)
        BY <3>2, <3>3, ConcatProperties
      <4>3. (g[m + 1] \o y) \o x = g[m + 1] \o (y \o x)
        BY <4>2, Regroup
      <4>4. g[m + 1] \o (y \o x) = g[m] \o (raw \o (y \o x))
        <5>1. g[m] \in Seq(Alphabet) /\ raw \in Seq(Alphabet) /\ y \o x \in Seq(Alphabet)
          BY <3>3, <4>2
        <5>2. (g[m] \o raw) \o (y \o x) = g[m] \o (raw \o (y \o x))
          BY <5>1, Regroup
        <5> QED
          BY <3>3, <5>2
      <4> QED
        BY <3>3, <4>1, <4>3, <4>4
    <3>6. raw \o (y \o x) = f[m] /\ y \o x \in Seq(Alphabet) /\ raw \o (y \o x) \in Seq(Alphabet)
      <4>1. y \o x \in Seq(Alphabet) /\ raw \o (y \o x) \in Seq(Alphabet)
        BY <3>3, <3>4, ConcatProperties
      <4> QED
        BY <3>3, <3>5, <4>1, ConcatSimplifications
    <3>7. f[m + 1] = y \o x
      BY <3>3, <3>6, RestOfJoined
    <3>8. (g[m] \o raw) \o (y \o x) = g[m] \o (raw \o (y \o x))
      <4>1. g[m] \in Seq(Alphabet) /\ raw \in Seq(Alphabet) /\ y \o x \in Seq(Alphabet)
        BY <3>3, <3>6
      <4> QED
        BY <4>1, Regroup
    <3> QED
      BY <3>3, <3>5, <3>6, <3>7, <3>8
  <2> HIDE DEF T
  <2>3. \A m \in Nat : m \in T
    BY <2>1, <2>2, Induction
  <2>4. \A m \in 0 .. n : m \in T /\ m <= n
    BY <1>1, <2>3
  <2> QED
    BY <2>4 DEF T
<1>7. Raws(recs) \o f[n] = Raws(recs) \o x /\ f[n] \in Seq(Alphabet)
  <2>1. n \in 0 .. n
    BY <1>1
  <2> QED
    BY <1>2, <1>3, <1>6, <2>1 DEF u
<1>8. f[n] = x
  BY <1>1, <1>7, ConcatSimplifications
<1> QED
  BY <1>3, <1>8 DEF u

-----------------------------------------------------------------------------
(* Lines. *)

\* The lines of a buffer of n cells, one after the other.
LinesOfBuf(n) == [ok : {TRUE}, from : 1 .. n, to : 0 .. n, next : 2 .. n + 1]
Chained(ls) ==
  \A k \in 1 .. Len(ls) - 1 : ls[k + 1].from = ls[k].next
Forward(l)  == l.from <= l.to + 1 /\ l.to < l.next /\ l.from < l.next
Advancing(ls) == \A k \in 1 .. Len(ls) : Forward(ls[k])

LEMMA LineFound ==
  ASSUME NEW S, NEW buf \in Seq(S), NEW start \in 1 .. Len(buf) + 1, NEW final,
         NextLine(buf, start, final).ok
  PROVE  LET l == NextLine(buf, start, final)
         IN  /\ l \in LinesOfBuf(Len(buf)) /\ l.from = start
             /\ Forward(l)
<1> DEFINE n    == Len(buf)
           ends == {i \in start .. n : buf[i] \in {CR, LF}}
           e    == Min(ends)
           crlf == buf[e] = CR /\ e < n /\ buf[e + 1] = LF
           l    == NextLine(buf, start, final)
<1>1. n \in Nat
  BY LenProperties
<1>2. CASE ends # {}
  <2>1. e \in start .. n
    <3>1. ends \subseteq Nat /\ ends \subseteq start .. n
      BY <1>1
    <3> QED
      BY <1>2, <3>1, MinIsLeast
  <2>2. l = NoLine \/ l = Line(start, e - 1, IF crlf THEN e + 2 ELSE e + 1)
    BY <1>2 DEF NextLine
  <2>3. l.ok => l = Line(start, e - 1, IF crlf THEN e + 2 ELSE e + 1)
    BY <2>2 DEF NoLine
  <2>4. (l = Line(start, e - 1, e + 2) /\ e < n) \/ l = Line(start, e - 1, e + 1)
    BY <2>3
  <2> HIDE DEF n, e, l
  <2>5. CASE l = Line(start, e - 1, e + 2) /\ e < n
    BY <1>1, <2>1, <2>5 DEF Line, LinesOfBuf, Forward, n, l
  <2>6. CASE l = Line(start, e - 1, e + 1)
    BY <1>1, <2>1, <2>6 DEF Line, LinesOfBuf, Forward, n, l
  <2> QED
    BY <2>4, <2>5, <2>6
<1>3. CASE ends = {}
  <2>1. start <= n /\ l = Line(start, n, n + 1)
    BY <1>3 DEF NextLine, NoLine
  <2> HIDE DEF n, l
  <2> QED
    BY <1>1, <2>1 DEF Line, LinesOfBuf, Forward, n, l
<1> QED
  BY <1>2, <1>3

LEMMA LinesFound ==
  ASSUME NEW S, NEW buf \in Seq(S), NEW start \in 1 .. Len(buf) + 1, NEW final
  PROVE  LET ls == LinesIn(buf, start, final)
         IN  /\ ls \in Seq(LinesOfBuf(Len(buf))) /\ Chained(ls) /\ Advancing(ls)
             /\ ls # <<>> => ls[1].from = start
<1> DEFINE n       == Len(buf)
           L       == LinesOfBuf(n)
           l(i)    == NextLine(buf, i, final)
           Body(f) == [i \in 1 .. n + 1 |-> IF l(i).ok THEN <<l(i)>> \o f[l(i).next] ELSE <<>>]
           put     == [i \in 1 .. n |-> IF l(i).ok THEN <<l(i)>> ELSE <<>>]
           next    == [i \in 1 .. n |-> IF l(i).ok THEN l(i).next ELSE n + 1]
<1>1. n \in Nat
  BY LenProperties
<1>2. LinesIn(buf, start, final) = (CHOOSE f : f = Body(f))[start]
  BY DEF LinesIn
<1>3. \A i \in 1 .. n + 1 : l(i).ok =>
        /\ l(i) \in L /\ l(i).from = i /\ l(i).next \in 1 .. n + 1 /\ l(i).next > i /\ i <= n
        /\ Forward(l(i))
  <2>1. ASSUME NEW i \in 1 .. n + 1, l(i).ok
        PROVE  l(i) \in L /\ l(i).from = i /\ Forward(l(i))
    BY <2>1, LineFound
  <2>2. \A x \in L : x.next \in 2 .. n + 1 /\ x.from \in 1 .. n
    BY DEF LinesOfBuf
  <2> HIDE DEF l, L, n
  <2> QED
    BY <1>1, <2>1, <2>2 DEF Forward
<1> HIDE DEF l, L, n
<1>4. ASSUME NEW f
      PROVE  /\ Body(f) = [i \in 1 .. n + 1 |-> Body(f)[i]]
             /\ \A i \in 1 .. n + 1 : Body(f)[i] = IF l(i).ok THEN <<l(i)>> \o f[l(i).next] ELSE <<>>
  OBVIOUS
<1>5. put \in [1 .. n -> Seq(L)] /\ \A i \in 1 .. n : put[i] = IF l(i).ok THEN <<l(i)>> ELSE <<>>
  <2>1. \A i \in 1 .. n : i \in 1 .. n + 1
    BY <1>1
  <2> QED
    BY <1>3, <2>1
<1>6. next \in Onward(n) /\ \A i \in 1 .. n : next[i] = IF l(i).ok THEN l(i).next ELSE n + 1
  <2>1. \A i \in 1 .. n : i \in 1 .. n + 1 /\ n + 1 \in 1 .. n + 1 /\ n + 1 > i
    BY <1>1
  <2>2. \A i \in 1 .. n : next[i] = IF l(i).ok THEN l(i).next ELSE n + 1
    OBVIOUS
  <2>3. \A i \in 1 .. n : next[i] \in 1 .. n + 1 /\ next[i] > i
    BY <1>3, <2>1
  <2>4. next \in [1 .. n -> 1 .. n + 1]
    BY <1>3, <2>1
  <2> QED
    BY <2>2, <2>3, <2>4 DEF Onward
<1> HIDE DEF put, next, Body
<1>7. ~ l(n + 1).ok
  BY <1>1, <1>3
<1>8. ASSUME NEW f, f = Body(f), f[n + 1] = <<>> /\ \A i \in 1 .. n : l(i).ok => f[l(i).next] \in Seq(L)
      PROVE  Spells(f, n, put, next)
  <2>1. ASSUME NEW i \in 1 .. n PROVE f[i] = put[i] \o f[next[i]]
    <3>1. i \in 1 .. n + 1
      BY <1>1
    <3>2. CASE l(i).ok
      BY <1>4, <1>5, <1>6, <1>8, <3>1, <3>2
    <3>3. CASE ~ l(i).ok
      <4>1. f[i] = <<>> /\ put[i] = <<>> /\ f[next[i]] = <<>>
        BY <1>4, <1>5, <1>6, <1>8, <3>1, <3>3
      <4> QED
        BY <4>1
    <3> QED
      BY <3>2, <3>3
  <2> QED
    BY <1>8, <2>1 DEF Spells
<1>9. \E f : f = Body(f)
  <2>1. PICK f \in [1 .. n + 1 -> Seq(L)] : Spells(f, n, put, next)
    BY <1>1, <1>5, <1>6, JoinedText
  <2>0. f[n + 1] = <<>> /\ \A i \in 1 .. n : f[i] = put[i] \o f[next[i]]
    BY <2>1 DEF Spells
  <2>2. \A i \in 1 .. n + 1 : f[i] = Body(f)[i]
    <3>1. f[n + 1] = Body(f)[n + 1] /\ f[n + 1] = <<>>
      <4>1. n + 1 \in 1 .. n + 1
        BY <1>1
      <4> QED
        BY <1>4, <1>7, <2>1, <4>1 DEF Spells
    <3>2. ASSUME NEW i \in 1 .. n PROVE f[i] = Body(f)[i]
      <4>0. f[i] = put[i] \o f[next[i]]
        BY <2>0
      <4>1. i \in 1 .. n + 1
        BY <1>1
      <4>2. CASE l(i).ok
        BY <1>4, <1>5, <1>6, <4>0, <4>1, <4>2
      <4>3. CASE ~ l(i).ok
        <5>1. put[i] = <<>> /\ f[next[i]] = <<>> /\ Body(f)[i] = <<>>
          BY <1>4, <1>5, <1>6, <3>1, <4>1, <4>3
        <5> QED
          BY <4>0, <5>1
      <4> QED
        BY <4>2, <4>3
    <3>3. \A i \in 1 .. n + 1 : i = n + 1 \/ i \in 1 .. n
      BY <1>1
    <3> QED
      BY <3>1, <3>2, <3>3
  <2>3. f = [i \in 1 .. n + 1 |-> f[i]] /\ Body(f) = [i \in 1 .. n + 1 |-> Body(f)[i]]
    BY <1>4, <2>1
  <2> QED
    BY <2>2, <2>3
<1>10. PICK g : g = Body(g) /\ LinesIn(buf, start, final) = g[start]
  BY <1>2, <1>9 DEF n
<1>11. g[n + 1] = <<>>
  <2>1. n + 1 \in 1 .. n + 1
    BY <1>1
  <2> QED
    BY <1>4, <1>7, <1>10, <2>1
<1> DEFINE C == {ls \in Seq(L) : Chained(ls) /\ Advancing(ls)}
<1>12. g[n + 1] \in C
  <2>1. Len(<<>>) = 0 /\ <<>> \in Seq(L)
    OBVIOUS
  <2> QED
    BY <1>11, <2>1 DEF Chained, Advancing
<1>13. \A i \in 1 .. n + 1 : g[i] # <<>> => g[i] = <<l(i)>> \o g[l(i).next] /\ l(i).ok
  BY <1>4, <1>10
<1>14. ASSUME NEW i \in 1 .. n, g[next[i]] \in C PROVE g[i] \in C
  <2>1. i \in 1 .. n + 1
    BY <1>1
  <2>2. CASE ~ l(i).ok
    BY <1>4, <1>10, <1>11, <1>12, <2>1, <2>2
  <2>3. CASE l(i).ok
    <3> DEFINE x == l(i)
               r == g[x.next]
    <3>1. /\ g[i] = <<x>> \o r /\ r \in Seq(L) /\ Chained(r) /\ Advancing(r)
          /\ x \in L /\ x.next \in 1 .. n + 1
          /\ Forward(x)
      BY <1>1, <1>3, <1>4, <1>6, <1>10, <1>14, <2>1, <2>3
    <3>2. r # <<>> => r[1].from = x.next
      <4>1. SUFFICES ASSUME r # <<>> PROVE r[1].from = x.next
        OBVIOUS
      <4>2. r = <<l(x.next)>> \o g[l(x.next).next] /\ l(x.next).ok
        BY <1>13, <3>1, <4>1
      <4>3. l(x.next).from = x.next /\ l(x.next) \in L
        BY <1>3, <3>1, <4>2
      <4>4. r[1] = l(x.next)
        <5>1. Len(r) \in Nat /\ Len(r) # 0
          BY <3>1, <4>1, LenProperties, EmptySeq
        <5> QED
          BY <4>2
      <4> QED
        BY <4>3, <4>4
    <3> HIDE DEF x, r
    <3>3. <<x>> \in Seq(L) /\ Len(<<x>>) = 1 /\ <<x>>[1] = x /\ Len(r) \in Nat
      BY <3>1, LenProperties
    <3>4. /\ g[i] \in Seq(L) /\ Len(g[i]) = 1 + Len(r)
          /\ \A j \in 1 .. 1 + Len(r) : g[i][j] = IF j <= 1 THEN <<x>>[j] ELSE r[j - 1]
      BY <3>1, <3>3, ConcatProperties
    <3>5. g[i][1] = x /\ \A j \in 1 .. Len(r) : g[i][j + 1] = r[j]
      <4>1. 1 \in 1 .. 1 + Len(r)
        BY <3>3
      <4>2. ASSUME NEW j \in 1 .. Len(r) PROVE g[i][j + 1] = r[j]
        <5>1. j + 1 \in 1 .. 1 + Len(r) /\ ~ (j + 1 <= 1) /\ (j + 1) - 1 = j
          BY <3>3
        <5> QED
          BY <3>4, <5>1
      <4> QED
        BY <3>3, <3>4, <4>1, <4>2
    <3>6. Chained(g[i])
      <4>1. ASSUME NEW k \in 1 .. Len(r) PROVE g[i][k + 1].from = g[i][k].next
        <5>1. CASE k = 1
          <6>1. r # <<>>
            BY <3>3, <5>1
          <6> QED
            BY <3>2, <3>5, <5>1, <6>1
        <5>2. CASE k # 1
          <6>1. k - 1 \in 1 .. Len(r) /\ k - 1 \in 1 .. Len(r) - 1 /\ (k - 1) + 1 = k
            BY <3>3, <5>2
          <6>2. g[i][k + 1] = r[k] /\ g[i][(k - 1) + 1] = r[k - 1] /\ r[(k - 1) + 1].from = r[k - 1].next
            BY <3>1, <3>5, <6>1 DEF Chained
          <6> QED
            BY <6>1, <6>2
        <5> QED
          BY <5>1, <5>2
      <4>2. Len(g[i]) - 1 = Len(r)
        BY <3>3, <3>4
      <4> QED
        BY <4>1, <4>2 DEF Chained
    <3>7. Advancing(g[i])
      <4>1. ASSUME NEW k \in 1 .. 1 + Len(r)
            PROVE  Forward(g[i][k])
        <5>1. CASE k = 1
          BY <3>1, <3>5, <5>1
        <5>2. CASE k # 1
          <6>1. k - 1 \in 1 .. Len(r) /\ (k - 1) + 1 = k
            BY <3>3, <5>2
          <6> QED
            BY <3>1, <3>5, <6>1 DEF Advancing
        <5> QED
          BY <5>1, <5>2
      <4> QED
        BY <3>4, <4>1 DEF Advancing
    <3> QED
      BY <3>4, <3>6, <3>7
  <2> QED
    BY <2>2, <2>3
<1>15. \A i \in 1 .. n + 1 : g[i] \in C
  <2> HIDE DEF C
  <2> QED
    BY <1>1, <1>6, <1>12, <1>14, BackwardInduction
<1>16. start \in 1 .. n + 1
  BY DEF n
<1>17. g[start] # <<>> => g[start][1].from = start
  <2>1. SUFFICES ASSUME g[start] # <<>> PROVE g[start][1].from = start
    OBVIOUS
  <2>2. g[start] = <<l(start)>> \o g[l(start).next] /\ l(start).ok /\ g[l(start).next] \in C
    BY <1>3, <1>13, <1>15, <1>16, <2>1
  <2>3. g[start][1] = l(start)
    BY <2>2
  <2> QED
    BY <1>3, <1>16, <2>2, <2>3
<1> QED
  BY <1>10, <1>15, <1>16, <1>17 DEF L, n

-----------------------------------------------------------------------------
(* What a line does to the decoder. *)

LEMMA DecoderFields ==
  ASSUME NEW dec \in Decoders
  PROVE  /\ dec = [buf |-> dec.buf, scan |-> dec.scan, event |-> dec.event, data |-> dec.data,
                   spans |-> dec.spans, id |-> dec.id, hasID |-> dec.hasID, closed |-> dec.closed]
         /\ dec.buf \in Seq(Alphabet) /\ dec.scan \in Nat \ {0} /\ dec.event \in Seq(Alphabet)
         /\ dec.data \in Seq(Seq(Alphabet)) /\ dec.spans \in Marks /\ dec.id \in Seq(Alphabet)
         /\ dec.hasID \in BOOLEAN /\ dec.closed \in BOOLEAN
BY DEF Decoders

LEMMA FieldKeeps ==
  ASSUME NEW dec \in Decoders, NEW l, l.from \in Nat \ {0}, l.to \in Nat,
         l.from <= l.to, l.to <= Len(dec.buf)
  PROVE  /\ Field(dec, l) \in Decoders
         /\ Field(dec, l).buf = dec.buf /\ Field(dec, l).scan = dec.scan
         /\ Field(dec, l).closed = dec.closed
<1> DEFINE value == SubSeq(dec.buf, l.from + 1, l.to)
           f     == Field(dec, l)
           Kept(x) == x \in Decoders /\ x.buf = dec.buf /\ x.scan = dec.scan /\ x.closed = dec.closed
<1>0. /\ dec.buf \in Seq(Alphabet) /\ dec.scan \in Nat \ {0} /\ dec.event \in Seq(Alphabet)
      /\ dec.data \in Seq(Seq(Alphabet)) /\ dec.spans \in Marks /\ dec.id \in Seq(Alphabet)
      /\ dec.hasID \in BOOLEAN /\ dec.closed \in BOOLEAN
  BY DecoderFields
<1>1. value \in Seq(Alphabet) /\ Len(value) \in Nat
  <2>1. Len(dec.buf) \in Nat /\ \A j \in 1 .. Len(dec.buf) : dec.buf[j] \in Alphabet
    BY <1>0, SequenceFacts
  <2>2. \A j \in l.from + 1 .. l.to : dec.buf[j] \in Alphabet
    BY <2>1
  <2>3. value \in Seq(Alphabet)
    BY <2>2, SubSeqProperties
  <2> QED
    BY <2>3, LenProperties
<1> HIDE DEF value
<1>2. \A v \in Seq(Alphabet), from \in Nat \ {0}, canonical \in BOOLEAN :
        Kept(AddData(dec, v, from, canonical))
  <2>1. ASSUME NEW v \in Seq(Alphabet), NEW from \in Nat \ {0}, NEW canonical \in BOOLEAN
        PROVE  Kept(AddData(dec, v, from, canonical))
    <3> DEFINE spans == IF dec.data = <<>> /\ canonical
                          THEN <<[from |-> from, to |-> from + Len(v) - 1]>> ELSE <<>>
               data  == Append(dec.data, v)
    <3>1. spans \in Marks
      <4>1. from \in Nat /\ from + Len(v) - 1 \in Nat
        BY LenProperties
      <4>2. [from |-> from, to |-> from + Len(v) - 1] \in [from : Nat, to : Nat]
        BY <4>1
      <4>3. <<[from |-> from, to |-> from + Len(v) - 1]>> \in Seq([from : Nat, to : Nat])
        BY <4>2
      <4>4. <<>> \in Seq([from : Nat, to : Nat])
        OBVIOUS
      <4> QED
        BY <4>3, <4>4 DEF Marks
    <3>2. data \in Seq(Seq(Alphabet))
      BY <1>0, AppendProperties
    <3>3. AddData(dec, v, from, canonical) = [dec EXCEPT !.data = data, !.spans = spans]
      BY DEF AddData
    <3> HIDE DEF data, spans
    <3> QED
      BY <3>1, <3>2, <3>3 DEF Decoders
  <2> QED
    BY <2>1
<1>3. Kept([dec EXCEPT !.event = value])
  BY <1>1 DEF Decoders
<1>4. Kept([dec EXCEPT !.id = value, !.hasID = TRUE])
  BY <1>1 DEF Decoders
<1>5. Kept(dec)
  OBVIOUS
<1>6. <<>> \in Seq(Alphabet) /\ l.from + 1 \in Nat \ {0} /\ l.to + 1 \in Nat \ {0}
  OBVIOUS
<1>7. \/ f = AddData(dec, value, l.from + 1, TRUE)
      \/ f = AddData(dec, <<>>, l.to + 1, FALSE)
      \/ f = [dec EXCEPT !.event = value]
      \/ f = [dec EXCEPT !.id = value, !.hasID = TRUE]
      \/ f = dec
  BY DEF Field, value
<1> HIDE DEF f, Kept
<1>8. Kept(f)
  BY <1>1, <1>2, <1>3, <1>4, <1>5, <1>6, <1>7
<1> QED
  BY <1>8 DEF Kept, f

LEMMA DispatchKeeps ==
  ASSUME NEW dec \in Decoders, NEW next \in Nat \ {0}, next <= Len(dec.buf) + 1
  PROVE  LET x == Dispatch(dec, next)
         IN  /\ x.rec \in Records /\ x.dec \in Decoders
             /\ x.rec.raw \o x.dec.buf = dec.buf
             /\ Len(x.dec.buf) = Len(dec.buf) + 1 - next
             /\ x.dec.scan = 1 /\ x.dec.closed = dec.closed
<1> DEFINE x    == Dispatch(dec, next)
           raw  == SubSeq(dec.buf, 1, next - 1)
           rest == Rest(dec.buf, next)
           sp   == IF Len(dec.data) = 1 THEN dec.spans ELSE <<>>
<1>0. /\ dec.buf \in Seq(Alphabet) /\ dec.scan \in Nat \ {0} /\ dec.event \in Seq(Alphabet)
      /\ dec.data \in Seq(Seq(Alphabet)) /\ dec.spans \in Marks /\ dec.id \in Seq(Alphabet)
      /\ dec.hasID \in BOOLEAN /\ dec.closed \in BOOLEAN
  BY DecoderFields
<1>1. /\ raw \in Seq(Alphabet) /\ rest \in Seq(Alphabet) /\ raw \o rest = dec.buf
      /\ Len(rest) = Len(dec.buf) + 1 - next
  BY <1>0, RestIs
<1>2. sp \in Marks
  BY <1>0 DEF Marks
<1>3. x.rec = [event |-> dec.event, data |-> dec.data, id |-> dec.id, hasID |-> dec.hasID,
               raw |-> raw, spans |-> sp]
  BY DEF Dispatch
<1>4. x.dec = [buf |-> rest, scan |-> 1, event |-> <<>>, data |-> <<>>, spans |-> <<>>,
               id |-> dec.id, hasID |-> FALSE, closed |-> dec.closed]
  BY DEF Dispatch, Fresh
<1> HIDE DEF x, raw, rest, sp
<1>5. x.rec \in Records
  BY <1>0, <1>1, <1>2, <1>3 DEF Records
<1>6. x.dec \in Decoders
  BY <1>0, <1>1, <1>4 DEF Decoders, Marks
<1>7. x.rec.raw = raw /\ x.dec.buf = rest /\ x.dec.scan = 1 /\ x.dec.closed = dec.closed
  BY <1>3, <1>4
<1> QED
  BY <1>1, <1>5, <1>6, <1>7 DEF x

\* The run of a scan is where it should be: the records and what is left are the
\* buffer, and the scan is at the place at of it.
Reached(v, buf, at) ==
  /\ v \in Runs
  /\ Raws(v.recs) \o v.dec.buf = buf
  /\ v.dec.scan + (Len(buf) - Len(v.dec.buf)) = at

LEMMA ScanLineKeeps ==
  ASSUME NEW buf \in Seq(Alphabet), NEW v, NEW line \in LinesOfBuf(Len(buf)),
         Reached(v, buf, line.from), Forward(line)
  PROVE  Reached(ScanLine(v, line, Len(buf)), buf, line.next)
<1> DEFINE n    == Len(buf)
           cut  == n - Len(v.dec.buf)
           l    == Line(line.from - cut, line.to - cut, line.next - cut)
           here == [v.dec EXCEPT !.scan = l.next]
           x    == Dispatch(here, l.next)
           w    == ScanLine(v, line, n)
<1>1. /\ v \in Runs /\ v.dec \in Decoders /\ v.recs \in Seq(Records)
      /\ v = [dec |-> v.dec, recs |-> v.recs]
      /\ Raws(v.recs) \o v.dec.buf = buf /\ v.dec.scan + cut = line.from
  BY DEF Reached, Runs
<1>2. /\ v.dec.buf \in Seq(Alphabet) /\ v.dec.scan \in Nat \ {0} /\ v.dec.event \in Seq(Alphabet)
      /\ v.dec.data \in Seq(Seq(Alphabet)) /\ v.dec.spans \in Marks /\ v.dec.id \in Seq(Alphabet)
      /\ v.dec.hasID \in BOOLEAN /\ v.dec.closed \in BOOLEAN
  BY <1>1, DecoderFields
<1>3. Raws(v.recs) \in Seq(Alphabet)
  BY <1>1, RawsTyped
<1>4. /\ n \in Nat /\ Len(v.dec.buf) \in Nat /\ cut \in Nat
  <2>1. n = Len(Raws(v.recs)) + Len(v.dec.buf) /\ Len(Raws(v.recs)) \in Nat
        /\ Len(v.dec.buf) \in Nat
    BY <1>1, <1>2, <1>3, ConcatProperties, LenProperties
  <2>2. Len(v.dec.buf) \in Nat /\ n \in Nat
    BY <1>2, LenProperties
  <2>3. n - Len(v.dec.buf) = Len(Raws(v.recs))
    BY <2>1
  <2> QED
    BY <2>1, <2>2, <2>3
<1>5. line.from \in 1 .. n /\ line.to \in 0 .. n /\ line.next \in 2 .. n + 1
  BY DEF LinesOfBuf
<1>6. l.from = line.from - cut /\ l.to = line.to - cut /\ l.next = line.next - cut
  BY DEF Line
<1> HIDE DEF n, l, cut
<1>7. /\ l.from \in Nat \ {0} /\ l.to \in Nat /\ l.next \in Nat \ {0}
      /\ l.to <= Len(v.dec.buf) /\ l.next <= Len(v.dec.buf) + 1
  <2>1. v.dec.scan = l.from
    BY <1>1, <1>2, <1>4, <1>5, <1>6
  <2>2. cut = n - Len(v.dec.buf)
    BY DEF cut
  <2>4. Forward(line) /\ line.from \in Nat /\ line.to \in Nat /\ line.next \in Nat /\ line.to <= n
        /\ line.next <= n + 1
    BY <1>4, <1>5
  <2>5. v.dec.scan = line.from - cut
    BY <1>6, <2>1
  <2>6. line.to - cut \in Nat /\ line.next - cut \in Nat \ {0}
        /\ line.to - cut <= Len(v.dec.buf) /\ line.next - cut <= Len(v.dec.buf) + 1
    <3> DEFINE b == Len(v.dec.buf)
               sc == v.dec.scan
               p  == line.from
               q  == line.to
               r  == line.next
    <3>1. /\ b \in Nat /\ sc \in Nat \ {0} /\ p \in Nat /\ q \in Nat /\ r \in Nat /\ q <= n
          /\ r <= n + 1 /\ p <= q + 1 /\ p < r /\ sc = p - cut /\ cut = n - b
      BY <1>2, <1>4, <2>2, <2>4, <2>5 DEF Forward
    <3> HIDE DEF b, sc, p, q, r
    <3>2. q - cut \in Nat /\ r - cut \in Nat \ {0} /\ q - cut <= b /\ r - cut <= b + 1
      BY <1>4, <3>1
    <3> QED
      BY <3>2 DEF b, q, r
  <2> QED
    BY <1>2, <1>6, <2>1, <2>6
<1>9. here \in Decoders /\ here.buf = v.dec.buf /\ here.scan = l.next
  BY <1>1, <1>7 DEF Decoders
<1>10. l.next + cut = line.next
  BY <1>4, <1>5, <1>6
<1>11. w = IF l.from <= l.to THEN [v EXCEPT !.dec = Field(here, l)]
           ELSE IF here.data = <<>> THEN [v EXCEPT !.dec = [here EXCEPT !.event = <<>>]]
           ELSE [dec |-> x.dec, recs |-> Append(v.recs, x.rec)]
  BY DEF ScanLine, l, cut, n
<1> HIDE DEF here, w
<1>12. CASE l.from <= l.to
  <2> DEFINE f == Field(here, l)
  <2>1. f \in Decoders /\ f.buf = v.dec.buf /\ f.scan = l.next
    BY <1>7, <1>9, <1>12, FieldKeeps
  <2>2. w = [v EXCEPT !.dec = f]
    BY <1>11, <1>12
  <2> HIDE DEF f
  <2>3. w = [dec |-> f, recs |-> v.recs]
    BY <1>1, <2>2
  <2>4. w \in Runs /\ w.dec = f /\ w.recs = v.recs
    BY <1>1, <2>1, <2>3 DEF Runs
  <2> QED
    BY <1>1, <1>10, <2>1, <2>4 DEF Reached, w, n, cut
<1>13. CASE ~ (l.from <= l.to) /\ here.data = <<>>
  <2> DEFINE f == [here EXCEPT !.event = <<>>]
  <2>1. <<>> \in Seq(Alphabet)
    OBVIOUS
  <2>2. f \in Decoders /\ f.buf = here.buf /\ f.scan = here.scan
    BY <1>9, <2>1 DEF Decoders
  <2>3. w = [v EXCEPT !.dec = f]
    BY <1>11, <1>13
  <2> HIDE DEF f
  <2>4. w = [dec |-> f, recs |-> v.recs]
    BY <1>1, <2>3
  <2>5. w \in Runs /\ w.dec = f /\ w.recs = v.recs
    BY <1>1, <2>2, <2>4 DEF Runs
  <2> QED
    BY <1>1, <1>9, <1>10, <2>2, <2>5 DEF Reached, w, n, cut
<1>14. CASE ~ (l.from <= l.to) /\ here.data # <<>>
  <2>1. /\ x.rec \in Records /\ x.dec \in Decoders /\ x.rec.raw \o x.dec.buf = v.dec.buf
        /\ Len(x.dec.buf) = Len(v.dec.buf) + 1 - l.next /\ x.dec.scan = 1
    BY <1>7, <1>9, DispatchKeeps
  <2>2. w = [dec |-> x.dec, recs |-> Append(v.recs, x.rec)]
    BY <1>11, <1>14
  <2> HIDE DEF x
  <2>3. Append(v.recs, x.rec) \in Seq(Records)
        /\ Raws(Append(v.recs, x.rec)) = Raws(v.recs) \o x.rec.raw
    BY <1>1, <2>1, AppendProperties, RawsAppend
  <2>4. w \in Runs /\ w.dec = x.dec /\ w.recs = Append(v.recs, x.rec)
    BY <2>1, <2>2, <2>3 DEF Runs
  <2>5. x.rec.raw \in Seq(Alphabet) /\ x.dec.buf \in Seq(Alphabet)
    BY <2>1 DEF Records, Decoders
  <2>6. (Raws(v.recs) \o x.rec.raw) \o x.dec.buf = Raws(v.recs) \o (x.rec.raw \o x.dec.buf)
    BY <1>3, <2>5, Regroup
  <2>7. Raws(w.recs) \o w.dec.buf = buf
    BY <1>1, <2>1, <2>3, <2>4, <2>6
  <2>8. w.dec.scan + (n - Len(w.dec.buf)) = line.next
    <3>1. w.dec.scan = 1 /\ Len(w.dec.buf) = Len(v.dec.buf) + 1 - l.next
          /\ l.next + (n - Len(v.dec.buf)) = line.next
      BY <1>9, <1>10, <2>1, <2>4 DEF cut
    <3>2. 1 + (n - (Len(v.dec.buf) + 1 - l.next)) = l.next + (n - Len(v.dec.buf))
      <4>1. \A a, b, c \in Int : 1 + (a - (b + 1 - c)) = c + (a - b)
        OBVIOUS
      <4>2. n \in Int /\ Len(v.dec.buf) \in Int /\ l.next \in Int
        BY <1>4, <1>7
      <4> HIDE DEF n
      <4> QED
        BY <4>1, <4>2
    <3> QED
      BY <3>1, <3>2
  <2> QED
    BY <2>4, <2>7, <2>8 DEF Reached, w, n
<1> QED
  BY <1>12, <1>13, <1>14

\* And what all its lines do: nothing of the buffer is lost, and the scan stays in
\* what is left.
LEMMA ScanLinesKeeps ==
  ASSUME NEW dec \in Decoders, dec.scan <= Len(dec.buf) + 1, NEW final
  PROVE  LET r == ScanLines(dec, final)
         IN  /\ r \in Runs /\ Raws(r.recs) \o r.dec.buf = dec.buf
             /\ r.dec.scan <= Len(r.dec.buf) + 1
<1> DEFINE buf   == dec.buf
           lines == LinesIn(buf, dec.scan, final)
           m     == Len(lines)
           first == [dec |-> dec, recs |-> <<>>]
           One(v, k) == ScanLine(v, lines[k], Len(buf))
           Body(f) == [k \in 0 .. m |-> IF k = 0 THEN first ELSE One(f[k - 1], k)]
           at(k) == IF k = 0 THEN dec.scan ELSE lines[k].next
<1>1. buf \in Seq(Alphabet) /\ dec.scan \in 1 .. Len(buf) + 1 /\ Len(buf) \in Nat
  <2>1. buf \in Seq(Alphabet) /\ dec.scan \in Nat \ {0}
    BY DecoderFields
  <2> QED
    BY <2>1, LenProperties
<1>2. /\ lines \in Seq(LinesOfBuf(Len(buf))) /\ Chained(lines) /\ Advancing(lines)
      /\ lines # <<>> => lines[1].from = dec.scan
  BY <1>1, LinesFound
<1>3. ScanLines(dec, final) = (CHOOSE f : f = Body(f))[m]
  BY DEF ScanLines
<1> HIDE DEF lines
<1>4. m \in Nat /\ \A k \in 1 .. m : lines[k] \in LinesOfBuf(Len(buf))
  BY <1>2, SequenceFacts
<1> HIDE DEF buf, m
<1>5. ASSUME NEW f
      PROVE  /\ Body(f) = [k \in 0 .. m |-> Body(f)[k]]
             /\ Body(f)[0] = first /\ \A k \in 1 .. m : Body(f)[k] = One(f[k - 1], k)
  <2>1. 0 \in 0 .. m /\ \A k \in 1 .. m : k \in 0 .. m /\ k # 0
    BY <1>4
  <2> HIDE DEF first, One
  <2> QED
    BY <2>1
<1>6. Reached(first, buf, at(0))
  <2>1. first \in Runs /\ first.recs = <<>> /\ first.dec = dec
    BY DEF Runs
  <2>2. <<>> \o buf = buf /\ dec.scan + (Len(buf) - Len(buf)) = dec.scan
    BY <1>1, ConcatEmptySeq
  <2> QED
    BY <2>1, <2>2, RawsNone DEF Reached, buf
<1>7. ASSUME NEW v, NEW k \in 1 .. m, Reached(v, buf, at(k - 1))
      PROVE  Reached(One(v, k), buf, at(k))
  <2>1. lines[k].from = at(k - 1)
    <3>1. CASE k = 1
      <4>1. lines # <<>>
        BY <1>4, <3>1 DEF m
      <4> QED
        BY <1>2, <3>1, <4>1
    <3>2. CASE k # 1
      <4>1. k - 1 \in 1 .. m - 1 /\ (k - 1) + 1 = k /\ k - 1 # 0
        BY <1>4, <3>2
      <4> QED
        BY <1>2, <4>1 DEF Chained, m
    <3> QED
      BY <3>1, <3>2
  <2>2. lines[k] \in LinesOfBuf(Len(buf)) /\ Forward(lines[k])
    BY <1>2, <1>4 DEF Advancing, m
  <2>3. at(k) = lines[k].next
    BY <1>4
  <2> QED
    BY <1>1, <1>7, <2>1, <2>2, <2>3, ScanLineKeeps
<1>8. first \in Runs
  BY <1>6 DEF Reached
<1> DEFINE step == [k \in 1 .. m |-> [v \in Runs |-> IF One(v, k) \in Runs THEN One(v, k) ELSE v]]
<1>9. step \in [1 .. m -> [Runs -> Runs]]
      /\ \A k \in 1 .. m, v \in Runs : One(v, k) \in Runs => step[k][v] = One(v, k)
  <2> HIDE DEF One
  <2> QED
    OBVIOUS
<1> HIDE DEF One, first, at, step
<1>10. ASSUME NEW f, f[0] = first,
              \A k \in 1 .. m : Reached(f[k - 1], buf, at(k - 1)) => f[k] = One(f[k - 1], k)
       PROVE  \A k \in 0 .. m : Reached(f[k], buf, at(k))
  <2> DEFINE T == {k \in Nat : k <= m => Reached(f[k], buf, at(k))}
  <2>1. 0 \in T
    BY <1>6, <1>10
  <2>2. ASSUME NEW k \in Nat, k \in T PROVE k + 1 \in T
    <3>1. SUFFICES ASSUME k + 1 <= m PROVE Reached(f[k + 1], buf, at(k + 1))
      OBVIOUS
    <3>2. k + 1 \in 1 .. m /\ (k + 1) - 1 = k /\ Reached(f[k], buf, at(k))
      BY <1>4, <2>2, <3>1
    <3>3. f[k + 1] = One(f[k], k + 1)
      BY <1>10, <3>2
    <3> QED
      BY <1>7, <3>2, <3>3
  <2> HIDE DEF T
  <2>3. \A k \in Nat : k \in T
    BY <2>1, <2>2, Induction
  <2>4. \A k \in 0 .. m : k \in T /\ k <= m
    BY <1>4, <2>3
  <2> QED
    BY <2>4 DEF T
<1> HIDE DEF Body
<1>11. \E f : f = Body(f)
  <2>1. PICK f \in [0 .. m -> Runs] : Unfolds(f, m, first, step)
    BY <1>4, <1>8, <1>9, ForwardRecursion
  <2>2. f[0] = first /\ \A k \in 1 .. m : f[k] = step[k][f[k - 1]]
    BY <2>1 DEF Unfolds
  <2>3. \A k \in 1 .. m : Reached(f[k - 1], buf, at(k - 1)) => f[k] = One(f[k - 1], k)
    <3>1. ASSUME NEW k \in 1 .. m, Reached(f[k - 1], buf, at(k - 1)) PROVE f[k] = One(f[k - 1], k)
      <4>1. One(f[k - 1], k) \in Runs
        BY <1>7, <3>1 DEF Reached
      <4>2. f[k - 1] \in Runs
        BY <3>1 DEF Reached
      <4> QED
        BY <1>9, <2>2, <4>1, <4>2
    <3> QED
      BY <3>1
  <2>4. \A k \in 0 .. m : Reached(f[k], buf, at(k))
    BY <1>10, <2>2, <2>3
  <2>5. \A k \in 1 .. m : f[k] = One(f[k - 1], k)
    <3>1. \A k \in 1 .. m : k - 1 \in 0 .. m
      BY <1>4
    <3> QED
      BY <2>3, <2>4, <3>1
  <2>6. \A k \in 0 .. m : f[k] = Body(f)[k]
    <3>1. \A k \in 0 .. m : k = 0 \/ k \in 1 .. m
      BY <1>4
    <3> QED
      BY <1>5, <2>2, <2>5, <3>1
  <2>7. f = [k \in 0 .. m |-> f[k]] /\ Body(f) = [k \in 0 .. m |-> Body(f)[k]]
    BY <1>5, <2>1
  <2> QED
    BY <2>6, <2>7
<1>12. PICK g : g = Body(g) /\ ScanLines(dec, final) = g[m]
  BY <1>3, <1>11
<1>13. Reached(g[m], buf, at(m))
  <2>1. \A k \in 0 .. m : Reached(g[k], buf, at(k))
    BY <1>5, <1>10, <1>12
  <2>2. m \in 0 .. m
    BY <1>4
  <2> QED
    BY <2>1, <2>2
<1>14. at(m) \in Nat /\ at(m) <= Len(buf) + 1
  <2>1. CASE m = 0
    BY <1>1, <2>1 DEF at
  <2>2. CASE m # 0
    <3>1. m \in 1 .. m /\ lines[m] \in LinesOfBuf(Len(buf))
      BY <1>4, <2>2
    <3>2. lines[m].next \in 2 .. Len(buf) + 1
      BY <3>1 DEF LinesOfBuf
    <3> QED
      BY <1>1, <2>2, <3>2 DEF at
  <2> QED
    BY <2>1, <2>2
<1>15. /\ g[m] \in Runs /\ Raws(g[m].recs) \o g[m].dec.buf = buf
       /\ g[m].dec.scan + (Len(buf) - Len(g[m].dec.buf)) = at(m)
  BY <1>13 DEF Reached
<1>16. g[m].dec \in Decoders
  BY <1>15 DEF Runs
<1>17. g[m].dec.scan \in Nat /\ Len(g[m].dec.buf) \in Nat
  BY <1>16, DecoderFields, LenProperties
<1>18. g[m].dec.scan <= Len(g[m].dec.buf) + 1
  BY <1>1, <1>14, <1>15, <1>17
<1> QED
  BY <1>12, <1>15, <1>18 DEF buf

-----------------------------------------------------------------------------
(* Every byte is in one record or in the tail. *)

\* The decoder's buffer is the tail, and the records before it are the rest of
\* what was written.
DecoderInv ==
  /\ d \in Decoders /\ records \in Seq(Records)
  /\ tail \in Seq(Alphabet) /\ written \in Seq(Alphabet)
  /\ Partition

LEMMA ChunkKeeps ==
  ASSUME DecoderInv, NEW chunk \in Seq(Alphabet), FeedChunk(chunk) PROVE DecoderInv'
<1> DEFINE taken == [d EXCEPT !.buf = @ \o chunk]
           r   == ScanLines(taken, FALSE)
<1>1. /\ d \in Decoders /\ records \in Seq(Records) /\ tail \in Seq(Alphabet)
      /\ written \in Seq(Alphabet) /\ d.buf = tail /\ d.scan <= Len(tail) + 1
      /\ Raws(records) \o tail = written
  BY DEF DecoderInv, Partition
<1>2. taken \in Decoders /\ taken.buf = tail \o chunk /\ taken.scan = d.scan
  <2>1. d.buf \o chunk \in Seq(Alphabet)
    BY <1>1, Joined
  <2> QED
    BY <1>1, <2>1 DEF Decoders
<1>3. taken.scan <= Len(taken.buf) + 1
  <2>1. Len(tail \o chunk) = Len(tail) + Len(chunk) /\ Len(tail) \in Nat /\ Len(chunk) \in Nat
    BY <1>1, ConcatProperties, LenProperties
  <2>2. d.scan \in Nat
    BY <1>1, DecoderFields
  <2> HIDE DEF taken
  <2> QED
    BY <1>1, <1>2, <2>1, <2>2
<1> HIDE DEF taken
<1>4. /\ r \in Runs /\ Raws(r.recs) \o r.dec.buf = tail \o chunk
      /\ r.dec.scan <= Len(r.dec.buf) + 1
  BY <1>2, <1>3, ScanLinesKeeps
<1>5. /\ d' = r.dec /\ records' = records \o r.recs
      /\ tail' = Consume(tail \o chunk, r.recs) /\ written' = written \o chunk
  BY DEF FeedChunk, taken
<1> HIDE DEF r
<1>6. r.dec \in Decoders /\ r.recs \in Seq(Records) /\ r.dec.buf \in Seq(Alphabet)
  BY <1>4 DEF Runs, Decoders
<1>7. tail' = r.dec.buf
  BY <1>4, <1>5, <1>6, ConsumeTakesOff
<1>8. records \o r.recs \in Seq(Records) /\ written \o chunk \in Seq(Alphabet)
  BY <1>1, <1>6, ConcatProperties
<1>9. Raws(records \o r.recs) \o r.dec.buf = written \o chunk
  <2>1. Raws(records) \in Seq(Alphabet) /\ Raws(r.recs) \in Seq(Alphabet)
    BY <1>1, <1>6, RawsTyped
  <2>2. (Raws(records) \o Raws(r.recs)) \o r.dec.buf = Raws(records) \o (Raws(r.recs) \o r.dec.buf)
    BY <1>6, <2>1, Regroup
  <2>3. (Raws(records) \o tail) \o chunk = Raws(records) \o (tail \o chunk)
    <3>1. tail \in Seq(Alphabet)
      BY <1>1
    <3> QED
      BY <2>1, <3>1, Regroup
  <2>4. Raws(records \o r.recs) = Raws(records) \o Raws(r.recs)
    BY <1>1, <1>6, RawsJoin
  <2> QED
    BY <1>1, <1>4, <2>2, <2>3, <2>4
<1>10. Partition'
  <2>1. Raws(records') \o tail' = written'
    BY <1>5, <1>7, <1>9
  <2>2. d'.buf = tail' /\ d'.scan <= Len(tail') + 1
    BY <1>4, <1>5, <1>7
  <2> QED
    BY <2>1, <2>2 DEF Partition
<1> QED
  BY <1>5, <1>6, <1>7, <1>8, <1>10 DEF DecoderInv

LEMMA CloseKeeps ==
  ASSUME DecoderInv, Close PROVE DecoderInv'
<1> DEFINE shut == [d EXCEPT !.closed = TRUE]
           r    == ScanLines(shut, TRUE)
           x    == Dispatch(r.dec, r.dec.scan)
           last == IF r.dec.data = <<>> THEN <<>> ELSE <<x.rec>>
           dec  == IF last = <<>> THEN r.dec ELSE x.dec
<1>1. /\ d \in Decoders /\ records \in Seq(Records) /\ tail \in Seq(Alphabet)
      /\ written \in Seq(Alphabet) /\ d.buf = tail /\ d.scan <= Len(tail) + 1
      /\ Raws(records) \o tail = written
  BY DEF DecoderInv, Partition
<1>2. shut \in Decoders /\ shut.buf = tail /\ shut.scan <= Len(shut.buf) + 1
  BY <1>1 DEF Decoders
<1> HIDE DEF shut
<1>4. /\ r \in Runs /\ Raws(r.recs) \o r.dec.buf = tail
      /\ r.dec.scan <= Len(r.dec.buf) + 1
  BY <1>2, ScanLinesKeeps
<1>5. /\ d' = dec /\ records' = (records \o r.recs) \o last
      /\ tail' = Consume(tail, r.recs \o last) /\ written' = written
  BY DEF Close, shut
<1> HIDE DEF r
<1>6. r.dec \in Decoders /\ r.recs \in Seq(Records) /\ r.dec.buf \in Seq(Alphabet)
  BY <1>4 DEF Runs, Decoders
<1>7. /\ dec \in Decoders /\ last \in Seq(Records) /\ dec.scan <= Len(dec.buf) + 1
      /\ Raws(last) \o dec.buf = r.dec.buf
  <2>1. r.dec.scan \in Nat \ {0}
    BY <1>6, DecoderFields
  <2>2. /\ x.rec \in Records /\ x.dec \in Decoders /\ x.rec.raw \o x.dec.buf = r.dec.buf
        /\ x.dec.scan = 1
    BY <1>4, <1>6, <2>1, DispatchKeeps
  <2> HIDE DEF x
  <2>3. CASE r.dec.data = <<>>
    <3>1. last = <<>> /\ dec = r.dec /\ <<>> \in Seq(Records)
      BY <2>3
    <3>2. <<>> \o r.dec.buf = r.dec.buf
      BY <1>6, ConcatEmptySeq
    <3> HIDE DEF last, dec
    <3> QED
      BY <1>4, <1>6, <3>1, <3>2, RawsNone
  <2>4. CASE r.dec.data # <<>>
    <3>1. last = <<x.rec>> /\ <<x.rec>> # <<>> /\ <<x.rec>> \in Seq(Records)
      BY <2>2, <2>4
    <3>2. dec = x.dec
      BY <3>1
    <3> HIDE DEF last, dec
    <3>3. Raws(last) = x.rec.raw
      BY <2>2, <3>1, RawsOne
    <3>4. Len(x.dec.buf) \in Nat
      BY <2>2, DecoderFields, LenProperties
    <3>5. dec.scan <= Len(dec.buf) + 1
      BY <2>2, <3>2, <3>4
    <3>6. Raws(last) \o dec.buf = r.dec.buf
      BY <2>2, <3>2, <3>3
    <3> QED
      BY <2>2, <3>1, <3>2, <3>5, <3>6
  <2> QED
    BY <2>3, <2>4
<1> HIDE DEF last, dec
<1>8. /\ Raws(records) \in Seq(Alphabet) /\ Raws(r.recs) \in Seq(Alphabet)
      /\ Raws(last) \in Seq(Alphabet) /\ dec.buf \in Seq(Alphabet)
  BY <1>1, <1>6, <1>7, RawsTyped, DecoderFields
<1>9. /\ r.recs \o last \in Seq(Records) /\ records \o r.recs \in Seq(Records)
      /\ (records \o r.recs) \o last \in Seq(Records)
  BY <1>1, <1>6, <1>7, ConcatProperties
<1>10. Raws(r.recs \o last) \o dec.buf = tail
  <2>1. Raws(r.recs \o last) = Raws(r.recs) \o Raws(last)
    BY <1>6, <1>7, RawsJoin
  <2>2. (Raws(r.recs) \o Raws(last)) \o dec.buf = Raws(r.recs) \o (Raws(last) \o dec.buf)
    BY <1>8, Regroup
  <2> QED
    BY <1>4, <1>7, <2>1, <2>2
<1>11. tail' = dec.buf
  BY <1>5, <1>8, <1>9, <1>10, ConsumeTakesOff
<1>12. Raws((records \o r.recs) \o last) \o dec.buf = written
  <2>1. (records \o r.recs) \o last = records \o (r.recs \o last)
    <3>1. \A a, b, c \in Seq(Records) : (a \o b) \o c = a \o (b \o c)
      BY ConcatAssociative
    <3>2. records \in Seq(Records) /\ r.recs \in Seq(Records) /\ last \in Seq(Records)
      BY <1>1, <1>6, <1>7
    <3> QED
      BY <3>1, <3>2
  <2>2. Raws(records \o (r.recs \o last)) = Raws(records) \o Raws(r.recs \o last)
    BY <1>1, <1>9, RawsJoin
  <2>3. Raws(r.recs \o last) \in Seq(Alphabet)
    BY <1>9, RawsTyped
  <2>4. (Raws(records) \o Raws(r.recs \o last)) \o dec.buf
          = Raws(records) \o (Raws(r.recs \o last) \o dec.buf)
    BY <1>8, <2>3, Regroup
  <2> QED
    BY <1>1, <1>10, <2>1, <2>2, <2>4
<1>13. Partition'
  <2>1. Raws(records') \o tail' = written'
    BY <1>5, <1>11, <1>12
  <2>2. d'.buf = tail' /\ d'.scan <= Len(tail') + 1
    BY <1>5, <1>7, <1>11
  <2> QED
    BY <2>1, <2>2 DEF Partition
<1> QED
  BY <1>1, <1>5, <1>7, <1>8, <1>9, <1>11, <1>13 DEF DecoderInv

LEMMA DecoderStarts == NewDecoder => DecoderInv
<1> SUFFICES ASSUME NewDecoder PROVE DecoderInv
  OBVIOUS
<1>1. d = Fresh /\ records = <<>> /\ tail = <<>> /\ written = <<>>
  BY DEF NewDecoder
<1>2. Fresh \in Decoders /\ Fresh.buf = <<>> /\ Fresh.scan = 1
  BY DEF Fresh, Decoders, Marks
<1>3. <<>> \in Seq(Alphabet) /\ <<>> \in Seq(Records) /\ <<>> \o <<>> = <<>> /\ Len(<<>>) = 0
  OBVIOUS
<1> QED
  BY <1>1, <1>2, <1>3, RawsNone DEF DecoderInv, Partition

LEMMA DecoderSteps == DecoderInv /\ [DecoderNext]_decoderVars => DecoderInv'
<1> SUFFICES ASSUME DecoderInv, [DecoderNext]_decoderVars PROVE DecoderInv'
  OBVIOUS
<1>1. ASSUME NEW n \in 1 .. MaxCells - Len(written), NEW chunk \in [1 .. n -> Alphabet],
             FeedChunk(chunk)
      PROVE  DecoderInv'
  <2>1. MaxCells - Len(written) \in Int
    BY AlphabetOK, LenProperties DEF DecoderInv
  <2>2. n \in Nat
    BY <2>1
  <2>3. chunk \in Seq(Alphabet)
    BY <2>2
  <2> QED
    BY <1>1, <2>3, ChunkKeeps
<1>2. ASSUME Close PROVE DecoderInv'
  BY <1>2, CloseKeeps
<1>3. ASSUME UNCHANGED decoderVars PROVE DecoderInv'
  BY <1>3 DEF decoderVars, DecoderInv, Partition
<1> QED
  BY <1>1, <1>2, <1>3 DEF DecoderNext

\* For every stream, cut in any way: the records and the tail together are what
\* was written, so what Flush appends is exactly what no record had.
THEOREM StreamPartitioned == DecoderSpec => []Partition
<1>1. DecoderInv => Partition
  BY DEF DecoderInv
<1> QED
  BY <1>1, DecoderStarts, DecoderSteps, PTL DEF DecoderSpec

=============================================================================
