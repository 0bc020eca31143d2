----------------------------- MODULE EventStream -----------------------------
(***************************************************************************)
(* Restoring one text/event-stream body: redact.SSEBackfiller, which       *)
(* restoreSSE (pkg/proxy/response_sse_buffered.go) drives over the events  *)
(* the decoder found.                                                      *)
(*                                                                         *)
(* An event with one data line is a segment with a span; its value is      *)
(* plain text, or a JSON envelope of leaves. A text, and an envelope that  *)
(* has no leaf with an identity, goes through the writer, which moves the  *)
(* tail it holds into the next such event. An envelope with an identified  *)
(* leaf that ends inside a placeholder is held, with every envelope that   *)
(* continues that leaf (parts), until the placeholder is complete.         *)
(*                                                                         *)
(* The stream's fields are one record s, and each method of the code is a  *)
(* function from the record to the next.                                   *)
(***************************************************************************)
EXTENDS Backfill

CONSTANTS
  Events,     \* the events an upstream may send
  NoIdentity, \* the identity of a leaf that has none
  Budget,     \* SSEBackfillHoldbackBytes, in cells
  MaxEvents   \* bound on the events of one stream

\* The leaves with an identity, and the events acceptLeaf handles.
Identified(ev) == {i \in DOMAIN ev.leaves : ev.leaves[i].id # NoIdentity}
Envelope(ev)   == ev.kind = "json" /\ Identified(ev) # {}

Identities == UNION {{ev.leaves[i].id : i \in DOMAIN ev.leaves} : ev \in Events}
Plain      == TokenCells
  \union UNION {UNION {Range(ev.leaves[i].text) : i \in DOMAIN ev.leaves} : ev \in Events}
Cells      == Plain \union SecretCells

\* An event that is not looked at has no leaves; one without an identified leaf
\* has one, its raw value.
ASSUME StreamOK ==
  /\ Budget \in Nat /\ Budget >= MaxTokenLen /\ MaxEvents \in Nat
  /\ \A ev \in Events :
       /\ ev.kind \in {"other", "text", "json"}
       /\ ev.leaves \in Seq([id : Identities, text : Seq(Cells), torn : BOOLEAN])
       /\ ev.kind = "other" => ev.leaves = <<>>
       /\ ev.kind # "other" /\ ~ Envelope(ev) => Len(ev.leaves) = 1

\* An identity ends with the occurrence of its path in its event, and a path is
\* taken to hold no separator, so that two leaves of one event are two channels.
ASSUME ChannelsApart ==
  \A ev \in Events : \A i, j \in Identified(ev) :
    ev.leaves[i].id = ev.leaves[j].id => i = j

\* The cells carry where a text comes from: what is restored for a placeholder
\* is neither what the upstream wrote nor what is restored for another.
ASSUME SecretsApart ==
  /\ SecretCells \intersect Plain = {}
  /\ \A t, u \in Mapped :
       {Secret[t].raw, Secret[t].json} \intersect {Secret[u].raw, Secret[u].json} # {} => t = u

\* A JSON document ends in a bracket, a quote, a digit or the last letter of a
\* literal, and no placeholder that begins in it runs on behind it.
ASSUME DocumentsEnd ==
  \A ev \in Events : ev.kind = "json" /\ ~ Envelope(ev) =>
    \A i \in DOMAIN ev.leaves[1].text : ~ IsPlaceholderPrefix(From(ev.leaves[1].text, i))

VARIABLES
  s,          \* the SSEBackfiller
  closed,     \* after Flush
  fed,        \* the events fed so far
  overlooked  \* events whose unfinished placeholder was not held

vars == <<s, closed, fed, overlooked>>

Init ==
  /\ s = [queue |-> <<>>,  \* segments not yet released
          held  |-> <<>>,  \* the writer's tail
          carry |-> <<>>,  \* the unresolved placeholder prefix
          key   |-> NoIdentity,
          parts |-> <<>>,  \* the fragments of carry: segment, leaf, cells
          bytes |-> 0,     \* heldBytes
          out   |-> <<>>]  \* what the client got
  /\ closed = FALSE
  /\ fed = <<>>
  /\ overlooked = {}

-----------------------------------------------------------------------------
(* Segments and the queue. *)

\* Content holds the text of the raw value, or of each leaf, and extra the edits
\* of each leaf that are not restores of whole placeholders.
NoExtra(ev) == [i \in DOMAIN ev.leaves |-> <<>>]
Segment(ev, leaf, content, extra) ==
  [n |-> Len(fed) + 1, ev |-> ev, leaf |-> leaf, content |-> content, extra |-> extra]

HasSpan(seg) == seg.ev.kind # "other"
RawData(seg) == HasSpan(seg) /\ ~ seg.leaf
Width(texts) == Cardinality(UNION {{i} \X DOMAIN texts[i] : i \in DOMAIN texts})

\* release
ReleaseN(x, n) ==
  [x EXCEPT !.out = @ \o SubSeq(x.queue, 1, n), !.queue = From(@, n + 1)]
ReleaseAll(x) == ReleaseN(x, Len(x.queue))

\* pendingIndex, as a test
Pending(x) == \E i \in DOMAIN x.queue : HasSpan(x.queue[i])

ClearCarry(x) ==
  [x EXCEPT !.carry = <<>>, !.key = NoIdentity, !.parts = <<>>, !.bytes = 0]
FlushHeld(x) == ClearCarry(ReleaseAll(x))

\* handoffWriter: the writer's tail moves onto the newest raw data segment.
HandoffWriter(x) ==
  LET raw == {i \in DOMAIN x.queue : RawData(x.queue[i])}
  IN  IF x.held = <<>> \/ raw = {} THEN x
      ELSE [x EXCEPT !.queue[Max(raw)].content = <<@[1] \o x.held>>, !.held = <<>>]

\* Mutant of Drain: a segment the carry refers to is released.
Drain_PastCarry(x) ==
  LET stops == {i \in DOMAIN x.queue :
         RawData(x.queue[i]) /\ \A j \in DOMAIN x.queue : j > i => ~ RawData(x.queue[j])}
  IN  ReleaseN(x, IF stops = {} THEN Len(x.queue) ELSE Min(stops) - 1)

\* drain: up to the first segment that carry refers to, or that is raw data
\* with no later raw data.
Drain(x) ==
  LET stops == {i \in DOMAIN x.queue :
         \/ x.queue[i].leaf /\ \E p \in Range(x.parts) : p.seg = i
         \/ RawData(x.queue[i]) /\ \A j \in DOMAIN x.queue : j > i => ~ RawData(x.queue[j])}
  IN  ReleaseN(x, IF stops = {} THEN Len(x.queue) ELSE Min(stops) - 1)

EmitSegment(x, seg) == [x EXCEPT !.queue = Append(@, seg)]

RawBytes(ev) == 1 + Width([i \in DOMAIN ev.leaves |-> ev.leaves[i].text])

HoldSegment(x, seg) ==
  [EmitSegment(x, seg) EXCEPT !.bytes = @ + RawBytes(seg.ev) + Width(seg.content)]

\* Mutant of FitsBudget: the held segments are not counted.
FitsBudget_NoSegments(x, add) == Len(x.held) + Len(x.carry) + add <= Budget

FitsBudget(x, add) == Len(x.held) + Len(x.carry) + x.bytes + add <= Budget

-----------------------------------------------------------------------------
(* Leaves. *)

\* contentWith
ContentWith(ev, extra) ==
  [i \in DOMAIN ev.leaves |->
     Apply(ev.leaves[i].text,
           WithinLeafEdits(ev.leaves[i].text) \o extra[i])]

WithinLeafContent(ev) == ContentWith(ev, NoExtra(ev))

\* editHeld: a fragment becomes empty, and its segment is rendered again from
\* the original value.
EditHeld(seg, p) ==
  LET e    == [from |-> p.from, to |-> p.to, rep |-> <<>>]
      more == [seg.extra EXCEPT ![p.leaf] = Append(@, e)]
  IN  [seg EXCEPT !.extra = more, !.content = ContentWith(seg.ev, more)]

\* Each part is in a segment of its own.
EditParts(x, parts) ==
  LET EditSegment(i) ==
        LET mine == {p \in parts : p.seg = i}
        IN  IF mine = {} THEN x.queue[i]
            ELSE EditHeld(x.queue[i], CHOOSE p \in mine : TRUE)
  IN  [x EXCEPT !.queue = [i \in DOMAIN x.queue |-> EditSegment(i)]]

\* Mutant of EditAll: the last fragment stays in its event.
EditAll_Front(x) == EditParts(x, Range(Front(x.parts)))

EditAll(x) == EditParts(x, Range(x.parts))

\* uniqueIdentityMatch: the leaf, or 0.
Match(ev, key) ==
  LET m == {i \in Identified(ev) : ev.leaves[i].id = key}
  IN  IF Cardinality(m) = 1 THEN Max(m) ELSE 0

\* The last identified leaf in scope, whose scan begins at start[i], that ends
\* in an unresolved prefix.
LastPrefix(ev, scope, start) ==
  LET at(i) == SmallestPrefixAt(ev.leaves[i].text, start[i])
      found == {i \in scope : at(i) # 0}
  IN  IF found = {} THEN [leaf |-> 0, from |-> 0]
      ELSE [leaf |-> Max(found), from |-> at(Max(found))]

TrailingPrefix(ev) ==
  LastPrefix(ev, Identified(ev), [i \in DOMAIN ev.leaves |-> 1])

\* After the first k cells of leaf m, or in a later leaf.
TrailingPrefixAfter(ev, m, k) ==
  LastPrefix(ev, {i \in Identified(ev) : i >= m},
             [i \in DOMAIN ev.leaves |-> IF i = m THEN k + 1 ELSE 1])

Fragment(ev, p) == IF p.leaf = 0 THEN <<>> ELSE From(ev.leaves[p.leaf].text, p.from)

\* Whether the prefix p that ends the event, with content, is to be held in x.
CanHold(x, ev, content, p) ==
  p.leaf # 0 /\ FitsBudget(x, RawBytes(ev) + Width(content) + Len(Fragment(ev, p)))

\* Hold the event as the only part of a new carry.
Establish(x, ev, content, extra, p) ==
  LET held == HoldSegment(x, Segment(ev, TRUE, content, extra))
      text == ev.leaves[p.leaf].text
  IN  [held EXCEPT
        !.carry = Fragment(ev, p),
        !.key   = ev.leaves[p.leaf].id,
        !.parts = <<[seg |-> Len(held.queue), leaf |-> p.leaf,
                     from |-> p.from, to |-> Len(text) + 1]>>]

\* keepPlaceholder: a torn inner document must not get a secret that needs
\* escaping.
KeepPlaceholder(x, t) ==
  LET p == x.parts[1]
  IN  /\ x.queue[p.seg].ev.leaves[p.leaf].torn
      /\ Secret[t].raw # Secret[t].json

\* Auxiliary: the event leaves a prefix behind that the new carry does not hold.
LeftOver(ev, kept) ==
  IF \E i \in Identified(ev) \ kept : SmallestPrefixAt(ev.leaves[i].text, 1) # 0
    THEN {Len(fed) + 1} ELSE {}

Open == ~ closed /\ Len(fed) < MaxEvents

Feed(ev, x, lost) ==
  /\ s' = x
  /\ fed' = Append(fed, ev)
  /\ overlooked' = overlooked \union lost
  /\ UNCHANGED closed

-----------------------------------------------------------------------------
(* accept, for an event that acceptLeaf does not handle. *)

\* Mutant of AcceptOther: a comment does not wait for the pending data.
AcceptOther_Overtakes(ev) ==
  /\ Open /\ ev.kind = "other"
  /\ Feed(ev, [s EXCEPT !.out = Append(@, Segment(ev, FALSE, <<>>, NoExtra(ev)))], {})

\* Comments, fields without data, and records of several data lines.
AcceptOther(ev) ==
  /\ Open /\ ev.kind = "other"
  /\ LET x == EmitSegment(s, Segment(ev, FALSE, <<>>, NoExtra(ev)))
     IN  Feed(ev, IF Pending(x) THEN x ELSE ReleaseAll(x), {})

\* The raw path. acceptLeaf hands the writer's tail off before it declines an
\* envelope; spellFeed and replace escape what an envelope restores.
AcceptText(ev) ==
  /\ Open /\ ev.kind # "other" /\ ~ Envelope(ev)
  /\ LET x == IF ev.kind = "json" THEN HandoffWriter(s) ELSE s
         y == FlushHeld(x)
         r == Release(y.held \o ev.leaves[1].text, ev.kind = "json")
         z == EmitSegment(y, Segment(ev, FALSE, <<r.out>>, NoExtra(ev)))
     IN  Feed(ev, ReleaseN([z EXCEPT !.held = r.held], Len(z.queue) - 1), {})

-----------------------------------------------------------------------------
(* acceptLeaf. *)

Emitted(x, ev, content) == EmitSegment(x, Segment(ev, TRUE, content, NoExtra(ev)))

\* Start a carry from event ev, after before(x) released what it may.
StartOrEmit(x, hold, ev, content, extra, p) ==
  IF CanHold(hold, ev, content, p)
    THEN Feed(ev, Drain(Establish(hold, ev, content, extra, p)), LeftOver(ev, {p.leaf}))
    ELSE Feed(ev, Drain(Emitted(x, ev, content)), LeftOver(ev, {}))

\* No carry: everything queued is released only when this event is held.
LeafFirst(ev) ==
  LET x == HandoffWriter(s)
  IN  /\ Open /\ Envelope(ev) /\ s.carry = <<>>
      /\ StartOrEmit(x, ReleaseAll(x), ev, WithinLeafContent(ev), NoExtra(ev), TrailingPrefix(ev))

\* Another channel, or an ambiguous one, ends the carry.
LeafNoMatch(ev) ==
  LET x == FlushHeld(HandoffWriter(s))
  IN  /\ Open /\ Envelope(ev) /\ s.carry # <<>> /\ Match(ev, s.key) = 0
      /\ StartOrEmit(x, x, ev, WithinLeafContent(ev), NoExtra(ev), TrailingPrefix(ev))

Combined(ev) == s.carry \o ev.leaves[Match(ev, s.key)].text
Completed(ev) ==
  LET n == TokenLen(Combined(ev))
  IN  IF n > Len(s.carry) THEN SubSeq(Combined(ev), 1, n) ELSE <<>>

Continues(ev) == Open /\ Envelope(ev) /\ s.carry # <<>> /\ Match(ev, s.key) # 0

Restorable(ev) ==
  /\ Continues(ev) /\ Completed(ev) \in Mapped
  /\ ~ KeepPlaceholder(s, Completed(ev))

\* The event completes a placeholder: every fragment is deleted and the secret
\* takes the place of the rest.
LeafComplete(ev) ==
  LET m == Match(ev, s.key)
      k == Len(Completed(ev)) - Len(s.carry)
      x == FlushHeld(EditAll(HandoffWriter(s)))
      restore == [from |-> 1, to |-> k + 1, rep |-> Backfilled(Completed(ev), TRUE)]
      extra == [NoExtra(ev) EXCEPT ![m] = <<restore>>]
  IN  /\ Restorable(ev)
      /\ StartOrEmit(x, x, ev, ContentWith(ev, extra), extra, TrailingPrefixAfter(ev, m, k))

\* Whether holding one more event keeps the joint bound.
ExtensionFits(ev) ==
  FitsBudget(HandoffWriter(s), RawBytes(ev) + Width(WithinLeafContent(ev))
                                 + Len(ev.leaves[Match(ev, s.key)].text))

\* Mutant of CanExtend: a length compared off by one.
CanExtend_Short(ev) ==
  /\ Completed(ev) = <<>>
  /\ PrefixLen(Combined(ev)) = Len(Combined(ev))
  /\ Len(Combined(ev)) < MaxTokenLen - 1
  /\ ExtensionFits(ev)

CanExtend(ev) ==
  /\ Completed(ev) = <<>>
  /\ PrefixLen(Combined(ev)) = Len(Combined(ev))
  /\ Len(Combined(ev)) <= MaxTokenLen
  /\ ExtensionFits(ev)

\* A foreign or kept placeholder, text that is no placeholder, or a carry that
\* grew too long ends the carry.
LeafGiveUp(ev) ==
  /\ Continues(ev) /\ ~ Restorable(ev) /\ ~ CanExtend(ev)
  /\ Feed(ev, Drain(Emitted(FlushHeld(HandoffWriter(s)), ev, WithinLeafContent(ev))),
          IF ExtensionFits(ev) THEN LeftOver(ev, {}) ELSE {Len(fed) + 1})

\* The carry grows.
LeafExtend(ev) ==
  LET m == Match(ev, s.key)
      x == HoldSegment(HandoffWriter(s), Segment(ev, TRUE, WithinLeafContent(ev), NoExtra(ev)))
      p == [seg |-> Len(x.queue), leaf |-> m, from |-> 1, to |-> Len(ev.leaves[m].text) + 1]
  IN  /\ Continues(ev) /\ CanExtend(ev)
      /\ Feed(ev, Drain([x EXCEPT !.carry = Combined(ev), !.parts = Append(@, p)]),
              LeftOver(ev, {m}))

-----------------------------------------------------------------------------
\* Flush: the writer's tail goes to the pending segment.
Flush ==
  LET spans == {i \in DOMAIN s.queue : HasSpan(s.queue[i])}
      x == IF spans = {} THEN s
           ELSE [s EXCEPT !.queue[Min(spans)].content =
                   IF s.held = <<>> THEN @ ELSE <<@[1] \o s.held>>, !.held = <<>>]
  IN  /\ ~ closed
      /\ s' = ClearCarry(ReleaseAll(x))
      /\ closed' = TRUE
      /\ UNCHANGED <<fed, overlooked>>

AcceptLeaf(ev) ==
  \/ LeafFirst(ev) \/ LeafNoMatch(ev) \/ LeafComplete(ev)
  \/ LeafGiveUp(ev) \/ LeafExtend(ev)

Accept(ev) == AcceptOther(ev) \/ AcceptText(ev) \/ AcceptLeaf(ev)

Next == Flush \/ \E ev \in Events : Accept(ev)

Spec == Init /\ [][Next]_vars

-----------------------------------------------------------------------------
(* Properties. *)

Segments == s.out \o s.queue
Join(texts) == FlattenSeq(texts)

\* The carry is what its parts spell, in segments still queued, so that deleting
\* the parts deletes the placeholder's beginning and nothing else: queue
\* indices outlive every release before them.
CarryPointsHome ==
  /\ (s.carry = <<>>) <=> (s.parts = <<>>)
  /\ \A k \in DOMAIN s.parts :
       /\ s.parts[k].seg \in DOMAIN s.queue
       /\ s.queue[s.parts[k].seg].ev.leaves[s.parts[k].leaf].id = s.key
       /\ k > 1 => s.parts[k - 1].seg < s.parts[k].seg
  /\ s.carry = Join([k \in DOMAIN s.parts |->
       LET p == s.parts[k]
       IN  SubSeq(s.queue[p.seg].ev.leaves[p.leaf].text, p.from, p.to - 1)])

\* The state's shape, and where the code looks for it: what the writer holds
\* belongs to the one raw segment that is queued.
TypeOK ==
  /\ \A i \in DOMAIN Segments :
       /\ Segments[i].ev \in Events
       /\ Len(Segments[i].content) <= Len(Segments[i].ev.leaves)
       /\ \A j \in DOMAIN Segments[i].content : Range(Segments[i].content[j]) \subseteq Cells
  /\ Range(s.carry) \subseteq Cells /\ s.key \in Identities \union {NoIdentity}
  /\ s.held # <<>> =>
       \E i \in DOMAIN s.queue :
         RawData(s.queue[i]) /\ \A j \in DOMAIN s.queue : HasSpan(s.queue[j]) => j = i
  /\ closed => s.queue = <<>> /\ s.held = <<>> /\ s.carry = <<>>
  /\ closed \in BOOLEAN /\ overlooked \subseteq DOMAIN fed
  /\ CarryPointsHome

\* The events leave in the order they came, each once, and after Flush none is
\* missing (sse_backfill.go: "released strictly in order").
InOrder == [i \in DOMAIN Segments |-> Segments[i].n] = [i \in DOMAIN fed |-> i]

\* The text of channel c in the segments, and in what was fed.
TextOf(c, segs) ==
  Join([i \in DOMAIN segs |->
    Join([j \in DOMAIN segs[i].content |->
      IF segs[i].leaf /\ segs[i].ev.leaves[j].id = c THEN segs[i].content[j] ELSE <<>>])])
FedTo(c, from, to) ==
  Join([i \in 1 .. to - from + 1 |->
    LET ev == fed[from + i - 1]
    IN  IF Envelope(ev)
          THEN Join([j \in DOMAIN ev.leaves |->
                 IF ev.leaves[j].id = c THEN ev.leaves[j].text ELSE <<>>])
          ELSE <<>>])

Unrestored(text) ==
  Join([i \in DOMAIN text |->
    LET t == {u \in Mapped : text[i] \in {Secret[u].raw, Secret[u].json}}
    IN  IF t = {} THEN <<text[i]>> ELSE CHOOSE u \in t : TRUE])

TokensAt(text) == {i \in DOMAIN text : TokenLen(From(text, i)) > 0}
\* No placeholder begins inside another one.
Clean(text) ==
  \A i, j \in TokensAt(text) : i < j => i + TokenLen(From(text, i)) <= j

\* Nothing is lost, doubled, moved to another channel or fabricated: with every
\* secret written back as its placeholder, the events of a channel say what
\* the upstream said, whatever was held, edited or given up in between.
Conserved ==
  \A c \in Identities \ {NoIdentity} :
    LET said == FedTo(c, 1, Len(fed))
    IN  Clean(said) => Unrestored(TextOf(c, Segments)) = said

\* The bound of the one accumulator (docs/security.md:96).
HeldBounded == Len(s.held) + Len(s.carry) + s.bytes <= Budget

\* Runs of text events, with nothing but dataless events in between, and single
\* envelopes without an identity.
TextRun(i, j) ==
  /\ \A k \in i .. j : fed[k].kind \in {"text", "other"}
  /\ i > 1 => fed[i - 1].kind = "json"
  /\ j < Len(fed) => fed[j + 1].kind = "json"
RawRun(i, j) ==
  \/ TextRun(i, j)
  \/ i = j /\ fed[i].kind = "json" /\ Identified(fed[i]) = {}

Restored(text, json) ==
  LET all == Apply(text, WithinLeafEdits(text))
  IN  [i \in DOMAIN all |->
        IF \E t \in Mapped : all[i] = Secret[t].json
          THEN Backfilled(CHOOSE t \in Mapped : all[i] = Secret[t].json, json)[1]
          ELSE all[i]]
\* A placeholder split over text events is restored as if they were one text,
\* and the rest of the text is unchanged, however it was cut; a secret inside an
\* envelope is escaped.
RawRestored ==
  \A i \in DOMAIN fed : \A j \in i .. Len(fed) :
    RawRun(i, j) =>
      Join([k \in 1 .. j - i + 1 |-> Join(Segments[i + k - 1].content)])
          \o (IF j = Len(fed) THEN s.held ELSE <<>>)
        = Restored(Join([k \in 1 .. j - i + 1 |->
            IF fed[i + k - 1].kind = "other" THEN <<>> ELSE fed[i + k - 1].leaves[1].text]),
            fed[i].kind = "json")

\* Data events i .. j, all of which carry channel c.
ChannelRun(c, i, j) ==
  /\ \A k \in i .. j : fed[k].kind # "other" => Envelope(fed[k]) /\ Match(fed[k], c) # 0
  /\ fed[i].kind # "other" /\ fed[j].kind # "other"
Spoiled(c, i, j) ==
  \/ ~ Clean(FedTo(c, 1, Len(fed)))
  \/ \E k \in i .. j, l \in 1 .. 2 :
       l \in DOMAIN fed[k].leaves /\ fed[k].leaves[l].id = c /\ fed[k].leaves[l].torn

HasMapped(text) == \E i \in DOMAIN text, t \in Mapped : IsPrefix(t, From(text, i))

\* docs/security.md R6: a placeholder split over consecutive data events of one
\* channel is restored.
SplitRestored ==
  closed => \A c \in Identities \ {NoIdentity}, i \in DOMAIN fed : \A j \in i .. Len(fed) :
    ChannelRun(c, i, j) /\ ~ Spoiled(c, i, j) =>
      ~ HasMapped(TextOf(c, SubSeq(s.out, i, j)))

\* The part of it that holds: unless the event the placeholder begins in came
\* when the code was not looking for a new one.
HeldSplitRestored ==
  closed => \A c \in Identities \ {NoIdentity}, i \in DOMAIN fed : \A j \in i .. Len(fed) :
    /\ ChannelRun(c, i, j) /\ ~ Spoiled(c, i, j)
    /\ overlooked \intersect (i .. j - 1) = {}
    => ~ HasMapped(TextOf(c, SubSeq(s.out, i, j)))
=============================================================================
