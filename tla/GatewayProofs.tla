---------------------------- MODULE GatewayProofs ----------------------------
(***************************************************************************)
(* What the gateway's exchanges guarantee for every number of concurrent   *)
(* requests and restarts, every set of bodies with their findings, every   *)
(* set of replies and every digest ladder that ends in a digest no other   *)
(* secret has; and what its session files say, for any number of gateways, *)
(* ports, requests and status commands, with crashes and failing calls     *)
(* anywhere.                                                               *)
(***************************************************************************)
EXTENDS Exchange, GatewaySession, NaturalsLemmas, SequenceTheorems, TLAPS

(* The operators: the sorted findings, the splice's cursor, the free rung. *)

Sorted(f) == \A i, j \in DOMAIN f : i < j => Before(f[i], f[j])

\* A finite set of spans has a first one in collect's order.
LEMMA FirstSpan ==
  ASSUME NEW S, S \subseteq Spans, S # {}
  PROVE  \E s \in S : \A t \in S : t # s => Before(s, t)
<1>1. PICK n \in {s.from : s \in S} : \A y \in {s.from : s \in S} : n <= y
  <2>1. {s.from : s \in S} \subseteq Nat /\ {s.from : s \in S} # {}
    BY DEF Spans
  <2> QED
    BY <2>1, LeastNatural
<1> DEFINE Ties == {s \in S : s.from = n}
<1>2. PICK m \in {s.to : s \in Ties} : \A y \in {s.to : s \in Ties} : m <= y
  <2>1. {s.to : s \in Ties} \subseteq Nat /\ {s.to : s \in Ties} # {}
    BY <1>1 DEF Spans
  <2> QED
    BY <2>1, LeastNatural
<1>3. PICK s \in Ties : s.to = m
  OBVIOUS
<1>4. ASSUME NEW t \in S, t # s PROVE Before(s, t)
  <2>1. s.from \in Nat /\ s.to \in Nat /\ t.from \in Nat /\ t.to \in Nat
    BY DEF Spans
  <2>2. CASE t.from = n
    <3>1. s.to <= t.to
      BY <1>2, <1>3, <2>2
    <3>2. s.to # t.to
      BY <1>3, <1>4, <2>2 DEF Spans
    <3> QED
      BY <1>3, <2>1, <2>2, <3>1, <3>2 DEF Before
  <2>3. CASE t.from # n
    BY <1>1, <1>3, <2>1, <2>3 DEF Before
  <2> QED
    BY <2>2, <2>3
<1> QED
  BY <1>3, <1>4

\* Every finite set of spans can be enumerated in that order.
LEMMA SortedExists ==
  ASSUME NEW S, S \subseteq Spans, IsFiniteSet(S)
  PROVE  \E f \in [1 .. Cardinality(S) -> S] : Sorted(f)
<1> DEFINE Enumerable(U) == \E f \in [1 .. Cardinality(U) -> U] : Sorted(f)
           T == {n \in Nat : \A U \in SUBSET S : Cardinality(U) = n => Enumerable(U)}
<1>1. \A U \in SUBSET S : IsFiniteSet(U) /\ Cardinality(U) \in Nat
  BY FS_Subset, FS_CardinalityType
<1>2. 0 \in T
  <2>1. ASSUME NEW U \in SUBSET S, Cardinality(U) = 0 PROVE Enumerable(U)
    <3>1. [i \in 1 .. 0 |-> i] \in [1 .. Cardinality(U) -> U]
      BY <2>1
    <3>2. Sorted([i \in 1 .. 0 |-> i])
      BY DEF Sorted
    <3> QED
      BY <3>1, <3>2
  <2> QED
    BY <2>1
<1>3. ASSUME NEW n \in Nat, n \in T PROVE n + 1 \in T
  <2>1. ASSUME NEW U \in SUBSET S, Cardinality(U) = n + 1 PROVE Enumerable(U)
    <3>1. U # {}
      BY <2>1, FS_EmptySet
    <3>2. PICK s \in U : \A t \in U : t # s => Before(s, t)
      BY <3>1, FirstSpan
    <3>3. Cardinality(U \ {s}) = n
      <4>1. IsFiniteSet(U)
        BY <1>1
      <4>2. Cardinality(U \ {s}) = Cardinality(U) - 1
        BY <4>1, FS_RemoveElement
      <4> QED
        BY <2>1, <4>2
    <3>4. PICK f \in [1 .. n -> U \ {s}] : Sorted(f)
      BY <1>3, <3>3
    <3> DEFINE g == [i \in 1 .. n + 1 |-> IF i = 1 THEN s ELSE f[i - 1]]
    <3>5. \A i \in 2 .. n + 1 : i - 1 \in 1 .. n /\ f[i - 1] \in U \ {s}
      OBVIOUS
    <3>6. g \in [1 .. Cardinality(U) -> U]
      BY <2>1, <3>5
    <3>7. ASSUME NEW i \in 1 .. n + 1, NEW j \in 1 .. n + 1, i < j PROVE Before(g[i], g[j])
      <4>1. CASE i = 1
        BY <3>2, <3>5, <3>7, <4>1
      <4>2. CASE i # 1
        <5>1. i \in 2 .. n + 1 /\ j \in 2 .. n + 1 /\ i - 1 < j - 1
          BY <3>7, <4>2
        <5>2. g[i] = f[i - 1] /\ g[j] = f[j - 1]
          BY <5>1
        <5> QED
          BY <3>4, <3>5, <5>1, <5>2 DEF Sorted
      <4> QED
        BY <4>1, <4>2
    <3>8. Sorted(g)
      BY <3>7 DEF Sorted
    <3> QED
      BY <3>6, <3>8
  <2> QED
    BY <2>1
<1>4. \A n \in Nat : n \in T
  <2> HIDE DEF T
  <2> QED
    BY <1>2, <1>3, Induction
<1> QED
  BY <1>1, <1>4

\* The findings of a body are its spans, each once, in that order.
LEMMA FindingsAreSorted ==
  ASSUME NEW b \in Bodies
  PROVE  /\ Cardinality(b.spans) \in Nat
         /\ Findings(b) \in [1 .. Cardinality(b.spans) -> b.spans]
         /\ Sorted(Findings(b))
         /\ \A s \in b.spans : \E i \in 1 .. Cardinality(b.spans) : Findings(b)[i] = s
<1> DEFINE n == Cardinality(b.spans)
           f == Findings(b)
<1>1. IsFiniteSet(b.spans) /\ b.spans \subseteq Spans
  BY BodiesOK
<1>2. n \in Nat
  BY <1>1, FS_CardinalityType
<1>3. f \in [1 .. n -> b.spans] /\ Sorted(f)
  BY <1>1, SortedExists DEF Findings, Sorted
<1>4. f \in Injection(1 .. n, b.spans)
  <2>1. ASSUME NEW i \in 1 .. n, NEW j \in 1 .. n, i < j PROVE f[i] # f[j]
    <3>1. Before(f[i], f[j]) /\ f[i] \in Spans
      BY <1>1, <1>3, <2>1 DEF Sorted
    <3> QED
      BY <3>1 DEF Before, Spans
  <2>2. \A i, j \in 1 .. n : i # j => i < j \/ j < i
    OBVIOUS
  <2> QED
    BY <1>3, <2>1, <2>2 DEF Injection, IsInjective
<1>5. f \in Surjection(1 .. n, b.spans)
  <2>1. IsFiniteSet(1 .. n) /\ Cardinality(1 .. n) = n
    BY <1>2, FS_Interval
  <2> QED
    BY <1>1, <1>4, <2>1, FS_Injection
<1> QED
  BY <1>2, <1>3, <1>5 DEF Surjection

\* A secret the engine does not know gets a rung of its ladder that no other
\* secret has.
LEMMA FreeRung ==
  ASSUME NEW s \in Secrets, s \notin DOMAIN forward, session \in Sessions,
         \A t \in DOMAIN forward : t \in Secrets /\ forward[t].name \in Rungs(t)
  PROVE  /\ Free(s) \in Placeholders
         /\ Free(s).session = session
         /\ Free(s).name \in Rungs(s)
         /\ \A t \in DOMAIN forward : forward[t].name # Free(s).name
<1> DEFINE taken == {forward[t].name : t \in DOMAIN forward}
           rungs == {i \in DOMAIN Ladder[s] : Ladder[s][i] \notin taken}
<1>1. Ladder[s] \in Seq(Rungs(s)) /\ Ladder[s] # <<>>
  BY LadderEnds
<1>2. Len(Ladder[s]) \in Nat \ {0} /\ DOMAIN Ladder[s] = 1 .. Len(Ladder[s])
  BY <1>1, EmptySeq, LenProperties
<1>3. Len(Ladder[s]) \in rungs
  BY <1>2, LadderEnds DEF Last
<1>4. Min(rungs) \in rungs
  <2>1. rungs \subseteq Nat /\ rungs # {}
    BY <1>2, <1>3
  <2> HIDE DEF rungs
  <2> QED
    BY <2>1, MinIsLeast
<1>5. Free(s) = [session |-> session, name |-> Ladder[s][Min(rungs)]]
  BY DEF Free
<1>6. Ladder[s][Min(rungs)] \in Rungs(s) /\ Ladder[s][Min(rungs)] \notin taken
  BY <1>4 DEF Rungs
<1>7. Free(s) \in Placeholders
  <2>1. Ladder[s][Min(rungs)] \in UNION {Rungs(t) : t \in Secrets}
    BY <1>6
  <2> QED
    BY <1>5, <2>1 DEF Placeholders
<1>8. \A t \in DOMAIN forward : forward[t].name # Ladder[s][Min(rungs)]
  BY <1>6
<1>9. Free(s).session = session /\ Free(s).name = Ladder[s][Min(rungs)]
  BY <1>5
<1> HIDE DEF rungs
<1> QED
  BY <1>6, <1>7, <1>8, <1>9

\* The cursor of the splice, which a recursive function defines: it exists, and
\* it moves to the end of a finding exactly when that finding starts after it.
LEMMA CursorMoves ==
  ASSUME NEW n \in Nat, NEW f \in [1 .. n -> Spans]
  PROVE  /\ Cursor(f)[0] = 0
         /\ \A i \in 1 .. n :
              Cursor(f)[i] = IF f[i].from > Cursor(f)[i - 1] THEN f[i].to ELSE Cursor(f)[i - 1]
<1> DEFINE Moves(m, e) ==
             e = [i \in 0 .. m |->
                    IF i = 0 THEN 0 ELSE IF f[i].from > e[i - 1] THEN f[i].to ELSE e[i - 1]]
           T == {m \in Nat : m <= n => \E e : Moves(m, e)}
<1>1. Len(f) = n
  BY SeqDef, LenProperties
<1>2. 0 \in T
  <2>1. Moves(0, [i \in 0 .. 0 |-> 0])
    OBVIOUS
  <2> QED
    BY <2>1
<1>3. ASSUME NEW m \in Nat, m \in T PROVE m + 1 \in T
  <2>1. SUFFICES ASSUME m + 1 <= n PROVE \E e : Moves(m + 1, e)
    OBVIOUS
  <2>2. PICK e : Moves(m, e)
    BY <1>3, <2>1
  <2> DEFINE g == [i \in 0 .. m + 1 |->
                     IF i = m + 1 THEN IF f[i].from > e[m] THEN f[i].to ELSE e[m] ELSE e[i]]
  <2>3. \A i \in 0 .. m : g[i] = e[i]
    OBVIOUS
  <2>4. ASSUME NEW i \in 0 .. m + 1
        PROVE  g[i] = IF i = 0 THEN 0 ELSE IF f[i].from > g[i - 1] THEN f[i].to ELSE g[i - 1]
    <3>1. CASE i = m + 1
      BY <2>3, <3>1
    <3>2. CASE i # m + 1
      <4>1. i \in 0 .. m /\ (i # 0 => i - 1 \in 0 .. m)
        BY <3>2
      <4> QED
        BY <2>2, <2>3, <4>1
    <3> QED
      BY <3>1, <3>2
  <2>5. Moves(m + 1, g)
    BY <2>4
  <2> QED
    BY <2>5
<1>4. \E e : Moves(n, e)
  <2>1. \A m \in Nat : m \in T
    <3> HIDE DEF T
    <3> QED
      BY <1>2, <1>3, Induction
  <2> QED
    BY <2>1
<1>5. Moves(n, Cursor(f))
  BY <1>1, <1>4 DEF Cursor
<1> QED
  BY <1>5

-----------------------------------------------------------------------------
(* The control of each request, and what it has checked on the way. *)

\* What the gateway must refuse, as it knows it before it asks the policy.
Readable(r) == ~ body[r].coded /\ ~ body[r].over /\ (body[r].declares => body[r].walks)

\* The facts each point of the data plane and of the forwarder relies on.
Checked(r) ==
  /\ pc[r] = "inspect" => ~ body[r].coded /\ ~ body[r].over /\ body[r].declares
  /\ pc[r] = "route" /\ ~ body[r].coded =>
       Readable(r) /\ (body[r].declares => ~ body[r].blocks)
  /\ pc[r] = "transform" => Readable(r)
  /\ pc[r] \in {"mint", "map", "dial"} \/ r \in sent => Readable(r) /\ ~ body[r].blocks
  /\ r \in sent => pc[r] \in {"await", "copy", "finish", "restore", "answered", "lost"}

Control ==
  /\ pc \in [Requests -> {"idle"} \cup Waiting \cup Working \cup Terminal]
  /\ body \in [Requests -> Bodies]
  /\ reply \in [Requests -> Replies]
  /\ sent \subseteq Requests
  /\ ending \in [Requests -> {"none", "whole", "capped", "broken", "late"}]

ControlInv == Control /\ \A r \in Requests : Checked(r)

LEMMA ControlInit == Init => ControlInv
BY SlotsOK, BodiesOK DEF Init, ControlInv, Control, Checked, Readable, NoReply

\* An answer ends the request.
LEMMA ControlLocal ==
  ASSUME ControlInv, NEW r \in Requests, NEW by, NEW status, Local(r, by, status)
  PROVE  ControlInv'
<1>1. Control'
  BY SlotsOK DEF ControlInv, Control, Local, Answer, Go, Terminal, NoReply
<1>2. ASSUME NEW q \in Requests PROVE Checked(q)'
  BY DEF ControlInv, Control, Local, Answer, Go, Checked, Readable
<1> QED
  BY <1>1, <1>2 DEF ControlInv

\* A step of one request that leaves every other variable alone.
LEMMA ControlGo ==
  ASSUME ControlInv, NEW r \in Requests, NEW l \in Waiting \cup Working,
         Go(r, l), UNCHANGED <<body, sent, reply, ending>>,
         r \in sent => l \in {"await", "copy", "finish", "restore"},
         l = "inspect" => ~ body[r].coded /\ ~ body[r].over /\ body[r].declares,
         l = "route" /\ ~ body[r].coded =>
           Readable(r) /\ (body[r].declares => ~ body[r].blocks),
         l = "transform" => Readable(r),
         l \in {"mint", "map", "dial"} => Readable(r) /\ ~ body[r].blocks
  PROVE  ControlInv'
<1>1. Control'
  BY DEF ControlInv, Control, Go
<1>2. ASSUME NEW q \in Requests PROVE Checked(q)'
  BY DEF ControlInv, Control, Go, Checked, Readable
<1> QED
  BY <1>1, <1>2 DEF ControlInv

LEMMA ControlServe ==
  ASSUME ControlInv, NEW r \in Requests, Serve(r)
  PROVE  ControlInv'
<1> USE DEF Waiting, Working
<1>a. body[r] \in Bodies /\ Checked(r)
  BY DEF ControlInv, Control
<1>1. CASE Unwalkable(r) \/ DetectorFails(r) \/ Blocked(r)
  BY <1>1, ControlLocal DEF Unwalkable, DetectorFails, Blocked
<1>2. CASE Admitted(r)
  BY <1>a, <1>2, ControlGo DEF Admitted, Step, At, Checked, Readable
<1>3. CASE Route(r)
  <2>1. \/ \E by, status : Local(r, by, status)
        \/ Step(r, "transform") /\ At(r, "route") /\ ~ body[r].coded
    BY <1>3 DEF Route
  <2> QED
    BY <1>a, <2>1, ControlLocal, ControlGo DEF Step, At, Checked, Readable
<1>4. CASE Transform(r)
  <2>1. \/ \E by, status : Local(r, by, status)
        \/ /\ At(r, "transform") /\ ~ body[r].blocks
           /\ Go(r, "mint") \/ Go(r, "dial")
           /\ UNCHANGED <<body, sent, reply, ending>>
    BY <1>4 DEF Transform, Step
  <2> QED
    BY <1>a, <2>1, ControlLocal, ControlGo DEF At, Checked
<1>5. CASE Placeholder(r)
  BY <1>a, <1>5, ControlGo DEF Placeholder, At, Checked
<1>6. CASE Map(r)
  BY <1>a, <1>6, ControlGo DEF Map, At, Checked
<1>7. CASE Apply(r)
  BY <1>a, <1>7, ControlGo DEF Apply, At, Checked, vault
<1>8. CASE Send(r)
  <2>1. Control'
    BY <1>8 DEF ControlInv, Control, Send, Go
  <2>2. ASSUME NEW q \in Requests PROVE Checked(q)'
    BY <1>8 DEF ControlInv, Control, Send, Go, At, Checked, Readable
  <2> QED
    BY <2>1, <2>2 DEF ControlInv
<1>9. CASE Deadline(r)
  <2>1. CASE Local(r, "forwarder", 504)
    BY <2>1, ControlLocal
  <2>2. CASE At(r, "copy") /\ Go(r, "finish") /\ ending' = [ending EXCEPT ![r] = "late"]
             /\ UNCHANGED <<body, sent, reply>>
    <3>1. Control'
      BY <2>2 DEF ControlInv, Control, Go
    <3>2. ASSUME NEW q \in Requests PROVE Checked(q)'
      BY <2>2 DEF ControlInv, Control, Go, At, Checked, Readable
    <3> QED
      BY <3>1, <3>2 DEF ControlInv
  <2> QED
    BY <1>9, <2>1, <2>2 DEF Deadline
<1>10. CASE Refuse(r)
  BY <1>10, ControlLocal DEF Refuse
<1>11. CASE Evaluate(r)
  <2>1. \/ \E by, status : Local(r, by, status)
        \/ Step(r, "restore") /\ At(r, "finish")
    BY <1>11 DEF Evaluate
  <2> QED
    BY <1>a, <2>1, ControlLocal, ControlGo DEF Step, At, Checked
<1>12. CASE Restore(r)
  <2>1. Control'
    BY <1>12, SlotsOK DEF ControlInv, Control, Restore, Answer, Go, NoReply, Terminal
  <2>2. ASSUME NEW q \in Requests PROVE Checked(q)'
    BY <1>12 DEF ControlInv, Control, Restore, Answer, Go, Checked, Readable
  <2> QED
    BY <2>1, <2>2 DEF ControlInv
<1> QED
  BY <1>1, <1>2, <1>3, <1>4, <1>5, <1>6, <1>7, <1>8, <1>9, <1>10, <1>11, <1>12 DEF Serve

LEMMA ControlWorld ==
  ASSUME ControlInv, NEW r \in Requests, World(r)
  PROVE  ControlInv'
<1> USE DEF Waiting, Working
<1>a. body[r] \in Bodies /\ Checked(r)
  BY DEF ControlInv, Control
<1>1. ASSUME NEW b \in Bodies, Arrive(r, b) PROVE ControlInv'
  <2>1. Control'
    BY <1>1 DEF ControlInv, Control, Arrive, Go
  <2>2. ASSUME NEW q \in Requests PROVE Checked(q)'
    BY <1>1 DEF ControlInv, Control, Arrive, Go, At, Checked, Readable
  <2> QED
    BY <2>1, <2>2 DEF ControlInv
<1>2. CASE ReadBody(r)
  <2>1. \/ \E by, status : Local(r, by, status)
        \/ body[r].coded /\ Step(r, "route") /\ At(r, "body")
        \/ /\ ~ body[r].coded /\ ~ body[r].over /\ At(r, "body")
           /\ \/ body[r].declares /\ Step(r, "inspect")
              \/ ~ body[r].declares /\ Step(r, "route")
    BY <1>2 DEF ReadBody
  <2> QED
    BY <1>a, <2>1, ControlLocal, ControlGo DEF Step, At, Checked, Readable
<1>3. CASE Unreachable(r)
  BY <1>3, ControlLocal DEF Unreachable
<1>4. ASSUME NEW rep \in Replies, NEW e, Reply(r, rep, e) PROVE ControlInv'
  <2>1. Control'
    BY <1>4 DEF ControlInv, Control, Reply, Go
  <2>2. ASSUME NEW q \in Requests PROVE Checked(q)'
    BY <1>4 DEF ControlInv, Control, Reply, Go, At, Checked, Readable
  <2> QED
    BY <2>1, <2>2 DEF ControlInv
<1>5. ASSUME NEW how \in {"whole", "capped", "broken"}, Copied(r, how) PROVE ControlInv'
  <2>1. Control'
    BY <1>5 DEF ControlInv, Control, Copied, Go
  <2>2. ASSUME NEW q \in Requests PROVE Checked(q)'
    BY <1>5 DEF ControlInv, Control, Copied, Go, At, Checked, Readable
  <2> QED
    BY <2>1, <2>2 DEF ControlInv
<1> QED
  BY <1>1, <1>2, <1>3, <1>4, <1>5 DEF World

\* A restart abandons what is in flight.
LEMMA ControlRestart ==
  ASSUME ControlInv, Restart
  PROVE  ControlInv'
<1>1. Control'
  BY SlotsOK DEF ControlInv, Control, Restart, Abandon, Terminal, NoReply
<1>2. ASSUME NEW q \in Requests PROVE Checked(q)'
  BY DEF ControlInv, Control, Restart, Abandon, Checked, Readable
<1> QED
  BY <1>1, <1>2 DEF ControlInv

LEMMA ControlAlways == Spec => []ControlInv
<1>1. ControlInv /\ [Next]_vars => ControlInv'
  <2> SUFFICES ASSUME ControlInv, [Next]_vars PROVE ControlInv'
    OBVIOUS
  <2>1. CASE UNCHANGED vars
    BY <2>1 DEF vars, vault, ControlInv, Control, Checked, Readable
  <2> QED
    BY <2>1, ControlServe, ControlWorld, ControlRestart DEF Next
<1> QED
  BY <1>1, ControlInit, PTL DEF Spec

\* Nothing the gateway must refuse is ever heard by an upstream (RefusedNeverSent):
\* the data plane reads and inspects before it routes, and redactRequest decides
\* again on the bodies that never declared JSON.
THEOREM RefusedAlways == Spec => []RefusedNeverSent
<1>1. ControlInv => RefusedNeverSent
  BY DEF ControlInv, Control, Checked, Readable, RefusedNeverSent
<1> QED
  BY <1>1, ControlAlways, PTL

-----------------------------------------------------------------------------
(* The two maps, and what was told to upstreams and clients out of them. *)

MapsTo(p, s) == p \in DOMAIN reverse /\ reverse[p] = s

\* The maps agree: no two secrets share a name, and what the reverse map holds
\* the forward map holds.
Maps ==
  /\ session \in Sessions
  /\ forward \in [DOMAIN forward -> Placeholders] /\ DOMAIN forward \subseteq Secrets
  /\ \A s \in DOMAIN forward : forward[s].session = session /\ forward[s].name \in Rungs(s)
  /\ \A s, t \in DOMAIN forward : forward[s].name = forward[t].name => s = t
  /\ reverse \in [DOMAIN reverse -> Secrets] /\ DOMAIN reverse \subseteq Placeholders
  /\ \A p \in DOMAIN reverse : reverse[p] \in DOMAIN forward /\ forward[reverse[p]] = p

\* A request has minted the placeholders of its first findings, and between the
\* two halves of Mint the engine knows the secret of the next.
Minted(r) ==
  /\ Len(minted[r]) <= Cardinality(body[r].spans)
  /\ \A i \in 1 .. Len(minted[r]) :
       MapsTo(minted[r][i], Slice(body[r], Findings(body[r])[i]))
  /\ pc[r] = "idle" => minted[r] = <<>>
  /\ pc[r] = "map" =>
       Len(minted[r]) < Cardinality(body[r].spans) /\ Secret(r) \in DOMAIN forward

\* Every pair of a placeholder and a secret that left the gateway: in an outbound
\* body, or in an answer.
Told ==
  {a \in Placeholders \X Secrets :
     \E r \in Requests :
       \/ \E s \in out[r].subs : a = <<s.placeholder, s.was>>
       \/ \E x \in answer[r].restored : a = <<x.placeholder, x.secret>>}

\* Those of this session are in the reverse map; no placeholder was ever told of
\* two secrets.
ToldOK ==
  \A a \in Told : a[1].session \in 1 .. session /\ (a[1].session = session => MapsTo(a[1], a[2]))
Consistent == \A a, b \in Told : a[1] = b[1] => a[2] = b[2]

Carried ==
  /\ minted \in [Requests -> Seq(Placeholders)]
  /\ out \in [Requests -> [raw : SUBSET Cells, subs : SUBSET Substitutions]]
  /\ answer \in [Requests -> [by : Answerers, status : Nat, session : 0 .. MaxSessions,
                              restored : SUBSET Restorations]]

VaultInv ==
  /\ Maps
  /\ Carried
  /\ \A r \in Requests : Minted(r)
  /\ ToldOK
  /\ Consistent

LEMMA VaultInit == Init => VaultInv
<1> SUFFICES ASSUME Init PROVE VaultInv
  OBVIOUS
<1>1. Maps
  BY SlotsOK DEF Init, Maps, Empty, Sessions
<1>2. Carried
  <2>1. <<>> \in Seq(Placeholders)
    BY EmptySeq
  <2>2. NoAnswer \in [by : Answerers, status : Nat, session : 0 .. MaxSessions,
                     restored : SUBSET Restorations]
    BY SlotsOK DEF NoAnswer, Answerers
  <2> QED
    BY <2>1, <2>2 DEF Init, Carried, Nothing
<1>3. ASSUME NEW r \in Requests PROVE Minted(r)
  <2>1. body[r] \in Bodies
    BY BodiesOK DEF Init
  <2>2. 0 <= Cardinality(body[r].spans)
    BY <2>1, FindingsAreSorted
  <2> QED
    BY <2>2, EmptySeq DEF Init, Minted
<1>4. Told = {}
  BY DEF Init, Told, Nothing, NoAnswer
<1> QED
  BY <1>1, <1>2, <1>3, <1>4 DEF VaultInv, ToldOK, Consistent

\* While the reverse map only grows, what is told out of it is consistent.
LEMMA ToldGrows ==
  ASSUME Maps, ToldOK, Consistent, session' = session,
         \A p \in DOMAIN reverse : p \in DOMAIN reverse' /\ reverse'[p] = reverse[p],
         \A p \in DOMAIN reverse' : p.session = session,
         \A a \in Told' : a \in Told \/ MapsTo(a[1], a[2])'
  PROVE  ToldOK' /\ Consistent'
<1>1. ASSUME NEW a \in Told'
      PROVE  /\ a[1].session \in 1 .. session
             /\ a[1].session = session => MapsTo(a[1], a[2])'
  BY DEF ToldOK, MapsTo, Maps, Sessions
<1>2. ToldOK'
  BY <1>1 DEF ToldOK
<1>3. ASSUME NEW a \in Told', NEW b \in Told', a[1] = b[1] PROVE a[2] = b[2]
  <2>1. CASE a[1].session = session
    BY <1>1, <1>3, <2>1 DEF MapsTo
  <2>2. CASE a[1].session # session
    <3>1. a \in Told /\ b \in Told
      BY <1>3, <2>2 DEF MapsTo
    <3> QED
      BY <1>3, <3>1 DEF Consistent
  <2> QED
    BY <2>1, <2>2
<1> QED
  BY <1>2, <1>3 DEF Consistent

\* A step that leaves the maps alone, drops or keeps what requests minted, and
\* tells nothing new.
LEMMA VaultQuiet ==
  ASSUME VaultInv, UNCHANGED <<body, vault>>, Carried',
         \A q \in Requests :
           /\ minted'[q] = minted[q] \/ minted'[q] = <<>>
           /\ pc'[q] \in {"map", "idle"} => pc'[q] = pc[q] /\ minted'[q] = minted[q]
           /\ out'[q].subs \subseteq out[q].subs
           /\ answer'[q].restored \subseteq answer[q].restored,
         ControlInv
  PROVE  VaultInv'
<1>1. Maps'
  BY DEF VaultInv, Maps, vault
<1>2. ASSUME NEW q \in Requests PROVE Minted(q)'
  <2>1. Minted(q) /\ body[q] \in Bodies
    BY DEF VaultInv, ControlInv, Control
  <2>2. CASE minted'[q] = minted[q]
    BY <2>1, <2>2 DEF Minted, MapsTo, Secret, Finding, vault
  <2>3. CASE minted'[q] # minted[q]
    <3>1. minted'[q] = <<>> /\ pc'[q] # "map" /\ Len(<<>>) = 0
      BY <2>3, EmptySeq
    <3>2. 0 <= Cardinality(body'[q].spans)
      BY <2>1, FindingsAreSorted
    <3> QED
      BY <3>1, <3>2 DEF Minted
  <2> QED
    BY <2>2, <2>3
<1>3. Told' \subseteq Told
  BY DEF Told
<1>4. ToldOK' /\ Consistent'
  <2>1. UNCHANGED <<forward, reverse, session>>
    BY DEF vault
  <2>2. \A p \in DOMAIN reverse : p.session = session
    BY DEF VaultInv, Maps
  <2> QED
    BY <1>3, <2>1, <2>2, ToldGrows DEF VaultInv
<1> QED
  BY <1>1, <1>2, <1>4 DEF VaultInv

\* The answers the gateway gives by itself restore nothing.
LEMMA VaultLocal ==
  ASSUME ControlInv, VaultInv, NEW r \in Requests, NEW by \in Answerers, NEW status \in Nat,
         Local(r, by, status)
  PROVE  VaultInv'
<1>1. Carried'
  <2>1. <<>> \in Seq(Placeholders)
    BY EmptySeq
  <2>2. session \in 0 .. MaxSessions
    BY SlotsOK DEF VaultInv, Maps, Sessions
  <2> QED
    BY <2>1, <2>2 DEF VaultInv, Carried, Local, Answer
<1>2. ASSUME NEW q \in Requests
      PROVE  /\ minted'[q] = minted[q] \/ minted'[q] = <<>>
             /\ pc'[q] \in {"map", "idle"} => pc'[q] = pc[q] /\ minted'[q] = minted[q]
             /\ out'[q].subs \subseteq out[q].subs
             /\ answer'[q].restored \subseteq answer[q].restored
  BY DEF ControlInv, Control, VaultInv, Carried, Local, Answer, Go
<1> QED
  BY <1>1, <1>2, VaultQuiet DEF Local

\* A step of one request that leaves the maps, what it minted, what was sent and
\* what was answered alone.
LEMMA VaultGo ==
  ASSUME ControlInv, VaultInv, NEW r \in Requests, NEW l, l \notin {"map", "idle"},
         Go(r, l), UNCHANGED <<body, minted, out, answer, vault>>
  PROVE  VaultInv'
<1>1. Carried'
  BY DEF VaultInv, Carried
<1>2. ASSUME NEW q \in Requests
      PROVE  pc'[q] \in {"map", "idle"} => pc'[q] = pc[q]
  BY DEF ControlInv, Control, Go
<1> QED
  BY <1>1, <1>2, VaultQuiet

\* The finding that is minted next, and its secret.
LEMMA NextSecret ==
  ASSUME ControlInv, VaultInv, NEW r \in Requests, Len(minted[r]) < Cardinality(body[r].spans)
  PROVE  /\ Len(minted[r]) \in Nat
         /\ Finding(r) \in body[r].spans
         /\ Secret(r) \in Secrets
<1>1. body[r] \in Bodies /\ minted[r] \in Seq(Placeholders)
  BY DEF ControlInv, Control, VaultInv, Carried
<1>2. Len(minted[r]) \in Nat
  BY <1>1, LenProperties
<1>3. Findings(body[r]) \in [1 .. Cardinality(body[r].spans) -> body[r].spans]
      /\ Cardinality(body[r].spans) \in Nat
  BY <1>1, FindingsAreSorted
<1>4. Finding(r) \in body[r].spans
  BY <1>2, <1>3 DEF Finding
<1> QED
  BY <1>1, <1>2, <1>4 DEF Secret, Secrets

LEMMA VaultPlaceholder ==
  ASSUME ControlInv, VaultInv, NEW r \in Requests, Placeholder(r)
  PROVE  VaultInv'
<1> DEFINE s == Secret(r)
<1>1. Len(minted[r]) < Cardinality(body[r].spans) /\ s \in Secrets
  BY NextSecret DEF Placeholder
<1>2. UNCHANGED <<body, minted, out, answer, reverse, session>>
  BY DEF Placeholder
<1>3. /\ s \in DOMAIN forward'
      /\ \A t \in DOMAIN forward : t \in DOMAIN forward' /\ forward'[t] = forward[t]
      /\ Maps'
  <2>1. CASE s \in DOMAIN forward
    BY <1>2, <2>1 DEF Placeholder, VaultInv, Maps
  <2>2. CASE s \notin DOMAIN forward
    <3>1. /\ Free(s) \in Placeholders /\ Free(s).session = session /\ Free(s).name \in Rungs(s)
          /\ \A t \in DOMAIN forward : forward[t].name # Free(s).name
      BY <1>1, <2>2, FreeRung DEF VaultInv, Maps
    <3>2. forward' = Put(forward, s, Free(s))
      BY <2>2 DEF Placeholder
    <3>3. /\ DOMAIN forward' = DOMAIN forward \cup {s}
          /\ forward'[s] = Free(s)
          /\ \A t \in DOMAIN forward : forward'[t] = forward[t]
          /\ forward' \in [DOMAIN forward' -> Placeholders]
      <4> HIDE DEF s
      <4> QED
        BY <2>2, <3>1, <3>2 DEF VaultInv, Maps, Put
    <3> HIDE DEF s
    <3>4. Maps'
      BY <1>1, <1>2, <3>1, <3>3 DEF VaultInv, Maps
    <3> QED
      BY <3>3, <3>4
  <2> QED
    BY <2>1, <2>2
<1>4. ASSUME NEW q \in Requests PROVE Minted(q)'
  <2>1. Minted(q)
    BY DEF VaultInv
  <2>2. CASE q = r
    <3>1. Secret(r)' = s
      BY <1>2 DEF Secret, Finding
    <3>2. pc'[r] = "map"
      BY DEF Placeholder, Go, ControlInv, Control
    <3> QED
      BY <1>1, <1>2, <1>3, <2>1, <2>2, <3>1, <3>2 DEF Minted, MapsTo
  <2>3. CASE q # r
    <3>1. pc'[q] = pc[q]
      BY <2>3 DEF Placeholder, Go, ControlInv, Control
    <3>2. Secret(q)' = Secret(q)
      BY <1>2 DEF Secret, Finding
    <3> QED
      BY <1>2, <1>3, <2>1, <3>1, <3>2 DEF Minted, MapsTo
  <2> QED
    BY <2>2, <2>3
<1>5. ToldOK' /\ Consistent'
  <2>1. Told' = Told
    BY <1>2 DEF Told
  <2>2. \A p \in DOMAIN reverse : p.session = session
    BY DEF VaultInv, Maps
  <2> QED
    BY <1>2, <2>1, <2>2, ToldGrows DEF VaultInv
<1>6. Carried'
  BY <1>2 DEF VaultInv, Carried
<1> QED
  BY <1>3, <1>4, <1>5, <1>6 DEF VaultInv

LEMMA VaultMap ==
  ASSUME ControlInv, VaultInv, NEW r \in Requests, Map(r)
  PROVE  VaultInv'
<1> DEFINE s == Secret(r)
           p == forward[s]
<1>1. UNCHANGED <<body, out, answer, forward, session>>
  BY DEF Map
<1>2. /\ Len(minted[r]) < Cardinality(body[r].spans) /\ s \in DOMAIN forward
      /\ p \in Placeholders /\ p.session = session /\ s \in Secrets
  BY DEF Map, At, VaultInv, Minted, Maps
<1>3. /\ DOMAIN reverse' = DOMAIN reverse \cup {p}
      /\ reverse'[p] = s
      /\ \A x \in DOMAIN reverse : reverse'[x] = reverse[x]
  <2>1. p \in DOMAIN reverse => reverse[p] = s
    BY <1>2 DEF VaultInv, Maps
  <2>2. reverse' = Put(reverse, p, s)
    BY DEF Map
  <2> HIDE DEF s, p
  <2> QED
    BY <2>1, <2>2 DEF Put
<1>4. Maps'
  <2>1. reverse' \in [DOMAIN reverse' -> Secrets]
    <3>1. reverse' = [x \in DOMAIN reverse' |-> reverse'[x]]
      BY DEF Map, Put
    <3> HIDE DEF s, p
    <3> QED
      BY <1>2, <1>3, <3>1 DEF VaultInv, Maps
  <2> QED
    BY <1>1, <1>2, <1>3, <2>1 DEF VaultInv, Maps
<1>5. /\ minted' = [minted EXCEPT ![r] = Append(@, p)]
      /\ minted[r] \in Seq(Placeholders) /\ DOMAIN minted = Requests
  BY DEF Map, VaultInv, Carried
<1>6. /\ minted'[r] \in Seq(Placeholders)
      /\ Len(minted'[r]) = Len(minted[r]) + 1
      /\ minted'[r][Len(minted[r]) + 1] = p
      /\ \A i \in 1 .. Len(minted[r]) : minted'[r][i] = minted[r][i]
      /\ Len(minted[r]) \in Nat
  <2> HIDE DEF p
  <2>1. minted'[r] = Append(minted[r], p)
    BY <1>5
  <2> QED
    BY <1>2, <1>5, <2>1, AppendProperties, LenProperties
<1>7. Carried'
  BY <1>1, <1>5, <1>6 DEF VaultInv, Carried
<1>8. ASSUME NEW q \in Requests PROVE Minted(q)'
  <2>1. Minted(q) /\ body[q] \in Bodies
    BY DEF VaultInv, ControlInv, Control
  <2>2. CASE q = r
    <3>1. pc'[r] = "mint"
      BY DEF Map, Go, ControlInv, Control
    <3>2. Cardinality(body[r].spans) \in Nat
      BY <2>1, <2>2, FindingsAreSorted
    <3>3. s = Slice(body[r], Findings(body[r])[Len(minted[r]) + 1])
      BY DEF Secret, Finding
    <3>4. ASSUME NEW i \in 1 .. Len(minted'[r])
          PROVE  MapsTo(minted[r][i], Slice(body[r], Findings(body[r])[i]))'
      <4>1. CASE i = Len(minted[r]) + 1
        BY <1>1, <1>3, <1>6, <3>3, <4>1 DEF MapsTo
      <4>2. CASE i # Len(minted[r]) + 1
        <5>1. i \in 1 .. Len(minted[r])
          BY <1>6, <4>2
        <5> HIDE DEF s, p
        <5> QED
          BY <1>1, <1>3, <1>6, <2>1, <2>2, <5>1 DEF Minted, MapsTo
      <4> QED
        BY <4>1, <4>2
    <3> QED
      BY <1>1, <1>2, <1>6, <2>2, <3>1, <3>2, <3>4 DEF Minted
  <2>3. CASE q # r
    <3>1. pc'[q] = pc[q] /\ minted'[q] = minted[q]
      BY <1>5, <2>3 DEF Map, Go, ControlInv, Control
    <3>2. Secret(q)' = Secret(q)
      BY <1>1, <3>1 DEF Secret, Finding
    <3> HIDE DEF s, p
    <3> QED
      BY <1>1, <1>3, <2>1, <3>1, <3>2 DEF Minted, MapsTo
  <2> QED
    BY <2>2, <2>3
<1>9. ToldOK' /\ Consistent'
  <2>1. Told' = Told
    BY <1>1 DEF Told
  <2>2. \A x \in DOMAIN reverse' : x.session = session
    BY <1>2, <1>3 DEF VaultInv, Maps
  <2> HIDE DEF s, p
  <2> QED
    BY <1>1, <1>3, <2>1, <2>2, ToldGrows DEF VaultInv
<1> QED
  BY <1>4, <1>7, <1>8, <1>9 DEF VaultInv

\* What the splice of a body writes: every replaced finding is one of the body's,
\* with the placeholder minted for it.
LEMMA SpliceSubs ==
  ASSUME ControlInv, VaultInv, NEW r \in Requests,
         Len(minted[r]) = Cardinality(body[r].spans)
  PROVE  /\ Splice(body[r], minted[r]).raw \subseteq DOMAIN body[r].text
         /\ \A x \in Splice(body[r], minted[r]).subs :
              /\ x \in Substitutions
              /\ x.span \in body[r].spans
              /\ MapsTo(x.placeholder, x.was)
<1> DEFINE b == body[r]
           f == Findings(b)
           n == Cardinality(b.spans)
<1>1. b \in Bodies /\ minted[r] \in Seq(Placeholders)
  BY DEF ControlInv, Control, VaultInv, Carried
<1>2. f \in [1 .. n -> b.spans] /\ n \in Nat
  BY <1>1, FindingsAreSorted
<1>3. Kept(f) \subseteq 1 .. n
  BY <1>2 DEF Kept
<1>4. ASSUME NEW k \in Kept(f)
      PROVE  /\ f[k] \in Spans /\ f[k] \in b.spans
             /\ Slice(b, f[k]) \in Secrets
             /\ minted[r][k] \in Placeholders
             /\ MapsTo(minted[r][k], Slice(b, f[k]))
  <2>1. k \in 1 .. n /\ f[k] \in b.spans
    BY <1>2, <1>3
  <2>2. f[k] \in Spans
    BY <1>1, <2>1, BodiesOK
  <2>3. Slice(b, f[k]) \in Secrets
    BY <1>1, <2>1 DEF Secrets
  <2>4. MapsTo(minted[r][k], Slice(b, f[k]))
    BY <2>1 DEF VaultInv, Minted
  <2>5. minted[r][k] \in Placeholders
    BY <1>1, <2>1, ElementOfSeq
  <2> QED
    BY <2>1, <2>2, <2>3, <2>4, <2>5
<1> QED
  BY <1>4 DEF Splice, Substitutions

LEMMA VaultApply ==
  ASSUME ControlInv, VaultInv, NEW r \in Requests, Apply(r)
  PROVE  VaultInv'
<1>1. UNCHANGED <<body, minted, answer, forward, reverse, session>>
  BY DEF Apply, vault
<1>2. /\ out'[r] = Splice(body[r], minted[r])
      /\ \A q \in Requests : q # r => out'[q] = out[q]
  BY DEF Apply, VaultInv, Carried
<1>3. /\ out'[r].raw \subseteq DOMAIN body[r].text
      /\ \A x \in out'[r].subs : x \in Substitutions /\ MapsTo(x.placeholder, x.was)
  BY <1>2, SpliceSubs DEF Apply
<1>4. Carried'
  <2>1. DOMAIN body[r].text \subseteq Cells
    BY DEF ControlInv, Control, Cells
  <2>2. out'[r] \in [raw : SUBSET Cells, subs : SUBSET Substitutions]
    <3>1. out'[r] = [raw |-> out'[r].raw, subs |-> out'[r].subs]
      BY <1>2 DEF Splice
    <3> QED
      BY <1>3, <2>1, <3>1
  <2>3. out' = [out EXCEPT ![r] = out'[r]]
    BY DEF Apply, VaultInv, Carried
  <2> QED
    BY <1>1, <2>2, <2>3 DEF VaultInv, Carried
<1>5. Maps'
  BY <1>1 DEF VaultInv, Maps
<1>6. ASSUME NEW q \in Requests PROVE Minted(q)'
  <2>1. pc'[q] \in {"map", "idle"} => pc'[q] = pc[q]
    BY DEF Apply, Go, ControlInv, Control
  <2>2. Secret(q)' = Secret(q)
    BY <1>1 DEF Secret, Finding
  <2> QED
    BY <1>1, <2>1, <2>2 DEF VaultInv, Minted, MapsTo
<1>7. ToldOK' /\ Consistent'
  <2>1. ASSUME NEW a \in Told' PROVE a \in Told \/ MapsTo(a[1], a[2])'
    BY <1>1, <1>2, <1>3 DEF Told, MapsTo
  <2>2. \A p \in DOMAIN reverse' : p.session = session
    BY <1>1 DEF VaultInv, Maps
  <2> QED
    BY <1>1, <2>1, <2>2, ToldGrows DEF VaultInv
<1> QED
  BY <1>4, <1>5, <1>6, <1>7 DEF VaultInv

\* What a response restores: placeholders of the reverse map, with their secrets.
LEMMA VaultRestore ==
  ASSUME ControlInv, VaultInv, NEW r \in Requests, Restore(r)
  PROVE  VaultInv'
<1> DEFINE known == {p \in echo[r] \cap DOMAIN reverse : reverse[p] \notin Allowlist}
           restored == {[placeholder |-> p, secret |-> reverse[p]] : p \in known}
<1>1. UNCHANGED <<body, out, forward, reverse, session>>
  BY DEF Restore, vault
<1>2. Answer(r, "upstream", 200, restored)
  BY DEF Restore
<1>3. \A x \in restored : x \in Restorations /\ MapsTo(x.placeholder, x.secret)
  BY DEF VaultInv, Maps, Restorations, MapsTo
<1> HIDE DEF restored
<1>4. /\ answer'[r].restored = restored
      /\ \A q \in Requests : q # r => answer'[q] = answer[q]
      /\ minted'[r] = <<>>
      /\ \A q \in Requests : q # r => minted'[q] = minted[q]
      /\ \A q \in Requests : pc'[q] \in {"map", "idle"} => pc'[q] = pc[q] /\ q # r
  BY <1>2 DEF Answer, Go, ControlInv, Control, VaultInv, Carried
<1>5. Carried'
  <2>1. <<>> \in Seq(Placeholders)
    BY EmptySeq
  <2>2. session \in 0 .. MaxSessions
    BY SlotsOK DEF VaultInv, Maps, Sessions
  <2> QED
    BY <1>1, <1>2, <1>3, <2>1, <2>2 DEF VaultInv, Carried, Answer, Answerers
<1>6. Maps'
  BY <1>1 DEF VaultInv, Maps
<1>7. ASSUME NEW q \in Requests PROVE Minted(q)'
  <2>1. CASE q = r
    <3>1. 0 <= Cardinality(body'[r].spans)
      <4>1. body[r] \in Bodies
        BY DEF ControlInv, Control
      <4> QED
        BY <1>1, <4>1, FindingsAreSorted
    <3> QED
      BY <1>4, <2>1, <3>1, EmptySeq DEF Minted
  <2>2. CASE q # r
    <3>1. Secret(q)' = Secret(q)
      BY <1>1, <1>4, <2>2 DEF Secret, Finding
    <3> QED
      BY <1>1, <1>4, <2>2, <3>1 DEF VaultInv, Minted, MapsTo
  <2> QED
    BY <2>1, <2>2
<1>8. ToldOK' /\ Consistent'
  <2>1. ASSUME NEW a \in Told' PROVE a \in Told \/ MapsTo(a[1], a[2])'
    BY <1>1, <1>3, <1>4 DEF Told, MapsTo
  <2>2. \A p \in DOMAIN reverse' : p.session = session
    BY <1>1 DEF VaultInv, Maps
  <2> QED
    BY <1>1, <2>1, <2>2, ToldGrows DEF VaultInv
<1> QED
  BY <1>5, <1>6, <1>7, <1>8 DEF VaultInv

\* A new session: empty maps, and no placeholder of it told yet.
LEMMA VaultRestart ==
  ASSUME ControlInv, VaultInv, Restart
  PROVE  VaultInv'
<1>1. session + 1 \in Sessions /\ session' = session + 1 /\ session \in Nat
  BY SlotsOK DEF Restart, VaultInv, Maps, Sessions
<1>2. UNCHANGED <<body, answer>> /\ forward' = Empty /\ reverse' = Empty
  BY DEF Restart
<1>3. Maps'
  BY <1>1, <1>2 DEF Maps, Empty
<1>4. Carried'
  <2>1. <<>> \in Seq(Placeholders)
    BY EmptySeq
  <2>2. Nothing \in [raw : SUBSET Cells, subs : SUBSET Substitutions]
    BY DEF Nothing
  <2> QED
    BY <1>2, <2>1, <2>2 DEF VaultInv, Carried, Restart, Abandon
<1>5. ASSUME NEW q \in Requests PROVE Minted(q)'
  <2>1. minted'[q] = <<>> /\ pc'[q] # "map" /\ body[q] \in Bodies
    BY DEF Restart, Abandon, ControlInv, Control
  <2>2. 0 <= Cardinality(body'[q].spans)
    BY <1>2, <2>1, FindingsAreSorted
  <2> QED
    BY <2>1, <2>2, EmptySeq DEF Minted
<1>6. Told' \subseteq Told
  <2>1. \A q \in Requests : out'[q].subs \subseteq out[q].subs
    BY DEF Restart, Abandon, Nothing
  <2> QED
    BY <1>2, <2>1 DEF Told
<1>7. ASSUME NEW a \in Told'
      PROVE  a[1].session \in 1 .. session' /\ a[1].session # session'
  BY <1>1, <1>6 DEF VaultInv, ToldOK
<1>8. ToldOK' /\ Consistent'
  BY <1>6, <1>7 DEF ToldOK, VaultInv, Consistent
<1> QED
  BY <1>3, <1>4, <1>5, <1>8 DEF VaultInv

LEMMA VaultServe ==
  ASSUME ControlInv, VaultInv, NEW r \in Requests, Serve(r)
  PROVE  VaultInv'
<1> USE DEF Answerers
<1>1. CASE Unwalkable(r) \/ DetectorFails(r) \/ Blocked(r)
  BY <1>1, VaultLocal DEF Unwalkable, DetectorFails, Blocked
<1>2. CASE Admitted(r)
  BY <1>2, VaultGo DEF Admitted, Step
<1>3. CASE Route(r)
  <2>1. \/ Local(r, "route", 404) \/ Local(r, "route", 200) \/ Local(r, "forwarder", 415)
        \/ Step(r, "transform")
    BY <1>3 DEF Route
  <2> QED
    BY <2>1, VaultLocal, VaultGo DEF Step
<1>4. CASE Transform(r)
  <2>1. CASE Local(r, "forwarder", 500)
    BY <2>1, VaultLocal
  <2>2. CASE Step(r, "mint")
    BY <2>2, VaultGo DEF Step
  <2>3. CASE /\ out' = [out EXCEPT ![r] = Unchanged(body[r])] /\ Go(r, "dial")
             /\ UNCHANGED <<body, minted, answer, vault>>
    <3>1. Unchanged(body[r]) \in [raw : SUBSET Cells, subs : SUBSET Substitutions]
      BY DEF ControlInv, Control, Unchanged, Cells
    <3>2. Carried'
      BY <2>3, <3>1 DEF VaultInv, Carried
    <3>3. ASSUME NEW q \in Requests
          PROVE  /\ pc'[q] \in {"map", "idle"} => pc'[q] = pc[q]
                 /\ out'[q].subs \subseteq out[q].subs
      BY <2>3 DEF ControlInv, Control, Go, VaultInv, Carried, Unchanged
    <3> QED
      BY <2>3, <3>2, <3>3, VaultQuiet
  <2> QED
    BY <1>4, <2>1, <2>2, <2>3 DEF Transform
<1>5. CASE Placeholder(r)
  BY <1>5, VaultPlaceholder
<1>6. CASE Map(r)
  BY <1>6, VaultMap
<1>7. CASE Apply(r)
  BY <1>7, VaultApply
<1>8. CASE Send(r)
  BY <1>8, VaultGo DEF Send
<1>9. CASE Deadline(r)
  <2>1. \/ Local(r, "forwarder", 504)
        \/ Go(r, "finish") /\ UNCHANGED <<body, minted, out, answer, vault>>
    BY <1>9 DEF Deadline
  <2> QED
    BY <2>1, VaultLocal, VaultGo
<1>10. CASE Refuse(r)
  BY <1>10, VaultLocal DEF Refuse
<1>11. CASE Evaluate(r)
  <2>1. Local(r, "rule", 502) \/ Step(r, "restore")
    BY <1>11 DEF Evaluate
  <2> QED
    BY <2>1, VaultLocal, VaultGo DEF Step
<1>12. CASE Restore(r)
  BY <1>12, VaultRestore
<1> QED
  BY <1>1, <1>2, <1>3, <1>4, <1>5, <1>6, <1>7, <1>8, <1>9, <1>10, <1>11, <1>12 DEF Serve

LEMMA VaultWorld ==
  ASSUME ControlInv, VaultInv, NEW r \in Requests, World(r)
  PROVE  VaultInv'
<1> USE DEF Answerers
<1>1. ASSUME NEW b \in Bodies, Arrive(r, b) PROVE VaultInv'
  <2>1. UNCHANGED <<minted, out, answer, forward, reverse, session>>
    BY <1>1 DEF Arrive, vault
  <2>2. Maps' /\ Carried' /\ Told' = Told
    BY <2>1 DEF VaultInv, Maps, Carried, Told
  <2>3. ToldOK' /\ Consistent'
    BY <2>1, <2>2 DEF VaultInv, ToldOK, Consistent, MapsTo
  <2>4. ASSUME NEW q \in Requests PROVE Minted(q)'
    <3>1. CASE q = r
      <4>1. minted[r] = <<>> /\ pc'[r] = "body" /\ body'[r] = b
        BY <1>1 DEF Arrive, At, Go, VaultInv, Minted, ControlInv, Control
      <4>2. 0 <= Cardinality(b.spans)
        BY FindingsAreSorted
      <4> QED
        BY <2>1, <3>1, <4>1, <4>2, EmptySeq DEF Minted
    <3>2. CASE q # r
      <4>1. pc'[q] = pc[q] /\ body'[q] = body[q]
        BY <1>1, <3>2 DEF Arrive, Go, ControlInv, Control
      <4>2. Secret(q)' = Secret(q)
        BY <2>1, <4>1 DEF Secret, Finding
      <4> QED
        BY <2>1, <4>1, <4>2 DEF VaultInv, Minted, MapsTo
    <3> QED
      BY <3>1, <3>2
  <2> QED
    BY <2>2, <2>3, <2>4 DEF VaultInv
<1>2. CASE ReadBody(r)
  <2>1. \/ Local(r, "plane", 403) \/ Local(r, "plane", 400)
        \/ Step(r, "route") \/ Step(r, "inspect")
    BY <1>2 DEF ReadBody
  <2> QED
    BY <2>1, VaultLocal, VaultGo DEF Step
<1>3. CASE Unreachable(r)
  BY <1>3, VaultLocal DEF Unreachable
<1>4. ASSUME NEW rep \in Replies, NEW e, Reply(r, rep, e) PROVE VaultInv'
  BY <1>4, VaultGo DEF Reply
<1>5. ASSUME NEW how, Copied(r, how) PROVE VaultInv'
  BY <1>5, VaultGo DEF Copied
<1> QED
  BY <1>1, <1>2, <1>3, <1>4, <1>5 DEF World

LEMMA VaultAlways == Spec => [](ControlInv /\ VaultInv)
<1>1. ControlInv /\ VaultInv /\ [Next]_vars => VaultInv'
  <2> SUFFICES ASSUME ControlInv, VaultInv, [Next]_vars PROVE VaultInv'
    OBVIOUS
  <2>1. CASE UNCHANGED vars
    <3>1. Carried'
      BY <2>1 DEF vars, VaultInv, Carried
    <3> QED
      BY <2>1, <3>1, VaultQuiet DEF vars
  <2> QED
    BY <2>1, VaultServe, VaultWorld, VaultRestart DEF Next
<1> QED
  BY <1>1, VaultInit, ControlAlways, PTL DEF Spec

\* A placeholder an upstream heard in this session is in the reverse map, for the
\* secret it replaced (SentIsMapped), though another request may stand between
\* the two halves of Mint.
THEOREM SentAlwaysMapped == Spec => []SentIsMapped
<1>1. ControlInv /\ VaultInv => SentIsMapped
  <2> SUFFICES ASSUME ControlInv, VaultInv, NEW r \in sent, NEW s \in out[r].subs
               PROVE  s.placeholder.session = session => MapsTo(s.placeholder, s.was)
    BY DEF SentIsMapped, MapsTo
  <2>1. r \in Requests /\ s \in Substitutions
    BY DEF ControlInv, Control, VaultInv, Carried
  <2>2. <<s.placeholder, s.was>> \in Told
    BY <2>1 DEF Told, Substitutions
  <2> QED
    BY <2>2 DEF VaultInv, ToldOK
<1> QED
  BY <1>1, VaultAlways, PTL

\* No response ever gives a secret other than the one its placeholder replaced,
\* in whatever exchange and whatever session (NeverWrongSecret).
THEOREM WrongSecretNever == Spec => []NeverWrongSecret
<1>1. ControlInv /\ VaultInv => NeverWrongSecret
  <2> SUFFICES ASSUME ControlInv, VaultInv, NEW r \in Requests, NEW q \in Requests,
                      NEW x \in answer[r].restored, NEW s \in out[q].subs,
                      s.placeholder = x.placeholder
               PROVE  s.was = x.secret
    BY DEF NeverWrongSecret
  <2>1. s \in Substitutions /\ x \in Restorations
    BY DEF VaultInv, Carried
  <2>2. <<s.placeholder, s.was>> \in Told /\ <<x.placeholder, x.secret>> \in Told
    BY <2>1 DEF Told, Substitutions, Restorations
  <2> QED
    BY <2>2 DEF VaultInv, Consistent
<1> QED
  BY <1>1, VaultAlways, PTL

-----------------------------------------------------------------------------
(* What a response restores. *)

\* Every placeholder in a reply was heard by an upstream.
Echoed(r) == \A p \in echo[r] : \E q \in sent : \E s \in out[q].subs : s.placeholder = p

\* What a response of this session should give back.
Due(r) ==
  {p \in echo[r] :
     /\ p.session = answer[r].session
     /\ \E q \in sent : \E s \in out[q].subs : s.placeholder = p /\ s.was \notin Allowlist}

Returned(r) ==
  answer[r].by = "upstream" =>
    pc[r] = "answered" /\ {x.placeholder : x \in answer[r].restored} = Due(r)

EchoInv ==
  /\ echo \in [Requests -> SUBSET Placeholders]
  /\ \A r \in Requests : Echoed(r) /\ Returned(r)

\* What a response was due does not change as more bodies are sent.
LEMMA DueStable ==
  ASSUME ControlInv', VaultInv', sent \subseteq sent', \A q \in sent : out'[q] = out[q],
         NEW r \in Requests, echo'[r] = echo[r], answer'[r] = answer[r], Echoed(r)
  PROVE  Echoed(r)' /\ Due(r)' = Due(r)
<1>1. Echoed(r)'
  BY DEF Echoed
<1>2. Due(r) \subseteq Due(r)'
  BY DEF Due
<1>3. ASSUME NEW p \in Due(r)' PROVE p \in Due(r)
  <2>1. PICK q \in sent' : \E s \in out'[q].subs : s.placeholder = p /\ s.was \notin Allowlist
    BY DEF Due
  <2>2. PICK s \in out'[q].subs : s.placeholder = p /\ s.was \notin Allowlist
    BY <2>1
  <2>3. p \in echo[r] /\ p.session = answer[r].session
    BY DEF Due
  <2>4. PICK t \in sent : \E u \in out[t].subs : u.placeholder = p
    BY <2>3 DEF Echoed
  <2>5. PICK u \in out[t].subs : u.placeholder = p
    BY <2>4
  <2>6. t \in sent' /\ u \in out'[t].subs
    OBVIOUS
  <2>7. u.was = s.was
    <3>1. q \in Requests /\ t \in Requests /\ s \in Substitutions /\ u \in Substitutions
      BY <2>6 DEF ControlInv, Control, VaultInv, Carried
    <3>2. <<s.placeholder, s.was>> \in Told' /\ <<u.placeholder, u.was>> \in Told'
      BY <2>6, <3>1 DEF Told, Substitutions
    <3> QED
      BY <2>2, <2>5, <3>2 DEF VaultInv, Consistent
  <2> QED
    BY <2>2, <2>3, <2>5, <2>7 DEF Due
<1> QED
  BY <1>1, <1>2, <1>3

\* A step that neither replies nor restores.
LEMMA EchoFrame ==
  ASSUME ControlInv', VaultInv', EchoInv, sent \subseteq sent', \A q \in sent : out'[q] = out[q],
         echo' = echo,
         \A q \in Requests :
           \/ answer'[q].by # "upstream"
           \/ answer'[q] = answer[q] /\ (pc[q] = "answered" => pc'[q] = "answered")
  PROVE  EchoInv'
<1>1. ASSUME NEW r \in Requests PROVE Echoed(r)' /\ Returned(r)'
  <2>1. Echoed(r)'
    BY DEF EchoInv, Echoed
  <2>2. CASE answer'[r].by # "upstream"
    BY <2>1, <2>2 DEF Returned
  <2>3. CASE answer'[r] = answer[r] /\ (pc[r] = "answered" => pc'[r] = "answered")
    <3>1. Due(r)' = Due(r)
      BY <2>3, DueStable DEF EchoInv
    <3> QED
      BY <2>1, <2>3, <3>1 DEF EchoInv, Returned
  <2> QED
    BY <2>2, <2>3
<1> QED
  BY <1>1 DEF EchoInv

LEMMA EchoLocal ==
  ASSUME ControlInv, VaultInv, ControlInv', VaultInv', EchoInv, NEW r \in Requests,
         NEW by, by # "upstream", NEW status, Local(r, by, status)
  PROVE  EchoInv'
<1>1. UNCHANGED <<out, sent, echo>>
  BY DEF Local
<1>2. \A q \in Requests :
        \/ answer'[q].by # "upstream"
        \/ answer'[q] = answer[q] /\ (pc[q] = "answered" => pc'[q] = "answered")
  BY DEF Local, Answer, Go, ControlInv, Control, VaultInv, Carried
<1> QED
  BY <1>1, <1>2, EchoFrame

LEMMA EchoGo ==
  ASSUME ControlInv, ControlInv', VaultInv', EchoInv, NEW r \in Requests, NEW l, Go(r, l),
         pc[r] # "answered", sent \subseteq sent', UNCHANGED <<echo, answer>>,
         \A q \in sent : out'[q] = out[q]
  PROVE  EchoInv'
<1>1. \A q \in Requests : pc[q] = "answered" => pc'[q] = "answered"
  BY DEF Go, ControlInv, Control
<1> QED
  BY <1>1, EchoFrame

LEMMA EchoServe ==
  ASSUME ControlInv, VaultInv, ControlInv', VaultInv', EchoInv, NEW r \in Requests, Serve(r)
  PROVE  EchoInv'
<1>1. CASE Unwalkable(r) \/ DetectorFails(r) \/ Blocked(r)
  BY <1>1, EchoLocal DEF Unwalkable, DetectorFails, Blocked
<1>2. CASE Admitted(r)
  BY <1>2, EchoGo DEF Admitted, Step, At
<1>3. CASE Route(r)
  <2>1. \/ Local(r, "route", 404) \/ Local(r, "route", 200) \/ Local(r, "forwarder", 415)
        \/ At(r, "route") /\ Step(r, "transform")
    BY <1>3 DEF Route
  <2> QED
    BY <2>1, EchoLocal, EchoGo DEF Step, At
<1>4. CASE Transform(r)
  <2>1. CASE Local(r, "forwarder", 500)
    BY <2>1, EchoLocal
  <2>2. CASE At(r, "transform") /\ Step(r, "mint")
    BY <2>2, EchoGo DEF Step, At
  <2>3. CASE /\ At(r, "transform") /\ out' = [out EXCEPT ![r] = Unchanged(body[r])]
             /\ Go(r, "dial") /\ UNCHANGED <<sent, echo, answer>>
    <3>1. r \notin sent
      BY <2>3 DEF ControlInv, Checked, At
    <3>2. \A q \in sent : out'[q] = out[q]
      BY <2>3, <3>1 DEF ControlInv, Control, VaultInv, Carried
    <3> QED
      BY <2>3, <3>2, EchoGo DEF At
  <2> QED
    BY <1>4, <2>1, <2>2, <2>3 DEF Transform
<1>5. CASE Placeholder(r)
  BY <1>5, EchoGo DEF Placeholder, At
<1>6. CASE Map(r)
  BY <1>6, EchoGo DEF Map, At
<1>7. CASE Apply(r)
  <2>1. r \notin sent
    BY <1>7 DEF Apply, At, ControlInv, Checked
  <2>2. \A q \in sent : out'[q] = out[q]
    BY <1>7, <2>1 DEF Apply, ControlInv, Control, VaultInv, Carried
  <2> QED
    BY <1>7, <2>2, EchoGo DEF Apply, At
<1>8. CASE Send(r)
  BY <1>8, EchoGo DEF Send, At
<1>9. CASE Deadline(r)
  <2>1. \/ Local(r, "forwarder", 504)
        \/ At(r, "copy") /\ Go(r, "finish") /\ UNCHANGED <<out, sent, echo, answer>>
    BY <1>9 DEF Deadline
  <2> QED
    BY <2>1, EchoLocal, EchoGo DEF At
<1>10. CASE Refuse(r)
  BY <1>10, EchoLocal DEF Refuse
<1>11. CASE Evaluate(r)
  <2>1. At(r, "finish") /\ (Local(r, "rule", 502) \/ Step(r, "restore"))
    BY <1>11 DEF Evaluate
  <2> QED
    BY <2>1, EchoLocal, EchoGo DEF Step, At
<1>12. CASE Restore(r)
  <2> DEFINE known == {p \in echo[r] \cap DOMAIN reverse : reverse[p] \notin Allowlist}
             restored == {[placeholder |-> p, secret |-> reverse[p]] : p \in known}
  <2>1. UNCHANGED <<out, sent, echo, session, reverse>>
    BY <1>12 DEF Restore, vault
  <2>2. /\ answer'[r].restored = restored /\ answer'[r].session = session
        /\ pc'[r] = "answered"
        /\ \A q \in Requests : q # r => answer'[q] = answer[q] /\ pc'[q] = pc[q]
    BY <1>12 DEF Restore, Answer, Go, ControlInv, Control, VaultInv, Carried
  <2>3. {x.placeholder : x \in restored} = known
    <3>1. \A x \in restored : x.placeholder \in known
      OBVIOUS
    <3>2. ASSUME NEW p \in known PROVE \E x \in restored : x.placeholder = p
      <4>1. [placeholder |-> p, secret |-> reverse[p]] \in restored
        OBVIOUS
      <4> QED
        BY <4>1
    <3> HIDE DEF restored, known
    <3> QED
      BY <3>1, <3>2
  <2>4. known \subseteq Due(r)'
    <3>1. ASSUME NEW p \in known PROVE p \in Due(r)'
      <4>1. p \in echo[r] /\ p \in DOMAIN reverse /\ p.session = session
        BY DEF VaultInv, Maps
      <4>2. PICK q \in sent : \E s \in out[q].subs : s.placeholder = p
        BY <4>1 DEF EchoInv, Echoed
      <4>3. PICK s \in out[q].subs : s.placeholder = p
        BY <4>2
      <4>4. s.was = reverse[p]
        <5>1. q \in Requests /\ s \in Substitutions
          BY DEF ControlInv, Control, VaultInv, Carried
        <5>2. <<s.placeholder, s.was>> \in Told
          BY <5>1 DEF Told, Substitutions
        <5> QED
          BY <4>1, <4>3, <5>2 DEF VaultInv, ToldOK, MapsTo
      <4> QED
        BY <2>1, <2>2, <4>1, <4>3, <4>4 DEF Due
    <3> QED
      BY <3>1
  <2>5. Due(r)' \subseteq known
    <3>1. ASSUME NEW p \in Due(r)' PROVE p \in known
      <4>1. p \in echo[r] /\ p.session = session
        BY <2>1, <2>2 DEF Due
      <4>2. PICK q \in sent : \E s \in out[q].subs : s.placeholder = p /\ s.was \notin Allowlist
        BY <2>1 DEF Due
      <4>3. PICK s \in out[q].subs : s.placeholder = p /\ s.was \notin Allowlist
        BY <4>2
      <4>4. q \in Requests /\ s \in Substitutions
        BY DEF ControlInv, Control, VaultInv, Carried
      <4>5. <<s.placeholder, s.was>> \in Told
        BY <4>4 DEF Told, Substitutions
      <4> QED
        BY <4>1, <4>3, <4>5 DEF VaultInv, ToldOK, MapsTo
    <3> QED
      BY <3>1
  <2>6. {x.placeholder : x \in answer'[r].restored} = Due(r)'
    BY <2>2, <2>3, <2>4, <2>5
  <2> HIDE DEF restored, known
  <2>7. ASSUME NEW q \in Requests PROVE Echoed(q)' /\ Returned(q)'
    <3>1. Echoed(q)'
      BY <2>1 DEF EchoInv, Echoed
    <3>2. CASE q = r
      BY <2>2, <2>6, <3>1, <3>2 DEF Returned
    <3>3. CASE q # r
      <4>1. Due(q)' = Due(q)
        BY <2>1, <2>2, <3>3 DEF Due
      <4> QED
        BY <2>2, <3>1, <3>3, <4>1 DEF EchoInv, Returned
    <3> QED
      BY <3>2, <3>3
  <2> QED
    BY <2>1, <2>7 DEF EchoInv
<1> QED
  BY <1>1, <1>2, <1>3, <1>4, <1>5, <1>6, <1>7, <1>8, <1>9, <1>10, <1>11, <1>12 DEF Serve

LEMMA EchoWorld ==
  ASSUME ControlInv, VaultInv, ControlInv', VaultInv', EchoInv, NEW r \in Requests, World(r)
  PROVE  EchoInv'
<1>1. ASSUME NEW b, Arrive(r, b) PROVE EchoInv'
  BY <1>1, EchoGo DEF Arrive, At
<1>2. CASE ReadBody(r)
  <2>1. \/ Local(r, "plane", 403) \/ Local(r, "plane", 400)
        \/ At(r, "body") /\ (Step(r, "route") \/ Step(r, "inspect"))
    BY <1>2 DEF ReadBody
  <2> QED
    BY <2>1, EchoLocal, EchoGo DEF Step, At
<1>3. CASE Unreachable(r)
  BY <1>3, EchoLocal DEF Unreachable
<1>4. ASSUME NEW rep \in Replies, NEW e \in Echoes, Reply(r, rep, e) PROVE EchoInv'
  <2>1. UNCHANGED <<out, sent, answer>> /\ echo' = [echo EXCEPT ![r] = e]
    BY <1>4 DEF Reply
  <2>2. pc[r] = "await" /\ \A q \in Requests : q # r => pc'[q] = pc[q]
    BY <1>4 DEF Reply, At, Go, ControlInv, Control
  <2>3. \A p \in e : \E q \in sent : \E s \in out[q].subs : s.placeholder = p
    BY DEF Echoes, Heard
  <2>4. e \subseteq Placeholders
    <3>1. \A q \in sent : out[q].subs \subseteq Substitutions
      BY DEF ControlInv, Control, VaultInv, Carried
    <3> QED
      BY <2>3, <3>1 DEF Substitutions
  <2>5. echo' \in [Requests -> SUBSET Placeholders]
    BY <2>1, <2>4 DEF EchoInv
  <2>6. ASSUME NEW q \in Requests PROVE Echoed(q)' /\ Returned(q)'
    <3>1. CASE q = r
      <4>1. answer'[r].by # "upstream"
        BY <2>1, <2>2 DEF EchoInv, Returned
      <4>2. echo'[r] = e
        BY <2>1 DEF EchoInv
      <4> QED
        BY <2>1, <2>3, <3>1, <4>1, <4>2 DEF Echoed, Returned
    <3>2. CASE q # r
      <4>1. echo'[q] = echo[q]
        BY <2>1, <3>2 DEF EchoInv
      <4>2. Due(q)' = Due(q)
        BY <2>1, <4>1 DEF Due
      <4> QED
        BY <2>1, <2>2, <3>2, <4>1, <4>2 DEF EchoInv, Echoed, Returned
    <3> QED
      BY <3>1, <3>2
  <2> QED
    BY <2>5, <2>6 DEF EchoInv
<1>5. ASSUME NEW how, Copied(r, how) PROVE EchoInv'
  BY <1>5, EchoGo DEF Copied, At
<1> QED
  BY <1>1, <1>2, <1>3, <1>4, <1>5 DEF World

LEMMA EchoAlways == Spec => [](ControlInv /\ VaultInv /\ EchoInv)
<1>1. Init => EchoInv
  BY DEF Init, EchoInv, Echoed, Returned, NoAnswer
<1>2. ControlInv /\ VaultInv /\ ControlInv' /\ VaultInv' /\ EchoInv /\ [Next]_vars => EchoInv'
  <2> SUFFICES ASSUME ControlInv, VaultInv, ControlInv', VaultInv', EchoInv, [Next]_vars
               PROVE  EchoInv'
    OBVIOUS
  <2>1. CASE UNCHANGED vars
    BY <2>1, EchoFrame DEF vars
  <2>2. CASE Restart
    <3>1. \A q \in sent : out'[q] = out[q]
      BY <2>2 DEF Restart, Abandon, ControlInv, Control
    <3>2. \A q \in Requests : pc[q] = "answered" => pc'[q] = "answered"
      BY <2>2 DEF Restart, Abandon
    <3> QED
      BY <2>2, <3>1, <3>2, EchoFrame DEF Restart
  <2> QED
    BY <2>1, <2>2, EchoServe, EchoWorld DEF Next
<1> QED
  BY <1>1, <1>2, VaultAlways, PTL DEF Spec

\* A committed response restores exactly the placeholders of its own session
\* whose secret is not excluded (RoundTrip), whatever is sent afterwards.
THEOREM RoundTripAlways == Spec => []RoundTrip
<1>1. EchoInv => RoundTrip
  BY DEF EchoInv, Returned, Due, RoundTrip
<1> QED
  BY <1>1, EchoAlways, PTL

-----------------------------------------------------------------------------
(* What an outbound body leaves as it was. *)

\* The cursor is at the start, or at the end of one of the findings behind it.
LEMMA CursorEnds ==
  ASSUME NEW n \in Nat, NEW f \in [1 .. n -> Spans]
  PROVE  \A i \in 0 .. n : Cursor(f)[i] = 0 \/ \E j \in 1 .. i : Cursor(f)[i] = f[j].to
<1> DEFINE T == {i \in Nat : i <= n =>
                   Cursor(f)[i] = 0 \/ \E j \in 1 .. i : Cursor(f)[i] = f[j].to}
<1>1. 0 \in T
  BY CursorMoves
<1>2. ASSUME NEW i \in Nat, i \in T PROVE i + 1 \in T
  <2>1. SUFFICES ASSUME i + 1 <= n
                 PROVE  Cursor(f)[i + 1] = 0 \/ \E j \in 1 .. i + 1 : Cursor(f)[i + 1] = f[j].to
    OBVIOUS
  <2>2. Cursor(f)[i + 1] = f[i + 1].to \/ Cursor(f)[i + 1] = Cursor(f)[i]
    <3>1. i + 1 \in 1 .. n /\ (i + 1) - 1 = i
      BY <2>1
    <3> QED
      BY <3>1, CursorMoves
  <2>3. Cursor(f)[i] = 0 \/ \E j \in 1 .. i : Cursor(f)[i] = f[j].to
    BY <1>2, <2>1
  <2> QED
    BY <2>2, <2>3
<1>3. \A i \in Nat : i \in T
  <2> HIDE DEF T
  <2> QED
    BY <1>1, <1>2, Induction
<1> QED
  BY <1>3

\* A finding that overlaps no other is kept, so no cell of it is left.
LEMMA SpliceRaw ==
  ASSUME NEW b \in Bodies, NEW placeholders,
         NEW i \in Splice(b, placeholders).raw, NEW s \in b.spans, i \in s.from .. s.to
  PROVE  \E t \in b.spans : s # t /\ s.from <= t.to /\ t.from <= s.to
<1> DEFINE f == Findings(b)
           n == Cardinality(b.spans)
<1>1. SUFFICES ASSUME \A t \in b.spans : s # t => ~ (s.from <= t.to /\ t.from <= s.to)
               PROVE  FALSE
  OBVIOUS
<1>2. n \in Nat /\ f \in [1 .. n -> b.spans] /\ Sorted(f)
  BY FindingsAreSorted
<1>3. \A t \in b.spans : t \in Spans /\ t.from <= t.to
  BY BodiesOK
<1>4. f \in [1 .. n -> Spans]
  BY <1>2, <1>3
<1>5. PICK k \in 1 .. n : f[k] = s
  BY FindingsAreSorted
<1>6. k - 1 \in 0 .. n
  BY <1>2
<1>7. s.from > Cursor(f)[k - 1]
  <2>1. s.from \in Nat \ {0} /\ s.to \in Nat
    BY <1>3 DEF Spans
  <2>2. CASE Cursor(f)[k - 1] = 0
    BY <2>1, <2>2
  <2>3. ASSUME NEW j \in 1 .. k - 1, Cursor(f)[k - 1] = f[j].to PROVE s.from > Cursor(f)[k - 1]
    <3>1. j \in 1 .. n /\ j < k
      BY <1>2
    <3>2. f[j] \in b.spans /\ Before(f[j], s)
      BY <1>2, <1>5, <3>1 DEF Sorted
    <3>3. f[j].from \in Nat /\ f[j].to \in Nat
      BY <1>3, <3>2 DEF Spans
    <3>4. f[j] # s /\ f[j].from <= s.to
      BY <1>3, <2>1, <3>2, <3>3 DEF Before
    <3> QED
      BY <1>1, <2>1, <2>3, <3>2, <3>3, <3>4
  <2> QED
    BY <1>2, <1>4, <1>6, <2>2, <2>3, CursorEnds
<1>8. k \in Kept(f)
  BY <1>2, <1>5, <1>7 DEF Kept
<1> QED
  BY <1>5, <1>8 DEF Splice

Raw(r) ==
  /\ out[r].raw \subseteq DOMAIN body[r].text
  /\ pc[r] = "idle" => out[r].raw = {}
  /\ pc[r] = "dial" \/ r \in sent =>
       \A i \in out[r].raw : Detected(r, i) => Overlapped(r, i)

RawInv == \A r \in Requests : Raw(r)

\* A step that writes no outbound body, and moves no request to the point of
\* sending one.
LEMMA RawFrame ==
  ASSUME RawInv, NEW r \in Requests, UNCHANGED body,
         \A q \in Requests :
           /\ out'[q].raw \subseteq out[q].raw
           /\ pc'[q] = "idle" => pc[q] = "idle"
           /\ pc'[q] = "dial" \/ q \in sent' => pc[q] = "dial" \/ q \in sent
  PROVE  RawInv'
<1> SUFFICES ASSUME NEW q \in Requests PROVE Raw(q)'
  BY DEF RawInv
<1> QED
  BY DEF RawInv, Raw, Detected, Overlapped

LEMMA RawGo ==
  ASSUME ControlInv, RawInv, NEW r \in Requests, NEW l, Go(r, l), l # "idle",
         UNCHANGED <<body, out>>,
         l = "dial" \/ sent' # sent => sent' = sent \cup {r} /\ pc[r] = "dial"
  PROVE  RawInv'
<1>1. \A q \in Requests :
        /\ pc'[q] = "idle" => pc[q] = "idle"
        /\ pc'[q] = "dial" \/ q \in sent' => pc[q] = "dial" \/ q \in sent
  BY DEF Go, ControlInv, Control
<1> QED
  BY <1>1, RawFrame

LEMMA RawLocal ==
  ASSUME ControlInv, RawInv, NEW r \in Requests, NEW by, NEW status, Local(r, by, status)
  PROVE  RawInv'
BY RawGo DEF Local, Answer

LEMMA RawServe ==
  ASSUME ControlInv, VaultInv, RawInv, NEW r \in Requests, Serve(r)
  PROVE  RawInv'
<1>1. CASE Unwalkable(r) \/ DetectorFails(r) \/ Blocked(r)
  BY <1>1, RawLocal DEF Unwalkable, DetectorFails, Blocked
<1>2. CASE Admitted(r)
  BY <1>2, RawGo DEF Admitted, Step
<1>3. CASE Route(r)
  <2>1. \/ Local(r, "route", 404) \/ Local(r, "route", 200) \/ Local(r, "forwarder", 415)
        \/ Step(r, "transform")
    BY <1>3 DEF Route
  <2> QED
    BY <2>1, RawLocal, RawGo DEF Step
<1>4. CASE Transform(r)
  <2>1. CASE Local(r, "forwarder", 500)
    BY <2>1, RawLocal
  <2>2. CASE Step(r, "mint")
    BY <2>2, RawGo DEF Step
  <2>3. CASE /\ body[r].spans = {} /\ out' = [out EXCEPT ![r] = Unchanged(body[r])]
             /\ Go(r, "dial") /\ UNCHANGED <<body, sent>>
    <3>1. /\ out'[r].raw = DOMAIN body[r].text /\ pc'[r] = "dial"
          /\ \A q \in Requests : q # r => out'[q] = out[q] /\ pc'[q] = pc[q]
      BY <2>3 DEF Unchanged, Go, ControlInv, Control, VaultInv, Carried
    <3>2. ASSUME NEW q \in Requests PROVE Raw(q)'
      BY <2>3, <3>1 DEF RawInv, Raw, Detected, Overlapped
    <3> QED
      BY <3>2 DEF RawInv
  <2> QED
    BY <1>4, <2>1, <2>2, <2>3 DEF Transform
<1>5. CASE Placeholder(r)
  BY <1>5, RawGo DEF Placeholder
<1>6. CASE Map(r)
  BY <1>6, RawGo DEF Map
<1>7. CASE Apply(r)
  <2>1. /\ out'[r].raw = Splice(body[r], minted[r]).raw /\ pc'[r] = "dial"
        /\ \A q \in Requests : q # r => out'[q] = out[q] /\ pc'[q] = pc[q]
        /\ UNCHANGED <<body, sent>>
    BY <1>7 DEF Apply, Go, ControlInv, Control, VaultInv, Carried
  <2>2. ASSUME NEW i \in out'[r].raw, Detected(r, i)' PROVE Overlapped(r, i)'
    <3>1. PICK s \in body[r].spans : i \in s.from .. s.to
      BY <2>1, <2>2 DEF Detected
    <3>2. body[r] \in Bodies
      BY DEF ControlInv, Control
    <3>3. \E t \in body[r].spans : s # t /\ s.from <= t.to /\ t.from <= s.to
      BY <2>1, <3>1, <3>2, SpliceRaw
    <3> QED
      BY <2>1, <3>1, <3>3 DEF Overlapped
  <2>3. out'[r].raw \subseteq DOMAIN body[r].text
    BY <1>7, <2>1, SpliceSubs DEF Apply
  <2>4. ASSUME NEW q \in Requests PROVE Raw(q)'
    <3>1. CASE q = r
      BY <2>1, <2>2, <2>3, <3>1 DEF Raw
    <3>2. CASE q # r
      BY <2>1, <3>2 DEF RawInv, Raw, Detected, Overlapped
    <3> QED
      BY <3>1, <3>2
  <2> QED
    BY <2>4 DEF RawInv
<1>8. CASE Send(r)
  BY <1>8, RawGo DEF Send, At
<1>9. CASE Deadline(r)
  <2>1. \/ Local(r, "forwarder", 504)
        \/ Go(r, "finish") /\ UNCHANGED <<body, out, sent>>
    BY <1>9 DEF Deadline
  <2> QED
    BY <2>1, RawLocal, RawGo
<1>10. CASE Refuse(r)
  BY <1>10, RawLocal DEF Refuse
<1>11. CASE Evaluate(r)
  <2>1. Local(r, "rule", 502) \/ Step(r, "restore")
    BY <1>11 DEF Evaluate
  <2> QED
    BY <2>1, RawLocal, RawGo DEF Step
<1>12. CASE Restore(r)
  BY <1>12, RawGo DEF Restore, Answer
<1> QED
  BY <1>1, <1>2, <1>3, <1>4, <1>5, <1>6, <1>7, <1>8, <1>9, <1>10, <1>11, <1>12 DEF Serve

LEMMA RawWorld ==
  ASSUME ControlInv, VaultInv, RawInv, NEW r \in Requests, World(r)
  PROVE  RawInv'
<1>1. ASSUME NEW b \in Bodies, Arrive(r, b) PROVE RawInv'
  <2>1. /\ pc[r] = "idle" /\ pc'[r] = "body" /\ UNCHANGED <<out, sent>> /\ r \notin sent
        /\ \A q \in Requests : q # r => body'[q] = body[q] /\ pc'[q] = pc[q]
    BY <1>1 DEF Arrive, At, Go, ControlInv, Control, Checked
  <2>2. ASSUME NEW q \in Requests PROVE Raw(q)'
    BY <2>1 DEF RawInv, Raw, Detected, Overlapped
  <2> QED
    BY <2>2 DEF RawInv
<1>2. CASE ReadBody(r)
  <2>1. \/ Local(r, "plane", 403) \/ Local(r, "plane", 400)
        \/ Step(r, "route") \/ Step(r, "inspect")
    BY <1>2 DEF ReadBody
  <2> QED
    BY <2>1, RawLocal, RawGo DEF Step
<1>3. CASE Unreachable(r)
  BY <1>3, RawLocal DEF Unreachable
<1>4. ASSUME NEW rep, NEW e, Reply(r, rep, e) PROVE RawInv'
  BY <1>4, RawGo DEF Reply
<1>5. ASSUME NEW how, Copied(r, how) PROVE RawInv'
  BY <1>5, RawGo DEF Copied
<1> QED
  BY <1>1, <1>2, <1>3, <1>4, <1>5 DEF World

LEMMA RawAlways == Spec => [](ControlInv /\ VaultInv /\ RawInv)
<1>1. Init => RawInv
  BY DEF Init, RawInv, Raw, Nothing
<1>2. ControlInv /\ VaultInv /\ RawInv /\ [Next]_vars => RawInv'
  <2> SUFFICES ASSUME ControlInv, VaultInv, RawInv, [Next]_vars PROVE RawInv'
    OBVIOUS
  <2>1. CASE UNCHANGED vars
    BY <2>1 DEF vars, RawInv, Raw, Detected, Overlapped
  <2>2. CASE Restart
    <3>1. ASSUME NEW q \in Requests PROVE Raw(q)'
      BY <2>2 DEF Restart, Abandon, Nothing, RawInv, Raw, Detected, Overlapped
    <3> QED
      BY <3>1 DEF RawInv
  <2> QED
    BY <2>1, <2>2, RawServe, RawWorld DEF Next
<1> QED
  BY <1>1, <1>2, VaultAlways, PTL DEF Spec

\* No upstream hears a byte of a finding that overlaps no other
\* (DetectedNeverLeaks): the splice keeps every such finding, and a body goes out
\* unspliced only when it has none.
THEOREM LeakNever == Spec => []DetectedNeverLeaks
<1>1. ControlInv /\ RawInv => DetectedNeverLeaks
  BY DEF ControlInv, Control, RawInv, Raw, DetectedNeverLeaks
<1> QED
  BY <1>1, RawAlways, PTL

-----------------------------------------------------------------------------
(* What the counters of GET /status account for. *)

\* The requests of this session that one of bys answered.
Answered(bys) == {r \in Requests : answer[r].session = session /\ answer[r].by \in bys}

\* The substitutions of this session that were sent or are about to be.
Substituted ==
  {x \in Requests \X Substitutions :
     /\ x[1] \in sent \/ pc[x[1]] = "dial"
     /\ x[2] \in out[x[1]].subs
     /\ x[2].placeholder.session = session}

Refusals == {"block", "rule"}
Policed  == {"plane", "block", "rule"}

CountInv ==
  /\ count \in [DOMAIN Zero -> Nat]
  /\ \A r \in Requests :
       /\ answer[r].session \in 0 .. session
       /\ pc[r] # "answered" => answer[r].session = 0
  /\ count["rule"] = Cardinality(Answered(Refusals))
  /\ count["content"] = Cardinality(Answered(Policed))
  /\ IsFiniteSet(Substituted) /\ Cardinality(Substituted) <= count["redactions"]

LEMMA Counters == DOMAIN Zero = {"requests", "redactions", "content", "rule", "skips"}
BY DEF Zero

LEMMA BumpCounts ==
  ASSUME NEW c \in [DOMAIN Zero -> Nat], NEW slots
  PROVE  /\ Bump(c, slots) \in [DOMAIN Zero -> Nat]
         /\ \A k \in DOMAIN Zero : Bump(c, slots)[k] = IF k \in slots THEN c[k] + 1 ELSE c[k]
BY DEF Bump

\* One more request answered is one more in the set.
LEMMA OneMore ==
  ASSUME NEW r \in Requests, NEW bys, CountInv, pc[r] # "answered", session \in Sessions,
         session' = session, answer'[r].session = session,
         \A q \in Requests : q # r => answer'[q] = answer[q]
  PROVE  Cardinality(Answered(bys)') =
           IF answer'[r].by \in bys THEN Cardinality(Answered(bys)) + 1
                                     ELSE Cardinality(Answered(bys))
<1>1. r \notin Answered(bys)
  BY DEF Answered, CountInv, Sessions
<1>2. IsFiniteSet(Answered(bys))
  BY SlotsOK, FS_Subset DEF Answered
<1>3. CASE answer'[r].by \in bys
  <2>1. Answered(bys)' = Answered(bys) \cup {r}
    BY <1>3 DEF Answered
  <2> QED
    BY <1>1, <1>2, <1>3, <2>1, FS_AddElement
<1>4. CASE answer'[r].by \notin bys
  <2>1. Answered(bys)' = Answered(bys)
    BY <1>1, <1>4 DEF Answered
  <2> QED
    BY <1>4, <2>1
<1> QED
  BY <1>3, <1>4

\* A step that answers nothing and sends nothing new.
LEMMA CountFrame ==
  ASSUME CountInv, session' = session, answer' = answer, count' \in [DOMAIN Zero -> Nat],
         count'["rule"] = count["rule"], count'["content"] = count["content"],
         count'["redactions"] = count["redactions"],
         \A q \in Requests : pc'[q] # "answered" => pc[q] # "answered",
         Substituted' \subseteq Substituted
  PROVE  CountInv'
<1>1. IsFiniteSet(Substituted') /\ Cardinality(Substituted') <= Cardinality(Substituted)
      /\ Cardinality(Substituted') \in Nat /\ Cardinality(Substituted) \in Nat
  BY FS_Subset, FS_CardinalityType DEF CountInv
<1>2. Answered(Refusals)' = Answered(Refusals) /\ Answered(Policed)' = Answered(Policed)
  BY DEF Answered
<1>3. count["redactions"] \in Nat
  BY Counters DEF CountInv
<1> QED
  BY <1>1, <1>2, <1>3 DEF CountInv

LEMMA CountGo ==
  ASSUME ControlInv, VaultInv, CountInv, NEW r \in Requests, NEW l, Go(r, l),
         pc[r] # "answered", UNCHANGED <<out, answer, session>>,
         l = "dial" \/ sent' # sent => sent' = sent \cup {r} /\ pc[r] = "dial",
         count' \in [DOMAIN Zero -> Nat],
         count'["rule"] = count["rule"], count'["content"] = count["content"],
         count'["redactions"] = count["redactions"]
  PROVE  CountInv'
<1>1. \A q \in Requests :
        /\ pc'[q] # "answered" => pc[q] # "answered"
        /\ q \in sent' \/ pc'[q] = "dial" => q \in sent \/ pc[q] = "dial"
  BY DEF Go, ControlInv, Control
<1>2. Substituted' \subseteq Substituted
  BY <1>1 DEF Substituted
<1> QED
  BY <1>1, <1>2, CountFrame

\* An answer, counted as its kind requires.
LEMMA CountAnswer ==
  ASSUME ControlInv, VaultInv, CountInv, NEW r \in Requests, NEW by, NEW status, NEW restored,
         Answer(r, by, status, restored), pc[r] # "answered", UNCHANGED <<out, sent, session>>,
         count' \in [DOMAIN Zero -> Nat], count'["redactions"] = count["redactions"],
         count'["rule"] = IF by \in Refusals THEN count["rule"] + 1 ELSE count["rule"],
         count'["content"] = IF by \in Policed THEN count["content"] + 1 ELSE count["content"]
  PROVE  CountInv'
<1>1. /\ answer'[r].session = session /\ answer'[r].by = by /\ pc'[r] = "answered"
      /\ \A q \in Requests : q # r => answer'[q] = answer[q] /\ pc'[q] = pc[q]
  BY DEF Answer, Go, ControlInv, Control, VaultInv, Carried
<1>2. session \in Sessions
  BY DEF VaultInv, Maps
<1>3. /\ count'["rule"] = Cardinality(Answered(Refusals)')
      /\ count'["content"] = Cardinality(Answered(Policed)')
  BY <1>1, <1>2, OneMore DEF CountInv
<1>4. Substituted' \subseteq Substituted
  BY <1>1 DEF Substituted
<1>5. IsFiniteSet(Substituted') /\ Cardinality(Substituted') <= Cardinality(Substituted)
      /\ Cardinality(Substituted') \in Nat /\ Cardinality(Substituted) \in Nat
  BY <1>4, FS_Subset, FS_CardinalityType DEF CountInv
<1>6. count["redactions"] \in Nat
  BY Counters DEF CountInv
<1>7. \A q \in Requests : answer'[q].session \in 0 .. session'
                         /\ (pc'[q] # "answered" => answer'[q].session = 0)
  BY <1>1, <1>2 DEF CountInv, Sessions
<1> QED
  BY <1>3, <1>5, <1>6, <1>7 DEF CountInv

\* The splice adds its own substitutions, of which there are finitely many.
LEMMA SpliceFinite ==
  ASSUME NEW b \in Bodies, NEW placeholders
  PROVE  IsFiniteSet(Splice(b, placeholders).subs)
<1> DEFINE f == Findings(b)
           n == Cardinality(b.spans)
           g == [k \in Kept(f) |->
                   [span |-> f[k], was |-> Slice(b, f[k]), placeholder |-> placeholders[k]]]
           S == Splice(b, placeholders).subs
<1>1. n \in Nat /\ f \in [1 .. n -> b.spans]
  BY FindingsAreSorted
<1>2. IsFiniteSet(Kept(f))
  <2>1. Kept(f) \subseteq 1 .. n
    BY <1>1 DEF Kept
  <2> QED
    <3>1. IsFiniteSet(1 .. n)
      BY <1>1, FS_Interval
    <3> HIDE DEF f, n
    <3> QED
      BY <2>1, <3>1, FS_Subset
<1>3. S = {g[k] : k \in Kept(f)}
  BY DEF Splice
<1> HIDE DEF S
<1>4. g \in Surjection(Kept(f), S)
  <2> HIDE DEF g
  <2>1. g \in [Kept(f) -> S]
    <3>1. g = [k \in Kept(f) |-> g[k]]
      BY DEF g
    <3> QED
      BY <1>3, <3>1
  <2> QED
    BY <1>3, <2>1 DEF Surjection
<1> QED
  BY <1>2, <1>4, FS_Surjection DEF S

LEMMA CountApply ==
  ASSUME ControlInv, VaultInv, CountInv, NEW r \in Requests, Apply(r)
  PROVE  CountInv'
<1> DEFINE S == Splice(body[r], minted[r]).subs
           P == {x \in Requests \X Substitutions : x[1] = r /\ x[2] \in S}
<1>1. /\ out'[r].subs = S
      /\ \A q \in Requests : q # r => out'[q] = out[q] /\ pc'[q] = pc[q]
      /\ pc[r] = "mint" /\ pc'[r] = "dial" /\ UNCHANGED <<answer, session, sent>>
  BY DEF Apply, At, Go, vault, ControlInv, Control, VaultInv, Carried
<1>2. IsFiniteSet(S) /\ Cardinality(S) \in Nat
  <2>1. body[r] \in Bodies
    BY DEF ControlInv, Control
  <2> QED
    BY <2>1, SpliceFinite, FS_CardinalityType
<1>3. /\ count' \in [DOMAIN Zero -> Nat] /\ count["redactions"] \in Nat
      /\ count'["redactions"] = count["redactions"] + Cardinality(S)
      /\ count'["rule"] = count["rule"] /\ count'["content"] = count["content"]
  <2>1. count' = [count EXCEPT !["redactions"] = @ + Cardinality(S)]
    BY <1>1 DEF Apply
  <2> HIDE DEF S
  <2> QED
    BY <1>2, <2>1, Counters DEF CountInv
<1> HIDE DEF S
<1>4. IsFiniteSet(P) /\ Cardinality(P) <= Cardinality(S) /\ Cardinality(P) \in Nat
  <2> DEFINE g == [x \in P |-> x[2]]
  <2>1. g \in Injection(P, S)
    BY DEF Injection, IsInjective
  <2> QED
    BY <1>2, <2>1, FS_Injection, FS_CardinalityType
<1>5. Substituted' \subseteq Substituted \cup P
  BY <1>1 DEF Substituted
<1> HIDE DEF P
<1>6. IsFiniteSet(Substituted) /\ Cardinality(Substituted) \in Nat
  BY FS_CardinalityType DEF CountInv
<1>7. /\ IsFiniteSet(Substituted \cup P)
      /\ Cardinality(Substituted \cup P) <= Cardinality(Substituted) + Cardinality(P)
      /\ Cardinality(Substituted \cup P) \in Nat
  <2>1. Cardinality(Substituted \cap P) \in Nat
    BY <1>4, <1>6, FS_Intersection, FS_CardinalityType
  <2>2. /\ IsFiniteSet(Substituted \cup P)
        /\ Cardinality(Substituted \cup P) =
             Cardinality(Substituted) + Cardinality(P) - Cardinality(Substituted \cap P)
    BY <1>4, <1>6, FS_Union
  <2>3. Cardinality(Substituted \cup P) \in Nat
    BY <2>2, FS_CardinalityType
  <2> QED
    BY <1>4, <1>6, <2>1, <2>2, <2>3
<1>8. IsFiniteSet(Substituted') /\ Cardinality(Substituted') <= Cardinality(Substituted \cup P)
      /\ Cardinality(Substituted') \in Nat
  BY <1>5, <1>7, FS_Subset, FS_CardinalityType
<1>9. Cardinality(Substituted') <= count'["redactions"]
  BY <1>2, <1>3, <1>4, <1>6, <1>7, <1>8 DEF CountInv
<1>10. Answered(Refusals)' = Answered(Refusals) /\ Answered(Policed)' = Answered(Policed)
  BY <1>1 DEF Answered
<1>11. \A q \in Requests : answer'[q].session \in 0 .. session'
                          /\ (pc'[q] # "answered" => answer'[q].session = 0)
  BY <1>1 DEF CountInv
<1> QED
  BY <1>3, <1>8, <1>9, <1>10, <1>11 DEF CountInv

\* An answer of a kind that is not counted, and a step that counts nothing.
LEMMA CountLocal ==
  ASSUME ControlInv, VaultInv, CountInv, NEW r \in Requests, NEW by, by \notin Policed,
         NEW status, Local(r, by, status), pc[r] # "answered", UNCHANGED count
  PROVE  CountInv'
<1>1. UNCHANGED <<out, sent, session>> /\ Answer(r, by, status, {})
  BY DEF Local, vault
<1> QED
  BY <1>1, CountAnswer DEF CountInv, Refusals, Policed

\* A refusal, counted once.
LEMMA CountRefusal ==
  ASSUME ControlInv, VaultInv, CountInv, NEW r \in Requests, pc[r] # "answered",
         NEW c \in [DOMAIN Zero -> Nat],
         c["rule"] = count["rule"], c["content"] = count["content"],
         c["redactions"] = count["redactions"],
         NEW status,
         \/ Local(r, "plane", status) /\ count' = Bump(c, {"content"})
         \/ \E by \in Refusals : Local(r, by, status) /\ count' = Bump(c, {"content", "rule"})
  PROVE  CountInv'
<1>1. CASE Local(r, "plane", status) /\ count' = Bump(c, {"content"})
  <2>1. UNCHANGED <<out, sent, session>> /\ Answer(r, "plane", status, {})
    BY <1>1 DEF Local, vault
  <2>2. /\ count' \in [DOMAIN Zero -> Nat] /\ count'["redactions"] = count["redactions"]
        /\ count'["rule"] = count["rule"] /\ count'["content"] = count["content"] + 1
    BY <1>1, BumpCounts, Counters
  <2> QED
    BY <2>1, <2>2, CountAnswer DEF Refusals, Policed
<1>2. ASSUME NEW by \in Refusals, Local(r, by, status), count' = Bump(c, {"content", "rule"})
      PROVE  CountInv'
  <2>1. UNCHANGED <<out, sent, session>> /\ Answer(r, by, status, {})
    BY <1>2 DEF Local, vault
  <2>2. /\ count' \in [DOMAIN Zero -> Nat] /\ count'["redactions"] = count["redactions"]
        /\ count'["rule"] = count["rule"] + 1 /\ count'["content"] = count["content"] + 1
    BY <1>2, BumpCounts, Counters
  <2> QED
    BY <2>1, <2>2, CountAnswer DEF Refusals, Policed
<1> QED
  BY <1>1, <1>2

LEMMA CountServe ==
  ASSUME ControlInv, VaultInv, CountInv, NEW r \in Requests, Serve(r)
  PROVE  CountInv'
<1>a. count \in [DOMAIN Zero -> Nat]
  BY DEF CountInv
<1>1. CASE Unwalkable(r) \/ DetectorFails(r)
  <2>1. /\ pc[r] = "inspect"
        /\ Local(r, "plane", 400) \/ Local(r, "plane", 403)
        /\ count' = Bump(count, {"content"})
    BY <1>1 DEF Unwalkable, DetectorFails, At, Counting
  <2> QED
    BY <1>a, <2>1, CountRefusal
<1>2. CASE Blocked(r)
  <2>1. pc[r] = "inspect" /\ Local(r, "block", 403) /\ count' = Bump(count, {"content", "rule"})
    BY <1>2 DEF Blocked, At, Counting
  <2> QED
    BY <1>a, <2>1, CountRefusal DEF Refusals
<1>3. CASE Admitted(r)
  BY <1>a, <1>3, CountGo DEF Admitted, At, Step, vault
<1>4. CASE Route(r)
  <2>1. /\ \/ Local(r, "route", 404) \/ Local(r, "route", 200) \/ Local(r, "forwarder", 415)
           \/ Step(r, "transform")
        /\ pc[r] = "route" /\ UNCHANGED count
    BY <1>4 DEF Route, At
  <2> QED
    BY <1>a, <2>1, CountLocal, CountGo DEF Step, vault, Policed
<1>5. CASE Transform(r)
  <2>1. pc[r] = "transform" /\ UNCHANGED count
    BY <1>5 DEF Transform, At
  <2>2. CASE Local(r, "forwarder", 500)
    BY <2>1, <2>2, CountLocal DEF Policed
  <2>3. CASE Step(r, "mint")
    BY <1>a, <2>1, <2>3, CountGo DEF Step, vault
  <2>4. CASE /\ out' = [out EXCEPT ![r] = Unchanged(body[r])] /\ Go(r, "dial")
             /\ UNCHANGED <<sent, answer, session>>
    <3>1. /\ out'[r].subs = {} /\ pc'[r] = "dial"
          /\ \A q \in Requests : q # r => out'[q] = out[q] /\ pc'[q] = pc[q]
      BY <2>4 DEF Go, Unchanged, ControlInv, Control, VaultInv, Carried
    <3>2. Substituted' \subseteq Substituted
      BY <2>4, <3>1 DEF Substituted
    <3>3. \A q \in Requests : pc'[q] # "answered" => pc[q] # "answered"
      BY <2>1, <3>1
    <3> QED
      BY <1>a, <2>1, <2>4, <3>2, <3>3, CountFrame
  <2> QED
    BY <1>5, <2>2, <2>3, <2>4 DEF Transform, vault
<1>6. CASE Placeholder(r)
  BY <1>a, <1>6, CountGo DEF Placeholder, At
<1>7. CASE Map(r)
  BY <1>a, <1>7, CountGo DEF Map, At
<1>8. CASE Apply(r)
  BY <1>8, CountApply
<1>9. CASE Send(r)
  BY <1>a, <1>9, CountGo DEF Send, At, vault
<1>10. CASE Deadline(r)
  <2>1. /\ \/ Local(r, "forwarder", 504)
           \/ Go(r, "finish") /\ UNCHANGED <<out, sent, answer, session>>
        /\ pc[r] # "answered" /\ UNCHANGED count
    BY <1>10 DEF Deadline, At, vault
  <2> QED
    BY <1>a, <2>1, CountLocal, CountGo DEF Policed
<1>11. CASE Refuse(r)
  BY <1>11, CountLocal DEF Refuse, At, Policed
<1>12. CASE Evaluate(r)
  <2> DEFINE skipped == [count EXCEPT !["skips"] = @ + Cardinality(Skipped(r))]
  <2>1. Cardinality(Skipped(r)) \in Nat
    <3>1. IsFiniteSet(DOMAIN reply[r].events)
      BY SlotsOK DEF ControlInv, Control
    <3>2. Skipped(r) \subseteq DOMAIN reply[r].events
      BY DEF Skipped, Evaluated
    <3> QED
      BY <3>1, <3>2, FS_Subset, FS_CardinalityType
  <2>2. /\ skipped \in [DOMAIN Zero -> Nat]
        /\ skipped["rule"] = count["rule"] /\ skipped["content"] = count["content"]
        /\ skipped["redactions"] = count["redactions"]
    BY <1>a, <2>1, Counters
  <2>3. /\ pc[r] = "finish"
        /\ \/ Local(r, "rule", 502) /\ count' = Bump(skipped, {"content", "rule"})
           \/ Step(r, "restore") /\ count' = skipped
    BY <1>12 DEF Evaluate, At
  <2> HIDE DEF skipped
  <2> QED
    BY <2>2, <2>3, CountRefusal, CountGo DEF Refusals, Step, vault
<1>13. CASE Restore(r)
  <2>1. \E restored : Answer(r, "upstream", 200, restored)
    BY <1>13 DEF Restore
  <2>2. UNCHANGED <<out, sent, session, count>> /\ pc[r] # "answered"
    BY <1>13 DEF Restore, At, vault
  <2> QED
    BY <1>a, <2>1, <2>2, CountAnswer DEF Refusals, Policed
<1> QED
  BY <1>1, <1>2, <1>3, <1>4, <1>5, <1>6, <1>7, <1>8, <1>9, <1>10, <1>11, <1>12, <1>13 DEF Serve

LEMMA CountWorld ==
  ASSUME ControlInv, VaultInv, CountInv, NEW r \in Requests, World(r)
  PROVE  CountInv'
<1>a. count \in [DOMAIN Zero -> Nat]
  BY DEF CountInv
<1>1. ASSUME NEW b, Arrive(r, b) PROVE CountInv'
  <2>1. /\ count' \in [DOMAIN Zero -> Nat] /\ count'["redactions"] = count["redactions"]
        /\ count'["rule"] = count["rule"] /\ count'["content"] = count["content"]
    BY <1>a, <1>1, BumpCounts, Counters DEF Arrive, Counting
  <2> QED
    BY <1>1, <2>1, CountGo DEF Arrive, At, vault
<1>2. CASE ReadBody(r)
  <2>1. /\ pc[r] = "body"
        /\ \/ /\ Local(r, "plane", 403) \/ Local(r, "plane", 400)
              /\ count' = Bump(count, {"content"})
           \/ (Step(r, "route") \/ Step(r, "inspect")) /\ UNCHANGED count
    BY <1>2 DEF ReadBody, At, Counting
  <2> QED
    BY <1>a, <2>1, CountRefusal, CountGo DEF Step, vault
<1>3. CASE Unreachable(r)
  BY <1>3, CountLocal DEF Unreachable, Policed
<1>4. ASSUME NEW rep, NEW e, Reply(r, rep, e) PROVE CountInv'
  BY <1>a, <1>4, CountGo DEF Reply, At, vault
<1>5. ASSUME NEW how, Copied(r, how) PROVE CountInv'
  BY <1>a, <1>5, CountGo DEF Copied, At, vault
<1> QED
  BY <1>1, <1>2, <1>3, <1>4, <1>5 DEF World

\* A new session starts from zero, and nothing of an older one counts in it.
LEMMA CountRestart ==
  ASSUME ControlInv, VaultInv, CountInv, Restart
  PROVE  CountInv'
<1>1. session' = session + 1 /\ session \in Nat
  BY DEF Restart, VaultInv, Maps, Sessions
<1>2. answer' = answer /\ count' = Zero
  BY DEF Restart
<1>3. Answered(Refusals)' = {} /\ Answered(Policed)' = {}
  BY <1>1, <1>2 DEF Answered, CountInv
<1>4. Substituted' = {}
  <2> SUFFICES ASSUME NEW x \in Substituted' PROVE FALSE
    OBVIOUS
  <2>1. /\ x[1] \in Requests /\ x[2] \in Substitutions /\ x[2] \in out'[x[1]].subs
        /\ x[2].placeholder.session = session'
    BY DEF Substituted
  <2>2. x[2] \in out[x[1]].subs
    BY <2>1 DEF Restart, Abandon, Nothing
  <2>3. <<x[2].placeholder, x[2].was>> \in Told
    BY <2>1, <2>2 DEF Told, Substitutions
  <2>4. x[2].placeholder.session \in 1 .. session
    BY <2>3 DEF VaultInv, ToldOK
  <2> QED
    BY <1>1, <2>1, <2>4
<1>5. ASSUME NEW q \in Requests
      PROVE  /\ answer'[q].session \in 0 .. session'
             /\ pc'[q] # "answered" => answer'[q].session = 0
  <2>1. pc'[q] # "answered" => pc[q] # "answered"
    BY DEF Restart, Abandon
  <2> QED
    BY <1>1, <1>2, <2>1 DEF CountInv
<1>6. /\ count' \in [DOMAIN Zero -> Nat]
      /\ count'["rule"] = 0 /\ count'["content"] = 0 /\ count'["redactions"] = 0
  BY <1>2 DEF Zero
<1> QED
  BY <1>3, <1>4, <1>5, <1>6, FS_EmptySet DEF CountInv

LEMMA CountAlways == Spec => [](ControlInv /\ VaultInv /\ CountInv)
<1>1. Init => CountInv
  <2> SUFFICES ASSUME Init PROVE CountInv
    OBVIOUS
  <2>1. Answered(Refusals) = {} /\ Answered(Policed) = {} /\ Substituted = {}
    BY DEF Init, Answered, Refusals, Policed, Substituted, NoAnswer, Nothing
  <2>2. /\ count \in [DOMAIN Zero -> Nat]
        /\ count["rule"] = 0 /\ count["content"] = 0 /\ count["redactions"] = 0
    BY DEF Init, Zero
  <2>3. \A r \in Requests : answer[r].session = 0 /\ session = 1
    BY DEF Init, NoAnswer
  <2> QED
    BY <2>1, <2>2, <2>3, FS_EmptySet DEF CountInv
<1>2. ControlInv /\ VaultInv /\ CountInv /\ [Next]_vars => CountInv'
  <2> SUFFICES ASSUME ControlInv, VaultInv, CountInv, [Next]_vars PROVE CountInv'
    OBVIOUS
  <2>1. CASE UNCHANGED vars
    <3>1. Substituted' = Substituted
      BY <2>1 DEF vars, vault, Substituted
    <3> QED
      BY <2>1, <3>1, CountFrame DEF vars, vault, CountInv
  <2> QED
    BY <2>1, CountServe, CountWorld, CountRestart DEF Next
<1> QED
  BY <1>1, <1>2, VaultAlways, PTL DEF Spec

\* The counters of GET /status account for the traffic of the session
\* (StatusAccounts): every refusal of the content policy is counted once, and a
\* substitution is counted before an upstream hears it.
THEOREM StatusAlwaysAccounts == Spec => []StatusAccounts
<1>1. ControlInv /\ VaultInv /\ CountInv => StatusAccounts
  <2> SUFFICES ASSUME ControlInv, VaultInv, CountInv PROVE StatusAccounts
    OBVIOUS
  <2> DEFINE Subs == UNION {{<<r, s>> : s \in out[r].subs} : r \in sent}
             Sent == {x \in Subs : x[2].placeholder.session = session}
  <2>1. Sent \subseteq Substituted
    <3>1. ASSUME NEW x \in Subs PROVE x[1] \in sent /\ x[2] \in out[x[1]].subs
                                    /\ x = <<x[1], x[2]>>
      OBVIOUS
    <3>2. \A r \in sent : r \in Requests /\ out[r].subs \subseteq Substitutions
      BY DEF ControlInv, Control, VaultInv, Carried
    <3> HIDE DEF Subs
    <3> QED
      BY <3>1, <3>2 DEF Substituted
  <2> HIDE DEF Sent
  <2>2. /\ Cardinality(Sent) <= Cardinality(Substituted)
        /\ Cardinality(Sent) \in Nat /\ Cardinality(Substituted) \in Nat
    BY <2>1, FS_Subset, FS_CardinalityType DEF CountInv
  <2>3. count["redactions"] \in Nat
    BY Counters DEF CountInv
  <2>4. count["redactions"] >= Cardinality(Sent)
    BY <2>2, <2>3 DEF CountInv
  <2> QED
    BY <2>4 DEF StatusAccounts, CountInv, Answered, Refusals, Policed, Sent
<1> QED
  BY <1>1, CountAlways, PTL

\* Type correctness, of which the maps' part is what the exchanges rely on.
THEOREM TypeCorrect == Spec => []TypeOK
<1>1. ControlInv /\ VaultInv /\ EchoInv /\ RawInv /\ CountInv => TypeOK
  BY DEF ControlInv, Control, VaultInv, Maps, Carried, Minted, EchoInv, RawInv, Raw, CountInv,
         TypeOK
<1> QED
  BY <1>1, EchoAlways, RawAlways, CountAlways, PTL

-----------------------------------------------------------------------------
(* The life of a gateway and its session files. *)

\* The stretches of a life during which a file is the gateway's own.
Naming  == {"named", "up", "serving", "stopping"}
Holding == {"up", "serving", "stopping"}

\* While a gateway drains, what is in flight is counted; once it has reported a
\* clean end, nothing is in flight and nothing was cut.
Flights ==
  \A g \in Gateways :
    /\ live[g] <= served[g]
    /\ exit[g] = "clean" => \/ life[g] = "unnaming" /\ live[g] = 0
                            \/ life[g] = "exited" /\ cut[g] = 0

\* A life that overlaps no other owns the files it wrote, and unless something
\* failed a file is there only during the life that wrote it.
Owned ==
  ~ overlapped =>
    /\ \A g \in Gateways, h \in Gateways : Alive(g) /\ Alive(h) => g = h
    /\ \A g \in Gateways : /\ life[g] \in Naming  => runFile = g
                           /\ life[g] \in Holding => tokFile = g
    /\ ~ faulted =>
         /\ runFile \in Gateways => life[runFile] \in Naming
         /\ tokFile \in Gateways => life[tokFile] \in Holding \union {"unnaming"}

SessionInv == SessionTypeOK /\ Flights /\ Owned

-----------------------------------------------------------------------------

\* The invariant holds when no gateway has been started.
LEMMA SessionStarts == SessionInit => SessionInv
<1> SUFFICES ASSUME SessionInit PROVE SessionInv
  OBVIOUS
<1>1. SessionTypeOK
  <2>1. 0 \in 0 .. MaxRequests
    BY SessionOK
  <2> QED
    BY <2>1 DEF SessionInit, SessionTypeOK
<1>2. Flights
  BY DEF SessionInit, Flights
<1>3. Owned
  BY SessionOK DEF SessionInit, Owned, Alive, Naming, Holding
<1> QED
  BY <1>1, <1>2, <1>3 DEF SessionInv

\* A gateway binds a port of its own.
LEMMA SessionBind ==
  ASSUME SessionInv, NEW g \in Gateways, Bind(g) \/ StartFails(g)
  PROVE  SessionInv'
<1> USE DEF SessionInv
<1>1. SessionTypeOK'
  <2>1. CASE StartFails(g)
    BY <2>1 DEF SessionTypeOK, StartFails, Enters, files, notes
  <2>2. CASE Bind(g)
    <3>1. life' = [life EXCEPT ![g] = "bound"] /\ listens' = listens \union {g}
      BY <2>2 DEF Bind, Enters
    <3>2. UNCHANGED <<port, exit, live, served, cut, runFile, tokFile, faulted>>
      BY <2>2 DEF Bind, files
    <3>3. overlapped' \in BOOLEAN
      BY <2>2 DEF Bind
    <3>4. listens' \subseteq Gateways
      BY <3>1 DEF SessionTypeOK
    <3>5. \A a \in listens', b \in listens' : port'[a] = port'[b] => a = b
      <4>1. \A a \in listens : port[a] # port[g]
        BY <2>2 DEF Bind
      <4>2. \A a \in listens, b \in listens : port[a] = port[b] => a = b
        BY DEF SessionTypeOK
      <4> QED
        BY <3>1, <3>2, <4>1, <4>2
    <3>6. life' \in [Gateways -> {"off", "bound", "named", "up", "serving", "stopping",
                                 "unnaming", "exited"}]
      BY <3>1 DEF SessionTypeOK
    <3> QED
      BY <3>2, <3>3, <3>4, <3>5, <3>6 DEF SessionTypeOK
  <2> QED
    BY <2>1, <2>2
<1>2. Flights'
  <2>1. CASE StartFails(g)
    BY <2>1 DEF SessionTypeOK, Flights, StartFails, Enters, files, notes
  <2>2. CASE Bind(g)
    BY <2>2 DEF SessionTypeOK, Flights, Bind, Enters, files, notes
  <2> QED
    BY <2>1, <2>2
<1>3. Owned'
  <2>1. CASE StartFails(g)
    BY <2>1 DEF SessionTypeOK, Owned, Alive, Naming, Holding, StartFails, Enters, files, notes
  <2>2. CASE Bind(g)
    <3> SUFFICES ASSUME ~ overlapped' PROVE Owned'
      BY DEF Owned
    <3>1. ~ overlapped /\ \A h \in Gateways : ~ Alive(h)
      BY <2>2 DEF Bind
    <3>2. /\ \A h \in Gateways : Alive(h)' => h = g
          /\ life'[g] = "bound"
      BY <2>2, <3>1 DEF SessionTypeOK, Bind, Enters, Alive
    <3>3. faulted' = faulted /\ runFile' = runFile /\ tokFile' = tokFile
      BY <2>2 DEF Bind, files
    <3>4. ~ faulted => runFile \notin Gateways /\ tokFile \notin Gateways
      BY <3>1 DEF Owned, Alive, Naming, Holding
    <3> QED
      BY <3>2, <3>3, <3>4 DEF Owned, Alive, Naming, Holding
  <2> QED
    BY <2>1, <2>2
<1> QED
  BY <1>1, <1>2, <1>3

\* It writes its two files and starts to serve.
LEMMA SessionUp ==
  ASSUME SessionInv, NEW g \in Gateways, WriteRun(g) \/ WriteToken(g) \/ Notify(g)
  PROVE  SessionInv'
<1> USE DEF SessionInv
<1>1. SessionTypeOK'
  <2>1. CASE WriteRun(g)
    BY <2>1 DEF SessionTypeOK, WriteRun, Enters, files, notes
  <2>2. CASE WriteToken(g)
    BY <2>2 DEF SessionTypeOK, WriteToken, Enters, files, notes
  <2>3. CASE Notify(g)
    BY <2>3 DEF SessionTypeOK, Notify, Enters, files, notes
  <2> QED
    BY <2>1, <2>2, <2>3
<1>2. Flights'
  <2>1. CASE WriteRun(g)
    BY <2>1 DEF SessionTypeOK, Flights, WriteRun, Enters, files, notes
  <2>2. CASE WriteToken(g)
    BY <2>2 DEF SessionTypeOK, Flights, WriteToken, Enters, files, notes
  <2>3. CASE Notify(g)
    BY <2>3 DEF SessionTypeOK, Flights, Notify, Enters, files, notes
  <2> QED
    BY <2>1, <2>2, <2>3
<1>3. Owned'
  <2>1. CASE WriteRun(g)
    BY <2>1 DEF SessionTypeOK, Owned, Alive, Naming, Holding, WriteRun, Enters, files, notes
  <2>2. CASE WriteToken(g)
    BY <2>2 DEF SessionTypeOK, Owned, Alive, Naming, Holding, WriteToken, Enters, files, notes
  <2>3. CASE Notify(g)
    BY <2>3 DEF SessionTypeOK, Owned, Alive, Naming, Holding, Notify, Enters, files, notes
  <2> QED
    BY <2>1, <2>2, <2>3
<1> QED
  BY <1>1, <1>2, <1>3

\* It stops by itself: the signal, the end of the drain, a broken listener.
LEMMA SessionStop ==
  ASSUME SessionInv, NEW g \in Gateways, Interrupt(g) \/ ShutdownEnds(g) \/ ServeFails(g)
  PROVE  SessionInv'
<1> USE DEF SessionInv
<1>1. SessionTypeOK'
  <2>1. CASE Interrupt(g)
    BY <2>1 DEF SessionTypeOK, Interrupt, Enters, files, notes
  <2>2. CASE ShutdownEnds(g)
    BY <2>2 DEF SessionTypeOK, ShutdownEnds, Enters, files, notes
  <2>3. CASE ServeFails(g)
    BY <2>3 DEF SessionTypeOK, ServeFails, Enters, files, notes
  <2> QED
    BY <2>1, <2>2, <2>3
<1>2. Flights'
  <2>1. CASE Interrupt(g)
    BY <2>1 DEF SessionTypeOK, Flights, Interrupt, Enters, files, notes
  <2>2. CASE ShutdownEnds(g)
    BY <2>2 DEF SessionTypeOK, Flights, ShutdownEnds, Enters, files, notes
  <2>3. CASE ServeFails(g)
    BY <2>3 DEF SessionTypeOK, Flights, ServeFails, Enters, files, notes
  <2> QED
    BY <2>1, <2>2, <2>3
<1>3. Owned'
  <2>1. CASE Interrupt(g)
    BY <2>1, SessionOK DEF SessionTypeOK, Owned, Alive, Naming, Holding, Interrupt, Enters, files, notes
  <2>2. CASE ShutdownEnds(g)
    BY <2>2, SessionOK DEF SessionTypeOK, Owned, Alive, Naming, Holding, ShutdownEnds, Enters, files, notes
  <2>3. CASE ServeFails(g)
    BY <2>3, SessionOK DEF SessionTypeOK, Owned, Alive, Naming, Holding, ServeFails, Enters, files, notes
  <2> QED
    BY <2>1, <2>2, <2>3
<1> QED
  BY <1>1, <1>2, <1>3

\* Its process ends, by itself or not.
LEMMA SessionEnd ==
  ASSUME SessionInv, NEW g \in Gateways,
         WriteFails(g) \/ Kill(g) \/ RemoveToken(g) \/ RemoveFails(g)
  PROVE  SessionInv'
<1> USE DEF SessionInv
<1>1. SessionTypeOK'
  <2>0. 0 \in 0 .. MaxRequests
    BY SessionOK
  <2>1. CASE WriteFails(g) \/ Kill(g) \/ RemoveToken(g)
    <3>1. \E e \in {"failed", "killed", exit[g]} : Exits(g, e)
      BY <2>1 DEF WriteFails, Kill, RemoveToken
    <3>2. /\ runFile' \in {runFile, Nobody} /\ tokFile' \in {tokFile, Nobody}
          /\ faulted' \in BOOLEAN /\ overlapped' \in BOOLEAN
      BY <2>1 DEF SessionTypeOK, WriteFails, Kill, RemoveToken, files, notes
    <3> QED
      BY <2>0, <3>1, <3>2 DEF SessionTypeOK, Exits, Enters
  <2>2. CASE RemoveFails(g)
    <3>1. /\ listens' \in {listens, listens \ {g}} /\ port' = port /\ served' = served
          /\ UNCHANGED <<runFile, tokFile, overlapped>> /\ faulted' = TRUE
      BY <2>2 DEF RemoveFails, Exits, files
    <3>2. \E l \in {"unnaming", "exited"} : life' = [life EXCEPT ![g] = l]
      BY <2>2 DEF RemoveFails, Exits, Enters
    <3>3. \E e \in {"clean", "failed", exit[g]} : exit' \in {exit, [exit EXCEPT ![g] = e]}
      BY <2>2 DEF RemoveFails, Exits
    <3>4. live' \in {live, [live EXCEPT ![g] = 0]} /\ cut' \in {cut, [cut EXCEPT ![g] = live[g]]}
      BY <2>2 DEF RemoveFails, Exits
    <3> QED
      BY <2>0, <3>1, <3>2, <3>3, <3>4 DEF SessionTypeOK
  <2> QED
    BY <2>1, <2>2
<1>2. Flights'
  <2>1. CASE WriteFails(g)
    BY <2>1 DEF SessionTypeOK, Flights, Alive, WriteFails, Exits, Enters, files, notes
  <2>2. CASE Kill(g)
    BY <2>2 DEF SessionTypeOK, Flights, Alive, Kill, Exits, Enters, files, notes
  <2>3. CASE RemoveToken(g)
    BY <2>3 DEF SessionTypeOK, Flights, Alive, RemoveToken, Exits, Enters, files, notes
  <2>4. CASE RemoveFails(g)
    BY <2>4 DEF SessionTypeOK, Flights, Alive, RemoveFails, Exits, Enters, files, notes
  <2> QED
    BY <2>1, <2>2, <2>3, <2>4
<1>3. Owned'
  <2>1. CASE WriteFails(g)
    BY <2>1, SessionOK DEF SessionTypeOK, Owned, Alive, Naming, Holding, WriteFails, Exits, Enters, files, notes
  <2>2. CASE Kill(g)
    BY <2>2, SessionOK DEF SessionTypeOK, Owned, Alive, Naming, Holding, Kill, Exits, Enters, files, notes
  <2>3. CASE RemoveToken(g)
    BY <2>3, SessionOK DEF SessionTypeOK, Owned, Alive, Naming, Holding, RemoveToken, Exits, Enters, files, notes
  <2>4. CASE RemoveFails(g)
    BY <2>4, SessionOK DEF SessionTypeOK, Owned, Alive, Naming, Holding, RemoveFails, Exits, Enters, files, notes
  <2> QED
    BY <2>1, <2>2, <2>3, <2>4
<1> QED
  BY <1>1, <1>2, <1>3

\* An exchange begins or ends. The drain's report came after the last one.
LEMMA SessionExchange ==
  ASSUME SessionInv, NEW g \in Gateways,
         Finish(g) \/ \E h \in Hosts, o \in Origins : Request(g, h, o)
  PROVE  SessionInv'
<1> USE DEF SessionInv
<1>1. CASE Finish(g)
  <2>1. live[g] \in 1 .. MaxRequests /\ live[g] - 1 \in 0 .. MaxRequests
    BY <1>1, SessionOK DEF Finish, SessionTypeOK
  <2>2. SessionTypeOK'
    BY <1>1, <2>1 DEF SessionTypeOK, Finish, files, notes
  <2>3. Flights'
    BY <1>1, <2>1, SessionOK DEF SessionTypeOK, Flights, Finish, files, notes
  <2>4. Owned'
    BY <1>1 DEF Owned, Alive, Finish, files, notes
  <2> QED
    BY <2>2, <2>3, <2>4
<1>2. ASSUME NEW h \in Hosts, NEW o \in Origins, Request(g, h, o) PROVE SessionInv'
  <2>1. /\ served[g] \in 0 .. MaxRequests /\ served[g] + 1 \in 0 .. MaxRequests
        /\ live[g] \in 0 .. MaxRequests /\ live[g] + 1 <= served[g] + 1
        /\ live[g] + 1 \in 0 .. MaxRequests
    BY <1>2, SessionOK DEF Request, SessionTypeOK, Flights
  <2>2. SessionTypeOK'
    BY <1>2, <2>1 DEF SessionTypeOK, Request, files, notes
  <2>3. Flights'
    BY <1>2, <2>1 DEF SessionTypeOK, Flights, Request, Serves, files, notes
  <2>4. Owned'
    BY <1>2 DEF Owned, Alive, Request, files, notes
  <2> QED
    BY <2>2, <2>3, <2>4
<1> QED
  BY <1>1, <1>2

\* A status command reads and asks, and changes nothing of a gateway.
LEMMA SessionStatus ==
  ASSUME SessionInv, NEW c \in Commands, Status(c)
  PROVE  SessionInv'
<1>1. UNCHANGED <<life, port, listens, exit, live, served, cut, files, notes>>
  BY DEF Status, ReadRun, ReadToken, Call, AnswerStatus, CallFails, Ends, Sets
<1> QED
  BY <1>1 DEF SessionInv, SessionTypeOK, Flights, Owned, Alive, files, notes

\* Every step keeps the invariant.
LEMMA SessionSteps == SessionInv /\ [SessionNext]_sessionVars => SessionInv'
<1> SUFFICES ASSUME SessionInv, [SessionNext]_sessionVars PROVE SessionInv'
  OBVIOUS
<1>1. CASE UNCHANGED sessionVars
  BY <1>1 DEF sessionVars, SessionInv, SessionTypeOK, Flights, Owned, Alive, files, notes
<1>2. ASSUME NEW g \in Gateways,
             \/ Bind(g) \/ StartFails(g) \/ Proceed(g) \/ WriteFails(g)
             \/ Kill(g) \/ Interrupt(g) \/ ServeFails(g) \/ RemoveFails(g)
             \/ Finish(g)
             \/ \E h \in Hosts, o \in Origins : Request(g, h, o)
      PROVE  SessionInv'
  BY <1>2, SessionBind, SessionUp, SessionStop, SessionEnd, SessionExchange DEF Proceed
<1>3. ASSUME NEW c \in Commands, Status(c) PROVE SessionInv'
  BY <1>3, SessionStatus
<1> QED
  BY <1>1, <1>2, <1>3 DEF SessionNext

-----------------------------------------------------------------------------

\* Every reachable state is well typed, and no two open listeners have one port:
\* the bind of runWith comes before anything is written.
THEOREM SessionTypeCorrect == SessionSpec => []SessionTypeOK
<1>1. SessionInv => SessionTypeOK
  BY DEF SessionInv
<1> QED
  BY <1>1, SessionStarts, SessionSteps, PTL DEF SessionSpec

\* The session files describe the gateway that runs, and nothing that is gone
\* unless a process was killed or a removal failed (WriteSession, RemoveSession).
THEOREM FilesDescribe == SessionSpec => []FilesDescribeGateway
<1>1. SessionInv => FilesDescribeGateway
  <2> SUFFICES ASSUME SessionInv, Settled, ~ overlapped PROVE
        /\ \A g \in Gateways : Alive(g) => runFile = g /\ tokFile = g
        /\ ~ faulted => {g \in Gateways : runFile = g \/ tokFile = g} \subseteq
                          {g \in Gateways : Alive(g)}
    BY DEF FilesDescribeGateway
  <2>1. \A g \in Gateways : Alive(g) => life[g] \in {"up", "serving"}
    BY DEF Settled, Alive
  <2> QED
    BY <2>1 DEF SessionInv, Owned, Naming, Holding, Alive
<1> QED
  BY <1>1, SessionStarts, SessionSteps, PTL DEF SessionSpec

\* A gateway that exits with code 0 has let every exchange finish (serve).
THEOREM CleanExit == SessionSpec => []CleanExitCutsNothing
<1>1. SessionInv => CleanExitCutsNothing
  BY DEF SessionInv, Flights, CleanExitCutsNothing
<1> QED
  BY <1>1, SessionStarts, SessionSteps, PTL DEF SessionSpec
=============================================================================
