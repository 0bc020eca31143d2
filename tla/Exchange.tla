------------------------------ MODULE Exchange ------------------------------
(***************************************************************************)
(* The exchanges one gateway serves: the fail-closed data plane            *)
(* (pkg/proxy/dataplane.go), the forwarder and its redaction transform     *)
(* (forward.go, internal/cli/redact_request.go, pkg/redact), and the       *)
(* buffered response path (internal/cli/response_writer.go,                *)
(* pkg/proxy/response_buffered.go, response_sse_buffered.go).              *)
(*                                                                         *)
(* Each request runs in a goroutine of its own. They share the forward map *)
(* of the placeholder engine, the reverse map of the backfiller, each      *)
(* under its own mutex, and the counters. A step is what happens between   *)
(* two accesses to shared state, the network or the clock.                 *)
(*                                                                         *)
(* A request text is a sequence of cells; a secret is the slice of cells   *)
(* one finding spans, together with its category. A placeholder is a rung  *)
(* of the secret's digest ladder under the salt of one gateway session.    *)
(***************************************************************************)
EXTENDS Integers, Sequences, FiniteSets, FiniteSetsExt, SequencesExt

CONSTANTS
  Requests,     \* request slots; each serves one request
  Bodies,       \* request bodies a client may send
  Replies,      \* responses an upstream may give
  Ladder,       \* Ladder[s]: the digest prefixes of secret s, shortest first
  Allowlist,    \* the configured literals, and the control token
  MaxSessions,  \* bound on gateway starts
  MaxEcho       \* bound on the distinct placeholders one reply carries

Spans    == [from : Nat \ {0}, to : Nat \ {0}]
Slice(b, s) == SubSeq(b.text, s.from, s.to)
Secrets  == UNION {{Slice(b, s) : s \in b.spans} : b \in Bodies}
Rungs(s) == {Ladder[s][i] : i \in DOMAIN Ladder[s]}
Sessions == 1 .. MaxSessions
Placeholders ==
  [session : Sessions, name : UNION {Rungs(s) : s \in Secrets}]

ASSUME SlotsOK ==
  /\ IsFiniteSet(Requests) /\ MaxSessions \in Nat \ {0}
  /\ Replies # {} /\ \A rep \in Replies : IsFiniteSet(DOMAIN rep.events)

\* The full digests of two secrets differ (SHA-256), so a ladder never runs out.
ASSUME LadderEnds ==
  /\ \A s \in Secrets : Ladder[s] \in Seq(Rungs(s)) /\ Ladder[s] # <<>>
  /\ \A s, t \in Secrets : s # t => Last(Ladder[s]) \notin Rungs(t)

ASSUME BodiesOK ==
  /\ Bodies # {}
  /\ \A b \in Bodies :
       /\ IsFiniteSet(b.spans)
       /\ \A s \in b.spans : s \in Spans /\ s.from <= s.to /\ s.to <= Len(b.text)
       /\ ~ b.walks => b.spans = {} /\ ~ b.blocks

VARIABLES
  pc,        \* pc[r] is the next step of request r
  body,      \* body[r] is the client's body
  minted,    \* minted[r]: placeholders of the first findings, in order
  out,       \* out[r]: what the outbound body says; see Splice
  sent,      \* the requests whose outbound body reached an upstream
  reply,     \* reply[r] is the upstream's response
  echo,      \* echo[r] is the set of placeholders in it
  ending,    \* ending[r]: how the copy of the response ended
  answer,    \* answer[r] is what the client got
  forward,   \* engine.forward: secret -> placeholder
  reverse,   \* Backfiller.reverse: placeholder -> secret
  session,   \* the number of gateway starts, which identifies the salt
  count      \* the counters of GET /status

vault == <<forward, reverse, session>>
vars  == <<pc, body, minted, out, sent, reply, echo, ending, answer, vault, count>>

Waiting  == {"body", "await"}   \* on the client; on the upstream
Working  == {"inspect", "route", "transform", "mint", "map", "dial", "copy",
             "finish", "restore"}
Terminal == {"answered", "lost"}

NoReply  == CHOOSE x \in Replies : TRUE
Nothing  == [raw |-> {}, subs |-> {}]
NoAnswer == [by |-> "none", status |-> 0, session |-> 0, restored |-> {}]
Empty    == [x \in {} |-> x]
Zero     == [requests |-> 0, redactions |-> 0, content |-> 0, rule |-> 0, skips |-> 0]

Init ==
  /\ pc      = [r \in Requests |-> "idle"]
  /\ body    = [r \in Requests |-> CHOOSE b \in Bodies : TRUE]
  /\ minted  = [r \in Requests |-> <<>>]
  /\ out     = [r \in Requests |-> Nothing]
  /\ sent    = {}
  /\ reply   = [r \in Requests |-> NoReply]
  /\ echo    = [r \in Requests |-> {}]
  /\ ending  = [r \in Requests |-> "none"]
  /\ answer  = [r \in Requests |-> NoAnswer]
  /\ forward = Empty
  /\ reverse = Empty
  /\ session = 1
  /\ count   = Zero

At(r, l)       == pc[r] = l
Go(r, l)       == pc' = [pc EXCEPT ![r] = l]
Bump(c, slots) == [k \in DOMAIN c |-> IF k \in slots THEN c[k] + 1 ELSE c[k]]
Counting(slots) == count' = Bump(count, slots)

\* The one answer of request r, whose goroutine ends with it.
Answer(r, by, status, restored) ==
  /\ Go(r, "answered")
  /\ minted' = [minted EXCEPT ![r] = <<>>]
  /\ reply'  = [reply EXCEPT ![r] = NoReply]
  /\ ending' = [ending EXCEPT ![r] = "none"]
  /\ answer' = [answer EXCEPT ![r] =
       [by |-> by, status |-> status, session |-> session, restored |-> restored]]

\* Answered before or instead of the upstream's response.
Local(r, by, status) ==
  /\ Answer(r, by, status, {})
  /\ UNCHANGED <<body, out, sent, echo, vault>>

Step(r, l) ==
  /\ Go(r, l)
  /\ UNCHANGED <<body, minted, out, sent, reply, echo, ending, answer, vault>>

-----------------------------------------------------------------------------
(* The data plane: DataPlane.ServeHTTP, inspect, refuse, block. *)

\* countRequests counts before the gate.
Arrive(r, b) ==
  /\ At(r, "idle")
  /\ body' = [body EXCEPT ![r] = b]
  /\ Counting({"requests"})
  /\ Go(r, "body")
  /\ UNCHANGED <<minted, out, sent, reply, echo, ending, answer, vault>>

\* Mutant of ReadBody: a body over the cap is cut and passed on.
ReadBody_Truncating(r) ==
  /\ At(r, "body")
  /\ Step(r, IF ~ body[r].coded /\ body[r].declares THEN "inspect" ELSE "route")
  /\ UNCHANGED count

\* An encoded body is passed on unread; one over the cap, or broken off by the
\* client, is refused.
ReadBody(r) ==
  /\ At(r, "body")
  /\ IF body[r].coded
       THEN Step(r, "route") /\ UNCHANGED count
       ELSE \/ /\ body[r].over
               /\ Local(r, "plane", 403)
               /\ Counting({"content"})
            \/ /\ Local(r, "plane", 400)
               /\ Counting({"content"})
            \/ /\ ~ body[r].over
               /\ Step(r, IF body[r].declares THEN "inspect" ELSE "route")
               /\ UNCHANGED count

\* inspect, the ways out that refuse: no walk, a failing detector, a block.
Unwalkable(r) ==
  /\ At(r, "inspect")
  /\ ~ body[r].walks
  /\ Local(r, "plane", 400)
  /\ Counting({"content"})

DetectorFails(r) ==
  /\ At(r, "inspect")
  /\ Local(r, "plane", 403)
  /\ Counting({"content"})

Blocked(r) ==
  /\ At(r, "inspect")
  /\ body[r].blocks
  /\ Local(r, "block", 403)
  /\ Counting({"content", "rule"})

Admitted(r) ==
  /\ At(r, "inspect")
  /\ body[r].walks
  /\ ~ body[r].blocks
  /\ Step(r, "route")
  /\ UNCHANGED count

-----------------------------------------------------------------------------
(* Routing, and the redaction transform. *)

\* gateway.route, then the forwarder's own check of the content coding.
Route(r) ==
  /\ At(r, "route")
  /\ CASE body[r].path = "unknown" -> Local(r, "route", 404)
       [] body[r].path = "models"  -> Local(r, "route", 200)
       [] OTHER -> IF body[r].coded THEN Local(r, "forwarder", 415)
                                    ELSE Step(r, "transform")
  /\ UNCHANGED count

\* The findings of a body, in the order collect sorts them.
Before(s, t) == s.from < t.from \/ (s.from = t.from /\ s.to < t.to)
Findings(b)  ==
  CHOOSE f \in [1 .. Cardinality(b.spans) -> b.spans] :
    \A i, j \in DOMAIN f : i < j => Before(f[i], f[j])

\* protocol.Apply keeps the first of overlapping edits: Cursor(f)[i] is the end
\* of the last one kept of the first i.
Cursor(f) ==
  LET end[i \in 0 .. Len(f)] ==
        IF i = 0 THEN 0
        ELSE IF f[i].from > end[i - 1] THEN f[i].to ELSE end[i - 1]
  IN  end
Kept(f) == {i \in DOMAIN f : f[i].from > Cursor(f)[i - 1]}

\* The outbound body: the cells sent as they were, and for every replaced slice
\* the secret it was and the placeholder sent in its place.
Splice(b, placeholders) ==
  LET f    == Findings(b)
      kept == Kept(f)
  IN  [raw  |-> {i \in DOMAIN b.text : \A k \in kept : i \notin f[k].from .. f[k].to},
       subs |-> {[span |-> f[k], was |-> Slice(b, f[k]), placeholder |-> placeholders[k]] :
                 k \in kept}]

Unchanged(b) == [raw |-> DOMAIN b.text, subs |-> {}]

\* Mutant of Transform: the body of a failed transform is sent as it came.
Transform_FailsOpen(r) ==
  /\ At(r, "transform")
  /\ IF body[r].walks /\ body[r].spans # {}
       THEN \/ Step(r, "mint")
            \/ /\ out' = [out EXCEPT ![r] = Unchanged(body[r])]
               /\ Go(r, "dial")
               /\ UNCHANGED <<body, minted, sent, reply, echo, ending, answer, vault>>
       ELSE /\ out' = [out EXCEPT ![r] = Unchanged(body[r])]
            /\ Go(r, "dial")
            /\ UNCHANGED <<body, minted, sent, reply, echo, ending, answer, vault>>
  /\ UNCHANGED count

\* redactRequest decides again, on any body that walks, declared JSON or not.
Transform(r) ==
  /\ At(r, "transform")
  /\ \/ /\ body[r].walks
        /\ Local(r, "forwarder", 500)        \* a detector failed this time
     \/ /\ body[r].blocks
        /\ Local(r, "forwarder", 500)
     \/ /\ ~ body[r].blocks
        /\ body[r].spans # {}
        /\ Step(r, "mint")
     \/ /\ ~ body[r].blocks
        /\ body[r].spans = {}
        /\ out' = [out EXCEPT ![r] = Unchanged(body[r])]
        /\ Go(r, "dial")
        /\ UNCHANGED <<body, minted, sent, reply, echo, ending, answer, vault>>
  /\ UNCHANGED count

\* The secret of the next finding to mint.
Finding(r) == Findings(body[r])[Len(minted[r]) + 1]
Secret(r)  == Slice(body[r], Finding(r))

\* The shortest rung of the ladder that no other secret has.
Free(s) ==
  LET taken == {forward[t].name : t \in DOMAIN forward}
      rung  == Min({i \in DOMAIN Ladder[s] : Ladder[s][i] \notin taken})
  IN  [session |-> session, name |-> Ladder[s][rung]]

\* A map with an entry written.
Put(f, key, value) == [x \in DOMAIN f \cup {key} |-> IF x = key THEN value ELSE f[x]]

\* Mutant of Placeholder: a secret the engine knows is taken to be mapped.
Placeholder_HitIsMapped(r) ==
  /\ At(r, "mint")
  /\ Len(minted[r]) < Cardinality(body[r].spans)
  /\ IF Secret(r) \in DOMAIN forward
       THEN /\ minted' = [minted EXCEPT ![r] = Append(@, forward[Secret(r)])]
            /\ UNCHANGED <<pc, forward>>
       ELSE /\ forward' = Put(forward, Secret(r), Free(Secret(r)))
            /\ Go(r, "map")
            /\ UNCHANGED minted
  /\ UNCHANGED <<body, out, sent, reply, echo, ending, answer, reverse, session, count>>

\* Mint, first half: engine.placeholder, under the engine's mutex.
Placeholder(r) ==
  /\ At(r, "mint")
  /\ Len(minted[r]) < Cardinality(body[r].spans)
  /\ forward' = IF Secret(r) \in DOMAIN forward
                  THEN forward
                  ELSE Put(forward, Secret(r), Free(Secret(r)))
  /\ Go(r, "map")
  /\ UNCHANGED <<body, minted, out, sent, reply, echo, ending, answer, reverse, session, count>>

\* Mint, second half: Backfiller.Map, under the backfiller's mutex.
Map(r) ==
  /\ At(r, "map")
  /\ LET p == forward[Secret(r)]
     IN  /\ reverse' = Put(reverse, p, Secret(r))
         /\ minted'  = [minted EXCEPT ![r] = Append(@, p)]
  /\ Go(r, "mint")
  /\ UNCHANGED <<body, out, sent, reply, echo, ending, answer, forward, session, count>>

\* Every finding has a placeholder: splice, and count what was replaced.
Apply(r) ==
  /\ At(r, "mint")
  /\ Len(minted[r]) = Cardinality(body[r].spans)
  /\ out' = [out EXCEPT ![r] = Splice(body[r], minted[r])]
  /\ count' = [count EXCEPT !.redactions = @ + Cardinality(out'[r].subs)]
  /\ Go(r, "dial")
  /\ UNCHANGED <<body, minted, sent, reply, echo, ending, answer, vault>>

-----------------------------------------------------------------------------
(* The upstream: Forwarder.ServeHTTP from client.Do to the end of io.Copy,   *)
(* under the response_timeout deadline that route put on the context.        *)

Heard == UNION {{s.placeholder : s \in out[r].subs} : r \in sent}

Send(r) ==
  /\ At(r, "dial")
  /\ sent' = sent \cup {r}
  /\ Go(r, "await")
  /\ UNCHANGED <<body, minted, out, reply, echo, ending, answer, vault, count>>

\* No connection, or none that outlives the request: writeTransportError.
Unreachable(r) ==
  /\ pc[r] \in {"dial", "await"}
  /\ Local(r, "forwarder", 502)
  /\ UNCHANGED count

\* The upstream answers, with placeholders it has heard in any session.
Reply(r, rep, e) ==
  /\ At(r, "await")
  /\ reply' = [reply EXCEPT ![r] = rep]
  /\ echo'  = [echo EXCEPT ![r] = e]
  /\ Go(r, "copy")
  /\ UNCHANGED <<body, minted, out, sent, ending, answer, vault, count>>

\* Mutant of Deadline: it bounds the wait for the headers alone.
Deadline_HeadersOnly(r) ==
  /\ pc[r] \in {"dial", "await"}
  /\ Local(r, "forwarder", 504)
  /\ UNCHANGED count

\* The deadline, before the headers and during the body.
Deadline(r) ==
  /\ \/ /\ pc[r] \in {"dial", "await"}
        /\ Local(r, "forwarder", 504)
     \/ /\ At(r, "copy")
        /\ ending' = [ending EXCEPT ![r] = "late"]
        /\ Go(r, "finish")
        /\ UNCHANGED <<body, minted, out, sent, reply, echo, answer, vault>>
  /\ UNCHANGED count

\* responseWriter.Write and RecordCopyError: the end of the body, the cap, or an
\* error that is not the deadline's, which leaves what came as the body.
Copied(r, how) ==
  /\ At(r, "copy")
  /\ how \in (IF reply[r].over THEN {"capped", "broken"} ELSE {"whole", "broken"})
  /\ ending' = [ending EXCEPT ![r] = how]
  /\ Go(r, "finish")
  /\ UNCHANGED <<body, minted, out, sent, reply, echo, answer, vault, count>>

-----------------------------------------------------------------------------
(* The response: responseWriter.finish, Handle and HandleBufferedSSE. *)

\* A document that was cut does not parse. What a cut event stream still holds
\* is a reply of its own.
Walks(r, e)  == e.walks /\ (ending[r] = "broken" => reply[r].sse)
Decodes(r)   == \/ reply[r].coding = "none"
                \/ reply[r].coding = "gzip" /\ ending[r] = "whole"
Evaluated(r) == {i \in DOMAIN reply[r].events : reply[r].sse => reply[r].events[i].json}
Skipped(r)   == {i \in Evaluated(r) : ~ Walks(r, reply[r].events[i])}
Rated(r)     == Evaluated(r) \ Skipped(r)

\* The refusals of finish, the cap before the deadline, and of decodeAll.
Refuse(r) ==
  /\ At(r, "finish")
  /\ \/ ending[r] = "capped" /\ Local(r, "response", 502)
     \/ ending[r] = "late"   /\ Local(r, "response", 504)
     \/ ending[r] \in {"whole", "broken"} /\ ~ Decodes(r) /\ Local(r, "response", 502)
  /\ UNCHANGED count

\* Mutant of Evaluate: a refused response is not in the status counters.
Evaluate_Uncounted(r) ==
  /\ At(r, "finish")
  /\ ending[r] \in {"whole", "broken"}
  /\ Decodes(r)
  /\ \/ /\ Rated(r) # {}
        /\ Local(r, "rule", 502)
        /\ UNCHANGED count
     \/ /\ \A i \in Rated(r) : ~ reply[r].events[i].blocks
        /\ count' = [count EXCEPT !.skips = @ + Cardinality(Skipped(r))]
        /\ Step(r, "restore")

\* One block among the documents evaluated, or one detector that fails, refuses
\* the whole response; a warning changes nothing.
Evaluate(r) ==
  /\ At(r, "finish")
  /\ ending[r] \in {"whole", "broken"}
  /\ Decodes(r)
  /\ LET skipped == [count EXCEPT !.skips = @ + Cardinality(Skipped(r))]
     IN  \/ /\ Rated(r) # {}
            /\ Local(r, "rule", 502)
            /\ count' = Bump(skipped, {"content", "rule"})
         \/ /\ \A i \in Rated(r) : ~ reply[r].events[i].blocks
            /\ count' = skipped
            /\ Step(r, "restore")

\* Mutant of Restore: the exclusions are not consulted.
Restore_All(r) ==
  /\ At(r, "restore")
  /\ Answer(r, "upstream", 200,
       {[placeholder |-> p, secret |-> reverse[p]] : p \in echo[r] \cap DOMAIN reverse})
  /\ UNCHANGED <<body, out, sent, echo, vault, count>>

\* Backfill over a snapshot of the reverse map, and the commit. 200 stands for
\* the status the upstream chose.
Restore(r) ==
  /\ At(r, "restore")
  /\ LET known == {p \in echo[r] \cap DOMAIN reverse : reverse[p] \notin Allowlist}
     IN  Answer(r, "upstream", 200, {[placeholder |-> p, secret |-> reverse[p]] : p \in known})
  /\ UNCHANGED <<body, out, sent, echo, vault, count>>

-----------------------------------------------------------------------------
(* The gateway's life, and the next-state relation. *)

\* The exchanges in flight end without an answer.
Abandon ==
  LET lost == {r \in Requests : pc[r] \notin {"idle", "answered"}}
  IN  /\ pc'     = [r \in Requests |-> IF r \in lost THEN "lost" ELSE pc[r]]
      /\ minted' = [r \in Requests |-> <<>>]
      /\ out'    = [r \in Requests |-> IF r \in sent THEN out[r] ELSE Nothing]
      /\ reply'  = [r \in Requests |-> NoReply]
      /\ ending' = [r \in Requests |-> "none"]

\* Mutant of Restart: the salt of the last session is used again.
Restart_SameSalt ==
  /\ session < MaxSessions
  /\ forward' = Empty
  /\ reverse' = Empty
  /\ count'   = Zero
  /\ Abandon
  /\ UNCHANGED <<body, sent, echo, answer, session>>

\* The process ends, with the exchanges in flight, and another one starts: a
\* new salt, empty maps, zero counters (buildGateway).
Restart ==
  /\ session < MaxSessions
  /\ session' = session + 1
  /\ forward' = Empty
  /\ reverse' = Empty
  /\ count'   = Zero
  /\ Abandon
  /\ UNCHANGED <<body, sent, echo, answer>>

Echoes == {e \in SUBSET Heard : Cardinality(e) <= MaxEcho}

\* The gateway's own steps, which wait for neither client nor upstream.
Serve(r) ==
  \/ Unwalkable(r) \/ DetectorFails(r) \/ Blocked(r) \/ Admitted(r)
  \/ Route(r) \/ Transform(r) \/ Placeholder(r) \/ Map(r) \/ Apply(r)
  \/ Send(r) \/ Deadline(r) \/ Refuse(r) \/ Evaluate(r) \/ Restore(r)

World(r) ==
  \/ \E b \in Bodies : Arrive(r, b)
  \/ ReadBody(r)
  \/ Unreachable(r)
  \/ \E rep \in Replies, e \in Echoes : Reply(r, rep, e)
  \/ \E how \in {"whole", "capped", "broken"} : Copied(r, how)

Next == Restart \/ \E r \in Requests : Serve(r) \/ World(r)

\* The Go scheduler runs every goroutine that can run; the deadline fires.
Fairness == \A r \in Requests : WF_vars(Serve(r))

Spec == Init /\ [][Next]_vars /\ Fairness

-----------------------------------------------------------------------------
(* Properties. *)

Cells         == UNION {DOMAIN b.text : b \in Bodies}
Substitutions == [span : Spans, was : Secrets, placeholder : Placeholders]
Restorations  == [placeholder : Placeholders, secret : Secrets]
Answerers     == {"none", "plane", "block", "route", "forwarder", "response", "rule", "upstream"}

\* Types of the state: a placeholder is always a rung of its secret's ladder, no
\* request mints more placeholders than it has findings.
TypeOK ==
  /\ pc \in [Requests -> {"idle"} \cup Waiting \cup Working \cup Terminal]
  /\ body \in [Requests -> Bodies]
  /\ reply \in [Requests -> Replies]
  /\ sent \subseteq Requests
  /\ ending \in [Requests -> {"none", "whole", "capped", "broken", "late"}]
  /\ session \in Sessions
  /\ forward \in [DOMAIN forward -> Placeholders] /\ DOMAIN forward \subseteq Secrets
  /\ \A s \in DOMAIN forward : forward[s].session = session /\ forward[s].name \in Rungs(s)
  /\ reverse \in [DOMAIN reverse -> Secrets] /\ DOMAIN reverse \subseteq Placeholders
  /\ minted \in [Requests -> Seq(Placeholders)]
  /\ \A r \in Requests : Len(minted[r]) <= Cardinality(body[r].spans)
  /\ out \in [Requests -> [raw : SUBSET Cells, subs : SUBSET Substitutions]]
  /\ \A r \in Requests : out[r].raw \subseteq DOMAIN body[r].text
  /\ echo \in [Requests -> SUBSET Placeholders]
  /\ answer \in [Requests -> [by : Answerers, status : Nat, session : 0 .. MaxSessions,
                              restored : SUBSET Restorations]]
  /\ count \in [DOMAIN Zero -> Nat]

\* A placeholder an upstream heard from this gateway session is in the reverse
\* map, for the secret it replaced, however the exchanges interleave between the
\* engine's mutex and the backfiller's (Mint, backfill.go).
SentIsMapped ==
  \A r \in sent : \A s \in out[r].subs :
    s.placeholder.session = session =>
      s.placeholder \in DOMAIN reverse /\ reverse[s.placeholder] = s.was

\* A response is never given a secret other than the one its placeholder
\* replaced, in this exchange or another, in this session or one before a restart
\* (backfill.go: a stale placeholder surfaces rather than a wrong secret).
NeverWrongSecret ==
  \A r, q \in Requests : \A x \in answer[r].restored : \A s \in out[q].subs :
    q \in sent /\ s.placeholder = x.placeholder => s.was = x.secret

\* A committed response restores exactly the placeholders of its own session
\* whose secret is not excluded (BackfillCount, sessionBackfiller).
RoundTrip ==
  \A r \in Requests : answer[r].by = "upstream" =>
    {x.placeholder : x \in answer[r].restored} =
      {p \in echo[r] :
        /\ p.session = answer[r].session
        /\ \E q \in sent : \E s \in out[q].subs :
             s.placeholder = p /\ s.was \notin Allowlist}

Detected(r, i)  == \E s \in body[r].spans : i \in s.from .. s.to
Overlapped(r, i) ==
  \E s, t \in body[r].spans :
    /\ s # t
    /\ i \in s.from .. s.to
    /\ s.from <= t.to /\ t.from <= s.to

\* No upstream hears a byte of a finding that overlaps no other: not when a
\* detector fails the second time, not in a body that never declared JSON
\* (redactRequest, Substitute).
DetectedNeverLeaks ==
  \A r \in sent : \A i \in out[r].raw : Detected(r, i) => Overlapped(r, i)

\* What the gateway must refuse reaches no upstream: an encoded body, one over
\* the cap, declared JSON that does not walk, a body a rule blocks, whether or
\* not it declared JSON (DataPlane.ServeHTTP, inspect, redactRequest).
RefusedNeverSent ==
  \A r \in sent :
    /\ ~ body[r].coded
    /\ ~ body[r].over
    /\ body[r].declares => body[r].walks
    /\ ~ body[r].blocks

\* The counters of GET /status account for the traffic of the session: a
\* substitution is counted before an upstream hears it, and the refusals of the
\* content policy, in both directions, are counted once each (counters.go,
\* refuse, block, Handle, evaluateSSE).
StatusAccounts ==
  LET Now(by) == {r \in Requests : answer[r].session = session /\ answer[r].by \in by}
      Subs    == UNION {{<<r, s>> : s \in out[r].subs} : r \in sent}
  IN  /\ count.rule = Cardinality(Now({"block", "rule"}))
      /\ count.content = Cardinality(Now({"plane", "block", "rule"}))
      /\ count.redactions >= Cardinality({x \in Subs : x[2].placeholder.session = session})

\* A request whose body was read is answered, unless the gateway goes down,
\* though an upstream may never answer or never end its body (response_timeout).
EveryRequestAnswered ==
  \A r \in Requests : pc[r] \in Working \cup {"await"} ~> pc[r] \in Terminal

\* README.md: "every detected secret becomes a session-scoped placeholder".
EveryDetectedByteRedacted ==
  \A r \in sent : \A i \in out[r].raw : ~ Detected(r, i)

\* A response is committed as the upstream's only when its body came whole
\* (response_buffered_test.go 579-581: a body that cannot be read is a 502, "not a
\* partial pass-through").
CommittedIsWhole ==
  [][\A r \in Requests :
       answer'[r].by = "upstream" /\ answer[r].by # "upstream" => ending[r] = "whole"]_vars

\* README.md, allowlist: "Literals that are never redacted".
AllowlistNeverRedacted ==
  \A r \in sent : \A s \in out[r].subs : s.was \notin Allowlist

=============================================================================
