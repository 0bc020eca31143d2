----------------------------- MODULE RuleEngine -----------------------------
(***************************************************************************)
(* The rule registry, the guarded evaluation and the action policy         *)
(* (pkg/filter/registry.go, collect.go, policy.go, builtin.go), and how a  *)
(* gateway assembles them (internal/cli/cli.go, run.go): the built-in      *)
(* detectors that are switched on, the cached pack when one verifies, a    *)
(* policy over a snapshot of the registry.  A third party may register     *)
(* rules of its own at any time, and register documents it compiled.       *)
(***************************************************************************)
EXTENDS RuleDocument

CONSTANTS
  Documents,   \* the documents the cache or a third party may hold
  Batches,     \* the batches of rules third parties may register
  Bodies,      \* the leaves of the bodies that are evaluated
  MaxEntries   \* bound: how many entries third parties fill the registry to

\* Rules and leaves come in sequences; a rule has its fields, the priority an integer.
ASSUME EngineOK ==
  /\ DetectorTable \in Seq(Detectors)
  /\ \A d \in Documents : /\ d.rules \in Seq(Range(d.rules))
                          /\ \A r \in Range(d.rules) :
                               {"scope", "priority"} \subseteq DOMAIN r /\ r.priority \in Int
  /\ \A batch \in Batches : /\ batch \in Seq(Range(batch))
                            /\ \A r \in Range(batch) : r.rank \in Int
  /\ \A leaves \in Bodies : /\ leaves \in Seq(Range(leaves))
                            /\ \A leaf \in Range(leaves) : leaf.value \in Seq(Words)

VARIABLES
  stage,       \* how far the gateway is assembled
  registry,    \* Registry
  policy,      \* the Policy: a snapshot of the registry
  answer       \* what the last evaluation returned, until the next registration

vars == <<stage, registry, policy, answer>>

Phases  == {"request", "response"}
Origins == {"builtin", "remote_pack", "plugin"}
Reasons == {"budget", "timeout", "panic", "malformed"}

NoFailure == [id |-> "none", origin |-> "none", reason |-> "none"]
NoAnswer  == [of |-> "none", leaves |-> <<>>, phase |-> "none", action |-> "allow",
              findings |-> <<>>, substitutions |-> <<>>, warnings |-> <<>>,
              refusal |-> NoFailure]

\* A built-in rule reports its detector's matches at the default rank.
Builtin(id) ==
  [id |-> id, rank |-> DefaultPriority, scope |-> "request", action |-> "redact",
   confidence |-> "good", nil |-> FALSE, finds |-> Detects[id], allow |-> {},
   capped |-> FALSE, turn |-> "none"]

-----------------------------------------------------------------------------
(* Registry.add, and the three ways into it. *)

RuleRegisters(r) ==
  /\ ~ r.nil /\ r.id \in Ids /\ r.scope \in Scopes /\ r.action \in Actions
  /\ r.scope = "request" \/ r.action # "redact"
  /\ r.confidence = "good"

Admissible(rules) ==
  /\ \A i \in DOMAIN rules : RuleRegisters(rules[i]) /\ rules[i].id \notin registry.ids
  /\ Unique(rules)

Entries(origin, rules, allow) ==
  [i \in DOMAIN rules |-> [rule |-> rules[i], origin |-> origin, id |-> rules[i].id,
                           rank |-> rules[i].rank, allow |-> allow]]

\* Mutant of With: the new entries stay behind the old ones.
With_Appended(reg, entries) ==
  [reg EXCEPT !.entries = @ \o entries,
              !.ids     = @ \union {entries[i].id : i \in DOMAIN entries}]

With(reg, entries) ==
  [reg EXCEPT !.entries = SortedBy(@ \o entries, ByRank),
              !.ids     = @ \union {entries[i].id : i \in DOMAIN entries}]

\* The whole batch or nothing.
Add(origin, rules, allow) ==
  IF Admissible(rules) THEN With(registry, Entries(origin, rules, allow)) ELSE registry

\* Mutant of RegisterCompiled: the sensitive keys are set before the batch is judged.
RegisterCompiled_Early(c) ==
  [Add("remote_pack", c.rules, c.allow) EXCEPT !.sensitive = c.sensitive]

RegisterCompiled(c) ==
  IF Admissible(c.rules)
  THEN [Add("remote_pack", c.rules, c.allow) EXCEPT !.sensitive = c.sensitive]
  ELSE registry

-----------------------------------------------------------------------------
(* invoke. *)

\* What a rule says under the guard, which need not be what it said when it was
\* registered; collect asks a gated leaf's rules for their action before that.
Meta(r) ==
  CASE r.turn = "both" -> [scope |-> "both", action |-> "redact"]
    [] r.turn = "mask" -> [scope |-> "request", action |-> "redact"]
    [] OTHER           -> [scope |-> r.scope, action |-> r.action]

Asked(r) == IF r.turn = "both" THEN "redact" ELSE r.action

\* Mutant of Inspect: the allowlist of the rule itself is forgotten.
Inspect_GlobalOnly(e, value) ==
  Unsuppressed(Spans(e.rule, value), value, e.allow)

\* compiledView.Inspect drops the suppressed matches; other rules have no lists.
Inspect(e, value) ==
  Unsuppressed(Spans(e.rule, value), value, e.allow \union e.rule.allow)

\* Mutant of Reason: the direction is not checked again.
Reason_TrustsScope(e, value, phase) ==
  IF ~ Covers(Meta(e.rule).scope, phase) THEN "none"
  ELSE IF e.rule.turn \in {"panic", "timeout", "budget", "malformed"} THEN e.rule.turn
  ELSE IF Len(Inspect(e, value)) > MaxMatches THEN "budget"
  ELSE "none"

\* Why an invocation fails, "none" when it does not. A rule that does not cover
\* the phase is never inspected.
Reason(e, value, phase) ==
  LET m == Meta(e.rule)
  IN  IF m.scope # "request" /\ m.action = "redact" THEN "malformed"
      ELSE IF ~ Covers(m.scope, phase) THEN "none"
      ELSE IF e.rule.turn \in {"panic", "timeout", "budget", "malformed"} THEN e.rule.turn
      ELSE IF Len(Inspect(e, value)) > MaxMatches THEN "budget"
      ELSE "none"

-----------------------------------------------------------------------------
(* collect. *)

Fails(acc, id, origin, reason) ==
  [acc EXCEPT !.failure = [id |-> id, origin |-> origin, reason |-> reason]]

\* Mutant of Skipped: the gate keeps every rule away from the leaf.
Skipped_All(action, gated) == gated

\* A gated leaf is kept from the rules that redact.
Skipped(action, gated) == gated /\ action = "redact"

OneEntry(acc, e, n, value, phase, gated) ==
  LET spans == Inspect(e, value)
      m     == Meta(e.rule)
      why   == Reason(e, value, phase)
  IN  IF acc.failure # NoFailure \/ Skipped(Asked(e.rule), gated) THEN acc
      ELSE IF why # "none" THEN Fails(acc, e.id, e.origin, why)
      ELSE IF ~ Covers(m.scope, phase) \/ Skipped(m.action, gated) THEN acc
      ELSE IF Len(acc.out) + Len(spans) > MaxMatches THEN Fails(acc, e.id, e.origin, "budget")
      ELSE [acc EXCEPT !.out = @ \o [k \in DOMAIN spans |->
              Finding(e.id, m.action, n, spans[k], spans[k], e.origin)]]

\* Mutant of OneGate: a literal anywhere in the value silences the gate.
OneGate_AnyLiteral(acc, sensitive, n, value, gated) ==
  IF acc.failure # NoFailure \/ ~ gated
       \/ (\E l \in sensitive.allow, i \in DOMAIN value : Inside(value, l, i, i)) THEN acc
  ELSE IF Len(acc.out) >= MaxMatches THEN Fails(acc, "sensitive_key", "remote_pack", "budget")
  ELSE [acc EXCEPT !.out = Append(@, GateFinding(n, value))]

\* The gate's own finding takes the place of theirs.
OneGate(acc, sensitive, n, value, gated) ==
  IF acc.failure # NoFailure \/ ~ gated \/ Allows(sensitive, value) THEN acc
  ELSE IF Len(acc.out) >= MaxMatches THEN Fails(acc, "sensitive_key", "remote_pack", "budget")
  ELSE [acc EXCEPT !.out = Append(@, GateFinding(n, value))]

AllEntries(acc, entries, n, value, phase, gated) ==
  LET Entry(a, e) == OneEntry(a, e, n, value, phase, gated)
  IN  FoldLeft(Entry, acc, entries)

OneLeaf(acc, from, leaves, n, phase) ==
  LET value == leaves[n].value
      gated == phase = "request" /\ Gates(from.sensitive, leaves[n])
  IN  IF value = <<>> THEN acc
      ELSE OneGate(AllEntries(acc, from.entries, n, value, phase, gated),
                   from.sensitive, n, value, gated)

AllLeaves(from, leaves, phase) ==
  LET Leaf(acc, n) == OneLeaf(acc, from, leaves, n, phase)
  IN  FoldLeft(Leaf, [out |-> <<>>, failure |-> NoFailure], Positions(leaves))

Collect(from, leaves, phase) ==
  LET all == AllLeaves(from, leaves, phase)
  IN  [all EXCEPT !.out = IF all.failure = NoFailure THEN SortedBy(@, BySpan) ELSE <<>>]

-----------------------------------------------------------------------------
(* Policy.Decide. *)

Rank == [allow |-> 0, warn |-> 1, redact |-> 2, block |-> 3]

Highest(findings) ==
  LET ranks == {0} \union {Rank[findings[i].action] : i \in DOMAIN findings}
  IN  CHOOSE a \in Actions : Rank[a] \in ranks /\ \A r \in ranks : r <= Rank[a]

Decision(leaves, phase) ==
  LET got    == Collect(policy, leaves, phase)
      action == IF got.failure = NoFailure THEN Highest(got.out) ELSE "block"
      backing == Among(got.out, {f \in Range(got.out) : f.action = action})
  IN  [of |-> "decide", leaves |-> leaves, phase |-> phase, action |-> action,
       findings      |-> backing,
       substitutions |-> IF phase = "request" /\ action = "redact" THEN backing ELSE <<>>,
       warnings      |-> IF phase = "response" /\ action = "warn" THEN backing ELSE <<>>,
       refusal       |-> got.failure]

\* What the gateway answers: EvaluateRequest leaves warnings and redactions to
\* the transform, EvaluateResponse turns what is above a warning into a block.
Outcome(d) ==
  IF d.refusal # NoFailure /\ d.phase = "request" THEN "plugin_failure"
  ELSE IF d.action = "block" THEN "block"
  ELSE IF d.phase = "request" \/ d.action = "allow" THEN "allow"
  ELSE IF d.action = "warn" THEN "warn"
  ELSE "block"

-----------------------------------------------------------------------------
(* The assembly of a gateway. *)

Init ==
  /\ stage = "bare"
  /\ registry = [entries |-> <<>>, ids |-> {}, sensitive |-> NoMatcher]
  /\ policy = [entries |-> <<>>, sensitive |-> NoMatcher]
  /\ answer = NoAnswer

\* buildGateway registers the detectors the configuration switches on.
RegisterBuiltin(on) ==
  /\ stage = "bare" /\ stage' = "builtin"
  /\ LET table == Among(DetectorTable, on)
     IN  registry' = Add("builtin", [i \in DOMAIN table |-> Builtin(table[i])], {})
  /\ UNCHANGED <<policy, answer>>

\* loadCachedPack: a pack that is missing or rejected leaves the built-ins, one
\* the registry rejects keeps the gateway from starting.
LoadCachedPack(d) ==
  /\ stage = "builtin" /\ answer' = NoAnswer
  /\ IF ~ Accepts(d) THEN stage' = "loaded" /\ UNCHANGED registry
     ELSE /\ registry' = RegisterCompiled(Compiled(d))
          /\ stage' = IF Admissible(Compiled(d).rules) THEN "loaded" ELSE "failed"
  /\ UNCHANGED policy

NewPolicy ==
  /\ stage = "loaded" /\ stage' = "serving"
  /\ policy' = [entries |-> registry.entries, sensitive |-> registry.sensitive]
  /\ answer' = NoAnswer /\ UNCHANGED registry

\* A third party registers rules, or a document it decoded and compiled.
Register(batch) ==
  /\ stage # "bare" /\ Len(registry.entries) < MaxEntries
  /\ registry' = Add("plugin", batch, {}) /\ answer' = NoAnswer
  /\ UNCHANGED <<stage, policy>>

RegisterDocument(d) ==
  /\ stage # "bare" /\ Len(registry.entries) < MaxEntries
  /\ Decodes(d) /\ Compiles(d)
  /\ registry' = RegisterCompiled(Compiled(d)) /\ answer' = NoAnswer
  /\ UNCHANGED <<stage, policy>>

\* Registry.Evaluate. After NewPolicy it has nothing new to show.
Evaluate(leaves, phase) ==
  LET got == Collect(registry, leaves, phase)
  IN  /\ stage \in {"builtin", "loaded"}
      /\ answer' = [NoAnswer EXCEPT !.of = "evaluate", !.leaves = leaves, !.phase = phase,
                                    !.findings = got.out, !.refusal = got.failure]
      /\ UNCHANGED <<stage, registry, policy>>

Decide(leaves, phase) ==
  /\ stage = "serving" /\ answer' = Decision(leaves, phase)
  /\ UNCHANGED <<stage, registry, policy>>

Next ==
  \/ \E on \in SUBSET Detectors : RegisterBuiltin(on)
  \/ \E d \in Documents : LoadCachedPack(d) \/ RegisterDocument(d)
  \/ NewPolicy
  \/ \E batch \in Batches : Register(batch)
  \/ \E leaves \in Bodies, phase \in Phases : Evaluate(leaves, phase) \/ Decide(leaves, phase)

Spec == Init /\ [][Next]_vars

-----------------------------------------------------------------------------
(* Properties. *)

EntriesOK(entries) ==
  /\ \A i \in DOMAIN entries :
       /\ entries[i].origin \in Origins /\ entries[i].id = entries[i].rule.id
       /\ RuleRegisters(entries[i].rule)
  /\ \A i, j \in DOMAIN entries : i < j => ByRank(entries[i], entries[j])

\* The registry holds well-formed rules, once each, in the order of evaluation
\* (ascending priority, then id), and so does the policy.
TypeOK ==
  /\ stage \in {"bare", "builtin", "loaded", "serving", "failed"}
  /\ EntriesOK(registry.entries) /\ EntriesOK(policy.entries)
  /\ registry.ids = {registry.entries[i].id : i \in DOMAIN registry.entries}
  /\ answer.of \in {"none", "evaluate", "decide"}
  /\ answer.action \in Actions /\ answer.refusal.reason \in Reasons \union {"none"}

RemoteRules ==
  {registry.entries[i].rule : i \in {j \in DOMAIN registry.entries :
                                       registry.entries[j].origin = "remote_pack"}}

Valid == {d \in Documents : Decodes(d) /\ Compiles(d)}

\* A rejected registration changes nothing (registry.go: "nothing is stored
\* unless every check passes", "leaves no sensitive-key matchers behind"): the
\* remote rules and the sensitive keys are those of whole documents.
DocumentsWhole ==
  LET whole == {d \in Valid : Range(Compiled(d).rules) \subseteq RemoteRules}
  IN  /\ RemoteRules = UNION {Range(Compiled(d).rules) : d \in whole}
      /\ registry.sensitive \in {NoMatcher} \union {Compiled(d).sensitive : d \in whole}

\* No arrival route lets a response be redacted (filter/doc.go): a rule that
\* turns after it was registered is refused.
ResponseNeverRedacted ==
  answer.phase = "response" => \A i \in DOMAIN answer.findings :
                                 answer.findings[i].action # "redact"

Hits(e, leaf, phase) ==
  e.rule.turn = "none" /\ Covers(e.rule.scope, phase) /\ Inspect(e, leaf.value) # <<>>

\* A block rule that finds something blocks, whatever else is found and whichever
\* leaf the sensitive keys gate; a rule that fails must not lift it either.
BlockWins ==
  answer.of = "decide" /\ Outcome(answer) \in {"allow", "warn"} =>
    \A i \in DOMAIN policy.entries, n \in DOMAIN answer.leaves :
      policy.entries[i].rule.action = "block" =>
        ~ Hits(policy.entries[i], answer.leaves[n], answer.phase)

\* The decision on a request that goes out under a pack orders the substitution of
\* every match of the built-in detectors: rules, sensitive keys and third parties
\* only add to them. The exception is the documented one, a gated leaf that an
\* allowlisted literal covers. What the splice then drops of two overlapping
\* substitutions is a matter of EveryDetectedByteRedacted, in Exchange.
PackNeverWeakens ==
  answer.of = "decide" /\ answer.phase = "request" /\ Outcome(answer) = "allow" =>
    \A i \in DOMAIN policy.entries, n \in DOMAIN answer.leaves :
      LET e == policy.entries[i]
          leaf == answer.leaves[n]
      IN  e.origin = "builtin" /\ ~ (Gates(policy.sensitive, leaf)
                                      /\ Allows(policy.sensitive, leaf.value)) =>
            \A k \in Range(Spans(e.rule, leaf.value)) :
              \E s \in Range(answer.substitutions) :
                s.leaf = n /\ s.first <= k /\ k <= s.last

\* The documents the registry may hold alone.
Held == {d \in Valid : /\ RemoteRules = Range(Compiled(d).rules)
                       /\ registry.sensitive = Compiled(d).sensitive}

Only(findings, origin) == SelectSeq(findings, LAMBDA f : f.origin = origin)

\* A document finds the same through the registry as by Compiled.Evaluate, and in
\* the same order (registry.go: "cannot evaluate in one order as a document and
\* another as a registered value"); the blocklist exists only in the latter.
PathsAgree ==
  [][answer' # answer /\ answer'.of = "evaluate" /\ answer'.refusal = NoFailure =>
       \A d \in Held :
         LET findings == Evaluated(Compiled(d), answer'.leaves, answer'.phase)
         IN  \/ OverLimit(Compiled(d), answer'.leaves, answer'.phase)
             \/ Only(answer'.findings, "remote_pack")
                  = SelectSeq(findings, LAMBDA f : f.id # "blocklist")]_vars

\* More spans than one invocation may return is a failure, "never a silent
\* truncation" (registry.go:52-54): what is decided on the strongest rules rests
\* on every match of theirs that no allowlist suppresses.
NothingTruncated ==
  answer.of = "decide" /\ answer.refusal = NoFailure =>
    \A i \in DOMAIN policy.entries, n \in DOMAIN answer.leaves :
      LET e     == policy.entries[i]
          value == answer.leaves[n].value
      IN  e.rule.turn = "none" /\ e.rule.action = answer.action
          /\ Covers(e.rule.scope, answer.phase) /\ ~ Gates(policy.sensitive, answer.leaves[n]) =>
            \A k \in DOMAIN value :
              value[k] \in e.rule.finds /\ ~ Suppressed(value, k, e.allow \union e.rule.allow) =>
                \E f \in Range(answer.findings) : f.id = e.id /\ f.leaf = n /\ f.first = k
=============================================================================
