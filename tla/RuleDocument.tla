---------------------------- MODULE RuleDocument ----------------------------
(***************************************************************************)
(* Rule documents: the strict decoder (pkg/filter/schema.go,               *)
(* options_schema.go, sensitive_schema.go), the floor under remote packs   *)
(* (floor.go), the compiler (compile.go, sensitive.go), the evaluation of a *)
(* compiled set (evaluate.go), and the gates of pkg/supply a cached pack   *)
(* goes through before it is used (rules.go, rules_activate.go).           *)
(*                                                                         *)
(* A leaf value is a sequence of words, and a span is a range of them.     *)
(* What a regular expression, a keyword or a detector finds is a set of    *)
(* words; the words of an allowlist literal stand next to each other.      *)
(***************************************************************************)
EXTENDS Integers, FiniteSets, Sequences, SequencesExt

CONSTANTS
  Words,       \* the words leaf values consist of
  FoldOf,      \* FoldOf[w] is w in lower case, for words and member keys
  Empty,       \* the empty literal
  Ids,         \* the ids of the grammar, with their order as strings
  IdOrder,
  DetectorTable, \* the types of the built-in detectors, in table order
  Detects,     \* Detects[t] is what the detector of type t finds
  Categories,  \* the required categories
  MaxRules, MaxMatches   \* the two bounds of a document

\* The elements of a sequence that are in T.
Among(s, T) ==
  LET f[i \in 0 .. Len(s)] == IF i = 0 THEN <<>>
                              ELSE IF s[i] \in T THEN Append(f[i - 1], s[i]) ELSE f[i - 1]
  IN  f[Len(s)]
Positions(s) == [i \in DOMAIN s |-> i]

Detectors == Range(DetectorTable)
Scopes  == {"request", "response", "both"}
Actions == {"allow", "warn", "redact", "block"}
Primitives == DOMAIN Detects
Types   == Primitives \union {"regex", "keyword", "command"}
Absent  == 0   \* a priority that is not written
DefaultPriority == 100

ASSUME DocumentOK ==
  /\ FoldOf \in [DOMAIN FoldOf -> DOMAIN FoldOf] /\ Words \subseteq DOMAIN FoldOf
  /\ Empty \notin Words /\ Detectors \subseteq Ids \cap DOMAIN Detects
  /\ IdOrder \in [Ids -> Nat] /\ \A a, b \in Ids : IdOrder[a] = IdOrder[b] => a = b
  /\ Primitives \cap {"regex", "keyword", "command"} = {}
  /\ \A t \in Primitives : Detects[t] \subseteq Words
  /\ MaxRules \in Nat /\ MaxMatches \in Nat

(***************************************************************************)
(* A document is [odd, serial, keyId, schema, off, dropped, allow, block,  *)
(* sensitive, rules]: odd says that some object has an unknown field,      *)
(* serial and keyId are what the envelope carries ("absent", "good",       *)
(* "bad"), schema comes from the manifest, off are the detectors it sets   *)
(* to false, and sensitive is [present, keys, cased].  A rule is [id,      *)
(* type, finds, cased, scope, priority, action, confidence, allow,         *)
(* replace, suffixes]: finds is its pattern or its keywords, replace and   *)
(* suffixes its email options.                                             *)
(***************************************************************************)

-----------------------------------------------------------------------------
(* DecodeDocument. *)

Unique(rules) == \A i, j \in DOMAIN rules : rules[i].id = rules[j].id => i = j

OptionsOK(r) == (r.replace \/ r.suffixes) => r.type = "email"

SensitiveOK(s) == s.present => s.keys # {} /\ Empty \notin s.keys

\* validateRule: a command rule is never evaluated, so little of it is checked.
RuleDecodes(r) ==
  /\ r.id \in Ids /\ OptionsOK(r)
  /\ r.type # "command" =>
       /\ r.type \in Types /\ r.scope \in Scopes \union {"absent"}
       /\ r.action \in Actions /\ r.confidence # "bad"
       /\ r.type = "regex" => r.finds # {} /\ Empty \notin r.finds

Decodes(d) ==
  /\ ~ d.odd /\ (d.serial = "absent" <=> d.keyId = "absent")
  /\ SensitiveOK(d.sensitive) /\ Len(d.rules) <= MaxRules
  /\ Unique(d.rules) /\ \A i \in DOMAIN d.rules : RuleDecodes(d.rules[i])

RemotePack(d) == d.serial # "absent"

\* finalizeDocument writes the defaults of absent fields.
Defaulted(r) ==
  [r EXCEPT !.scope    = IF @ = "absent" THEN "request" ELSE @,
            !.priority = IF @ = Absent THEN DefaultPriority ELSE @]

-----------------------------------------------------------------------------
(* FloorBaseline.Check, for remote packs. *)

FloorOK(d) ==
  RemotePack(d) =>
    /\ d.off \cap Detectors = {} /\ d.dropped \cap Categories = {}
    /\ \A i \in DOMAIN d.rules : d.rules[i].action # "allow" /\ ~ d.rules[i].replace

-----------------------------------------------------------------------------
(* CompileWithBudget. *)

Commands(d)  == {i \in DOMAIN d.rules : d.rules[i].type = "command"}
Evaluable(d) == Among(d.rules, {r \in Range(d.rules) : r.type # "command"})

\* The second gate, so that a document built by hand cannot skip the first. A
\* rule carries the fields its type needs and no other.
RuleCompiles(r) ==
  /\ r.id \in Ids /\ r.type \in Types \ {"command"}
  /\ (r.finds # {}) = (r.type \in {"regex", "keyword"}) /\ Empty \notin r.finds
  /\ r.cased => r.type = "keyword"
  /\ Defaulted(r).scope \in Scopes /\ r.action \in Actions /\ r.confidence # "bad"
  /\ r.action = "redact" => Defaulted(r).scope = "request"
  /\ OptionsOK(r) /\ <<>> \notin r.allow

Compiles(d) ==
  /\ <<>> \notin d.allow /\ Empty \notin d.block /\ SensitiveOK(d.sensitive)
  /\ Unique(d.rules) /\ \A i \in DOMAIN d.rules : d.rules[i].id \in Ids
  /\ \A i \in DOMAIN Evaluable(d) : RuleCompiles(Evaluable(d)[i])

\* The words a rule's matcher finds; a keyword is folded unless it is cased.
Finds(r) ==
  IF r.type = "regex" \/ (r.type = "keyword" /\ r.cased) THEN r.finds
  ELSE IF r.type = "keyword" THEN {w \in Words : \E k \in r.finds : FoldOf[w] = FoldOf[k]}
  ELSE Detects[r.type]

\* A stable sort: an element goes behind all that are not greater.
SortedBy(s, Less(_, _)) ==
  LET Insert(t, x) ==
        LET k == Cardinality({i \in DOMAIN t : ~ Less(x, t[i])})
        IN  InsertAt(t, k + 1, x)
  IN  FoldLeft(Insert, <<>>, s)

ByRank(a, b) ==
  \/ a.rank < b.rank
  \/ a.rank = b.rank /\ IdOrder[a.id] < IdOrder[b.id]

\* A compiled rule has the shape of every rule (RuleEngine): capped is set for
\* the two types whose scan is, and turn says how it misbehaves.
CompiledRule(r) ==
  [id |-> r.id, rank |-> r.priority, scope |-> r.scope, action |-> r.action,
   confidence |-> "good", nil |-> FALSE, finds |-> Finds(r), allow |-> r.allow,
   capped |-> r.type \in {"regex", "keyword"}, turn |-> "none"]

NoMatcher == [present |-> FALSE, keys |-> {}, cased |-> FALSE, allow |-> {}]

\* newSensitiveMatcher takes a copy of the document's allowlist.
Matcher(d) ==
  IF d.sensitive.present
  THEN [present |-> TRUE, cased |-> d.sensitive.cased, allow |-> d.allow,
        keys |-> IF d.sensitive.cased THEN d.sensitive.keys
                 ELSE {FoldOf[k] : k \in d.sensitive.keys}]
  ELSE NoMatcher

Compiled(d) ==
  [rules |-> SortedBy([i \in DOMAIN Evaluable(d) |->
                         CompiledRule(Defaulted(Evaluable(d)[i]))], ByRank),
   allow |-> d.allow, block |-> d.block, sensitive |-> Matcher(d)]

-----------------------------------------------------------------------------
(* The gates of a cached pack: its own strict decoder, which knows no scope, *)
(* category or priority, the signature, then accept.                         *)

PackDecodes(d) ==
  ~ d.odd /\ \A i \in DOMAIN d.rules :
               d.rules[i].scope = "absent" /\ d.rules[i].priority = Absent

\* StaticVerifier: no id but an embedded root resolves. The cached manifest has
\* a serial, which an absent one does not match.
Accepts(d) ==
  /\ PackDecodes(d) /\ d.keyId = "good" /\ Decodes(d) /\ FloorOK(d) /\ Compiles(d)
  /\ d.serial = "good" /\ d.schema \in {1, 2}
  /\ d.schema = 2 => Commands(d) = {}

-----------------------------------------------------------------------------
(* Compiled.Evaluate. *)

Covers(scope, phase) == scope \in {phase, "both"}

\* regexSpans and keywordSpans end behind one match above the bound, a
\* detector's scan does not. (Several keywords are scanned one after the other;
\* here the matches are in the order of the text.)
Spans(rule, value) ==
  LET all == Among(Positions(value), {i \in DOMAIN value : value[i] \in rule.finds})
  IN  IF rule.capped /\ Len(all) > MaxMatches THEN SubSeq(all, 1, MaxMatches + 1) ELSE all

\* insideOccurrence.
Inside(value, literal, first, last) ==
  \E o \in 1 .. Len(value) - Len(literal) + 1 :
    /\ SubSeq(value, o, o + Len(literal) - 1) = literal
    /\ o <= first /\ last < o + Len(literal)

Suppressed(value, i, lists) == \E l \in lists : Inside(value, l, i, i)

\* The matches that no literal suppresses.
Unsuppressed(spans, value, lists) ==
  Among(spans, {i \in DOMAIN value : ~ Suppressed(value, i, lists)})

\* sensitiveMatcher.matches and allows.
Gates(m, leaf) ==
  /\ m.present /\ leaf.member
  /\ (IF m.cased THEN leaf.key ELSE FoldOf[leaf.key]) \in m.keys

Allows(m, value) == \E l \in m.allow : Inside(value, l, 1, Len(value))

Finding(id, action, leaf, first, last, origin) ==
  [id |-> id, action |-> action, leaf |-> leaf, first |-> first, last |-> last,
   origin |-> origin]

GateFinding(leaf, value) ==
  Finding("sensitive_key", "redact", leaf, 1, Len(value), "remote_pack")

BySpan(a, b) ==
  \/ a.leaf < b.leaf
  \/ a.leaf = b.leaf /\ a.first < b.first
  \/ a.leaf = b.leaf /\ a.first = b.first /\ a.last < b.last

\* What one leaf contributes: the rules' matches, the gate's, the blocklist's.
LeafFindings(c, leaves, n, phase) ==
  LET value == leaves[n].value
      gated == phase = "request" /\ Gates(c.sensitive, leaves[n])
      OfRule(r) ==
        IF ~ Covers(r.scope, phase) \/ (gated /\ r.action = "redact") THEN <<>>
        ELSE LET kept == Unsuppressed(Spans(r, value), value, c.allow \union r.allow)
             IN  [k \in DOMAIN kept |->
                    Finding(r.id, r.action, n, kept[k], kept[k], "remote_pack")]
      gate == IF gated /\ ~ Allows(c.sensitive, value) THEN <<GateFinding(n, value)>> ELSE <<>>
      bad  == Among(Positions(value), {i \in DOMAIN value : value[i] \in c.block})
  IN  FlattenSeq([k \in DOMAIN c.rules |-> OfRule(c.rules[k])]) \o gate \o
        [k \in DOMAIN bad |-> Finding("blocklist", "block", n, bad[k], bad[k], "remote_pack")]

Evaluated(c, leaves, phase) ==
  SortedBy(FlattenSeq([n \in DOMAIN leaves |->
    IF leaves[n].value = <<>> THEN <<>> ELSE LeafFindings(c, leaves, n, phase)]), BySpan)

\* ErrMatchLimit: too many matches of one rule, or findings in all.
OverLimit(c, leaves, phase) ==
  \/ Len(Evaluated(c, leaves, phase)) > MaxMatches
  \/ \E n \in DOMAIN leaves, k \in DOMAIN c.rules :
       Covers(c.rules[k].scope, phase) /\ Len(Spans(c.rules[k], leaves[n].value)) > MaxMatches
=============================================================================
