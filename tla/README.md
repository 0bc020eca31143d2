# tokenhush: TLA+ models, checks and proofs

tokenhush is a local gateway between coding agents and LLM vendors. It replaces
the secrets it detects in a request by placeholders, restores them in the
response, and refuses what its rules block. Around the gateway are two signed
supply chains: the binary updates itself, and rule packs are synchronised into
a local cache. This directory models the parts of that system whose correctness
depends on the order of steps: crashes between renames, commands that overlap,
exchanges that interleave, restarts in the middle of a conversation, documents
that expire or are withdrawn, streams cut anywhere, and rules that arrive by
several routes.

Paths below are relative to `src/`.

## 1. The system

### Components

| Component | State | Operations | What is hard | What makes it correct |
|---|---|---|---|---|
| Binary replacement (`pkg/supply/replace.go`, `recover.go`, `update.go`) | four sibling files: target, `.new`, `.lkg`, journal | stage, journal, back up, install, restore, repair at every start | a crash before any call, a call that fails, another command, a repair that crashes itself | a whole build always survives; a repair leaves one at the target; no downgrade |
| Anti-rollback marks (`highwater.go`) | one serial per supply chain, in a file, and the copy each process loaded | load, compare, advance | the copy is stale when another process advances | never decreases; never covers what is not in force |
| Update gates (`source.go`, `revocation.go`, `manifest.go`, `payload.go`) | the revocation store | verify, compare versions, delegate to a package manager | stale but validly signed documents | only newer, not revoked, matching builds pass |
| Rules sync (`rules.go`, `rules_activate.go`) | the pack in memory | sync, replay, fall back, activate, start up | two fetches, a transport that fails between them, a stale server | a rejected pack never displaces the one in force |
| Rules cache (`rules_cache.go`) | `rules/<serial>/{manifest,bundle}.json`, the active pointer | store, load | four writes and three reads, any of which may be the last | the pointer names a complete pack |
| Rules rollback (`internal/cli/rules_rollback.go`) | the same files | list, verify, re-store | directories a crash left incomplete | the highest complete older pack is restored |
| Data plane (`pkg/proxy/dataplane.go`, `dataplane_refusal.go`, `forward_body.go`) | none of its own | read, walk, evaluate, forward or refuse | detectors that panic or hang, bodies at the cap | what must be refused reaches no upstream |
| Redaction (`internal/cli/redact_request.go`, `pkg/redact/substitute.go`, `pkg/protocol/span.go`) | none of its own | decide again, mint, splice | overlapping findings; the second decision may differ | nothing detected leaves as it came |
| Placeholder engine and backfiller (`pkg/redact/placeholder.go`, `backfill.go`) | salt, forward map, reverse map, exclusions | mint, map, restore | two mutexes, collisions of short digests, placeholders of an earlier session | every placeholder comes back as its own secret or not at all |
| Forwarder (`pkg/proxy/forward.go`, `resolve.go`) | none of its own | route, dial, copy | an upstream that fails or stalls at any point | every request is answered |
| Response path (`internal/cli/response_writer.go`, `pkg/proxy/response_buffered.go`, `response_sse_buffered.go`) | one buffer per exchange | buffer, decode, evaluate, restore, commit | cap, deadline and copy errors in any order | one commit, only of a response that was evaluated whole |
| Event-stream backfill (`pkg/redact/sse_*.go`, `pkg/protocol/backfill.go`, `sse.go`) | held bytes, queued segments, leaf carry | feed, release, flush, abort | a placeholder split anywhere | the result equals a restore of the whole stream, in bounded memory |
| Counters and status (`controlapi.go`, `internal/cli/status.go`) | five atomic counters | bump, read | bumped on many paths, read one at a time | they account for the traffic |
| Gateway life (`internal/cli/run.go`, `runstate.go`, `token.go`, `listen.go`, `guard.go`) | session, `run.json`, `control.token` | start, serve, shut down | a crash, a second gateway, a shutdown with exchanges in flight | the session files name a live gateway |
| Rule registry, collection, policy (`pkg/filter/registry.go`, `collect.go`, `policy.go`, ...) | the registered rules | register a batch, evaluate, decide | a rule that fails half-way | a batch is all or nothing; a failure is a refusal |
| Rule documents (`schema.go`, `compile.go`, `floor.go`, `sensitive.go`, `evaluate.go`) | none that changes | decode, check the floor, compile, evaluate | two evaluators of one document; gates and allowlists that pull apart | a pack only adds to the built-ins; both evaluators agree |
| Detectors (`primitive_*.go`), JSON walk (`walk.go`, `spelling.go`, `identity.go`), signing (`substrate.go`, `keylist.go`), configuration, platform, audit, layering guard, output | none that changes | parsing and validation | characters and signatures | out of a model checker's reach or without behaviour; see section 7 |

### How they interact

`tokenhush update` and `tokenhush run` both begin with `Recover` on the binary's
files. `run` then builds the pipeline: it loads the rule pack the active pointer
names (`loadCachedPack`), draws a new salt, and serves. `rules sync` and `rules
rollback` are processes of their own that share the cache with a starting
gateway; a running gateway never reloads. None of these processes takes a lock.

Inside a gateway every request is a goroutine: the counter, the data plane, the
router, the forwarder with its redaction transform, and a response writer that
buffers the whole answer until the forwarder has returned. Exchanges meet only
in the engine's forward map and the backfiller's reverse map, each under its own
mutex, and in the atomic counters.

### Hazards

`PROJECT.json` lists under `hazards` each place where this code can go wrong in a
way a unit test hardly reaches, at its line, with the properties that cover it.

## 2. Plan

Done, in this order:

1. `BinaryUpdate`, its abstract specification `AtomicInstall`, and its proofs, the
   refinement included.
2. `RulesSync` and its proofs.
3. `Exchange` and its proofs.
4. `Backfill` and `EventStream`; `SSEDecoder` below them; the proofs of the order, the
   bound and the shape of a stream, of what it says (`Conserved`), of what it restores of
   raw text (`RawRestored`), and of the bytes (`Partition`).
5. `GatewaySession` and its proofs.
6. `RuleDocument` and `RuleEngine` and their proofs; `NaturalsLemmas` below them.
7. `UpdateGates` and its proofs.

Next, most important first:

8. `HeldSplitRestored` of `EventStream`, on the lemmas of `Conserved` and `RawRestored`:
   that nothing a channel of an envelope says is lost is proved, that every placeholder the
   code looks for in it is also replaced is not.
9. `ChunkInvariant` of `SSEDecoder`, on the lemmas of `Partition`.
10. An abstract specification of the pack in force (activate, roll back) that
    `RulesSync` implements, checked and then proved.
11. `PathsAgree` of `RuleEngine`. As it stands it is about documents that the registered
    rules tell apart; two documents that differ in nothing but their allowlist would have
    to be told apart first.

How the modules relate: `EventStream` extends `Backfill` and takes its events from
the records `SSEDecoder` is about; `RuleEngine` extends `RuleDocument`; `UpdateGates`
is what comes before the one step `Accept` of `BinaryUpdate`, and has, of its commit and
its recovery, the outcomes. `Exchange` takes from `EventStream`, `RuleEngine` and
`GatewaySession` what each promises: a whole-stream restore, a decision over a snapshot of
the rules, a gateway that lives.

## 3. Modules

### `BinaryUpdate`

`fs` holds the four sibling files; a build is named by the serial that installed
it. `pc` gives each command its next system call. Every call is an action that
may succeed, fail (bounded by `MaxFaults`) or be the one before which the process
dies (`Crash`, the code's own `killAt` made possible everywhere).

| Code | Model |
|---|---|
| `renameOver` (rename, else remove the destination and retry) | `RenameSucceeds`, `RenameFails`, `UnlinkDst`, `UnlinkDstFails`; the record `RenameOver` gives the five call sites their paths and continuations |
| `Recover`, `recover`, `recoverJournaled` | `Repair`: `recover`, `recoverJournaled`, `DiscardCandidate`, one `Stat` per `fileExists` |
| `commit`, `finishCommit`, `restoreBackup`, `removeJournal` | `Commit` and the renames |
| `writeFileMode` | `FillTemp`, then the rename in `stageCandidate` or `writeJournal` |
| `selfUpdate`'s gates | `Refuse`, `UpToDate`, `Accept` |
| `FileHighWater.Advance` | `Advance` |

`Launch` loads the mark and the image's version before the repair, as
`NewUpdater` does. With `SelfHosted` a command can only be started from the
target; without it an operator may start a surviving copy for the same target,
which is what the repository's interrupted-commit tests do.

`AtomicInstall` is what an install promises: it stands for one build, replaced in
one step by a later one, and the mark follows it. `BinaryUpdate` refines it under
`installed <- Effective`, the build a repair would leave at the target: the
linearisation point of an update is the write of the journal, because from then
on recovery completes the commit.

### `RulesSync`

A serial stands for one manifest and one bundle; each is missing, whole or
damaged. `rules sync`, `rules rollback` and a starting gateway are commands with a
`pc`; each read, each atomic replacement of a file, and each fetch is an action.
The bundle is fetched in a step later than the manifest, so the server may have
published in between. `inForce` is a history variable: the serials the pointer
ever named.

### `Exchange`

One gateway, its requests, and its restarts. `pc[r]` walks a request through the
data plane (`ReadBody`, `Unwalkable`, `DetectorFails`, `Blocked`, `Admitted`), the
router, the second decision (`Transform`), the minting of one finding at a time in
the two halves the two mutexes make (`Placeholder`, `Map`), the splice (`Apply`),
the upstream (`Send`, `Reply`, `Unreachable`, `Deadline`, `Copied`) and the response
writer (`Refuse`, `Evaluate`, `Restore`). A body is a record of what the code asks
of it: does it declare JSON, does it walk, does a rule block it, which spans are
found. The text is a sequence of cells; a secret is the slice a finding covers. A
placeholder is a rung of its secret's digest ladder under the salt of a session.
The upstream may repeat any placeholder it ever heard, also one of an earlier
session.

`out` keeps what an upstream was sent, and `echo` and `answer` what came back, as
history for the properties.

### `Backfill` and `EventStream`

The placeholder grammar is a set of sequences of cells, one of which may begin with
the cell another ends with, as the underscores of `__PII_..__` do; `TokenLen`,
`PrefixLen` and the edits are functions over it. `EventStream` is `SSEBackfiller`: its
fields are the record `s`, and each method is a function from the record to the next,
so that an action is one call of the code.

| Code | Model |
|---|---|
| `protocol.BackfillWriter` (hold back what may still grow) | `Release` and the record's `held` |
| an event without data, a text, an envelope without an identity | `AcceptOther`, `AcceptText` |
| the branches of `acceptLeaf` | `LeafFirst`, `LeafNoMatch`, `LeafComplete`, `LeafGiveUp`, `LeafExtend` |
| the one accumulator of held bytes, and when a carry may grow | `FitsBudget`, `CanExtend` |
| the edits of the leaf fragments | `EditHeld`, `EditAll`, `Apply`, `WithinLeafEdits` |
| `drain`, `release`, the hand-over of the writer's tail, `Flush` | `Drain`, `ReleaseN`, `HandoffWriter`, `Flush` |

A restored secret is one cell that differs by spelling, raw or escaped for JSON. A leaf
marked `torn` is one whose raw span the code cannot map to its text. `fed` and
`overlooked` are history: the events fed, and those that ended another carry while a
placeholder began in their own tail.

### `SSEDecoder`

`protocol.Decoder` over chunks of cells (terminators, field names, pieces of values).
`d` holds the fields of the code, `NextLine` is the search for a terminator with the CR
that waits for its LF, `LinesIn` the lines of a buffer, `Field` and `Dispatch` what one of
them does (`ScanLine`), `FeedChunk` and `Close` the two calls. `tail` is what `SSEBackfiller` has been given and found in no record yet (`Consume`).

### `GatewaySession`

Several gateways over one data directory, each with its `life`: bind, write `run.json`,
write `control.token`, install the signal handler, serve, drain, remove one file and
then the other. A gateway stands for its own token. A status command is two reads and
one call, with a step of a gateway between any two. `listens` is apart from `life` because
the drain frees the port while the process lives. `faulted` and `overlapped` are history
that the properties name as hypotheses.

### `RuleDocument` and `RuleEngine`

`RuleDocument` has the strict decoder, the floor under remote packs, the compiler and the
evaluation of a compiled set as operators over records: a document is what those
functions ask of it, a leaf value is a sequence of words, and what a rule finds is a set
of words. `RuleEngine` has the state: the registry, the policy's snapshot, and the last
answer. The stages are those of `buildGatewayWithVerifier`: built-in detectors, cached
pack, policy. A third party's rule may answer differently at a later call (`turn`):
widen its scope, panic, return malformed spans. The loops of `collect` are folds over the
rules and the leaves, a step of which is an operator of its own (`OneEntry`, `OneGate`,
`OneLeaf`), so that the proofs can follow them step by step.

### `UpdateGates`

The vendor signs releases and revocation documents with a window of validity; a mirror
serves any of them. A command loads the mark and the version of the image it was started
from (`Launch`), is routed by where the binary lies (`DetectSource`, `SelfManaged`) and,
unless `--check` is given, repairs the install (`Repair`). Then it fetches a revocation
document (`FetchRevocations`), a manifest against a later clock (`FetchManifest`, with the
gates of `selfUpdate` in `Refused`) and the artifact (`Download`, with the digest), commits
it (`Commit`) and writes the mark last (`Record`).

The renames of a commit are `BinaryUpdate`'s. What matters here is what they leave: the new
build (`Commit`), the old one with at most a candidate that recovery discards (`Fails`), or
the old one with a journal and a candidate (`Interrupted`), perhaps with the target moved
away (`away`), in which case a command can only be started from a surviving copy (`Images`).
The next update command, or a gateway that starts (`Run`), finishes that commit without
consulting a document, or fails in it again (`Recover`, `RecoverFails`). It was the earlier
command that accepted the build, so `journal` holds what that command accepted and how; the
program reads none of it but the candidate. `cmd.old`, the build a command found, is there
for the properties only. `Fails` is a fetch, a signature or a write that fails, or the end
of the process, at any step: between `Commit` and `Record` it leaves a release installed
and the mark behind.

## 4. Runs

Passing runs:

| Run | Instance | Shows |
|---|---|---|
| `BU_Sequential` | one command at a time, 3 serials, 4 faults, honest feed | `FailureKeepsBinary`: a command that returns left a binary unless at least four calls failed; `MarkCovered`: the mark never runs ahead of the install; `AtomicSpec`: the refinement of `AtomicInstall` |
| `BU_Hostile` | the same, with a feed that replays anything it published and a target that may vanish between commands | `Recoverable` and `RepairedRuns` need neither an honest feed nor an intact target |
| `RS_OneWriter` | one writer, one gateway, 3 serials, 2 faults, replaying server | the pack the pointer names is complete at every moment; the mark only names what was in force; a gateway serves what was activated and never silently falls back; a rollback restores the next complete pack; only a rollback points back |
| `EX_Exchanges` | two concurrent exchanges, two sessions, one placeholder per reply, 11 bodies and 4 replies that between them take every branch | no refused or separately detected content leaves; every placeholder is mapped when it leaves and comes back as its own secret; counters account; every request read is answered |
| `ES_Stream` | streams of up to four events out of fifteen: text, envelopes with one and two channels, an empty leaf, a torn leaf, an envelope without an identity, a comment | events leave in order and once; text is moved but never lost or doubled; the held bytes keep the bound; a placeholder split over text events or over one channel is restored whatever the cut, where the code looks for it |
| `SD_Chunks` | every stream of six cells, in every cut into chunks | the records are those of the whole stream; every byte is in one record or in the tail |
| `GW_Session` | two gateways on one data directory and two ports, a status command, one request each | the files describe the gateway that runs; exit code 0 has cut nothing; an interrupted gateway ends although an exchange never does |
| `RE_Admission` | sixteen documents, six batches of third-party rules, seven bodies, both directions | a remote document is registered whole or not at all; no response is redacted; a block blocks; a pack only adds to the built-ins; the two evaluators of a document agree |
| `UG_Feed` | seven releases, six install paths, two manifests and two revocation documents over three moments | a withdrawn build is accepted no more once the last document that spares it has expired, though one accepted before may still be finished by a recovery; a lower version needs both opt-ins, or a command that first finished another's commit, and is then not below the build that ran before it; a package manager's binary is never replaced |

Runs that show where the code and its own text disagree:

| Run | Property | What happens |
|---|---|---|
| `EX_Leak` | `EveryDetectedByteRedacted` | of two overlapping findings the second is dropped whole, and the bytes only it covers leave |
| `GW_Restart` | `GatewayFindable` | a gateway started while the previous one drains loses its session files to the previous one's removal, and status prints `not running` |
| `RE_Truncated` | `NothingTruncated` | a registered document's scan is cut at the match bound before its allowlist is applied, so later matches are missed and no failure is reported |

Each property of a passing run has a mutant: a variant of one definition, kept
beside it in the module (`recover_BackupFirst`, `Gate_NoReplayCheck`,
`Restart_SameSalt`, ...), that a plausible bug would produce and that the property
then rejects under the same configuration.

### Bounds, and why they are enough

* `MaxSerial = 3`: an update needs an installed, an interrupted and a replayed
  serial to go wrong; a rollback needs the pack it
  leaves, one to skip and one to restore. Two builds share a version, so that the
  version gate and the serial gate differ.
* `MaxFaults = 4` in `BinaryUpdate`: failing both tries of the install and both of
  its restore takes four; `FailureKeepsBinary` is about at most three, and the run
  reaches the fourth. 2 in `RulesSync`: one failing call and one damaged document.
* Two requests and two sessions: the interference between exchanges is pairwise
  (one mints, the other uses), and a stale placeholder needs one restart.
  The digests of two secrets collide on their shortest rung.
* One placeholder per reply (`MaxEcho`): a restore looks each one up on its own.
* `MaxEvents = 4`: one event that opens a carry, one that continues it, one that ends it
  and one behind; `Budget = 12` cells, three placeholders of four, so that a carry and
  what is queued behind it reach the bound within four events.
* `MaxCells = 6`: a field, its value, CR, LF, a blank line and one cell of the next record.
* Two gateways and one command: every conflict is between the one that leaves and the
  one that comes; `MaxRequests = 1` keeps a gateway waiting at the signal.
* `MaxRules = 2`, `MaxMatches = 2`: a document at the bound and one above it, and one
  match more than a scan may return. `MaxEntries = 4`: two built-ins and two more rules,
  so that a batch may meet an id, a rank or a block of each origin.
* `Life = 1`, `MaxTime = 2`: a document published at 0 is valid at 0 and 1 and expired at 2,
  and one may begin in the future. One release behind the installed one in number and
  above it in serial makes the downgrade; the first revocation document spares everything.

The configurations of the streams, gateways, rules and exchanges say `CHECK_DEADLOCK
FALSE`: an instance has a fixed number of requests, events, cells, gateway lives or
registrations, and stops when they are used up. The others check deadlock.

### Fairness

`Exchange` states `WF_vars(Serve(r))` for each request: the
gateway's own steps are a goroutine that waits for nobody, and the deadline is a
timer. `response_timeout` must be positive (`pkg/config/config.go`), so `Deadline` is always
armed once a request is routed. Nothing is assumed of the client, whose body is
read without a timeout; of the upstream, which may never answer or never end its
body; or of `Restart`. `EveryRequestAnswered` therefore starts when the body has
been read. Weak fairness of the disjunction suffices because while the upstream is
silent `Deadline` is the disjunct that stays enabled.

`GatewaySession` states `WF_sessionVars(Proceed(g))` for each gateway: its own start and its own
stop. `ShutdownEnds` is among them because `Shutdown` has a timer of five seconds;
nothing is assumed of an exchange (`Finish`), of a user (`Interrupt`), or of a status
command. `InterruptEnds` needs the timer only.

### Assumptions

Every assumption on the constants is named in the module that declares them, the theorems
of section 5 rest on these and on nothing else, and TLC evaluates them on every run.

* `Exchange`. `SlotsOK`: there are finitely many requests, at least one session and one
  reply, and a reply holds finitely many events. `LadderEnds`: a secret's digests are a
  ladder of at least one rung, and the full digests of two secrets differ (SHA-256), so
  that minting never runs out of rungs. `BodiesOK`: the spans of a body are finitely many,
  lie in its text and are not empty; a body that does not walk has none, and is not one a
  rule blocks.
* `Backfill`. `GrammarOK`: placeholders are finitely many, not empty, and none is the
  beginning of another. `StreamOK` (`EventStream`): the budget holds at least one
  placeholder; an event is a comment, a text of one leaf, or an envelope of any number.
  `ChannelsApart`: two identified leaves of one event have different identities.
  `joinIdentity` (`pkg/protocol/identity.go:90`) ends every identity with the occurrence
  of its path, counted over one walk, so a repeated key makes another identity. What the
  assumption leaves out is a member name that spells the separator U+001F by an escape:
  the comment at `identity.go:13` takes the separator never to occur in a path, and
  `uniqueIdentityMatch` (`pkg/redact/sse_leaf_scan.go`) refuses a match that is not unique.
  `SecretsApart`: cells carry where a text comes from, so a restored secret is told from
  what the upstream wrote and from what another placeholder restores. `NoneInside`
  (`Backfill`): no placeholder lies inside another. In the grammar the comment at
  `sse_backfill.go:13` gives, a type and a digest hold no capital letter, and every
  placeholder begins with `__PII_`; one may still begin with the last underscores of
  another. `TokenLen` accepts more than that grammar (section 8), and for such texts the
  theorem says nothing. `DocumentsEnd`: no JSON value without an identified leaf ends
  inside a placeholder. A placeholder begins with an underscore, which JSON has only in a
  string, and the value ends with a quote or a bracket behind it. Only the proof of
  `RawRestored` needs the two.
* `UpdateGates`. `GatesOK`: serials are numbers, a version that parses is three digits to
  the base `Radix` (any base), and the windows are numbers.
* `RuleDocument` and `RuleEngine`. `DocumentOK`: ids are ordered as strings are, folding
  stays within the known words, the empty word is none of them. `EngineOK`: rules and
  leaves come in sequences, and a rule has its fields, the priority an integer.
* `ConstantsOK` of `BinaryUpdate` and `RulesSync`, `SessionOK` and `AlphabetOK` give
  types: the bounds are numbers, writers and gateways are different processes, a loopback
  host check knows the absent Origin.

Beside these, signatures accept exactly what was signed, and the salts of two sessions
differ; that is how the modules are built.

## 5. Proofs

The theorems of a component are in a module of its own; `SSEDecoder` shares that of
`EventStream`, which reads its records, and `GatewaySession` that of `Exchange`. All of them are
proved for every value of the constants the assumptions of section 4 allow. A hypothesis
beyond those is written in the theorem, and section 8 or the text below says what happens
without it.

### `BinaryUpdateProofs`

For every number of serials, every bound on failing calls, any version map, and either
value of `SelfHosted`, `StaleFeed` and `MayVanish` unless a hypothesis says otherwise:

* `TypeCorrect`: `Spec => []TypeOK`, for any number of overlapping commands. Beyond the
  types it says that no file is ever torn.
* `NeverWithoutABuild`: `Sole => (Spec => []Recoverable)`. `Sole` says that commands do
  not overlap; section 8 says what goes wrong when they do.
* `RepairLeavesABuild`: `Sole => (Spec => []RepairedRuns)`.
* `MarkAlwaysCovered` (`MarkCovered`) and `FailureAlwaysKeepsBinary`
  (`FailureKeepsBinary`): `Sole /\ ~MayVanish`. Nothing is assumed of the feed.
* `ImplementsAtomicInstall`: `Sole /\ ~MayVanish /\ ~StaleFeed => (Spec => AtomicSpec)`,
  the refinement of `AtomicInstall`.

Each hypothesis is needed. When something else removes the target, a repair revives the
older backup below a mark that had moved on, and a command may fail with nothing at the
target; under a feed that replays, the build that stands for the install may go back
(`NoDowngrade`, section 8). TLC finds each within seconds when `MayVanish` or `StaleFeed`
of `BU_Sequential` is `TRUE`.

`Recoverable` is not inductive: a command that believes the target is still there would
rename the backup away from under it. The inductive invariant is

    SafeInv == TypeOK /\ Recoverable /\ Located

where `Located` ties the program counter to the file system: at the labels `TargetGone`
the target is known to be absent, so a rename over it or a look at the backup loses
nothing, and at the labels `TargetHere` it is known to be present, so removing or
overwriting the backup is harmless. `SafeRenaming` is the heart of the proof: of the five
call sites of `renameOver`, each either moves the only build to the other place recovery
looks in, or touches a place that is not needed. A crash only forgets the program counter,
and `Located` says nothing of an idle command, which is why a crash at any call is
harmless.

The mark needs to know more, `CommitInv`: `Journaled`, a missing target has a journal and
a candidate; `Known`, every build on disk was published; `Placed` and `Picked`, what a
command knows at each label of the journal, the candidate and the build it is committing.
From it follows that every step is `Still`, `Switched` or `Recorded`: it changes neither
the mark nor the build a repair would leave, or switches to the build a command picked, or
records the one that is installed. `Counted` ties the number of failed calls to the labels
a failed rename leads to, and gives the four of `FailureKeepsBinary`. `Newer`, that a
picked build is later than the installed one, is the part an honest feed adds, and turns
the three kinds of step into the steps of `AtomicInstall`.

### `RulesSyncProofs`

For every number of serials, writers and gateways, every bound on faults, and an honest or
a replaying server:

* `RulesTypeCorrect`, `PointerAlwaysComplete`, `MarkAlwaysWasInForce` and
  `GatewaysServeActivated`: `TypeOK`, `PointerComplete`, `MarkWasInForce` and
  `ServesActivated` hold however many syncs, rollbacks and gateways overlap. The run
  `RS_OneWriter` checks them for one writer; the theorems say that the missing lock does
  not matter to them.
* `MarkNeverDecreases` and `OnlyRollbackPointsBack`: `MarkMonotone` and
  `SyncNeverPointsBack`, under the hypothesis `OneWriter`, which the first needs (section
  8).
* `GatewaysKeepProtection`: `KeepsProtection`, for any number of writers.
* `RollbackRestoresPrevious`: `RestoresPrevious` under `OneWriter`: a second writer may
  complete a pack after the rollback has looked at it and passed on, which TLC finds with
  two writers.

The first four rest on the inductive invariant `CacheInv`. To those properties it adds
`Ready(p)`, what command `p` has established before its next step: the documents it has
written exist before the step that writes the pointer, the serial it advances the mark to
was in force, and the pointer it read was in force. `Ready` survives the steps of every
other command because a document is only ever replaced, never removed, and `inForce` only
grows. The next two add `SoleInv`: a command keeps to the steps of its kind, a running
sync's copy of the mark is still the mark, and what it stores lies above it. That copy
stays current only if no other writer advances the mark, which is where `OneWriter` enters
(`SoleAdvance`).

`KeepsProtection` rests on `Unhurt`: as long as no call has failed, no document is
damaged, every pack ever named by the pointer is complete, and a gateway that serves the
built-ins found no pointer. That no command removes a document is what carries it
through every overlap and crash. `RestoresPrevious` rests on `RestoreInv`, which says of a
rollback at each of its labels that the complete serials below the pack it leaves are
still to be looked at, and, once it tries one, that none above that one is complete.

### `GatewayProofs`

Of `Exchange`, for any number of concurrent requests, of restarts, any bodies with any findings, any
replies and any digest ladders:

* `TypeCorrect`: `TypeOK`.
* `RefusedAlways` (`RefusedNeverSent`): from `ControlInv`, which says of a request at each
  label what the data plane has found of its body by then.
* `SentAlwaysMapped` (`SentIsMapped`) and `WrongSecretNever` (`NeverWrongSecret`): from
  `VaultInv`. The two maps disagree between the two halves of a mint, and other requests
  run there. `Minted` says that what a request has minted so far is mapped, each for its
  own finding, and what it knows between the halves; `ToldOK`, that a placeholder of this
  session that left the gateway, in a body or an answer, is mapped to the secret it stood
  for; `Consistent`, that it stands for one secret, over all sessions. The free rung is
  free because the forward map is injective on the rungs in use (`FreeRung`).
* `RoundTripAlways` (`RoundTrip`): from `EchoInv`, and from the fact that what a response
  was due does not change when later bodies are sent (`DueStable`).
* `LeakNever` (`DetectedNeverLeaks`): from `RawInv`. That the splice loses no finding that
  overlaps no other is proved of the algorithm: findings sorted as `collect` sorts them, a
  cursor that only passes a finding it has replaced or one that overlaps.
* `StatusAlwaysAccounts` (`StatusAccounts`): from `CountInv`, in which the counters are
  the cardinalities of what the requests of the session have come to.

Of `GatewaySession`, for any number of gateways, ports, requests and status commands, with a crash, a failing
write or a failing removal anywhere:

* `SessionTypeCorrect`: `SessionTypeOK`, which says besides the types that no two open listeners
  have one port.
* `FilesDescribe`: `FilesDescribeGateway`.
* `CleanExit`: `CleanExitCutsNothing`.

The inductive invariant `SessionInv` adds two parts to the types. `Flights` says that what
is in flight was let through, and that between the report of the drain and the end of the
process nothing comes in flight again. `Owned` says, for lives that do not overlap, who
owns which file at which label: between the two writes and between the two removals the
files describe nobody in full, which is why `FilesDescribeGateway` alone is not inductive.

### `UpdateGatesProofs`

For any set of releases, manifests and revocation documents, any windows and any time:
`GatesTypeCorrect` (`TypeOK`), and the action properties `RevokedAlwaysStaysOut`
(`RevokedStaysOut`) and `NeverGoesBackwards` (`NeverBackwards`), with commits interrupted
at any of their points and finished by any later command. The invariant `GatesInv` adds to
the types what a command has established before its next step (`Gated`) and what is known
of an interrupted commit (`Journaled`): there is one at most, and the gates have let it
through (`Sound`), against the build that is still in place. From its recovery on a command
finds nothing to recover, so no commit overwrites another's journal; and the version it
compares with is that of the build in place, or of the one it found (`Compares`), which is
why `NeverBackwards` has the exception it has.
`LowerComparesWeights` shows that comparing versions component by component orders them by
their weight, to any base.

### `EventStreamLemmas` and `EventStreamProofs`

The first of the two holds what is true of the operators, for any text (placeholders,
edits, the writer, texts joined from others, the restored text), and that every step keeps
the invariant `StreamInv`. The second has what follows from it, and the theorems.

For every grammar, every stream of events and every budget that holds a placeholder:
`StreamTypeCorrect` (`TypeOK`), `StreamInOrder` (`InOrder`) and `StreamBounded`
(`HeldBounded`). The invariant `StreamInv` has four parts, which need one another. `Home`:
the carry is what its parts spell, in segments that are still queued, the first of them at
the head of the queue; an index that outlived a drain would make an edit change another
event. `HeldHome`: the tail the writer holds belongs to the one raw segment that is
queued. `Bounded` counts what is held, and `Ordered` says that what left and what is
queued are the events, in order.

For every alphabet and every cut, `StreamPartitioned` (`Partition` of `SSEDecoder`). The
decoder's buffer is the tail at every rest, and inside a chunk it is what is left of the
tail once the records found so far are taken off (`DecoderInv`, `ScanLinesKeeps`). A
dispatch removes from the buffer what it gives the record, and the positions of the lines
behind it, found before any of them was scanned, still point at those lines: they ascend
and stay in what is left (`LinesFound`, `ScanLineKeeps`). The writer takes the records
off its tail by their lengths, and arrives at the same cells (`ConsumeTakesOff`).

`StreamConserved` (`Conserved`) is about the text: for any number of channels, events of
any number of leaves, torn or not, and every cut. `Conserved` alone is not inductive,
because the step that completes a placeholder edits segments that were written events
before: it takes the fragments of the carry away there and writes the secret once. The
invariant `StreamFaith` adds to `StreamInv` the two parts of `Faith`. `Speaks` is
`Conserved` of the segments that left and are queued. `Revocable` says of a held carry
that it is what its channel said last; that the segments without its fragments
(`EditAll`) say what the channel said before it, for every way the channel may go on
that still makes a placeholder of the carry; and that taking the fragments away changes
no other channel. The middle part is conditional because a restored text may end in an
earlier placeholder that overlaps the carry; then the carry cannot become one in a text
where no placeholder begins inside another, which `Conserved` asks for (`Clean`).

The lemmas below it come in this order. At most one placeholder begins at a place and what
follows does not change it, from `GrammarOK`. The recursive edits are unfolded from the
end of the text (`ApplyFrom`, `WithinLeafIs`), and the text of a leaf with its edits says
what the leaf said, but for what a carry took from its front or its tail (`LeafSays`,
`SegmentSays`). What a channel says of a sequence of segments is joined from its parts
(`SpokenMore`, `SpeechMore`, `SegmentsRegroup`). A release, a hand-over and an abandoned
carry move texts between records without changing them. Each of the eight actions then
keeps `Faith`, the hard ones being `LeafComplete` (what was cut and the secret put in
front of the rest of the leaf are the same text) and `LeafExtend` (a leaf taken whole
joins the carry).

`StreamRestoresRaw` (`RawRestored`) is about the raw data, which the writer restores piece
by piece: for any grammar and any cut, a run of text events says what one restore of the
whole run says. The lemmas first turn the two recursive algorithms into steps from one
place of the text to the next (`RestoredFrom`, `ReleaseFrom`), with the tail of a text
scanned as the text is from there on (`TailScan`); then `WriterRestores`: whatever text
`w` follows, the restore of `h \o w` is what `Release` lets go of `h` and the restore of
what it keeps followed by `w`. It keeps a beginning of a placeholder and no more
(`Resting`), so the bound of its buffer never cuts one that still grows. Here `NoneInside`
is needed: a placeholder inside another would be complete before the outer one could be
told to fail, and the scan would have passed it.

`RawRestored` is not inductive, because it does not say what the tail is good for. The
invariant `StreamRaw` adds to `StreamInv` that each ended run says its restored text
(`EndedSays`), and that the running one does with the tail held and any `w` put behind it
(`RunningSays`); after `Flush` the tail is in the segments (`OverSays`). `Paired` says that
the segments, those that left and those queued, are the events one by one. Each action
keeps it: deleting the fragments of a carry changes envelopes only (`EditedOver`), the
tail handed to the newest raw segment goes to the run it came from because nothing with a
span was fed since (`TailMoved`, `LastIsText`), and a single value is complete in its own
event (`DocumentsEnd`).

### `RuleEngineProofs`

For any documents, batches of third-party rules and bodies, and any limits:
`EngineTypeCorrect` (`TypeOK`), `DocumentsAreWhole` (`DocumentsWhole`),
`NoResponseRedacted` (`ResponseNeverRedacted`), `BlockAlwaysWins` (`BlockWins`) and
`BuiltinsAlwaysSubstitute` (`PackNeverWeakens`).

The first part is about sorting: the insertion that puts an element behind all that are
not greater keeps what is there and keeps it ascending (`InsertAscends`, `RankAscends`),
so the registry stays in the order of evaluation, whatever is admitted (`AssemblyInv`).
The documents stay whole because the remote rules only grow, by all the rules of one
document or by none (`WholeGrows`, `RemoteAdds`). The last three follow the folds of `collect`:
a step keeps a failure and loses no finding (`Keeps`), a rule that hits either reports or
fails (`OneEntryFacts`), therefore so does the whole body (`AllLeavesFacts`,
`CollectFacts`), and the decision is the highest action among them (`HighestFacts`).

### `NaturalsLemmas`

The induction theorems of the library take an operator as a parameter, which the provers
cannot instantiate. `Induction` states the principle for a set of numbers, from the
library's well-founded order on finite sets, and a proof by induction names the set of the
numbers for which its claim holds. On it rest: a set of numbers has a least member, a
finite one a greatest; a function of numbers defined from the previous
(`ForwardRecursion`), from the next (`BackwardRecursion`), or on sets from a smaller set
(`SetRecursion`) exists; and the fold of the community modules unfolds at its end
(`FoldUnfolds`). With these the recursive functions and the folds of the models can be
reasoned about for every input.

## 6. What is only model-checked

* `EveryRequestAnswered` and `InterruptEnds`: liveness under fairness, and `ENABLED`, are
  outside the prover's reach.
* `HeldSplitRestored` of `EventStream`: it says that what a channel's envelopes say piece
  by piece holds no placeholder that one restore of the whole text would have replaced.
  That needs, beyond the lemmas of `Conserved`, which placeholders of a channel a carry was
  opened for.
* `ChunkInvariant` of `SSEDecoder`: it compares what a decoder has said, chunk by chunk,
  with a decoding of the whole stream.
* `PathsAgree` of `RuleEngine`: the agreement of two evaluations needs that two stable
  sorts of the same findings are equal, and documents that differ in more than their
  allowlist.

No module declares a `RECURSIVE` operator; recursion is by functions and folds, so that
every module can be proved about.

## 7. What is not modelled

* Loss of power: `fsync` of a directory, reordering by the file system. A crash here
  is the end of the process.
* In `BinaryUpdate`: `stat` errors other than absence, Windows file locking, a mark file
  that cannot be read. In `UpdateGates`: what a package manager does to its own binary; the
  renames of a commit and of a recovery, two commands at once, and a target or a backup
  that something else removes, which are all `BinaryUpdate`'s.
* In `RulesSync`: `--check` and its scratch cache; the individual checks of one
  document, which are the single step `Reject`; damage to the pointer or to the mark.
* In `Exchange`: headers; the exact status of an upstream; which detector found what;
  categories as such (a secret stands for literal and category together); digest exhaustion;
  the slow client. The restore of an event stream is taken to equal a restore of the
  whole stream; `EventStream` says how far that is so.
* In `EventStream`: the observer's abort (the gateway installs none), the JSON of an
  envelope, the identity's construction (`identity.go`), bytes of a placeholder's own
  grammar.
* In `GatewaySession`: the values of the counters, the write mode of the files, the
  configuration and the pack a start loads.
* In `RuleDocument`: regular expressions, suffix lists and entropy (what a rule finds is
  given); the timeout of a detector, which is one of the refusals.
* Parsing, pattern matching, signing, configuration, printing, and the layering tool:
  character-level or stateless code, listed component by component in `PROJECT.json`.

## 8. Other differences met while modelling

### Properties that do not hold, and how to see it

These properties are stated in their modules and are no part of a run. Each is violated
within seconds under the constants given; everything else is as in the run named.

| Property | Start from | Change | What happens |
|---|---|---|---|
| `NoDowngrade` | `BU_Sequential` | `StaleFeed = TRUE`, `MaxFaults = 0` | recovery completes an interrupted update but moves neither the mark nor the running image's version, so a replayed older manifest is then installed over the newer build; `NeverBackwards` (`UG_Feed`) says how far back that can go |
| `Startable` | `BU_Sequential` | `SelfHosted = TRUE`, `MaxSerial = 1` | a crash between the two renames leaves no file at the target path, and the repair lives in that file |
| `SomeBuildSurvives` | `BU_Sequential` | two commands, `MaxSerial = 1`, `MaxFaults = 0` | two overlapping commands destroy all three copies, without a crash or a failing call |
| `MarkMonotone` | `RS_OneWriter` | two writers, `MaxSerial = 2` | the sync that loaded the older mark writes last and lowers it |
| `RollbackFindsATarget` | `RS_OneWriter` | no gateway, `MaxFaults = 0` | a directory a crash left incomplete stops every rollback across it |
| `CommittedIsWhole` | `EX_Exchanges` | one request, one session | a copy error other than the deadline's is forgotten, and the bytes that came are committed as the response |
| `AllowlistNeverRedacted` | `EX_Exchanges` | one request, one session | an allowlisted literal is replaced, and then not restored |
| `SplitRestored` | `ES_Stream` | none | a placeholder that begins in the event that ends another carry (no placeholder, a foreign one, or the budget), or in another channel while a carry grows, is not restored although its rest comes next; `docs/security.md:179` (R6) promises every split over consecutive data events of one channel. `HeldSplitRestored` is the part that holds |

### Met while reading

**Redaction and restoring**

* A detector that fails, or a rule that blocks, at the second decision is answered with
  500 `transform_error`; `redact_request.go:41-42` calls this "never client-visible". A body
  that is JSON but was not declared as JSON reaches it.
* The data plane's comment promises non-JSON media types a byte-for-byte passage;
  the transform redacts any body that parses.
* A placeholder whose first underscores are the last of another one is restored or not
  depending on the cut; the properties of `EventStream` exempt such texts (`Clean`).
* `TokenLen` accepts any characters between the type's underscores, `PrefixLen` only those
  of a type. So a stream swallows a nested `__PII_x__PII_email_d__`, or a placeholder a
  few words behind a bare `__PII_`, as one foreign placeholder when it comes in one piece,
  and restores the inner one when it is cut before it; a buffered body restores the inner
  one. `Tokens` is the grammar of the comment (`sse_backfill.go:13-15`), in which neither
  text is a placeholder; `NoneInside` says so.
* Segments queued behind a raw event with a held tail are bounded by the response cap,
  not by the budget of the accumulator.

**Rules**

* `README.md:299` says that a rollback returns to the built-in defaults when there is no
  previous pack; the code fails with `errNoRollbackTarget`.
* `README.md:158` names the signed revocation list among what `rules sync` verifies;
  `RulesSync.Sync` consults only the manifest's own list.
* `redact_request.go:28-29` says the reverse map never holds a placeholder for a secret that was
  never sent; a finding dropped by an overlap, and every finding of a request whose
  dial fails, leaves one.
* A crash between the pointer's write and the mark's lets a later, stale sync point back to a
  serial above the mark; `SyncNeverPointsBack` is stated for a pointer the mark covers.
* After a rollback, a newer pack from the next sync is activated again.
* A signed pack with a rule whose id is a built-in's is activated by `rules sync`, and makes
  every later start of a gateway fail (`cli.go:265`); the comment at `cli.go:238-244` says that
  a cached pack "must never block startup". A mark file that cannot be read blocks it too.
* `floor.go` says that a pack may never lower the compiled-in baseline; a pack's sensitive
  keys together with its allowlist lift a built-in redaction of the gated leaf.
  `PackNeverWeakens` names that case as its exception.
* A second `RegisterCompiled` replaces the sensitive keys of the first, also by none, while
  the rules of both stay registered (`registry.go:144`).
* A document's blocklist is evaluated by `Compiled.Evaluate` only; registered rules have none.
* A remote pack cannot carry scope, category or priority, which the floor forbids.
* No production command fetches the key list or the rules revocations.

**Updates and status**

* `revocation.go:2-5` says that the client never drops to an older, less revoked state. Each
  update command has a new `RevocationStore`, so within one command that is so, and over two
  commands an older document that is still valid is accepted after a newer one.
  `RevokedStaysOut` is what remains: no command accepts the build after the older document's
  window. A commit that was interrupted is finished whenever the next command or gateway
  starts, and recovery consults no document, so an accepted build may come in later still.
* Revoked versions are compared as strings, versions are compared as numbers: revoking
  `1.2.0` does not revoke `v1.2.0`.
* Both opt-ins are needed for a downgrade, and no flag of the command sets the first
  (`UpdateConfig.AllowDowngrade` stays false in `internal/cli/update.go`).
* The pack serial that status prints is read from the cache after the call; it is not what
  the running gateway loaded, if a sync came between (`README.md:301`).
