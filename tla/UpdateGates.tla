---------------------------- MODULE UpdateGates ----------------------------
(***************************************************************************)
(* What an update command accepts, over time: the route by install source  *)
(* (pkg/supply/source.go), the revocation document (revocation.go), the    *)
(* validity windows, the gates of selfUpdate (update.go), and the recovery *)
(* (recover.go) it begins with, which may finish the commit of an earlier  *)
(* command. Of the commit itself, which is BinaryUpdate's, only what it    *)
(* leaves is here: the new build, the old one, or a journal and candidate. *)
(*                                                                         *)
(* The vendor signs documents with a window of validity. A mirror may      *)
(* serve any document that was ever published, so a command may see the    *)
(* revocations of one moment and the manifest of another. One command runs *)
(* at a time, and its process may end at any step.                         *)
(***************************************************************************)
EXTENDS Integers, FiniteSets, Sequences

CONSTANTS
  Releases,   \* what the vendor may release: [serial, version, platform,
              \* channel, withdrawn], the last if its own manifest revokes it
  Parsed,     \* Parsed[v]: the numbers of version v, or <<>> if it has none
  Radix,      \* a number above every number in a version
  First,      \* the release installed at the beginning
  Paths,      \* where the binary may lie, as what DetectSource asks of it
  Life,       \* how long a document is valid
  MaxTime,    \* bounds on the clock,
  MaxManifests, MaxRevocations   \* and on the documents published

ASSUME GatesOK ==
  /\ First \in Releases
  /\ \A r \in Releases : r.serial \in Nat
  /\ \A r \in Releases : Parsed[r.version] = <<>> \/ Parsed[r.version] \in [1 .. 3 -> 0 .. Radix - 1]
  /\ Radix \in Nat
  /\ {Life, MaxTime, MaxManifests, MaxRevocations} \subseteq Nat

VARIABLES
  now,         \* the clock
  where,       \* the path of the binary
  manifests,   \* the manifests published: [release, from]
  revocations, \* the revocation documents, oldest first: [serials, versions,
               \* channel, from]
  image,       \* the release at the target path, or at the backup while away
  journal,     \* the commit that was interrupted, with its journal and its
               \* candidate in place: none or one, as the command accepted it
  away,        \* that commit has moved the target away
  mark,        \* the anti-rollback mark
  cmd          \* the command that runs

feed    == <<manifests, revocations>>
install == <<image, journal, away>>
vars    == <<now, where, feed, install, mark, cmd>>

\* The document a vendor begins with, which revokes nothing.
NothingRevoked == [serials |-> {}, versions |-> {}, channel |-> "stable", from |-> 0]

\* No command runs: its options, the time it started, the version and the mark
\* it loaded, the revocations and the release it fetched have no meaning; nor has
\* old, the build it found installed, which only the properties look at.
Idle ==
  [pc |-> "idle", check |-> FALSE, flag |-> FALSE, env |-> FALSE, start |-> 0, old |-> First,
   binary |-> First.version, mark |-> 0, rev |-> NothingRevoked, man |-> First]

Init ==
  /\ now = 0 /\ where \in Paths
  /\ manifests = {}
  /\ revocations = <<NothingRevoked>>
  /\ image = First /\ mark = First.serial
  /\ journal = {} /\ away = FALSE
  /\ cmd = Idle

-----------------------------------------------------------------------------
(* The vendor and the clock. *)

Tick ==
  /\ now < MaxTime /\ now' = now + 1
  /\ UNCHANGED <<where, feed, install, mark, cmd>>

PublishManifest(r, from) ==
  /\ Cardinality(manifests) < MaxManifests
  /\ manifests' = manifests \union {[release |-> r, from |-> from]}
  /\ UNCHANGED <<now, where, revocations, install, mark, cmd>>

\* A later document repeats what an earlier one revoked, and begins no earlier.
PublishRevocations(serials, versions, channel, from) ==
  LET last == revocations[Len(revocations)]
  IN  /\ Len(revocations) < MaxRevocations /\ from >= last.from
      /\ revocations' = Append(revocations,
           [serials |-> last.serials \union serials, versions |-> last.versions \union versions,
            channel |-> channel, from |-> from])
      /\ UNCHANGED <<now, where, manifests, install, mark, cmd>>

-----------------------------------------------------------------------------
(* DetectSource. A path is [brewDir, brewRoot, scoopDir, scoopRoot, localBin]: *)
(* it has a directory of that manager, it lies below that manager's root, or   *)
(* its directory is the installer's.                                           *)

DetectSource(p) ==
  CASE p.brewDir \/ p.brewRoot   -> "homebrew"
    [] ~ (p.brewDir \/ p.brewRoot) /\ (p.scoopDir \/ p.scoopRoot) -> "scoop"
    [] ~ (p.brewDir \/ p.brewRoot \/ p.scoopDir \/ p.scoopRoot) /\ p.localBin -> "self-managed"
    [] OTHER -> "unknown"

-----------------------------------------------------------------------------
(* The command. *)

Ends == cmd' = Idle /\ UNCHANGED <<now, where, feed, install, mark>>
Goes(c) == cmd' = c /\ UNCHANGED <<now, where, feed, install, mark>>

\* route hands a managed install to its manager, which replaces what is its own,
\* and leaves an unknown one alone.
SelfManaged == DetectSource(where) = "self-managed"

\* What a command can be started from: the target, or one of the copies left.
Images == {image} \union (IF away THEN {c.release : c \in journal} ELSE {})

\* NewUpdater loads the mark and the running version, before selfUpdate repairs
\* the install, which --check does not.
Launch(check, flag, env) ==
  /\ cmd = Idle
  /\ \E b \in Images :
       IF SelfManaged /\ Parsed[b.version] # <<>>
         THEN Goes([Idle EXCEPT !.pc = IF check THEN "revocations" ELSE "recover",
                                !.check = check, !.flag = flag, !.env = env, !.start = now,
                                !.old = image, !.binary = b.version, !.mark = mark])
         ELSE Ends

\* recoverJournaled finishes the commit, and consults no document.
Recover ==
  /\ image' \in (IF journal = {} THEN {image} ELSE {c.release : c \in journal})
  /\ journal' = {} /\ away' = FALSE

\* A rename of it fails, or the process ends, on either side of the first one.
RecoverFails ==
  /\ away' \in (IF journal = {} THEN {away} ELSE BOOLEAN)
  /\ UNCHANGED <<image, journal>>

\* The version that was loaded stays, whatever is installed now.
Repair ==
  /\ cmd.pc = "recover"
  /\ \/ Recover /\ cmd' = [cmd EXCEPT !.pc = "revocations"]
     \/ RecoverFails /\ cmd' = Idle
  /\ UNCHANGED <<now, where, feed, mark>>

\* A gateway that starts repairs too, on any install.
Run ==
  /\ cmd = Idle
  /\ Recover \/ RecoverFails
  /\ UNCHANGED <<now, where, feed, mark, cmd>>

Fresh(doc) == doc.from <= now /\ now <= doc.from + Life

\* Mutant of FetchRevocations: the window is not checked.
FetchRevocations_AnyAge(i) ==
  /\ cmd.pc = "revocations"
  /\ Goes([cmd EXCEPT !.pc = "manifest", !.rev = revocations[i]])

\* The store is new, so whichever document verifies is applied.
FetchRevocations(i) ==
  /\ cmd.pc = "revocations"
  /\ IF Fresh(revocations[i])
       THEN Goes([cmd EXCEPT !.pc = "manifest", !.rev = revocations[i]])
       ELSE Ends

\* Mutant of Lower: every number is compared on its own.
Lower_Pointwise(a, b) == \A i \in DOMAIN b : a[i] <= b[i] /\ a # b

\* checkUpdateVersion compares the first number that differs.
Lower(a, b) ==
  \E i \in DOMAIN b : a[i] < b[i] /\ \A j \in 1 .. i - 1 : a[j] = b[j]

\* Check: serials and versions are revoked on their own.
Revoked(r, rev) == r.serial \in rev.serials \/ r.version \in rev.versions

\* The gates of selfUpdate that refuse a release.
Refused(r) ==
  \/ cmd.rev.channel # "stable" \/ r.channel # "stable"
  \/ Revoked(r, cmd.rev) \/ r.withdrawn
  \/ r.serial < cmd.mark
  \/ Parsed[r.version] = <<>>
  \/ Lower(Parsed[r.version], Parsed[cmd.binary]) /\ ~ (cmd.flag /\ cmd.env)
  \/ r.platform # "this"

UpToDate(r) == r.serial = cmd.mark

\* The manifest's window is compared with a later clock than the revocations'.
\* An up-to-date serial and --check end the command without a change.
FetchManifest(doc) ==
  /\ cmd.pc = "manifest"
  /\ IF ~ Fresh(doc) \/ Refused(doc.release) \/ UpToDate(doc.release) \/ cmd.check
       THEN Ends
       ELSE Goes([cmd EXCEPT !.pc = "download", !.man = doc.release])

\* downloadArtifact: what lies at the URL may be of another release, which the
\* digest tells.
Download(artifact) ==
  /\ cmd.pc = "download"
  /\ IF artifact = cmd.man THEN Goes([cmd EXCEPT !.pc = "commit"]) ELSE Ends

\* What a command has accepted, and how.
Acceptance ==
  [release |-> cmd.man, start |-> cmd.start, opted |-> cmd.flag /\ cmd.env, old |-> cmd.old]

\* commitArtifact succeeds.
Commit ==
  /\ cmd.pc = "commit"
  /\ image' = cmd.man
  /\ cmd' = [cmd EXCEPT !.pc = "record"]
  /\ UNCHANGED <<now, where, feed, journal, away, mark>>

\* The process ends, or a rename fails, when the journal is written and the
\* candidate not yet installed, before or after the target was moved away.
Interrupted ==
  /\ cmd.pc = "commit"
  /\ journal' = {Acceptance} /\ away' \in BOOLEAN
  /\ cmd' = Idle
  /\ UNCHANGED <<now, where, feed, image, mark>>

\* The mark advances last.
Record ==
  /\ cmd.pc = "record"
  /\ mark' = cmd.man.serial
  /\ cmd' = Idle
  /\ UNCHANGED <<now, where, feed, install>>

\* A fetch, a signature or a write fails, or the process ends. A candidate that
\* no journal speaks of is discarded by the next recovery.
Fails == cmd # Idle /\ Ends

-----------------------------------------------------------------------------
Next ==
  \/ Tick
  \/ \E r \in Releases, from \in {now, now + 1} : PublishManifest(r, from)
  \/ \E r \in Releases : \/ PublishRevocations({r.serial}, {}, "stable", now)
                         \/ PublishRevocations({}, {r.version}, "stable", now)
  \/ \E from \in {now, now + 1} : PublishRevocations({}, {}, "stable", from)
  \/ PublishRevocations({}, {}, "beta", now)
  \/ \E check, flag, env \in BOOLEAN : Launch(check, flag, env)
  \/ Repair \/ Run
  \/ \E i \in DOMAIN revocations : FetchRevocations(i)
  \/ \E doc \in manifests : FetchManifest(doc)
  \/ \E doc \in manifests : Download(doc.release)
  \/ Commit \/ Interrupted \/ Record
  \/ Fails

Spec == Init /\ [][Next]_vars

-----------------------------------------------------------------------------
(* Properties. *)

Replaces == image' # image

\* The acceptance of the build that comes in: of the command that commits it, or
\* of the earlier one whose commit a recovery finishes.
Accepted == IF cmd.pc = "commit" THEN {Acceptance} ELSE journal

\* Whatever the mirror replays, a release that some document revokes is replaced
\* in only if the command that accepted it was started while a document that does
\* not revoke it was still valid (payload.go:43-44, "the independent revocations
\* document is authoritative"): a withdrawn build is accepted no more when the last
\* such document expires. What was accepted may come in later, because a recovery
\* finishes an interrupted commit without asking.
RevokedStaysOut ==
  [][Replaces => \E a \in Accepted :
       /\ a.release = image'
       /\ (\E i \in DOMAIN revocations : Revoked(a.release, revocations[i])) =>
            \E i \in DOMAIN revocations : /\ ~ Revoked(a.release, revocations[i])
                                          /\ a.start <= revocations[i].from + Life]_vars

\* Three numbers below the radix as one, so that versions compare as numbers.
Weight(v) == (v[1] * Radix + v[2]) * Radix + v[3]

Below(r, s) == Weight(Parsed[r.version]) < Weight(Parsed[s.version])

\* Without both opt-ins of the user (source.go:149-152), a build gives way to one
\* of a lower version only if the command that accepted it had first finished the
\* commit of another (update.go:216-222 after 159-171): its gate compared with the
\* build that ran before that commit, and lower than that one nothing comes in.
\* And what a package manager owns is never replaced.
NeverBackwards ==
  [][Replaces =>
       /\ \E a \in Accepted :
            /\ a.release = image'
            /\ Below(image', image) => a.opted \/ (a.old # image /\ ~ Below(image', a.old))
       /\ ~ \E owned \in {"brewDir", "brewRoot", "scoopDir", "scoopRoot"} : where[owned]]_vars
=============================================================================
