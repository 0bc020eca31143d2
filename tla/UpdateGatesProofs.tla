-------------------------- MODULE UpdateGatesProofs --------------------------
(***************************************************************************)
(* What the gates of an update command guarantee for every set of releases *)
(* and paths, every length of a document's validity, any number of         *)
(* documents, and a mirror that replays any of them at any time.           *)
(***************************************************************************)
EXTENDS UpdateGates, SequenceTheorems, TLAPS

Steps    == {"recover", "revocations", "manifest", "download", "commit", "record"}
Serials  == {r.serial : r \in Releases}
Versions == {r.version : r \in Releases}
Docs     == [serials : SUBSET Serials, versions : SUBSET Versions,
             channel : {"stable", "beta"}, from : Nat]
Commands == [pc : {"idle"} \cup Steps, check : BOOLEAN, flag : BOOLEAN, env : BOOLEAN, start : Nat,
             old : Releases, binary : Versions, mark : Nat, rev : Docs, man : Releases]
Acceptances == [release : Releases, start : Nat, opted : BOOLEAN, old : Releases]

\* The clock, the documents, the install and the command are well typed.
TypeOK ==
  /\ now \in Nat
  /\ where \in Paths
  /\ \A doc \in manifests : doc.release \in Releases /\ doc.from \in Nat
  /\ revocations \in Seq(Docs) /\ revocations # <<>>
  /\ image \in Releases
  /\ journal \subseteq Acceptances
  /\ away \in BOOLEAN
  /\ mark \in Nat
  /\ cmd \in Commands

Readable(r) == Parsed[r.version] # <<>>

\* What the gates let through: a release with a version, spared by a document that
\* was valid when its command was started, and not lower than the build in place
\* unless the user wants it or the command had found another one in place.
Spared(r, start) ==
  \E i \in DOMAIN revocations : ~ Revoked(r, revocations[i]) /\ start <= revocations[i].from + Life
Forward(a) == Below(a.release, image) => a.opted \/ (a.old # image /\ ~ Below(a.release, a.old))
Sound(a)   == Readable(a.release) /\ Spared(a.release, a.start) /\ Forward(a)

\* The version a command compares with is that of the build in place, or of the one
\* that was in place before its recovery.
Compares == cmd.binary = image.version \/ (cmd.old # image /\ cmd.binary = cmd.old.version)

\* What a command has loaded and checked before each of its steps. From its
\* recovery on nothing is left to recover.
Gated ==
  /\ cmd.pc \in Steps => SelfManaged /\ cmd.start <= now
  /\ cmd.pc \in Steps \ {"record"} => Parsed[cmd.binary] # <<>> /\ Readable(image)
  /\ cmd.pc = "recover" =>
       /\ cmd.old = image
       /\ cmd.binary = image.version \/ \E a \in journal : cmd.binary = a.release.version
  /\ cmd.pc \in {"revocations", "manifest"} => cmd.check \/ (journal = {} /\ Compares)
  /\ cmd.pc \in {"download", "commit"} => journal = {} /\ Compares
  /\ cmd.pc \in {"manifest", "download", "commit"} =>
       \E i \in DOMAIN revocations : /\ cmd.rev = revocations[i]
                                     /\ cmd.start <= revocations[i].from + Life
  /\ cmd.pc \in {"download", "commit"} => ~ Refused(cmd.man)

\* An interrupted commit is one that the gates have let through.
Journaled ==
  /\ \A a \in journal, b \in journal : a = b
  /\ journal # {} => SelfManaged /\ Readable(image) /\ \A a \in journal : Sound(a)

GatesInv == TypeOK /\ Gated /\ Journaled

-----------------------------------------------------------------------------
(* The order of versions. *)

\* A greater digit outweighs every lower one.
LEMMA Outweighs ==
  ASSUME NEW R \in Nat, NEW x \in Nat, NEW y \in Nat, x < y,
         NEW u \in 0 .. R - 1, NEW w \in 0 .. R - 1
  PROVE  x * R + u < y * R + w
<1>1. PICK d \in Nat : y = x + 1 + d
  <2>1. y - x - 1 \in Nat /\ y = x + 1 + (y - x - 1)
    OBVIOUS
  <2> QED
    BY <2>1
<1>2. y * R = x * R + R + d * R
  BY <1>1
<1>3. x * R \in Nat /\ d * R \in Nat
  BY <1>1
<1> QED
  BY <1>2, <1>3

\* checkUpdateVersion compares the versions as numbers: a version whose weight is
\* less is lower.
LEMMA LowerComparesWeights ==
  ASSUME NEW a \in [1 .. 3 -> 0 .. Radix - 1], NEW b \in [1 .. 3 -> 0 .. Radix - 1],
         Weight(a) < Weight(b)
  PROVE  Lower(a, b)
<1>0. Radix \in Nat
  BY GatesOK
<1>1. /\ a[1] \in Nat /\ b[1] \in Nat /\ a[2] \in Nat /\ b[2] \in Nat
      /\ a[2] \in 0 .. Radix - 1 /\ b[2] \in 0 .. Radix - 1
      /\ a[3] \in 0 .. Radix - 1 /\ b[3] \in 0 .. Radix - 1
  BY <1>0
<1>2. a[1] * Radix + a[2] \in Nat /\ b[1] * Radix + b[2] \in Nat
  <2>1. a[1] * Radix \in Nat /\ b[1] * Radix \in Nat
    BY <1>0, <1>1
  <2> QED
    BY <1>1, <2>1
<1>3. a[1] * Radix + a[2] <= b[1] * Radix + b[2]
  <2> SUFFICES ASSUME b[1] * Radix + b[2] < a[1] * Radix + a[2] PROVE FALSE
    BY <1>2
  <2>1. Weight(b) < Weight(a)
    BY <1>0, <1>1, <1>2, Outweighs DEF Weight
  <2>2. Weight(a) \in Int /\ Weight(b) \in Int
    <3>1. (a[1] * Radix + a[2]) * Radix \in Nat /\ (b[1] * Radix + b[2]) * Radix \in Nat
      BY <1>0, <1>2
    <3> QED
      BY <1>1, <3>1 DEF Weight
  <2> QED
    BY <2>1, <2>2
<1>4. a[1] <= b[1]
  <2> SUFFICES ASSUME b[1] < a[1] PROVE FALSE
    BY <1>1
  <2>1. b[1] * Radix + b[2] < a[1] * Radix + a[2]
    BY <1>0, <1>1, Outweighs
  <2> QED
    BY <1>2, <1>3, <2>1
<1>5. DOMAIN b = 1 .. 3
  OBVIOUS
<1>6. CASE a[1] < b[1]
  <2>1. \A j \in 1 .. 1 - 1 : a[j] = b[j]
    OBVIOUS
  <2> QED
    BY <1>5, <1>6, <2>1 DEF Lower
<1>7. CASE a[1] = b[1]
  <2>1. a[2] <= b[2]
    <3>1. a[1] * Radix = b[1] * Radix /\ a[1] * Radix \in Nat
      BY <1>0, <1>1, <1>7
    <3> QED
      BY <1>1, <1>3, <3>1
  <2>2. CASE a[2] < b[2]
    <3>1. \A j \in 1 .. 2 - 1 : a[j] = b[j]
      BY <1>7
    <3> QED
      BY <1>5, <2>2, <3>1 DEF Lower
  <2>3. CASE a[2] = b[2]
    <3>1. a[3] < b[3]
      <4>1. (a[1] * Radix + a[2]) * Radix = (b[1] * Radix + b[2]) * Radix
        BY <1>7, <2>3
      <4>2. (a[1] * Radix + a[2]) * Radix \in Nat
        BY <1>0, <1>2
      <4> QED
        BY <1>1, <4>1, <4>2 DEF Weight
    <3>2. \A j \in 1 .. 3 - 1 : a[j] = b[j]
      BY <1>7, <2>3
    <3> QED
      BY <1>5, <3>1, <3>2 DEF Lower
  <2> QED
    BY <1>1, <2>1, <2>2, <2>3
<1> QED
  BY <1>1, <1>4, <1>6, <1>7

-----------------------------------------------------------------------------
(* The invariant. *)

\* A first release is installed, nothing is published but a document that
\* revokes nothing, and no command runs.
LEMMA GatesInit == Init => GatesInv
<1> SUFFICES ASSUME Init PROVE GatesInv
  OBVIOUS
<1>1. First \in Releases /\ First.serial \in Nat
  BY GatesOK
<1>2. NothingRevoked \in Docs
  BY DEF NothingRevoked, Docs
<1>3. Idle \in Commands
  BY <1>1, <1>2 DEF Idle, Commands, Versions
<1>4. <<NothingRevoked>> \in Seq(Docs) /\ <<NothingRevoked>> # <<>>
  BY <1>2
<1>5. TypeOK
  BY <1>1, <1>3, <1>4 DEF Init, TypeOK
<1>6. cmd.pc \notin Steps /\ journal = {}
  BY DEF Init, Idle, Steps
<1> QED
  BY <1>5, <1>6 DEF GatesInv, Gated, Journaled, Steps

\* The document a command has fetched stays published.
LEMMA StillPublished ==
  ASSUME GatesInv, NEW doc \in Docs, revocations' = Append(revocations, doc)
  PROVE  \A i \in DOMAIN revocations : i \in DOMAIN revocations' /\ revocations'[i] = revocations[i]
BY DEF GatesInv, TypeOK

\* An interrupted commit that nothing touches stays sound.
LEMMA JournalStays ==
  ASSUME GatesInv, UNCHANGED <<where, image, journal>>,
         \A i \in DOMAIN revocations : i \in DOMAIN revocations' /\ revocations'[i] = revocations[i]
  PROVE  Journaled'
<1>1. \A a \in journal : Spared(a.release, a.start) => Spared(a.release, a.start)'
  BY DEF Spared
<1> QED
  BY <1>1 DEF GatesInv, Journaled, Sound, Forward, Readable, SelfManaged

\* Time passes and the vendor publishes.
LEMMA GatesWorld ==
  ASSUME GatesInv,
         \/ Tick
         \/ \E r \in Releases, from \in {now, now + 1} : PublishManifest(r, from)
         \/ \E r \in Releases : \/ PublishRevocations({r.serial}, {}, "stable", now)
                                \/ PublishRevocations({}, {r.version}, "stable", now)
         \/ \E from \in {now, now + 1} : PublishRevocations({}, {}, "stable", from)
         \/ PublishRevocations({}, {}, "beta", now)
  PROVE  GatesInv'
<1> USE DEF GatesInv, TypeOK
<1>1. CASE Tick
  <2>1. now' = now + 1 /\ UNCHANGED <<where, manifests, revocations, image, journal, away, mark, cmd>>
    BY <1>1 DEF Tick, feed, install
  <2>2. cmd.start \in Nat
    BY DEF Commands
  <2>3. cmd.start <= now => cmd.start <= now'
    BY <2>1, <2>2
  <2>4. Gated'
    BY <2>1, <2>3 DEF Gated, Refused, Compares, Readable, SelfManaged
  <2> QED
    BY <2>1, <2>4, JournalStays
<1>2. ASSUME NEW r \in Releases, NEW from \in {now, now + 1}, PublishManifest(r, from) PROVE GatesInv'
  <2>1. /\ manifests' = manifests \union {[release |-> r, from |-> from]}
        /\ UNCHANGED <<now, where, revocations, image, journal, away, mark, cmd>>
    BY <1>2 DEF PublishManifest, install
  <2>2. \A doc \in manifests' : doc.release \in Releases /\ doc.from \in Nat
    BY <2>1
  <2>3. Gated'
    BY <2>1 DEF Gated, Refused, Compares, Readable, SelfManaged
  <2> QED
    BY <2>1, <2>2, <2>3, JournalStays
<1>3. ASSUME NEW serials \in SUBSET Serials, NEW versions \in SUBSET Versions,
             NEW channel \in {"stable", "beta"}, NEW from \in Nat,
             PublishRevocations(serials, versions, channel, from)
      PROVE  GatesInv'
  <2> DEFINE last == revocations[Len(revocations)]
             doc == [serials |-> last.serials \union serials, versions |-> last.versions \union versions,
                     channel |-> channel, from |-> from]
  <2>1. /\ revocations' = Append(revocations, doc)
        /\ UNCHANGED <<now, where, manifests, image, journal, away, mark, cmd>>
    BY <1>3 DEF PublishRevocations, install
  <2>2. last \in Docs
    <3>1. Len(revocations) \in Nat \ {0}
      BY EmptySeq
    <3> QED
      BY <3>1, ElementOfSeq
  <2>3. doc \in Docs
    BY <2>2 DEF Docs
  <2> HIDE DEF doc
  <2>4. revocations' \in Seq(Docs) /\ revocations' # <<>>
    BY <2>1, <2>3
  <2>5. \A i \in DOMAIN revocations : i \in DOMAIN revocations' /\ revocations'[i] = revocations[i]
    BY <2>1, <2>3, StillPublished
  <2>6. Gated'
    BY <2>1, <2>5 DEF Gated, Refused, Compares, Readable, SelfManaged
  <2> QED
    BY <2>1, <2>4, <2>5, <2>6, JournalStays
<1>4. now \in Nat /\ now + 1 \in Nat /\ \A r \in Releases : r.serial \in Serials /\ r.version \in Versions
  BY DEF Serials, Versions
<1> QED
  BY <1>1, <1>2, <1>3, <1>4

\* The record of no command.
LEMMA IdleTyped == Idle \in Commands /\ Idle.pc \notin Steps
<1>1. First \in Releases
  BY GatesOK
<1> QED
  BY <1>1 DEF Idle, NothingRevoked, Commands, Docs, Versions, Steps

\* A command that ends leaves nothing checked and nothing to check.
LEMMA GatesEnd == ASSUME GatesInv, Ends PROVE GatesInv'
<1>1. UNCHANGED <<now, where, manifests, revocations, image, journal, away, mark>> /\ cmd' = Idle
  BY DEF Ends, feed, install
<1>2. Journaled'
  BY <1>1, JournalStays
<1> QED
  BY <1>1, <1>2, IdleTyped DEF GatesInv, TypeOK, Gated, Steps

\* A command loads the version of the build in place, or of the candidate.
LEMMA GatesLaunch ==
  ASSUME GatesInv, NEW check \in BOOLEAN, NEW flag \in BOOLEAN, NEW env \in BOOLEAN,
         Launch(check, flag, env)
  PROVE  GatesInv'
<1> USE DEF GatesInv, TypeOK
<1>1. PICK b \in Images :
        IF SelfManaged /\ Parsed[b.version] # <<>>
          THEN Goes([Idle EXCEPT !.pc = IF check THEN "revocations" ELSE "recover",
                                 !.check = check, !.flag = flag, !.env = env, !.start = now,
                                 !.old = image, !.binary = b.version, !.mark = mark])
          ELSE Ends
  BY DEF Launch
<1>2. /\ b \in Releases
      /\ b = image \/ \E a \in journal : b = a.release
  BY DEF Images, Acceptances
<1>3. CASE ~Ends
  <2> DEFINE c == [Idle EXCEPT !.pc = IF check THEN "revocations" ELSE "recover",
                               !.check = check, !.flag = flag, !.env = env, !.start = now,
                               !.old = image, !.binary = b.version, !.mark = mark]
  <2>1. /\ SelfManaged /\ Parsed[b.version] # <<>>
        /\ cmd' = c /\ UNCHANGED <<now, where, manifests, revocations, image, journal, away, mark>>
    BY <1>1, <1>3 DEF Goes, feed, install
  <2>2. /\ c \in Commands /\ c.start = now /\ c.binary = b.version /\ c.old = image
        /\ c.check = check /\ c.pc = IF check THEN "revocations" ELSE "recover"
    BY <1>2, IdleTyped DEF Idle, NothingRevoked, Commands, Docs, Versions, Steps
  <2> HIDE DEF c
  <2>3. Readable(image)
    BY <1>2, <2>1 DEF Readable, Journaled
  <2>4. Gated'
    BY <1>2, <2>1, <2>2, <2>3 DEF Gated, Steps, Readable, SelfManaged
  <2> QED
    BY <2>1, <2>2, <2>4, JournalStays
<1> QED
  BY <1>3, GatesEnd

\* A recovery puts the build in place that the gates have let through, and leaves
\* nothing to recover.
LEMMA RecoverIs ==
  ASSUME GatesInv, Recover
  PROVE  /\ image' \in Releases /\ journal' = {} /\ away' = FALSE
         /\ \/ journal = {} /\ image' = image
            \/ \E a \in journal : image' = a.release /\ Readable(a.release)
BY DEF GatesInv, TypeOK, Journaled, Sound, Recover, Acceptances

\* The recovery of an update command.
LEMMA GatesRepair ==
  ASSUME GatesInv, Repair
  PROVE  GatesInv'
<1> USE DEF GatesInv, TypeOK
<1>1. cmd.pc = "recover" /\ UNCHANGED <<now, where, manifests, revocations, mark>>
  BY DEF Repair, feed
<1>2. CASE Recover /\ cmd' = [cmd EXCEPT !.pc = "revocations"]
  <2> DEFINE c == [cmd EXCEPT !.pc = "revocations"]
  <2>1. /\ c \in Commands /\ c.pc = "revocations" /\ c.start = cmd.start
        /\ c.binary = cmd.binary /\ c.old = cmd.old
    BY DEF Commands, Steps
  <2>2. cmd' = c
    BY <1>2
  <2> HIDE DEF c
  <2>3. Readable(image') /\ Compares'
    <3>1. CASE journal = {} /\ image' = image
      BY <1>1, <2>1, <2>2, <3>1 DEF Gated, Compares, Steps
    <3>2. ASSUME NEW a \in journal, image' = a.release, Readable(a.release)
          PROVE  Readable(image') /\ Compares'
      <4>1. cmd.old = image /\ (cmd.binary = image.version \/ cmd.binary = a.release.version)
        BY <1>1 DEF Gated, Journaled
      <4> QED
        BY <2>1, <2>2, <3>2, <4>1 DEF Compares
    <3> QED
      BY <1>2, <3>1, <3>2, RecoverIs
  <2>4. journal' = {} /\ away' = FALSE /\ image' \in Releases
    BY <1>2, RecoverIs
  <2>5. Gated'
    BY <1>1, <2>1, <2>2, <2>3, <2>4 DEF Gated, Steps, Readable, SelfManaged
  <2>6. Journaled'
    BY <2>4 DEF Journaled
  <2> QED
    BY <1>1, <2>1, <2>2, <2>4, <2>5, <2>6
<1>3. CASE RecoverFails /\ cmd' = Idle
  <2>1. UNCHANGED <<image, journal>> /\ away' \in BOOLEAN
    BY <1>3 DEF RecoverFails
  <2>2. Journaled'
    BY <1>1, <2>1, JournalStays
  <2> QED
    BY <1>1, <1>3, <2>1, <2>2, IdleTyped DEF Gated, Steps
<1> QED
  BY <1>2, <1>3 DEF Repair

\* The recovery of a gateway that starts.
LEMMA GatesRun ==
  ASSUME GatesInv, Run
  PROVE  GatesInv'
<1> USE DEF GatesInv, TypeOK
<1>1. /\ cmd.pc \notin Steps /\ cmd' = cmd
      /\ UNCHANGED <<now, where, manifests, revocations, mark>>
  BY IdleTyped DEF Run, feed
<1>2. Gated'
  BY <1>1 DEF Gated, Steps
<1>3. CASE Recover
  <2>1. journal' = {} /\ away' = FALSE /\ image' \in Releases
    BY <1>3, RecoverIs
  <2> QED
    BY <1>1, <1>2, <2>1 DEF Journaled
<1>4. CASE RecoverFails
  <2>1. UNCHANGED <<image, journal>> /\ away' \in BOOLEAN
    BY <1>4 DEF RecoverFails
  <2>2. Journaled'
    BY <1>1, <2>1, JournalStays
  <2> QED
    BY <1>1, <1>2, <2>1, <2>2
<1> QED
  BY <1>3, <1>4 DEF Run

\* The two fetches add what they check.
LEMMA GatesFetch ==
  ASSUME GatesInv,
         \/ \E i \in DOMAIN revocations : FetchRevocations(i)
         \/ \E doc \in manifests : FetchManifest(doc)
         \/ \E doc \in manifests : Download(doc.release)
  PROVE  GatesInv'
<1> USE DEF GatesInv, TypeOK
<1>1. ASSUME NEW i \in DOMAIN revocations, FetchRevocations(i) PROVE GatesInv'
  <2>1. CASE ~Ends
    <3> DEFINE c == [cmd EXCEPT !.pc = "manifest", !.rev = revocations[i]]
    <3>1. /\ cmd.pc = "revocations" /\ Fresh(revocations[i])
          /\ cmd' = c /\ UNCHANGED <<now, where, manifests, revocations, image, journal, away, mark>>
      BY <1>1, <2>1 DEF FetchRevocations, Goes, feed, install
    <3>2. revocations[i] \in Docs
      OBVIOUS
    <3>3. /\ c \in Commands /\ c.pc = "manifest" /\ c.rev = revocations[i]
          /\ c.start = cmd.start /\ c.binary = cmd.binary /\ c.old = cmd.old /\ c.check = cmd.check
      BY <3>2 DEF Commands, Steps
    <3> HIDE DEF c
    <3>4. cmd.start <= revocations[i].from + Life
      <4>1. cmd.start <= now /\ cmd.start \in Nat /\ revocations[i].from \in Nat /\ Life \in Nat
        BY <3>1, <3>2, GatesOK DEF Gated, Steps, Commands, Docs
      <4> QED
        BY <3>1, <4>1 DEF Fresh
    <3>5. Gated'
      BY <3>1, <3>3, <3>4 DEF Gated, Steps, Readable, SelfManaged, Compares
    <3> QED
      BY <3>1, <3>3, <3>5, JournalStays
  <2> QED
    BY <2>1, GatesEnd
<1>2. ASSUME NEW doc \in manifests, FetchManifest(doc) PROVE GatesInv'
  <2>1. CASE ~Ends
    <3> DEFINE c == [cmd EXCEPT !.pc = "download", !.man = doc.release]
    <3>1. /\ cmd.pc = "manifest" /\ ~cmd.check /\ ~Refused(doc.release)
          /\ cmd' = c /\ UNCHANGED <<now, where, manifests, revocations, image, journal, away, mark>>
      BY <1>2, <2>1 DEF FetchManifest, Goes, feed, install
    <3>2. /\ c \in Commands /\ c.pc = "download" /\ c.rev = cmd.rev /\ c.man = doc.release
          /\ c.start = cmd.start /\ c.binary = cmd.binary /\ c.mark = cmd.mark
          /\ c.flag = cmd.flag /\ c.env = cmd.env /\ c.old = cmd.old
      BY DEF Commands, Steps
    <3> HIDE DEF c
    <3>3. ~Refused(cmd.man)'
      BY <3>1, <3>2 DEF Refused
    <3>4. /\ journal = {} /\ Compares
          /\ \E i \in DOMAIN revocations : /\ cmd.rev = revocations[i]
                                          /\ cmd.start <= revocations[i].from + Life
      BY <3>1 DEF Gated
    <3>5. SelfManaged /\ cmd.start <= now /\ Parsed[cmd.binary] # <<>> /\ Readable(image)
      BY <3>1 DEF Gated, Steps
    <3>6. Gated'
      BY <3>1, <3>2, <3>3, <3>4, <3>5 DEF Gated, Steps, Readable, SelfManaged, Compares
    <3> QED
      BY <3>1, <3>2, <3>6, JournalStays
  <2> QED
    BY <2>1, GatesEnd
<1>3. ASSUME NEW doc \in manifests, Download(doc.release) PROVE GatesInv'
  <2>1. CASE ~Ends
    <3> DEFINE c == [cmd EXCEPT !.pc = "commit"]
    <3>1. /\ cmd.pc = "download"
          /\ cmd' = c /\ UNCHANGED <<now, where, manifests, revocations, image, journal, away, mark>>
      BY <1>3, <2>1 DEF Download, Goes, feed, install
    <3>2. /\ c \in Commands /\ c.pc = "commit" /\ c.rev = cmd.rev /\ c.man = cmd.man
          /\ c.start = cmd.start /\ c.binary = cmd.binary /\ c.mark = cmd.mark
          /\ c.flag = cmd.flag /\ c.env = cmd.env /\ c.old = cmd.old
      BY DEF Commands, Steps
    <3> HIDE DEF c
    <3>3. ~Refused(cmd.man)'
      BY <3>1, <3>2 DEF Refused, Gated
    <3>4. Gated'
      BY <3>1, <3>2, <3>3 DEF Gated, Steps, Readable, SelfManaged, Compares
    <3> QED
      BY <3>1, <3>2, <3>4, JournalStays
  <2> QED
    BY <2>1, GatesEnd
<1> QED
  BY <1>1, <1>2, <1>3

\* What checkUpdateVersion lets through is not below what it compares with, unless
\* the user has opted in.
LEMMA GateComparesBuilds ==
  ASSUME NEW r \in Releases, NEW b \in Releases, Readable(r), Readable(b), Below(r, b)
  PROVE  Lower(Parsed[r.version], Parsed[b.version])
<1>1. /\ Parsed[r.version] \in [1 .. 3 -> 0 .. Radix - 1]
      /\ Parsed[b.version] \in [1 .. 3 -> 0 .. Radix - 1]
  BY GatesOK DEF Readable
<1> QED
  BY <1>1, LowerComparesWeights DEF Below

\* A command that commits has accepted what the gates let through.
LEMMA AcceptanceSound ==
  ASSUME GatesInv, cmd.pc = "commit"
  PROVE  Acceptance \in Acceptances /\ Acceptance.release = cmd.man /\ Sound(Acceptance)
<1> USE DEF GatesInv, TypeOK
<1>1. /\ Acceptance \in Acceptances /\ Acceptance.release = cmd.man
      /\ Acceptance.start = cmd.start /\ Acceptance.old = cmd.old
      /\ Acceptance.opted = (cmd.flag /\ cmd.env)
  BY DEF Acceptance, Acceptances, Commands
<1>2. /\ ~Refused(cmd.man) /\ Compares /\ Parsed[cmd.binary] # <<>> /\ Readable(image)
      /\ cmd.man \in Releases /\ cmd.old \in Releases
  BY DEF Gated, Commands, Steps
<1>3. Readable(cmd.man) /\ (Lower(Parsed[cmd.man.version], Parsed[cmd.binary]) => cmd.flag /\ cmd.env)
  BY <1>2 DEF Refused, Readable
<1>4. Spared(cmd.man, cmd.start)
  <2>1. PICK i \in DOMAIN revocations : cmd.rev = revocations[i] /\ cmd.start <= revocations[i].from + Life
    BY DEF Gated
  <2>2. ~Revoked(cmd.man, cmd.rev)
    BY <1>2 DEF Refused
  <2> QED
    BY <2>1, <2>2 DEF Spared
<1>5. Forward(Acceptance)
  <2> SUFFICES ASSUME Below(cmd.man, image), ~(cmd.flag /\ cmd.env)
               PROVE  cmd.old # image /\ ~Below(cmd.man, cmd.old)
    BY <1>1 DEF Forward
  <2>1. cmd.binary # image.version
    BY <1>2, <1>3, GateComparesBuilds
  <2>2. cmd.old # image /\ cmd.binary = cmd.old.version
    BY <1>2, <2>1 DEF Compares
  <2>3. Readable(cmd.old)
    BY <1>2, <2>2 DEF Readable
  <2> QED
    BY <1>2, <1>3, <2>2, <2>3, GateComparesBuilds
<1> QED
  BY <1>1, <1>3, <1>4, <1>5 DEF Sound

\* A commit succeeds or is interrupted, and the mark is recorded.
LEMMA GatesCommit ==
  ASSUME GatesInv, Commit \/ Interrupted \/ Record
  PROVE  GatesInv'
<1> USE DEF GatesInv, TypeOK
<1>1. CASE Commit
  <2> DEFINE c == [cmd EXCEPT !.pc = "record"]
  <2>1. /\ cmd.pc = "commit" /\ image' = cmd.man
        /\ cmd' = c /\ UNCHANGED <<now, where, manifests, revocations, journal, away, mark>>
    BY <1>1 DEF Commit, feed
  <2>2. c \in Commands /\ c.pc = "record" /\ c.start = cmd.start /\ cmd.man \in Releases
    BY DEF Commands, Steps
  <2> HIDE DEF c
  <2>3. journal = {}
    BY <2>1 DEF Gated
  <2>4. Gated'
    BY <2>1, <2>2 DEF Gated, Steps, SelfManaged
  <2> QED
    BY <2>1, <2>2, <2>3, <2>4 DEF Journaled
<1>2. CASE Interrupted
  <2>1. /\ cmd.pc = "commit" /\ journal' = {Acceptance} /\ away' \in BOOLEAN /\ cmd' = Idle
        /\ UNCHANGED <<now, where, manifests, revocations, image, mark>>
    BY <1>2 DEF Interrupted, feed
  <2>2. Acceptance \in Acceptances /\ Sound(Acceptance)
    BY <2>1, AcceptanceSound
  <2> DEFINE a == Acceptance
  <2> HIDE DEF a
  <2>3. journal' = {a} /\ a \in Acceptances /\ Sound(a)
    BY <2>1, <2>2 DEF a
  <2>4. Journaled'
    <3>1. SelfManaged /\ Readable(image)
      BY <2>1 DEF Gated, Steps
    <3>2. \A b \in journal' : b = a
      BY <2>3
    <3>3. \A b \in journal' : Sound(b)'
      BY <2>1, <2>3, <3>2 DEF Sound, Spared, Forward, Readable
    <3> QED
      BY <2>1, <3>1, <3>2, <3>3 DEF Journaled, Readable, SelfManaged
  <2> QED
    BY <2>1, <2>3, <2>4, IdleTyped DEF Gated, Steps
<1>3. CASE Record
  <2>1. /\ mark' = cmd.man.serial /\ cmd' = Idle
        /\ UNCHANGED <<now, where, manifests, revocations, image, journal, away>>
    BY <1>3 DEF Record, feed, install
  <2>2. cmd.man.serial \in Nat
    BY GatesOK DEF Commands
  <2>3. Journaled'
    BY <2>1, JournalStays
  <2> QED
    BY <2>1, <2>2, <2>3, IdleTyped DEF Gated, Steps
<1> QED
  BY <1>1, <1>2, <1>3

\* Every step keeps the invariant.
LEMMA GatesNext == GatesInv /\ [Next]_vars => GatesInv'
<1>1. ASSUME GatesInv, UNCHANGED vars PROVE GatesInv'
  <2>1. UNCHANGED <<now, where, manifests, revocations, image, journal, away, mark, cmd>>
    BY <1>1 DEF vars, feed, install
  <2>2. Gated'
    BY <1>1, <2>1 DEF GatesInv, Gated, Refused, Compares, Readable, SelfManaged
  <2> QED
    BY <1>1, <2>1, <2>2, JournalStays DEF GatesInv, TypeOK
<1> QED
  BY <1>1, GatesWorld, GatesLaunch, GatesRepair, GatesRun, GatesFetch, GatesCommit, GatesEnd
  DEF Next, Fails

\* A build is replaced by nothing but a commit or the recovery of one, and what
\* comes in is what the gates have let through.
LEMMA OnlyAcceptedReplaces ==
  ASSUME GatesInv, Next, Replaces
  PROVE  \E a \in Accepted : a.release = image' /\ Sound(a) /\ SelfManaged
<1>1. Commit \/ Repair \/ Run
  BY DEF Next, Replaces, Tick, PublishManifest, PublishRevocations, Launch, FetchRevocations,
         FetchManifest, Download, Interrupted, Record, Fails, Ends, Goes, install
<1>2. CASE Commit
  <2>1. cmd.pc = "commit" /\ image' = cmd.man /\ SelfManaged
    BY <1>2 DEF Commit, GatesInv, Gated, Steps
  <2> QED
    BY <2>1, AcceptanceSound DEF Accepted
<1>3. CASE Repair \/ Run
  <2>1. Recover /\ cmd.pc # "commit"
    BY <1>3, IdleTyped DEF Repair, Run, RecoverFails, Replaces, Steps
  <2>2. PICK a \in journal : image' = a.release
    BY <2>1, RecoverIs DEF Replaces
  <2>3. a \in Accepted
    BY <2>1, <2>2 DEF Accepted
  <2>4. Sound(a) /\ SelfManaged
    BY <2>2 DEF GatesInv, Journaled
  <2> QED
    BY <2>2, <2>3, <2>4
<1> QED
  BY <1>1, <1>2, <1>3

-----------------------------------------------------------------------------

\* The install, its documents and its commands stay well typed.
THEOREM GatesTypeCorrect == Spec => []TypeOK
<1>1. GatesInv => TypeOK
  BY DEF GatesInv
<1> QED
  BY <1>1, GatesInit, GatesNext, PTL DEF Spec

\* Whatever the mirror replays, a release that some document revokes comes in
\* only if the command that accepted it was started while a document that spares it
\* was still valid (FetchRevocations and FetchManifest check the windows, Refused
\* the document that was fetched), also when a recovery finishes its commit.
THEOREM RevokedAlwaysStaysOut == Spec => RevokedStaysOut
<1> DEFINE Out ==
      Replaces => \E a \in Accepted :
        /\ a.release = image'
        /\ (\E i \in DOMAIN revocations : Revoked(a.release, revocations[i])) =>
             \E i \in DOMAIN revocations : /\ ~ Revoked(a.release, revocations[i])
                                           /\ a.start <= revocations[i].from + Life
<1>1. GatesInv /\ [Next]_vars => [Out]_vars
  <2> SUFFICES ASSUME GatesInv, Next, Replaces PROVE Out
    OBVIOUS
  <2>1. PICK a \in Accepted : a.release = image' /\ Sound(a)
    BY OnlyAcceptedReplaces
  <2> QED
    BY <2>1 DEF Sound, Spared
<1> QED
  BY <1>1, GatesInit, GatesNext, PTL DEF Spec, RevokedStaysOut

\* A build gives way to one of a lower version only with both opt-ins, or because
\* the command that accepted it had found and finished the commit of another
\* (checkUpdateVersion compares with the version NewUpdater loaded), and then not to
\* one below what it had found; and one that a package manager owns never does
\* (route).
THEOREM NeverGoesBackwards == Spec => NeverBackwards
<1> DEFINE Ahead ==
      Replaces =>
        /\ \E a \in Accepted :
             /\ a.release = image'
             /\ Below(image', image) => a.opted \/ (a.old # image /\ ~ Below(image', a.old))
        /\ ~ \E owned \in {"brewDir", "brewRoot", "scoopDir", "scoopRoot"} : where[owned]
<1>1. GatesInv /\ [Next]_vars => [Ahead]_vars
  <2> SUFFICES ASSUME GatesInv, Next, Replaces PROVE Ahead
    OBVIOUS
  <2>1. PICK a \in Accepted : a.release = image' /\ Sound(a) /\ SelfManaged
    BY OnlyAcceptedReplaces
  <2>2. Below(image', image) => a.opted \/ (a.old # image /\ ~ Below(image', a.old))
    BY <2>1 DEF Sound, Forward
  <2>3. ~(where.brewDir \/ where.brewRoot \/ where.scoopDir \/ where.scoopRoot)
    BY <2>1 DEF SelfManaged, DetectSource
  <2> QED
    BY <2>1, <2>2, <2>3
<1> QED
  BY <1>1, GatesInit, GatesNext, PTL DEF Spec, NeverBackwards
=============================================================================
