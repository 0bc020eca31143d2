----------------------------- MODULE RulesSync -----------------------------
(***************************************************************************)
(* The signed rule packs of one data directory (pkg/supply/rules.go,       *)
(* rules_activate.go, rules_cache.go, highwater.go and the CLI's rules.go, *)
(* rules_rollback.go, cli.go).                                             *)
(*                                                                         *)
(* Commands share rules/<serial>/{manifest,bundle}.json, the active        *)
(* pointer and the anti-rollback mark, without a lock: "rules sync"        *)
(* fetches a pack and activates it, "rules rollback" points back at an     *)
(* older cached pack, and a starting gateway loads what the pointer names. *)
(* Every action is one read, one atomic file replacement, or one fetch, so *)
(* a crash, a failing call or another command can come between any two.    *)
(*                                                                         *)
(* A serial stands for the one manifest and the one bundle signed under    *)
(* it, which agree on the serial and the digest.                           *)
(***************************************************************************)
EXTENDS Integers

CONSTANTS
  Writers,      \* command slots for "rules sync" and "rules rollback"
  Gateways,     \* command slots for a gateway
  MaxSerial,    \* bound on the serials ever published
  MaxFaults,    \* bound on failing calls and damaged documents
  StaleFeed     \* TRUE: the server may serve any document it ever published

Serials == 1 .. MaxSerial
Procs   == Writers \cup Gateways

ASSUME ConstantsOK ==
  /\ MaxSerial \in Nat
  /\ MaxFaults \in Nat
  /\ StaleFeed \in BOOLEAN
  /\ Writers \cap Gateways = {}

VARIABLES
  dirs,       \* the serials with a directory under rules/
  manifest,   \* manifest[s] is the state of rules/<s>/manifest.json
  bundle,     \* bundle[s] is the state of rules/<s>/bundle.json
  pointer,    \* the serial rules/active names; 0: there is none
  mark,       \* the serial in rules/highwater.json
  published,  \* the newest serial on the server
  faults,     \* calls that failed and documents damaged so far
  pc,         \* pc[p] is the next step of command p
  cmd,        \* "sync", "rollback" or "gateway"
  loaded,     \* the mark as p read it when it started
  seen,       \* the pointer as p last read it
  picked,     \* the serial p is activating or restoring; 0: none
  todo,       \* rollback: the cached serials p has yet to try
  active,     \* the pack p evaluates with: RulesState.Serial, 0 the built-ins
  inForce     \* history: every serial the pointer ever named

disk   == <<dirs, manifest, bundle, pointer, inForce>>
local  == <<cmd, loaded, seen, picked, todo, active>>
vars   == <<disk, mark, published, faults, pc, local>>

Doc == {"none", "whole", "damaged"}

Labels ==
  {"idle", "done", "failed", "serving"}
  \cup {"fetch", "replay", "bundle", "advance"}
  \cup {"l_pointer", "l_manifest", "l_bundle"}
  \cup {"r_pointer", "r_list", "r_manifest", "r_bundle", "r_damaged", "r_verify"}
  \cup {"w_dir", "w_manifest", "w_bundle", "w_pointer"}

At(p, l)    == pc[p] = l
Go(p, l)    == pc' = [pc EXCEPT ![p] = l]
Fault       == faults < MaxFaults /\ faults' = faults + 1
NoFault     == faults' = faults
Complete(s) == manifest[s] = "whole" /\ bundle[s] = "whole"

Reset(p) ==
  /\ Go(p, "idle")
  /\ cmd'    = [cmd EXCEPT ![p] = IF p \in Gateways THEN "gateway" ELSE "sync"]
  /\ loaded' = [loaded EXCEPT ![p] = 0]
  /\ seen'   = [seen EXCEPT ![p] = 0]
  /\ picked' = [picked EXCEPT ![p] = 0]
  /\ todo'   = [todo EXCEPT ![p] = {}]
  /\ active' = [active EXCEPT ![p] = 0]

Init ==
  /\ dirs      = {}
  /\ manifest  = [s \in Serials |-> "none"]
  /\ bundle    = [s \in Serials |-> "none"]
  /\ pointer   = 0
  /\ mark      = 0
  /\ published = 0
  /\ faults    = 0
  /\ pc        = [p \in Procs |-> "idle"]
  /\ cmd       = [p \in Procs |-> IF p \in Gateways THEN "gateway" ELSE "sync"]
  /\ loaded    = [p \in Procs |-> 0]
  /\ seen      = [p \in Procs |-> 0]
  /\ picked    = [p \in Procs |-> 0]
  /\ todo      = [p \in Procs |-> {}]
  /\ active    = [p \in Procs |-> 0]
  /\ inForce   = {}

-----------------------------------------------------------------------------
(* The life of a command, and the world around it. *)

Commands(p) == IF p \in Gateways THEN {"gateway"} ELSE {"sync", "rollback"}

First == [sync |-> "fetch", rollback |-> "r_pointer", gateway |-> "l_pointer"]

\* Mutant of Launch: the persisted mark is not read.
Launch_NoMark(p, c) ==
  /\ At(p, "idle")
  /\ c \in Commands(p)
  /\ cmd' = [cmd EXCEPT ![p] = c]
  /\ Go(p, First[c])
  /\ UNCHANGED <<disk, mark, published, faults, loaded, seen, picked, todo, active>>

\* NewRulesSync reads the persisted mark; a rollback opens the cache alone.
Launch(p, c) ==
  /\ At(p, "idle")
  /\ c \in Commands(p)
  /\ cmd'    = [cmd EXCEPT ![p] = c]
  /\ loaded' = [loaded EXCEPT ![p] = IF c = "rollback" THEN 0 ELSE mark]
  /\ Go(p, First[c])
  /\ UNCHANGED <<disk, mark, published, faults, seen, picked, todo, active>>

\* The command returns, or the gateway is stopped.
Exit(p) ==
  /\ pc[p] \in {"done", "failed", "serving"}
  /\ Reset(p)
  /\ UNCHANGED <<disk, mark, published, faults>>

Crash(p) ==
  /\ pc[p] \notin {"idle", "done", "failed", "serving"}
  /\ Reset(p)
  /\ UNCHANGED <<disk, mark, published, faults>>

Publish ==
  /\ published < MaxSerial
  /\ published' = published + 1
  /\ UNCHANGED <<disk, mark, faults, pc, local>>

\* External: a cached document is damaged on disk.
Damage(s) ==
  /\ Fault
  /\ \/ /\ manifest[s] = "whole"
        /\ manifest' = [manifest EXCEPT ![s] = "damaged"]
        /\ UNCHANGED bundle
     \/ /\ bundle[s] = "whole"
        /\ bundle' = [bundle EXCEPT ![s] = "damaged"]
        /\ UNCHANGED manifest
  /\ UNCHANGED <<dirs, pointer, inForce, mark, published, pc, local>>

Served == IF StaleFeed THEN 1 .. published ELSE {published} \ {0}

-----------------------------------------------------------------------------
(* Sync. *)

\* A transport failure of either fetch.  The process has just started, so its
\* active pack is the built-ins and fallback loads the cache.
fallback(p) ==
  /\ pc[p] \in {"fetch", "bundle"}
  /\ active[p] = 0
  /\ picked' = [picked EXCEPT ![p] = 0]
  /\ Go(p, "l_pointer")
  /\ UNCHANGED <<disk, mark, published, faults, cmd, loaded, seen, todo, active>>

\* A manifest or a bundle that fails a check of its own: signature, freshness,
\* channel, minimum version, revoked serial, floor, compilation, command gate.
Reject(p) ==
  /\ pc[p] \in {"fetch", "bundle"}
  /\ Go(p, "failed")
  /\ UNCHANGED <<disk, mark, published, faults, local>>

\* Mutant of Gate: a serial below the mark is not refused.
Gate_NoReplayCheck(p) ==
  /\ At(p, "fetch")
  /\ \E s \in Served :
       /\ picked' = [picked EXCEPT ![p] = s]
       /\ Go(p, IF s = loaded[p] THEN "replay" ELSE "bundle")
  /\ UNCHANGED <<disk, mark, published, faults, cmd, loaded, seen, todo, active>>

\* The manifest's serial against the mark.
Gate(p) ==
  /\ At(p, "fetch")
  /\ \E s \in Served :
       /\ picked' = [picked EXCEPT ![p] = s]
       /\ Go(p, CASE s < loaded[p] -> "failed"
                  [] s = loaded[p] -> "replay"
                  [] s > loaded[p] -> "bundle")
  /\ UNCHANGED <<disk, mark, published, faults, cmd, loaded, seen, todo, active>>

\* The bundle is fetched later than the manifest, so it may belong to another
\* serial: then the serial and the digest disagree.
accept(p) ==
  /\ At(p, "bundle")
  /\ \E s \in Served : Go(p, IF s = picked[p] THEN "w_dir" ELSE "failed")
  /\ UNCHANGED <<disk, mark, published, faults, local>>

\* The manifest is at the mark: keep the pack, loading it only if the pointer
\* names this very serial.
replay(p) ==
  /\ At(p, "replay")
  /\ seen' = [seen EXCEPT ![p] = pointer]
  /\ Go(p, IF active[p] = picked[p] \/ pointer # picked[p] THEN "done" ELSE "l_pointer")
  /\ UNCHANGED <<disk, mark, published, faults, cmd, loaded, picked, todo, active>>

\* FileHighWater.Advance compares with the mark it loaded, not with the file.
Advance(p) ==
  /\ At(p, "advance")
  /\ \/ picked[p] >= loaded[p] /\ mark' = picked[p] /\ NoFault /\ Go(p, "done")
     \/ UNCHANGED mark /\ Fault /\ Go(p, "failed")
  /\ UNCHANGED <<disk, published, local>>

-----------------------------------------------------------------------------
(* loadCache: read the pointer, then the two documents it names. *)

\* Startup reports a load error and serves with the built-ins; replay returns
\* it; fallback returns the transport error whether or not the load succeeded.
AfterLoad(p, ok) ==
  IF cmd[p] = "gateway" THEN "serving"
  ELSE IF ok /\ picked[p] # 0 THEN "done" ELSE "failed"

\* Mutant of loadPointer: the newest cached directory is loaded, whatever the
\* pointer names.
loadPointer_Newest(p) ==
  /\ At(p, "l_pointer")
  /\ \/ dirs = {} /\ Go(p, AfterLoad(p, TRUE)) /\ UNCHANGED seen
     \/ \E s \in dirs :
          /\ \A t \in dirs : t <= s
          /\ seen' = [seen EXCEPT ![p] = s]
          /\ Go(p, "l_manifest")
  /\ UNCHANGED <<disk, mark, published, faults, cmd, loaded, picked, todo, active>>

\* Mutant of loadPointer: a pointer that is not at the mark is not trusted.
loadPointer_AtMark(p) ==
  /\ At(p, "l_pointer")
  /\ seen' = [seen EXCEPT ![p] = pointer]
  /\ Go(p, IF pointer = 0 \/ pointer # loaded[p] THEN AfterLoad(p, TRUE) ELSE "l_manifest")
  /\ UNCHANGED <<disk, mark, published, faults, cmd, loaded, picked, todo, active>>

loadPointer(p) ==
  /\ At(p, "l_pointer")
  /\ seen' = [seen EXCEPT ![p] = pointer]
  /\ Go(p, IF pointer = 0 THEN AfterLoad(p, TRUE) ELSE "l_manifest")
  /\ UNCHANGED <<disk, mark, published, faults, cmd, loaded, picked, todo, active>>

loadManifest(p) ==
  /\ At(p, "l_manifest")
  /\ Go(p, IF manifest[seen[p]] = "whole" THEN "l_bundle" ELSE AfterLoad(p, FALSE))
  /\ UNCHANGED <<disk, mark, published, faults, local>>

loadBundle(p) ==
  /\ At(p, "l_bundle")
  /\ LET ok == bundle[seen[p]] = "whole"
     IN  /\ active' = IF ok THEN [active EXCEPT ![p] = seen[p]] ELSE active
         /\ Go(p, AfterLoad(p, ok))
  /\ UNCHANGED <<disk, mark, published, faults, cmd, loaded, seen, picked, todo>>

\* A read of the pointer or of a document fails.
LoadFails(p) ==
  /\ pc[p] \in {"replay", "l_pointer", "l_manifest", "l_bundle"}
  /\ Fault
  /\ Go(p, AfterLoad(p, FALSE))
  /\ UNCHANGED <<disk, mark, published, local>>

-----------------------------------------------------------------------------
(* rulesRollback and previousVerifiedPack. *)

readActive(p) ==
  /\ At(p, "r_pointer")
  /\ seen' = [seen EXCEPT ![p] = pointer]
  /\ Go(p, IF pointer = 0 THEN "failed" ELSE "r_list")
  /\ UNCHANGED <<disk, mark, published, faults, cmd, loaded, picked, todo, active>>

\* Mutant of cachedPackSerials: the sentinel serial zero is listed.
cachedPackSerials_Zero(p) ==
  /\ At(p, "r_list")
  /\ todo' = [todo EXCEPT ![p] = {s \in dirs \cup {0} : s < seen[p]}]
  /\ Go(p, "r_manifest")
  /\ UNCHANGED <<disk, mark, published, faults, cmd, loaded, seen, picked, active>>

\* The directories alone are listed: what is in them is not looked at yet.
cachedPackSerials(p) ==
  /\ At(p, "r_list")
  /\ todo' = [todo EXCEPT ![p] = {s \in dirs : s < seen[p]}]
  /\ Go(p, "r_manifest")
  /\ UNCHANGED <<disk, mark, published, faults, cmd, loaded, seen, picked, active>>

\* Mutant of readCachedManifest: the lowest serial is tried first.
readCachedManifest_Lowest(p) ==
  /\ At(p, "r_manifest")
  /\ \/ /\ todo[p] = {}
        /\ Go(p, "failed")
        /\ UNCHANGED <<picked, todo>>
     \/ \E s \in todo[p] :
          /\ \A t \in todo[p] : s <= t
          /\ picked' = [picked EXCEPT ![p] = s]
          /\ todo' = [todo EXCEPT ![p] = @ \ {s}]
          /\ Go(p, CASE manifest[s] = "none"    -> "failed"
                     [] manifest[s] = "whole"   -> "r_bundle"
                     [] manifest[s] = "damaged" -> "r_damaged")
  /\ UNCHANGED <<disk, mark, published, faults, cmd, loaded, seen, active>>

\* The next candidate is the highest serial not tried yet; a document that
\* cannot be read ends the rollback.
readCachedManifest(p) ==
  /\ At(p, "r_manifest")
  /\ \/ /\ todo[p] = {}
        /\ Go(p, "failed")
        /\ UNCHANGED <<picked, todo>>
     \/ \E s \in todo[p] :
          /\ \A t \in todo[p] : t <= s
          /\ picked' = [picked EXCEPT ![p] = s]
          /\ todo' = [todo EXCEPT ![p] = @ \ {s}]
          /\ Go(p, CASE manifest[s] = "none"    -> "failed"
                     [] manifest[s] = "whole"   -> "r_bundle"
                     [] manifest[s] = "damaged" -> "r_damaged")
  /\ UNCHANGED <<disk, mark, published, faults, cmd, loaded, seen, active>>

readCachedBundle(p) ==
  /\ pc[p] \in {"r_bundle", "r_damaged"}
  /\ Go(p, CASE bundle[picked[p]] = "none"                          -> "failed"
             [] bundle[picked[p]] = "whole" /\ At(p, "r_bundle")    -> "r_verify"
             [] OTHER                                               -> "r_manifest")
  /\ UNCHANGED <<disk, mark, published, faults, local>>

\* The sandbox of a candidate whose documents are whole: it passes unless the
\* sandbox itself cannot be set up, and then the candidate is skipped too.
verifyCachedPack(p) ==
  /\ At(p, "r_verify")
  /\ \/ NoFault /\ Go(p, "w_dir")
     \/ Fault /\ Go(p, "r_manifest")
  /\ UNCHANGED <<disk, mark, published, local>>

RollbackFails(p) ==
  /\ pc[p] \in {"r_pointer", "r_list", "r_manifest", "r_bundle", "r_damaged"}
  /\ Fault
  /\ Go(p, "failed")
  /\ UNCHANGED <<disk, mark, published, local>>

-----------------------------------------------------------------------------
(* RulesCache.Store: the directory, the two documents, then the pointer. *)

Store(p, l) ==
  /\ At(p, l)
  /\ NoFault
  /\ UNCHANGED <<mark, published, cmd, loaded, seen, picked, todo>>

storeDir(p) ==
  /\ Store(p, "w_dir")
  /\ dirs' = dirs \cup {picked[p]}
  /\ Go(p, "w_manifest")
  /\ UNCHANGED <<manifest, bundle, pointer, inForce, active>>

\* Mutant of storeManifest: the pointer flips before the bundle is written.
storeManifest_PointerNext(p) ==
  /\ Store(p, "w_manifest")
  /\ manifest' = [manifest EXCEPT ![picked[p]] = "whole"]
  /\ Go(p, "w_pointer")
  /\ UNCHANGED <<dirs, bundle, pointer, inForce, active>>

storeManifest(p) ==
  /\ Store(p, "w_manifest")
  /\ manifest' = [manifest EXCEPT ![picked[p]] = "whole"]
  /\ Go(p, "w_bundle")
  /\ UNCHANGED <<dirs, bundle, pointer, inForce, active>>

storeBundle(p) ==
  /\ Store(p, "w_bundle")
  /\ bundle' = [bundle EXCEPT ![picked[p]] = "whole"]
  /\ Go(p, "w_pointer")
  /\ UNCHANGED <<dirs, manifest, pointer, inForce, active>>

\* The pointer flips; a sync then publishes the pack in memory (setActive).
storePointer(p) ==
  /\ Store(p, "w_pointer")
  /\ pointer' = picked[p]
  /\ inForce' = inForce \cup {picked[p]}
  /\ IF cmd[p] = "sync"
       THEN active' = [active EXCEPT ![p] = picked[p]] /\ Go(p, "advance")
       ELSE UNCHANGED active /\ Go(p, "done")
  /\ UNCHANGED <<dirs, manifest, bundle>>

\* Mutant of StoreFails: the mark advances although the store failed.
StoreFails_Ignored(p) ==
  /\ pc[p] \in {"w_dir", "w_manifest", "w_bundle", "w_pointer"}
  /\ Fault
  /\ Go(p, IF cmd[p] = "sync" THEN "advance" ELSE "failed")
  /\ UNCHANGED <<disk, mark, published, local>>

StoreFails(p) ==
  /\ pc[p] \in {"w_dir", "w_manifest", "w_bundle", "w_pointer"}
  /\ Fault
  /\ Go(p, "failed")
  /\ UNCHANGED <<disk, mark, published, local>>

-----------------------------------------------------------------------------

Sync(p) == fallback(p) \/ Reject(p) \/ Gate(p) \/ accept(p) \/ replay(p) \/ Advance(p)

loadCache(p) == loadPointer(p) \/ loadManifest(p) \/ loadBundle(p) \/ LoadFails(p)

Rollback(p) ==
  \/ readActive(p) \/ cachedPackSerials(p) \/ readCachedManifest(p)
  \/ readCachedBundle(p) \/ verifyCachedPack(p) \/ RollbackFails(p)

Storing(p) ==
  storeDir(p) \/ storeManifest(p) \/ storeBundle(p) \/ storePointer(p) \/ StoreFails(p)

Next ==
  \/ Publish
  \/ \E s \in Serials : Damage(s)
  \/ \E p \in Procs :
       \/ \E c \in {"sync", "rollback", "gateway"} : Launch(p, c)
       \/ Exit(p) \/ Crash(p)
       \/ Sync(p) \/ loadCache(p) \/ Rollback(p) \/ Storing(p)

Spec == Init /\ [][Next]_vars

-----------------------------------------------------------------------------
(* Properties. *)

\* Every document is missing, whole or damaged, and every command is at one of
\* its steps.
TypeOK ==
  /\ dirs \subseteq Serials
  /\ manifest \in [Serials -> Doc]
  /\ bundle \in [Serials -> Doc]
  /\ pointer \in Serials \cup {0}
  /\ mark \in Serials \cup {0}
  /\ published \in Serials \cup {0}
  /\ faults \in 0 .. MaxFaults
  /\ pc \in [Procs -> Labels]
  /\ cmd \in [Procs -> {"sync", "rollback", "gateway"}]
  /\ loaded \in [Procs -> Serials \cup {0}]
  /\ seen \in [Procs -> Serials \cup {0}]
  /\ picked \in [Procs -> Serials \cup {0}]
  /\ todo \in [Procs -> SUBSET Serials]
  /\ active \in [Procs -> Serials \cup {0}]
  /\ inForce \subseteq Serials

\* The pointer never names a serial one of whose documents was not written:
\* whatever step of Store a command died before, the pack in force is complete
\* (rules_cache.go 119-121: the pointer is written last).
PointerComplete ==
  pointer # 0 => manifest[pointer] # "none" /\ bundle[pointer] # "none"

\* The mark only names a serial whose pack was put in force, so no crash and
\* no failing step leaves a serial that a retry would refuse as a replay
\* (rules.go 8-12).
MarkWasInForce == mark # 0 => mark \in inForce

\* A gateway serves the pack of a serial that was in force when it started,
\* never one that was cached but not activated (rules.go 196-200).
ServesActivated ==
  \A g \in Gateways : At(g, "serving") => active[g] \in inForce \cup {0}

\* A gateway that found a pointer serves its pack: with no failing read and no
\* damaged document, it never falls back to the built-ins because a writer was
\* interrupted (rules_activate.go 35-40).
KeepsProtection ==
  \A g \in Gateways :
    At(g, "serving") /\ active[g] = 0 /\ faults = 0 => seen[g] = 0

\* A rollback restores the highest older pack that is complete: no cached pack
\* between the restored one and the one it left was skipped without a reason
\* (rules_rollback.go 69-72).
RestoresPrevious ==
  \A p \in Writers :
    cmd[p] = "rollback" /\ pc[p] \in {"w_dir", "w_manifest", "w_bundle", "w_pointer"} =>
      /\ picked[p] < seen[p]
      /\ faults = 0 =>
           \A s \in Serials : picked[p] < s /\ s < seen[p] => ~Complete(s)

\* Once the mark covers the pack in force, only a rollback points back at an
\* older one, whatever the server serves (rules.go 8-12: a rejected pack never
\* displaces the pack in force).
SyncNeverPointsBack ==
  [][pointer' < pointer /\ pointer <= mark =>
       \E p \in Writers : At(p, "w_pointer") /\ cmd[p] = "rollback"]_vars

\* The mark never decreases (highwater.go 35-42: HighWater tracks the highest
\* serial applied; a lower serial fails).
MarkMonotone == [][mark' >= mark]_vars

\* A rollback that failed, although no call failed and no document is damaged,
\* had no complete older pack to restore (rules_rollback.go 69-72: a candidate
\* that fails the sandbox is skipped in favour of an older one).
RollbackFindsATarget ==
  \A p \in Writers :
    At(p, "failed") /\ cmd[p] = "rollback" /\ faults = 0 =>
      \A s \in Serials : s < seen[p] => ~Complete(s)

=============================================================================
