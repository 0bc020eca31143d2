--------------------------- MODULE RulesSyncProofs --------------------------
(***************************************************************************)
(* What the rule cache guarantees however many syncs, rollbacks and        *)
(* gateways overlap, for every number of serials, every number of failing  *)
(* calls and damaged documents, crashes anywhere and any server; and what  *)
(* it guarantees besides when one writer runs at a time.                   *)
(***************************************************************************)
EXTENDS RulesSync, TLAPS

\* Labels at which a command holds a serial to activate or to restore, and
\* labels at which it holds a pointer it read.
Picking == {"replay", "bundle", "advance", "r_bundle", "r_damaged", "r_verify",
            "w_dir", "w_manifest", "w_bundle", "w_pointer"}
Reading == {"l_manifest", "l_bundle"}

\* What command p has established before its next step.
Ready(p) ==
  /\ pc[p] \in Picking => picked[p] \in Serials
  /\ pc[p] \in Reading => seen[p] \in inForce
  /\ pc[p] \in {"w_bundle", "w_pointer"} => manifest[picked[p]] # "none"
  /\ pc[p] = "w_pointer" => bundle[picked[p]] # "none"
  /\ pc[p] = "advance" => picked[p] \in inForce
  /\ active[p] \in inForce \cup {0}

PointerWasInForce == pointer # 0 => pointer \in inForce

CacheInv ==
  /\ TypeOK
  /\ PointerComplete
  /\ PointerWasInForce
  /\ MarkWasInForce
  /\ \A p \in Procs : Ready(p)

-----------------------------------------------------------------------------

\* The server serves only serials it published.
LEMMA ServedSerials ==
  ASSUME published \in Serials \cup {0} PROVE Served \subseteq Serials
BY ConstantsOK DEF Served, Serials

\* The invariant holds initially.
LEMMA CacheInit == Init => CacheInv
<1> SUFFICES ASSUME Init PROVE CacheInv
  OBVIOUS
<1>1. 0 \in 0 .. MaxFaults /\ 0 \notin Serials
  BY ConstantsOK DEF Serials
<1> QED
  BY <1>1 DEF Init, CacheInv, TypeOK, Labels, Doc, PointerComplete, PointerWasInForce,
              MarkWasInForce, Ready, Picking, Reading

\* A step that leaves the files and the mark alone keeps the invariant if the
\* command that takes it is well typed and ready after it.
LEMMA CacheLocal ==
  ASSUME CacheInv, NEW p \in Procs, UNCHANGED <<disk, mark>>,
         TypeOK', Ready(p)',
         \A q \in Procs : q # p =>
           /\ pc'[q] = pc[q] /\ picked'[q] = picked[q]
           /\ seen'[q] = seen[q] /\ active'[q] = active[q]
  PROVE  CacheInv'
<1>1. ASSUME NEW q \in Procs PROVE Ready(q)'
  BY <1>1 DEF CacheInv, Ready, disk
<1> QED
  BY <1>1 DEF CacheInv, PointerComplete, PointerWasInForce, MarkWasInForce, disk

\* The server and the disk: documents only ever go from whole to damaged.
LEMMA CacheWorld ==
  ASSUME CacheInv, Publish \/ \E s \in Serials : Damage(s)
  PROVE  CacheInv'
<1> USE DEF CacheInv, TypeOK
<1>1. CASE Publish
  <2>1. TypeOK'
    BY <1>1, ConstantsOK DEF Publish, disk, local, Serials
  <2> QED
    BY <1>1, <2>1 DEF Publish, disk, local, PointerComplete, PointerWasInForce, MarkWasInForce, Ready
<1>2. ASSUME NEW s \in Serials, Damage(s) PROVE CacheInv'
  <2>1. UNCHANGED <<dirs, pointer, inForce, mark, published, pc, local>>
    BY <1>2 DEF Damage
  <2>2. /\ manifest' \in [Serials -> Doc] /\ bundle' \in [Serials -> Doc]
        /\ faults' \in 0 .. MaxFaults
    BY <1>2, ConstantsOK DEF Damage, Fault, Doc
  <2>3. \A t \in Serials : /\ manifest[t] # "none" => manifest'[t] # "none"
                           /\ bundle[t] # "none" => bundle'[t] # "none"
    BY <1>2 DEF Damage
  <2>4. TypeOK'
    BY <2>1, <2>2 DEF local
  <2>5. PointerComplete' /\ PointerWasInForce' /\ MarkWasInForce'
    BY <2>1, <2>3 DEF PointerComplete, PointerWasInForce, MarkWasInForce
  <2>6. ASSUME NEW q \in Procs PROVE Ready(q)'
    BY <2>1, <2>3 DEF Ready, local, Picking
  <2> QED
    BY <2>4, <2>5, <2>6
<1> QED
  BY <1>1, <1>2

\* A command starts, returns or dies.
LEMMA CacheLife ==
  ASSUME CacheInv, NEW p \in Procs,
         Exit(p) \/ Crash(p) \/ \E c \in {"sync", "rollback", "gateway"} : Launch(p, c)
  PROVE  CacheInv'
<1> USE ConstantsOK DEF CacheInv, TypeOK
<1>0. 0 \notin Serials
  BY DEF Serials
<1>1. CASE Exit(p) \/ Crash(p)
  <2>1. Reset(p) /\ UNCHANGED <<disk, mark, published, faults>>
    BY <1>1 DEF Exit, Crash
  <2>2. TypeOK'
    BY <2>1 DEF Reset, Go, Labels, disk
  <2>3. Ready(p)'
    BY <2>1 DEF Reset, Go, Ready, Picking, Reading
  <2> QED
    BY <2>1, <2>2, <2>3, CacheLocal DEF Reset, Go, disk
<1>2. ASSUME NEW c \in {"sync", "rollback", "gateway"}, Launch(p, c) PROVE CacheInv'
  <2>1. First[c] \in {"fetch", "r_pointer", "l_pointer"}
    BY DEF First
  <2>2. TypeOK'
    BY <1>2, <2>1 DEF Launch, Go, Labels, disk
  <2>3. Ready(p)'
    BY <1>2, <2>1 DEF Launch, Go, Ready, Picking, Reading, disk
  <2> QED
    BY <1>2, <2>2, <2>3, CacheLocal DEF Launch, Go, disk
<1> QED
  BY <1>1, <1>2

\* Where the manifest's serial sends a sync.
LEMMA GateSteps ==
  ASSUME CacheInv, NEW p \in Procs, Gate(p)
  PROVE  \E s \in Served, l \in {"failed", "replay", "bundle"} :
           /\ picked' = [picked EXCEPT ![p] = s]
           /\ Go(p, l)
           /\ l = "bundle" => s > loaded[p]
<1>1. PICK s \in Served :
        /\ picked' = [picked EXCEPT ![p] = s]
        /\ Go(p, CASE s < loaded[p] -> "failed"
                   [] s = loaded[p] -> "replay"
                   [] s > loaded[p] -> "bundle")
  BY DEF Gate
<1>2. s \in Int /\ loaded[p] \in Int
  BY <1>1, ServedSerials, ConstantsOK DEF Serials, CacheInv, TypeOK
<1>3. CASE s < loaded[p]
  BY <1>1, <1>2, <1>3
<1>4. CASE s = loaded[p]
  BY <1>1, <1>2, <1>4
<1>5. CASE s > loaded[p]
  BY <1>1, <1>2, <1>5
<1> QED
  BY <1>2, <1>3, <1>4, <1>5

\* Every step of a sync before it stores keeps the invariant.
LEMMA CacheSync ==
  ASSUME CacheInv, NEW p \in Procs, Sync(p)
  PROVE  CacheInv'
<1> USE ConstantsOK DEF CacheInv, TypeOK
<1>0. 0 \notin Serials /\ Served \subseteq Serials
  BY ServedSerials DEF Serials
<1>1. CASE fallback(p) \/ Reject(p)
  <2>1. TypeOK'
    BY <1>1 DEF fallback, Reject, Go, Labels, disk, local
  <2>2. Ready(p)'
    BY <1>1 DEF fallback, Reject, Go, Ready, Picking, Reading, disk, local
  <2> QED
    BY <1>1, <2>1, <2>2, CacheLocal DEF fallback, Reject, Go, disk, local
<1>2. CASE Gate(p)
  <2>1. PICK s \in Served : /\ picked' = [picked EXCEPT ![p] = s]
                            /\ Go(p, "failed") \/ Go(p, "replay") \/ Go(p, "bundle")
    BY <1>2, GateSteps
  <2>4. /\ UNCHANGED <<disk, mark, published, faults, cmd, loaded, seen, todo, active>>
        /\ picked' = [picked EXCEPT ![p] = s] /\ s \in Serials
    BY <1>0, <1>2, <2>1 DEF Gate
  <2>5. /\ pc' \in [Procs -> Labels]
        /\ pc'[p] \in {"failed", "replay", "bundle"}
        /\ \A q \in Procs : q # p => pc'[q] = pc[q]
    BY <2>1 DEF Go, Labels
  <2>6. TypeOK'
    BY <2>4, <2>5 DEF disk
  <2>7. Ready(p)'
    BY <2>4, <2>5 DEF Ready, Picking, Reading, disk
  <2> QED
    BY <2>4, <2>5, <2>6, <2>7, CacheLocal DEF disk
<1>3. CASE accept(p) \/ replay(p)
  <2>1. TypeOK'
    BY <1>3 DEF accept, replay, Go, Labels, disk, local
  <2>2. Ready(p)'
    BY <1>3 DEF accept, replay, At, Go, Ready, Picking, Reading, disk, local
  <2> QED
    BY <1>3, <2>1, <2>2, CacheLocal DEF accept, replay, Go, disk, local
<1>4. CASE Advance(p)
  <2>1. picked[p] \in Serials /\ picked[p] \in inForce
    BY <1>4 DEF Advance, At, Ready, Picking
  <2>2. UNCHANGED <<disk, published, local>>
    BY <1>4 DEF Advance
  <2>3. mark' \in {mark, picked[p]} /\ faults' \in 0 .. MaxFaults
    BY <1>4 DEF Advance, Fault, NoFault
  <2>4. Go(p, "done") \/ Go(p, "failed")
    BY <1>4 DEF Advance
  <2>5. TypeOK'
    BY <2>1, <2>2, <2>3, <2>4 DEF Go, Labels, disk, local
  <2>6. PointerComplete' /\ PointerWasInForce' /\ MarkWasInForce'
    BY <2>1, <2>2, <2>3 DEF PointerComplete, PointerWasInForce, MarkWasInForce, disk
  <2>7. ASSUME NEW q \in Procs PROVE Ready(q)'
    BY <2>2, <2>4 DEF Go, Ready, Picking, Reading, disk, local
  <2> QED
    BY <2>5, <2>6, <2>7
<1> QED
  BY <1>1, <1>2, <1>3, <1>4 DEF Sync

\* Loading the cache: the pointer read was in force, and the pack served is
\* the one it named.
LEMMA CacheLoad ==
  ASSUME CacheInv, NEW p \in Procs, loadCache(p)
  PROVE  CacheInv'
<1> USE ConstantsOK DEF CacheInv, TypeOK
<1>0. \A ok \in BOOLEAN : AfterLoad(p, ok) \in {"serving", "done", "failed"}
  BY DEF AfterLoad
<1>1. CASE loadPointer(p)
  <2>1. TypeOK'
    BY <1>0, <1>1 DEF loadPointer, Go, Labels, disk
  <2>2. Ready(p)'
    BY <1>0, <1>1 DEF loadPointer, Go, Ready, Picking, Reading, PointerWasInForce, disk
  <2> QED
    BY <1>1, <2>1, <2>2, CacheLocal DEF loadPointer, Go, disk
<1>2. CASE loadManifest(p)
  <2>1. TypeOK'
    BY <1>0, <1>2 DEF loadManifest, Go, Labels, disk, local
  <2>2. Ready(p)'
    BY <1>0, <1>2 DEF loadManifest, At, Go, Ready, Picking, Reading, disk, local
  <2> QED
    BY <1>2, <2>1, <2>2, CacheLocal DEF loadManifest, Go, disk, local
<1>3. CASE loadBundle(p)
  <2>1. seen[p] \in inForce
    BY <1>3 DEF loadBundle, At, Ready, Reading
  <2>2. /\ active' \in {active, [active EXCEPT ![p] = seen[p]]}
        /\ \E ok \in BOOLEAN : Go(p, AfterLoad(p, ok))
        /\ UNCHANGED <<disk, mark, published, faults, cmd, loaded, seen, picked, todo>>
    BY <1>3 DEF loadBundle
  <2>3. Go(p, "serving") \/ Go(p, "done") \/ Go(p, "failed")
    BY <1>0, <2>2
  <2>4. TypeOK'
    BY <2>1, <2>2, <2>3 DEF Go, Labels, disk
  <2>5. Ready(p)'
    BY <2>1, <2>2, <2>3 DEF Go, Ready, Picking, Reading, disk
  <2> QED
    BY <2>2, <2>3, <2>4, <2>5, CacheLocal DEF Go, disk
<1>4. CASE LoadFails(p)
  <2>1. Go(p, AfterLoad(p, FALSE))
    BY <1>4 DEF LoadFails
  <2>2. AfterLoad(p, FALSE) \in {"serving", "done", "failed"}
    BY <1>0
  <2>3. UNCHANGED <<disk, mark, published, local>> /\ faults' \in 0 .. MaxFaults
    <3>1. faults < MaxFaults /\ faults' = faults + 1
      BY <1>4 DEF LoadFails, Fault
    <3>2. faults \in 0 .. MaxFaults
      OBVIOUS
    <3>3. faults' \in 0 .. MaxFaults
      BY <3>1, <3>2
    <3> QED
      BY <1>4, <3>3 DEF LoadFails
  <2>4. /\ UNCHANGED <<disk, mark, published, local>>
        /\ faults' \in 0 .. MaxFaults
        /\ Go(p, "serving") \/ Go(p, "done") \/ Go(p, "failed")
    BY <2>1, <2>2, <2>3
  <2>5. TypeOK'
    BY <2>4 DEF Go, Labels, disk, local
  <2>6. Ready(p)'
    BY <2>4 DEF Go, Ready, Picking, Reading, disk, local
  <2> QED
    BY <2>4, <2>5, <2>6, CacheLocal DEF Go, disk, local
<1> QED
  BY <1>1, <1>2, <1>3, <1>4 DEF loadCache

\* Every step of a rollback before it stores keeps the invariant.
LEMMA CacheRollback ==
  ASSUME CacheInv, NEW p \in Procs, Rollback(p)
  PROVE  CacheInv'
<1> USE ConstantsOK DEF CacheInv, TypeOK
<1>1. CASE readActive(p) \/ cachedPackSerials(p)
  <2>1. TypeOK'
    BY <1>1 DEF readActive, cachedPackSerials, Go, Labels, disk
  <2>2. Ready(p)'
    BY <1>1 DEF readActive, cachedPackSerials, Go, Ready, Picking, Reading, disk
  <2> QED
    BY <1>1, <2>1, <2>2, CacheLocal DEF readActive, cachedPackSerials, Go, disk
<1>2. CASE readCachedManifest(p)
  <2>1. CASE UNCHANGED <<picked, todo>> /\ Go(p, "failed")
    <3>1. TypeOK'
      BY <1>2, <2>1 DEF readCachedManifest, Go, Labels, disk
    <3>2. Ready(p)'
      BY <1>2, <2>1 DEF readCachedManifest, Go, Ready, Picking, Reading, disk
    <3> QED
      BY <1>2, <2>1, <3>1, <3>2, CacheLocal DEF readCachedManifest, Go, disk
  <2>2. ASSUME NEW s \in todo[p],
               picked' = [picked EXCEPT ![p] = s],
               todo' = [todo EXCEPT ![p] = @ \ {s}],
               Go(p, CASE manifest[s] = "none"    -> "failed"
                       [] manifest[s] = "whole"   -> "r_bundle"
                       [] manifest[s] = "damaged" -> "r_damaged")
        PROVE  CacheInv'
    <3>1. s \in Serials /\ manifest[s] \in Doc
      OBVIOUS
    <3>2. Go(p, "failed") \/ Go(p, "r_bundle") \/ Go(p, "r_damaged")
      BY <2>2, <3>1 DEF Doc
    <3>3. UNCHANGED <<disk, mark, published, faults, cmd, loaded, seen, active>>
      BY <1>2 DEF readCachedManifest
    <3>4. /\ pc' \in [Procs -> Labels]
          /\ pc'[p] \in {"failed", "r_bundle", "r_damaged"}
          /\ \A q \in Procs : q # p => pc'[q] = pc[q]
      BY <3>2 DEF Go, Labels
    <3>5. TypeOK'
      BY <2>2, <3>1, <3>3, <3>4 DEF disk
    <3>6. picked'[p] = s
      BY <2>2
    <3>7. Ready(p)'
      BY <3>1, <3>3, <3>4, <3>6 DEF Ready, Picking, Reading, disk
    <3> QED
      BY <2>2, <3>3, <3>4, <3>5, <3>7, CacheLocal DEF disk
  <2> QED
    BY <1>2, <2>1, <2>2 DEF readCachedManifest
<1>3. CASE readCachedBundle(p)
  <2>1. Go(p, "failed") \/ Go(p, "r_verify") \/ Go(p, "r_manifest")
    BY <1>3 DEF readCachedBundle
  <2>2. TypeOK'
    BY <1>3, <2>1 DEF readCachedBundle, Go, Labels, disk, local
  <2>3. Ready(p)'
    BY <1>3, <2>1 DEF readCachedBundle, Go, Ready, Picking, Reading, disk, local
  <2> QED
    BY <1>3, <2>1, <2>2, <2>3, CacheLocal DEF readCachedBundle, Go, disk, local
<1>4. CASE verifyCachedPack(p) \/ RollbackFails(p)
  <2>1. TypeOK'
    BY <1>4 DEF verifyCachedPack, RollbackFails, Fault, NoFault, Go, Labels, disk, local
  <2>2. Ready(p)'
    BY <1>4 DEF verifyCachedPack, RollbackFails, At, Go, Ready, Picking, Reading, disk, local
  <2> QED
    BY <1>4, <2>1, <2>2, CacheLocal DEF verifyCachedPack, RollbackFails, Go, disk, local
<1> QED
  BY <1>1, <1>2, <1>3, <1>4 DEF Rollback

\* Storing a pack: documents are written before the pointer names them, and
\* no document is ever removed.
LEMMA CacheStoring ==
  ASSUME CacheInv, NEW p \in Procs, Storing(p)
  PROVE  CacheInv'
<1> USE ConstantsOK DEF CacheInv, TypeOK
<1>0. 0 \notin Serials
  BY DEF Serials
<1>1. CASE storeDir(p)
  <2>1. picked[p] \in Serials
    BY <1>1 DEF storeDir, Store, At, Ready, Picking
  <2>2. /\ UNCHANGED <<manifest, bundle, pointer, inForce, mark>>
        /\ UNCHANGED <<published, faults, local>>
        /\ dirs' = dirs \cup {picked[p]}
        /\ Go(p, "w_manifest")
    BY <1>1 DEF storeDir, Store, NoFault, local
  <2>3. TypeOK'
    BY <2>1, <2>2 DEF Go, Labels, local
  <2>4. PointerComplete' /\ PointerWasInForce' /\ MarkWasInForce'
    BY <2>2 DEF PointerComplete, PointerWasInForce, MarkWasInForce
  <2>5. ASSUME NEW q \in Procs PROVE Ready(q)'
    BY <2>1, <2>2 DEF Go, Ready, Picking, Reading, local
  <2> QED
    BY <2>3, <2>4, <2>5
<1>2. CASE storeManifest(p) \/ storeBundle(p)
  <2>1. picked[p] \in Serials
    BY <1>2 DEF storeManifest, storeBundle, Store, At, Ready, Picking
  <2>2. /\ UNCHANGED <<dirs, pointer, inForce, mark>>
        /\ UNCHANGED <<published, faults, local>>
        /\ manifest' \in [Serials -> Doc] /\ bundle' \in [Serials -> Doc]
    BY <1>2, <2>1 DEF storeManifest, storeBundle, Store, NoFault, Doc, local
  <2>3. \A t \in Serials : /\ manifest[t] # "none" => manifest'[t] # "none"
                           /\ bundle[t] # "none" => bundle'[t] # "none"
    BY <1>2 DEF storeManifest, storeBundle
  <2>4. \/ Go(p, "w_bundle") /\ manifest'[picked[p]] # "none"
        \/ /\ Go(p, "w_pointer")
           /\ manifest'[picked[p]] # "none" /\ bundle'[picked[p]] # "none"
    BY <1>2, <2>1 DEF storeManifest, storeBundle, Store, At, Ready
  <2>5. TypeOK'
    BY <2>2, <2>4 DEF Go, Labels, local
  <2>6. PointerComplete' /\ PointerWasInForce' /\ MarkWasInForce'
    BY <2>2, <2>3, <1>0 DEF PointerComplete, PointerWasInForce, MarkWasInForce
  <2>7. ASSUME NEW q \in Procs PROVE Ready(q)'
    BY <2>1, <2>2, <2>3, <2>4 DEF Go, Ready, Picking, Reading, local
  <2> QED
    BY <2>5, <2>6, <2>7
<1>3. CASE storePointer(p)
  <2>1. /\ picked[p] \in Serials
        /\ manifest[picked[p]] # "none" /\ bundle[picked[p]] # "none"
    BY <1>3 DEF storePointer, Store, At, Ready, Picking
  <2>2. /\ UNCHANGED <<dirs, manifest, bundle, mark, published, faults>>
        /\ UNCHANGED <<cmd, loaded, seen, picked, todo>>
        /\ pointer' = picked[p]
        /\ inForce' = inForce \cup {picked[p]}
        /\ active' \in {active, [active EXCEPT ![p] = picked[p]]}
        /\ Go(p, "advance") \/ Go(p, "done")
    BY <1>3 DEF storePointer, Store, NoFault
  <2>3. TypeOK'
    BY <2>1, <2>2 DEF Go, Labels
  <2>4. PointerComplete' /\ PointerWasInForce' /\ MarkWasInForce'
    BY <2>1, <2>2 DEF PointerComplete, PointerWasInForce, MarkWasInForce
  <2>5. ASSUME NEW q \in Procs PROVE Ready(q)'
    BY <2>1, <2>2 DEF Go, Ready, Picking, Reading
  <2> QED
    BY <2>3, <2>4, <2>5
<1>4. CASE StoreFails(p)
  <2>1. TypeOK'
    BY <1>4 DEF StoreFails, Fault, Go, Labels, disk, local
  <2>2. Ready(p)'
    BY <1>4 DEF StoreFails, Go, Ready, Picking, Reading, disk, local
  <2> QED
    BY <1>4, <2>1, <2>2, CacheLocal DEF StoreFails, Go, disk, local
<1> QED
  BY <1>1, <1>2, <1>3, <1>4 DEF Storing

\* Every step of any command keeps the invariant.
LEMMA CacheNext == CacheInv /\ [Next]_vars => CacheInv'
<1> SUFFICES ASSUME CacheInv, [Next]_vars PROVE CacheInv'
  OBVIOUS
<1>1. CASE UNCHANGED vars
  BY <1>1 DEF vars, disk, local, CacheInv, TypeOK, PointerComplete, PointerWasInForce,
              MarkWasInForce, Ready
<1>2. CASE Next
  BY <1>2, CacheWorld, CacheLife, CacheSync, CacheLoad, CacheRollback, CacheStoring DEF Next
<1> QED
  BY <1>1, <1>2

\* The invariant holds in every reachable state, for any number of commands that
\* share the cache without a lock.
THEOREM CacheInvariant == Spec => []CacheInv
  BY CacheInit, CacheNext, PTL DEF Spec

-----------------------------------------------------------------------------

\* Every file is missing, whole or damaged and every command is at one of its
\* steps, however syncs, rollbacks, gateways and crashes interleave.
THEOREM RulesTypeCorrect == Spec => []TypeOK
<1>1. CacheInv => TypeOK
  BY DEF CacheInv
<1> QED
  BY <1>1, CacheInvariant, PTL

\* The pointer never names a serial one of whose documents was not written
\* (RulesCache.Store writes the pointer last), for any number of writers.
THEOREM PointerAlwaysComplete == Spec => []PointerComplete
<1>1. CacheInv => PointerComplete
  BY DEF CacheInv
<1> QED
  BY <1>1, CacheInvariant, PTL

\* The mark only names a serial whose pack was put in force: commitActivation
\* advances it after the store, for any number of writers.
THEOREM MarkAlwaysWasInForce == Spec => []MarkWasInForce
<1>1. CacheInv => MarkWasInForce
  BY DEF CacheInv
<1> QED
  BY <1>1, CacheInvariant, PTL

\* A gateway serves the built-ins or a pack the pointer once named: a pack
\* cached by an interrupted sync is never served (loadCache follows the pointer).
THEOREM GatewaysServeActivated == Spec => []ServesActivated
<1>1. CacheInv => ServesActivated
  BY DEF CacheInv, ServesActivated, Ready, Procs
<1> QED
  BY <1>1, CacheInvariant, PTL

-----------------------------------------------------------------------------
(* One writer at a time.                                                   *)

\* No two commands write the cache at the same time.
OneWriter == \A v, w \in Writers : v = w

\* The steps a command of each kind takes.
Writing == {"w_dir", "w_manifest", "w_bundle", "w_pointer"}
Loading == {"l_pointer", "l_manifest", "l_bundle"}
Route ==
  [gateway  |-> {"idle", "serving"} \cup Loading,
   sync     |-> {"idle", "done", "failed", "fetch", "replay", "bundle", "advance"}
                  \cup Loading \cup Writing,
   rollback |-> {"idle", "done", "failed", "r_pointer", "r_list", "r_manifest",
                 "r_bundle", "r_damaged", "r_verify"} \cup Writing]

Ended == {"idle", "done", "failed"}

\* A command keeps to its route; the mark a running sync read is still the mark
\* of the directory; and what it activates lies above that mark.
Sole(p) ==
  /\ cmd[p] \in Commands(p)
  /\ pc[p] \in Route[cmd[p]]
  /\ cmd[p] = "sync" /\ pc[p] \notin Ended => loaded[p] = mark
  /\ cmd[p] = "sync" /\ pc[p] \in {"bundle"} \cup Writing => picked[p] > loaded[p]

SoleInv == \A p \in Procs : Sole(p)

\* The invariant holds initially.
LEMMA SoleInit == Init => SoleInv
BY DEF Init, SoleInv, Sole, Commands, Route, Ended, Writing

\* A step of a running command that leaves the mark alone keeps the invariant
\* if the command stays on its route and above the mark.
LEMMA SoleLocal ==
  ASSUME SoleInv, NEW p \in Procs, UNCHANGED <<mark, cmd, loaded>>,
         pc[p] \notin Ended, pc'[p] \in Route[cmd[p]],
         cmd[p] = "sync" /\ pc'[p] \in {"bundle"} \cup Writing => picked'[p] > loaded[p],
         \A q \in Procs : q # p => pc'[q] = pc[q] /\ picked'[q] = picked[q]
  PROVE  SoleInv'
BY DEF SoleInv, Sole, Commands

\* A command starts, returns or dies.
LEMMA SoleLife ==
  ASSUME CacheInv, SoleInv, NEW p \in Procs,
         Exit(p) \/ Crash(p) \/ \E c \in {"sync", "rollback", "gateway"} : Launch(p, c)
  PROVE  SoleInv'
<1> USE DEF CacheInv, TypeOK
<1>1. CASE Exit(p) \/ Crash(p)
  <2>1. Reset(p) /\ UNCHANGED mark
    BY <1>1 DEF Exit, Crash
  <2> QED
    BY <2>1 DEF Reset, Go, SoleInv, Sole, Commands, Route, Ended, Writing
<1>2. ASSUME NEW c \in {"sync", "rollback", "gateway"}, Launch(p, c) PROVE SoleInv'
  <2>1. /\ c \in Commands(p) /\ cmd' = [cmd EXCEPT ![p] = c]
        /\ loaded' = [loaded EXCEPT ![p] = IF c = "rollback" THEN 0 ELSE mark]
        /\ pc' = [pc EXCEPT ![p] = First[c]]
        /\ UNCHANGED <<mark, picked>>
    BY <1>2 DEF Launch, Go
  <2>2. First[c] \in Route[c] /\ First[c] \notin {"bundle"} \cup Writing
    BY DEF First, Route, Writing, Loading
  <2>3. Sole(p)'
    BY <2>1, <2>2 DEF Sole, Commands
  <2>4. ASSUME NEW q \in Procs, q # p PROVE Sole(q)'
    BY <2>1, <2>4 DEF SoleInv, Sole, Commands
  <2> QED
    BY <2>3, <2>4 DEF SoleInv
<1> QED
  BY <1>1, <1>2

\* A sync's steps before it stores: only a serial above the mark goes further.
LEMMA SoleSync ==
  ASSUME CacheInv, SoleInv, NEW p \in Procs,
         fallback(p) \/ Reject(p) \/ Gate(p) \/ accept(p) \/ replay(p)
  PROVE  SoleInv'
<1> USE DEF CacheInv, TypeOK
<1>1. pc[p] \in {"fetch", "bundle", "replay"}
  BY DEF fallback, Reject, Gate, accept, replay, At
<1>2. cmd[p] = "sync" /\ pc[p] \notin Ended
  BY <1>1 DEF SoleInv, Sole, Commands, Route, Ended, Loading, Writing
<1>3. \A l : l \in {"done", "failed", "l_pointer", "replay", "bundle", "w_dir"} =>
               l \in Route[cmd[p]]
  BY <1>2 DEF Route, Loading, Writing
<1>4. UNCHANGED <<mark, cmd, loaded>>
  BY DEF fallback, Reject, Gate, accept, replay, local
<1>5. CASE fallback(p) \/ Reject(p) \/ replay(p)
  BY <1>2, <1>3, <1>4, <1>5, SoleLocal DEF fallback, Reject, replay, Go, Writing, local
<1>6. CASE accept(p)
  <2>1. picked[p] > loaded[p]
    BY <1>2, <1>6 DEF accept, At, SoleInv, Sole
  <2> QED
    BY <1>2, <1>3, <1>4, <1>6, <2>1, SoleLocal DEF accept, Go, Writing, local
<1>7. CASE Gate(p)
  <2>1. PICK s \in Served, l \in {"failed", "replay", "bundle"} :
          /\ picked' = [picked EXCEPT ![p] = s]
          /\ Go(p, l)
          /\ l = "bundle" => s > loaded[p]
    BY <1>7, GateSteps
  <2> QED
    BY <1>2, <1>3, <1>4, <2>1, SoleLocal DEF Go, Writing
<1> QED
  BY <1>5, <1>6, <1>7

\* Where a step of the load sends a command.
LEMMA LoadSteps ==
  ASSUME NEW p \in Procs, loadCache(p)
  PROVE  \E l : Go(p, l) /\ (l \in Loading \/ \E ok \in BOOLEAN : l = AfterLoad(p, ok))
<1>1. CASE loadPointer(p)
  BY <1>1 DEF loadPointer, Loading
<1>2. CASE loadManifest(p)
  BY <1>2 DEF loadManifest, Loading
<1>3. CASE loadBundle(p)
  BY <1>3 DEF loadBundle
<1>4. CASE LoadFails(p)
  BY <1>4 DEF LoadFails
<1> QED
  BY <1>1, <1>2, <1>3, <1>4 DEF loadCache

\* Loading the cache moves a gateway or a sync along its route.
LEMMA SoleLoad ==
  ASSUME CacheInv, SoleInv, NEW p \in Procs, loadCache(p)
  PROVE  SoleInv'
<1> USE DEF CacheInv, TypeOK
<1>1. pc[p] \in {"replay"} \cup Loading
  BY DEF loadCache, loadPointer, loadManifest, loadBundle, LoadFails, At, Loading
<1>2. cmd[p] \in {"sync", "gateway"} /\ pc[p] \notin Ended
  BY <1>1 DEF SoleInv, Sole, Commands, Route, Ended, Loading, Writing
<1>3. \A ok \in BOOLEAN : /\ AfterLoad(p, ok) \in Route[cmd[p]]
                          /\ AfterLoad(p, ok) \in {"serving", "done", "failed"}
  <2>1. CASE cmd[p] = "gateway"
    <3>1. \A ok \in BOOLEAN : AfterLoad(p, ok) = "serving"
      BY <2>1 DEF AfterLoad
    <3> QED
      BY <2>1, <3>1 DEF Route
  <2>2. CASE cmd[p] = "sync"
    <3>1. \A ok \in BOOLEAN : AfterLoad(p, ok) \in {"done", "failed"}
      BY <2>2 DEF AfterLoad
    <3> QED
      BY <2>2, <3>1 DEF Route
  <2> QED
    BY <1>2, <2>1, <2>2
<1>4. Loading \subseteq Route[cmd[p]]
  BY <1>2 DEF Route
<1>5. UNCHANGED <<mark, cmd, loaded, picked>>
  BY DEF loadCache, loadPointer, loadManifest, loadBundle, LoadFails, local
<1>6. PICK l : Go(p, l) /\ (l \in Loading \/ \E ok \in BOOLEAN : l = AfterLoad(p, ok))
  BY LoadSteps
<1>7. l \in Route[cmd[p]] /\ l \notin {"bundle"} \cup Writing
  BY <1>3, <1>4, <1>6 DEF Loading, Writing
<1> QED
  BY <1>2, <1>5, <1>6, <1>7, SoleLocal DEF Go

\* A rollback's steps before it stores move it along its route.
LEMMA SoleRollback ==
  ASSUME CacheInv, SoleInv, NEW p \in Procs, Rollback(p)
  PROVE  SoleInv'
<1> USE DEF CacheInv, TypeOK
<1>1. pc[p] \in {"r_pointer", "r_list", "r_manifest", "r_bundle", "r_damaged", "r_verify"}
  BY DEF Rollback, readActive, cachedPackSerials, readCachedManifest, readCachedBundle,
         verifyCachedPack, RollbackFails, At
<1>2. cmd[p] = "rollback" /\ pc[p] \notin Ended
  BY <1>1 DEF SoleInv, Sole, Commands, Route, Ended, Loading, Writing
<1>3. UNCHANGED <<mark, cmd, loaded>>
  BY DEF Rollback, readActive, cachedPackSerials, readCachedManifest, readCachedBundle,
         verifyCachedPack, RollbackFails, local
<1>4. /\ \A q \in Procs : q # p => picked'[q] = picked[q]
      /\ \E l \in Route["rollback"] : Go(p, l)
  <2>1. CASE readActive(p) \/ cachedPackSerials(p)
    BY <2>1 DEF readActive, cachedPackSerials, Route
  <2>2. CASE readCachedManifest(p) /\ todo[p] = {}
    BY <2>2 DEF readCachedManifest, Route
  <2>3. CASE readCachedManifest(p) /\ todo[p] # {}
    <3>1. PICK s \in todo[p] :
            /\ picked' = [picked EXCEPT ![p] = s]
            /\ Go(p, CASE manifest[s] = "none"    -> "failed"
                       [] manifest[s] = "whole"   -> "r_bundle"
                       [] manifest[s] = "damaged" -> "r_damaged")
      BY <2>3 DEF readCachedManifest
    <3>2. manifest[s] \in Doc
      OBVIOUS
    <3>3. Go(p, "failed") \/ Go(p, "r_bundle") \/ Go(p, "r_damaged")
      BY <3>1, <3>2 DEF Doc
    <3> QED
      BY <3>1, <3>3 DEF Route
  <2>4. CASE readCachedBundle(p)
    <3>1. Go(p, "failed") \/ Go(p, "r_verify") \/ Go(p, "r_manifest")
      BY <2>4 DEF readCachedBundle
    <3> QED
      BY <2>4, <3>1 DEF readCachedBundle, Route, local
  <2>5. CASE verifyCachedPack(p) \/ RollbackFails(p)
    BY <2>5 DEF verifyCachedPack, RollbackFails, Route, Writing, local
  <2> QED
    BY <2>1, <2>2, <2>3, <2>4, <2>5 DEF Rollback
<1> QED
  BY <1>2, <1>3, <1>4, SoleLocal DEF Go

\* Storing moves a sync or a rollback along its route and picks nothing else.
LEMMA SoleStoring ==
  ASSUME CacheInv, SoleInv, NEW p \in Procs, Storing(p)
  PROVE  SoleInv'
<1> USE DEF CacheInv, TypeOK
<1>1. pc[p] \in Writing
  BY DEF Storing, storeDir, storeManifest, storeBundle, storePointer, StoreFails, Store, At, Writing
<1>2. /\ cmd[p] \in {"sync", "rollback"} /\ pc[p] \notin Ended
      /\ cmd[p] = "sync" => picked[p] > loaded[p]
  BY <1>1 DEF SoleInv, Sole, Commands, Route, Ended, Loading, Writing
<1>3. UNCHANGED <<mark, cmd, loaded, picked>>
  BY DEF Storing, storeDir, storeManifest, storeBundle, storePointer, StoreFails, Store, local
<1>4. \E l \in Route[cmd[p]] : Go(p, l)
  <2>1. CASE storeDir(p) \/ storeManifest(p) \/ storeBundle(p) \/ StoreFails(p)
    BY <1>2, <2>1 DEF storeDir, storeManifest, storeBundle, StoreFails, Route, Writing
  <2>2. CASE storePointer(p)
    BY <1>2, <2>2 DEF storePointer, Route
  <2> QED
    BY <2>1, <2>2 DEF Storing
<1> QED
  BY <1>2, <1>3, <1>4, SoleLocal DEF Go

\* The mark moves under no other command: the sync that advances it is the
\* only one running.
LEMMA SoleAdvance ==
  ASSUME CacheInv, SoleInv, OneWriter, NEW p \in Procs, Advance(p)
  PROVE  SoleInv' /\ mark' >= mark
<1> USE DEF CacheInv, TypeOK
<1>1. pc[p] = "advance" /\ cmd[p] = "sync"
  BY DEF Advance, At, SoleInv, Sole, Commands, Route, Loading, Writing
<1>2. loaded[p] = mark /\ p \notin Gateways
  BY <1>1 DEF SoleInv, Sole, Commands, Ended
<1>3. /\ UNCHANGED <<cmd, loaded, picked>>
      /\ Go(p, "done") \/ Go(p, "failed")
      /\ mark' = mark \/ (mark' = picked[p] /\ picked[p] >= mark)
  BY <1>2 DEF Advance, local
<1>4. mark' >= mark
  BY <1>3, ConstantsOK DEF Serials
<1>5. Sole(p)'
  BY <1>1, <1>3 DEF Go, SoleInv, Sole, Commands, Route, Ended, Writing
<1>6. ASSUME NEW q \in Procs, q # p PROVE Sole(q)'
  <2>1. cmd[q] # "sync"
    BY <1>2, <1>6 DEF OneWriter, SoleInv, Sole, Commands, Procs
  <2> QED
    BY <1>3, <1>6, <2>1 DEF Go, SoleInv, Sole, Commands
<1> QED
  BY <1>4, <1>5, <1>6 DEF SoleInv

\* Every step keeps the invariant while one writer runs at a time.
LEMMA SoleNext ==
  ASSUME OneWriter PROVE CacheInv /\ SoleInv /\ [Next]_vars => SoleInv'
<1> SUFFICES ASSUME CacheInv, SoleInv, [Next]_vars PROVE SoleInv'
  OBVIOUS
<1>1. CASE UNCHANGED vars
  BY <1>1 DEF vars, local, SoleInv, Sole, Commands
<1>2. CASE Publish \/ \E s \in Serials : Damage(s)
  BY <1>2 DEF Publish, Damage, local, SoleInv, Sole, Commands
<1>3. ASSUME NEW p \in Procs,
             \/ \E c \in {"sync", "rollback", "gateway"} : Launch(p, c)
             \/ Exit(p) \/ Crash(p)
             \/ Sync(p) \/ loadCache(p) \/ Rollback(p) \/ Storing(p)
      PROVE  SoleInv'
  BY <1>3, SoleLife, SoleSync, SoleAdvance, SoleLoad, SoleRollback, SoleStoring DEF Sync
<1> QED
  BY <1>1, <1>2, <1>3 DEF Next

\* While one writer runs at a time, both invariants hold in every state.
LEMMA SoleInvariant ==
  ASSUME OneWriter PROVE Spec => [](CacheInv /\ SoleInv)
BY CacheInit, CacheNext, SoleInit, SoleNext, PTL DEF Spec

\* With one writer at a time the mark never decreases, whatever fails and
\* wherever a command dies (FileHighWater.Advance compares with the mark the
\* command loaded, which is then still the one on disk).
THEOREM MarkNeverDecreases ==
  ASSUME OneWriter PROVE Spec => MarkMonotone
<1>1. CacheInv /\ SoleInv /\ [Next]_vars => [mark' >= mark]_vars
  <2> SUFFICES ASSUME CacheInv, SoleInv, Next PROVE mark' >= mark
    BY DEF vars
  <2>1. ASSUME UNCHANGED mark PROVE mark' >= mark
    BY <2>1, ConstantsOK DEF CacheInv, TypeOK, Serials
  <2>2. CASE Publish \/ \E s \in Serials : Damage(s)
    BY <2>1, <2>2 DEF Publish, Damage
  <2>3. ASSUME NEW p \in Procs,
               \/ \E c \in {"sync", "rollback", "gateway"} : Launch(p, c)
               \/ Exit(p) \/ Crash(p)
        PROVE  mark' >= mark
    BY <2>1, <2>3 DEF Launch, Exit, Crash
  <2>4. ASSUME NEW p \in Procs, Sync(p) PROVE mark' >= mark
    <3>1. CASE Advance(p)
      BY <3>1, SoleAdvance
    <3>2. CASE fallback(p) \/ Reject(p) \/ Gate(p) \/ accept(p) \/ replay(p)
      BY <2>1, <3>2 DEF fallback, Reject, Gate, accept, replay
    <3> QED
      BY <2>4, <3>1, <3>2 DEF Sync
  <2>5. ASSUME NEW p \in Procs, loadCache(p) \/ Rollback(p) PROVE mark' >= mark
    BY <2>1, <2>5 DEF loadCache, loadPointer, loadManifest, loadBundle, LoadFails,
         Rollback, readActive, cachedPackSerials, readCachedManifest, readCachedBundle,
         verifyCachedPack, RollbackFails
  <2>6. ASSUME NEW p \in Procs, Storing(p) PROVE mark' >= mark
    BY <2>1, <2>6 DEF Storing, storeDir, storeManifest, storeBundle, storePointer,
         StoreFails, Store
  <2> QED
    BY <2>2, <2>3, <2>4, <2>5, <2>6 DEF Next
<1> QED
  BY <1>1, SoleInvariant, PTL DEF Spec, MarkMonotone

\* With one writer at a time only a rollback points below a mark that covers
\* the pack in force: a sync stores a serial above the mark or none (the gate
\* in activate comes before the store).
THEOREM OnlyRollbackPointsBack ==
  ASSUME OneWriter PROVE Spec => SyncNeverPointsBack
<1> DEFINE Back == pointer' < pointer /\ pointer <= mark =>
                     \E p \in Writers : At(p, "w_pointer") /\ cmd[p] = "rollback"
<1>1. CacheInv /\ SoleInv /\ [Next]_vars => [Back]_vars
  <2> SUFFICES ASSUME CacheInv, SoleInv, Next, pointer' < pointer, pointer <= mark
               PROVE  \E p \in Writers : At(p, "w_pointer") /\ cmd[p] = "rollback"
    BY DEF vars
  <2> USE DEF CacheInv, TypeOK
  <2>1. pointer \in Int /\ mark \in Int
    BY ConstantsOK DEF Serials
  <2>2. pointer' # pointer
    BY <2>1
  <2>3. PICK p \in Procs : Storing(p)
    BY <2>2 DEF Next, Publish, Damage, Launch, Exit, Crash, Sync, fallback, Reject, Gate,
         accept, replay, Advance, loadCache, loadPointer, loadManifest, loadBundle,
         LoadFails, Rollback, readActive, cachedPackSerials, readCachedManifest,
         readCachedBundle, verifyCachedPack, RollbackFails, disk
  <2>4. storePointer(p)
    BY <2>2, <2>3 DEF Storing, storeDir, storeManifest, storeBundle, StoreFails, disk
  <2>5. pc[p] = "w_pointer" /\ pointer' = picked[p] /\ picked[p] \in Int
    BY <2>4, ConstantsOK DEF storePointer, Store, At, Serials
  <2>6. cmd[p] \in {"sync", "rollback"} /\ p \in Writers
    BY <2>5 DEF SoleInv, Sole, Commands, Route, Loading, Procs
  <2>7. CASE cmd[p] = "sync"
    <3>1. loaded[p] = mark /\ picked[p] > loaded[p]
      BY <2>5, <2>7 DEF SoleInv, Sole, Ended, Writing
    <3> QED
      BY <2>1, <2>5, <3>1
  <2>8. CASE cmd[p] = "rollback"
    BY <2>5, <2>6, <2>8 DEF At
  <2> QED
    BY <2>6, <2>7, <2>8
<1> QED
  BY <1>1, SoleInvariant, PTL DEF Spec, SyncNeverPointsBack

-----------------------------------------------------------------------------
(* A cache whose documents nothing damaged.                                *)

\* What command p knows of the documents while no call has failed.
Trusted(p) ==
  /\ pc[p] = "w_bundle" => manifest[picked[p]] = "whole"
  /\ pc[p] = "w_pointer" => Complete(picked[p])
  /\ pc[p] = "serving" /\ active[p] = 0 => seen[p] = 0

\* While no call has failed and no document was damaged, every pack that was in
\* force is whole.
Unhurt ==
  faults = 0 =>
    /\ \A s \in Serials : manifest[s] # "damaged" /\ bundle[s] # "damaged"
    /\ \A s \in inForce : Complete(s)
    /\ \A p \in Procs : Trusted(p)

\* The count of faults only grows.
LEMMA FaultsGrow == CacheInv /\ [Next]_vars => faults' >= faults
<1> SUFFICES ASSUME CacheInv, [Next]_vars PROVE faults' >= faults
  OBVIOUS
<1>1. faults \in Nat
  BY ConstantsOK DEF CacheInv, TypeOK
<1>2. UNCHANGED faults \/ Fault \/ NoFault
  <2>1. CASE Publish \/ UNCHANGED vars \/ \E s \in Serials : Damage(s)
    BY <2>1 DEF Publish, vars, Damage
  <2>2. ASSUME NEW p \in Procs,
               \/ \E c \in {"sync", "rollback", "gateway"} : Launch(p, c)
               \/ Exit(p) \/ Crash(p)
        PROVE  UNCHANGED faults
    BY <2>2 DEF Launch, Exit, Crash
  <2>3. ASSUME NEW p \in Procs, Sync(p) \/ loadCache(p)
        PROVE  UNCHANGED faults \/ Fault \/ NoFault
    BY <2>3 DEF Sync, fallback, Reject, Gate, accept, replay, Advance,
                loadCache, loadPointer, loadManifest, loadBundle, LoadFails
  <2>4. ASSUME NEW p \in Procs, Rollback(p) \/ Storing(p)
        PROVE  UNCHANGED faults \/ Fault \/ NoFault
    BY <2>4 DEF Rollback, readActive, cachedPackSerials, readCachedManifest, readCachedBundle,
                verifyCachedPack, RollbackFails, Storing, storeDir, storeManifest, storeBundle,
                storePointer, StoreFails, Store
  <2> QED
    BY <2>1, <2>2, <2>3, <2>4 DEF Next
<1> QED
  BY <1>1, <1>2 DEF Fault, NoFault

\* A step of p that leaves the documents and the pointer alone keeps Unhurt if
\* p itself knows what it should after it.
LEMMA UnhurtLocal ==
  ASSUME CacheInv, Unhurt, NEW p \in Procs, UNCHANGED <<manifest, bundle, inForce>>,
         faults = 0 => faults' # 0 \/ Trusted(p)',
         faults' = 0 => faults = 0,
         \A q \in Procs : q # p =>
           /\ pc'[q] = pc[q] /\ picked'[q] = picked[q]
           /\ seen'[q] = seen[q] /\ active'[q] = active[q]
  PROVE  Unhurt'
BY DEF Unhurt, Trusted, Complete

\* Every step of every command keeps the whole packs whole.
LEMMA UnhurtNext == CacheInv /\ Unhurt /\ [Next]_vars => Unhurt'
<1> SUFFICES ASSUME CacheInv, Unhurt, [Next]_vars, faults' = 0 PROVE Unhurt'
  BY DEF Unhurt
<1> USE DEF CacheInv, TypeOK
<1>0. faults = 0 /\ UNCHANGED faults /\ 0 \notin Serials /\ ~Fault
  BY FaultsGrow, ConstantsOK DEF Fault, Serials
<1>1. /\ \A s \in Serials : manifest[s] # "damaged" /\ bundle[s] # "damaged"
      /\ \A s \in inForce : Complete(s)
      /\ \A q \in Procs : Trusted(q)
  BY <1>0 DEF Unhurt
<1>2. CASE Publish \/ UNCHANGED vars
  BY <1>2 DEF Publish, vars, disk, local, Unhurt, Trusted, Complete
<1>3. \A s \in Serials : ~Damage(s)
  BY <1>0 DEF Damage
<1>4. ASSUME NEW p \in Procs,
             \/ \E c \in {"sync", "rollback", "gateway"} : Launch(p, c)
             \/ Exit(p) \/ Crash(p) \/ Sync(p) \/ Rollback(p)
      PROVE  Unhurt'
  <2>1. UNCHANGED <<manifest, bundle, inForce>>
    BY <1>4 DEF Launch, Exit, Crash, Sync, fallback, Reject, Gate, accept, replay, Advance,
                Rollback, readActive, cachedPackSerials, readCachedManifest, readCachedBundle,
                verifyCachedPack, RollbackFails, disk
  <2>2. /\ pc'[p] \notin {"w_bundle", "w_pointer", "serving"}
        /\ \A q \in Procs : q # p =>
             /\ pc'[q] = pc[q] /\ picked'[q] = picked[q]
             /\ seen'[q] = seen[q] /\ active'[q] = active[q]
    <3>1. CASE Exit(p) \/ Crash(p)
      BY <3>1 DEF Exit, Crash, Reset, Go
    <3>2. CASE \E c \in {"sync", "rollback", "gateway"} : Launch(p, c)
      BY <3>2 DEF Launch, Go, First
    <3>3. CASE fallback(p) \/ Reject(p) \/ accept(p) \/ replay(p) \/ Advance(p)
      BY <3>3 DEF fallback, Reject, accept, replay, Advance, Go, local
    <3>4. CASE Gate(p)
      <4>1. PICK s \in Served : /\ picked' = [picked EXCEPT ![p] = s]
                                /\ Go(p, "failed") \/ Go(p, "replay") \/ Go(p, "bundle")
        BY <3>4, GateSteps
      <4> QED
        BY <3>4, <4>1 DEF Gate, Go
    <3>5. CASE readActive(p) \/ cachedPackSerials(p) \/ readCachedBundle(p)
                 \/ verifyCachedPack(p) \/ RollbackFails(p)
      BY <1>0, <3>5 DEF readActive, cachedPackSerials, readCachedBundle, verifyCachedPack, RollbackFails,
                        Go, local
    <3>6. CASE readCachedManifest(p)
      <4>1. Go(p, "failed") \/ Go(p, "r_bundle") \/ Go(p, "r_damaged")
        BY <3>6 DEF readCachedManifest, Doc
      <4> QED
        BY <3>6, <4>1 DEF readCachedManifest, Go
    <3> QED
      BY <1>4, <3>1, <3>2, <3>3, <3>4, <3>5, <3>6 DEF Sync, Rollback
  <2> QED
    BY <1>0, <2>1, <2>2, UnhurtLocal DEF Trusted
<1>5. ASSUME NEW p \in Procs, loadCache(p) PROVE Unhurt'
  <2>0. UNCHANGED <<manifest, bundle, inForce, picked>>
    BY <1>5 DEF loadCache, loadPointer, loadManifest, loadBundle, LoadFails, disk, local
  <2>1. \A ok \in BOOLEAN : AfterLoad(p, ok) \in {"serving", "done", "failed"}
    BY DEF AfterLoad
  <2>2. CASE loadPointer(p)
    <3>1. /\ seen' = [seen EXCEPT ![p] = pointer] /\ UNCHANGED active
          /\ Go(p, IF pointer = 0 THEN AfterLoad(p, TRUE) ELSE "l_manifest")
      BY <2>2 DEF loadPointer
    <3>2. Trusted(p)'
      BY <2>1, <3>1 DEF Trusted, Go
    <3> QED
      BY <1>0, <2>0, <3>1, <3>2, UnhurtLocal DEF Go
  <2>3. CASE loadManifest(p)
    <3>1. manifest[seen[p]] = "whole"
      BY <1>1, <2>3 DEF loadManifest, At, Ready, Reading, Complete
    <3>2. Go(p, "l_bundle") /\ UNCHANGED <<seen, active>>
      BY <2>3, <3>1 DEF loadManifest, local
    <3>3. Trusted(p)'
      BY <3>2 DEF Trusted, Go
    <3> QED
      BY <1>0, <2>0, <3>2, <3>3, UnhurtLocal DEF Go
  <2>4. CASE loadBundle(p)
    <3>1. bundle[seen[p]] = "whole" /\ seen[p] \in Serials
      BY <1>1, <2>4 DEF loadBundle, At, Ready, Reading, Complete
    <3>2. Go(p, AfterLoad(p, TRUE)) /\ active' = [active EXCEPT ![p] = seen[p]] /\ UNCHANGED seen
      BY <2>4, <3>1 DEF loadBundle
    <3>3. Trusted(p)'
      BY <1>0, <2>1, <3>1, <3>2 DEF Trusted, Go
    <3> QED
      BY <1>0, <2>0, <3>2, <3>3, UnhurtLocal DEF Go
  <2>5. ~LoadFails(p)
    BY <1>0 DEF LoadFails
  <2> QED
    BY <1>5, <2>2, <2>3, <2>4, <2>5 DEF loadCache
<1>6. ASSUME NEW p \in Procs, Storing(p) PROVE Unhurt'
  <2>0. ~StoreFails(p)
    BY <1>0 DEF StoreFails
  <2>1. picked[p] \in Serials /\ UNCHANGED <<picked, seen>> /\ Trusted(p)
    BY <1>1, <1>6, <2>0 DEF Storing, storeDir, storeManifest, storeBundle, storePointer, Store, At,
                            Ready, Picking
  <2>2. CASE storeDir(p)
    <3>1. Go(p, "w_manifest") /\ UNCHANGED <<manifest, bundle, inForce, active>>
      BY <2>2 DEF storeDir
    <3> QED
      BY <1>0, <2>1, <3>1, UnhurtLocal DEF Trusted, Go
  <2>3. CASE storeManifest(p)
    <3>1. /\ Go(p, "w_bundle") /\ UNCHANGED <<bundle, inForce, active>>
          /\ manifest' = [manifest EXCEPT ![picked[p]] = "whole"]
      BY <2>3 DEF storeManifest
    <3>2. \A t \in Serials : manifest[t] = "whole" => manifest'[t] = "whole"
      BY <3>1
    <3>3. \A q \in Procs : Trusted(q)'
      BY <1>1, <2>1, <3>1, <3>2 DEF Trusted, Go, Complete, Ready, Picking
    <3>4. \A t \in inForce' : Complete(t)'
      BY <1>1, <3>1, <3>2 DEF Complete
    <3> QED
      BY <1>1, <3>1, <3>3, <3>4 DEF Unhurt
  <2>4. CASE storeBundle(p)
    <3>1. /\ Go(p, "w_pointer") /\ UNCHANGED <<manifest, inForce, active>> /\ pc[p] = "w_bundle"
          /\ bundle' = [bundle EXCEPT ![picked[p]] = "whole"]
      BY <2>4 DEF storeBundle, Store, At
    <3>2. \A t \in Serials : bundle[t] = "whole" => bundle'[t] = "whole"
      BY <3>1
    <3>3. \A q \in Procs : Trusted(q)'
      BY <1>1, <2>1, <3>1, <3>2 DEF Trusted, Go, Complete, Ready, Picking
    <3>4. \A t \in inForce' : Complete(t)'
      BY <1>1, <3>1, <3>2 DEF Complete
    <3> QED
      BY <1>1, <3>1, <3>3, <3>4 DEF Unhurt
  <2>5. CASE storePointer(p)
    <3>1. /\ Go(p, "advance") \/ Go(p, "done")
          /\ UNCHANGED <<manifest, bundle>> /\ inForce' = inForce \cup {picked[p]} /\ pc[p] = "w_pointer"
          /\ \A q \in Procs : q # p => active'[q] = active[q]
      BY <2>5 DEF storePointer, Store, At
    <3>2. \A t \in inForce' : Complete(t)'
      BY <1>1, <2>1, <3>1 DEF Complete, Trusted
    <3>3. \A q \in Procs : Trusted(q)'
      BY <1>1, <2>1, <3>1 DEF Trusted, Go, Complete
    <3> QED
      BY <1>1, <3>1, <3>2, <3>3 DEF Unhurt
  <2> QED
    BY <1>6, <2>0, <2>2, <2>3, <2>4, <2>5 DEF Storing
<1> QED
  BY <1>2, <1>3, <1>4, <1>5, <1>6 DEF Next

\* While no call has failed and no document was damaged, a gateway that found a
\* pointer serves the pack it names: however many writers are interrupted, and
\* wherever, no gateway falls back to the built-ins because of it.
THEOREM GatewaysKeepProtection == Spec => []KeepsProtection
<1>1. Init => Unhurt
  BY DEF Init, Unhurt, Trusted, Complete
<1>2. Unhurt => KeepsProtection
  BY DEF Unhurt, Trusted, KeepsProtection, At, Procs
<1> QED
  BY <1>1, <1>2, CacheInit, CacheNext, UnhurtNext, PTL DEF Spec

-----------------------------------------------------------------------------
(* What a rollback restores, with one writer at a time.                     *)

Trying == {"r_bundle", "r_damaged", "r_verify"} \cup Writing

\* What a rollback has established: the candidates it has yet to try are below
\* the pack it leaves, and no complete pack it has not tried is above the one it
\* holds.
Restoring(p) ==
  cmd[p] = "rollback" =>
    /\ pc[p] \in {"r_manifest"} \cup Trying => \A s \in todo[p] : s < seen[p]
    /\ pc[p] \in Trying => picked[p] < seen[p]
    /\ faults = 0 =>
         /\ pc[p] # "r_damaged"
         /\ pc[p] = "r_manifest" =>
              \A s \in Serials : s < seen[p] /\ Complete(s) => s \in todo[p]
         /\ pc[p] \in Trying =>
              \A s \in Serials : picked[p] < s /\ s < seen[p] => ~Complete(s)

\* A document is written only into a directory that was made.
Listed ==
  /\ \A s \in Serials : manifest[s] # "none" => s \in dirs
  /\ \A p \in Procs : pc[p] = "w_manifest" => picked[p] \in dirs

RestoreInv == CacheInv /\ SoleInv /\ Unhurt /\ Listed /\ \A p \in Procs : Restoring(p)

\* The directory of a document is there before the document.
LEMMA ListedNext == CacheInv /\ Listed /\ [Next]_vars => Listed'
<1> SUFFICES ASSUME CacheInv, Listed, [Next]_vars PROVE Listed'
  OBVIOUS
<1> USE DEF CacheInv, TypeOK
<1>1. ASSUME UNCHANGED <<dirs, manifest>>, NEW p \in Procs, pc'[p] # "w_manifest",
             \A q \in Procs : q # p => pc'[q] = pc[q] /\ picked'[q] = picked[q]
      PROVE  Listed'
  BY <1>1 DEF Listed
<1>2. CASE Publish \/ UNCHANGED vars
  BY <1>2 DEF Publish, vars, disk, local, Listed
<1>3. ASSUME NEW s \in Serials, Damage(s) PROVE Listed'
  BY <1>3 DEF Damage, local, Listed
<1>4. ASSUME NEW p \in Procs, Exit(p) \/ Crash(p) PROVE Listed'
  BY <1>1, <1>4 DEF Exit, Crash, Reset, Go, disk
<1>5. ASSUME NEW p \in Procs, NEW c \in {"sync", "rollback", "gateway"}, Launch(p, c) PROVE Listed'
  <2>1. First[c] # "w_manifest"
    BY DEF First
  <2> QED
    BY <1>1, <1>5, <2>1 DEF Launch, Go, disk
<1>6. ASSUME NEW p \in Procs, Sync(p) PROVE Listed'
  <2>1. UNCHANGED <<dirs, manifest>>
    BY <1>6 DEF Sync, fallback, Reject, Gate, accept, replay, Advance, disk
  <2>2. CASE fallback(p) \/ Reject(p) \/ accept(p) \/ replay(p) \/ Advance(p)
    BY <1>1, <2>1, <2>2 DEF fallback, Reject, accept, replay, Advance, Go, local
  <2>3. CASE Gate(p)
    <3>1. PICK s \in Served : /\ picked' = [picked EXCEPT ![p] = s]
                              /\ Go(p, "failed") \/ Go(p, "replay") \/ Go(p, "bundle")
      BY <2>3, GateSteps
    <3> QED
      BY <1>1, <2>1, <3>1 DEF Go
  <2> QED
    BY <1>6, <2>2, <2>3 DEF Sync
<1>7. ASSUME NEW p \in Procs, loadCache(p) PROVE Listed'
  <2>1. \A ok \in BOOLEAN : AfterLoad(p, ok) # "w_manifest"
    BY DEF AfterLoad
  <2>2. UNCHANGED <<dirs, manifest, picked>>
    BY <1>7 DEF loadCache, loadPointer, loadManifest, loadBundle, LoadFails, disk, local
  <2>3. \E l : Go(p, l) /\ l # "w_manifest"
    BY <2>1, LoadSteps, <1>7 DEF Loading
  <2> QED
    BY <1>1, <2>2, <2>3 DEF Go
<1>8. ASSUME NEW p \in Procs, Rollback(p) PROVE Listed'
  <2>1. UNCHANGED <<dirs, manifest>>
    BY <1>8 DEF Rollback, readActive, cachedPackSerials, readCachedManifest, readCachedBundle,
                verifyCachedPack, RollbackFails, disk
  <2>2. CASE readActive(p) \/ cachedPackSerials(p) \/ readCachedBundle(p)
               \/ verifyCachedPack(p) \/ RollbackFails(p)
    BY <1>1, <2>1, <2>2 DEF readActive, cachedPackSerials, readCachedBundle, verifyCachedPack,
                            RollbackFails, Go, local
  <2>3. CASE readCachedManifest(p)
    <3>1. Go(p, "failed") \/ Go(p, "r_bundle") \/ Go(p, "r_damaged")
      BY <2>3 DEF readCachedManifest, Doc
    <3>2. \A q \in Procs : q # p => picked'[q] = picked[q]
      BY <2>3 DEF readCachedManifest
    <3> QED
      BY <1>1, <2>1, <3>1, <3>2 DEF Go
  <2> QED
    BY <1>8, <2>2, <2>3 DEF Rollback
<1>9. ASSUME NEW p \in Procs, Storing(p) PROVE Listed'
  <2>1. UNCHANGED picked /\ dirs \subseteq dirs'
    BY <1>9 DEF Storing, storeDir, storeManifest, storeBundle, storePointer, StoreFails, Store, disk, local
  <2>2. CASE storeDir(p)
    <3>1. dirs' = dirs \cup {picked[p]} /\ Go(p, "w_manifest") /\ UNCHANGED manifest
      BY <2>2 DEF storeDir
    <3> QED
      BY <2>1, <3>1 DEF Listed, Go
  <2>3. CASE storeManifest(p)
    <3>1. /\ picked[p] \in dirs /\ UNCHANGED dirs /\ Go(p, "w_bundle")
          /\ manifest' = [manifest EXCEPT ![picked[p]] = "whole"]
      BY <2>3 DEF storeManifest, Store, At, Listed
    <3> QED
      BY <2>1, <3>1 DEF Listed, Go
  <2>4. CASE storeBundle(p) \/ storePointer(p) \/ StoreFails(p)
    BY <1>1, <2>1, <2>4 DEF storeBundle, storePointer, StoreFails, Go, disk
  <2> QED
    BY <1>9, <2>2, <2>3, <2>4 DEF Storing
<1> QED
  BY <1>2, <1>3, <1>4, <1>5, <1>6, <1>7, <1>8, <1>9 DEF Next

\* What a rollback knows survives every step that completes no pack.
LEMMA RestoringKept ==
  ASSUME CacheInv, NEW q \in Procs, Restoring(q), faults' \in Nat, faults' >= faults,
         \A s \in Serials : Complete(s)' => Complete(s),
         cmd'[q] = cmd[q], pc'[q] = pc[q], seen'[q] = seen[q], picked'[q] = picked[q],
         todo'[q] = todo[q]
  PROVE  Restoring(q)'
<1>1. faults \in Nat
  BY ConstantsOK DEF CacheInv, TypeOK
<1>2. faults' = 0 => faults = 0
  BY <1>1
<1> QED
  BY <1>2 DEF Restoring

\* The search for the previous pack: the candidates are tried from the highest
\* down, and without a fault the first one that was written is whole.
LEMMA RestoringSearch ==
  ASSUME CacheInv, SoleInv, Unhurt, Listed, NEW p \in Procs, Restoring(p), Rollback(p),
         faults' \in Nat, faults' >= faults
  PROVE  Restoring(p)'
<1> USE DEF CacheInv, TypeOK
<1>1. pc[p] \in {"r_pointer", "r_list", "r_manifest", "r_bundle", "r_damaged", "r_verify"}
  BY DEF Rollback, readActive, cachedPackSerials, readCachedManifest, readCachedBundle,
         verifyCachedPack, RollbackFails, At
<1>2. cmd[p] = "rollback" /\ cmd'[p] = "rollback" /\ UNCHANGED <<manifest, bundle>>
  <2>1. cmd[p] = "rollback"
    BY <1>1 DEF SoleInv, Sole, Commands, Route, Ended, Loading, Writing
  <2> QED
    BY <2>1 DEF Rollback, readActive, cachedPackSerials, readCachedManifest, readCachedBundle,
                verifyCachedPack, RollbackFails, local, disk
<1>3. faults \in Nat /\ (faults' = 0 => faults = 0)
  BY ConstantsOK
<1>4. \A s \in Serials : Complete(s)' = Complete(s)
  BY <1>2 DEF Complete
<1>5. CASE readActive(p) \/ RollbackFails(p)
  <2>1. pc'[p] \in {"failed", "r_list"}
    BY <1>5 DEF readActive, RollbackFails, Go
  <2> QED
    BY <2>1 DEF Restoring, Trying, Writing
<1>6. CASE cachedPackSerials(p)
  <2>1. /\ pc'[p] = "r_manifest" /\ seen'[p] = seen[p]
        /\ todo'[p] = {s \in dirs : s < seen[p]}
    BY <1>6 DEF cachedPackSerials, Go
  <2>2. \A s \in Serials : Complete(s) => s \in dirs
    BY DEF Listed, Complete
  <2> QED
    BY <1>4, <2>1, <2>2 DEF Restoring, Trying, Writing
<1>7. CASE readCachedManifest(p)
  <2>1. pc[p] = "r_manifest" /\ seen'[p] = seen[p]
    BY <1>7 DEF readCachedManifest, At
  <2>2. CASE todo[p] = {}
    <3>1. pc'[p] = "failed"
      BY <1>7, <2>2 DEF readCachedManifest, Go
    <3> QED
      BY <3>1 DEF Restoring, Trying, Writing
  <2>3. CASE todo[p] # {}
    <3>1. PICK s \in todo[p] :
            /\ \A t \in todo[p] : t <= s
            /\ picked' = [picked EXCEPT ![p] = s]
            /\ todo' = [todo EXCEPT ![p] = @ \ {s}]
            /\ Go(p, CASE manifest[s] = "none"    -> "failed"
                       [] manifest[s] = "whole"   -> "r_bundle"
                       [] manifest[s] = "damaged" -> "r_damaged")
      BY <1>7, <2>3 DEF readCachedManifest
    <3>2. s \in Serials /\ s < seen[p] /\ manifest[s] \in Doc
      BY <1>2, <2>1 DEF Restoring
    <3>3. picked'[p] = s /\ todo'[p] = todo[p] \ {s}
      BY <3>1
    <3>4. /\ pc'[p] \in {"failed", "r_bundle", "r_damaged"}
          /\ pc'[p] = "r_damaged" => manifest[s] = "damaged"
      <4>1. CASE manifest[s] = "none"
        BY <3>1, <4>1 DEF Go
      <4>2. CASE manifest[s] = "whole"
        BY <3>1, <4>2 DEF Go
      <4>3. CASE manifest[s] = "damaged"
        BY <3>1, <4>3 DEF Go
      <4> QED
        BY <3>2, <4>1, <4>2, <4>3 DEF Doc
    <3>5. faults' = 0 => pc'[p] # "r_damaged"
      BY <1>3, <3>2, <3>4 DEF Unhurt
    <3>6. \A t \in todo'[p] : t < seen'[p]
      BY <1>2, <2>1, <3>3 DEF Restoring
    <3>7. ASSUME faults' = 0, NEW t \in Serials, s < t, t < seen[p] PROVE ~Complete(t)'
      <4>1. s \in Int /\ t \in Int
        BY <3>2, <3>7 DEF Serials
      <4>2. t \notin todo[p]
        BY <3>1, <3>7, <4>1
      <4> QED
        BY <1>2, <1>3, <1>4, <2>1, <3>7, <4>2 DEF Restoring
    <3> QED
      BY <2>1, <3>2, <3>3, <3>4, <3>5, <3>6, <3>7 DEF Restoring, Trying, Writing
  <2> QED
    BY <2>2, <2>3
<1>8. CASE readCachedBundle(p)
  <2>1. /\ pc[p] \in {"r_bundle", "r_damaged"}
        /\ seen'[p] = seen[p] /\ picked'[p] = picked[p] /\ todo'[p] = todo[p]
    BY <1>8 DEF readCachedBundle, local
  <2>2. picked[p] \in Serials /\ bundle[picked[p]] \in Doc
    BY <2>1 DEF Ready, Picking
  <2>3. /\ pc'[p] \in {"failed", "r_verify", "r_manifest"}
        /\ pc'[p] = "r_manifest" => pc[p] = "r_damaged" \/ bundle[picked[p]] = "damaged"
    <3>1. CASE bundle[picked[p]] = "none"
      BY <1>8, <3>1 DEF readCachedBundle, Go
    <3>2. CASE bundle[picked[p]] = "whole" /\ At(p, "r_bundle")
      BY <1>8, <3>2 DEF readCachedBundle, Go
    <3>3. CASE bundle[picked[p]] # "none" /\ ~(bundle[picked[p]] = "whole" /\ At(p, "r_bundle"))
      BY <1>8, <2>1, <2>2, <3>3 DEF readCachedBundle, Go, At, Doc
    <3> QED
      BY <3>1, <3>2, <3>3
  <2>4. faults' = 0 => pc'[p] # "r_manifest"
    BY <1>2, <1>3, <2>2, <2>3 DEF Unhurt, Restoring
  <2>5. \A t \in todo[p] : t < seen[p]
    BY <1>2, <2>1 DEF Restoring, Trying
  <2>6. picked[p] < seen[p]
    BY <1>2, <2>1 DEF Restoring, Trying
  <2>7. faults' = 0 => \A t \in Serials : picked[p] < t /\ t < seen[p] => ~Complete(t)'
    BY <1>2, <1>3, <1>4, <2>1 DEF Restoring, Trying
  <2> QED
    BY <2>1, <2>3, <2>4, <2>5, <2>6, <2>7 DEF Restoring, Trying, Writing
<1>9. CASE verifyCachedPack(p)
  <2>1. /\ pc[p] = "r_verify"
        /\ seen'[p] = seen[p] /\ picked'[p] = picked[p] /\ todo'[p] = todo[p]
    BY <1>9 DEF verifyCachedPack, At, local
  <2>2. /\ pc'[p] \in {"w_dir", "r_manifest"}
        /\ pc'[p] = "r_manifest" => faults' # 0
    BY <1>3, <1>9 DEF verifyCachedPack, Go, Fault
  <2>3. /\ \A t \in todo[p] : t < seen[p]
        /\ picked[p] < seen[p]
        /\ faults' = 0 => \A t \in Serials : picked[p] < t /\ t < seen[p] => ~Complete(t)'
    BY <1>2, <1>3, <1>4, <2>1 DEF Restoring, Trying
  <2> QED
    BY <2>1, <2>2, <2>3 DEF Restoring, Trying, Writing
<1> QED
  BY <1>5, <1>6, <1>7, <1>8, <1>9 DEF Rollback

\* Storing completes no pack but the one that is restored.
LEMMA RestoringStores ==
  ASSUME CacheInv, SoleInv, NEW p \in Procs, Restoring(p), Storing(p),
         faults' \in Nat, faults' >= faults
  PROVE  Restoring(p)'
<1> USE DEF CacheInv, TypeOK
<1>1. /\ pc[p] \in Writing
      /\ cmd'[p] = cmd[p] /\ seen'[p] = seen[p] /\ picked'[p] = picked[p] /\ todo'[p] = todo[p]
  BY DEF Storing, storeDir, storeManifest, storeBundle, storePointer, StoreFails, Store, At, Writing, local
<1>2. pc'[p] \in Writing \cup {"advance", "done", "failed"}
  BY DEF Storing, storeDir, storeManifest, storeBundle, storePointer, StoreFails, Go, Writing
<1>3. picked[p] \in Serials
  BY <1>1 DEF Ready, Picking, Writing
<1>4. \A t \in Serials : t # picked[p] => Complete(t)' = Complete(t)
  BY <1>3 DEF Storing, storeDir, storeManifest, storeBundle, storePointer, StoreFails, Complete, disk
<1>5. faults' = 0 => faults = 0
  BY ConstantsOK
<1>6. \A t \in Serials : picked[p] < t => t # picked[p]
  BY <1>3 DEF Serials
<1> QED
  BY <1>1, <1>2, <1>4, <1>5, <1>6 DEF Restoring, Trying, Writing

\* With one writer at a time no other command completes a pack while a rollback
\* looks for one.
LEMMA RestoreNext ==
  ASSUME OneWriter, RestoreInv, [Next]_vars
  PROVE  RestoreInv'
<1> USE DEF RestoreInv
<1>1. CacheInv' /\ SoleInv' /\ Unhurt' /\ Listed'
  BY CacheNext, SoleNext, UnhurtNext, ListedNext
<1>2. faults \in Nat /\ faults' \in Nat /\ faults' >= faults
  BY <1>1, FaultsGrow, ConstantsOK DEF CacheInv, TypeOK
<1> SUFFICES ASSUME NEW q \in Procs PROVE Restoring(q)'
  BY <1>1
<1>3. CASE UNCHANGED vars
  BY <1>2, <1>3, RestoringKept DEF vars, disk, local, Complete
<1>4. CASE Publish
  BY <1>2, <1>4, RestoringKept DEF Publish, disk, local, Complete
<1>5. ASSUME NEW s \in Serials, Damage(s) PROVE Restoring(q)'
  <2>1. \A t \in Serials : Complete(t)' => Complete(t)
    BY <1>5 DEF Damage, Complete, CacheInv, TypeOK
  <2> QED
    BY <1>2, <1>5, <2>1, RestoringKept DEF Damage, local
<1>6. ASSUME NEW p \in Procs,
             \/ \E c \in {"sync", "rollback", "gateway"} : Launch(p, c)
             \/ Exit(p) \/ Crash(p)
             \/ Sync(p) \/ loadCache(p) \/ Rollback(p) \/ Storing(p)
      PROVE  Restoring(q)'
  <2> USE DEF CacheInv, TypeOK
  <2>1. CASE p = q
    <3>1. CASE Exit(p) \/ Crash(p)
      BY <2>1, <3>1 DEF Exit, Crash, Reset, Restoring
    <3>2. CASE \E c \in {"sync", "rollback", "gateway"} : Launch(p, c)
      <4>1. pc'[p] \in {"fetch", "r_pointer", "l_pointer"}
        BY <3>2 DEF Launch, Go, First
      <4> QED
        BY <2>1, <4>1 DEF Restoring, Trying, Writing
    <3>3. CASE Sync(p) \/ loadCache(p)
      <4>1. /\ pc[p] \in {"fetch", "bundle", "replay", "advance"} \cup Loading
            /\ UNCHANGED cmd
        BY <3>3 DEF Sync, fallback, Reject, Gate, accept, replay, Advance, loadCache, loadPointer,
                    loadManifest, loadBundle, LoadFails, At, Loading, local
      <4>2. cmd[p] # "rollback"
        BY <4>1 DEF SoleInv, Sole, Route, Loading, Writing
      <4> QED
        BY <2>1, <4>1, <4>2 DEF Restoring
    <3>4. CASE Rollback(p)
      BY <1>2, <2>1, <3>4, RestoringSearch
    <3>5. CASE Storing(p)
      BY <1>2, <2>1, <3>5, RestoringStores
    <3> QED
      BY <1>6, <3>1, <3>2, <3>3, <3>4, <3>5
  <2>2. CASE p # q /\ cmd[q] = "rollback"
    <3>1. p \in Gateways
      BY <2>2 DEF SoleInv, Sole, Commands, OneWriter, Procs
    <3>2. pc[p] \in Route["gateway"]
      BY <3>1 DEF SoleInv, Sole, Commands
    <3>3. ~Sync(p) /\ ~Rollback(p) /\ ~Storing(p)
      BY <3>2 DEF Sync, fallback, Reject, Gate, accept, replay, Advance, Rollback, readActive,
                  cachedPackSerials, readCachedManifest, readCachedBundle, verifyCachedPack,
                  RollbackFails, Storing, storeDir, storeManifest, storeBundle, storePointer,
                  StoreFails, Store, At, Route, Loading
    <3>4. /\ UNCHANGED <<manifest, bundle>>
          /\ cmd'[q] = cmd[q] /\ pc'[q] = pc[q] /\ seen'[q] = seen[q]
          /\ picked'[q] = picked[q] /\ todo'[q] = todo[q]
      <4>1. CASE Exit(p) \/ Crash(p) \/ \E c \in {"sync", "rollback", "gateway"} : Launch(p, c)
        BY <2>2, <4>1 DEF Exit, Crash, Reset, Launch, Go, disk
      <4>2. CASE loadCache(p)
        BY <2>2, <4>2 DEF loadCache, loadPointer, loadManifest, loadBundle, LoadFails, Go, disk, local
      <4> QED
        BY <1>6, <3>3, <4>1, <4>2
    <3> QED
      BY <1>2, <3>4, RestoringKept DEF Complete
  <2>3. CASE p # q /\ cmd[q] # "rollback"
    <3>1. cmd'[q] = cmd[q]
      <4>1. CASE Exit(p) \/ Crash(p) \/ \E c \in {"sync", "rollback", "gateway"} : Launch(p, c)
        BY <2>3, <4>1 DEF Exit, Crash, Reset, Launch
      <4>2. CASE Sync(p) \/ loadCache(p) \/ Rollback(p) \/ Storing(p)
        BY <4>2 DEF Sync, fallback, Reject, Gate, accept, replay, Advance, loadCache, loadPointer,
                    loadManifest, loadBundle, LoadFails, Rollback, readActive, cachedPackSerials,
                    readCachedManifest, readCachedBundle, verifyCachedPack, RollbackFails, Storing,
                    storeDir, storeManifest, storeBundle, storePointer, StoreFails, Store, local
      <4> QED
        BY <1>6, <4>1, <4>2
    <3> QED
      BY <2>3, <3>1 DEF Restoring
  <2> QED
    BY <2>1, <2>2, <2>3
<1> QED
  BY <1>3, <1>4, <1>5, <1>6 DEF Next

\* With one writer at a time a rollback restores the highest older pack that is
\* complete: a candidate is skipped only because it is not whole or a call
\* failed, and never because of a crash.
THEOREM RollbackRestoresPrevious ==
  ASSUME OneWriter PROVE Spec => []RestoresPrevious
<1>1. Init => RestoreInv
  <2> SUFFICES ASSUME Init PROVE Unhurt /\ Listed /\ \A p \in Procs : Restoring(p)
    BY CacheInit, SoleInit DEF RestoreInv
  <2> QED
    BY DEF Init, Unhurt, Trusted, Complete, Listed, Restoring, Trying, Writing
<1>2. RestoreInv /\ [Next]_vars => RestoreInv'
  BY RestoreNext
<1>3. RestoreInv => RestoresPrevious
  BY DEF RestoreInv, Restoring, Trying, Writing, RestoresPrevious, Procs
<1> QED
  BY <1>1, <1>2, <1>3, PTL DEF Spec
=============================================================================
