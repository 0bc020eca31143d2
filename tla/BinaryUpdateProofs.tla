------------------------- MODULE BinaryUpdateProofs -------------------------
(***************************************************************************)
(* What the update and its repair guarantee when the commands of one       *)
(* install do not overlap, for every number of serials, every number of    *)
(* failing calls, crashes anywhere, any feed, a target that may vanish     *)
(* between commands, and images loaded from wherever one is left.          *)
(***************************************************************************)
EXTENDS BinaryUpdate, TLAPS

\* Commands do not overlap: there is one slot to run them in.
Sole == \A p, q \in Procs : p = q

\* Labels reached only through a Stat or a rename that found the target gone,
\* or left it there.
TargetGone ==
  {"r_backup", "r_revive", "j_backup", "j_rollback", "f_install", "f_lost", "f_kept", "f_restore"}
TargetHere ==
  {"r_candidate", "r_discard", "r_scrub", "recovered", "f_backup", "unjournal",
   "fill", "place", "journal", "advance", "done"}

Located ==
  \A p \in Procs : /\ pc[p] \in TargetGone => fs["target"] = Absent
                   /\ pc[p] \in TargetHere => fs["target"] # Absent

SafeInv == TypeOK /\ Recoverable /\ Located

-----------------------------------------------------------------------------

\* Whatever rename is attempted, its two paths are two different files, and
\* its destination is the target or the backup.
LEMMA RenameOverPaths ==
  ASSUME NEW l \in Renames
  PROVE  /\ RenameOver[l].src \in Files
         /\ RenameOver[l].dst \in {"target", "backup"}
         /\ RenameOver[l].src # RenameOver[l].dst
         /\ RenameOver[l].ok \in Labels
         /\ RenameOver[l].fail \in Labels
BY DEF Renames, RenameOver, Files, Labels

\* The type invariant holds initially.
LEMMA TypeInit == Init => TypeOK
<1> SUFFICES ASSUME Init PROVE TypeOK
  OBVIOUS
<1>1. 0 \in Builds /\ 0 \in 0 .. MaxFaults
  BY ConstantsOK DEF Builds
<1> QED
  BY <1>1 DEF Init, TypeOK, Labels, Files

\* Every step of every command keeps the type invariant.
LEMMA TypeNext == TypeOK /\ [Next]_vars => TypeOK'
<1> SUFFICES ASSUME TypeOK, [Next]_vars PROVE TypeOK'
  OBVIOUS
<1> USE ConstantsOK DEF TypeOK
<1>0. 0 \in Builds
  BY DEF Builds
<1>1. CASE Publish
  BY <1>1 DEF Publish, local, Builds
<1>2. CASE Vanish
  BY <1>2 DEF Vanish, local, Write, Files
<1>3. ASSUME NEW p \in Procs, NEW c \in {"run", "update"}, Launch(p, c) PROVE TypeOK'
  <2>1. Images \subseteq Builds
    BY DEF Images, Runnable
  <2> QED
    BY <1>0, <1>3, <2>1 DEF Launch, Go, Labels
<1>4. ASSUME NEW p \in Procs, Exit(p) \/ Crash(p) PROVE TypeOK'
  BY <1>0, <1>4 DEF Exit, Crash, Reset, Go, Labels
<1>5. ASSUME NEW p \in Procs, NEW l, NEW cond \in BOOLEAN, NEW yes \in Labels, NEW no \in Labels,
             Stat(p, l, cond, yes, no)
      PROVE  TypeOK'
  BY <1>5 DEF Stat, Go, local
<1>6. ASSUME NEW p \in Procs, Repair(p) PROVE TypeOK'
  <2>1. CASE recover(p)
    BY <1>5, <2>1 DEF recover, Labels, Renames, Exists
  <2>2. CASE recoverJournaled(p)
    BY <1>5, <2>2 DEF recoverJournaled, Labels, Renames, Exists
  <2>3. CASE DiscardCandidate(p)
    BY <2>3 DEF DiscardCandidate, Write, NoFault, Fault, Go, local, Labels, Files
  <2> QED
    BY <1>6, <2>1, <2>2, <2>3 DEF Repair
<1>7. ASSUME NEW p \in Procs, Commit(p) PROVE TypeOK'
  <2>1. CASE finishCommit(p)
    BY <1>5, <2>1 DEF finishCommit, Labels, Renames, Exists
  <2>2. CASE restoreBackup(p)
    BY <1>5, <2>2 DEF restoreBackup, Labels, Renames, Exists
  <2>3. CASE removeJournal(p)
    BY <2>3 DEF removeJournal, Write, Exists, NoFault, Fault, Go, local, Labels, Files
  <2> QED
    BY <1>7, <2>1, <2>2, <2>3 DEF Commit
<1>8. ASSUME NEW p \in Procs, Renaming(p) PROVE TypeOK'
  <2>0. pc[p] \in Renames
    BY <1>8 DEF Renaming, RenameSucceeds, RenameFails, UnlinkDst, UnlinkDstFails
  <2> DEFINE r == RenameOver[pc[p]]
  <2>1. r.src \in Files /\ r.dst \in Files /\ r.ok \in Labels /\ r.fail \in Labels
    BY <2>0, RenameOverPaths DEF Files
  <2> HIDE DEF r
  <2>2. CASE RenameSucceeds(p)
    BY <2>1, <2>2 DEF RenameSucceeds, Exists, Go, r
  <2>3. CASE RenameFails(p)
    BY <2>1, <2>3 DEF RenameFails, Exists, Go, NoFault, Fault, r
  <2>4. CASE UnlinkDst(p)
    BY <2>1, <2>4 DEF UnlinkDst, Write, r
  <2>5. CASE UnlinkDstFails(p)
    BY <2>1, <2>5 DEF UnlinkDstFails, Go, Fault, r
  <2> QED
    BY <1>8, <2>2, <2>3, <2>4, <2>5 DEF Renaming
<1>9. ASSUME NEW p \in Procs, selfUpdate(p) PROVE TypeOK'
  <2>1. CASE Refuse(p) \/ UpToDate(p)
    <3>1. Go(p, "failed") \/ Go(p, "done")
      BY <2>1 DEF Refuse, UpToDate
    <3>2. UNCHANGED <<fs, mark, published, faults, local>>
      BY <2>1 DEF Refuse, UpToDate
    <3> QED
      BY <3>1, <3>2 DEF Go, local, Labels
  <2>2. CASE Accept(p)
    <3>1. Served \subseteq Builds
      BY DEF Served, Builds
    <3> QED
      BY <2>2, <3>1 DEF Accept, Go, Labels
  <2>3. CASE FillTemp(p)
    <3>1. CASE Go(p, "place") /\ NoFault
      BY <2>3, <3>1 DEF FillTemp, NoFault, Go, local, Labels
    <3>2. CASE Go(p, "failed") /\ Fault
      BY <2>3, <3>2 DEF FillTemp, Fault, Go, local, Labels
    <3> QED
      BY <2>3, <3>1, <3>2 DEF FillTemp
  <2>4. CASE stageCandidate(p)
    BY <2>4 DEF stageCandidate, Write, NoFault, Fault, Go, local, Labels, Files
  <2>5. CASE writeJournal(p)
    BY <2>5 DEF writeJournal, Write, NoFault, Fault, Go, local, Labels, Files
  <2>6. CASE Advance(p)
    BY <2>6 DEF Advance, NoFault, Fault, Go, local, Labels
  <2> QED
    BY <1>9, <2>1, <2>2, <2>3, <2>4, <2>5, <2>6 DEF selfUpdate
<1>10. CASE UNCHANGED vars
  BY <1>10 DEF vars, local
<1> QED
  BY <1>1, <1>2, <1>3, <1>4, <1>6, <1>7, <1>8, <1>9, <1>10 DEF Next

\* Every file holds a whole build or nothing in every reachable state, however
\* many commands overlap.
THEOREM TypeCorrect == Spec => []TypeOK
BY TypeInit, TypeNext, PTL DEF Spec

-----------------------------------------------------------------------------

\* Two commands that do not overlap are one command: what a step changes for p
\* it changes for every slot there is.
LEMMA OnlySlot ==
  ASSUME Sole, TypeOK, NEW p \in Procs, NEW l, Go(p, l)
  PROVE  \A q \in Procs : pc'[q] = l
BY DEF Sole, TypeOK, Go

\* The install starts with its one build at the target, no command running.
LEMMA SafeInit == Init => SafeInv
<1> SUFFICES ASSUME Init PROVE SafeInv
  OBVIOUS
<1>1. Recoverable
  BY ConstantsOK DEF Init, Recoverable, Runnable, Builds, Files
<1>2. Located
  BY DEF Init, Located, TargetGone, TargetHere
<1> QED
  BY <1>1, <1>2, TypeInit DEF SafeInv

\* Where a command goes after a Stat or a failing call agrees with what it
\* found at the target, as long as the files themselves did not change.
LEMMA SafeMove ==
  ASSUME Sole, SafeInv, NEW p \in Procs, NEW l, Go(p, l), UNCHANGED fs,
         l \in TargetGone => fs["target"] = Absent,
         l \in TargetHere => fs["target"] # Absent
  PROVE  Recoverable' /\ Located'
<1>1. \A q \in Procs : pc'[q] = l
  BY OnlySlot DEF SafeInv
<1>2. Recoverable'
  BY DEF SafeInv, Recoverable, Runnable
<1> QED
  BY <1>1, <1>2 DEF Located

\* A write to the candidate or to the journal moves neither binary.
LEMMA SafeWrite ==
  ASSUME Sole, SafeInv, NEW p \in Procs, NEW l, Go(p, l),
         NEW f \in {"candidate", "journal"}, NEW c, Write(f, c),
         l \in TargetGone => fs["target"] = Absent,
         l \in TargetHere => fs["target"] # Absent
  PROVE  Recoverable' /\ Located'
<1>1. \A q \in Procs : pc'[q] = l
  BY OnlySlot DEF SafeInv
<1>2. fs'["target"] = fs["target"] /\ fs'["backup"] = fs["backup"]
  BY DEF Write, SafeInv, TypeOK, Files
<1>3. Recoverable'
  BY <1>2 DEF SafeInv, Recoverable, Runnable
<1> QED
  BY <1>1, <1>2, <1>3 DEF Located

\* The renames are where a binary could be lost: the destination that is
\* removed before a retry is never the only whole build, because the command
\* found the source of the rename in place and no one else moves it.
LEMMA SafeRenaming ==
  ASSUME Sole, SafeInv, NEW p \in Procs, Renaming(p)
  PROVE  Recoverable' /\ Located'
<1> USE DEF SafeInv
<1>0. pc[p] \in Renames
  BY DEF Renaming, RenameSucceeds, RenameFails, UnlinkDst, UnlinkDstFails
<1>1. CASE RenameSucceeds(p)
  <2> DEFINE r == RenameOver[pc[p]]
  <2>1. /\ fs' = [fs EXCEPT ![r.dst] = fs[r.src], ![r.src] = Absent]
        /\ fs[r.src] # Absent /\ Go(p, r.ok)
    BY <1>1 DEF RenameSucceeds, Exists
  <2>2. fs[r.src] \in Builds /\ r.src \in Files /\ r.dst \in Files /\ r.src # r.dst
    BY <1>0, <2>1, RenameOverPaths DEF TypeOK, Files
  <2>3. fs'[r.dst] \in Builds
    BY <2>1, <2>2 DEF TypeOK
  <2>4. Recoverable'
    BY <1>0, <2>3, RenameOverPaths DEF Recoverable, Runnable
  <2>5. \A q \in Procs : pc'[q] = r.ok
    BY <2>1, OnlySlot
  <2>6. CASE pc[p] = "f_backup"
    <3>1. r.ok = "f_install" /\ r.src = "target" /\ r.dst = "backup"
      BY <2>6 DEF RenameOver
    <3>2. fs'["target"] = Absent
      BY <2>1, <3>1 DEF TypeOK, Files
    <3> QED
      BY <2>4, <2>5, <3>1, <3>2 DEF Located, TargetGone, TargetHere
  <2>7. CASE pc[p] # "f_backup"
    <3>1. r.dst = "target" /\ r.ok \in {"unjournal", "failed", "r_scrub"}
      BY <1>0, <2>7 DEF RenameOver, Renames
    <3>2. fs'["target"] # Absent
      BY <2>3, <3>1, ConstantsOK
    <3> QED
      BY <2>4, <2>5, <3>1, <3>2 DEF Located, TargetGone, TargetHere
  <2> QED
    BY <2>6, <2>7
<1>2. CASE UnlinkDst(p)
  <2> DEFINE d == RenameOver[pc[p]].dst
  <2>1. fs' = [fs EXCEPT ![d] = Absent] /\ UNCHANGED pc
    BY <1>2 DEF UnlinkDst, Write
  <2>2. CASE pc[p] = "f_backup"
    <3>1. d = "backup"
      BY <2>2 DEF RenameOver
    <3>2. fs["target"] # Absent
      BY <2>2 DEF Located, TargetHere
    <3>3. fs'["target"] = fs["target"] /\ fs["target"] \in Builds
      BY <2>1, <3>1, <3>2 DEF TypeOK, Files
    <3> QED
      BY <2>1, <3>3 DEF Recoverable, Runnable, Located
  <2>3. CASE pc[p] # "f_backup"
    <3>1. d = "target"
      BY <1>0, <2>3 DEF RenameOver, Renames
    <3>2. fs["target"] = Absent
      BY <1>0, <2>3 DEF Located, TargetGone, Renames
    <3>3. fs' = fs
      BY <2>1, <3>1, <3>2 DEF TypeOK, Files
    <3> QED
      BY <2>1, <3>3 DEF Recoverable, Runnable, Located
  <2> QED
    BY <2>2, <2>3
<1>3. CASE RenameFails(p) \/ UnlinkDstFails(p)
  <2>1. UNCHANGED fs
    BY <1>3 DEF RenameFails, UnlinkDstFails
  <2>2. UNCHANGED pc \/ Go(p, RenameOver[pc[p]].fail)
    BY <1>3 DEF RenameFails, UnlinkDstFails
  <2>3. CASE UNCHANGED pc
    BY <2>1, <2>3 DEF Recoverable, Runnable, Located
  <2>4. CASE Go(p, RenameOver[pc[p]].fail)
    <3>1. /\ RenameOver[pc[p]].fail \in {"failed", "f_lost"}
          /\ RenameOver[pc[p]].fail = "f_lost" => pc[p] = "f_install"
      BY <1>0 DEF RenameOver, Renames
    <3>2. RenameOver[pc[p]].fail \in TargetGone => fs["target"] = Absent
      BY <3>1 DEF Located, TargetGone
    <3>3. RenameOver[pc[p]].fail \notin TargetHere
      BY <3>1 DEF TargetHere
    <3> QED
      BY <2>1, <2>4, <3>2, <3>3, SafeMove
  <2> QED
    BY <2>2, <2>3, <2>4
<1> QED
  BY <1>1, <1>2, <1>3 DEF Renaming

\* Every other call reads, or writes only the candidate, the journal, the mark
\* or a local variable, and goes where the target it found allows.
LEMMA SafeStat ==
  ASSUME Sole, SafeInv, NEW p \in Procs, NEW l, NEW cond \in BOOLEAN, NEW yes, NEW no,
         Stat(p, l, cond, yes, no),
         cond  => /\ yes \in TargetGone => fs["target"] = Absent
                  /\ yes \in TargetHere => fs["target"] # Absent,
         ~cond => /\ no \in TargetGone => fs["target"] = Absent
                  /\ no \in TargetHere => fs["target"] # Absent
  PROVE  Recoverable' /\ Located'
<1>1. CASE cond
  <2>1. Go(p, yes) /\ UNCHANGED fs
    BY <1>1 DEF Stat
  <2> QED
    BY <1>1, <2>1, SafeMove
<1>2. CASE ~cond
  <2>1. Go(p, no) /\ UNCHANGED fs
    BY <1>2 DEF Stat
  <2> QED
    BY <1>2, <2>1, SafeMove
<1> QED
  BY <1>1, <1>2

\* The startup repair (recover, recoverJournaled and the candidate's removal)
\* keeps a whole build at the target or at the backup.
LEMMA SafeRepair ==
  ASSUME Sole, SafeInv, NEW p \in Procs, Repair(p)
  PROVE  Recoverable' /\ Located'
<1> USE DEF SafeInv, TargetGone, TargetHere
<1>1. CASE recover(p)
  <2>1. CASE Stat(p, "r_journal", Exists("journal"), "j_candidate", "r_target")
    BY <2>1, SafeStat DEF Exists
  <2>2. CASE Stat(p, "r_target", Exists("target"), "r_candidate", "r_backup")
    BY <2>2, SafeStat DEF Exists
  <2>3. CASE Stat(p, "r_backup", Exists("backup"), "r_revive", "r_candidate")
    <3>1. fs["target"] = Absent
      BY <2>3 DEF Stat, At, Located
    <3>2. fs["backup"] # Absent
      BY <3>1, ConstantsOK DEF Recoverable, Runnable
    <3> QED
      BY <2>3, <3>1, <3>2, SafeStat DEF Exists
  <2>4. CASE Stat(p, "r_candidate", Exists("candidate"), "r_discard", "recovered")
    <3>1. fs["target"] # Absent
      BY <2>4 DEF Stat, At, Located
    <3> QED
      BY <2>4, <3>1, SafeStat DEF Exists
  <2> QED
    BY <1>1, <2>1, <2>2, <2>3, <2>4 DEF recover
<1>2. CASE recoverJournaled(p)
  <2>1. CASE Stat(p, "j_candidate", Exists("candidate"), "f_target", "j_target")
    BY <2>1, SafeStat DEF Exists
  <2>2. CASE Stat(p, "j_target", Exists("target"), "unjournal", "j_backup")
    BY <2>2, SafeStat DEF Exists
  <2>3. CASE Stat(p, "j_backup", Exists("backup"), "j_rollback", "failed")
    <3>1. fs["target"] = Absent
      BY <2>3 DEF Stat, At, Located
    <3> QED
      BY <2>3, <3>1, SafeStat DEF Exists
  <2> QED
    BY <1>2, <2>1, <2>2, <2>3 DEF recoverJournaled
<1>3. CASE DiscardCandidate(p)
  <2>1. fs["target"] # Absent
    BY <1>3 DEF DiscardCandidate, Located
  <2>2. CASE Write("candidate", Absent) /\ Go(p, "recovered")
    BY <2>1, <2>2, SafeWrite
  <2>3. CASE UNCHANGED fs /\ (Go(p, "recovered") \/ Go(p, "failed"))
    BY <2>1, <2>3, SafeMove
  <2> QED
    BY <1>3, <2>2, <2>3 DEF DiscardCandidate
<1> QED
  BY <1>1, <1>2, <1>3 DEF Repair

\* finishCommit, restoreBackup and removeJournal keep a whole build at the
\* target or at the backup.
LEMMA SafeCommit ==
  ASSUME Sole, SafeInv, NEW p \in Procs, Commit(p)
  PROVE  Recoverable' /\ Located'
<1> USE DEF SafeInv, TargetGone, TargetHere
<1>1. CASE finishCommit(p)
  BY <1>1, SafeStat DEF finishCommit, Exists
<1>2. CASE restoreBackup(p)
  <2>1. CASE Stat(p, "f_lost", Exists("target"), "failed", "f_kept")
    BY <2>1, SafeStat DEF Exists
  <2>2. CASE Stat(p, "f_kept", Exists("backup"), "f_restore", "failed")
    <3>1. fs["target"] = Absent
      BY <2>2 DEF Stat, At, Located
    <3> QED
      BY <2>2, <3>1, SafeStat DEF Exists
  <2> QED
    BY <1>2, <2>1, <2>2 DEF restoreBackup
<1>3. CASE removeJournal(p)
  <2>1. fs["target"] # Absent
    BY <1>3 DEF removeJournal, At, Located
  <2>2. Go(p, "recovered") \/ Go(p, "advance")
    BY <1>3 DEF removeJournal
  <2>3. CASE Write("journal", Absent)
    BY <2>1, <2>2, <2>3, SafeWrite
  <2>4. CASE UNCHANGED fs
    BY <2>1, <2>2, <2>4, SafeMove
  <2> QED
    BY <1>3, <2>3, <2>4 DEF removeJournal
<1> QED
  BY <1>1, <1>2, <1>3 DEF Commit

\* The fetch, the staging, the journal and the mark of "tokenhush update" keep
\* the target: the repair it began with left one, and none of them touches it.
LEMMA SafeUpdate ==
  ASSUME Sole, SafeInv, NEW p \in Procs, selfUpdate(p)
  PROVE  Recoverable' /\ Located'
<1> USE DEF SafeInv, TargetGone, TargetHere
<1>1. fs["target"] # Absent
  BY DEF selfUpdate, Refuse, UpToDate, Accept, FillTemp, stageCandidate, writeJournal, Advance,
         At, Located
<1>2. CASE Refuse(p) \/ UpToDate(p) \/ Accept(p) \/ FillTemp(p) \/ Advance(p)
  <2>1. UNCHANGED fs
    BY <1>2 DEF Refuse, UpToDate, Accept, FillTemp, Advance
  <2>2. \E l \in {"failed", "done", "fill", "place"} : Go(p, l)
    BY <1>2 DEF Refuse, UpToDate, Accept, FillTemp, Advance
  <2> QED
    BY <1>1, <2>1, <2>2, SafeMove
<1>3. CASE stageCandidate(p)
  <2>1. CASE Write("candidate", picked[p]) /\ Go(p, "journal")
    BY <1>1, <2>1, SafeWrite
  <2>2. CASE UNCHANGED fs /\ Go(p, "failed")
    BY <2>2, SafeMove
  <2> QED
    BY <1>3, <2>1, <2>2 DEF stageCandidate
<1>4. CASE writeJournal(p)
  <2>1. CASE Write("journal", picked[p]) /\ Go(p, "f_target")
    BY <2>1, SafeWrite
  <2>2. CASE UNCHANGED fs /\ Go(p, "failed")
    BY <2>2, SafeMove
  <2> QED
    BY <1>4, <2>1, <2>2 DEF writeJournal
<1> QED
  BY <1>2, <1>3, <1>4 DEF selfUpdate

\* Every step keeps the inductive invariant while commands do not overlap.
LEMMA SafeNext == Sole /\ SafeInv /\ [Next]_vars => SafeInv'
<1> SUFFICES ASSUME Sole, SafeInv, [Next]_vars PROVE Recoverable' /\ Located'
  BY TypeNext DEF SafeInv
<1> USE DEF SafeInv
<1>1. CASE Publish \/ UNCHANGED vars
  <2>1. UNCHANGED <<fs, pc>>
    BY <1>1 DEF Publish, vars
  <2> QED
    BY <2>1 DEF Recoverable, Runnable, Located
<1>2. CASE Vanish
  <2>1. fs["backup"] \in Builds
    BY <1>2 DEF Vanish, Exists, TypeOK, Files
  <2>2. fs'["backup"] = fs["backup"] /\ UNCHANGED pc
    BY <1>2 DEF Vanish, Write, TypeOK, Files
  <2>3. \A p \in Procs : pc[p] = "idle"
    BY <1>2 DEF Vanish, At
  <2> QED
    BY <2>1, <2>2, <2>3 DEF Recoverable, Runnable, Located, TargetGone, TargetHere
<1>3. ASSUME NEW p \in Procs, NEW c \in {"run", "update"}, Launch(p, c)
      PROVE  Recoverable' /\ Located'
  <2>1. Go(p, "r_journal") /\ UNCHANGED fs
    BY <1>3 DEF Launch
  <2> QED
    BY <2>1, SafeMove DEF TargetGone, TargetHere
<1>4. ASSUME NEW p \in Procs, Exit(p) \/ Crash(p)
      PROVE  Recoverable' /\ Located'
  <2>1. Go(p, "idle") /\ UNCHANGED fs
    BY <1>4 DEF Exit, Crash, Reset
  <2> QED
    BY <2>1, SafeMove DEF TargetGone, TargetHere
<1> QED
  BY <1>1, <1>2, <1>3, <1>4, SafeRepair, SafeCommit, SafeRenaming, SafeUpdate DEF Next

\* While commands do not overlap, a whole build is always left where recovery
\* looks for one, whatever call a command dies before and whatever calls fail.
THEOREM NeverWithoutABuild == Sole => (Spec => []Recoverable)
<1> SUFFICES ASSUME Sole PROVE Spec => []Recoverable
  OBVIOUS
<1>1. SafeInv /\ [Next]_vars => SafeInv'
  BY SafeNext
<1>2. SafeInv => Recoverable
  BY DEF SafeInv
<1> QED
  BY SafeInit, <1>1, <1>2, PTL DEF Spec

\* While commands do not overlap, a repair that returns without an error has
\* left a whole build at the target.
THEOREM RepairLeavesABuild == Sole => (Spec => []RepairedRuns)
<1> SUFFICES ASSUME Sole PROVE Spec => []RepairedRuns
  OBVIOUS
<1>1. SafeInv /\ [Next]_vars => SafeInv'
  BY SafeNext
<1>2. SafeInv => RepairedRuns
  BY DEF SafeInv, TypeOK, Located, TargetHere, RepairedRuns, Runnable, At, Files
<1> QED
  BY SafeInit, <1>1, <1>2, PTL DEF Spec

-----------------------------------------------------------------------------
(* The journal, the candidate and the mark.  What the files hold at each call *)
(* is what makes the four of them behave as one variable.                    *)

Scanning == {"r_target", "r_backup", "r_revive", "r_candidate", "r_discard", "r_scrub"}
Emptied  == {"j_target", "j_backup", "j_rollback", "unjournal", "advance"}
Swapping == {"f_target", "f_backup", "f_install", "f_lost", "f_kept", "f_restore"}
Choosing == {"recovered", "fill", "place"}
Early    == {"idle", "r_journal", "j_candidate", "j_target", "j_backup", "j_rollback", "recovered"}
              \cup Scanning
Ended    == {"done", "failed"}

\* A target that is gone was moved away under a journal, with its successor
\* staged.
Journaled == fs["target"] = Absent => Exists("journal") /\ Exists("candidate")

\* Every build on disk was published.
Known == \A f \in {"target", "candidate", "backup"} : Exists(f) => fs[f] <= published

\* What a command at call l knows of the journal and the candidate.
PlacedAt(l) ==
  /\ l \in Scanning => ~Exists("journal")
  /\ l = "j_candidate" => Exists("journal")
  /\ l \in Emptied  => ~Exists("candidate")
  /\ l \in Swapping => Exists("journal") /\ Exists("candidate")
  /\ l \in Choosing => ~Exists("journal") \/ ~Exists("candidate")

Placed == \A p \in Procs : PlacedAt(pc[p])

\* What p is committing when it is at call l, and where that is on disk.
PickedAt(p, l) ==
  /\ picked[p] <= published
  /\ l \in Early => picked[p] = 0
  /\ l \in {"fill", "place", "journal", "advance"} => picked[p] # 0
  /\ picked[p] # 0 /\ l \notin Ended => mark < picked[p]
  /\ picked[p] # 0 /\ l \in Swapping \cup {"journal"} => fs["candidate"] = picked[p]
  /\ picked[p] # 0 /\ l \in {"unjournal", "advance"} => fs["target"] = picked[p]
  /\ cmd[p] = "update" /\ l \notin Ended \cup {"idle"} => loaded[p] = mark

Picked == \A p \in Procs : PickedAt(p, pc[p])

CommitInv == SafeInv /\ Journaled /\ Known /\ Placed /\ Picked /\ MarkCovered

\* The three things a step can be for the install and its mark: nothing, the
\* switch to the build a command picked, or the record of the installed build.
Still    == mark' = mark /\ Effective' = Effective
Switched == \E p \in Procs : /\ pc[p] \in {"place", "journal"}
                             /\ mark' = mark
                             /\ Effective' = picked[p]
Recorded == mark < Effective /\ mark' = Effective /\ Effective' = Effective

CommitStep ==
  /\ Journaled' /\ Known' /\ Placed' /\ Picked'
  /\ Still \/ Switched \/ Recorded

\* The install starts as build 0, with nothing staged and no mark.
LEMMA CommitInit == Init => CommitInv
<1> SUFFICES ASSUME Init PROVE CommitInv
  OBVIOUS
<1>1. /\ fs["target"] = 0 /\ 0 \in Builds /\ 0 # Absent
      /\ \A f \in {"candidate", "backup", "journal"} : fs[f] = Absent
  BY ConstantsOK DEF Init, Files, Builds
<1>2. Journaled /\ Known
  BY <1>1 DEF Init, Journaled, Known, Exists
<1>3. Placed /\ Picked
  BY <1>1 DEF Init, Placed, PlacedAt, Picked, PickedAt, Exists, Scanning, Emptied, Swapping,
              Choosing, Early, Ended
<1>4. MarkCovered
  BY <1>1 DEF Init, MarkCovered, Effective, Exists
<1> QED
  BY <1>2, <1>3, <1>4, SafeInit DEF CommitInv

\* A call that changes none of the four files leaves the install as it is; the
\* invariant holds after it when it holds of the call p goes to.
LEMMA CommitMove ==
  ASSUME Sole, CommitInv, NEW p \in Procs, NEW l, Go(p, l),
         UNCHANGED <<fs, mark, published, cmd, loaded, picked>>,
         PlacedAt(l), PickedAt(p, l)
  PROVE  CommitStep
<1>1. \A q \in Procs : q = p /\ pc'[q] = l
  BY OnlySlot DEF CommitInv, SafeInv, Sole
<1>2. Journaled' /\ Known'
  BY DEF CommitInv, Journaled, Known, Exists
<1>3. Placed'
  BY <1>1 DEF Placed, PlacedAt, Exists
<1>4. Picked'
  BY <1>1 DEF Picked, PickedAt
<1>5. Still
  BY DEF Still, Effective, Exists
<1> QED
  BY <1>2, <1>3, <1>4, <1>5 DEF CommitStep

\* A Stat goes where its condition says.
LEMMA CommitStat ==
  ASSUME Sole, CommitInv, NEW p \in Procs, NEW l, NEW cond \in BOOLEAN, NEW yes, NEW no,
         Stat(p, l, cond, yes, no),
         cond  => PlacedAt(yes) /\ PickedAt(p, yes),
         ~cond => PlacedAt(no) /\ PickedAt(p, no)
  PROVE  CommitStep
<1>1. UNCHANGED <<fs, mark, published, cmd, loaded, picked>>
  BY DEF Stat, local
<1>2. CASE cond
  <2>1. Go(p, yes)
    BY <1>2 DEF Stat
  <2> QED
    BY <1>1, <1>2, <2>1, CommitMove
<1>3. CASE ~cond
  <2>1. Go(p, no)
    BY <1>3 DEF Stat
  <2> QED
    BY <1>1, <1>3, <2>1, CommitMove
<1> QED
  BY <1>2, <1>3

\* recover and recoverJournaled read the files and change none.
LEMMA CommitRecover ==
  ASSUME Sole, CommitInv, NEW p \in Procs, recover(p) \/ recoverJournaled(p)
  PROVE  CommitStep
<1> USE DEF PlacedAt, PickedAt, Scanning, Emptied, Swapping, Choosing, Early, Ended
<1>1. PlacedAt(pc[p]) /\ PickedAt(p, pc[p])
  BY DEF CommitInv, Placed, Picked
<1>2. CASE Stat(p, "r_journal", Exists("journal"), "j_candidate", "r_target")
  BY <1>1, <1>2, CommitStat DEF Stat, At, Exists
<1>3. CASE Stat(p, "r_target", Exists("target"), "r_candidate", "r_backup")
  BY <1>1, <1>3, CommitStat DEF Stat, At, Exists
<1>4. CASE Stat(p, "r_backup", Exists("backup"), "r_revive", "r_candidate")
  BY <1>1, <1>4, CommitStat DEF Stat, At, Exists
<1>5. CASE Stat(p, "r_candidate", Exists("candidate"), "r_discard", "recovered")
  BY <1>1, <1>5, CommitStat DEF Stat, At, Exists
<1>6. CASE Stat(p, "j_candidate", Exists("candidate"), "f_target", "j_target")
  BY <1>1, <1>6, CommitStat DEF Stat, At, Exists
<1>7. CASE Stat(p, "j_target", Exists("target"), "unjournal", "j_backup")
  BY <1>1, <1>7, CommitStat DEF Stat, At, Exists
<1>8. CASE Stat(p, "j_backup", Exists("backup"), "j_rollback", "failed")
  BY <1>1, <1>8, CommitStat DEF Stat, At, Exists
<1> QED
  BY <1>2, <1>3, <1>4, <1>5, <1>6, <1>7, <1>8 DEF recover, recoverJournaled

\* Two files that are read together, written apart.
LEMMA CommitWrite ==
  ASSUME CommitInv, NEW f \in Files, NEW c, Write(f, c)
  PROVE  fs'[f] = c /\ \A g \in Files \ {f} : fs'[g] = fs[g]
BY DEF CommitInv, SafeInv, TypeOK, Write

\* The candidate is removed only where no journal names it.
LEMMA CommitDiscard ==
  ASSUME Sole, CommitInv, NEW p \in Procs, DiscardCandidate(p)
  PROVE  CommitStep
<1> USE DEF PlacedAt, PickedAt, Scanning, Emptied, Swapping, Choosing, Early, Ended
<1>1. PlacedAt(pc[p]) /\ PickedAt(p, pc[p])
  BY DEF CommitInv, Placed, Picked
<1>2. ~Exists("journal") /\ picked[p] = 0 /\ fs["target"] # Absent
  BY <1>1 DEF DiscardCandidate, CommitInv, SafeInv, Located, TargetHere
<1>3. UNCHANGED <<mark, published, cmd, loaded, picked>>
  BY DEF DiscardCandidate, local
<1>4. CASE UNCHANGED fs
  <2>1. Go(p, "recovered") \/ Go(p, "failed")
    BY DEF DiscardCandidate
  <2> QED
    BY <1>1, <1>2, <1>3, <1>4, <2>1, CommitMove DEF DiscardCandidate
<1>5. CASE Write("candidate", Absent) /\ Go(p, "recovered")
  <2>1. \A q \in Procs : q = p /\ pc'[q] = "recovered"
    BY <1>5, OnlySlot DEF CommitInv, SafeInv, Sole
  <2>2. /\ fs'["candidate"] = Absent
        /\ \A g \in {"target", "backup", "journal"} : fs'[g] = fs[g]
    BY <1>5, CommitWrite DEF Files
  <2>3. Journaled' /\ Known'
    BY <1>2, <1>3, <2>2 DEF CommitInv, Journaled, Known, Exists
  <2>4. Placed' /\ Picked'
    BY <1>1, <1>2, <1>3, <2>1, <2>2 DEF Placed, Picked, Exists, DiscardCandidate
  <2>5. Still
    BY <1>2, <1>3, <2>2 DEF Still, Effective, Exists
  <2> QED
    BY <2>3, <2>4, <2>5 DEF CommitStep
<1> QED
  BY <1>4, <1>5 DEF DiscardCandidate

\* finishCommit and restoreBackup read; removeJournal ends a commit whose
\* candidate is in place.
LEMMA CommitCommit ==
  ASSUME Sole, CommitInv, NEW p \in Procs, Commit(p)
  PROVE  CommitStep
<1> USE DEF PlacedAt, PickedAt, Scanning, Emptied, Swapping, Choosing, Early, Ended
<1>1. PlacedAt(pc[p]) /\ PickedAt(p, pc[p])
  BY DEF CommitInv, Placed, Picked
<1>2. CASE finishCommit(p)
  BY <1>1, <1>2, CommitStat DEF finishCommit, Stat, At, Exists
<1>3. CASE Stat(p, "f_lost", Exists("target"), "failed", "f_kept")
  BY <1>1, <1>3, CommitStat DEF Stat, At, Exists
<1>4. CASE Stat(p, "f_kept", Exists("backup"), "f_restore", "failed")
  BY <1>1, <1>4, CommitStat DEF Stat, At, Exists
<1>5. CASE removeJournal(p)
  <2> DEFINE next == IF picked[p] = 0 THEN "recovered" ELSE "advance"
  <2>1. /\ ~Exists("candidate") /\ fs["target"] # Absent
        /\ UNCHANGED <<mark, published, cmd, loaded, picked>> /\ Go(p, next)
    BY <1>1, <1>5 DEF removeJournal, At, local, CommitInv, SafeInv, Located, TargetHere
  <2>2. CASE UNCHANGED fs
    <3>1. PlacedAt(next) /\ PickedAt(p, next)
      BY <1>1, <1>5, <2>1 DEF removeJournal, At
    <3> QED
      BY <2>1, <2>2, <3>1, CommitMove
  <2>3. CASE Write("journal", Absent)
    <3>1. \A q \in Procs : q = p /\ pc'[q] = next
      BY <2>1, OnlySlot DEF CommitInv, SafeInv, Sole
    <3>2. /\ fs'["journal"] = Absent
          /\ \A g \in {"target", "backup", "candidate"} : fs'[g] = fs[g]
      BY <2>3, CommitWrite DEF Files
    <3>3. Journaled' /\ Known'
      BY <2>1, <3>2 DEF CommitInv, Journaled, Known, Exists
    <3>4. Placed' /\ Picked'
      BY <1>1, <1>5, <2>1, <3>1, <3>2 DEF Placed, Picked, Exists, removeJournal, At
    <3>5. Still
      BY <2>1, <3>2 DEF Still, Effective, Exists
    <3> QED
      BY <3>3, <3>4, <3>5 DEF CommitStep
  <2> QED
    BY <1>5, <2>2, <2>3 DEF removeJournal
<1> QED
  BY <1>2, <1>3, <1>4, <1>5 DEF Commit, restoreBackup

\* A rename over the target puts there the build the install already stood
\* for, and a rename away from it leaves the candidate to stand for it.
LEMMA CommitRenameSucceeds ==
  ASSUME Sole, CommitInv, NEW p \in Procs, RenameSucceeds(p)
  PROVE  CommitStep
<1> USE DEF PlacedAt, PickedAt, Scanning, Emptied, Swapping, Choosing, Early, Ended
<1>1. PlacedAt(pc[p]) /\ PickedAt(p, pc[p]) /\ Journaled /\ Known
  BY DEF CommitInv, Placed, Picked
<1>2. UNCHANGED <<mark, published, cmd, loaded, picked>>
  BY DEF RenameSucceeds
<1>3. fs \in [Files -> Builds \cup {Absent}] /\ Absent \notin Builds
  BY ConstantsOK DEF CommitInv, SafeInv, TypeOK
<1>4. CASE pc[p] = "f_backup"
  <2>0. /\ Exists("journal") /\ Exists("candidate")
        /\ RenameOver[pc[p]].src = "target" /\ RenameOver[pc[p]].dst = "backup"
        /\ RenameOver[pc[p]].ok = "f_install"
    BY <1>1, <1>4 DEF RenameOver
  <2>1. /\ Exists("target") /\ Go(p, "f_install")
        /\ fs' = [fs EXCEPT !["backup"] = fs["target"], !["target"] = Absent]
    BY <1>4, <2>0 DEF RenameSucceeds, Exists
  <2>2. \A q \in Procs : q = p /\ pc'[q] = "f_install"
    BY <2>1, OnlySlot DEF CommitInv, SafeInv, Sole
  <2>3. /\ fs'["target"] = Absent /\ fs'["backup"] = fs["target"]
        /\ fs'["candidate"] = fs["candidate"] /\ fs'["journal"] = fs["journal"]
    BY <1>3, <2>1 DEF Files
  <2>4. Journaled' /\ Known'
    BY <1>1, <1>2, <1>4, <2>1, <2>3 DEF Journaled, Known, Exists
  <2>5. Placed' /\ Picked'
    BY <1>1, <1>2, <1>4, <2>2, <2>3 DEF Placed, Picked, Exists
  <2>6. Still
    BY <1>2, <2>0, <2>3 DEF Still, Effective, Exists
  <2> QED
    BY <2>4, <2>5, <2>6 DEF CommitStep
<1>5. CASE pc[p] = "f_install"
  <2>0. /\ Exists("journal") /\ Exists("candidate")
        /\ RenameOver[pc[p]].src = "candidate" /\ RenameOver[pc[p]].dst = "target"
        /\ RenameOver[pc[p]].ok = "unjournal"
    BY <1>1, <1>5 DEF RenameOver
  <2>1. /\ Go(p, "unjournal")
        /\ fs' = [fs EXCEPT !["target"] = fs["candidate"], !["candidate"] = Absent]
    BY <1>5, <2>0 DEF RenameSucceeds, Exists
  <2>2. \A q \in Procs : q = p /\ pc'[q] = "unjournal"
    BY <2>1, OnlySlot DEF CommitInv, SafeInv, Sole
  <2>3. /\ fs'["candidate"] = Absent /\ fs'["target"] = fs["candidate"]
        /\ fs'["backup"] = fs["backup"] /\ fs'["journal"] = fs["journal"]
    BY <1>3, <2>1 DEF Files
  <2>4. Journaled' /\ Known'
    BY <1>1, <1>2, <1>5, <2>3 DEF Journaled, Known, Exists
  <2>5. Placed' /\ Picked'
    BY <1>1, <1>2, <1>5, <2>2, <2>3 DEF Placed, Picked, Exists
  <2>6. Still
    BY <1>2, <2>0, <2>3 DEF Still, Effective, Exists
  <2> QED
    BY <2>4, <2>5, <2>6 DEF CommitStep
<1>6. CASE pc[p] = "f_restore"
  <2>0. /\ Exists("journal") /\ Exists("candidate")
        /\ RenameOver[pc[p]].src = "backup" /\ RenameOver[pc[p]].dst = "target"
        /\ RenameOver[pc[p]].ok = "failed"
    BY <1>1, <1>6 DEF RenameOver
  <2>1. /\ Go(p, "failed") /\ Exists("backup")
        /\ fs' = [fs EXCEPT !["target"] = fs["backup"], !["backup"] = Absent]
    BY <1>6, <2>0 DEF RenameSucceeds, Exists
  <2>2. \A q \in Procs : q = p /\ pc'[q] = "failed"
    BY <2>1, OnlySlot DEF CommitInv, SafeInv, Sole
  <2>3. /\ fs'["backup"] = Absent /\ fs'["target"] = fs["backup"]
        /\ fs'["candidate"] = fs["candidate"] /\ fs'["journal"] = fs["journal"]
    BY <1>3, <2>1 DEF Files
  <2>4. Journaled' /\ Known'
    BY <1>1, <1>2, <1>6, <2>1, <2>3 DEF Journaled, Known, Exists
  <2>5. Placed' /\ Picked'
    BY <1>1, <1>2, <1>6, <2>2, <2>3 DEF Placed, Picked, Exists
  <2>6. Still
    BY <1>2, <2>0, <2>3 DEF Still, Effective, Exists
  <2> QED
    BY <2>4, <2>5, <2>6 DEF CommitStep
<1>7. CASE pc[p] \in {"j_rollback", "r_revive"}
  <2>1. fs["target"] = Absent
    BY <1>7 DEF CommitInv, SafeInv, Located, TargetGone
  <2> QED
    BY <1>1, <1>7, <2>1 DEF Journaled
<1> QED
  BY <1>4, <1>5, <1>6, <1>7 DEF RenameSucceeds, Renames

\* A rename that fails and the removal before its retry leave the install as
\* it is: what is removed is the backup, or was gone already.
LEMMA CommitRenaming ==
  ASSUME Sole, CommitInv, NEW p \in Procs, Renaming(p)
  PROVE  CommitStep
<1> USE DEF PlacedAt, PickedAt, Scanning, Emptied, Swapping, Choosing, Early, Ended
<1>1. PlacedAt(pc[p]) /\ PickedAt(p, pc[p]) /\ Journaled /\ Known
  BY DEF CommitInv, Placed, Picked
<1>2. CASE RenameFails(p) \/ UnlinkDstFails(p)
  <2>1. UNCHANGED <<fs, mark, published, cmd, loaded, picked>> /\ pc[p] \in Renames
    BY <1>2 DEF RenameFails, UnlinkDstFails
  <2>2. UNCHANGED pc \/ Go(p, RenameOver[pc[p]].fail)
    BY <1>2 DEF RenameFails, UnlinkDstFails
  <2>3. CASE UNCHANGED pc
    <3>1. Go(p, pc[p])
      BY <2>3 DEF Go, CommitInv, SafeInv, TypeOK
    <3> QED
      BY <1>1, <2>1, <3>1, CommitMove
  <2>4. CASE Go(p, RenameOver[pc[p]].fail)
    <3>1. /\ RenameOver[pc[p]].fail \in {"failed", "f_lost"}
          /\ RenameOver[pc[p]].fail = "f_lost" => pc[p] = "f_install"
      BY <2>1 DEF RenameOver, Renames
    <3>2. PlacedAt(RenameOver[pc[p]].fail) /\ PickedAt(p, RenameOver[pc[p]].fail)
      BY <1>1, <3>1
    <3> QED
      BY <2>1, <2>4, <3>2, CommitMove
  <2> QED
    BY <2>2, <2>3, <2>4
<1>3. CASE UnlinkDst(p)
  <2> DEFINE d == RenameOver[pc[p]].dst
  <2>1. /\ fs' = [fs EXCEPT ![d] = Absent] /\ UNCHANGED pc /\ pc[p] \in Renames
        /\ UNCHANGED <<mark, published, cmd, loaded, picked>>
    BY <1>3 DEF UnlinkDst, Write
  <2>2. Go(p, pc[p])
    BY <2>1 DEF Go, CommitInv, SafeInv, TypeOK
  <2>3. CASE pc[p] = "f_backup"
    <3>1. d = "backup"
      BY <2>3 DEF RenameOver
    <3>2. fs'["backup"] = Absent /\ \A g \in {"target", "candidate", "journal"} : fs'[g] = fs[g]
      BY <2>1, <3>1 DEF CommitInv, SafeInv, TypeOK, Files
    <3>3. Journaled' /\ Known'
      BY <1>1, <2>1, <3>2 DEF Journaled, Known, Exists
    <3>4. \A q \in Procs : q = p /\ pc'[q] = pc[p]
      BY <2>2, OnlySlot DEF CommitInv, SafeInv, Sole
    <3>5. Placed' /\ Picked'
      BY <1>1, <2>1, <3>2, <3>4 DEF Placed, Picked, Exists
    <3>6. Still
      BY <1>1, <2>1, <2>3, <3>2 DEF Still, Effective, Exists
    <3> QED
      BY <3>3, <3>5, <3>6 DEF CommitStep
  <2>4. CASE pc[p] # "f_backup"
    <3>1. d = "target"
      BY <2>1, <2>4 DEF RenameOver, Renames
    <3>2. fs["target"] = Absent
      BY <2>1, <2>4 DEF CommitInv, SafeInv, Located, TargetGone, Renames
    <3>3. fs' = fs
      BY <2>1, <3>1, <3>2 DEF CommitInv, SafeInv, TypeOK, Files
    <3> QED
      BY <1>1, <2>1, <2>2, <3>3, CommitMove
  <2> QED
    BY <2>3, <2>4
<1> QED
  BY <1>2, <1>3, CommitRenameSucceeds DEF Renaming

\* The fetch picks a serial above the mark; what is staged and journaled is
\* that build, and the mark records it when the target is it.
LEMMA CommitUpdate ==
  ASSUME Sole, CommitInv, NEW p \in Procs, selfUpdate(p)
  PROVE  CommitStep
<1> USE DEF PlacedAt, PickedAt, Scanning, Emptied, Swapping, Choosing, Early, Ended
<1>1. PlacedAt(pc[p]) /\ PickedAt(p, pc[p]) /\ Journaled /\ Known
  BY DEF CommitInv, Placed, Picked
<1>2. mark \in Nat /\ published \in Nat /\ loaded[p] \in Nat /\ picked \in [Procs -> Builds]
  BY DEF CommitInv, SafeInv, TypeOK, Builds
<1>3. CASE Refuse(p) \/ UpToDate(p)
  <2>1. Go(p, "failed") \/ Go(p, "done")
    BY <1>3 DEF Refuse, UpToDate
  <2>2. UNCHANGED <<fs, mark, published, cmd, loaded, picked>>
    BY <1>3 DEF Refuse, UpToDate, local
  <2> QED
    BY <1>1, <2>1, <2>2, CommitMove
<1>4. CASE Accept(p)
  <2>1. PICK s \in Served : s > loaded[p] /\ picked' = [picked EXCEPT ![p] = s]
    BY <1>4 DEF Accept
  <2>2. /\ Go(p, "fill") /\ UNCHANGED <<fs, mark, published, cmd, loaded>>
        /\ pc[p] = "recovered" /\ cmd[p] = "update"
    BY <1>4 DEF Accept, At
  <2>3. s \in Nat /\ s <= published /\ mark < s /\ s # 0
    BY <1>1, <1>2, <2>1, <2>2 DEF Served
  <2>4. \A q \in Procs : q = p /\ pc'[q] = "fill" /\ picked'[q] = s
    BY <1>2, <2>1, <2>2, OnlySlot DEF CommitInv, SafeInv, Sole
  <2>5. Journaled' /\ Known'
    BY <1>1, <2>2 DEF Journaled, Known, Exists
  <2>6. Placed'
    BY <1>1, <2>2, <2>4 DEF Placed, Exists
  <2>7. Picked'
    BY <1>1, <2>2, <2>3, <2>4 DEF Picked
  <2>8. Still
    BY <2>2 DEF Still, Effective, Exists
  <2> QED
    BY <2>5, <2>6, <2>7, <2>8 DEF CommitStep
<1>5. CASE FillTemp(p)
  <2>1. Go(p, "place") \/ Go(p, "failed")
    BY <1>5 DEF FillTemp
  <2>2. UNCHANGED <<fs, mark, published, cmd, loaded, picked>> /\ pc[p] = "fill"
    BY <1>5 DEF FillTemp, local, At
  <2> QED
    BY <1>1, <2>1, <2>2, CommitMove
<1>6. CASE stageCandidate(p)
  <2>1. UNCHANGED <<mark, published, cmd, loaded, picked>> /\ pc[p] = "place"
    BY <1>6 DEF stageCandidate, local, At
  <2>2. CASE UNCHANGED fs /\ Go(p, "failed")
    BY <1>1, <2>1, <2>2, CommitMove
  <2>3. CASE Write("candidate", picked[p]) /\ Go(p, "journal")
    <3>1. \A q \in Procs : q = p /\ pc'[q] = "journal"
      BY <2>3, OnlySlot DEF CommitInv, SafeInv, Sole
    <3>2. /\ fs'["candidate"] = picked[p]
          /\ \A g \in {"target", "backup", "journal"} : fs'[g] = fs[g]
      BY <2>3, CommitWrite DEF Files
    <3>3. picked[p] # Absent /\ fs["target"] # Absent
      BY <1>2, <2>1, ConstantsOK DEF CommitInv, SafeInv, Located, TargetHere
    <3>4. Journaled' /\ Known'
      BY <1>1, <2>1, <3>2, <3>3 DEF Journaled, Known, Exists
    <3>5. Placed' /\ Picked'
      BY <1>1, <2>1, <3>1, <3>2 DEF Placed, Picked, Exists
    <3>6. Still \/ Switched
      <4>1. CASE Exists("journal")
        BY <2>1, <3>2, <3>3, <4>1 DEF Switched, Effective, Exists
      <4>2. CASE ~Exists("journal")
        BY <2>1, <3>2, <3>3, <4>2 DEF Still, Effective, Exists
      <4> QED
        BY <4>1, <4>2
    <3> QED
      BY <3>4, <3>5, <3>6 DEF CommitStep
  <2> QED
    BY <1>6, <2>2, <2>3 DEF stageCandidate
<1>7. CASE writeJournal(p)
  <2>1. UNCHANGED <<mark, published, cmd, loaded, picked>> /\ pc[p] = "journal"
    BY <1>7 DEF writeJournal, local, At
  <2>2. CASE UNCHANGED fs /\ Go(p, "failed")
    BY <1>1, <2>1, <2>2, CommitMove
  <2>3. CASE Write("journal", picked[p]) /\ Go(p, "f_target")
    <3>1. \A q \in Procs : q = p /\ pc'[q] = "f_target"
      BY <2>3, OnlySlot DEF CommitInv, SafeInv, Sole
    <3>2. /\ fs'["journal"] = picked[p]
          /\ \A g \in {"target", "backup", "candidate"} : fs'[g] = fs[g]
      BY <2>3, CommitWrite DEF Files
    <3>3. picked[p] # Absent /\ fs["candidate"] = picked[p]
      BY <1>1, <1>2, <2>1, ConstantsOK
    <3>4. Journaled' /\ Known'
      BY <1>1, <2>1, <3>2, <3>3 DEF Journaled, Known, Exists
    <3>5. Placed' /\ Picked'
      BY <1>1, <2>1, <3>1, <3>2, <3>3 DEF Placed, Picked, Exists
    <3>6. Switched
      BY <2>1, <3>2, <3>3 DEF Switched, Effective, Exists
    <3> QED
      BY <3>4, <3>5, <3>6 DEF CommitStep
  <2> QED
    BY <1>7, <2>2, <2>3 DEF writeJournal
<1>8. CASE Advance(p)
  <2>1. UNCHANGED <<fs, published, cmd, loaded, picked>> /\ pc[p] = "advance"
    BY <1>8 DEF Advance, local, At
  <2>2. CASE UNCHANGED mark /\ Go(p, "failed")
    BY <1>1, <2>1, <2>2, CommitMove
  <2>3. CASE mark' = picked[p] /\ Go(p, "done")
    <3>1. \A q \in Procs : q = p /\ pc'[q] = "done"
      BY <2>3, OnlySlot DEF CommitInv, SafeInv, Sole
    <3>2. Journaled' /\ Known'
      BY <1>1, <2>1 DEF Journaled, Known, Exists
    <3>3. Placed' /\ Picked'
      BY <1>1, <2>1, <3>1 DEF Placed, Picked, Exists
    <3>4. Effective = picked[p] /\ mark < picked[p]
      <4>1. fs["target"] # Absent
        BY <2>1 DEF CommitInv, SafeInv, Located, TargetHere
      <4> QED
        BY <1>1, <2>1, <4>1 DEF Effective, Exists
    <3>5. Recorded
      BY <2>1, <2>3, <3>4 DEF Recorded, Effective, Exists
    <3> QED
      BY <3>2, <3>3, <3>5 DEF CommitStep
  <2> QED
    BY <1>8, <2>2, <2>3 DEF Advance
<1> QED
  BY <1>3, <1>4, <1>5, <1>6, <1>7, <1>8 DEF selfUpdate

\* Every step of an install whose target nothing else removes is one of the
\* three, and keeps the invariant.
LEMMA CommitNext ==
  ASSUME Sole, ~MayVanish, CommitInv, [Next]_vars
  PROVE  CommitInv' /\ CommitStep
<1> USE DEF PlacedAt, PickedAt, Scanning, Emptied, Swapping, Choosing, Early, Ended
<1>1. /\ mark \in Nat /\ published \in Nat /\ picked \in [Procs -> Builds]
      /\ Journaled /\ Known /\ Placed /\ Picked
  BY DEF CommitInv, SafeInv, TypeOK, Builds
<1>2. CommitStep
  <2>1. CASE Publish
    <3>1. UNCHANGED <<fs, mark, pc, cmd, loaded, picked>> /\ published' = published + 1
      BY <2>1 DEF Publish, local
    <3>2. Journaled' /\ Placed' /\ Still
      BY <1>1, <3>1 DEF Journaled, Placed, Still, Effective, Exists
    <3>3. Known'
      <4>1. \A f \in Files : fs[f] \in Nat \cup {Absent}
        BY DEF CommitInv, SafeInv, TypeOK, Builds
      <4> QED
        BY <1>1, <3>1, <4>1 DEF Known, Exists, Files
    <3>4. Picked'
      BY <1>1, <3>1 DEF Picked, Builds
    <3> QED
      BY <3>2, <3>3, <3>4 DEF CommitStep
  <2>2. CASE UNCHANGED vars
    <3>1. UNCHANGED <<fs, mark, published, pc, cmd, loaded, picked>>
      BY <2>2 DEF vars, local
    <3> QED
      BY <1>1, <3>1 DEF CommitStep, Journaled, Known, Placed, Picked, Still, Effective, Exists
  <2>3. ASSUME NEW p \in Procs, NEW c \in {"run", "update"}, Launch(p, c) PROVE CommitStep
    <3>1. /\ pc[p] = "idle" /\ Go(p, "r_journal") /\ UNCHANGED <<fs, mark, published, picked>>
          /\ cmd'    = [cmd EXCEPT ![p] = c]
          /\ loaded' = [loaded EXCEPT ![p] = IF c = "update" THEN mark ELSE 0]
      BY <2>3 DEF Launch, At
    <3>2. \A q \in Procs : q = p /\ pc'[q] = "r_journal"
      BY <3>1, OnlySlot DEF CommitInv, SafeInv, Sole
    <3>3. cmd'[p] = c /\ loaded'[p] = IF c = "update" THEN mark ELSE 0
      BY <3>1 DEF CommitInv, SafeInv, TypeOK
    <3>4. Journaled' /\ Known' /\ Still
      BY <1>1, <3>1 DEF Journaled, Known, Still, Effective, Exists
    <3>5. Placed'
      BY <3>2 DEF Placed
    <3>6. Picked'
      BY <1>1, <3>1, <3>2, <3>3 DEF Picked
    <3> QED
      BY <3>4, <3>5, <3>6 DEF CommitStep
  <2>4. ASSUME NEW p \in Procs, Exit(p) \/ Crash(p) PROVE CommitStep
    <3>1. Reset(p) /\ UNCHANGED <<fs, mark, published>>
      BY <2>4 DEF Exit, Crash
    <3>2. \A q \in Procs : q = p /\ pc'[q] = "idle"
      BY <3>1, OnlySlot DEF CommitInv, SafeInv, Sole, Reset
    <3>3. picked'[p] = 0
      BY <3>1 DEF Reset, CommitInv, SafeInv, TypeOK
    <3>4. Journaled' /\ Known' /\ Still
      BY <1>1, <3>1 DEF Journaled, Known, Still, Effective, Exists
    <3>5. Placed'
      BY <3>2 DEF Placed
    <3>6. Picked'
      BY <1>1, <3>1, <3>2, <3>3 DEF Picked
    <3> QED
      BY <3>4, <3>5, <3>6 DEF CommitStep
  <2>5. ASSUME NEW p \in Procs, Repair(p) PROVE CommitStep
    BY <2>5, CommitRecover, CommitDiscard DEF Repair
  <2> QED
    BY <2>1, <2>2, <2>3, <2>4, <2>5, CommitCommit, CommitRenaming, CommitUpdate DEF Next, Vanish
<1>3. SafeInv'
  BY SafeNext DEF CommitInv
<1>4. MarkCovered'
  <2>1. CASE Still \/ Recorded
    <3>1. mark \in Nat /\ mark' \in Nat
      BY <1>1, <1>3 DEF SafeInv, TypeOK, Builds
    <3> QED
      BY <2>1, <3>1 DEF Still, Recorded, MarkCovered, CommitInv
  <2>2. CASE Switched
    <3>1. PICK p \in Procs : pc[p] \in {"place", "journal"} /\ mark' = mark /\ Effective' = picked[p]
      BY <2>2 DEF Switched
    <3>2. mark < picked[p]
      BY <1>1, <3>1 DEF Picked
    <3> QED
      BY <1>1, <3>1, <3>2 DEF MarkCovered, Builds
  <2> QED
    BY <1>2, <2>1, <2>2 DEF CommitStep
<1> QED
  BY <1>2, <1>3, <1>4 DEF CommitInv, CommitStep

\* While commands do not overlap and nothing else removes the target, the mark
\* never runs ahead of what is installed, whatever the server serves, whatever
\* call a command dies before and whatever calls fail: a serial it covers is
\* never "up to date" while an older build is in place.
THEOREM MarkAlwaysCovered == Sole /\ ~MayVanish => (Spec => []MarkCovered)
<1> SUFFICES ASSUME Sole, ~MayVanish PROVE Spec => []MarkCovered
  OBVIOUS
<1>1. CommitInv /\ [Next]_vars => CommitInv'
  BY CommitNext
<1>2. CommitInv => MarkCovered
  BY DEF CommitInv
<1> QED
  BY CommitInit, <1>1, <1>2, PTL DEF Spec

-----------------------------------------------------------------------------
(* Failing commands.  A command that gives up with no target has seen its   *)
(* install fail twice and the restore of the backup fail twice.              *)

\* The calls that failed before p can be where it is.
CountedAt(p) ==
  /\ pc[p] \notin Renames => io[p] = "rename"
  /\ pc[p] = "f_install" /\ io[p] # "rename" => faults >= 1
  /\ pc[p] \in {"f_lost", "f_kept", "f_restore"} => faults >= 2
  /\ pc[p] = "f_restore" /\ io[p] # "rename" => faults >= 3
  /\ pc[p] = "failed" /\ fs["target"] = Absent => faults >= 4

Counted == \A p \in Procs : CountedAt(p)

CountedInv == CommitInv /\ Counted

\* A call outside renameOver starts no retry and never lowers the count.
LEMMA CountedMove ==
  ASSUME Sole, CommitInv, NEW p \in Procs, NEW l, Go(p, l), io'[p] = "rename",
         faults' \in Nat, faults' >= faults,
         l \in {"f_lost", "f_kept", "f_restore"} => faults >= 2,
         l = "failed" => fs'["target"] # Absent
  PROVE  Counted'
<1>1. \A q \in Procs : q = p /\ pc'[q] = l
  BY OnlySlot DEF CommitInv, SafeInv, Sole
<1>2. faults \in Nat
  BY ConstantsOK DEF CommitInv, SafeInv, TypeOK
<1> QED
  BY <1>1, <1>2 DEF Counted, CountedAt

\* renameOver: the first try and its retry both fail before the caller goes on.
LEMMA CountedRenaming ==
  ASSUME Sole, CountedInv, CommitInv', NEW p \in Procs, Renaming(p)
  PROVE  Counted'
<1>1. CountedAt(p) /\ PlacedAt(pc[p]) /\ Journaled /\ pc[p] \in Renames /\ pc \in [Procs -> Labels]
  BY DEF CountedInv, Counted, CommitInv, Placed, SafeInv, TypeOK, Renaming, RenameSucceeds,
         RenameFails, UnlinkDst, UnlinkDstFails
<1>2. faults \in Nat /\ faults' \in Nat /\ io \in [Procs -> {"rename", "unlink", "retry"}]
  BY ConstantsOK DEF CountedInv, CommitInv, SafeInv, TypeOK
<1>3. pc[p] \in {"f_backup", "f_install", "f_restore"}
  BY <1>1 DEF Journaled, CountedInv, CommitInv, SafeInv, Located, TargetGone, Renames, PlacedAt, Scanning,
              Emptied, Exists
<1>4. /\ pc[p] = "f_backup" => fs["target"] # Absent
      /\ pc[p] \in {"f_install", "f_restore"} => fs["target"] = Absent
  BY DEF CountedInv, CommitInv, SafeInv, Located, TargetGone, TargetHere
<1>5. pc[p] \in {"f_install", "f_restore"} => fs["candidate"] # Absent /\ fs["backup"] # Absent
  BY <1>1, <1>4, ConstantsOK
     DEF PlacedAt, Swapping, Exists, CountedInv, CommitInv, SafeInv, Recoverable, Runnable
<1>6. CASE RenameSucceeds(p)
  <2>1. Go(p, RenameOver[pc[p]].ok) /\ UNCHANGED faults /\ io'[p] = "rename"
    BY <1>2, <1>6 DEF RenameSucceeds
  <2>2. RenameOver[pc[p]].ok \in {"f_install", "unjournal", "failed"}
    BY <1>3 DEF RenameOver
  <2>3. CASE pc[p] = "f_restore"
    <3>1. fs'["target"] = fs["backup"]
      <4>1. RenameOver[pc[p]].src = "backup" /\ RenameOver[pc[p]].dst = "target"
        BY <2>3 DEF RenameOver
      <4> QED
        BY <1>6, <4>1 DEF RenameSucceeds, CountedInv, CommitInv, SafeInv, TypeOK, Files
    <3> QED
      BY <1>2, <1>5, <2>1, <2>2, <2>3, <3>1, CountedMove DEF CountedInv
  <2>4. CASE pc[p] # "f_restore"
    <3>1. RenameOver[pc[p]].ok # "failed"
      BY <1>3, <2>4 DEF RenameOver
    <3> QED
      BY <1>2, <2>1, <2>2, <3>1, CountedMove DEF CountedInv
  <2> QED
    BY <2>3, <2>4
<1>7. CASE UnlinkDst(p)
  <2>1. io[p] = "unlink" /\ io'[p] = "retry" /\ UNCHANGED <<pc, faults>>
    BY <1>2, <1>7 DEF UnlinkDst
  <2>2. \A q \in Procs : q = p
    BY DEF Sole
  <2> QED
    BY <1>1, <1>3, <2>1, <2>2 DEF Counted, CountedAt
<1>8. CASE RenameFails(p) \/ UnlinkDstFails(p)
  <2>1. UNCHANGED fs /\ faults' >= faults
    BY <1>2, <1>8 DEF RenameFails, UnlinkDstFails, Fault, NoFault
  <2>2. /\ pc[p] = "f_install" => RenameOver[pc[p]].src = "candidate" /\ RenameOver[pc[p]].dst = "target"
        /\ pc[p] = "f_restore" => RenameOver[pc[p]].src = "backup" /\ RenameOver[pc[p]].dst = "target"
    BY DEF RenameOver
  <2>3. pc[p] \in {"f_install", "f_restore"} => RenameFails(p) /\ faults' = faults + 1
    BY <1>4, <1>5, <1>8, <2>2 DEF RenameFails, UnlinkDstFails, Exists, Fault
  <2>4. CASE UNCHANGED pc
    <3>1. pc[p] \in {"f_install", "f_restore"} => io[p] = "rename" \/ io[p] = "retry"
      BY <2>3 DEF RenameFails
    <3>2. \A q \in Procs : q = p
      BY DEF Sole
    <3> QED
      BY <1>1, <1>2, <1>3, <2>3, <2>4, <3>1, <3>2 DEF Counted, CountedAt
  <2>5. CASE Go(p, RenameOver[pc[p]].fail)
    <3>1. pc'[p] = RenameOver[pc[p]].fail /\ \A q \in Procs : q = p
      BY <1>1, <2>5 DEF Go, Sole
    <3>2. /\ pc[p] = "f_backup" => pc'[p] = "failed"
          /\ pc[p] = "f_install" => pc'[p] = "f_lost"
          /\ pc[p] = "f_restore" => pc'[p] = "failed"
      BY <3>1 DEF RenameOver
    <3>3. pc'[p] # pc[p] /\ pc'[p] \notin Renames
      BY <1>3, <3>2 DEF Renames
    <3>4. io'[p] = "rename" /\ (RenameFails(p) => io[p] = "retry")
      BY <1>2, <1>8, <3>3 DEF RenameFails, UnlinkDstFails
    <3> QED
      BY <1>1, <1>2, <1>3, <1>4, <2>1, <2>3, <3>1, <3>2, <3>3, <3>4 DEF Counted, CountedAt
  <2> QED
    BY <1>8, <2>4, <2>5 DEF RenameFails, UnlinkDstFails
<1> QED
  BY <1>6, <1>7, <1>8 DEF Renaming

\* Every other call that fails leaves the target it found, except a lookup that
\* finds no target and no backup, which does not happen.
LEMMA CountedNext ==
  ASSUME Sole, ~MayVanish, CountedInv, [Next]_vars
  PROVE  CountedInv'
<1>0. CommitInv /\ CommitInv'
  BY CommitNext DEF CountedInv
<1>1. /\ faults \in Nat /\ faults' \in Nat /\ Journaled /\ Placed
      /\ io \in [Procs -> {"rename", "unlink", "retry"}]
  BY <1>0, ConstantsOK DEF CommitInv, SafeInv, TypeOK
<1>2. \A p \in Procs : CountedAt(p)
  BY DEF CountedInv, Counted
<1>3. ASSUME UNCHANGED <<fs, faults, pc, io>> PROVE Counted'
  BY <1>2, <1>3 DEF Counted, CountedAt
<1>4. ASSUME NEW p \in Procs, Reset(p), UNCHANGED faults PROVE Counted'
  <2>1. Go(p, "idle") /\ io'[p] = "rename"
    BY <1>1, <1>4 DEF Reset
  <2> QED
    BY <1>0, <1>1, <1>4, <2>1, CountedMove
<1>5. ASSUME NEW p \in Procs, NEW c \in {"run", "update"}, Launch(p, c) PROVE Counted'
  <2>1. Go(p, "r_journal") /\ UNCHANGED <<faults, io>> /\ io[p] = "rename"
    BY <1>2, <1>5 DEF Launch, At, CountedAt, Renames
  <2> QED
    BY <1>0, <1>1, <2>1, CountedMove
<1>6. ASSUME NEW p \in Procs, NEW l, NEW cond \in BOOLEAN, NEW yes, NEW no,
             Stat(p, l, cond, yes, no), l \notin Renames,
             cond  => /\ yes \in {"f_lost", "f_kept", "f_restore"} => faults >= 2
                      /\ yes = "failed" => fs["target"] # Absent,
             ~cond => /\ no \in {"f_lost", "f_kept", "f_restore"} => faults >= 2
                      /\ no = "failed" => fs["target"] # Absent
      PROVE  Counted'
  <2>1. UNCHANGED <<fs, faults, io>> /\ io[p] = "rename"
    BY <1>2, <1>6 DEF Stat, At, local, CountedAt
  <2>2. CASE cond
    <3>1. Go(p, yes)
      BY <1>6, <2>2 DEF Stat
    <3> QED
      BY <1>0, <1>1, <1>6, <2>1, <2>2, <3>1, CountedMove
  <2>3. CASE ~cond
    <3>1. Go(p, no)
      BY <1>6, <2>3 DEF Stat
    <3> QED
      BY <1>0, <1>1, <1>6, <2>1, <2>3, <3>1, CountedMove
  <2> QED
    BY <2>2, <2>3
<1>7. ASSUME NEW p \in Procs, recover(p) PROVE Counted'
  BY <1>6, <1>7 DEF recover, Exists, Renames
<1>8. ASSUME NEW p \in Procs, recoverJournaled(p) PROVE Counted'
  <2>1. ~Stat(p, "j_backup", Exists("backup"), "j_rollback", "failed")
    BY <1>0, <1>1 DEF Stat, At, Journaled, Placed, PlacedAt, Emptied, CommitInv, SafeInv, Located, TargetGone
  <2> QED
    BY <1>6, <1>8, <2>1 DEF recoverJournaled, Exists, Renames
<1>9. ASSUME NEW p \in Procs, Commit(p) PROVE Counted'
  <2>1. CASE finishCommit(p)
    BY <1>6, <2>1 DEF finishCommit, Exists, Renames
  <2>2. CASE restoreBackup(p)
    <3>1. pc[p] \in {"f_lost", "f_kept"}
      BY <2>2 DEF restoreBackup, Stat, At
    <3>2. fs["target"] = Absent /\ fs["backup"] # Absent
      BY <1>0, <3>1, ConstantsOK DEF CommitInv, SafeInv, Located, TargetGone, Recoverable, Runnable
    <3>3. faults >= 2
      BY <1>2, <3>1 DEF CountedAt
    <3> QED
      BY <1>6, <2>2, <3>2, <3>3 DEF restoreBackup, Exists, Renames
  <2>3. CASE removeJournal(p)
    <3>1. UNCHANGED io /\ io[p] = "rename" /\ faults' >= faults
      BY <1>1, <1>2, <2>3 DEF removeJournal, At, local, CountedAt, Renames, NoFault, Fault
    <3>2. Go(p, "recovered") \/ Go(p, "advance")
      BY <2>3 DEF removeJournal
    <3> QED
      BY <1>0, <1>1, <3>1, <3>2, CountedMove
  <2> QED
    BY <1>9, <2>1, <2>2, <2>3 DEF Commit
<1>10. ASSUME NEW p \in Procs, DiscardCandidate(p) \/ selfUpdate(p) PROVE Counted'
  <2> DEFINE act == \/ DiscardCandidate(p) \/ Refuse(p) \/ UpToDate(p) \/ Accept(p) \/ FillTemp(p)
                    \/ stageCandidate(p) \/ writeJournal(p) \/ Advance(p)
  <2>1. act
    BY <1>10 DEF selfUpdate
  <2>2. pc[p] \in {"r_discard", "r_scrub", "recovered", "fill", "place", "journal", "advance"}
    BY <2>1 DEF DiscardCandidate, Refuse, UpToDate, Accept, FillTemp, stageCandidate,
                writeJournal, Advance, At
  <2>3. fs["target"] # Absent /\ io[p] = "rename"
    BY <1>0, <1>2, <2>2 DEF CommitInv, SafeInv, Located, TargetHere, CountedAt, Renames
  <2>4. UNCHANGED io /\ faults' >= faults
    BY <1>1, <2>1 DEF DiscardCandidate, Refuse, UpToDate, Accept, FillTemp, stageCandidate,
                      writeJournal, Advance, local, NoFault, Fault
  <2>5. \E l \in {"recovered", "failed", "done", "fill", "place", "journal", "f_target"} : Go(p, l)
    <3>1. CASE DiscardCandidate(p)
      BY <3>1 DEF DiscardCandidate
    <3>2. CASE Refuse(p) \/ UpToDate(p) \/ Accept(p) \/ FillTemp(p)
      BY <3>2 DEF Refuse, UpToDate, Accept, FillTemp
    <3>3. CASE stageCandidate(p) \/ writeJournal(p) \/ Advance(p)
      BY <3>3 DEF stageCandidate, writeJournal, Advance
    <3> QED
      BY <2>1, <3>1, <3>2, <3>3
  <2>6. fs'["target"] = fs["target"]
    <3>1. \/ UNCHANGED fs
          \/ \E f \in {"candidate", "journal"}, c \in {Absent, picked[p]} : Write(f, c)
      BY <2>1 DEF DiscardCandidate, Refuse, UpToDate, Accept, FillTemp, stageCandidate,
                  writeJournal, Advance
    <3> QED
      BY <1>0, <3>1 DEF Write, CommitInv, SafeInv, TypeOK, Files
  <2>7. PICK l \in {"recovered", "failed", "done", "fill", "place", "journal", "f_target"} : Go(p, l)
    BY <2>5
  <2> QED
    BY <1>0, <1>1, <2>3, <2>4, <2>6, <2>7, CountedMove
<1>11. ASSUME NEW p \in Procs, Renaming(p) PROVE Counted'
  BY <1>0, <1>11, CountedRenaming
<1>12. ASSUME Publish \/ UNCHANGED vars PROVE Counted'
  BY <1>3, <1>12 DEF Publish, vars, local
<1>13. ASSUME NEW p \in Procs, Exit(p) \/ Crash(p) PROVE Counted'
  BY <1>4, <1>13 DEF Exit, Crash
<1> QED
  BY <1>0, <1>5, <1>7, <1>8, <1>9, <1>10, <1>11, <1>12, <1>13 DEF Next, Vanish, Repair, CountedInv

\* While commands do not overlap and nothing else removes the target, a command
\* that returns has left a whole build at the target unless at least four calls
\* failed: the install and its retry, the restore and its retry.
THEOREM FailureAlwaysKeepsBinary == Sole /\ ~MayVanish => (Spec => []FailureKeepsBinary)
<1> SUFFICES ASSUME Sole, ~MayVanish PROVE Spec => []FailureKeepsBinary
  OBVIOUS
<1>1. Init => CountedInv
  <2> SUFFICES ASSUME Init PROVE Counted
    BY CommitInit DEF CountedInv
  <2> QED
    BY DEF Init, Counted, CountedAt, Renames
<1>2. CountedInv /\ [Next]_vars => CountedInv'
  BY CountedNext
<1>3. CountedInv => FailureKeepsBinary
  <2> SUFFICES ASSUME CountedInv, NEW p \in Procs, pc[p] \in {"done", "failed"}, faults <= 3
               PROVE  Runnable("target")
    BY DEF FailureKeepsBinary
  <2>1. fs["target"] \in Builds \cup {Absent} /\ faults \in Nat
    BY ConstantsOK DEF CountedInv, CommitInv, SafeInv, TypeOK, Files
  <2>2. fs["target"] # Absent
    BY <2>1 DEF CountedInv, Counted, CountedAt, CommitInv, SafeInv, Located, TargetHere
  <2> QED
    BY <2>1, <2>2 DEF Runnable
<1> QED
  BY <1>1, <1>2, <1>3, PTL DEF Spec

-----------------------------------------------------------------------------
(* The refinement of AtomicInstall, when the server serves only its newest  *)
(* manifest.                                                                 *)

\* Nothing p can still stage is older than the installed build.
NewerAt(p) == pc[p] \in {"fill", "place", "journal"} => Effective <= picked[p]

Newer == \A p \in Procs : NewerAt(p)

AtomicInv == CommitInv /\ Newer

\* The installed build was published.
LEMMA EffectiveKnown == CommitInv => Effective \in Builds /\ Effective <= published
<1> SUFFICES ASSUME CommitInv PROVE Effective \in Builds /\ Effective <= published
  OBVIOUS
<1>1. Known /\ Recoverable /\ Absent \notin Builds /\ \A f \in Files : fs[f] \in Builds \cup {Absent}
  BY ConstantsOK DEF CommitInv, SafeInv, TypeOK
<1>2. \E f \in {"target", "candidate", "backup"} : Effective = fs[f] /\ Exists(f)
  BY <1>1 DEF Effective, Exists, Recoverable, Runnable
<1> QED
  BY <1>1, <1>2 DEF Known, Exists, Files

\* A command that picks a serial picks the newest one, and what is installed
\* stays what it is until that is staged or journaled.
LEMMA AtomicNext ==
  ASSUME Sole, ~MayVanish, ~StaleFeed, AtomicInv, [Next]_vars
  PROVE  Newer'
<1>0. CommitInv /\ CommitStep /\ Newer /\ CommitInv'
  BY CommitNext DEF AtomicInv
<1>1. published \in Nat /\ Effective \in Nat /\ Effective <= published /\ picked \in [Procs -> Builds]
  BY <1>0, EffectiveKnown DEF CommitInv, SafeInv, TypeOK, Builds
<1> SUFFICES ASSUME NEW p \in Procs, pc'[p] \in {"fill", "place", "journal"}
             PROVE  Effective' <= picked'[p]
  BY DEF Newer, NewerAt
<1>2. \A q \in Procs : q = p
  BY DEF Sole
<1>3. pc \in [Procs -> Labels]
  BY <1>0 DEF CommitInv, SafeInv, TypeOK
<1>4. CASE UNCHANGED <<pc, picked>>
  <2>1. NewerAt(p)
    BY <1>0 DEF Newer
  <2> QED
    BY <1>0, <1>1, <1>2, <1>4, <2>1 DEF NewerAt, CommitStep, Still, Switched, Recorded, Builds
<1>5. CASE Accept(p)
  <2>1. PICK s \in Served : picked' = [picked EXCEPT ![p] = s]
    BY <1>5 DEF Accept
  <2>2. s = published
    BY <2>1 DEF Served
  <2>3. Effective' = Effective
    BY <1>5 DEF Accept, Effective, Exists
  <2> QED
    BY <1>1, <2>1, <2>2, <2>3
<1>6. CASE FillTemp(p) \/ stageCandidate(p)
  <2>1. UNCHANGED picked /\ pc[p] \in {"fill", "place"}
    BY <1>6 DEF FillTemp, stageCandidate, local, At
  <2>2. NewerAt(p)
    BY <1>0 DEF Newer
  <2> QED
    BY <1>0, <1>1, <1>2, <2>1, <2>2 DEF NewerAt, CommitStep, Still, Switched, Recorded, Builds
<1>7. ASSUME NEW l, Go(p, l) PROVE l \in {"fill", "place", "journal"}
  BY <1>3, <1>7 DEF Go
<1>8. ASSUME NEW l, NEW cond, NEW yes, NEW no,
             yes \notin {"fill", "place", "journal"}, no \notin {"fill", "place", "journal"}
      PROVE  ~Stat(p, l, cond, yes, no)
  <2>1. (IF cond THEN yes ELSE no) \notin {"fill", "place", "journal"}
    BY <1>8
  <2> QED
    BY <1>7, <2>1 DEF Stat
<1>9. ~Repair(p) /\ ~Commit(p)
  BY <1>7, <1>8 DEF Repair, recover, recoverJournaled, DiscardCandidate, Commit, finishCommit,
                    restoreBackup, removeJournal
<1>10. Renaming(p) => UNCHANGED <<pc, picked>>
  <2>1. pc[p] \in Renames => /\ RenameOver[pc[p]].ok \notin {"fill", "place", "journal"}
                             /\ RenameOver[pc[p]].fail \notin {"fill", "place", "journal"}
    BY DEF RenameOver, Renames
  <2> QED
    BY <1>7, <2>1 DEF Renaming, RenameSucceeds, RenameFails, UnlinkDst, UnlinkDstFails
<1>11. ~Exit(p) /\ ~Crash(p) /\ \A c \in {"run", "update"} : ~Launch(p, c)
  BY <1>7 DEF Exit, Crash, Reset, Launch
<1>12. ~Refuse(p) /\ ~UpToDate(p) /\ ~writeJournal(p) /\ ~Advance(p)
  BY <1>7 DEF Refuse, UpToDate, writeJournal, Advance
<1>13. CASE Publish \/ UNCHANGED vars
  BY <1>4, <1>13 DEF Publish, vars, local
<1>14. CASE Next
  BY <1>2, <1>4, <1>5, <1>6, <1>9, <1>10, <1>11, <1>12, <1>13, <1>14 DEF Next, Vanish, selfUpdate
<1> QED
  BY <1>13, <1>14

\* While commands do not overlap, nothing else removes the target and the server
\* serves only its newest manifest, the four files, the journal and all the
\* renames implement one variable that each update changes in one step, only to
\* a newer build, and that the mark records afterwards.
THEOREM ImplementsAtomicInstall == Sole /\ ~MayVanish /\ ~StaleFeed => (Spec => AtomicSpec)
<1> SUFFICES ASSUME Sole, ~MayVanish, ~StaleFeed PROVE Spec => AtomicSpec
  OBVIOUS
<1>1. Init => AtomicInv /\ Atomic!Init
  <2> SUFFICES ASSUME Init PROVE Newer /\ Effective = 0 /\ mark = 0
    BY CommitInit DEF AtomicInv, Atomic!Init
  <2>1. fs["target"] = 0 /\ fs["journal"] = Absent /\ 0 # Absent
    BY ConstantsOK DEF Init, Files, Builds
  <2>2. Effective = 0
    BY <2>1 DEF Effective, Exists
  <2> QED
    BY <2>2 DEF Init, Newer, NewerAt
<1>2. AtomicInv /\ [Next]_vars => AtomicInv'
  BY AtomicNext, CommitNext DEF AtomicInv
<1>3. AtomicInv /\ [Next]_vars => [Atomic!Next]_<<Effective, mark>>
  <2> SUFFICES ASSUME AtomicInv, [Next]_vars PROVE [Atomic!Next]_<<Effective, mark>>
    OBVIOUS
  <2>1. Still \/ Switched \/ Recorded
    BY CommitNext DEF AtomicInv, CommitStep
  <2>2. CASE Switched
    <3>1. PICK p \in Procs : pc[p] \in {"place", "journal"} /\ mark' = mark /\ Effective' = picked[p]
      BY <2>2 DEF Switched
    <3>2. Effective <= picked[p] /\ picked[p] \in Builds /\ Effective \in Builds
      BY <3>1, EffectiveKnown DEF AtomicInv, Newer, NewerAt, CommitInv, SafeInv, TypeOK
    <3>3. CASE Effective = picked[p]
      BY <3>1, <3>3
    <3>4. CASE Effective # picked[p]
      <4>1. Atomic!Install(picked[p])
        BY <3>1, <3>2, <3>4 DEF Atomic!Install, Builds
      <4> QED
        BY <3>2, <4>1 DEF Atomic!Next
    <3> QED
      BY <3>3, <3>4
  <2>3. CASE Recorded
    BY <2>3 DEF Recorded, Atomic!Next, Atomic!Record
  <2> QED
    BY <2>1, <2>2, <2>3 DEF Still
<1> QED
  BY <1>1, <1>2, <1>3, PTL DEF Spec, AtomicSpec, Atomic!Spec
=============================================================================
