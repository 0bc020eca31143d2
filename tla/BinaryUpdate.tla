---------------------------- MODULE BinaryUpdate ----------------------------
(***************************************************************************)
(* The self-managed binary update and its startup repair                   *)
(* (pkg/supply/replace.go, recover.go, update.go, highwater.go).           *)
(*                                                                         *)
(* Commands of one install share four sibling files and nothing else: the  *)
(* binary itself, the staged candidate (.new), the last-known-good backup  *)
(* (.lkg) and the journal.  There is no lock.  Every action below is one   *)
(* system call on those files, or one decision between two of them, so     *)
(* that a crash, a failing call or another command can come between any    *)
(* two.  "tokenhush run" only repairs; "tokenhush update" repairs, fetches *)
(* a manifest and commits.                                                 *)
(*                                                                         *)
(* A build is named by the serial of the manifest that installed it; build *)
(* 0 is the one the install started with.                                  *)
(***************************************************************************)
EXTENDS Integers

CONSTANTS
  Procs,        \* command slots: how many commands may overlap
  MaxSerial,    \* bound on the serials ever published
  VersionOf,    \* VersionOf[b] is the version number of build b
  MaxFaults,    \* bound on calls that fail for a reason outside the model
  SelfHosted,   \* TRUE: a command's image is loaded from the target path
  StaleFeed,    \* TRUE: the server may serve any manifest it ever published
  MayVanish,    \* TRUE: the target may disappear while no command runs
  Absent,       \* content of a file that does not exist
  Torn          \* content of a file written in part

Builds  == 0 .. MaxSerial
Serials == 1 .. MaxSerial
Files   == {"target", "candidate", "backup", "journal"}

ASSUME ConstantsOK ==
  /\ MaxSerial \in Nat
  /\ MaxFaults \in Nat
  /\ VersionOf \in [Builds -> Nat]
  /\ SelfHosted \in BOOLEAN
  /\ StaleFeed \in BOOLEAN
  /\ MayVanish \in BOOLEAN
  /\ Absent \notin Builds
  /\ Torn \notin Builds
  /\ Absent # Torn

VARIABLES
  fs,         \* fs[f] is the content of sibling file f: a build, or for the
              \* journal the serial being committed, which nobody reads
  mark,       \* the serial in update/highwater.json
  published,  \* the newest manifest serial on the server
  faults,     \* calls that failed so far without a reason in the model
  pc,         \* pc[p] is the next call of command p
  io,         \* which call of renameOver p is at
  cmd,        \* "run" or "update"
  binary,     \* the build p's image was loaded from: u.binary
  loaded,     \* the mark as p read it when it started
  picked      \* the serial p is committing, 0 while it is not

local == <<io, cmd, binary, loaded, picked>>
vars  == <<fs, mark, published, faults, pc, local>>

(***************************************************************************)
(* The five uses of renameOver: its two paths and where the caller goes    *)
(* when it succeeds or fails.                                              *)
(***************************************************************************)
RenameOver ==
  [f_backup   |-> [src |-> "target",    dst |-> "backup", ok |-> "f_install",   fail |-> "failed"],
   f_install  |-> [src |-> "candidate", dst |-> "target", ok |-> "unjournal",   fail |-> "f_lost"],
   f_restore  |-> [src |-> "backup",    dst |-> "target", ok |-> "failed",      fail |-> "failed"],
   j_rollback |-> [src |-> "backup",    dst |-> "target", ok |-> "unjournal",   fail |-> "failed"],
   r_revive   |-> [src |-> "backup",    dst |-> "target", ok |-> "r_scrub",     fail |-> "failed"]]

Renames == {"f_backup", "f_install", "f_restore", "j_rollback", "r_revive"}

Labels ==
  {"idle", "recovered", "fill", "place", "journal", "unjournal", "advance", "done", "failed"}
  \cup {"r_journal", "r_target", "r_backup", "r_candidate", "r_discard", "r_scrub"}
  \cup {"j_candidate", "j_target", "j_backup"}
  \cup {"f_target", "f_lost", "f_kept"}
  \cup Renames

Exists(f)     == fs[f] # Absent
Runnable(f)   == fs[f] \in Builds
Go(p, l)      == pc' = [pc EXCEPT ![p] = l]
At(p, l)      == pc[p] = l
Fault         == faults < MaxFaults /\ faults' = faults + 1
NoFault       == faults' = faults
Write(f, c)   == fs' = [fs EXCEPT ![f] = c]

Reset(p) ==
  /\ Go(p, "idle")
  /\ io'     = [io EXCEPT ![p] = "rename"]
  /\ cmd'    = [cmd EXCEPT ![p] = "run"]
  /\ binary' = [binary EXCEPT ![p] = 0]
  /\ loaded' = [loaded EXCEPT ![p] = 0]
  /\ picked' = [picked EXCEPT ![p] = 0]

Init ==
  /\ fs        = [f \in Files |-> IF f = "target" THEN 0 ELSE Absent]
  /\ mark      = 0
  /\ published = 0
  /\ faults    = 0
  /\ pc        = [p \in Procs |-> "idle"]
  /\ io        = [p \in Procs |-> "rename"]
  /\ cmd       = [p \in Procs |-> "run"]
  /\ binary    = [p \in Procs |-> 0]
  /\ loaded    = [p \in Procs |-> 0]
  /\ picked    = [p \in Procs |-> 0]

-----------------------------------------------------------------------------
(* The life of a command. *)

\* The images a command can be started from.  A target that is gone cannot be
\* executed; unless SelfHosted, an operator may then start a surviving copy
\* for the same target path, which is what the interrupted-commit tests do.
Images ==
  IF Runnable("target") THEN {fs["target"]}
  ELSE IF SelfHosted THEN {}
  ELSE {fs["backup"], fs["candidate"]} \cap Builds

Launch(p, c) ==
  /\ At(p, "idle")
  /\ \E b \in Images : binary' = [binary EXCEPT ![p] = b]
  /\ cmd'    = [cmd EXCEPT ![p] = c]
  /\ loaded' = [loaded EXCEPT ![p] = IF c = "update" THEN mark ELSE 0]
  /\ Go(p, "r_journal")
  /\ UNCHANGED <<fs, mark, published, faults, io, picked>>

\* The command returns; a gateway that recovered goes on to serve and touches
\* none of these files again.
Exit(p) ==
  /\ \/ pc[p] \in {"done", "failed"}
     \/ At(p, "recovered") /\ cmd[p] = "run"
  /\ Reset(p)
  /\ UNCHANGED <<fs, mark, published, faults>>

\* The process dies before its next call.
Crash(p) ==
  /\ ~At(p, "idle")
  /\ Reset(p)
  /\ UNCHANGED <<fs, mark, published, faults>>

Publish ==
  /\ published < MaxSerial
  /\ published' = published + 1
  /\ UNCHANGED <<fs, mark, faults, pc, local>>

\* External: "a committed install whose target later disappeared"; without a
\* backup there would be nothing for recovery to restore.
Vanish ==
  /\ MayVanish
  /\ \A p \in Procs : At(p, "idle")
  /\ Exists("backup")
  /\ Write("target", Absent)
  /\ UNCHANGED <<mark, published, faults, pc, local>>

-----------------------------------------------------------------------------
(* renameOver: rename; if that fails remove the destination and retry. *)

RenameSucceeds(p) ==
  /\ pc[p] \in Renames
  /\ io[p] \in {"rename", "retry"}
  /\ LET r == RenameOver[pc[p]]
     IN  /\ Exists(r.src)
         /\ fs' = [fs EXCEPT ![r.dst] = fs[r.src], ![r.src] = Absent]
         /\ Go(p, r.ok)
  /\ io' = [io EXCEPT ![p] = "rename"]
  /\ UNCHANGED <<mark, published, faults, cmd, binary, loaded, picked>>

RenameFails(p) ==
  /\ pc[p] \in Renames
  /\ LET r == RenameOver[pc[p]]
     IN  /\ IF Exists(r.src) THEN Fault ELSE NoFault
         /\ \/ /\ io[p] = "rename"
               /\ io' = [io EXCEPT ![p] = "unlink"]
               /\ UNCHANGED pc
            \/ /\ io[p] = "retry"
               /\ io' = [io EXCEPT ![p] = "rename"]
               /\ Go(p, r.fail)
  /\ UNCHANGED <<fs, mark, published, cmd, binary, loaded, picked>>

\* os.Remove(dst): a destination that is already gone is no error.
UnlinkDst(p) ==
  /\ pc[p] \in Renames
  /\ io[p] = "unlink"
  /\ Write(RenameOver[pc[p]].dst, Absent)
  /\ io' = [io EXCEPT ![p] = "retry"]
  /\ UNCHANGED <<mark, published, faults, pc, cmd, binary, loaded, picked>>

UnlinkDstFails(p) ==
  /\ pc[p] \in Renames
  /\ io[p] = "unlink"
  /\ Exists(RenameOver[pc[p]].dst)
  /\ Fault
  /\ io' = [io EXCEPT ![p] = "rename"]
  /\ Go(p, RenameOver[pc[p]].fail)
  /\ UNCHANGED <<fs, mark, published, cmd, binary, loaded, picked>>

-----------------------------------------------------------------------------
(* recover and recoverJournaled: which files exist decides the repair. *)

\* One os.Stat and the branch it decides: label, condition, then, else.
Stat(p, l, cond, yes, no) ==
  /\ At(p, l)
  /\ Go(p, IF cond THEN yes ELSE no)
  /\ UNCHANGED <<fs, mark, published, faults, local>>

\* Mutant of recover: the backup is looked at before the target.
recover_BackupFirst(p) ==
  \/ Stat(p, "r_journal",   Exists("journal"),   "j_candidate", "r_backup")
  \/ Stat(p, "r_backup",    Exists("backup"),    "r_revive",    "r_target")
  \/ Stat(p, "r_target",    Exists("target"),    "r_candidate", "r_candidate")
  \/ Stat(p, "r_candidate", Exists("candidate"), "r_discard",   "recovered")

recover(p) ==
  \/ Stat(p, "r_journal",   Exists("journal"),   "j_candidate", "r_target")
  \/ Stat(p, "r_target",    Exists("target"),    "r_candidate", "r_backup")
  \/ Stat(p, "r_backup",    Exists("backup"),    "r_revive",    "r_candidate")
  \/ Stat(p, "r_candidate", Exists("candidate"), "r_discard",   "recovered")

\* Mutant of recoverJournaled: the journal is dropped without a rollback.
recoverJournaled_NoRollback(p) ==
  \/ Stat(p, "j_candidate", Exists("candidate"), "f_target",  "j_target")
  \/ Stat(p, "j_target",    Exists("target"),    "unjournal", "unjournal")

recoverJournaled(p) ==
  \/ Stat(p, "j_candidate", Exists("candidate"), "f_target",    "j_target")
  \/ Stat(p, "j_target",    Exists("target"),    "unjournal",   "j_backup")
  \/ Stat(p, "j_backup",    Exists("backup"),    "j_rollback",  "failed")

\* Removing the candidate: an error is returned when the candidate is all
\* there is to clean, and ignored after the backup was brought back.
DiscardCandidate(p) ==
  /\ pc[p] \in {"r_discard", "r_scrub"}
  /\ \/ /\ Write("candidate", Absent)
        /\ NoFault
        /\ Go(p, "recovered")
     \/ /\ Exists("candidate")
        /\ Fault
        /\ UNCHANGED fs
        /\ Go(p, IF At(p, "r_scrub") THEN "recovered" ELSE "failed")
  /\ UNCHANGED <<mark, published, local>>

-----------------------------------------------------------------------------
(* finishCommit, restoreBackup and removeJournal. *)

\* Mutant of finishCommit: the candidate goes over the target, no backup kept.
finishCommit_NoBackup(p) == Stat(p, "f_target", Exists("target"), "f_install", "f_install")

finishCommit(p)  == Stat(p, "f_target", Exists("target"), "f_backup", "f_install")

\* Mutant of restoreBackup: a failed install is not undone.
restoreBackup_Dropped(p) == Stat(p, "f_lost", Exists("target"), "failed", "failed")

restoreBackup(p) ==
  \/ Stat(p, "f_lost", Exists("target"), "failed",    "f_kept")
  \/ Stat(p, "f_kept", Exists("backup"), "f_restore", "failed")

\* The error of the removal is ignored.
removeJournal(p) ==
  /\ At(p, "unjournal")
  /\ \/ Write("journal", Absent) /\ NoFault
     \/ Exists("journal") /\ Fault /\ UNCHANGED fs
  /\ Go(p, IF picked[p] = 0 THEN "recovered" ELSE "advance")
  /\ UNCHANGED <<mark, published, local>>

-----------------------------------------------------------------------------
(* selfUpdate after its own Recover. *)

Served == IF StaleFeed THEN 1 .. published ELSE {published} \ {0}

\* Fetching or verifying a document, one of its gates, or the download fails.
Refuse(p) ==
  /\ At(p, "recovered") /\ cmd[p] = "update"
  /\ Go(p, "failed")
  /\ UNCHANGED <<fs, mark, published, faults, local>>

UpToDate(p) ==
  /\ At(p, "recovered") /\ cmd[p] = "update"
  /\ loaded[p] \in Served
  /\ Go(p, "done")
  /\ UNCHANGED <<fs, mark, published, faults, local>>

\* Mutant of Accept: the mark is recorded before the commit.
Accept_MarkFirst(p) ==
  /\ At(p, "recovered") /\ cmd[p] = "update"
  /\ \E s \in Served :
       /\ s > loaded[p]
       /\ VersionOf[s] >= VersionOf[binary[p]]
       /\ picked' = [picked EXCEPT ![p] = s]
       /\ mark' = s
  /\ Go(p, "fill")
  /\ UNCHANGED <<fs, published, faults, io, cmd, binary, loaded>>

\* The manifest is above the mark p loaded and not below the version of the
\* image p was started from; the artifact is downloaded and its digest agrees.
Accept(p) ==
  /\ At(p, "recovered") /\ cmd[p] = "update"
  /\ \E s \in Served :
       /\ s > loaded[p]
       /\ VersionOf[s] >= VersionOf[binary[p]]
       /\ picked' = [picked EXCEPT ![p] = s]
  /\ Go(p, "fill")
  /\ UNCHANGED <<fs, mark, published, faults, io, cmd, binary, loaded>>

\* Mutant of FillTemp: the candidate is written in place.
FillTemp_InPlace(p) ==
  /\ At(p, "fill")
  /\ \/ Write("candidate", Torn) /\ Go(p, "place") /\ NoFault
     \/ UNCHANGED fs /\ Go(p, "failed") /\ Fault
  /\ UNCHANGED <<mark, published, local>>

\* writeFileMode: a temporary file no one else knows of is filled and synced,
\* then renamed into place by stageCandidate.
FillTemp(p) ==
  /\ At(p, "fill")
  /\ \/ Go(p, "place") /\ NoFault
     \/ Go(p, "failed") /\ Fault
  /\ UNCHANGED <<fs, mark, published, local>>

stageCandidate(p) ==
  /\ At(p, "place")
  /\ \/ Write("candidate", picked[p]) /\ NoFault /\ Go(p, "journal")
     \/ UNCHANGED fs /\ Fault /\ Go(p, "failed")
  /\ UNCHANGED <<mark, published, local>>

writeJournal(p) ==
  /\ At(p, "journal")
  /\ \/ Write("journal", picked[p]) /\ NoFault /\ Go(p, "f_target")
     \/ UNCHANGED fs /\ Fault /\ Go(p, "failed")
  /\ UNCHANGED <<mark, published, local>>

\* FileHighWater.Advance compares with the mark it loaded, not with the file.
Advance(p) ==
  /\ At(p, "advance")
  /\ \/ mark' = picked[p] /\ NoFault /\ Go(p, "done")
     \/ UNCHANGED mark /\ Fault /\ Go(p, "failed")
  /\ UNCHANGED <<fs, published, local>>

-----------------------------------------------------------------------------

Repair(p)  == recover(p) \/ recoverJournaled(p) \/ DiscardCandidate(p)
Commit(p)  == finishCommit(p) \/ restoreBackup(p) \/ removeJournal(p)
Renaming(p) == RenameSucceeds(p) \/ RenameFails(p) \/ UnlinkDst(p) \/ UnlinkDstFails(p)
selfUpdate(p) ==
  \/ Refuse(p) \/ UpToDate(p) \/ Accept(p) \/ FillTemp(p)
  \/ stageCandidate(p) \/ writeJournal(p) \/ Advance(p)

Next ==
  \/ Publish
  \/ Vanish
  \/ \E p \in Procs :
       \/ \E c \in {"run", "update"} : Launch(p, c)
       \/ Exit(p) \/ Crash(p)
       \/ Repair(p) \/ Commit(p) \/ Renaming(p) \/ selfUpdate(p)

Spec == Init /\ [][Next]_vars

-----------------------------------------------------------------------------
(* Properties. *)

\* Every file holds a whole build or is absent, and every command is at one of
\* its calls.  That no file is ever Torn is the atomicity of writeFileMode.
TypeOK ==
  /\ fs \in [Files -> Builds \cup {Absent}]
  /\ mark \in Builds
  /\ published \in Builds
  /\ faults \in 0 .. MaxFaults
  /\ pc \in [Procs -> Labels]
  /\ io \in [Procs -> {"rename", "unlink", "retry"}]
  /\ cmd \in [Procs -> {"run", "update"}]
  /\ binary \in [Procs -> Builds]
  /\ loaded \in [Procs -> Builds]
  /\ picked \in [Procs -> Builds]

\* Whatever call a command died before, and whatever calls failed, a whole
\* build is left at the target or at the backup recovery restores from
\* (replace.go 6-8: never a truncated or missing binary).
Recoverable == Runnable("target") \/ Runnable("backup")

\* A repair that returns without an error leaves a whole build at the target
\* (recover.go 3-7: the previous one or the new one).
RepairedRuns == \A p \in Procs : At(p, "recovered") => Runnable("target")

\* A command that returns, with or without an error, leaves a whole build at
\* the target as long as at most three calls failed, which is one less than it
\* takes to fail both the install and its restore (replace.go 130-131: a
\* failed commit never leaves the install without a runnable binary).
FailureKeepsBinary ==
  \A p \in Procs : pc[p] \in {"done", "failed"} /\ faults <= 3 => Runnable("target")

\* The build the install stands for: what a repair would leave at the target.
Effective ==
  IF Exists("journal") /\ Exists("candidate") THEN fs["candidate"]
  ELSE IF Exists("target") THEN fs["target"]
  ELSE fs["backup"]

\* The mark is recorded last, so it never runs ahead of what is installed: a
\* serial the mark covers is never "up to date" while an older build is in
\* place (update.go 246-252 and 274).
MarkCovered == mark <= Effective

\* A step never replaces the installed build by one of a lower version
\* (source.go 149-152: a lower candidate is a downgrade and is refused).
NoDowngrade == [][VersionOf[Effective'] >= VersionOf[Effective]]_vars

\* Seen from outside, the four files and all the renames are one variable that
\* each update changes in one step, and only to a newer build (replace.go 6-8:
\* either the old binary or the new one).
Atomic == INSTANCE AtomicInstall WITH installed <- Effective
AtomicSpec == Atomic!Spec

\* Without a crash, without a failing call, and with any other command running
\* beside it, some whole build of the install survives (replace.go 6-8).
SomeBuildSurvives == \E f \in {"target", "candidate", "backup"} : Runnable(f)

\* An install that no command is working on can be started again
\* (recover.go 3-7: recovery, which runs at the start of a command, repairs
\* the install no matter which rename the process died around).
Startable == (\A p \in Procs : At(p, "idle")) => Images # {}

=============================================================================
