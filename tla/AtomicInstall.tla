---------------------------- MODULE AtomicInstall ---------------------------
(***************************************************************************)
(* What a self-managed install promises: it always stands for exactly one  *)
(* build, an update replaces it by a later build in one step, and the      *)
(* anti-rollback mark records a build only once it is the installed one.   *)
(***************************************************************************)
EXTENDS Integers

CONSTANT Builds

VARIABLES
  installed,  \* the build the install stands for
  mark        \* the serial of the last update that was recorded

Init == installed = 0 /\ mark = 0

Install(b) ==
  /\ b > installed
  /\ installed' = b
  /\ UNCHANGED mark

Record ==
  /\ mark < installed
  /\ mark' = installed
  /\ UNCHANGED installed

Next == Record \/ \E b \in Builds : Install(b)

Spec == Init /\ [][Next]_<<installed, mark>>
=============================================================================
