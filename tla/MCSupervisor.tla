---------------------------- MODULE MCSupervisor ----------------------------
(***************************************************************************)
(* Model checking of Supervisor.  The .cfg files give the constants their  *)
(* values; this module adds the claims that the repository makes and the   *)
(* code does not keep, each checked by a run that finds it violated.       *)
(***************************************************************************)
EXTENDS Supervisor

\* A server that is not wanted and is not running stays down until a command
\* wants it again ("startup cancelled", main.go:243).  The code violates it:
\* a stop taken in retryCurrent falls through to recoverFromBackups.
StopIsFinal == [][~desired /\ ~desired' /\ ~Alive("live") => ~Alive("live")']_vars

\* The world is not replaced because a backup could not be made ("daily
\* backup failed" is only reported, minecera-supervisor.sh:527).  The code
\* violates it: monitor returns the error of the daily backup.
BackupFailureKeepsWorld == [][pc = "preserve" /\ err = "backup" => world' = world]_vars

\* The world is not replaced while a "restart" is being obeyed ("restarted
\* without backup restore", minecera-supervisor.sh:455).  The code violates it:
\* only the round of runCurrent looks at noRecoveryOnce.
RestartKeepsWorld == [][pc = "preserve" /\ noRecoveryOnce => world' = world]_vars
=============================================================================
