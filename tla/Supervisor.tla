----------------------------- MODULE Supervisor -----------------------------
(***************************************************************************)
(* The main goroutine of supervisor/main.go and what it keeps: the child   *)
(* process, the live world, the quarantine and the backups.                *)
(*                                                                         *)
(* The goroutine is one thread of control that waits in several places.    *)
(* pc names the place; caller, by and dir stand for the call stack (who    *)
(* called monitor, who called createBackup, which directory startChecked   *)
(* was given).  A control command may be read at every select of the code  *)
(* that reads controlCh; how commands reach that queue is modelled in      *)
(* ControlPlane.                                                           *)
(***************************************************************************)
EXTENDS Worlds

CONSTANTS
    CurrentRetries,  \* currentRetries: attempts at the current world
    MaxBackups,      \* maxBackups: healthy backups kept
    Faults,          \* which of AllFaults may happen
    MaxVer,          \* bound: versions of the world players may create
    MaxStamp         \* bound: backups that may be promoted

AllFaults == {"crash", "spawn", "copy", "write", "rename", "remove", "input"}

ASSUME ParamAssumption ==
    /\ CurrentRetries \in Nat
    /\ MaxBackups \in Nat \ {0}
    /\ Faults \subseteq AllFaults
    /\ MaxVer \in Nat
    /\ MaxStamp \in Nat
    /\ NoWorld \notin World

NoBackup == [stamp |-> 0, data |-> Fresh]

VARIABLES
    desired,         \* Supervisor.desired
    noRecoveryOnce,  \* Supervisor.noRecoveryOnce
    pc,              \* where the main goroutine is
    caller,          \* whose call of startChecked / monitor is on the stack
    retry,           \* the loop variable of retryCurrent
    by,              \* who asked for the backup in progress, if any
    err,             \* what kind of error was returned last
    candidate,       \* the world in backups/.candidate-<stamp>
    proc,            \* the child started in each directory
    out,             \* what the current child has printed so far
    dir,             \* the directory of the child being started or probed
    untried,         \* recoverFromBackups: backups of the listing not yet tried
    trying,          \* recoverFromBackups: the loop variable
    preserved,       \* recoverFromBackups: the world renamed to preserved
    world,           \* worldDir
    quarantine,      \* the worlds under run/quarantine
    backups,         \* the directories of backups/ that hold HEALTHY
    due,             \* backupDue(): no backup yet on the day of the clock
    ver,             \* history: the newest version any player has made
    stamp,           \* history: the newest backup name given
    tips,            \* history: worlds served to players, each at its last version
    stray            \* history: a server that runs although no frame holds its Process

cmd     == <<desired, noRecoveryOnce>>
frame   == <<caller, retry>>
ret     == <<pc, by, err>>
child   == <<proc, out, dir>>
loop    == <<untried, trying, preserved>>
store   == <<world, quarantine, backups>>
history == <<ver, stamp, tips, stray>>
vars    == <<cmd, ret, frame, candidate, child, loop, store, due, history>>

PC == {"main", "ran", "spawn", "ready", "health", "monitor", "stop", "copy",
       "validate", "probeStop", "promote", "prune", "retry", "recover",
       "preserve", "restore", "remove", "revert", "exhausted", "exited", "down"}
Dir == {"live", "probe"}

TypeOK ==
    /\ desired \in BOOLEAN
    /\ noRecoveryOnce \in BOOLEAN
    /\ pc \in PC
    /\ caller \in {"run", "retry", "recover"}
    /\ retry \in 0..CurrentRetries
    /\ by \in {"none", "ticker", "control"}
    /\ err \in {"none", "start", "exit", "backup", "copy"}
    /\ candidate \in World \cup {NoWorld}
    /\ proc \in [Dir -> {"none", "alive", "clean", "failed"}]
    /\ out \in {"silent", "done", "list"}
    /\ dir \in Dir
    /\ untried \subseteq Backup
    /\ trying \in Backup
    /\ preserved \in World \cup {NoWorld}
    /\ world \in World \cup {NoWorld}
    /\ quarantine \subseteq World
    /\ backups \subseteq Backup
    /\ due \in BOOLEAN
    /\ ver \in Nat
    /\ stamp \in Nat
    /\ tips \subseteq World
    /\ stray \in {"none", "runs", "ended"}

Init ==
    /\ desired = TRUE
    /\ noRecoveryOnce = FALSE
    /\ pc = "main"
    /\ caller = "run"
    /\ retry = 0
    /\ by = "none"
    /\ err = "none"
    /\ candidate = NoWorld
    /\ proc = [d \in Dir |-> "none"]
    /\ out = "silent"
    /\ dir = "live"
    /\ untried = {}
    /\ trying = NoBackup
    /\ preserved = NoWorld
    /\ world = Fresh
    /\ quarantine = {}
    /\ backups = {}
    /\ due = TRUE
    /\ ver = 0
    /\ stamp = 0
    /\ tips = {Fresh}
    /\ stray = "none"

Alive(d) == proc[d] = "alive"

Enter(l) == pc' = l /\ UNCHANGED <<by, err>>

\* Mutant: the process is not killed.
KillsNothing(d) == UNCHANGED proc

\* Process.kill: a process that has exited keeps its status.
Kill(d) == proc' = [proc EXCEPT ![d] = IF @ = "alive" THEN "failed" ELSE @]

-----------------------------------------------------------------------------
(* Returns.  Each operator says where a return of one function leaves the  *)
(* goroutine, given the error and the value desired has by then.           *)

\* monitor returns e (the word "none" for nil) to runCurrent, retryCurrent
\* or recoverFromBackups.
MonitorReturns(e) ==
    /\ by' = "none"
    /\ err' = e
    /\ pc' = CASE caller = "run"     -> "ran"
               [] caller = "retry"   -> IF e = "none" /\ desired' THEN "main" ELSE "retry"
               [] caller = "recover" -> IF e = "none" \/ ~desired' THEN "main" ELSE "exhausted"

\* createBackup returns e after stopProcess has cleared s.process: the ticker
\* arm of monitor returns the error, the control arm logs it and returns nil.
BackupReturns(e) == MonitorReturns(IF by = "ticker" THEN e ELSE "none")

\* validateBackup returns an error: createBackup removes its candidate,
\* recoverFromBackups goes on with the next backup.
Rejected ==
    \/ by = "none" /\ Enter("recover") /\ UNCHANGED candidate
    \/ by # "none" /\ BackupReturns("backup") /\ candidate' = NoWorld

\* startChecked returns an error.
StartFails ==
    \/ dir = "probe" /\ Rejected
    \/ /\ dir = "live"
       /\ err' = "start"
       /\ pc' = CASE caller = "run"     -> "ran"
                  [] caller = "retry"   -> "retry"
                  [] caller = "recover" -> "remove"
       /\ UNCHANGED <<by, candidate>>

\* startChecked returns the healthy process.
StartSucceeds == Enter(IF dir = "probe" THEN "probeStop" ELSE "monitor")

-----------------------------------------------------------------------------
(* main, runCurrent, retryCurrent.                                         *)

Main ==
    /\ pc = "main"
    /\ Enter(IF desired THEN "spawn" ELSE "exited")
    /\ caller' = "run"
    /\ retry' = 0
    /\ dir' = "live"
    /\ untried' = {}
    /\ trying' = NoBackup
    /\ preserved' = NoWorld
    /\ proc' = [d \in Dir |-> IF Alive(d) THEN "alive" ELSE "none"]
    /\ out' = "silent"
    /\ UNCHANGED <<cmd, candidate, store, due, history>>

\* Mutant: the test of desired after runCurrent is missing.
RanIgnoresStop ==
    /\ pc = "ran"
    /\ \/ err = "none" /\ Enter("main") /\ UNCHANGED <<noRecoveryOnce, caller>>
       \/ /\ err # "none" /\ noRecoveryOnce
          /\ noRecoveryOnce' = FALSE
          /\ Enter("main")
          /\ UNCHANGED caller
       \/ /\ err # "none" /\ ~noRecoveryOnce
          /\ Enter("retry")
          /\ caller' = "retry"
          /\ UNCHANGED noRecoveryOnce
    /\ UNCHANGED <<desired, retry, candidate, child, loop, store, due, history>>

\* runCurrent has returned err.
Ran ==
    /\ pc = "ran"
    /\ \/ ~desired /\ Enter("exited") /\ UNCHANGED <<noRecoveryOnce, caller>>
       \/ desired /\ err = "none" /\ Enter("main") /\ UNCHANGED <<noRecoveryOnce, caller>>
       \/ /\ desired /\ err # "none" /\ noRecoveryOnce
          /\ noRecoveryOnce' = FALSE
          /\ Enter("main")
          /\ UNCHANGED caller
       \/ /\ desired /\ err # "none" /\ ~noRecoveryOnce
          /\ Enter("retry")
          /\ caller' = "retry"
          /\ UNCHANGED noRecoveryOnce
    /\ UNCHANGED <<desired, retry, candidate, child, loop, store, due, history>>

\* Mutants: the loop of retryCurrent runs once too often, or stops early.
OneRetryMore == retry <= CurrentRetries
OneRetryLess == retry + 1 < CurrentRetries

\* The condition of the loop of retryCurrent.
MoreRetries == retry < CurrentRetries

\* Mutant: the loop of retryCurrent does not count.
RetryForever ==
    /\ pc = "retry"
    /\ \/ /\ MoreRetries /\ desired
          /\ UNCHANGED retry
          /\ Enter("spawn")
          /\ UNCHANGED <<caller, untried>>
       \/ /\ ~MoreRetries \/ ~desired
          /\ caller' = "recover"
          /\ untried' = backups
          /\ Enter("recover")
          /\ UNCHANGED retry
    /\ dir' = "live"
    /\ UNCHANGED <<cmd, candidate, proc, out, trying, preserved, store, due, history>>

\* The head of the loop of retryCurrent; when the loop is left, main calls
\* recoverFromBackups, which lists the healthy backups.
Retry ==
    /\ pc = "retry"
    /\ \/ /\ MoreRetries /\ desired
          /\ retry' = retry + 1
          /\ Enter("spawn")
          /\ UNCHANGED <<caller, untried>>
       \/ /\ ~MoreRetries \/ ~desired
          /\ caller' = "recover"
          /\ untried' = backups
          /\ Enter("recover")
          /\ UNCHANGED retry
    /\ dir' = "live"
    /\ UNCHANGED <<cmd, candidate, proc, out, trying, preserved, store, due, history>>

\* recoverFromBackups has returned false: main logs and sleeps.
Exhausted ==
    /\ pc = "exhausted"
    /\ Enter("main")
    /\ UNCHANGED <<cmd, frame, candidate, child, loop, store, due, history>>

-----------------------------------------------------------------------------
(* startChecked, waitReady, healthCheck.                                   *)

\* Everything of startChecked before waitReady; any of its steps may fail.
Spawn ==
    /\ pc = "spawn"
    /\ UNCHANGED cmd
    /\ \/ /\ proc' = [proc EXCEPT ![dir] = "alive"]
          /\ out' = "silent"
          /\ Enter("ready")
          /\ UNCHANGED candidate
       \/ /\ "spawn" \in Faults
          /\ StartFails
          /\ UNCHANGED <<proc, out>>
    /\ UNCHANGED <<frame, dir, loop, store, due, history>>

\* waitReady reads the "Done (" line and healthCheck writes "list".
ReadySawDone ==
    /\ pc = "ready"
    /\ out = "done"
    /\ Enter("health")
    /\ UNCHANGED <<cmd, frame, candidate, child, loop, store, due, history>>

\* healthCheck reads the reply.  The line may have been buffered by a
\* process that has exited since.
HealthSawList ==
    /\ pc = "health"
    /\ out = "list"
    /\ StartSucceeds
    /\ out' = "silent"
    /\ UNCHANGED <<cmd, frame, candidate, proc, dir, loop, store, due, history>>

\* Every other way out of waitReady and healthCheck: the deadline, the exit
\* of the process, a failed write.  startChecked kills what is left.
WaitFails ==
    /\ pc \in {"ready", "health"}
    /\ UNCHANGED cmd
    /\ Kill(dir)
    /\ StartFails
    /\ out' = "silent"
    /\ UNCHANGED <<frame, dir, loop, store, due, history>>

\* handleStartupCommand, for the three kinds of command, and the test of
\* desired that follows it.  Commands that are ignored change nothing as
\* long as the server is wanted.
StartupCommand ==
    /\ pc \in {"ready", "health"}
    /\ \/ desired' = FALSE /\ UNCHANGED noRecoveryOnce
       \/ noRecoveryOnce' = TRUE /\ UNCHANGED desired
       \/ ~desired /\ UNCHANGED cmd
    /\ Kill(dir)
    /\ IF desired' THEN Enter(pc) /\ UNCHANGED candidate ELSE StartFails
    /\ UNCHANGED <<frame, out, dir, loop, store, due, history>>

-----------------------------------------------------------------------------
(* monitor, handleControl, stopProcess.                                    *)

MonitorExit ==
    /\ pc = "monitor"
    /\ UNCHANGED cmd
    /\ ~Alive("live")
    /\ MonitorReturns(IF proc["live"] = "clean" THEN "none" ELSE "exit")
    /\ UNCHANGED <<frame, candidate, child, loop, store, due, history>>

\* createBackup, up to the call of stopProcess, for the ticker or for a
\* control command.  It refuses when the process is gone, and it returns the
\* error of writing "save-all flush" to one that runs: the ticker arm of
\* monitor returns that error, and the caller of monitor lets go of the
\* process without a kill.  The control arm logs it and goes on.
BackupStarts(who) ==
    /\ pc = "monitor"
    /\ UNCHANGED cmd
    /\ stamp < MaxStamp
    /\ \/ /\ Alive("live")
          /\ by' = who
          /\ pc' = "stop"
          /\ UNCHANGED <<err, proc, stray>>
       \/ /\ ~Alive("live")
          /\ who = "ticker"
          /\ MonitorReturns("exit")
          /\ UNCHANGED <<proc, stray>>
       \/ /\ Alive("live") /\ "input" \in Faults
          /\ who = "ticker"
          /\ MonitorReturns("backup")
          /\ proc' = [proc EXCEPT !["live"] = "none"]
          /\ stray' = "runs"
    /\ UNCHANGED <<frame, candidate, out, dir, loop, store, due, ver, stamp, tips>>

MonitorTick == due /\ BackupStarts("ticker")
ControlBackup == BackupStarts("control")

\* "stop", "restart": stopProcess is called with the new value of desired.
ControlStops ==
    /\ pc = "monitor"
    /\ \/ desired' = FALSE /\ UNCHANGED noRecoveryOnce
       \/ desired' = TRUE /\ noRecoveryOnce' = TRUE
    /\ Enter("stop")
    /\ UNCHANGED <<frame, candidate, child, loop, store, due, history>>

\* "start" only wants the server that is already there.
ControlStart ==
    /\ pc = "monitor"
    /\ desired' = TRUE
    /\ UNCHANGED <<noRecoveryOnce, ret, frame, candidate, child, loop, store, due, history>>

\* Any command that does not stop the process ("status", "save", "reload", a
\* console line, a "backup" that is refused or cannot write): monitor returns
\* when the server is not wanted, with the process still running.
ControlOther ==
    /\ pc = "monitor"
    /\ UNCHANGED cmd
    /\ ~desired
    /\ MonitorReturns("none")
    /\ UNCHANGED <<frame, candidate, child, loop, store, due, history>>

\* stopProcess returns: the process has exited, or the timeout has killed it.
\* createBackup goes on only after a clean exit.
StopProcess ==
    /\ pc = "stop"
    /\ UNCHANGED cmd
    /\ Kill("live")
    /\ \/ by = "none" /\ MonitorReturns("none")
       \/ by # "none" /\ proc'["live"] = "failed" /\ BackupReturns("exit")
       \/ by # "none" /\ proc'["live"] # "failed" /\ Enter("copy")
    /\ UNCHANGED <<frame, candidate, out, dir, loop, store, due, history>>

-----------------------------------------------------------------------------
(* createBackup after stopProcess, validateBackup, pruneBackups.           *)

Copy ==
    /\ pc = "copy"
    /\ UNCHANGED cmd
    /\ \/ /\ world # NoWorld
          /\ \/ candidate' = world
             \/ stray = "runs" /\ candidate' = Torn(world)
          /\ Enter("validate")
       \/ /\ world = NoWorld \/ "copy" \in Faults
          /\ candidate' = NoWorld
          /\ BackupReturns("backup")
    /\ UNCHANGED <<frame, child, loop, store, due, history>>

\* The world validateBackup was given.
Subject == IF by = "none" THEN trying.data ELSE candidate

\* validateBackup up to startChecked: level.dat may be missing from a torn
\* world, and building the probe directory may fail.
Validate ==
    /\ pc = "validate"
    /\ UNCHANGED cmd
    /\ \/ dir' = "probe" /\ Enter("spawn") /\ UNCHANGED candidate
       \/ /\ "copy" \in Faults \/ ~Subject.whole
          /\ Rejected
          /\ UNCHANGED dir
    /\ UNCHANGED <<frame, proc, out, loop, store, due, history>>

\* Mutant: the exit status of the probe is not looked at.
ProbeExited == ~Alive("probe")

\* exitError() of the probe is nil.
ProbePassed == proc["probe"] = "clean"

\* The probe has exited with status 0 after "stop".
ProbePasses ==
    /\ pc = "probeStop"
    /\ ProbePassed
    /\ Enter(IF by = "none" THEN "preserve" ELSE "promote")
    /\ dir' = "live"
    /\ UNCHANGED <<cmd, frame, candidate, proc, out, loop, store, due, history>>

\* "stop" could not be written, the exit status is an error, or the timeout
\* has killed the probe.
ProbeFails ==
    /\ pc = "probeStop"
    /\ UNCHANGED cmd
    /\ Kill("probe")
    /\ Rejected
    /\ dir' = "live"
    /\ UNCHANGED <<frame, out, loop, store, due, history>>

\* metadata, HEALTHY and the rename that makes the candidate a backup.
Promote ==
    /\ pc = "promote"
    /\ UNCHANGED cmd
    /\ candidate' = NoWorld
    /\ \/ /\ backups' = backups \cup {[stamp |-> stamp + 1, data |-> candidate]}
          /\ stamp' = stamp + 1
          /\ Enter("prune")
       \/ /\ {"write", "rename"} \cap Faults # {}
          /\ BackupReturns("backup")
          /\ UNCHANGED <<backups, stamp>>
    /\ UNCHANGED <<frame, child, loop, world, quarantine, due, ver, tips, stray>>

\* Mutant: the listing of the backups is not reversed.
DoomedNewest == {b \in backups : Cardinality({c \in backups : c.stamp < b.stamp}) >= MaxBackups}

\* Mutant: one backup too few is kept.
DoomedOneMore == {b \in backups : Cardinality({c \in backups : c.stamp > b.stamp}) + 1 >= MaxBackups}

\* list[maxBackups:] of healthyBackups, newest first.
Doomed == {b \in backups : Cardinality({c \in backups : c.stamp > b.stamp}) >= MaxBackups}

\* last-backup-date is written (a failure is ignored), pruneBackups runs, and
\* createBackup returns nil.
Prune ==
    /\ pc = "prune"
    /\ UNCHANGED cmd
    /\ due' = FALSE \/ ("write" \in Faults /\ due' = due)
    /\ \/ backups' = backups \ Doomed
       \/ /\ "remove" \in Faults
          /\ \E rest \in Leftovers(Doomed) : backups' = (backups \ Doomed) \cup rest
    /\ BackupReturns("none")
    /\ UNCHANGED <<frame, candidate, child, loop, world, quarantine, history>>

-----------------------------------------------------------------------------
(* recoverFromBackups.                                                     *)

\* Mutant: the listing is not reversed.
Oldest(b, S) == \A c \in S : c.stamp >= b.stamp

\* The first of a listing sorted in reverse.
Newest(b, S) == \A c \in S : c.stamp <= b.stamp

\* The head of the loop: the newest backup not yet tried is validated.
Recover ==
    /\ pc = "recover"
    /\ \/ untried = {} /\ Enter("exhausted") /\ UNCHANGED <<untried, trying>>
       \/ \E b \in untried :
              /\ Newest(b, untried)
              /\ trying' = b
              /\ untried' = untried \ {b}
              /\ Enter("validate")
    /\ dir' = "live"
    /\ UNCHANGED <<cmd, frame, candidate, proc, out, preserved, store, due, history>>

\* Mutant: the world is removed instead of renamed.
PreserveDeletes ==
    /\ pc = "preserve"
    /\ \/ /\ world # NoWorld
          /\ preserved' = world
          /\ UNCHANGED quarantine
          /\ world' = NoWorld
          /\ Enter("restore")
       \/ /\ world = NoWorld \/ "rename" \in Faults
          /\ Enter("exhausted")
          /\ UNCHANGED <<preserved, quarantine, world>>
    /\ UNCHANGED <<cmd, frame, candidate, child, untried, trying, backups, due, history>>

\* Rename(worldDir, preserved); a missing world cannot be renamed.
Preserve ==
    /\ pc = "preserve"
    /\ \/ /\ world # NoWorld
          /\ preserved' = world
          /\ quarantine' = quarantine \cup {world}
          /\ world' = NoWorld
          /\ Enter("restore")
       \/ /\ world = NoWorld \/ "rename" \in Faults
          /\ Enter("exhausted")
          /\ UNCHANGED <<preserved, quarantine, world>>
    /\ UNCHANGED <<cmd, frame, candidate, child, untried, trying, backups, due, history>>

\* Mutant: a failed copy is not removed before the rename.
RestoreLeavesPartial ==
    /\ pc = "restore"
    /\ \/ world' = trying.data /\ Enter("spawn")
       \/ /\ "copy" \in Faults
          /\ world' \in {NoWorld, Torn(trying.data)}
          /\ err' = "copy"
          /\ pc' = "revert"
          /\ UNCHANGED by
    /\ UNCHANGED <<cmd, frame, candidate, child, loop, quarantine, backups, due, history>>

\* copyTree straight into worldDir; a failure may leave part of the copy.
Restore ==
    /\ pc = "restore"
    /\ \/ world' = trying.data /\ Enter("spawn")
       \/ /\ "copy" \in Faults
          /\ world' \in {NoWorld, Torn(trying.data)}
          /\ err' = "copy"
          /\ pc' = "remove"
          /\ UNCHANGED by
    /\ UNCHANGED <<cmd, frame, candidate, child, loop, quarantine, backups, due, history>>

\* RemoveAll(worldDir), whose error both callers drop.
RemoveAll ==
    /\ pc = "remove"
    /\ \/ world' = NoWorld
       \/ "remove" \in Faults /\ world # NoWorld /\ world' = Torn(world)
    /\ Enter("revert")
    /\ UNCHANGED <<cmd, frame, candidate, child, loop, quarantine, backups, due, history>>

\* Rename(preserved, worldDir).  After a failed copy its error is dropped,
\* after a failed start it ends the recovery.
Revert ==
    /\ pc = "revert"
    /\ \/ /\ world = NoWorld
          /\ world' = preserved
          /\ quarantine' = quarantine \ {preserved}
          /\ Enter("recover")
       \/ /\ world # NoWorld \/ "rename" \in Faults
          /\ Enter(IF err = "copy" THEN "recover" ELSE "exhausted")
          /\ UNCHANGED <<world, quarantine>>
    /\ UNCHANGED <<cmd, frame, candidate, child, loop, backups, due, history>>

-----------------------------------------------------------------------------
(* The environment: Minecraft, the players, the clock, the machine.        *)

\* Minecraft prints its "Done (" line, or answers "list".
ServerPrints ==
    /\ Alive(dir)
    /\ \/ pc = "ready" /\ out = "silent" /\ out' = "done"
          /\ (dir = "live" => world # NoWorld)
       \/ pc = "health" /\ out = "done" /\ out' = "list"
    /\ UNCHANGED <<cmd, ret, frame, candidate, proc, dir, loop, store, due, history>>

\* A process ends by itself or because it was told to stop.
ServerExits(d) ==
    /\ Alive(d)
    /\ \E status \in {"clean", "failed"} : proc' = [proc EXCEPT ![d] = status]
    /\ UNCHANGED <<cmd, ret, frame, candidate, out, dir, loop, store, due, history>>

\* Minecraft generates a world where it finds none.
ServerGenerates ==
    /\ Alive("live") \/ stray = "runs"
    /\ world = NoWorld
    /\ world' = Fresh
    /\ UNCHANGED <<cmd, ret, frame, candidate, child, loop, quarantine, backups, due, history>>

\* Players change the world of a server that has been reported healthy; one
\* that runs on by itself writes to whatever is at worldDir by then.
Play ==
    /\ \/ Alive("live") /\ pc \notin {"ready", "health"}
       \/ stray = "runs"
    /\ world # NoWorld
    /\ ver < MaxVer
    /\ ver' = ver + 1
    /\ world' = [world EXCEPT !.ver = ver']
    /\ tips' = (tips \ {world}) \cup {world'}
    /\ UNCHANGED <<cmd, ret, frame, candidate, child, loop, quarantine, backups, due, stamp, stray>>

\* What is left once every server is gone that was let go of.
Cleared == IF stray = "runs" THEN "ended" ELSE stray

\* The server that was let go of ends by itself.
StrayExits ==
    /\ stray = "runs"
    /\ stray' = Cleared
    /\ UNCHANGED <<cmd, ret, frame, candidate, child, loop, store, due, ver, stamp, tips>>

DayPasses ==
    /\ ~due
    /\ due' = TRUE
    /\ UNCHANGED <<cmd, ret, frame, candidate, child, loop, store, history>>

\* The supervisor dies (a panic, a signal, the machine) and its control
\* group with it; a directory being written is left as it is.
Crash ==
    /\ "crash" \in Faults
    /\ pc \notin {"exited", "down"}
    /\ pc' = "down"
    /\ \/ UNCHANGED world
       \/ pc = "restore" /\ world' \in {Torn(trying.data), trying.data}
       \/ pc = "remove" /\ world # NoWorld /\ world' \in {Torn(world), NoWorld}
    /\ \/ pc # "prune" /\ UNCHANGED <<due, backups>>
       \/ /\ pc = "prune"
          /\ due' = due \/ due' = FALSE
          /\ \E rest \in Leftovers(Doomed) : backups' = (backups \ Doomed) \cup rest
    /\ desired' = TRUE
    /\ noRecoveryOnce' = FALSE
    /\ caller' = "run"
    /\ retry' = 0
    /\ by' = "none"
    /\ err' = "none"
    /\ candidate' = NoWorld
    /\ proc' = [d \in Dir |-> "none"]
    /\ out' = "silent"
    /\ dir' = "live"
    /\ untried' = {}
    /\ trying' = NoBackup
    /\ preserved' = NoWorld
    /\ stray' = Cleared
    /\ UNCHANGED <<quarantine, ver, stamp, tips>>

\* systemd or the operator starts the supervisor on an empty control group.
Launch ==
    /\ pc \in {"exited", "down"}
    /\ pc' = "main"
    /\ desired' = TRUE
    /\ noRecoveryOnce' = FALSE
    /\ err' = "none"
    /\ by' = "none"
    /\ proc' = [d \in Dir |-> "none"]
    /\ out' = "silent"
    /\ stray' = Cleared
    /\ UNCHANGED <<frame, candidate, dir, loop, store, due, ver, stamp, tips>>

-----------------------------------------------------------------------------
\* The steps the goroutine takes without a command from outside.
Step ==
    \/ Main \/ Ran \/ Retry \/ Exhausted
    \/ Spawn \/ ReadySawDone \/ HealthSawList \/ WaitFails
    \/ MonitorExit \/ MonitorTick \/ StopProcess
    \/ Copy \/ Validate \/ ProbePasses \/ ProbeFails \/ Promote \/ Prune
    \/ Recover \/ Preserve \/ Restore \/ RemoveAll \/ Revert

Command ==
    \/ StartupCommand
    \/ ControlBackup \/ ControlStops \/ ControlStart \/ ControlOther

Environment ==
    \/ ServerPrints
    \/ \E d \in Dir : ServerExits(d)
    \/ ServerGenerates \/ Play \/ StrayExits \/ DayPasses
    \/ Crash \/ Launch

Next == Step \/ Command \/ Environment

Spec == Init /\ [][Next]_vars

\* The goroutine is scheduled, its timers fire, kill and the disk return:
\* whenever it can go on without a command, it does.
FairSpec == Spec /\ WF_vars(Step)

-----------------------------------------------------------------------------
(* Properties.  Those about the world are promised as long as no server    *)
(* has been let go of while it ran (main.go:397): from then on a second    *)
(* one is started on the same world, and nothing of the code watches the   *)
(* first.                                                                  *)

\* Every server that runs is one the goroutine knows of, and always was.
Held == stray = "none"

\* No progress made on a server reported healthy is ever deleted: the last
\* version of every world that was served is the live world or lies in
\* quarantine, through every retry, restore, revert and crash (Rename before
\* copyTree and RemoveAll, main.go:480-506).
NoWorldLost == Held => tips \subseteq quarantine \cup {world}

\* While the live server runs, the goroutine is starting it, monitoring it,
\* stopping it or leaving: its world is never copied, moved or deleted under
\* it and no probe runs beside it (the call order of createBackup and
\* recoverFromBackups).
LiveAlone ==
    Held /\ Alive("live") =>
        /\ ~Alive("probe")
        /\ \/ pc \in {"monitor", "stop", "exited"}
           \/ pc \in {"ready", "health"} /\ dir = "live"
           \/ pc = "main" /\ ~desired

\* While the server is wanted its world is moved aside only after every
\* attempt of retryCurrent has been used up (main.go:100-112).
DisplacedAfterRetries == pc = "preserve" /\ desired => retry = CurrentRetries

\* What becomes a backup is the world as it is at that moment, although it
\* was copied and probed many steps before, and its probe exited cleanly
\* (createBackup, main.go:401-409).
PromotionIsSound ==
    [][Held => \A b \in backups' : (\A c \in backups : c.stamp # b.stamp) =>
           b.data = world /\ proc["probe"] = "clean" /\ ~Alive("live")]_vars

\* The world is moved aside only for a backup whose probe exited cleanly, and
\* every newer backup has been tried before it (the loop over healthyBackups,
\* main.go:474-480).
RestoreIsProbed ==
    [][pc = "preserve" /\ world' # world =>
           proc["probe"] = "clean" /\ \A b \in untried : b.stamp < trying.stamp]_vars

\* A backup disappears only when MaxBackups newer ones remain
\* (pruneBackups).
Retention ==
    [][\A b \in backups \ backups' :
           Cardinality({c \in backups' : c.stamp > b.stamp}) >= MaxBackups]_vars

\* All of it implements the custody of the world that WorldCustody specifies:
\* through retries, probes, backups, recoveries and crashes the worlds and
\* backups change only as that specification allows, and only while the live
\* server is down (the order of stopProcess, copyTree, Rename and RemoveAll in
\* createBackup and recoverFromBackups).
Keeper == INSTANCE WorldCustody WITH running <- Alive("live"), loose <- ~Held
ImplementsCustody == Keeper!Spec

\* Every backup that holds HEALTHY is complete ("backup promoted healthy",
\* main.go:412).  It needs a machine that never stops in the middle of a copy
\* or a removal.
WholeBackups == Held => \A b \in backups : b.data.whole

\* The goroutine never gets stuck in the retries, the probes or the recovery:
\* again and again it monitors a running server, begins a new round of main
\* or has ended.
KeepsServing == []<>((pc = "monitor" /\ Alive("live")) \/ pc \in {"main", "exited", "down"})

\* A stop taken while the server runs normally ends the supervisor
\* (main.go:102).
StopEnds == (~desired /\ caller = "run") ~> pc \in {"exited", "down"}
=============================================================================
