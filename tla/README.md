# Minecera: a verification project

Minecera runs a Minecraft server on one machine: a Go supervisor starts it, watches it, backs its
world up once a day, retries it when it fails and falls back to a backup when the retries fail; a
Go web service shows its log and player counts and passes commands on; a shell console does the
same at a terminal. This directory models that program in TLA+: the modules are checked by TLC on
small instances, and their safety is proved with TLAPS for every value of the constants. `src/` below
is the repository. `PROJECT.json` lists the runs, for every definition the source lines it stands for, for every property a mutation of the code that breaks it, the hazards
and the theorems.

## 1. Inventory

### Components, their state and operations

| Component | Source | State | Operations | Module |
|---|---|---|---|---|
| Process control, world and backup custody | `supervisor/main.go` | `desired`, `noRecoveryOnce`, the call stack of the one main goroutine, the child process, `world/`, `run/quarantine/*`, `backups/*`, `last-backup-date` | `main`, `runCurrent`, `retryCurrent`, `recoverFromBackups`, `startChecked`, `waitReady`, `healthCheck`, `monitor`, `handleControl`, `createBackup`, `validateBackup`, `pruneBackups`, `stopProcess` | `Supervisor`; abstractly `WorldCustody` |
| Control plane | `supervisor/main.go`, `web/main.go`, `minecera` | `run/control`, `run/server.stdin`, `supervisor.lock`, `controlCh`, `serverInputCh` | `acquireLock`, `ensureFIFO`, `fifoReader`, the deferred clean-up, `writeFIFO`, `printf > "$CONTROL"` | `ControlPlane` |
| Pipes to the process | `supervisor/main.go` | three OS pipes, `Process.mu`, `Process.lines`, `Process.done`, the log file | `startProcess`'s goroutines, `copyOutput`, `writeCommand`, `kill`, `stopProcess` | `ServerIO` |
| Backup schedule | `supervisor/main.go`, `web/main.go` | names in `backups/`, `last-backup-date`, the clock | `backupDue`, the steps of `createBackup`, `pruneBackups`, `healthyBackups`, `latestBackup` | `BackupStore`; a flag in `Supervisor` |
| Web API and log streaming | `web/main.go` | the hub's subscribers, the follower, `run/web.credentials` | `handleControl`, `handleCommand`, `handleEvents`, `handleLogs`, `startLogFollower`, `LogHub`, `loadOrCreatePassword` | `LogStream`, `WebStore`, `LogPage`; the writer in `ControlPlane` |
| Player count store | `web/pc.go` | a file of fixed-size records | `append`, `read`, `sample`, `minecraftPlayerCount` | `WebStore`, `StatusQuery` |
| Browser log cache and page | `web/optimization.js`, `embed_patch.go`, `optimization_embed.go` | `localLogs` and `cachedPID` of two copies, requests, timers, one record in `localStorage` | `loadInitialLogs`, `mergeInitialLogs`, `window.apply`, `saveCache`, `loadCache` | `LogPage` |
| Player history chart | `web/player_history.js` | a viewport | drawing | not modelled |
| Earlier supervisor | `minecera-supervisor.sh` | as the Go one, in shell | as the Go one | quoted |
| World regeneration | `regenerate.sh` | `world/`, the FIFO | stop, look, remove, start | not modelled |
| Installation | `setup.sh` | downloaded files | download, chmod | not modelled |
| Minecraft, systemd | `start.sh`, `*.service` | | exits, prints, relaunches, kills the control group | environment actions |
| Plugins, configuration, lists | `plugins/`, `config/`, `lists/`, `motd/` | data | | not modelled |

### How they interact

* Web and console write lines into two FIFOs. One reader goroutine per FIFO moves them into a
  bounded channel. The main goroutine reads `controlCh` in every select it waits in: at startup
  (`waitReady`, `healthCheck`, a probe's too) through `handleStartupCommand`, once healthy through
  `monitor`/`handleControl`. It reads `serverInputCh` in `monitor` alone. During a copy, a stop, a
  restore, a sleep or a write to the process it reads neither.
* Supervisor and Minecraft are joined by three pipes. Two `copyOutput` goroutines write the log and
  offer each line to `Process.lines`; a third goroutine waits for the exit and closes `done`.
* The world is shared with Minecraft, which changes it whenever it runs. `createBackup` and
  `recoverFromBackups` touch it only between runs, and start a second Minecraft (the probe) on a copy.
* systemd restarts a supervisor that dies and has killed the whole control group before that.

### What is hard here, and what makes each part correct

* **Process control and custody.** One goroutine, but a command may arrive at each select, at any
  depth of the call stack; every step on the disk may fail; the machine may die between two steps,
  in the middle of a copy or a removal included. Correct means: nothing players did on a healthy
  server is ever deleted; the world is not touched while a server runs on it; it is moved aside only
  after all retries and for the newest backup that passes its probe; a backup is a probed copy of
  the stopped world (all this breaks where a running server is let go of, section 2); pruning keeps the newest; no chain of failures traps the supervisor; a stop ends it.
* **Control plane.** Supervisors come and go around one path: the lock, the unlinking of the FIFO,
  the opening without readers and the queue limit interleave. Correct means: one supervisor serves
  and it reads the FIFO the path leads to; accepted commands are received in order, or dropped with
  a log line, or a supervisor has ended since.
* **Pipes.** Four goroutines and a process share a lock and bounded buffers. Correct means: no gap
  in the log, `done` last, the server never blocked for good, a stop always carried out.
* **Log streaming.** A tail, a hub and one goroutine per browser, each of which may end and begin
  again at any moment; channels are bounded and a browser may stop reading. Correct means: no line
  twice or out of order, none lost but at a full channel, no browser holds up another, and the log
  of a new server is followed (it is not: section 4).
* **Schedule and names.** A backup may end on another day than it began on, names are local times,
  a crash leaves candidates behind. Correct means: never two scheduled backups for one date, never
  longer than a day and its margins without one, the newest ones kept, the page shows a real one.
* **Files of the web service.** Written by a process that may die between two bytes. Correct means:
  one password for ever; what could be read of the counts stays as it was and is true.
* **Page.** Two copies of one script, a fetch that races the stream, a record from an earlier visit,
  a server that restarts. Correct means: whatever went wrong, the next answer puts the end right, and
  a merge makes no hole in lines that have none, as long as the texts it compares occur once.

`PROJECT.json` lists each of these hazards at the line where it bites, also the one that no property
covers yet, with the reason.

## 2. Modules

### Supervisor

The main goroutine is a state machine over `pc`, the place it waits or works in. The call stack is
three variables: `caller` (who called `monitor` or `startChecked`: `runCurrent`, `retryCurrent` or
`recoverFromBackups`), `by` (who asked for a backup: the ticker, a command or nobody) and `dir` (the
directory a process is started in: the live one or a probe). The "Returns" section says where a
return of each function leads; the actions use it, so an error path of the code is one definition.

| Action | Code |
|---|---|
| `Main`, `Ran`, `Exhausted` | the loop of `main` |
| `Retry` | the loop of `retryCurrent`, and its end |
| `Spawn`, `ReadySawDone`, `HealthSawList`, `WaitFails`, `StartupCommand` | `startChecked`, `waitReady`, `healthCheck`, `handleStartupCommand` |
| `MonitorExit`, `MonitorTick`, `ControlBackup`, `ControlStops`, `ControlStart`, `ControlOther` | the arms of `monitor`, `handleControl` |
| `StopProcess` | `stopProcess`, for a command and for a backup |
| `Copy`, `Validate`, `ProbePasses`, `ProbeFails`, `Promote`, `Prune` | `createBackup`, `validateBackup`, `pruneBackups` |
| `Recover`, `Preserve`, `Restore`, `RemoveAll`, `Revert` | `recoverFromBackups` |
| `ServerPrints`, `ServerExits`, `ServerGenerates`, `Play`, `DayPasses`, `Crash`, `Launch` | Minecraft, players, clock, machine, systemd |

A failed write of `save-all flush` (`main.go:397`) is the fault `input`. `createBackup` then returns
before `stopProcess`, the ticker arm of `monitor` returns its error, and `main` goes on to retry with the
server still running, unkilled and forgotten: a second server is started beside the first on the same
world, backups are copied from under it, a recovery moves the world away from it. `stray` says that
there is such a server, or was; it goes on playing and writing to whatever is at `world/`
(`Play`, `ServerGenerates`, a torn `Copy`) until it ends (`StrayExits`) or its control group does.
That is what the code does, and no text of the repository speaks of it; the properties about the
world (`NoWorldLost`, `LiveAlone`, `PromotionIsSound`, `WholeBackups`, `ImplementsCustody`) promise what
they say while `Held`, that is until a server is let go of. `OnlyInputLetsGo` (section 5) proves that
nothing else lets go of one.

Data. A world is the last version the players made of it and whether every file is there. A backup
is a stamp (its name) and a world. `quarantine` is the set of worlds renamed aside. `ver`, `stamp`
and `tips` are history: `tips` holds every world that was ever served, at its last version; a version
made on a world replaces that world's entry, so `tips` is exactly what must not be deleted.
`s.process` is not a variable: `pc` and `caller` determine it. Faults are chosen by the constant
`Faults`: `spawn`, `copy`, `write`, `rename` and `remove` are errors of the corresponding calls,
`input` the one above, `crash` the death of the supervisor; a crash during `Restore`, `RemoveAll` or `Prune` leaves any partial
result.

Assumptions: backup names grow (which `BackupStore` shows while the clock is not set back); Minecraft's own files
survive its death (a crash of the server alone does not tear the world, only an interrupted copy or
removal does); the control group is empty at a launch (`KillMode` of the service); `systemctl stop`
is a `Crash`, because the program installs no signal handler.

### Worlds, WorldCustody

`Worlds` holds what a world, a torn world and the remains of an interrupted removal are.
`WorldCustody` is the abstract specification of the supervisor: it has no goroutine, call stack,
probe, retry or command, only the world, the quarantine, the backups and whether the live server
runs. Its actions are all that may happen to a world: players and Minecraft change it while the server
runs; while it is down it is set aside, put back, replaced by a backup, discarded where no player has
been on it or a copy is in quarantine, or copied into a newest backup; and only outdated backups
are pruned. The promise ends with `LetGo`, in which a running server is forgotten (`loose`). `Supervisor`
implements it under the mapping `running <- Alive("live")`, `loose <- ~Held` (`ImplementsCustody`); every step that fits no action, whatever failed before it, would be a
violation.

### ControlPlane

Several processes that may become the supervisor; `phase` is how far each is in `main`. FIFOs are
inodes, `path` leads to one of them, to a regular file or to nothing; bytes live in the inode and are
gone when nobody has it open. The web handler opens without blocking (503 where there is no reader;
`App.mu` lets one handler in at a time), the console opens through the shell, which blocks on a FIFO
without reader and creates a regular file where there is none. Commands are numbered, so losing,
repeating and reordering can be seen. `run/control` and `run/server.stdin` are handled by the same code;
the module stands for either. They differ in where the main goroutine receives, so a supervisor in
`busy` is in no select that reads the queue in question: `GoesAway` and `ComesBack` may happen at any time
and nothing says that the second follows the first. A web handler that meets a full pipe waits in its
write with `App.mu` held, as Go's poller waits for a non-blocking FIFO. A command in `Long` (above 64 KiB;
only the console can send one) ends the Scanner of `fifoReader`: its supervisor is `deaf` from then on,
and what is written later stays in the pipe. What is left of the long line itself is left out.

### ServerIO

One Minecraft process, its three pipes, the two `copyOutput`, the goroutine around `cmd.Wait`,
`Process.mu` and the main goroutine from `waitReady` to the return of `stopProcess`. The process is
single-threaded here: while it waits for room in its output it reads no input. That is the worst
case for the pipes, and what a blocked console thread amounts to. Streams in `LongLines` may print a
line above the Scanner's 1 MiB, on which `copyOutput` returns with its pipe open: the server then
blocks on that stream, and must still be stopped. The write of a line in `FullAt` to the log may fail,
which `copyOutput` ignores: `logged` then has a 0 in its place.

### LogStream

The log files (the last one is the newest, as `currentLogPath` finds it by its time), the follower
with its `tail -n 0 -F`, the hub and one `handleEvents` for each client. Lines are numbered over all
files, so `got`, what was written to a client over all its connections, shows every loss, repetition
and change of order. `Publish` is one step: it holds the hub's lock and never blocks. A line is
written in a batch by `Receive` (32 lines) or by the tick (`Flush`). `Leave` is every end of a
handler: the request's context, a failed write. Clients in `Slow` may stop reading, which blocks
their handler, as the server has no write timeout. The status events carry no lines and are left out.

### BackupStore

The same `backups/` seen by name and date. Time is a count of ticks, each longer than the minute
between two looks at the schedule, so `Tick` waits while a backup is due and the server is up. A
name is the tick at which a backup was begun; `Candidate`, `Marked` and `Final` are the three states
of its directory. `createBackup` fails at any step (`Fail`), dies with the supervisor (`Down`,
which leaves the candidate behind), or ends in `WriteDate` or, where the ignored error of that write strikes,
`LoseDate`. A `last-backup-date` that cannot be read makes any date due (`Begin`), and the dates entered
before are forgotten by `ended` as if the file had been lost. `SetBack` sets the clock back once. `Shown` is the web service's `latestBackup`, which
sorts hidden directories in.

### WebStore

`run/web.credentials` from the steps of `loadOrCreatePassword`: `os.WriteFile` empties the file and
then writes, and the service may die or fail in between. `run/player-count.bin` as a sequence of
bytes: a record has three here (ten in the code), which leaves the ways of being out of step;
`Sample` writes all of one or fewer, `DiesInSample` ends the service as well. `TwoBytes` is what
`uint16` and `PutUint16` leave of a count; `append` refuses one above `GreatestCount` before. The
mutex makes an append and a read one step each. What a process has written stays written when it
dies: that a machine without power may lose a write it has not synced is left out.

### StatusQuery

`minecraftPlayerCount`: `VarInt` is `appendVarInt`, `Number` and `After` are `readVarInt`, `Answer`
is any prefix of a reply of the server (external), after which the connection ends.

### LogPage

The two copies of `optimization.js` that the page loads. A line is its number and its server, so
that losses and repetitions can be seen; `mergeInitialLogs` compares `Texts`, as the code does. Only
the second copy gets the stream (`Streamed`), because its `window.apply` replaces the first one's.
The stream may lose any line, hold events back and break; `Serve` and `Arrive` are apart, so an
answer is merged later than it was read. `logged` is every line of every server; `Log`, the file an
answer is read from, is what follows the `earlier` lines of the servers before. A status carries the
process id that `pgrep` finds, which during a backup or a recovery is that of the `Probe`: it has no log of
its own, and a new id empties what is shown (in the model a probe is followed by another server, so
there is none after the last). A copy has one request at a time here; the code may
have more. The line of text that the handler sends instead of a log that is missing or cannot be read
(`web/main.go:515`, `520`) is left out; the page would show it as a line of the log.

### MCStores

The last four modules share no variable. `MCStores` lets one of them move, chosen at the start, while
the others rest: each property is about one module, and in any interleaving that module's variables
go through one of its own behaviours, with steps in between that do not change them. `Composed`
(section 5) proves it, so the theorems about each module hold of what the run `stores` checks.

### MCSupervisor, MCControlPlane, MCLogStream

State claims that documentation, messages or the earlier supervisor make and the code does not keep
(section 4).

### SupervisorProofs, ControlPlaneProofs, ServerIOProofs, LogStreamProofs, WebStoreProofs, LogPageProofs, StoresProofs, DataLemmas

The first six EXTEND the module they are named after and hold its inductive invariant and its
theorems (section 5); `WebStoreProofs` does so for `StatusQuery` too. `StoresProofs` EXTENDS
`MCStores`: it holds the proofs about `BackupStore`, and that `MCStores` is a composition of the four.
`DataLemmas` holds facts about sequences, finite sets, greatest elements and recursive functions
that several of them cite; none mentions this program.

## 3. Runs that pass

| Run | Instance | What it shows |
|---|---|---|
| `sup_safety` | 1 retry, 1 backup kept, all faults but `input`, 1 version, 2 stamps: 2.4 million states | `NoWorldLost`, `DisplacedAfterRetries`, `PromotionIsSound`, `RestoreIsProbed`, `Retention`, and the refinement `ImplementsCustody` |
| `sup_liveness` | the same with `input`, without `crash` and `remove`: 1.6 million states | `WholeBackups`, `LiveAlone`, `KeepsServing`, `StopEnds` |
| `control` | 2 supervisors, queue and pipe of 2, 4 commands of which the third is too long, 2 inodes, 2 ends: 100 thousand states | `Reachable`, `NoSilentLoss`, `InOrder`, `Delivered`, `ConsoleFreed` |
| `server_io` | 2 streams, one of which may print a long line, stdin of 2, pipes and channel of 1, 3 lines each, the second of which may not get into the log, 1 console command: 160 thousand states | `LogHasNoGaps`, `DoneComesLast`, `OutputFlows`, `StopIsForced` |
| `log_stream` | a client that reads and one that may not, channels of 1, batches of 2, 2 logs, 3 lines: 150 thousand states | `StreamInOrder`, `LossIsOverflow`, `SlowHarmsNobody`, `Streamed` |
| `stores` | 4 million states for the four modules below | |
| … `BackupStore` | days of 3 ticks, due from the second, jobs of 1 tick, 2 backups kept, 1 death, 7 ticks | `LastShownIsListed`, `NamesGrow`, `OnePerDate`, `NeverStale`, `EnoughRemain` |
| … `WebStore` | 3 passwords, 4 samples, windows of 2 and 3, counts at both sides of 65535 | `PasswordStays`, `AlignedAreRead`, `HistoryIsKept`, `AnswersAreTails` |
| … `StatusQuery` | texts whose sizes take one to five bytes and lie at both sides of the limit, replies cut after every byte | `PacketsAgree` |
| … `LogPage` | 3 lines with texts a, b, a, overlap 2, fetch and cache of 3, 1 event on its way, 2 servers, 1 more visit | `FreshAnswerHeals`, `CompleteStaysComplete` |

Why the bounds are enough to be interesting. One retry gives an attempt of `runCurrent`, one of
`retryCurrent` and the recovery; more retries repeat the second (and the proofs cover every number).
One backup kept and two promoted make `pruneBackups` remove one, be cut short and find the
remains in the next listing. The fault `input` is in `sup_liveness` and not in `sup_safety`: with a forgotten
server beside every other fault there are 15 million states, and what is promised after it is little;
with crashes and failing removals it meets in the proofs, which hold for every set of `Faults`. One version separates a fresh world from one that was played on,
before and after each backup. Two supervisors are the one that leaves and the one that starts; two
ends let each leave once; three commands overflow a queue of two, and cross a restart; the fourth
follows the one that ends the reader. Channel and
pipes of one line with three lines per stream fill every buffer of the output. Three lines fill a channel of
one and a batch of two, leave one over for the tick, and fall on both sides of a change of log. In
`server_io` both commands that can be written (one of the console, the stop) fit in stdin; what happens
when they do not is the run `server_io_full`.

In `BackupStore` a backup that begins in the last tick of a day ends on the next, and the seventh tick
is the one by which the backup after it must have ended; with one tick less in `NeverStale` TLC finds
a counterexample, so the bound is tight. Four samples take two short writes that add up to a
record, and a whole record after each. In `LogPage` a cache as long as the log overflows when a line
comes twice; a and b make a block of one line ambiguous and a block of two unique.

`CHECK_DEADLOCK FALSE` is used where the bounds on commands, lines or ends let the model come to
rest, as the system does when no one writes any more.

### Fairness

* `Supervisor`: `WF_vars(Step)`, for the disjunction of the goroutine's own steps. The goroutine is
  scheduled, its timers fire (`startupTimeout`, `healthTimeout`, `stopTimeout` make `WaitFails`,
  `ProbeFails` and `StopProcess` possible whatever the process does), `SIGKILL` and disk calls
  return, and so do the writes to the process. That last one is an assumption: `server_io_full` shows
  a `stopProcess` that does not return, and `KeepsServing` and `StopEnds` say nothing of that case. The disjunction is fair and not each step: a process that fails every time is allowed.
  Nothing is assumed of players, commands or Minecraft.
* `ControlPlane`: weak fairness of the reader goroutine, of the start sequence, of writers
  holding a descriptor, and of some supervisor taking the lock (`Restart=on-failure` of
  `minecera.service`, or the operator). Crashes and departures are not fair. `SF_vars(Take)`: a Go
  select chooses at random among the channels that are ready, so a main goroutine that enters its selects
  again and again with a command waiting receives it at last; weak fairness would not do, as it may leave
  the select for another arm each time. That it enters them again is assumed nowhere: it is the hypothesis
  `ComingBack` of `Delivered`. It does not hold for `server.stdin` while no start succeeds, for `control`
  while no process can even be spawned, and for both once `writeCommand` blocks for good
  (`server_io_full`); commands then wait in queue and pipe, and with a full pipe the handler waits too.
* `ServerIO`: weak fairness of goroutine steps and of a print that has room; strong fairness of the
  two `Lock` calls, since `sync.Mutex` hands itself to a waiter it has starved (its starvation mode).
  Nothing makes the server read, print again or exit.
* `LogStream`: weak fairness of the follower's steps and of the handlers of clients that read. Nothing
  is assumed of slow clients, of connections, of the server, or of the death of `tail`.

## 4. Where the code does not do what is said of it

Each has a run whose only property TLC violates, and an entry under "findings" with the quotation.

| Run | Claim | What happens |
|---|---|---|
| `sup_stop` | `StopIsFinal`: after a stop the world stays as it is and no server is started | a stop during `retryCurrent` returns false, like exhausted retries; `main` calls `recoverFromBackups`, which moves the world aside and starts a backup |
| `sup_restart` | `RestartKeepsWorld`: a restart restores no backup | `noRecoveryOnce` is looked at after `runCurrent` only; a restart given during the retries lets the attempt fail, and after the last one the world is replaced |
| `sup_backup_failure` | `BackupFailureKeepsWorld`: a failed daily backup is reported and the server goes on | `monitor` returns the ticker's error, which counts as a failure of the server; repeated in every retry, it ends in a recovery |
| `control_start` | `StartStaysPossible`: `start` at the console leaves a supervisor able to start | after a stop there is no FIFO; the shell creates a file, on which `ensureFIFO` fails until someone removes it |
| `server_io_full` | `StopIsForced` with a full input pipe | `writeCommand` blocks with `mu` held, `copyOutput` waits for `mu`, the output pipe fills, the server reads nothing more; the timeout of `stopProcess` is never reached |
| `log_follower` | `FollowsNewest`: the follower gets to the newest log | it looks for a newer log only when `tail` ends, and `tail -F` does not end; after a restart of the server nothing of its log is streamed |

## 5. Proofs

Each theorem holds for every value of the constants that satisfies the module's named assumption, and
is checked by TLAPS to the last leaf.

| Module | Theorem | States |
|---|---|---|
| `SupervisorProofs` | `TypeCorrect` | `Spec => []TypeOK` |
| | `NothingPlayedIsLost` | `Spec => []NoWorldLost` |
| | `NeverTwoServers` | `Spec => []LiveAlone` |
| | `RecoveryIsLastResort` | `Spec => []DisplacedAfterRetries` |
| | `PromotionSound` | `Spec => PromotionIsSound` |
| | `RestoreProbed` | `Spec => RestoreIsProbed` |
| | `BackupsAreWhole` | without `crash` and `remove`, `Spec => []WholeBackups` |
| | `OnlyInputLetsGo` | without `input`, `Spec => []Held` |
| | `BackupsAreRetained` | `Spec => Retention` |
| | `CustodyImplemented` | `Spec => ImplementsCustody`: the refinement of `WorldCustody` |
| `ControlPlaneProofs` | `ControlTypeCorrect` | `Spec => []TypeOK` |
| | `ServingIsReachable` | `Spec => []Reachable` |
| | `NothingIsLostSilently` | `Spec => []NoSilentLoss` |
| | `CommandsAreInOrder` | `Spec => []InOrder` |
| `ServerIOProofs` | `IOTypeCorrect` | `Spec => []TypeOK` |
| | `LogIsComplete` | `Spec => []LogHasNoGaps` |
| | `DoneIsLast` | `Spec => []DoneComesLast` |
| `LogStreamProofs` | `StreamTypeCorrect` | `Spec => []TypeOK` |
| | `LinesStayInOrder` | `Spec => []StreamInOrder` |
| | `OnlyOverflowLoses` | `Spec => []LossIsOverflow` |
| `WebStoreProofs` | `WebTypeCorrect` | `WebSpec => []WebTypeOK` |
| | `PasswordIsKept` | `WebSpec => []PasswordStays` |
| | `SamplesAreRead` | `WebSpec => []AlignedAreRead` |
| | `AnswersAreRead` | `WebSpec => []AnswersAreTails` |
| | `PointsStay` | `WebSpec => HistoryIsKept` |
| | `QueryTypeCorrect` | `QuerySpec => []QueryTypeOK` |
| | `NumbersAreRead` | `Number` and `After` undo `VarInt`, for every number below 128^5 and whatever follows it |
| | `PacketsAlwaysAgree` | `QuerySpec => []PacketsAgree` |
| `LogPageProofs` | `PageTypeCorrect` | `PageSpec => []PageTypeOK` |
| | `FreshAnswersHeal` | `PageSpec => FreshAnswerHeals` |
| | `CompleteStays` | `PageSpec => CompleteStaysComplete` |
| `StoresProofs` | `StoreTypeCorrect` | `StoreSpec => []StoreTypeOK` |
| | `NewNamesAreLast` | `StoreSpec => NamesGrow` |
| | `OneScheduledPerDate` | `StoreSpec => OnePerDate` |
| | `EnoughBackupsRemain` | `StoreSpec => EnoughRemain` |
| | `ShownIsListed` | `StoreSpec => []LastShownIsListed` |
| | `BackupsAreRecent` | if no job is longer than a day, `StoreSpec => []NeverStale` |
| | `Composed` | `Spec => StoreSpec /\ WebSpec /\ QuerySpec /\ PageSpec` for the `Spec` of `MCStores` |
| | `StoresTypeCorrect` | `Spec => []TypeOK` |

### The arguments

None of the properties is inductive alone. Each module of proofs has one inductive invariant, a
conjunction of named parts, shown to hold initially and to be kept by each action.

**Supervisor**: `IInv` adds what the code relies on without saying so.

* `Stack`: which `caller`, `by` and `dir` go with each `pc`, i.e. that the three variables
  describe call stacks that can occur;
* `Wanted`: `desired` can be false only in a few places, so a probe or a copy for a backup
  always belongs to a server that is wanted or a recovery;
* `Children`: where each of the two processes can be alive; while the goroutine copies, probes or
  restores the live one is not;
* `Probing`: what a passed probe means until its result is used;
* `Custody`: during a recovery the world that was moved aside is in `quarantine` under the name
  `preserved`, and the world in its place is one that no player has seen, until the start is healthy;
  during a backup the candidate equals the world. This is the heart of `NoWorldLost` and
  of `PromotionIsSound`;
* `Attempts`: while wanted, the recovery runs with `retry = CurrentRetries`;
* `Listing`: the backups not yet tried are older than the one being tried.

The action properties follow from `IInv` and one case per action. `BackupsAreWhole` has an invariant
of its own, as it holds only for some `Faults`. Where a server has been let go of, the parts of `IInv`
about its world are claimed no more, those about the goroutine are. The refinement needs one more, `Sources`: what
`recoverFromBackups` restores comes from `backups`, what it puts back from `quarantine`.
`NextIsAllowed` then maps every step to an action of `WorldCustody` or to none. `BackupsAreRetained`
rests on `PruningKeeps` of `DataLemmas`: an element of a finite ranked set with fewer than n above it
still has them after some with n or more above them are removed.

**ControlPlane**: whoever is past `acquireLock` holds the lock, and its FIFO stays at the path until it
removes it itself (`Alone`); an inode that has been opened was created, and nothing is in one before
(`Created`). So there is one line of commands: those received before those queued before those piped,
in the order of acceptance (`Lined`, over the relation `Earlier`); and each accepted command is in it,
was dropped with a log line, or a supervisor has ended since (`Accounted`). `HowCommandsMove` reduces
the actions to the few ways in which they touch the line.

**ServerIO**: what is in a pipe counts up to the last line printed, and the line in the hand of
`copyOutput` comes right before it and right after the log (`Numbered`); after `cmd.Wait` nobody prints and the pipes are empty
(`AfterExit`).

**LogStream**: what a client has got, its batch and its channel are one rising run of numbers that
ends at or before the position of `tail` (`InFlight`), which never goes back; what was offered is in one of the
three or was counted as missed (`Accounted`).

**BackupStore**: while the clock is not set back, no backup has a name after the time (`Names`) and
the dates entered are those up to `lastDate` (`Dates`); a candidate with `HEALTHY` is the one being made,
or a death left it (`LeftOver`). While all goes well the next backup is begun
within a day of the last end or a tick after its schedule opens (`Fresh`).

**WebStore**: a service listens with the password that is in the file, and only a failed read lets one
make another (`Passwords`). The file of counts only grows, so what was written at a place stays there
(`Written`) and points and answers, which are made of places, do not change (`Answered`).

**StatusQuery**: `VarInt` and `LowFirst` are recursive functions, defined by CHOOSE: nothing is known of
them until some function is shown to satisfy their equations. That is `Recursion` of `DataLemmas`, for any
equation that uses values of lesser rank only. Its proof, like every other induction here, goes by the least
counterexample (`LeastNatural`); the library's induction theorems take operators, which the provers cannot
instantiate, and the step of a recursion is therefore a function here. From the equations follow `Encodes` (which bytes have the
eighth bit, and what their value is) and `ReadingNumber`: read from any cut of a number and what follows it,
the number comes out whole and leaves the cut of the rest, or nothing can be read. The invariant `Reading` is then
one line for each place in the conversation: the unread bytes are a cut of the rest of the reply.

**LogPage**: an answer is a stretch of consecutive lines of a log (`Answers`), and the newest log is what
follows the `earlier` lines (`Logs`). The rest is about `mergeInitialLogs` alone: `MergedEnds` says that
a merge with the end of the log ends as the log does, whatever was shown before, `MergedStretch` that a
merge of two stretches is one if the block compared occurs once. Both hold for any lines, texts,
overlap, fetch and cache within the assumption.

### What is assumed

* `PageAssumption`: `OverlapMax <= FetchLines <= CacheLimit`, in the code 100, 500 and 5000. Without
  it an answer need not hold the block that is compared, or the cache not the answer.
* `BackupsAreRecent` has the hypothesis `ShortJobs`, `LongestJob <= DayTicks`. The code limits the
  probe (`startupTimeout`, `healthTimeout`, `stopTimeout`) but not the copy, and with jobs longer than `DayTicks + DueTick` TLC
  finds a behaviour in which the schedule of a whole day passes during a job.
* `QueryAssumption`: `SizeMax`, in the code 2^20, is below 128^4. Were it 2^35, a length that is allowed could
  not be said in the five bytes that `readVarInt` reads, and a whole reply would be refused.
* The other assumptions say which constants are numbers and that the markers (`NoWorld`, `None`, `File`,
  the states of `server` and `mu`) differ from the values they stand beside.

### Only model-checked

* The liveness properties and those that need fairness: `KeepsServing`, `StopEnds`, `Delivered`,
  `ConsoleFreed`, `OutputFlows`, `StopIsForced`, `SlowHarmsNobody`, `Streamed`. The prover has no
  reasoning about fairness or `ENABLED`. Every other property of a passing run is stated by a theorem.
* The violations of section 4.

## 6. Not modelled

Log messages, the wording of replies, `status` fields other than the process id, metadata files, JVM
options, the systemd units beyond restart and kill, TLS and sessions of the web service, the chart
(drawing from fetched points), installation and the plugins' data. `minecera-supervisor.sh` is not
started by any unit any more; its messages are quoted where they say what is intended. `regenerate.sh`
is run by hand. It waits for no answer of the supervisor, holds no lock and looks only for a java process,
of which there is none while the supervisor starts, retries or backs up either: it may remove a world on
which a server is then started. That is a listed hazard with no property, as none about the two would
hold; `Supervisor` is about behaviours without the script. Half-lines in the FIFOs are left out, as both writers
write a line with one call. What players do between the `Done` line of a
restored server and a health check that then fails is removed with the restored world; `NoWorldLost`
is about what is played once the server has been reported healthy. A command that the web handler
writes into a regular file (after `control_start`) is answered "accepted" and read by nobody; it is
not among the `accepted` commands of `ControlPlane`, which are those that reached a FIFO.

The models show some behaviour that nothing in the repository speaks for or against, so that there
is no run for it:

* Every event with lines carries an empty `Status` (`web/main.go:284`), which `window.apply`
  renders: the page shows "unknown" until the next status.
* A line that is in an answer and still on its way in the stream is shown twice; a line that was
  streamed after an answer was read, and before the answer arrives, disappears when the answer replaces
  all lines. Lines of a new server that come before its process id are dropped by
  `resetCache`. The next answer repairs the end of what is shown, not a hole before it.
* A server that is let go of runs beside the next one (section 2, `stray`), until one of them ends.
* A line above 64 KiB at the console deafens the supervisor for that FIFO until it is restarted.
* While the probe of a backup runs, its process id reaches the page, which forgets the lines it shows.
* A read error of `last-backup-date` makes one more backup of a day that has its own.
* A read error of `web.credentials`, of whatever kind, makes a new password (`web/main.go:179`).
* With the clock set back, a new backup may be the one that `pruneBackups` removes at once.
* After a short write the counts are read out of step until lost bytes add up to a record.
* A candidate with `HEALTHY` that a crash leaves behind stays for ever, and `backupCount` counts it; as
  long as there is no backup the page shows it as the last one.

## 7. Plan

Done: `Supervisor`, `WorldCustody` as its abstract specification, `ControlPlane`, `ServerIO`,
`LogStream`, `BackupStore`, `WebStore`, `StatusQuery`, `LogPage`, and proofs of every safety and action
property that a passing run checks. What is left:

1. shorter proofs of `ControlPlaneProofs`, `LogPageProofs` and the part of `WebStoreProofs` about numbers,
   where lemmas about sequences are proved for one use;
2. liveness stays with TLC for as long as the prover has no rules for fairness.
