-------------------------- MODULE SupervisorProofs --------------------------
(***************************************************************************)
(* Safety of Supervisor for every number of retries and of backups, every  *)
(* set of faults and every bound.                                          *)
(*                                                                         *)
(* The argument: by, dir and caller determine where on the call stack the  *)
(* goroutine is (Stack).  While a backup is probed the candidate equals    *)
(* the world (Probing) and between Preserve and a successful start the     *)
(* world is a copy nobody has played on (Displaced), so deleting it loses  *)
(* nothing.  That every step is one that WorldCustody allows follows from  *)
(* the same invariant and from where recovery takes its worlds (Sources).  *)
(* What concerns the world is shown as long as no running server has been  *)
(* let go of (Held), which only a failed write of the daily backup does.   *)
(***************************************************************************)
EXTENDS Supervisor, DataLemmas

Waiting == {"spawn", "ready", "health"}

\* The call stack, as far as pc determines it.
Stack ==
    /\ pc \in {"main", "ran", "monitor", "retry", "recover", "preserve", "restore",
               "remove", "revert", "exhausted", "exited", "down"} => by = "none"
    /\ pc \in {"copy", "promote", "prune"} => by # "none"
    /\ pc \in Waiting /\ by # "none" => dir = "probe"
    /\ pc = "probeStop" => dir = "probe"
    /\ pc = "retry" => caller = "retry"
    /\ pc \in {"recover", "preserve", "restore", "remove", "revert"} => caller = "recover"
    /\ pc \in {"validate", "probeStop"} /\ by = "none" => caller = "recover"
    /\ pc \in Waiting /\ by = "none" /\ dir = "probe" => caller = "recover"

\* A command that clears desired during a start is noticed at once, except
\* by recoverFromBackups.
Wanted ==
    /\ pc = "monitor" /\ ~desired => caller = "recover"
    /\ pc \in Waiting /\ dir = "live" /\ ~desired => caller = "recover"

\* Which child may run where.
Children ==
    /\ LiveAlone
    /\ Alive("probe") => pc \in {"ready", "health", "probeStop"} /\ dir = "probe"
    /\ pc \in {"promote", "preserve"} => proc["probe"] = "clean"

\* The world does not change while its copy is probed.
Probing ==
    by # "none" /\ pc \in {"validate", "spawn", "ready", "health", "probeStop", "promote"} =>
        candidate # NoWorld /\ (Held => candidate = world)

\* From the rename of the world to the success or the revert of the restored
\* one.
Displaced ==
    \/ pc \in {"restore", "remove"}
    \/ pc \in Waiting /\ caller = "recover" /\ by = "none" /\ dir = "live"

Custody ==
    /\ NoWorldLost
    /\ Displaced /\ Held => tips \subseteq quarantine

Recovering ==
    /\ caller = "recover"
    /\ by = "none"
    /\ pc \in {"recover", "validate", "probeStop", "preserve", "restore", "remove", "revert"} \cup Waiting

Attempts == Recovering /\ desired => retry = CurrentRetries

\* Backups are named apart and never ahead of the clock.
Named(S) ==
    /\ \A b, c \in S : b.stamp = c.stamp => b = c
    /\ \A b \in S : b.stamp <= stamp

Listing ==
    /\ Named(backups)
    /\ Named(untried)
    /\ Recovering /\ pc # "recover" => \A b \in untried : b.stamp < trying.stamp

IInv ==
    /\ TypeOK
    /\ Stack
    /\ Wanted
    /\ Children
    /\ Probing
    /\ Custody
    /\ Attempts
    /\ Listing

-----------------------------------------------------------------------------
LEMMA TornIsWorld == ASSUME NEW w \in World PROVE Torn(w) \in World
  BY DEF World, Torn

\* What a removal leaves behind when it is cut short is still a set of
\* backups with the names they had.
LEMMA LeftoversKeepNames ==
  ASSUME NEW B, B \subseteq Backup, Named(B),
         NEW S, S \subseteq B,
         NEW R, R \in Leftovers(S)
  PROVE  /\ (B \ S) \cup R \subseteq Backup
         /\ Named((B \ S) \cup R)
<1> DEFINE Tear(b) == [b EXCEPT !.data = Torn(b.data)]
<1>1. PICK K \in SUBSET S : \E T \in SUBSET (S \ K) : R = K \cup {Tear(b) : b \in T}
  BY DEF Leftovers
<1>2. PICK T \in SUBSET (S \ K) : R = K \cup {Tear(b) : b \in T}
  BY <1>1
<1>3. \A b \in B : Tear(b) \in Backup /\ Tear(b).stamp = b.stamp
  <2> SUFFICES ASSUME NEW b \in B PROVE Tear(b) \in Backup /\ Tear(b).stamp = b.stamp
    OBVIOUS
  <2>1. Torn(b.data) \in World
    BY TornIsWorld DEF Backup
  <2> QED
    BY <2>1 DEF Backup
<1> HIDE DEF Tear
<1>4. \A r \in (B \ S) \cup R :
        \E b \in B : r.stamp = b.stamp /\ r = IF b \in T THEN Tear(b) ELSE b
  <2> SUFFICES ASSUME NEW r \in (B \ S) \cup R
               PROVE  \E b \in B : r.stamp = b.stamp /\ r = IF b \in T THEN Tear(b) ELSE b
    OBVIOUS
  <2>1. CASE r \in B \ T
    BY <2>1
  <2>2. CASE \E b \in T : r = Tear(b)
    BY <2>2, <1>3
  <2> QED
    BY <2>1, <2>2, <1>2
<1>5. \A r \in (B \ S) \cup R : r \in Backup
  BY <1>2, <1>3
<1> QED
  BY <1>4, <1>5 DEF Named

-----------------------------------------------------------------------------
LEMMA InitIInv == Init => IInv
<1> SUFFICES ASSUME Init PROVE IInv
  OBVIOUS
<1>1. desired \in BOOLEAN /\ noRecoveryOnce \in BOOLEAN /\ due \in BOOLEAN
  BY Zenon DEF Init
<1>2. Fresh \in World /\ NoBackup \in Backup
  BY DEF Fresh, World, NoBackup, Backup
<1> QED
  BY ParamAssumption, <1>1, <1>2 DEF Init, IInv, TypeOK, PC, Dir, Stack, Waiting,
      Wanted, Children, LiveAlone, Alive, Probing, Custody, NoWorldLost, Displaced,
      Attempts, Recovering, Listing, Named, Held

LEMMA NextIInv == IInv /\ [Next]_vars => IInv'
<1> SUFFICES ASSUME IInv, [Next]_vars PROVE IInv'
  OBVIOUS
<1> USE ParamAssumption, SMTT(20)
    DEF IInv, TypeOK, PC, Dir, World, Backup, Fresh, NoBackup, Stack, Waiting,
        Wanted, Children, LiveAlone, Alive, Probing, Custody, NoWorldLost, Displaced,
        Attempts, Recovering, Listing, Named, Held, Cleared, cmd, frame, ret, child, loop,
        store, history
<1>1. CASE Main
  BY <1>1 DEF Main, Enter
<1>2. CASE Ran
  <2>1. desired' \in BOOLEAN /\ noRecoveryOnce' \in BOOLEAN
    BY <1>2, Zenon DEF Ran
  <2> QED
    BY <1>2, <2>1 DEF Ran, Enter
<1>3. CASE Retry
  BY <1>3 DEF Retry, MoreRetries, Enter
<1>4. CASE Exhausted
  BY <1>4 DEF Exhausted, Enter
<1>5. CASE Spawn
  BY <1>5 DEF Spawn, StartFails, Rejected, BackupReturns, MonitorReturns, Enter
<1>6. CASE ReadySawDone
  BY <1>6 DEF ReadySawDone, Enter
<1>7. CASE HealthSawList
  BY <1>7 DEF HealthSawList, StartSucceeds, Enter
<1>8. CASE WaitFails
  BY <1>8 DEF WaitFails, Kill, StartFails, Rejected, BackupReturns, MonitorReturns, Enter
<1>9. CASE MonitorExit
  BY <1>9 DEF MonitorExit, MonitorReturns
<1>10. CASE MonitorTick
  BY <1>10 DEF MonitorTick, BackupStarts, MonitorReturns
<1>11. CASE StopProcess
  BY <1>11 DEF StopProcess, Kill, MonitorReturns, BackupReturns, Enter
<1>12. CASE Copy
  <2>1. world # NoWorld => Torn(world) \in World /\ Torn(world) # NoWorld
    BY TornIsWorld
  <2> QED
    BY <1>12, <2>1 DEF Copy, BackupReturns, MonitorReturns, Enter
<1>13. CASE Validate
  BY <1>13 DEF Validate, Subject, Rejected, BackupReturns, MonitorReturns, Enter
<1>14. CASE ProbePasses
  BY <1>14 DEF ProbePasses, ProbePassed, Enter
<1>15. CASE ProbeFails
  BY <1>15 DEF ProbeFails, Kill, Rejected, BackupReturns, MonitorReturns, Enter
<1>16. CASE Promote
  BY <1>16 DEF Promote, Enter, BackupReturns, MonitorReturns
<1>17. CASE Prune
  <2>1. backups' \subseteq Backup /\ Named(backups)'
    <3>1. CASE backups' = backups \ Doomed
      BY <1>17, <3>1 DEF Prune
    <3>2. CASE \E rest \in Leftovers(Doomed) : backups' = (backups \ Doomed) \cup rest
      <4> HIDE DEF Named, Backup
      <4>1. Doomed \subseteq backups
        BY DEF Doomed
      <4>2. backups' \subseteq Backup /\ Named(backups')
        BY <3>2, <4>1, LeftoversKeepNames
      <4> QED
        BY <1>17, <4>2 DEF Prune, Named
    <3> QED
      BY <1>17, <3>1, <3>2 DEF Prune
  <2>2. due' \in BOOLEAN
    BY <1>17, Zenon DEF Prune
  <2> QED
    BY <1>17, <2>1, <2>2 DEF Prune, BackupReturns, MonitorReturns
<1>18. CASE Recover
  BY <1>18 DEF Recover, Newest, Enter
<1>19. CASE Preserve
  BY <1>19 DEF Preserve, Enter
<1>20. CASE Restore
  <2>1. world \in World => Torn(world) \in World
    BY TornIsWorld
  <2>2. Torn(trying.data) \in World
    BY TornIsWorld
  <2>3. world' \in World \cup {NoWorld}
    BY <1>20, <2>1, <2>2 DEF Restore
  <2> QED
    BY <1>20, <2>3 DEF Restore, Enter
<1>21. CASE RemoveAll
  <2>1. world \in World => Torn(world) \in World
    BY TornIsWorld
  <2>2. Torn(trying.data) \in World
    BY TornIsWorld
  <2>3. world' \in World \cup {NoWorld}
    BY <1>21, <2>1, <2>2 DEF RemoveAll
  <2> QED
    BY <1>21, <2>3 DEF RemoveAll, Enter
<1>22. CASE Revert
  BY <1>22 DEF Revert, Enter
<1>23. CASE StartupCommand
  <2>1. desired' \in BOOLEAN /\ noRecoveryOnce' \in BOOLEAN
    BY <1>23, Zenon DEF StartupCommand
  <2> QED
    BY <1>23, <2>1 DEF StartupCommand, Kill, StartFails, Rejected, BackupReturns, MonitorReturns, Enter
<1>24. CASE ControlBackup
  BY <1>24 DEF ControlBackup, BackupStarts, MonitorReturns
<1>25. CASE ControlStops
  <2>1. desired' \in BOOLEAN /\ noRecoveryOnce' \in BOOLEAN
    BY <1>25, Zenon DEF ControlStops
  <2> QED
    BY <1>25, <2>1 DEF ControlStops, Enter
<1>26. CASE ControlStart
  <2>1. desired' \in BOOLEAN /\ noRecoveryOnce' \in BOOLEAN
    BY <1>26, Zenon DEF ControlStart
  <2> QED
    BY <1>26, <2>1 DEF ControlStart
<1>27. CASE ControlOther
  BY <1>27 DEF ControlOther, MonitorReturns
<1>28. CASE ServerPrints
  BY <1>28 DEF ServerPrints
<1>29. CASE \E d \in Dir : ServerExits(d)
  BY <1>29 DEF ServerExits
<1>30. CASE ServerGenerates
  BY <1>30 DEF ServerGenerates
<1>31. CASE Play
  BY <1>31 DEF Play
<1>32. CASE DayPasses
  BY <1>32 DEF DayPasses
<1>33. CASE Crash
  <2>1. backups' \subseteq Backup /\ Named(backups)'
    <3>1. CASE pc # "prune"
      BY <1>33, <3>1 DEF Crash
    <3>2. CASE pc = "prune" /\ \E rest \in Leftovers(Doomed) : backups' = (backups \ Doomed) \cup rest
      <4> HIDE DEF Named, Backup
      <4>1. Doomed \subseteq backups
        BY DEF Doomed
      <4>2. backups' \subseteq Backup /\ Named(backups')
        BY <3>2, <4>1, LeftoversKeepNames
      <4> QED
        BY <1>33, <4>2 DEF Crash, Named
    <3> QED
      BY <1>33, <3>1, <3>2 DEF Crash
  <2>2. world' \in World \cup {NoWorld}
    <3>1. world \in World => Torn(world) \in World
      BY TornIsWorld
    <3>2. Torn(trying.data) \in World
      BY TornIsWorld
    <3> QED
      BY <1>33, <3>1, <3>2 DEF Crash
  <2>3. desired' \in BOOLEAN /\ noRecoveryOnce' \in BOOLEAN
    BY <1>33, Zenon DEF Crash
  <2>4. Held' => tips' \subseteq quarantine' \cup {world'}
    BY <1>33 DEF Crash
  <2>5. due' \in BOOLEAN
    BY <1>33, Zenon DEF Crash
  <2> QED
    BY <1>33, <2>1, <2>2, <2>3, <2>4, <2>5 DEF Crash
<1>34. CASE Launch
  <2>1. desired' \in BOOLEAN /\ noRecoveryOnce' \in BOOLEAN
    BY <1>34, Zenon DEF Launch
  <2> QED
    BY <1>34, <2>1 DEF Launch
<1>35. CASE StrayExits
  BY <1>35 DEF StrayExits
<1>36. CASE UNCHANGED vars
  BY <1>36 DEF vars
<1> HIDE DEF IInv, Dir
<1> QED
  BY <1>1, <1>2, <1>3, <1>4, <1>5, <1>6, <1>7, <1>8, <1>9, <1>10, <1>11, <1>12, <1>13, <1>14, <1>15, <1>16, <1>17, <1>18, <1>19, <1>20, <1>21, <1>22, <1>23, <1>24, <1>25, <1>26, <1>27, <1>28, <1>29, <1>30, <1>31, <1>32, <1>33, <1>34, <1>35, <1>36 DEF Next, Step, Command, Environment

THEOREM Invariance == Spec => []IInv
<1>1. Init => IInv
  BY InitIInv
<1>2. IInv /\ [Next]_vars => IInv'
  BY NextIInv
<1> QED
  BY <1>1, <1>2, PTL DEF Spec


\* The type invariant holds in every reachable state.
THEOREM TypeCorrect == Spec => []TypeOK
  BY Invariance, PTL DEF IInv

\* As long as no running server has been let go of, no progress made on a
\* server reported healthy is ever deleted, whatever else fails.
THEOREM NothingPlayedIsLost == Spec => []NoWorldLost
  BY Invariance, PTL DEF IInv, Custody

\* As long as no running server has been let go of by a failed write of
\* "save-all flush", the world is never touched under a running server and at
\* most one child runs.
THEOREM NeverTwoServers == Spec => []LiveAlone
  BY Invariance, PTL DEF IInv, Children

\* While the server is wanted, recovery comes after the last retry.
THEOREM RecoveryIsLastResort == Spec => []DisplacedAfterRetries
<1>1. IInv => DisplacedAfterRetries
  BY DEF IInv, Stack, Attempts, Recovering, Waiting, DisplacedAfterRetries
<1> QED
  BY <1>1, Invariance, PTL

-----------------------------------------------------------------------------
\* Only three actions touch the set of backups.
LEMMA WhoChangesBackups ==
  ASSUME [Next]_vars, ~Promote, ~Prune, ~Crash
  PROVE  backups' = backups
<1>1. CASE UNCHANGED vars
  BY <1>1 DEF vars, store
<1>2. CASE Step
  BY <1>2 DEF Step, BackupStarts, store, Main, Ran, Retry, Exhausted, Spawn, ReadySawDone, HealthSawList, WaitFails, MonitorExit, MonitorTick, StopProcess, Copy, Validate, ProbePasses, ProbeFails, Recover, Preserve, Restore, RemoveAll, Revert
<1>3. CASE Command
  BY <1>3 DEF Command, BackupStarts, store, StartupCommand, ControlBackup, ControlStops, ControlStart, ControlOther
<1>4. CASE Environment
  BY <1>4 DEF Environment, store, ServerPrints, ServerExits, ServerGenerates, Play, StrayExits, DayPasses, Launch
<1> QED
  BY <1>1, <1>2, <1>3, <1>4 DEF Next

\* What becomes a backup is the world at that moment, probed cleanly, unless
\* a server was let go of that may have written to it.
THEOREM PromotionSound == Spec => PromotionIsSound
<1> DEFINE Sound == Held => \A b \in backups' : (\A c \in backups : c.stamp # b.stamp) =>
                        b.data = world /\ proc["probe"] = "clean" /\ ~Alive("live")
<1>1. ASSUME IInv, [Next]_vars PROVE Sound
  <2>1. CASE Promote
    BY <1>1, <2>1 DEF IInv, Stack, Children, LiveAlone, Probing, Promote
  <2>2. ASSUME NEW rest \in Leftovers(Doomed), backups' = (backups \ Doomed) \cup rest
        PROVE  Sound
    <3>1. \A r \in rest : \E b \in backups : r.stamp = b.stamp
      <4>1. Doomed \subseteq backups /\ backups \subseteq Backup
        BY <1>1 DEF Doomed, IInv, TypeOK
      <4> QED
        BY <4>1 DEF Leftovers, Backup
    <3> QED
      BY <2>2, <3>1
  <2>3. CASE Prune
    BY <2>2, <2>3 DEF Prune
  <2>4. CASE Crash
    BY <2>2, <2>4 DEF Crash
  <2>5. CASE ~Promote /\ ~Prune /\ ~Crash
    BY <1>1, <2>5, WhoChangesBackups
  <2> QED
    BY <2>1, <2>3, <2>4, <2>5
<1>2. IInv /\ [Next]_vars => [Sound]_vars
  BY <1>1
<1> QED
  BY <1>2, Invariance, PTL DEF Spec, PromotionIsSound

\* The world is moved aside only for a backup that has passed its probe,
\* and the newest of those not rejected.
THEOREM RestoreProbed == Spec => RestoreIsProbed
<1> DEFINE Probed == pc = "preserve" /\ world' # world =>
                        proc["probe"] = "clean" /\ \A b \in untried : b.stamp < trying.stamp
<1>1. IInv => Probed
  BY DEF IInv, Stack, Children, Listing, Recovering
<1>2. IInv /\ [Next]_vars => [Probed]_vars
  BY <1>1
<1> QED
  BY <1>2, Invariance, PTL DEF Spec, RestoreIsProbed

-----------------------------------------------------------------------------
\* Nothing on disk is torn, but for a copy about to be removed.
AllWhole ==
    Held =>
        /\ \A b \in backups \cup untried \cup {trying} : b.data.whole
        /\ \A w \in quarantine \cup {preserved, candidate} : w # NoWorld => w.whole
        /\ world # NoWorld /\ pc # "remove" => world.whole

LEMMA NextAllWhole ==
  ASSUME Faults \cap {"crash", "remove"} = {}, IInv, AllWhole, [Next]_vars
  PROVE  AllWhole'
<1> USE DEF AllWhole, IInv, TypeOK, World, Backup, Held, Cleared, cmd, frame, ret, child, loop,
        store, history
<1>1. CASE Main
  BY <1>1 DEF Main, Enter, NoBackup, Fresh
<1>2. CASE Ran
  BY <1>2 DEF Ran, Enter
<1>3. CASE Retry
  BY <1>3 DEF Retry, MoreRetries, Enter
<1>4. CASE Exhausted
  BY <1>4 DEF Exhausted, Enter
<1>5. CASE Spawn
  BY <1>5 DEF Spawn, StartFails, Rejected, BackupReturns, MonitorReturns, Enter
<1>6. CASE ReadySawDone
  BY <1>6 DEF ReadySawDone, Enter
<1>7. CASE HealthSawList
  BY <1>7 DEF HealthSawList, StartSucceeds, Enter
<1>8. CASE WaitFails
  BY <1>8 DEF WaitFails, Kill, StartFails, Rejected, BackupReturns, MonitorReturns, Enter
<1>9. CASE MonitorExit
  BY <1>9 DEF MonitorExit, MonitorReturns
<1>10. CASE MonitorTick
  BY <1>10 DEF MonitorTick, BackupStarts, MonitorReturns
<1>11. CASE StopProcess
  BY <1>11 DEF StopProcess, MonitorReturns, BackupReturns, Enter
<1>12. CASE Copy
  BY <1>12 DEF Copy, BackupReturns, MonitorReturns, Enter
<1>13. CASE Validate
  BY <1>13 DEF Validate, Subject, Rejected, BackupReturns, MonitorReturns, Enter
<1>14. CASE ProbePasses
  BY <1>14 DEF ProbePasses, ProbePassed, Enter
<1>15. CASE ProbeFails
  BY <1>15 DEF ProbeFails, Rejected, BackupReturns, MonitorReturns, Enter
<1>16. CASE Promote
  BY <1>16 DEF Promote, Stack, Probing, Enter, BackupReturns, MonitorReturns
<1>17. CASE Prune
  BY <1>17 DEF Prune, BackupReturns, MonitorReturns
<1>18. CASE Recover
  BY <1>18 DEF Recover, Newest, Enter
<1>19. CASE Preserve
  BY <1>19 DEF Preserve, Enter
<1>20. CASE Restore
  BY <1>20 DEF Restore, Enter
<1>21. CASE RemoveAll
  BY <1>21 DEF RemoveAll, Enter
<1>22. CASE Revert
  BY <1>22 DEF Revert, Enter
<1>23. CASE StartupCommand
  BY <1>23 DEF StartupCommand, StartFails, Rejected, BackupReturns, MonitorReturns, Enter
<1>24. CASE ControlBackup
  BY <1>24 DEF ControlBackup, BackupStarts, MonitorReturns
<1>25. CASE ControlStops
  BY <1>25 DEF ControlStops, Enter
<1>26. CASE ControlStart
  BY <1>26 DEF ControlStart
<1>27. CASE ControlOther
  BY <1>27 DEF ControlOther, MonitorReturns
<1>28. CASE ServerPrints
  BY <1>28 DEF ServerPrints
<1>29. CASE \E d \in Dir : ServerExits(d)
  BY <1>29 DEF ServerExits
<1>30. CASE ServerGenerates
  BY <1>30 DEF ServerGenerates, Fresh
<1>31. CASE Play
  BY <1>31 DEF Play, Children, LiveAlone
<1>32. CASE DayPasses
  BY <1>32 DEF DayPasses
<1>33. CASE Crash
  BY <1>33 DEF Crash
<1>34. CASE Launch
  BY <1>34 DEF Launch
<1>35. CASE StrayExits
  BY <1>35 DEF StrayExits
<1>36. CASE UNCHANGED vars
  BY <1>36 DEF vars
<1> HIDE DEF IInv, AllWhole
<1> QED
  BY <1>1, <1>2, <1>3, <1>4, <1>5, <1>6, <1>7, <1>8, <1>9, <1>10, <1>11, <1>12, <1>13, <1>14, <1>15, <1>16, <1>17, <1>18, <1>19, <1>20, <1>21, <1>22, <1>23, <1>24, <1>25, <1>26, <1>27, <1>28, <1>29, <1>30, <1>31, <1>32, <1>33, <1>34, <1>35, <1>36 DEF Next, Step, Command, Environment

\* On a machine that never dies in the middle of a step and removes what it
\* is told to remove, every backup that holds HEALTHY is complete as long as
\* no running server has been let go of, whatever else fails.
THEOREM BackupsAreWhole ==
  ASSUME Faults \cap {"crash", "remove"} = {}
  PROVE  Spec => []WholeBackups
<1>1. Init => AllWhole
  BY DEF Init, AllWhole, NoBackup, Fresh
<1>2. IInv /\ AllWhole /\ [Next]_vars => AllWhole'
  BY NextAllWhole
<1>3. AllWhole => WholeBackups
  BY DEF AllWhole, WholeBackups
<1> QED
  BY <1>1, <1>2, <1>3, Invariance, PTL DEF Spec

-----------------------------------------------------------------------------
(* Supervisor implements WorldCustody.  Most steps of the goroutine change *)
(* nothing that WorldCustody knows of, or start or end the live server.    *)
(* The others are those of createBackup and recoverFromBackups; IInv says  *)
(* when they happen, and Sources what they take.                           *)

\* The world that Revert puts back is in quarantine.
Reverting ==
    \/ pc = "revert"
    \/ Displaced

\* Where recoverFromBackups takes what it restores or puts back.
Sources ==
    /\ Recovering => untried \subseteq backups
    /\ Recovering /\ pc # "recover" => trying \in backups
    /\ pc = "restore" /\ Held => world = NoWorld
    /\ Reverting => preserved \in quarantine

LEMMA InitSources == Init => Sources
  BY DEF Init, Sources, Recovering, Waiting, Reverting, Displaced

LEMMA NextSources == IInv /\ Sources /\ [Next]_vars => Sources'
<1> SUFFICES ASSUME IInv, Sources, [Next]_vars PROVE Sources'
  OBVIOUS
<1> USE SMTT(20)
    DEF IInv, TypeOK, PC, Dir, Stack, Waiting, Children, LiveAlone, Alive, Sources,
        Recovering, Reverting, Displaced, Held, Cleared, cmd, frame, ret, child, loop, store,
        history
<1>1. CASE Main
  BY <1>1 DEF Main, Enter
<1>2. CASE Ran
  BY <1>2 DEF Ran, Enter
<1>3. CASE Retry
  BY <1>3 DEF Retry, MoreRetries, Enter
<1>4. CASE Exhausted
  BY <1>4 DEF Exhausted, Enter
<1>5. CASE Spawn
  BY <1>5 DEF Spawn, StartFails, Rejected, BackupReturns, MonitorReturns, Enter
<1>6. CASE ReadySawDone
  BY <1>6 DEF ReadySawDone, Enter
<1>7. CASE HealthSawList
  BY <1>7 DEF HealthSawList, StartSucceeds, Enter
<1>8. CASE WaitFails
  BY <1>8 DEF WaitFails, StartFails, Rejected, BackupReturns, MonitorReturns, Enter
<1>9. CASE MonitorExit
  BY <1>9 DEF MonitorExit, MonitorReturns
<1>10. CASE MonitorTick
  BY <1>10 DEF MonitorTick, BackupStarts, MonitorReturns
<1>11. CASE StopProcess
  BY <1>11 DEF StopProcess, MonitorReturns, BackupReturns, Enter
<1>12. CASE Copy
  BY <1>12 DEF Copy, BackupReturns, MonitorReturns, Enter
<1>13. CASE Validate
  BY <1>13 DEF Validate, Rejected, BackupReturns, MonitorReturns, Enter
<1>14. CASE ProbePasses
  BY <1>14 DEF ProbePasses, Enter
<1>15. CASE ProbeFails
  BY <1>15 DEF ProbeFails, Rejected, BackupReturns, MonitorReturns, Enter
<1>16. CASE Promote
  BY <1>16 DEF Promote, Enter, BackupReturns, MonitorReturns
<1>17. CASE Prune
  BY <1>17 DEF Prune, BackupReturns, MonitorReturns
<1>18. CASE Recover
  BY <1>18 DEF Recover, Enter
<1>19. CASE Preserve
  BY <1>19 DEF Preserve, Enter
<1>20. CASE Restore
  BY <1>20 DEF Restore, Enter
<1>21. CASE RemoveAll
  BY <1>21 DEF RemoveAll, Enter
<1>22. CASE Revert
  BY <1>22 DEF Revert, Enter
<1>23. CASE StartupCommand
  BY <1>23 DEF StartupCommand, StartFails, Rejected, BackupReturns, MonitorReturns, Enter
<1>24. CASE ControlBackup
  BY <1>24 DEF ControlBackup, BackupStarts, MonitorReturns
<1>25. CASE ControlStops
  BY <1>25 DEF ControlStops, Enter
<1>26. CASE ControlStart
  BY <1>26 DEF ControlStart
<1>27. CASE ControlOther
  BY <1>27 DEF ControlOther, MonitorReturns
<1>28. CASE ServerPrints
  BY <1>28 DEF ServerPrints
<1>29. CASE \E d \in Dir : ServerExits(d)
  BY <1>29 DEF ServerExits
<1>30. CASE ServerGenerates
  BY <1>30 DEF ServerGenerates
<1>31. CASE Play
  BY <1>31 DEF Play
<1>32. CASE DayPasses
  BY <1>32 DEF DayPasses
<1>33. CASE Crash
  BY <1>33 DEF Crash
<1>34. CASE Launch
  BY <1>34 DEF Launch
<1>35. CASE StrayExits
  BY <1>35 DEF StrayExits
<1>36. CASE UNCHANGED vars
  BY <1>36 DEF vars
<1> HIDE DEF IInv, Sources, Dir
<1> QED
  BY <1>1, <1>2, <1>3, <1>4, <1>5, <1>6, <1>7, <1>8, <1>9, <1>10, <1>11, <1>12, <1>13, <1>14, <1>15, <1>16, <1>17, <1>18, <1>19, <1>20, <1>21, <1>22, <1>23, <1>24, <1>25, <1>26, <1>27, <1>28, <1>29, <1>30, <1>31, <1>32, <1>33, <1>34, <1>35, <1>36 DEF Next, Step, Command, Environment

-----------------------------------------------------------------------------
\* A step that leaves worlds and backups alone maps to a stutter or to the
\* start or end of the live server.
Quiet == UNCHANGED <<world, quarantine, backups, ver, tips>>

LEMMA QuietIsAllowed == Quiet /\ Held /\ Held' => [Keeper!Next]_(Keeper!custody)
  BY DEF Quiet, Alive, Keeper!Next, Keeper!Switch, Keeper!custody

\* What has been let go of is never got hold of again, and only a failing
\* write of the daily backup lets go.
LEMMA WhoLetsGo ==
  ASSUME TypeOK, [Next]_vars
  PROVE  /\ ~Held => ~Held'
         /\ Held /\ ~Held' => Quiet /\ Alive("live") /\ ~Alive("live")'
<1> USE DEF Held, Cleared, TypeOK, Quiet, store, history
<1>1. CASE UNCHANGED vars
  BY <1>1 DEF vars
<1>2. CASE MonitorTick
  BY <1>2 DEF MonitorTick, BackupStarts, Alive, Dir
<1>3. CASE Step /\ ~MonitorTick
  BY <1>3 DEF Step, Main, Ran, Retry, Exhausted, Spawn, ReadySawDone, HealthSawList, WaitFails,
      MonitorExit, StopProcess, Copy, Validate, ProbePasses, ProbeFails, Promote, Prune, Recover,
      Preserve, Restore, RemoveAll, Revert
<1>4. CASE Command
  BY <1>4 DEF Command, BackupStarts, StartupCommand, ControlBackup, ControlStops, ControlStart,
      ControlOther
<1>5. CASE Environment
  BY <1>5 DEF Environment, ServerPrints, ServerExits, ServerGenerates, Play, StrayExits, DayPasses,
      Crash, Launch
<1> QED
  BY <1>1, <1>2, <1>3, <1>4, <1>5 DEF Next

\* Everything that is not quiet.
LEMMA WhoTouchesWorlds ==
  ASSUME [Next]_vars
  PROVE  \/ Quiet
         \/ Promote \/ Prune
         \/ Preserve \/ Restore \/ RemoveAll \/ Revert
         \/ ServerGenerates \/ Play \/ Crash
<1> USE DEF Quiet, store, history
<1>1. CASE UNCHANGED vars
  BY <1>1 DEF vars
<1>2. CASE Step
  BY <1>2 DEF Step, MonitorTick, BackupStarts, Main, Ran, Retry, Exhausted, Spawn, ReadySawDone,
      HealthSawList, WaitFails, MonitorExit, StopProcess, Copy, Validate, ProbePasses,
      ProbeFails, Recover
<1>3. CASE Command
  BY <1>3 DEF Command, BackupStarts, StartupCommand, ControlBackup, ControlStops, ControlStart,
      ControlOther
<1>4. CASE Environment
  BY <1>4 DEF Environment, ServerPrints, ServerExits, StrayExits, DayPasses, Launch
<1> QED
  BY <1>1, <1>2, <1>3, <1>4 DEF Next

\* Where "save-all flush" can always be written, no running server is ever let
\* go of: it is the one error path of the supervisor that leaves one behind.
THEOREM OnlyInputLetsGo ==
  ASSUME "input" \notin Faults
  PROVE  Spec => []Held
<1>1. Init => Held
  BY DEF Init, Held
<1>2. Held /\ [Next]_vars => Held'
  <2> SUFFICES ASSUME Held, [Next]_vars PROVE Held'
    OBVIOUS
  <2> USE DEF Held, Cleared, history
  <2>1. CASE UNCHANGED vars
    BY <2>1 DEF vars
  <2>2. CASE Step
    BY <2>2 DEF Step, MonitorTick, BackupStarts, Main, Ran, Retry, Exhausted, Spawn, ReadySawDone,
        HealthSawList, WaitFails, MonitorExit, StopProcess, Copy, Validate, ProbePasses, ProbeFails,
        Promote, Prune, Recover, Preserve, Restore, RemoveAll, Revert
  <2>3. CASE Command
    BY <2>3 DEF Command, BackupStarts, StartupCommand, ControlBackup, ControlStops, ControlStart,
        ControlOther
  <2>4. CASE Environment
    BY <2>4 DEF Environment, ServerPrints, ServerExits, ServerGenerates, Play, StrayExits, DayPasses,
        Crash, Launch
  <2> QED
    BY <2>1, <2>2, <2>3, <2>4 DEF Next
<1> QED
  BY <1>1, <1>2, PTL DEF Spec

\* WorldCustody has operators of its own for what a removal leaves behind.
LEMMA SameOperators ==
  /\ \A S : Keeper!Cardinality(S) = Cardinality(S)
  /\ \A S : Keeper!Leftovers(S) = Leftovers(S)
<1>1. \A S : Keeper!Cardinality(S) = Cardinality(S)
  BY Zenon DEF Cardinality, Keeper!Cardinality
<1>2. \A S : Keeper!Leftovers(S) = Leftovers(S)
  BY Zenon DEF Leftovers, Keeper!Leftovers, Torn, Keeper!Torn
<1> QED
  BY <1>1, <1>2

LEMMA NextIsAllowed ==
  ASSUME IInv, Sources, [Next]_vars
  PROVE  [Keeper!Next]_(Keeper!custody)
<1>12. CASE ~Held
  <2>1. ~Held'
    BY <1>12, WhoLetsGo DEF IInv
  <2>2. Keeper!Next
    BY <1>12, <2>1 DEF Keeper!Next
  <2> QED
    BY <2>2
<1>13. CASE Held /\ ~Held'
  <2>1. Quiet /\ Alive("live") /\ ~Alive("live")'
    BY <1>13, WhoLetsGo DEF IInv
  <2>2. Keeper!LetGo
    BY <1>13, <2>1 DEF Quiet, Keeper!LetGo
  <2>3. Keeper!Next
    BY <1>13, <2>2 DEF Keeper!Next
  <2> QED
    BY <2>3
<1>14. SUFFICES ASSUME Held, Held' PROVE [Keeper!Next]_(Keeper!custody)
  BY <1>12, <1>13
<1> USE <1>14 DEF Alive
<1>1. CASE Quiet
  BY <1>1, QuietIsAllowed
<1>2. CASE Promote
  <2>1. ~Alive("live") /\ ~Alive("live")'
    BY <1>2 DEF Promote, child, IInv, Children, LiveAlone
  <2>2. CASE UNCHANGED backups
    BY <1>2, <2>2, QuietIsAllowed DEF Promote, Quiet
  <2>3. CASE backups' = backups \cup {[stamp |-> stamp + 1, data |-> candidate]}
    <3> DEFINE new == [stamp |-> stamp + 1, data |-> candidate]
    <3>1. new.data = world
      BY <1>2 DEF Promote, IInv, Probing, Stack
    <3>2. \A c \in backups : c.stamp < new.stamp
      BY DEF IInv, TypeOK, Backup, Listing, Named
    <3>3. Keeper!BackUp
      BY <1>2, <2>1, <2>3, <3>1, <3>2 DEF Promote, Keeper!BackUp
    <3> QED
      BY <3>3 DEF Keeper!Next
  <2> QED
    BY <1>2, <2>2, <2>3 DEF Promote
<1>3. ASSUME ~Alive("live"), ~Alive("live")', UNCHANGED <<world, quarantine, ver, tips>>,
             \E rest \in Leftovers(Doomed) : backups' = (backups \ Doomed) \cup rest
      PROVE  Keeper!Prune
  <2>1. Keeper!Outdated = Doomed
    BY SameOperators, Zenon DEF Keeper!Outdated, Doomed
  <2>2. Keeper!Leftovers(Keeper!Outdated) = Leftovers(Doomed)
    BY <2>1, SameOperators
  <2> QED
    BY <1>3, <2>1, <2>2 DEF Keeper!Prune
<1>4. CASE Prune
  <2>1. ~Alive("live") /\ ~Alive("live")'
    BY <1>4 DEF Prune, child, IInv, Children, LiveAlone
  <2>2. {} \in Leftovers(Doomed)
    <3> DEFINE Tear(T) == {[b EXCEPT !.data = Torn(b.data)] : b \in T}
               Left(K) == {K \cup Tear(T) : T \in SUBSET (Doomed \ K)}
    <3>1. {} \in Left({})
      <4>1. {} = {} \cup Tear({})
        OBVIOUS
      <4> HIDE DEF Tear
      <4> QED
        BY <4>1
    <3>2. Left({}) \in {Left(K) : K \in SUBSET Doomed}
      OBVIOUS
    <3> HIDE DEF Left
    <3>3. {} \in UNION {Left(K) : K \in SUBSET Doomed}
      BY <3>1, <3>2
    <3> QED
      BY <3>3 DEF Leftovers, Left
  <2>3. Keeper!Prune
    BY <1>3, <1>4, <2>1, <2>2 DEF Prune, history
  <2> QED
    BY <2>3 DEF Keeper!Next
<1>5. CASE Preserve
  <2>1. ~Alive("live") /\ ~Alive("live")'
    BY <1>5 DEF Preserve, child, IInv, Children, LiveAlone
  <2>2. Quiet \/ Keeper!SetAside
    BY <1>5, <2>1 DEF Preserve, Quiet, history, Keeper!SetAside
  <2> QED
    BY <2>2, QuietIsAllowed DEF Keeper!Next
<1>6. CASE Restore
  <2>1. ~Alive("live") /\ ~Alive("live")'
    BY <1>6 DEF Restore, child, IInv, Children, LiveAlone
  <2>2. world = NoWorld /\ trying \in backups
    BY <1>6 DEF Restore, Sources, IInv, Stack, Recovering
  <2>3. Quiet \/ Keeper!Install
    BY <1>6, <2>1, <2>2 DEF Restore, Quiet, history, Keeper!Install, Torn, Keeper!Torn
  <2> QED
    BY <2>3, QuietIsAllowed DEF Keeper!Next
<1>7. CASE RemoveAll
  <2>1. ~Alive("live") /\ ~Alive("live")'
    BY <1>7 DEF RemoveAll, child, IInv, Children, LiveAlone
  <2>2. world \notin tips \ quarantine
    BY <1>7 DEF RemoveAll, IInv, Custody, Displaced
  <2>3. Quiet \/ Keeper!Discard
    BY <1>7, <2>1, <2>2 DEF RemoveAll, Quiet, history, Keeper!Discard, Torn, Keeper!Torn
  <2> QED
    BY <2>3, QuietIsAllowed DEF Keeper!Next
<1>8. CASE Revert
  <2>1. ~Alive("live") /\ ~Alive("live")'
    BY <1>8 DEF Revert, child, IInv, Children, LiveAlone
  <2>2. preserved \in quarantine
    BY <1>8 DEF Revert, Sources, Reverting
  <2>3. Quiet \/ Keeper!PutBack
    BY <1>8, <2>1, <2>2 DEF Revert, Quiet, history, Keeper!PutBack
  <2> QED
    BY <2>3, QuietIsAllowed DEF Keeper!Next
<1>15. stray # "runs"
  BY DEF Held
<1>9. CASE ServerGenerates
  BY <1>9, <1>15 DEF ServerGenerates, child, history, Keeper!Generate, Keeper!Next, Fresh, Keeper!Fresh
<1>10. CASE Play
  BY <1>10, <1>15 DEF Play, child, Keeper!Play, Keeper!Next
<1>11. CASE Crash
  <2>1. ~Alive("live")' /\ UNCHANGED <<quarantine, ver, tips>>
    BY <1>11 DEF Crash, Dir, history
  <2>2. CASE UNCHANGED world /\ UNCHANGED backups
    BY <2>1, <2>2, QuietIsAllowed DEF Quiet
  <2>3. CASE pc = "prune" /\ UNCHANGED world
    BY <1>3, <1>11, <2>1, <2>3 DEF Crash, IInv, Children, LiveAlone, Keeper!Next
  <2>4. CASE pc = "restore" /\ world' \in {Torn(trying.data), trying.data}
    <3>1. ~Alive("live") /\ world = NoWorld /\ trying \in backups /\ UNCHANGED backups
      BY <1>11, <2>4 DEF Crash, Sources, IInv, Children, LiveAlone, Stack, Recovering
    <3> QED
      BY <2>1, <2>4, <3>1 DEF Keeper!Install, Keeper!Next, Torn, Keeper!Torn
  <2>5. CASE pc = "remove" /\ world # NoWorld /\ world' \in {Torn(world), NoWorld}
    <3>1. ~Alive("live") /\ world \notin tips \ quarantine /\ UNCHANGED backups
      BY <1>11, <2>5 DEF Crash, IInv, Children, LiveAlone, Custody, Displaced
    <3> QED
      BY <2>1, <2>5, <3>1 DEF Keeper!Discard, Keeper!Next, Torn, Keeper!Torn
  <2> QED
    BY <1>11, <2>2, <2>3, <2>4, <2>5 DEF Crash
<1> QED
  BY <1>1, <1>2, <1>4, <1>5, <1>6, <1>7, <1>8, <1>9, <1>10, <1>11, WhoTouchesWorlds

\* Through every retry, probe, backup, recovery and crash, the worlds and the
\* backups change only as WorldCustody allows, which promises nothing more
\* from where a running server is let go of.
THEOREM CustodyImplemented == Spec => ImplementsCustody
<1>1. Init => Sources
  BY InitSources
<1>2. IInv /\ Sources /\ [Next]_vars => Sources'
  BY NextSources
<1>3. Init => Keeper!Init
  BY DEF Init, Dir, Alive, Held, Keeper!Init, Fresh, Keeper!Fresh
<1>4. IInv /\ Sources /\ [Next]_vars => [Keeper!Next]_(Keeper!custody)
  BY NextIsAllowed
<1> QED
  BY <1>1, <1>2, <1>3, <1>4, Invariance, PTL DEF Spec, ImplementsCustody, Keeper!Spec

-----------------------------------------------------------------------------
\* Each backup has a name of its own, and there are finitely many names.
LEMMA FinitelyManyBackups ==
  ASSUME NEW B, B \subseteq Backup,
         \A b, c \in B : b.stamp = c.stamp => b = c,
         NEW last \in Nat, \A b \in B : b.stamp <= last
  PROVE  IsFiniteSet(B)
<1> DEFINE name == [b \in B |-> b.stamp]
<1>1. name \in [B -> 0..last]
  BY DEF Backup
<1>2. \A b, c \in B : name[b] = name[c] => b = c
  OBVIOUS
<1> HIDE DEF name
<1> QED
  BY <1>1, <1>2, FinitelyRanked

\* The backups that pruneBackups keeps are newer than those it removes, and
\* it removes none unless it keeps MaxBackups.
LEMMA DoomedAreOldest ==
  ASSUME IInv
  PROVE  /\ \A b \in Doomed, k \in backups \ Doomed : k.stamp > b.stamp
         /\ Doomed # {} => Cardinality(backups \ Doomed) >= MaxBackups
<1> DEFINE age == [b \in backups |-> b.stamp]
<1>1. backups \subseteq Backup /\ Named(backups)
  BY DEF IInv, TypeOK, Listing
<1>2. age \in [backups -> Nat]
  BY <1>1 DEF Backup
<1>3. \A b, c \in backups : age[b] = age[c] => b = c
  BY <1>1 DEF Named
<1>4. Doomed = Beneath(backups, age, MaxBackups)
  <2>1. \A b \in backups : {c \in backups : age[c] > age[b]} = {c \in backups : c.stamp > b.stamp}
    OBVIOUS
  <2> HIDE DEF age
  <2> QED
    BY <2>1 DEF Doomed, Beneath
<1>5. Doomed \subseteq backups
  BY DEF Doomed
<1>6. MaxBackups \in Nat
  BY ParamAssumption
<1>7. \A b \in backups : age[b] = b.stamp
  OBVIOUS
<1> HIDE DEF age
<1>8. IsFiniteSet(backups)
  BY <1>1, FinitelyManyBackups DEF Named, IInv, TypeOK
<1>9. /\ \A b \in Doomed, k \in backups \ Doomed : age[k] > age[b]
      /\ Doomed # {} => Cardinality(backups \ Doomed) >= MaxBackups
  BY <1>2, <1>3, <1>4, <1>6, <1>8, PruningKeeps
<1> QED
  BY <1>5, <1>7, <1>9

\* A backup disappears only when MaxBackups newer ones remain, whichever of
\* the removals of pruneBackups fail or are cut short.
THEOREM BackupsAreRetained == Spec => Retention
<1> DEFINE Kept == \A b \in backups \ backups' :
                       Cardinality({c \in backups' : c.stamp > b.stamp}) >= MaxBackups
<1>1. ASSUME IInv, [Next]_vars PROVE Kept
  <2>1. ASSUME NEW rest \in Leftovers(Doomed), backups' = (backups \ Doomed) \cup rest
        PROVE  Kept
    <3> SUFFICES ASSUME NEW b \in backups \ backups'
                 PROVE  Cardinality({c \in backups' : c.stamp > b.stamp}) >= MaxBackups
      OBVIOUS
    <3>1. b \in Doomed
      BY <2>1
    <3> DEFINE Newer == {c \in backups' : c.stamp > b.stamp}
    <3>2. backups \ Doomed \subseteq Newer
      BY <1>1, <2>1, <3>1, DoomedAreOldest
    <3>3. IsFiniteSet(Newer)
      <4>1. IsFiniteSet(backups')
        <5>1. IInv'
          BY <1>1, NextIInv
        <5> QED
          BY <5>1, FinitelyManyBackups DEF IInv, TypeOK, Listing, Named
      <4> QED
        BY <4>1, FS_Subset
    <3> HIDE DEF Newer
    <3>4. /\ Cardinality(backups \ Doomed) <= Cardinality(Newer)
          /\ Cardinality(backups \ Doomed) \in Nat
          /\ Cardinality(Newer) \in Nat
      BY <3>2, <3>3, FS_Subset, FS_CardinalityType
    <3>5. Cardinality(backups \ Doomed) >= MaxBackups
      BY <1>1, <3>1, DoomedAreOldest
    <3>6. MaxBackups \in Nat
      BY ParamAssumption
    <3>7. Cardinality(Newer) >= MaxBackups
      BY <3>4, <3>5, <3>6
    <3> QED
      BY <3>7 DEF Newer
  <2>2. {} \in Leftovers(Doomed)
    <3> DEFINE Tear(T) == {[b EXCEPT !.data = Torn(b.data)] : b \in T}
    <3>1. {} \cup Tear({}) = {}
      OBVIOUS
    <3>2. Leftovers(Doomed) = UNION {{K \cup Tear(T) : T \in SUBSET (Doomed \ K)} : K \in SUBSET Doomed}
      BY DEF Leftovers
    <3> HIDE DEF Tear
    <3>3. {} \cup Tear({}) \in {{} \cup Tear(T) : T \in SUBSET (Doomed \ {})}
      OBVIOUS
    <3>4. {} \cup Tear({}) \in UNION {{K \cup Tear(T) : T \in SUBSET (Doomed \ K)} : K \in SUBSET Doomed}
      BY <3>3, Zenon
    <3> QED
      BY <3>1, <3>2, <3>4
  <2>3. CASE Promote
    BY <2>3 DEF Promote
  <2>4. CASE Prune
    BY <2>1, <2>2, <2>4 DEF Prune
  <2>5. CASE Crash
    BY <2>1, <2>5 DEF Crash
  <2> QED
    BY <1>1, <2>3, <2>4, <2>5, WhoChangesBackups
<1>2. IInv /\ [Next]_vars => [Kept]_vars
  BY <1>1
<1> QED
  BY <1>2, Invariance, PTL DEF Spec, Retention
=============================================================================
