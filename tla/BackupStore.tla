------------------------------ MODULE BackupStore ------------------------------
(***************************************************************************)
(* The directory backups/ by name and by date: when a daily backup is due, *)
(* what the entries of createBackup are called while it works, which of    *)
(* them pruneBackups removes (supervisor/main.go), and which one the web   *)
(* service shows (web/main.go).  Supervisor models what is in a backup;    *)
(* here it is a name, which is the local time at which it was begun.       *)
(*                                                                         *)
(* Time is counted in ticks of the wall clock.  A tick is longer than the  *)
(* minute after which monitor looks at the schedule again.                 *)
(***************************************************************************)
EXTENDS Naturals, FiniteSets

CONSTANTS
    KeptBackups,  \* maxBackups
    DayTicks,     \* ticks in a day
    DueTick,      \* the tick of the day at which a backup falls due (4 o'clock)
    LongestJob,   \* ticks that createBackup takes at most; it takes at least one
    MaxDowns,     \* bound: how often the supervisor or its server dies
    LastTick      \* bound: where the clock stops

ASSUME ScheduleAssumption ==
    /\ KeptBackups \in Nat \ {0}
    /\ DayTicks \in Nat \ {0}
    /\ DueTick \in 0..(DayTicks - 1)
    /\ LongestJob \in Nat \ {0}
    /\ MaxDowns \in Nat
    /\ LastTick \in Nat

Never == DayTicks * LastTick + LastTick + 1  \* no tick and no date

VARIABLES
    now,       \* the wall clock
    entries,   \* the directories in backups/
    lastDate,  \* the date in last-backup-date
    job,       \* how far createBackup is
    asked,     \* who asked for it
    begun,     \* its stamp
    age,       \* ticks since it was begun
    up,        \* the supervisor runs and has a server to back up
    downs,     \* how often it has not
    setBack,   \* history: the clock has been set back
    ended,     \* history: the dates entered for scheduled backups since the
               \* file was last lost, or could not be read
    lastEnd,   \* history: when the last backup was finished
    smooth     \* history: since then nothing has failed, died or been set back

clock     == <<now, setBack>>
progress  == <<job, asked, begun, age>>
running   == <<up, downs>>
record    == <<ended, lastEnd, smooth>>
storeVars == <<clock, entries, lastDate, progress, running, record>>

Entry == [name : 0..LastTick, hidden : BOOLEAN, healthy : BOOLEAN]

StoreTypeOK ==
    /\ now \in 0..LastTick
    /\ entries \subseteq Entry
    /\ lastDate \in 0..LastTick \cup {Never}
    /\ job \in {"none", "copied", "marked", "renamed", "dated"}
    /\ asked \in {"ticker", "control"}
    /\ begun \in 0..LastTick
    /\ age \in 0..LongestJob
    /\ downs \in 0..MaxDowns
    /\ up \in BOOLEAN /\ setBack \in BOOLEAN /\ smooth \in BOOLEAN
    /\ ended \subseteq 0..LastTick
    /\ lastEnd \in 0..LastTick

StoreInit ==
    /\ now = 0
    /\ entries = {}
    /\ lastDate = Never
    /\ job = "none"
    /\ asked = "control"
    /\ begun = 0
    /\ age = 0
    /\ up = TRUE
    /\ downs = 0
    /\ setBack = FALSE
    /\ ended = {}
    /\ lastEnd = 0
    /\ smooth = FALSE

Date(t) == t \div DayTicks

\* The hour of the schedule has come.
Open == now % DayTicks >= DueTick

\* Mutant: the hour is compared with >.
DueLater == now % DayTicks > DueTick /\ lastDate # Date(now)

\* backupDue, of a file that can be read.
Due == Open /\ lastDate # Date(now)

\* ".candidate-<stamp>" while it is being made.
Candidate == [name |-> begun, hidden |-> TRUE, healthy |-> FALSE]
Marked == [Candidate EXCEPT !.healthy = TRUE]

\* Mutant: a stamp without the date.
TimeOnlyFinal == [Marked EXCEPT !.hidden = FALSE, !.name = begun % DayTicks]

\* The name of the backup: the local time at which it was begun.
Final == [Marked EXCEPT !.hidden = FALSE]

\* healthyBackups, as a set.
Listed == {e \in entries : e.healthy /\ ~e.hidden}

\* Mutant: the names are compared without their prefix.
SortsByStamp(a, b) == a.name < b.name

\* The order of the names: "." comes before every digit.
SortsBefore(a, b) ==
    \/ a.hidden /\ ~b.hidden
    \/ a.hidden = b.hidden /\ a.name < b.name

\* What latestBackup of the web service returns: the greatest name of a
\* directory that holds HEALTHY.
Shown ==
    {e \in entries : e.healthy /\ \A f \in entries : f.healthy => e = f \/ SortsBefore(f, e)}

-----------------------------------------------------------------------------
\* No createBackup is on its way any more.
JobOver ==
    /\ job' = "none"
    /\ asked' = "control"
    /\ begun' = 0
    /\ age' = 0

\* The minute ticker of monitor is ahead of the clock, and createBackup has
\* come to its end in time.
Tick ==
    /\ now < LastTick
    /\ up /\ job = "none" => ~Due
    /\ job # "none" => age < LongestJob
    /\ now' = now + 1
    /\ age' = IF job = "none" THEN age ELSE age + 1
    /\ UNCHANGED <<setBack, entries, lastDate, job, asked, begun, running, record>>

\* Once: somebody sets the clock back.
SetBack ==
    /\ ~setBack
    /\ now' \in 0..(now - 1)
    /\ setBack' = TRUE
    /\ smooth' = FALSE
    /\ UNCHANGED <<entries, lastDate, progress, running, ended, lastEnd>>

\* createBackup for the ticker or a command, up to the copy of the world.  A
\* last-backup-date that cannot be read makes any date due.
Begin(who) ==
    /\ up /\ job = "none"
    /\ who = "ticker" => Open
    /\ ended' = IF who = "ticker" /\ ~Due THEN {} ELSE ended
    /\ job' = "copied"
    /\ asked' = who
    /\ begun' = now
    /\ age' = 0
    /\ entries' = {e \in entries : ~(e.name = now /\ e.hidden)} \cup {Candidate'}
    /\ UNCHANGED <<clock, lastDate, running, lastEnd, smooth>>

\* The probe has passed and HEALTHY is written; the probe alone takes a tick.
Mark ==
    /\ job = "copied" /\ age > 0
    /\ job' = "marked"
    /\ entries' = (entries \ {Candidate}) \cup {Marked}
    /\ UNCHANGED <<clock, lastDate, asked, begun, age, running, record>>

\* os.Rename does not replace a directory that has something in it.
Rename ==
    /\ job = "marked"
    /\ Final \notin entries
    /\ entries' = (entries \ {Marked}) \cup {Final}
    /\ job' = "renamed"
    /\ UNCHANGED <<clock, lastDate, asked, begun, age, running, record>>

\* The copy, the probe, a write or the rename fails: RemoveAll(candidate).
Fail ==
    /\ job \in {"copied", "marked"}
    /\ entries' = entries \ {Candidate, Marked}
    /\ JobOver
    /\ smooth' = FALSE
    /\ UNCHANGED <<clock, lastDate, running, ended, lastEnd>>

\* Mutant: the date of the stamp is written.
WriteBegunDate ==
    /\ job = "renamed"
    /\ job' = "dated"
    /\ lastDate' = Date(begun)
    /\ ended' = IF asked = "ticker" THEN ended \cup {Date(now)} ELSE ended
    /\ lastEnd' = now
    /\ smooth' = TRUE
    /\ UNCHANGED <<clock, entries, asked, begun, age, running>>

\* last-backup-date is written, with the date it is by then.
WriteDate ==
    /\ job = "renamed"
    /\ job' = "dated"
    /\ lastDate' = Date(now)
    /\ ended' = IF asked = "ticker" THEN ended \cup {Date(now)} ELSE ended
    /\ lastEnd' = now
    /\ smooth' = TRUE
    /\ UNCHANGED <<clock, entries, asked, begun, age, running>>

\* os.WriteFile empties the file before it writes: when it fails or is cut
\* short the old date is left, or none.
DateMayBeLost(writing) ==
    \/ UNCHANGED <<lastDate, ended>>
    \/ writing /\ lastDate' = Never /\ ended' = {}

\* The error of the write is ignored.
LoseDate ==
    /\ job = "renamed"
    /\ job' = "dated"
    /\ DateMayBeLost(TRUE)
    /\ smooth' = FALSE
    /\ UNCHANGED <<clock, entries, asked, begun, age, running, lastEnd>>

Newer(e) == {f \in Listed : f.name > e.name}

\* Mutant: list[maxBackups-1:].
BeyondTooSoon == {e \in Listed : Cardinality(Newer(e)) >= KeptBackups - 1}

\* list[maxBackups:], newest first.
Beyond == {e \in Listed : Cardinality(Newer(e)) >= KeptBackups}

Prune ==
    /\ job = "dated"
    /\ entries' = entries \ Beyond
    /\ JobOver
    /\ UNCHANGED <<clock, lastDate, running, record>>

\* The supervisor dies, perhaps while it writes the date, or it is left with
\* no healthy server for a while.
Down ==
    /\ up /\ downs < MaxDowns
    /\ up' = FALSE
    /\ downs' = downs + 1
    /\ DateMayBeLost(job = "renamed")
    /\ JobOver
    /\ smooth' = FALSE
    /\ UNCHANGED <<clock, entries, lastEnd>>

Up ==
    /\ ~up
    /\ up' = TRUE
    /\ UNCHANGED <<clock, entries, lastDate, progress, downs, record>>

StoreNext ==
    \/ Tick \/ SetBack \/ Down \/ Up
    \/ Begin("ticker") \/ Begin("control")
    \/ Mark \/ Rename \/ Fail \/ WriteDate \/ LoseDate \/ Prune

StoreSpec == StoreInit /\ [][StoreNext]_storeVars

-----------------------------------------------------------------------------
(* Properties.                                                             *)

\* The backup the page shows as the last one is the first the recovery would
\* try, whatever candidates there are.  While there is none to try it shows
\* nothing, or a candidate that has passed its probe: the one that is being
\* made, or one that a death left (latestBackup, web/main.go:468;
\* healthyBackups).
LastShownIsListed ==
    IF Listed # {}
      THEN \E e \in Listed : Shown = {e} /\ Newer(e) = {}
      ELSE \A e \in Shown : (job = "marked" /\ e = Marked) \/ (e.hidden /\ downs > 0)

\* As long as the clock is not set back, every new backup sorts after all
\* others: what Supervisor takes for granted of its stamps (main.go:401).
NamesGrow ==
    [][\A e \in Listed' \ Listed : ~setBack => \A f \in Listed : f.name < e.name]_storeVars

\* As long as the clock is not set back, a date whose scheduled backup has
\* been entered in last-backup-date, which can be read, sees no second one end,
\* also when one of them began before midnight (the comparison of backupDue and
\* the date written at the end, main.go:410, 418).
OnePerDate ==
    [][job = "renamed" /\ job' = "dated" /\ asked = "ticker" /\ ~setBack
           => Date(now) \notin ended]_storeVars

\* While nothing fails the newest backup is never older than a day, the hours
\* until the schedule opens and the time a backup takes: a backup that ends
\* after midnight stands for the new day and delays the next one until the
\* schedule opens on the day after (main.go:388, 410, 418).
NeverStale == smooth => now <= lastEnd + DayTicks + DueTick + LongestJob

\* Whatever the clock does, no pruning leaves fewer than KeptBackups backups
\* where there were as many (pruneBackups; with a clock set back it may remove
\* the newest).
EnoughRemain ==
    [][Cardinality(Listed') >= KeptBackups \/ Listed \subseteq Listed']_storeVars
=============================================================================
