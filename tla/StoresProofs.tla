----------------------------- MODULE StoresProofs -----------------------------
(***************************************************************************)
(* What is kept, together.  BackupStore, WebStore, StatusQuery and LogPage *)
(* as MCStores composes them: each goes through one of its own behaviours, *)
(* so what is proved of it holds of all of them together (Composed).       *)
(*                                                                         *)
(* And what is kept of the world: BackupStore for every schedule, every    *)
(* number of backups kept, every clock and every number of deaths.         *)
(*                                                                         *)
(* The argument: while the clock is not set back, no backup has a name     *)
(* after the time (Names), and the dates entered are those up to lastDate  *)
(* (Dates).  While all goes well lastDate is the date of the last end, and *)
(* the next backup is begun before the schedule of the day after has been  *)
(* open for a tick (Fresh).                                                *)
(***************************************************************************)
EXTENDS MCStores, WebStoreProofs, LogPageProofs, DataLemmas

Working == {"copied", "marked", "renamed"}

\* Every backup listed was begun in the past, before the one being made.
Names ==
    ~setBack =>
        /\ job # "none" => now = begun + age
        /\ \A e \in Listed : e.name <= now /\ (job # "none" => e.name <= begun)

\* The dates entered come up to the one in the file, and end before today
\* while a scheduled backup is made.
Dates ==
    ~setBack =>
        /\ lastDate # Never => lastDate <= Date(now)
        /\ \A d \in ended : lastDate # Never /\ d <= lastDate
        /\ job \in Working /\ asked = "ticker" => \A d \in ended : d < Date(now)

\* Less than a day has passed since the last end, or the schedule of the next
\* day has not been open for more than a tick.
InTime(t) ==
    \/ t <= lastEnd + DayTicks
    \/ t <= DayTicks * (Date(lastEnd) + 1) + DueTick

\* While nothing fails, backups are begun in time.
Fresh ==
    smooth =>
        /\ up
        /\ lastEnd <= now
        /\ lastDate = Date(lastEnd)
        /\ job = "none" => InTime(now)
        /\ job \in Working => now = begun + age /\ InTime(begun)
        /\ job = "dated" => now <= lastEnd + age

\* A candidate with HEALTHY is the one being made, or a death left it.
LeftOver ==
    \A e \in entries : e.healthy /\ e.hidden => (job = "marked" /\ e = Marked) \/ downs > 0

\* Only a supervisor that runs makes a backup.
Made == job # "none" => up

StoreInv ==
    /\ StoreTypeOK
    /\ Made
    /\ LeftOver
    /\ Names
    /\ Dates

-----------------------------------------------------------------------------
\* The tick at which a date begins, and the date of a tick.
LEMMA Calendar ==
  ASSUME NEW t \in Nat
  PROVE  /\ Date(t) \in Nat /\ Date(t) <= t
         /\ t % DayTicks \in 0..(DayTicks - 1)
         /\ t = DayTicks * Date(t) + (t % DayTicks)
  BY ScheduleAssumption DEF Date

\* Dates follow one another as ticks do, and a day apart.
LEMMA DatesGrow ==
  ASSUME NEW s \in Nat, NEW t \in Nat
  PROVE  /\ s <= t => Date(s) <= Date(t)
         /\ Date(s) < Date(t) => DayTicks * (Date(s) + 1) <= DayTicks * Date(t)
<1>1. s <= t => Date(s) <= Date(t)
  BY ScheduleAssumption DEF Date
<1>2. \A a, b \in Nat : a < b => DayTicks * (a + 1) <= DayTicks * b
  BY ScheduleAssumption
<1> QED
  BY <1>1, <1>2, Calendar

LEMMA NeverIsLater == Never \in Nat /\ LastTick < Never
<1>1. DayTicks * LastTick \in Nat
  BY ScheduleAssumption
<1> QED
  BY <1>1, ScheduleAssumption DEF Never

-----------------------------------------------------------------------------
LEMMA StoreInitInv == StoreInit => StoreInv /\ Fresh
<1> SUFFICES ASSUME StoreInit PROVE StoreInv /\ Fresh
  OBVIOUS
<1> USE DEF StoreInit
<1>1. up \in BOOLEAN /\ setBack \in BOOLEAN /\ smooth \in BOOLEAN /\ ~ smooth
  BY Zenon
<1>2. StoreTypeOK
  BY <1>1, ScheduleAssumption DEF StoreTypeOK
<1> QED
  BY <1>1, <1>2 DEF StoreInv, Fresh, Made, LeftOver, Names, Dates, Listed, Working

LEMMA StoreNextType == StoreInv /\ [StoreNext]_storeVars => StoreTypeOK'
<1> SUFFICES ASSUME StoreInv, [StoreNext]_storeVars PROVE StoreTypeOK'
  OBVIOUS
<1> USE ScheduleAssumption DEF StoreInv, StoreTypeOK, clock, progress, running, record
<1>1. up' \in BOOLEAN /\ setBack' \in BOOLEAN /\ smooth' \in BOOLEAN
  BY Zenon DEF StoreNext, storeVars, Tick, SetBack, Begin, Mark, Rename, Fail, WriteDate,
               LoseDate, Prune, Down, Up
<1>2. Date(now) \in 0..LastTick
  BY Calendar
<1>3. Candidate \in Entry /\ Marked \in Entry /\ Final \in Entry
  BY DEF Candidate, Marked, Final, Entry
<1>4. CASE Tick
  BY <1>1, <1>4 DEF Tick
<1>5. CASE SetBack
  BY <1>1, <1>5 DEF SetBack
<1>6. ASSUME NEW who \in {"ticker", "control"}, Begin(who)
      PROVE  StoreTypeOK'
  <2>1. Candidate' \in Entry
    BY <1>6 DEF Begin, Candidate, Entry
  <2>2. ended' = ended \/ ended' = {}
    BY <1>6 DEF Begin
  <2>3. ended' \subseteq 0..LastTick
    BY <2>2
  <2>4. /\ entries' \subseteq Entry
        /\ job' = "copied" /\ asked' = who /\ begun' = now /\ age' = 0
        /\ UNCHANGED <<clock, lastDate, running, lastEnd, smooth>>
    BY <1>6, <2>1 DEF Begin
  <2> QED
    BY <1>1, <2>3, <2>4
<1>7. CASE Mark
  BY <1>1, <1>3, <1>7 DEF Mark
<1>8. CASE Rename
  BY <1>1, <1>3, <1>8 DEF Rename
<1>9. CASE Fail
  BY <1>1, <1>9 DEF Fail, JobOver
<1>10. CASE WriteDate
  BY <1>1, <1>2, <1>10 DEF WriteDate
<1>11. CASE LoseDate
  BY <1>1, <1>11 DEF LoseDate, DateMayBeLost
<1>12. CASE Prune
  BY <1>1, <1>12 DEF Prune, JobOver
<1>13. CASE Down
  <2>1. UNCHANGED <<lastDate, ended>> \/ (lastDate' = Never /\ ended' = {})
    BY <1>13, Zenon DEF Down, DateMayBeLost
  <2>2. downs < MaxDowns /\ downs' = downs + 1 /\ JobOver /\ UNCHANGED <<clock, entries, lastEnd>>
    BY <1>13, Zenon DEF Down
  <2>3. lastDate' \in 0..LastTick \cup {Never} /\ ended' \subseteq 0..LastTick
    BY <2>1
  <2> QED
    BY <1>1, <2>2, <2>3 DEF JobOver
<1>14. CASE Up
  BY <1>1, <1>14 DEF Up
<1>15. CASE UNCHANGED storeVars
  BY <1>1, <1>15 DEF storeVars
<1> QED
  BY <1>4, <1>5, <1>6, <1>7, <1>8, <1>9, <1>10, <1>11, <1>12, <1>13, <1>14, <1>15
     DEF StoreNext

LEMMA RenameLists == Rename => Listed' = Listed \cup {Final}
<1>1. Marked.hidden /\ Final.healthy /\ ~ Final.hidden
  BY DEF Final, Marked, Candidate
<1> QED
  BY <1>1 DEF Rename, Listed

\* What a step does to the backups that are listed.
LEMMA ListedChanges ==
  ASSUME [StoreNext]_storeVars
  PROVE  \/ Listed' = Listed
         \/ Rename /\ Listed' = Listed \cup {Final}
         \/ Prune /\ Listed' = Listed \ Beyond
<1> USE DEF clock, progress, running, record
<1>1. CASE entries' = entries
  BY <1>1 DEF Listed
<1>2. ASSUME NEW who, Begin(who)
      PROVE  Listed' = Listed
  <2>1. Candidate'.hidden
    BY DEF Candidate
  <2> QED
    BY <1>2, <2>1 DEF Begin, Listed
<1>3. ~ Candidate.healthy /\ Candidate.hidden /\ Marked.hidden
  BY DEF Candidate, Marked
<1>4. CASE Mark
  BY <1>3, <1>4 DEF Mark, Listed
<1>5. CASE Rename
  BY <1>5, RenameLists
<1>6. CASE Fail
  BY <1>3, <1>6 DEF Fail, Listed
<1>7. CASE Prune
  BY <1>7 DEF Prune, Listed
<1> QED
  BY <1>1, <1>2, <1>4, <1>5, <1>6, <1>7
     DEF StoreNext, storeVars, Tick, SetBack, WriteDate, LoseDate, Down, Up

LEMMA StoreNextNames == StoreInv /\ [StoreNext]_storeVars => Names'
<1> SUFFICES ASSUME StoreInv, [StoreNext]_storeVars, ~setBack' PROVE Names'
  BY DEF Names
<1> USE DEF StoreInv, StoreTypeOK, Names, clock, progress, running, record
<1>1. \A e \in Listed : e.name \in Nat
  BY DEF Listed, Entry
<1>2. CASE Tick
  <2>1. Listed' = Listed
    BY <1>2, ListedChanges DEF Tick, Rename, Prune
  <2> QED
    BY <1>1, <1>2, <2>1 DEF Tick
<1>3. CASE SetBack
  BY <1>3 DEF SetBack
<1>4. ASSUME NEW who \in {"ticker", "control"}, Begin(who)
      PROVE  Names'
  <2>1. Listed' = Listed
    BY <1>4, ListedChanges DEF Begin, Rename, Prune
  <2> QED
    BY <1>4, <2>1 DEF Begin
<1>5. CASE Rename
  <2>1. Listed' = Listed \cup {Final}
    BY <1>5, RenameLists
  <2>2. Final.name = begun
    BY DEF Final, Marked, Candidate
  <2> QED
    BY <1>5, <2>1, <2>2 DEF Rename
<1>6. CASE Mark \/ Fail \/ WriteDate \/ LoseDate \/ Prune \/ Up \/ UNCHANGED storeVars
  <2>1. ~ Rename
    BY <1>6 DEF Mark, Fail, WriteDate, LoseDate, Prune, Up, storeVars, Rename, JobOver
  <2>2. Listed' \subseteq Listed
    BY <2>1, ListedChanges
  <2> QED
    BY <1>6, <2>2 DEF Mark, Fail, WriteDate, LoseDate, Prune, Up, storeVars, JobOver
<1>7. CASE Down
  <2>1. Listed' = Listed
    BY <1>7, ListedChanges DEF Down, Rename, Prune
  <2> QED
    BY <1>7, <2>1 DEF Down, JobOver
<1> QED
  BY <1>2, <1>3, <1>4, <1>5, <1>6, <1>7 DEF StoreNext

LEMMA StoreNextDates == StoreInv /\ [StoreNext]_storeVars => Dates'
<1> SUFFICES ASSUME StoreInv, [StoreNext]_storeVars, ~setBack' PROVE Dates'
  BY DEF Dates
<1> USE DEF StoreInv, StoreTypeOK, Dates, Working, clock, progress, running, record
<1>1. now \in Nat /\ Date(now) \in Nat /\ Date(now) <= now /\ now <= LastTick
  BY Calendar
<1>2. Never \in Nat /\ LastTick < Never /\ LastTick \in Nat
  BY NeverIsLater, ScheduleAssumption
<1>3. \A d \in ended : d \in Nat
  OBVIOUS
<1>4. CASE Tick
  <2>1. Date(now) <= Date(now') /\ Date(now') \in Nat
    BY <1>1, <1>4, Calendar, DatesGrow DEF Tick
  <2> QED
    BY <1>1, <1>2, <1>3, <1>4, <2>1 DEF Tick
<1>5. CASE SetBack
  BY <1>5 DEF SetBack
<1>6. ASSUME NEW who \in {"ticker", "control"}, Begin(who)
      PROVE  Dates'
  <2>1. /\ job' = "copied" /\ asked' = who /\ UNCHANGED <<now, setBack, lastDate>>
        /\ ended' = ended \/ ended' = {}
    BY <1>6 DEF Begin
  <2>2. who = "ticker" /\ ended' # {} => Due /\ ended' = ended
    BY <1>6 DEF Begin
  <2>3. /\ lastDate # Never => lastDate <= Date(now)
        /\ \A d \in ended : lastDate # Never /\ d <= lastDate
    BY <2>1
  <2>4. \A d \in ended' : lastDate # Never /\ d <= lastDate
    BY <2>1, <2>3
  <2>5. ASSUME asked' = "ticker", NEW d \in ended' PROVE d < Date(now)
    <3>1. lastDate # Date(now) /\ d \in ended
      BY <2>1, <2>2, <2>5 DEF Due
    <3> QED
      BY <1>1, <1>2, <1>3, <2>3, <3>1
  <2>6. Date(now)' = Date(now)
    BY <2>1 DEF Date
  <2> QED
    BY <2>1, <2>3, <2>4, <2>5, <2>6
<1>7. CASE WriteDate
  BY <1>1, <1>2, <1>3, <1>7 DEF WriteDate
<1>8. CASE LoseDate
  BY <1>8 DEF LoseDate, DateMayBeLost
<1>9. CASE Down
  <2>1. UNCHANGED <<lastDate, ended>> \/ (lastDate' = Never /\ ended' = {})
    BY <1>9, Zenon DEF Down, DateMayBeLost
  <2> QED
    BY <1>9, <2>1 DEF Down, JobOver
<1>10. CASE Mark \/ Rename \/ Fail \/ Prune \/ Up \/ UNCHANGED storeVars
  BY <1>10 DEF Mark, Rename, Fail, Prune, Up, JobOver, storeVars
<1> QED
  BY <1>4, <1>5, <1>6, <1>7, <1>8, <1>9, <1>10 DEF StoreNext

LEMMA StoreNextLeft == StoreInv /\ [StoreNext]_storeVars => LeftOver'
<1> SUFFICES ASSUME StoreInv, [StoreNext]_storeVars PROVE LeftOver'
  OBVIOUS
<1> USE DEF StoreInv, StoreTypeOK, LeftOver, clock, progress, running, record
<1>1. /\ downs \in Nat
      /\ ~ Candidate.healthy /\ Candidate.hidden /\ Marked.healthy /\ Marked.hidden
      /\ Final.healthy /\ ~ Final.hidden
  BY ScheduleAssumption DEF Candidate, Marked, Final
<1>2. ASSUME NEW who \in {"ticker", "control"}, Begin(who)
      PROVE  LeftOver'
  <2>1. ~ Candidate'.healthy /\ job = "none" /\ downs' = downs
    BY <1>2 DEF Begin, Candidate
  <2> QED
    BY <1>2, <2>1 DEF Begin
<1>3. CASE Mark
  <2>1. Marked' = Marked
    BY <1>3 DEF Mark, Marked, Candidate
  <2> QED
    BY <1>1, <1>3, <2>1 DEF Mark
<1>4. CASE Rename
  BY <1>1, <1>4 DEF Rename
<1>5. CASE Fail
  BY <1>1, <1>5 DEF Fail
<1>6. CASE Tick \/ SetBack \/ WriteDate \/ LoseDate \/ Up \/ UNCHANGED storeVars
  <2>1. entries' = entries /\ downs' = downs /\ begun' = begun
    BY <1>6 DEF Tick, SetBack, WriteDate, LoseDate, Up, storeVars
  <2>2. Marked' = Marked /\ (job = "marked" => job' = job)
    BY <1>6, <2>1 DEF Tick, SetBack, WriteDate, LoseDate, Up, storeVars, Marked, Candidate
  <2> QED
    BY <2>1, <2>2
<1>7. CASE Prune
  BY <1>7 DEF Prune
<1>8. CASE Down
  <2>1. entries' = entries /\ downs' = downs + 1
    BY <1>8 DEF Down
  <2> QED
    BY <1>1, <2>1
<1> QED
  BY <1>2, <1>3, <1>4, <1>5, <1>6, <1>7, <1>8 DEF StoreNext

\* The inductive invariant holds in every reachable state.
THEOREM StoreInvariance == StoreSpec => []StoreInv
<1>1. StoreInv /\ [StoreNext]_storeVars => Made'
  BY DEF StoreInv, StoreNext, storeVars, clock, progress, running, record, Made, JobOver,
         Tick, SetBack, Begin, Mark, Rename, Fail, WriteDate, LoseDate, Prune, Down, Up
<1>2. StoreInv /\ [StoreNext]_storeVars => StoreInv'
  BY <1>1, StoreNextType, StoreNextLeft, StoreNextNames, StoreNextDates DEF StoreInv
<1> QED
  BY <1>2, StoreInitInv, PTL DEF StoreSpec

\* Types hold in every reachable state.
THEOREM StoreTypeCorrect == StoreSpec => []StoreTypeOK
  BY StoreInvariance, PTL DEF StoreInv

-----------------------------------------------------------------------------
\* As long as the clock is not set back, every new backup sorts after all
\* others, which is what Supervisor takes for granted of its stamps.
THEOREM NewNamesAreLast == StoreSpec => NamesGrow
<1> DEFINE Grow == \A e \in Listed' \ Listed : ~setBack => \A f \in Listed : f.name < e.name
<1>1. ASSUME StoreInv, [StoreNext]_storeVars PROVE Grow
  <2> SUFFICES ASSUME NEW e \in Listed' \ Listed, ~setBack, NEW f \in Listed
               PROVE  f.name < e.name
    OBVIOUS
  <2>1. Rename /\ e = Final
    BY <1>1, ListedChanges
  <2>2. e.name = begun /\ e.healthy /\ ~ e.hidden /\ e \in Entry
    <3>1. Final \in Entry
      BY <1>1 DEF StoreInv, StoreTypeOK, Entry, Final, Marked, Candidate
    <3> QED
      BY <2>1, <3>1 DEF Final, Marked, Candidate
  <2>3. f.name <= begun
    BY <1>1, <2>1 DEF StoreInv, Names, Rename
  <2>4. f \in Entry /\ f.healthy /\ ~ f.hidden
    BY <1>1 DEF Listed, StoreInv, StoreTypeOK
  <2>5. f.name # e.name
    <3>1. f.hidden \in BOOLEAN /\ f.healthy \in BOOLEAN /\ e.hidden \in BOOLEAN /\ e.healthy \in BOOLEAN
      BY <2>2, <2>4 DEF Entry
    <3>2. f.hidden = e.hidden /\ f.healthy = e.healthy
      BY <2>2, <2>4, <3>1, Zenon
    <3> QED
      BY <2>2, <2>4, <3>2 DEF Entry
  <2> QED
    BY <2>2, <2>3, <2>4, <2>5 DEF Entry
<1>2. StoreInv /\ [StoreNext]_storeVars => [Grow]_storeVars
  BY <1>1
<1> QED
  BY <1>2, StoreInvariance, PTL DEF StoreSpec, NamesGrow

\* As long as the clock is not set back, no date that has been entered sees a
\* second scheduled backup end.
THEOREM OneScheduledPerDate == StoreSpec => OnePerDate
<1> DEFINE Once == job = "renamed" /\ job' = "dated" /\ asked = "ticker" /\ ~setBack
                       => Date(now) \notin ended
<1>1. StoreInv => Once
  <2>1. now \in 0..LastTick => Date(now) \in Nat
    BY Calendar, ScheduleAssumption
  <2> QED
    BY <2>1 DEF StoreInv, StoreTypeOK, Dates, Working
<1>2. StoreInv /\ [StoreNext]_storeVars => [Once]_storeVars
  BY <1>1
<1> QED
  BY <1>2, StoreInvariance, PTL DEF StoreSpec, OnePerDate

-----------------------------------------------------------------------------
\* A listed backup is known by its name, so there are finitely many.
LEMMA ListedByName ==
  ASSUME StoreTypeOK
  PROVE  /\ \A e \in Listed : e.name \in 0..LastTick
         /\ \A e, f \in Listed : e.name = f.name => e = f
         /\ IsFiniteSet(Listed)
<1> DEFINE rank == [e \in Listed |-> e.name]
<1>1. \A e \in Listed : e \in Entry /\ e.healthy = TRUE /\ e.hidden = FALSE
  <2> SUFFICES ASSUME NEW e \in Listed
               PROVE  e \in Entry /\ e.healthy = TRUE /\ e.hidden = FALSE
    OBVIOUS
  <2>1. e \in Entry /\ e.healthy /\ ~ e.hidden
    BY DEF Listed, StoreTypeOK
  <2>2. e.healthy \in BOOLEAN /\ e.hidden \in BOOLEAN
    BY <2>1 DEF Entry
  <2> QED
    BY <2>1, <2>2, Zenon
<1>2. \A e \in Listed : e.name \in 0..LastTick
  BY <1>1 DEF Entry
<1>3. \A e, f \in Listed : e.name = f.name => e = f
  BY <1>1 DEF Entry
<1>4. rank \in [Listed -> 0..LastTick] /\ \A e, f \in Listed : rank[e] = rank[f] => e = f
  BY <1>2, <1>3
<1> HIDE DEF rank
<1>5. IsFiniteSet(Listed)
  BY <1>4, FinitelyRanked, ScheduleAssumption
<1> QED
  BY <1>2, <1>3, <1>5

\* Whatever the clock does, pruning leaves KeptBackups backups where there
\* were as many.
THEOREM EnoughBackupsRemain == StoreSpec => EnoughRemain
<1> DEFINE Enough == Cardinality(Listed') >= KeptBackups \/ Listed \subseteq Listed'
<1>1. ASSUME StoreInv, [StoreNext]_storeVars PROVE Enough
  <2>1. CASE Listed' = Listed \ Beyond /\ Beyond # {}
    <3> DEFINE rank == [e \in Listed |-> e.name]
    <3>1. StoreTypeOK /\ KeptBackups \in Nat
      BY <1>1, ScheduleAssumption DEF StoreInv
    <3>2. rank \in [Listed -> Nat] /\ \A e, f \in Listed : rank[e] = rank[f] => e = f
      BY <3>1, ListedByName
    <3>3. Beyond = Beneath(Listed, rank, KeptBackups)
      <4>1. \A e \in Listed : {f \in Listed : rank[f] > rank[e]} = Newer(e)
        BY DEF Newer
      <4> HIDE DEF rank
      <4> QED
        BY <4>1 DEF Beyond, Beneath
    <3> HIDE DEF rank
    <3>4. Cardinality(Listed \ Beneath(Listed, rank, KeptBackups)) >= KeptBackups
      BY <2>1, <3>1, <3>2, <3>3, ListedByName, PruningKeeps
    <3> QED
      BY <2>1, <3>3, <3>4
  <2> QED
    BY <1>1, <2>1, ListedChanges
<1>2. StoreInv /\ [StoreNext]_storeVars => [Enough]_storeVars
  BY <1>1
<1> QED
  BY <1>2, StoreInvariance, PTL DEF StoreSpec, EnoughRemain

\* The backup that the page shows is the newest one listed, whatever
\* candidates there are; while none is listed it may be a candidate that has
\* passed its probe and is being made, or that a death left.
THEOREM ShownIsListed == StoreSpec => []LastShownIsListed
<1>1. ASSUME StoreTypeOK, Listed # {}
      PROVE  \E e \in Listed : Shown = {e} /\ Newer(e) = {}
  <2> DEFINE names == {e.name : e \in Listed}
  <2>1. names \in SUBSET Nat /\ (\A n \in names : n <= LastTick) /\ LastTick \in Nat
    BY <1>1, ListedByName, ScheduleAssumption
  <2>2. names # {}
    <3>1. PICK e \in Listed : TRUE
      BY <1>1
    <3>2. e.name \in names
      OBVIOUS
    <3> QED
      BY <3>2
  <2> HIDE DEF names
  <2>3. PICK top \in names : \A n \in names : n <= top
    BY <2>1, <2>2, GreatestNatural
  <2>4. PICK e \in Listed : top = e.name
    BY <2>3 DEF names
  <2>5. \A f \in Listed : f.name <= e.name /\ (f # e => f.name < e.name)
    BY <1>1, <2>3, <2>4, ListedByName DEF names
  <2>6. Newer(e) = {}
    BY <1>1, <2>5, ListedByName DEF Newer
  <2>7. e \in entries /\ e.healthy /\ ~ e.hidden
    BY DEF Listed
  <2>8. ASSUME NEW f \in entries, f.healthy, f # e
        PROVE  SortsBefore(f, e) /\ ~ SortsBefore(e, f)
    <3>1. CASE f.hidden
      <4>1. e.hidden # f.hidden
        BY <2>7, <3>1
      <4> QED
        BY <2>7, <3>1, <4>1, Zenon DEF SortsBefore
    <3>2. CASE ~ f.hidden
      <4>1. f \in Listed
        BY <2>8, <3>2 DEF Listed
      <4>2. f.name < e.name /\ ~ (e.name < f.name)
        BY <1>1, <2>5, <2>8, <4>1, ListedByName
      <4>3. f.hidden \in BOOLEAN /\ e.hidden \in BOOLEAN
        BY <1>1, <2>7 DEF StoreTypeOK, Entry
      <4>4. f.hidden = e.hidden
        BY <2>7, <3>2, <4>3, Zenon
      <4> QED
        BY <2>7, <3>2, <4>2, <4>4, Zenon DEF SortsBefore
    <3> QED
      BY <3>1, <3>2
  <2>9. Shown = {e}
    BY <2>7, <2>8 DEF Shown
  <2> QED
    BY <2>6, <2>9
<1>2. ASSUME StoreInv, Listed = {}, NEW e \in Shown
      PROVE  (job = "marked" /\ e = Marked) \/ (e.hidden /\ downs > 0)
  <2>1. e \in entries /\ e.healthy
    BY DEF Shown
  <2>2. e.hidden
    BY <1>2, <2>1 DEF Listed
  <2> QED
    BY <1>2, <2>1, <2>2 DEF StoreInv, LeftOver
<1>3. StoreInv => LastShownIsListed
  BY <1>1, <1>2 DEF StoreInv, LastShownIsListed
<1> QED
  BY <1>3, StoreInvariance, PTL

-----------------------------------------------------------------------------
\* No backup takes longer than a day.
ShortJobs == LongestJob <= DayTicks

\* The next day begins after the last end and within a day of it.
LEMMA NextDay ==
  ASSUME NEW t \in Nat
  PROVE  /\ DayTicks * (Date(t) + 1) \in Nat
         /\ t < DayTicks * (Date(t) + 1)
         /\ DayTicks * (Date(t) + 1) <= t + DayTicks
<1> DEFINE Midnight == DayTicks * Date(t)
<1> DEFINE NextMidnight == DayTicks * (Date(t) + 1)
<1>1. \A a \in Nat : DayTicks * (a + 1) = DayTicks * a + DayTicks /\ DayTicks * a \in Nat
  BY ScheduleAssumption
<1>2. t = Midnight + (t % DayTicks) /\ t % DayTicks \in 0..(DayTicks - 1)
  BY Calendar
<1>3. NextMidnight = Midnight + DayTicks /\ Midnight \in Nat
  BY <1>1, Calendar
<1>4. DayTicks \in Nat
  BY ScheduleAssumption
<1> HIDE DEF Midnight, NextMidnight
<1>5. NextMidnight \in Nat /\ t < NextMidnight /\ NextMidnight <= t + DayTicks
  BY <1>2, <1>3, <1>4
<1> QED
  BY <1>5 DEF NextMidnight

\* The clock of an idle supervisor does not run past the time in which a
\* backup must have begun.
LEMMA StillInTime ==
  ASSUME now \in Nat, lastEnd \in Nat, lastEnd <= now, lastDate = Date(lastEnd),
         InTime(now), ~ Due
  PROVE  InTime(now + 1)
<1> DEFINE Tomorrow == DayTicks * (Date(lastEnd) + 1)
<1> DEFINE Today == DayTicks * Date(now)
<1>1. /\ DayTicks \in Nat /\ DueTick \in Nat /\ DueTick < DayTicks
      /\ Date(now) \in Nat /\ Date(lastEnd) \in Nat
      /\ now % DayTicks \in Nat /\ now % DayTicks < DayTicks
  BY Calendar, ScheduleAssumption
<1>2. now = Today + (now % DayTicks) /\ Today \in Nat
  <2>1. now = Today + (now % DayTicks)
    BY Calendar
  <2>2. \A a \in Nat : DayTicks * a \in Nat
    BY <1>1
  <2> QED
    BY <1>1, <2>1, <2>2
<1>3. Tomorrow \in Nat /\ lastEnd < Tomorrow /\ Tomorrow <= lastEnd + DayTicks
  BY NextDay
<1>4. Date(lastEnd) <= Date(now)
  BY DatesGrow
<1>5. CASE Date(now) = Date(lastEnd)
  <2>1. Tomorrow = Today + DayTicks
    BY <1>1, <1>5
  <2> HIDE DEF Tomorrow, Today
  <2> QED
    BY <1>1, <1>2, <1>3, <2>1 DEF InTime
<1>6. CASE Date(now) = Date(lastEnd) + 1
  <2>1. Today = Tomorrow
    BY <1>6
  <2>2. now % DayTicks < DueTick
    BY <1>1, <1>6 DEF Due, Open
  <2>3. now + 1 <= Tomorrow + DueTick
    <3> HIDE DEF Tomorrow, Today
    <3> QED
      BY <1>1, <1>2, <1>3, <2>1, <2>2
  <2> QED
    BY <2>3 DEF InTime
<1>7. CASE Date(now) > Date(lastEnd) + 1
  <2>1. Tomorrow + DayTicks <= Today
    <3>1. \A a, b \in Nat : a + 1 < b => DayTicks * (a + 1) + DayTicks <= DayTicks * b
      BY <1>1
    <3> QED
      BY <1>1, <1>7, <3>1
  <2>2. now <= lastEnd + DayTicks \/ now <= Tomorrow + DueTick
    BY DEF InTime
  <2> HIDE DEF Tomorrow, Today
  <2> QED
    BY <1>1, <1>2, <1>3, <2>1, <2>2
<1> QED
  BY <1>1, <1>4, <1>5, <1>6, <1>7

LEMMA NextFresh ==
  ASSUME ShortJobs, StoreInv, Fresh, [StoreNext]_storeVars
  PROVE  Fresh'
<1> SUFFICES ASSUME smooth' PROVE Fresh'
  BY DEF Fresh
<1> USE DEF StoreInv, StoreTypeOK, Made, Working, Fresh, clock, progress, running, record
<1>1. now \in Nat /\ lastEnd \in Nat /\ begun \in Nat /\ age \in Nat /\ DayTicks \in Nat
  BY ScheduleAssumption
<1>2. CASE Tick
  <2>1. smooth /\ UNCHANGED <<up, lastEnd, lastDate, job, begun>> /\ now' = now + 1
    BY <1>2 DEF Tick
  <2>2. \A t : InTime(t)' = InTime(t)
    BY <2>1 DEF InTime, Date
  <2>3. CASE job = "none"
    <3>1. ~ Due /\ InTime(now)
      BY <1>2, <2>1, <2>3 DEF Tick
    <3>2. InTime(now + 1)
      BY <1>1, <2>1, <3>1, StillInTime
    <3> QED
      BY <1>1, <2>1, <2>2, <2>3, <3>2 DEF InTime, Date
  <2>4. CASE job # "none"
    BY <1>1, <1>2, <2>1, <2>4 DEF Tick, InTime, Date
  <2> QED
    BY <2>3, <2>4
<1>3. CASE SetBack \/ Fail \/ LoseDate \/ Down
  <2>1. ~ smooth'
    BY <1>3, Zenon DEF SetBack, Fail, LoseDate, Down
  <2> QED
    BY <2>1
<1>4. ASSUME NEW who \in {"ticker", "control"}, Begin(who)
      PROVE  Fresh'
  <2>1. smooth /\ job = "none" /\ UNCHANGED <<up, lastEnd, lastDate, now>>
    BY <1>4 DEF Begin
  <2>2. job' = "copied" /\ begun' = now /\ age' = 0
    BY <1>4 DEF Begin
  <2> QED
    BY <1>1, <2>1, <2>2 DEF InTime, Date
<1>5. CASE WriteDate
  <2>1. up' /\ job' = "dated" /\ lastDate' = Date(now) /\ lastEnd' = now /\ now' = now /\ age' = age
    BY <1>5, Zenon DEF WriteDate
  <2> QED
    BY <1>1, <2>1 DEF Date
<1>6. CASE Prune
  <2>1. smooth /\ job = "dated" /\ UNCHANGED <<up, lastEnd, lastDate, now>> /\ job' = "none"
    BY <1>6 DEF Prune, JobOver
  <2>2. now <= lastEnd + DayTicks
    BY <1>1, <2>1, ScheduleAssumption DEF ShortJobs
  <2> QED
    BY <1>1, <2>1, <2>2 DEF InTime, Date
<1>7. CASE Mark \/ Rename \/ Up \/ UNCHANGED storeVars
  BY <1>1, <1>7 DEF Mark, Rename, Up, storeVars, InTime, Date
<1> QED
  BY <1>2, <1>3, <1>4, <1>5, <1>6, <1>7 DEF StoreNext

\* While nothing fails, and no backup takes longer than a day, the newest
\* backup is never older than a day, the hours until the schedule opens and
\* the time a backup takes.
THEOREM BackupsAreRecent == ASSUME ShortJobs PROVE StoreSpec => []NeverStale
<1>1. ASSUME StoreInv, Fresh PROVE NeverStale
  <2> SUFFICES ASSUME smooth PROVE now <= lastEnd + DayTicks + DueTick + LongestJob
    BY DEF NeverStale
  <2>1. /\ now \in Nat /\ lastEnd \in Nat /\ begun \in Nat /\ age \in 0..LongestJob
        /\ DayTicks \in Nat /\ DueTick \in Nat /\ LongestJob \in Nat
    BY <1>1, ScheduleAssumption DEF StoreInv, StoreTypeOK
  <2>2. \A t \in Nat : InTime(t) => t <= lastEnd + DayTicks + DueTick
    <3> DEFINE Tomorrow == DayTicks * (Date(lastEnd) + 1)
    <3>1. Tomorrow \in Nat /\ Tomorrow <= lastEnd + DayTicks
      BY <2>1, NextDay
    <3>2. \A t \in Nat : InTime(t) => t <= lastEnd + DayTicks \/ t <= Tomorrow + DueTick
      BY DEF InTime
    <3> HIDE DEF Tomorrow
    <3> QED
      BY <2>1, <3>1, <3>2
  <2> QED
    BY <1>1, <2>1, <2>2 DEF StoreInv, StoreTypeOK, Fresh, Working
<1>2. StoreInv /\ Fresh /\ [StoreNext]_storeVars => Fresh'
  BY NextFresh
<1> QED
  BY <1>1, <1>2, StoreInitInv, StoreInvariance, PTL DEF StoreSpec

-----------------------------------------------------------------------------
(* The composition.                                                        *)

\* Whichever of the four moves, the backups (supervisor/main.go), the files of
\* the web service (web/main.go, web/pc.go), the conversation with the server
\* (web/pc.go) and the page (web/optimization.js) each go through a behaviour of
\* their own, so the theorems about each hold of the four together.
THEOREM Composed == Spec => StoreSpec /\ WebSpec /\ QuerySpec /\ PageSpec
<1>1. Init => StoreInit /\ WebInit /\ QueryInit /\ PageInit
  BY DEF Init
<1>2. [Next]_storesVars => [StoreNext]_storeVars
  BY DEF Next, storesVars
<1>3. [Next]_storesVars => [WebNext]_webVars
  BY DEF Next, storesVars
<1>4. [Next]_storesVars => [QueryNext]_queryVars
  BY DEF Next, storesVars
<1>5. [Next]_storesVars => [PageNext]_pageVars
  BY DEF Next, storesVars
<1> QED
  BY <1>1, <1>2, <1>3, <1>4, <1>5, PTL DEF Spec, StoreSpec, WebSpec, QuerySpec, PageSpec

\* Type correctness of all four together.
THEOREM StoresTypeCorrect == Spec => []TypeOK
<1>1. StoreTypeOK /\ WebTypeOK /\ QueryTypeOK /\ PageTypeOK => TypeOK
  BY DEF TypeOK
<1> QED
  BY <1>1, Composed, StoreTypeCorrect, WebTypeCorrect, QueryTypeCorrect, PageTypeCorrect, PTL
=============================================================================
