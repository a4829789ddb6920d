--------------------------- MODULE ControlPlaneProofs ---------------------------
(***************************************************************************)
(* The control plane, for any supervisors, capacities and bounds.          *)
(*                                                                         *)
(* The argument: whoever is past acquireLock holds the lock, so there is   *)
(* one supervisor at a time, and its FIFO stays at the path until it       *)
(* removes it itself (Alone).  So there is one line of commands, received  *)
(* before queued before piped, in the order of acceptance (Lined); a       *)
(* command gets out of it only when its reader ends (Accounted).           *)
(***************************************************************************)
EXTENDS ControlPlane, DataLemmas

\* The types in a form that steps preserve: the supervisors, what the paths
\* lead to, the writers, and the commands.
Processes ==
    /\ phase \in [Supervisors -> {"off", "locked", "ready", "serving", "leaving", "unlinked"}]
    /\ lock \in Supervisors \cup {None}
    /\ fd \in [Supervisors -> Inode \cup {None}]
    /\ queue \in [Supervisors -> Seq(Cmd)]
    /\ ends \in Nat
    /\ busy \subseteq Supervisors /\ deaf \subseteq Supervisors

Places ==
    /\ path \in Inode \cup {None, File}
    /\ inodes \in 0..MaxInodes
    /\ pipe \in [Inode -> Seq(Cmd)]

Senders ==
    /\ web \in Inode \cup {None}
    /\ console \in Inode \cup {None}
    /\ blocked \in BOOLEAN
    /\ carried \in [{"web", "console"} -> 0..MaxCmds]
    /\ sent \in 0..MaxCmds

Commands ==
    /\ accepted \in Seq(Cmd)
    /\ during \in [Cmd -> Nat]
    /\ taken \in Seq(Cmd)
    /\ dropped \subseteq Cmd

Shape == Processes /\ Places /\ Senders /\ Commands

\* The capacities of the pipes and of the queues.
Bounded ==
    /\ \A n \in Inode : Len(pipe[n]) <= PipeCap
    /\ \A s \in Supervisors : Len(queue[s]) <= QueueCap

\* The lock keeps supervisors apart, and the FIFO at the path is the one that
\* is read until its reader removes it.
AloneIn(s) ==
    /\ phase[s] # "off" => lock = s
    /\ phase[s] \in {"off", "locked", "ready"} => fd[s] = None /\ queue[s] = <<>>
    /\ phase[s] \in {"serving", "leaving", "unlinked"} => fd[s] # None
    /\ phase[s] \in {"serving", "leaving"} => path = fd[s]

Alone == \A s \in Supervisors : AloneIn(s)

\* What has been opened was created, and is empty before that.
Created ==
    /\ path \in Inode => path <= inodes
    /\ web \in Inode => web <= inodes
    /\ console \in Inode => console <= inodes
    /\ \A s \in Supervisors : fd[s] \in Inode => fd[s] <= inodes
    /\ \A n \in Inode : n > inodes => pipe[n] = <<>>

\* A writer that has a FIFO open has a command for it.
Carrying ==
    /\ web # None => carried["web"] \in Cmd
    /\ console # None => carried["console"] \in Cmd

\* The pairs of commands accepted one before the other.
Earlier ==
    {pair \in Cmd \X Cmd :
        \E k, l \in 1..Len(accepted) : k < l /\ accepted[k] = pair[1] /\ accepted[l] = pair[2]}

\* Whatever is under way or has been received was accepted.
AllAccepted ==
    /\ ToSet(taken) \subseteq ToSet(accepted)
    /\ \A n \in Inode : ToSet(pipe[n]) \subseteq ToSet(accepted)
    /\ \A s \in Supervisors : ToSet(queue[s]) \subseteq ToSet(accepted)

\* Received, queued and piped commands are in order, each by itself and one
\* kind after the other.  Pipes nobody reads and no path leads to are apart.
Lined ==
    /\ Chain(Earlier, taken)
    /\ \A n \in Inode : Chain(Earlier, pipe[n])
    /\ \A n \in Inode : n = path => Leads(Earlier, taken, pipe[n])
    /\ \A s \in Supervisors :
           /\ Chain(Earlier, queue[s])
           /\ Leads(Earlier, taken, queue[s])
           /\ fd[s] # None => /\ Leads(Earlier, taken, pipe[fd[s]])
                              /\ Leads(Earlier, queue[s], pipe[fd[s]])

\* Where an accepted command is, or that a supervisor has ended since.
Found(c) ==
    \/ \E s \in Supervisors : fd[s] # None /\ c \in ToSet(pipe[fd[s]])
    \/ \E s \in Supervisors : c \in ToSet(queue[s])
    \/ c \in ToSet(taken) \cup dropped
    \/ ends > during[c]
    \/ c \in Long

Accounted ==
    /\ \A c \in Cmd : during[c] <= ends
    /\ \A c \in ToSet(accepted) : Found(c)

PlaneInv ==
    /\ Shape /\ Bounded
    /\ Alone /\ Created /\ Carrying
    /\ AllAccepted /\ Lined /\ Accounted

-----------------------------------------------------------------------------
LEMMA InitPlaneInv == Init => PlaneInv
<1> SUFFICES ASSUME Init PROVE PlaneInv
  OBVIOUS
<1>1. /\ <<>> \in Seq(Cmd) /\ Len(<<>>) = 0 /\ DOMAIN <<>> = {}
  BY EmptySeq, LenProperties
<1>2. ToSet(<<>>) = {} /\ Chain(Earlier, <<>>)
  BY <1>1 DEF ToSet, Chain
<1>3. \A q : Leads(Earlier, <<>>, q)
  BY <1>2 DEF Leads
<1>4. Processes
  BY <1>1 DEF Init, Processes
<1>5. Places /\ Senders /\ Commands
  <2>1. Places
    BY <1>1, ControlAssumption DEF Init, Places
  <2>2. Senders
    <3>1. blocked \in BOOLEAN
      BY Zenon DEF Init
    <3>2. /\ web \in Inode \cup {None} /\ console \in Inode \cup {None}
          /\ carried \in [{"web", "console"} -> 0..MaxCmds] /\ sent \in 0..MaxCmds
      BY ControlAssumption DEF Init
    <3> QED
      BY <3>1, <3>2 DEF Senders
  <2>3. Commands
    BY <1>1 DEF Init, Commands
  <2> QED
    BY <2>1, <2>2, <2>3
<1>6. Bounded
  BY <1>1, ControlAssumption DEF Init, Bounded
<1>7. Alone /\ Created /\ Carrying
  BY ControlAssumption DEF Init, Alone, AloneIn, Created, Carrying, Inode
<1>8. AllAccepted
  BY <1>2 DEF Init, AllAccepted
<1>9. Lined
  BY <1>2, <1>3 DEF Init, Lined
<1>10. Accounted
  BY <1>2 DEF Init, Accounted
<1> QED
  BY <1>4, <1>5, <1>6, <1>7, <1>8, <1>9, <1>10 DEF PlaneInv, Shape

-----------------------------------------------------------------------------
\* A FIFO keeps what is in it or is emptied; an open one keeps it.
LEMMA PipesKeep ==
  ASSUME NEW p \in [Inode -> Seq(Cmd)], PipeIs(p)
  PROVE  /\ pipe' \in [Inode -> Seq(Cmd)]
         /\ \A n \in Inode : pipe'[n] = p[n] \/ pipe'[n] = <<>>
         /\ \A n \in Inode : Held(n)' => pipe'[n] = p[n]
<1>1. <<>> \in Seq(Cmd)
  BY EmptySeq
<1> QED
  BY <1>1 DEF PipeIs

\* The steps after which a supervisor is gone, and the ones at the writers.
LEMMA WhoActs ==
  ASSUME [Next]_vars
  PROVE  \/ UNCHANGED vars
         \/ \E s \in Supervisors :
                \/ AcquireLock(s) \/ EnsureFIFO(s) \/ Open(s) \/ Read(s) \/ Take(s)
                \/ GoesAway(s) \/ ComesBack(s)
                \/ Leave(s) \/ Unlink(s) \/ Exit(s) \/ Crash(s)
         \/ WebOpens \/ WebWrites \/ ConsoleOpens \/ ConsoleWrites
  BY DEF Next, Supervise, Send

LEMMA NextProcesses ==
  ASSUME Processes, Places, [Next]_vars
  PROVE  Processes'
<1> USE DEF Processes, Enter, sups, files, writers, log, fates, runs
<1>1. ASSUME NEW s \in Supervisors, AcquireLock(s) PROVE Processes'
  BY <1>1 DEF AcquireLock
<1>2. ASSUME NEW s \in Supervisors, Ends(s) PROVE Processes'
  <2>1. <<>> \in Seq(Cmd)
    BY EmptySeq
  <2> QED
    BY <1>2, <2>1 DEF Ends
<1>3. ASSUME NEW s \in Supervisors, EnsureFIFO(s) PROVE Processes'
  BY <1>2, <1>3 DEF EnsureFIFO
<1>4. ASSUME NEW s \in Supervisors, Open(s) PROVE Processes'
  BY <1>4 DEF Open, Places
<1>5. ASSUME NEW s \in Supervisors, Read(s) PROVE Processes'
  <2>1. fd[s] \in Inode /\ pipe[fd[s]] # <<>> /\ pipe[fd[s]] \in Seq(Cmd)
    BY <1>5 DEF Read, Places
  <2> DEFINE c == Head(pipe[fd[s]])
  <2>2. c \in Cmd
    BY <2>1, HeadTailProperties
  <2>3. queue' = [queue EXCEPT ![s] = Append(@, c)] \/ queue' = queue
    BY <1>5 DEF Read, Offer
  <2> HIDE DEF c
  <2>4. queue[s] \in Seq(Cmd) /\ Append(queue[s], c) \in Seq(Cmd)
    BY <2>2, AppendProperties
  <2>5. queue' \in [Supervisors -> Seq(Cmd)]
    BY <2>3, <2>4
  <2>6. UNCHANGED <<phase, lock, fd, ends, busy>> /\ deaf' \subseteq Supervisors
    BY <1>5 DEF Read
  <2> QED
    BY <2>5, <2>6
<1>6. ASSUME NEW s \in Supervisors, Take(s) PROVE Processes'
  <2>1. Tail(queue[s]) \in Seq(Cmd)
    BY <1>6, HeadTailProperties DEF Take
  <2> QED
    BY <1>6, <2>1 DEF Take
<1>7. ASSUME NEW s \in Supervisors, Leave(s) \/ Unlink(s) \/ GoesAway(s) \/ ComesBack(s)
      PROVE  Processes'
  BY <1>7 DEF Leave, Unlink, GoesAway, ComesBack
<1>8. CASE WebOpens \/ WebWrites \/ ConsoleOpens \/ ConsoleWrites
  BY <1>8 DEF WebOpens, WebWrites, ConsoleOpens, ConsoleWrites
<1>9. CASE UNCHANGED vars
  BY <1>9 DEF vars
<1> QED
  BY <1>1, <1>2, <1>3, <1>4, <1>5, <1>6, <1>7, <1>8, <1>9, WhoActs DEF Exit, Crash

LEMMA NextPlaces ==
  ASSUME Shape, Carrying, [Next]_vars
  PROVE  Places'
<1> USE DEF sups, files, writers, log, fates, runs, Enter
<1>0. pipe \in [Inode -> Seq(Cmd)] /\ MaxInodes \in Nat
  BY ControlAssumption DEF Shape, Places
<1>1. ASSUME NEW s \in Supervisors, Ends(s), UNCHANGED files PROVE Places'
  <2>1. pipe' \in [Inode -> Seq(Cmd)]
    BY <1>0, <1>1, PipesKeep DEF Ends
  <2> QED
    BY <1>1, <2>1 DEF Shape, Places
<1>2. ASSUME NEW s \in Supervisors, EnsureFIFO(s) PROVE Places'
  <2>1. CASE Ends(s) /\ UNCHANGED files
    BY <1>1, <2>1
  <2>2. CASE inodes < MaxInodes /\ inodes' = inodes + 1 /\ path' = inodes' /\ UNCHANGED pipe
    BY <1>0, <2>2 DEF Shape, Places, Inode
  <2>3. CASE UNCHANGED <<path, inodes, pipe>>
    BY <2>3 DEF Shape, Places
  <2> QED
    BY <1>2, <2>1, <2>2, <2>3 DEF EnsureFIFO
<1>3. ASSUME NEW s \in Supervisors, Read(s) PROVE Places'
  <2>1. fd[s] \in Inode /\ pipe[fd[s]] # <<>>
    BY <1>3 DEF Read, Shape, Processes
  <2>2. Tail(pipe[fd[s]]) \in Seq(Cmd)
    BY <1>0, <2>1, HeadTailProperties
  <2>3. pipe' = [pipe EXCEPT ![fd[s]] = Tail(@)]
    BY <1>3 DEF Read
  <2>4. pipe' \in [Inode -> Seq(Cmd)]
    BY <1>0, <2>1, <2>2, <2>3
  <2>5. UNCHANGED <<path, inodes>>
    BY <1>3 DEF Read
  <2> QED
    BY <2>4, <2>5 DEF Shape, Places
<1>4. ASSUME NEW s \in Supervisors, 
             \/ AcquireLock(s) \/ Open(s) \/ Take(s) \/ GoesAway(s) \/ ComesBack(s)
             \/ Leave(s) \/ Unlink(s)
      PROVE  Places'
  BY <1>4 DEF AcquireLock, Open, Take, GoesAway, ComesBack, Leave, Unlink, Shape, Places
<1>5. ASSUME NEW n \in Inode, NEW w \in {"web", "console"}, carried[w] \in Cmd,
             Written(n, w), UNCHANGED <<path, inodes>>
      PROVE  Places'
  <2> DEFINE p == [pipe EXCEPT ![n] = Append(@, carried[w])]
  <2>1. pipe[n] \in Seq(Cmd) /\ Append(pipe[n], carried[w]) \in Seq(Cmd)
    BY <1>0, <1>5, AppendProperties
  <2>2. p \in [Inode -> Seq(Cmd)]
    BY <1>0, <2>1
  <2>3. PipeIs(p)
    BY <1>5 DEF Written
  <2> HIDE DEF p
  <2>4. pipe' \in [Inode -> Seq(Cmd)]
    BY <2>2, <2>3, PipesKeep
  <2> QED
    BY <1>5, <2>4 DEF Shape, Places
<1>6. ASSUME Refused, UNCHANGED <<path, inodes>> PROVE Places'
  <2>1. pipe' \in [Inode -> Seq(Cmd)]
    BY <1>0, <1>6, PipesKeep DEF Refused
  <2> QED
    BY <1>6, <2>1 DEF Shape, Places
<1>7. CASE WebWrites \/ ConsoleWrites
  <2>1. CASE Refused
    BY <1>6, <1>7, <2>1 DEF WebWrites, ConsoleWrites
  <2>2. CASE WebWrites /\ Written(web, "web")
    BY <1>5, <1>7, <2>2 DEF WebWrites, Carrying, Shape, Senders
  <2>3. CASE ConsoleWrites /\ Written(console, "console")
    BY <1>5, <1>7, <2>3 DEF ConsoleWrites, Carrying, Shape, Senders
  <2> QED
    BY <1>7, <2>1, <2>2, <2>3 DEF WebWrites, ConsoleWrites
<1>8. CASE WebOpens \/ ConsoleOpens
  BY <1>8 DEF WebOpens, ConsoleOpens, Shape, Places
<1>9. CASE UNCHANGED vars
  BY <1>9 DEF vars, Shape, Places
<1> QED
  BY <1>1, <1>2, <1>3, <1>4, <1>7, <1>8, <1>9, WhoActs DEF Exit, Crash

LEMMA NextSenders ==
  ASSUME Shape, [Next]_vars
  PROVE  Senders'
<1> USE DEF sups, files, writers, log, fates, runs, Enter
<1>0. /\ path \in Inode \cup {None, File}
      /\ web \in Inode \cup {None} /\ console \in Inode \cup {None}
      /\ carried \in [{"web", "console"} -> 0..MaxCmds] /\ sent \in 0..MaxCmds
      /\ MaxCmds \in Nat
  BY ControlAssumption DEF Shape, Places, Senders
<1>b. blocked \in BOOLEAN
  BY DEF Shape, Senders
<1>1. ASSUME NEW s \in Supervisors, Open(s) PROVE Senders'
  <2>1. blocked' \in BOOLEAN
    BY <1>1, Zenon DEF Open
  <2>2. UNCHANGED <<web, console, carried, sent>>
    BY <1>1 DEF Open
  <2> QED
    BY <1>0, <2>1, <2>2 DEF Senders
<1>2. ASSUME UNCHANGED <<writers, sent>> PROVE Senders'
  BY <1>2 DEF Shape, Senders
<1>3. ASSUME NEW s \in Supervisors,
             \/ AcquireLock(s) \/ EnsureFIFO(s) \/ Read(s) \/ Take(s)
             \/ GoesAway(s) \/ ComesBack(s)
             \/ Leave(s) \/ Unlink(s) \/ Exit(s) \/ Crash(s)
      PROVE  UNCHANGED <<writers, sent>>
  BY <1>3 DEF AcquireLock, EnsureFIFO, Read, Take, GoesAway, ComesBack, Leave, Unlink, Exit, Crash, Ends
<1>4. ASSUME NEW w \in {"web", "console"}, Carries(w)
      PROVE  /\ carried' \in [{"web", "console"} -> 0..MaxCmds] /\ sent' \in 0..MaxCmds
             /\ carried'[w] \in Cmd
  BY <1>0, <1>4 DEF Carries, Cmd
<1>5. CASE WebOpens
  <2>1. web' \in Inode \cup {None} /\ UNCHANGED <<console, blocked>>
    BY <1>5 DEF WebOpens
  <2>2. blocked' \in BOOLEAN
    BY <1>b, <2>1, Zenon
  <2> QED
    BY <1>0, <1>4, <1>5, <2>1, <2>2 DEF WebOpens, Senders
<1>6. CASE ConsoleOpens
  <2>1. console' \in Inode \cup {None} /\ UNCHANGED web
    BY <1>0, <1>6 DEF ConsoleOpens
  <2>2. blocked' \in BOOLEAN
    BY <1>b, <1>6, Zenon DEF ConsoleOpens
  <2> QED
    BY <1>0, <1>4, <1>6, <2>1, <2>2 DEF ConsoleOpens, Senders
<1>7. CASE WebWrites \/ ConsoleWrites
  <2>1. web' \in Inode \cup {None} /\ console' \in Inode \cup {None}
        /\ UNCHANGED <<blocked, carried, sent>>
    BY <1>0, <1>7 DEF WebWrites, ConsoleWrites
  <2>2. blocked' \in BOOLEAN
    BY <1>b, <2>1, Zenon
  <2> QED
    BY <1>0, <2>1, <2>2 DEF Senders
<1>8. CASE UNCHANGED vars
  BY <1>2, <1>8 DEF vars
<1> QED
  BY <1>1, <1>2, <1>3, <1>5, <1>6, <1>7, <1>8, WhoActs

LEMMA NextCommands ==
  ASSUME Shape, Carrying, [Next]_vars
  PROVE  Commands'
<1> USE DEF sups, files, writers, log, fates, runs, Enter
<1>1. ASSUME UNCHANGED <<accepted, during, taken, dropped>> PROVE Commands'
  BY <1>1 DEF Shape, Commands
<1>2. ASSUME NEW s \in Supervisors,
             \/ AcquireLock(s) \/ EnsureFIFO(s) \/ Open(s)
             \/ GoesAway(s) \/ ComesBack(s)
             \/ Leave(s) \/ Unlink(s) \/ Exit(s) \/ Crash(s)
      PROVE  UNCHANGED <<accepted, during, taken, dropped>>
  BY <1>2 DEF AcquireLock, EnsureFIFO, Open, GoesAway, ComesBack, Leave, Unlink, Exit, Crash, Ends
<1>3. ASSUME NEW s \in Supervisors, Read(s) PROVE Commands'
  <2>1. fd[s] \in Inode /\ pipe[fd[s]] # <<>> /\ pipe[fd[s]] \in Seq(Cmd)
    BY <1>3 DEF Read, Shape, Processes, Places
  <2>2. Head(pipe[fd[s]]) \in Cmd
    BY <2>1, HeadTailProperties
  <2>3. dropped' = dropped \cup {Head(pipe[fd[s]])} \/ dropped' = dropped
    BY <1>3 DEF Read, Offer
  <2>4. UNCHANGED <<accepted, during, taken>>
    BY <1>3 DEF Read
  <2> QED
    BY <2>2, <2>3, <2>4 DEF Shape, Commands
<1>4. ASSUME NEW s \in Supervisors, Take(s) PROVE Commands'
  <2>1. queue[s] \in Seq(Cmd) /\ queue[s] # <<>> /\ taken \in Seq(Cmd)
    BY <1>4 DEF Take, Shape, Processes, Commands
  <2>2. Head(queue[s]) \in Cmd
    BY <2>1, HeadTailProperties
  <2>3. taken' \in Seq(Cmd)
    BY <1>4, <2>1, <2>2, AppendProperties DEF Take
  <2>4. UNCHANGED <<accepted, during, dropped>>
    BY <1>4 DEF Take
  <2> QED
    BY <2>3, <2>4 DEF Shape, Commands
<1>5. ASSUME NEW n \in Inode, NEW w \in {"web", "console"}, carried[w] \in Cmd,
             Written(n, w), UNCHANGED fates
      PROVE  Commands'
  <2>1. accepted' \in Seq(Cmd)
    BY <1>5, AppendProperties DEF Written, Shape, Commands
  <2>2. during' \in [Cmd -> Nat]
    BY <1>5 DEF Written, Shape, Commands, Processes
  <2> QED
    BY <1>5, <2>1, <2>2 DEF Shape, Commands
<1>6. CASE WebWrites \/ ConsoleWrites
  <2>1. CASE Refused
    BY <1>1, <1>6, <2>1 DEF WebWrites, ConsoleWrites, Refused
  <2>2. CASE WebWrites /\ Written(web, "web")
    BY <1>5, <2>2 DEF WebWrites, Carrying, Shape, Senders
  <2>3. CASE ConsoleWrites /\ Written(console, "console")
    BY <1>5, <2>3 DEF ConsoleWrites, Carrying, Shape, Senders
  <2> QED
    BY <1>6, <2>1, <2>2, <2>3 DEF WebWrites, ConsoleWrites
<1>7. CASE WebOpens \/ ConsoleOpens
  BY <1>1, <1>7 DEF WebOpens, ConsoleOpens
<1>8. CASE UNCHANGED vars
  BY <1>1, <1>8 DEF vars
<1> QED
  BY <1>1, <1>2, <1>3, <1>4, <1>6, <1>7, <1>8, WhoActs

-----------------------------------------------------------------------------
\* Where one supervisor is past acquireLock every other one is off.
LEMMA OnlyOne ==
  ASSUME Alone, NEW s \in Supervisors, NEW t \in Supervisors \ {s}, phase[s] # "off"
  PROVE  phase[t] = "off" /\ fd[t] = None /\ queue[t] = <<>>
  BY DEF Alone, AloneIn

LEMMA NextAlone ==
  ASSUME Shape, Alone, [Next]_vars, NEW t \in Supervisors
  PROVE  AloneIn(t)'
<1> USE DEF sups, files, writers, log, fates, runs, Enter
<1>0. /\ phase \in [Supervisors -> {"off", "locked", "ready", "serving", "leaving", "unlinked"}]
      /\ fd \in [Supervisors -> Inode \cup {None}]
      /\ DOMAIN queue = Supervisors
      /\ path \in Inode \cup {None, File}
      /\ None \notin Inode /\ File \notin Inode /\ None # File /\ None \notin Supervisors
  BY ControlAssumption DEF Shape, Processes, Places, Inode
<1>1. AloneIn(t)
  BY DEF Alone
<1>2. ASSUME UNCHANGED <<phase, lock, fd, queue, path>> PROVE AloneIn(t)'
  BY <1>1, <1>2 DEF AloneIn
<1>3. ASSUME NEW s \in Supervisors, Ends(s), UNCHANGED path, phase[s] # "off" PROVE AloneIn(t)'
  <2>1. CASE t = s
    BY <1>0, <1>3, <2>1 DEF Ends, AloneIn
  <2>2. CASE t # s
    BY <1>0, <1>3, <2>2, OnlyOne DEF Ends, AloneIn
  <2> QED
    BY <2>1, <2>2
<1>4. ASSUME NEW s \in Supervisors, AcquireLock(s) PROVE AloneIn(t)'
  <2>1. phase[t] = "off"
    BY <1>0, <1>1, <1>4 DEF AcquireLock, AloneIn
  <2> QED
    BY <1>0, <1>1, <1>4, <2>1 DEF AcquireLock, AloneIn
<1>5. ASSUME NEW s \in Supervisors, EnsureFIFO(s) PROVE AloneIn(t)'
  <2>1. phase[s] = "locked"
    BY <1>5 DEF EnsureFIFO
  <2>2. CASE Ends(s) /\ UNCHANGED path
    BY <1>3, <2>1, <2>2
  <2>3. CASE Enter(s, "ready") /\ UNCHANGED <<lock, fd, queue>>
    <3>1. CASE t = s
      BY <1>0, <1>1, <2>1, <2>3, <3>1 DEF AloneIn
    <3>2. CASE t # s
      BY <1>0, <2>1, <2>3, <3>2, OnlyOne DEF AloneIn
    <3> QED
      BY <3>1, <3>2
  <2> QED
    BY <1>5, <2>2, <2>3 DEF EnsureFIFO
<1>6. ASSUME NEW s \in Supervisors, Open(s) PROVE AloneIn(t)'
  <2>1. CASE t = s
    BY <1>0, <1>1, <1>6, <2>1 DEF Open, AloneIn
  <2>2. CASE t # s
    BY <1>0, <1>6, <2>2, OnlyOne DEF Open, AloneIn
  <2> QED
    BY <2>1, <2>2
<1>7. ASSUME NEW s \in Supervisors, Read(s) \/ Take(s) PROVE AloneIn(t)'
  <2>1. /\ phase[s] \in {"serving", "leaving", "unlinked"}
        /\ UNCHANGED <<phase, lock, fd, path>>
        /\ \A r \in Supervisors \ {s} : queue'[r] = queue[r]
    BY <1>0, <1>7 DEF Read, Offer, Take, Alone, AloneIn
  <2> QED
    BY <1>1, <2>1 DEF AloneIn
<1>8. ASSUME NEW s \in Supervisors, Leave(s) \/ Unlink(s) PROVE AloneIn(t)'
  <2>1. CASE t = s
    BY <1>0, <1>1, <1>8, <2>1 DEF Leave, Unlink, AloneIn
  <2>2. CASE t # s
    BY <1>0, <1>8, <2>2, OnlyOne DEF Leave, Unlink, AloneIn
  <2> QED
    BY <2>1, <2>2
<1>9. ASSUME NEW s \in Supervisors, Exit(s) \/ Crash(s) PROVE AloneIn(t)'
  BY <1>3, <1>9 DEF Exit, Crash
<1>10. CASE WebOpens \/ WebWrites \/ ConsoleWrites \/ UNCHANGED vars
  BY <1>2, <1>10 DEF WebOpens, WebWrites, ConsoleWrites, vars
<1>11. CASE ConsoleOpens
  <2>1. phase[t] \in {"serving", "leaving"} => path \in Inode
    BY <1>0, <1>1 DEF AloneIn
  <2>2. path \in Inode => path' = path
    BY <1>0, <1>11 DEF ConsoleOpens
  <2>3. UNCHANGED <<phase, lock, fd, queue>>
    BY <1>11 DEF ConsoleOpens
  <2> QED
    BY <1>1, <2>1, <2>2, <2>3 DEF AloneIn
<1>12. ASSUME NEW s \in Supervisors, GoesAway(s) \/ ComesBack(s) PROVE AloneIn(t)'
  BY <1>2, <1>12 DEF GoesAway, ComesBack
<1> QED
  BY <1>4, <1>5, <1>6, <1>7, <1>8, <1>9, <1>10, <1>11, <1>12, WhoActs

LEMMA NextCarrying ==
  ASSUME Shape, Carrying, [Next]_vars
  PROVE  Carrying'
<1> USE DEF sups, files, writers, log, fates, runs, Enter
<1>0. /\ carried \in [{"web", "console"} -> 0..MaxCmds] /\ sent \in 0..MaxCmds
      /\ MaxCmds \in Nat
  BY ControlAssumption DEF Shape, Senders
<1>1. ASSUME UNCHANGED <<web, console, carried>> PROVE Carrying'
  BY <1>1 DEF Carrying
<1>2. ASSUME NEW s \in Supervisors,
             \/ AcquireLock(s) \/ EnsureFIFO(s) \/ Open(s) \/ Read(s) \/ Take(s)
             \/ GoesAway(s) \/ ComesBack(s)
             \/ Leave(s) \/ Unlink(s) \/ Exit(s) \/ Crash(s)
      PROVE  UNCHANGED <<web, console, carried>>
  BY <1>2 DEF AcquireLock, EnsureFIFO, Open, Read, Take, GoesAway, ComesBack, Leave, Unlink, Exit, Crash, Ends
<1>3. ASSUME NEW w \in {"web", "console"}, Carries(w)
      PROVE  /\ carried'[w] \in Cmd
             /\ \A v \in {"web", "console"} \ {w} : carried'[v] = carried[v]
  BY <1>0, <1>3 DEF Carries, Cmd
<1>4. CASE WebOpens
  <2>1. carried'["web"] \in Cmd /\ carried'["console"] = carried["console"]
    BY <1>3, <1>4 DEF WebOpens
  <2> QED
    BY <1>4, <2>1 DEF WebOpens, Carrying
<1>5. CASE ConsoleOpens
  <2>1. carried'["console"] \in Cmd /\ carried'["web"] = carried["web"]
    BY <1>3, <1>5 DEF ConsoleOpens
  <2> QED
    BY <1>5, <2>1 DEF ConsoleOpens, Carrying
<1>6. CASE WebWrites \/ ConsoleWrites
  BY <1>6 DEF WebWrites, ConsoleWrites, Carrying
<1>7. CASE UNCHANGED vars
  BY <1>1, <1>7 DEF vars
<1> QED
  BY <1>1, <1>2, <1>4, <1>5, <1>6, <1>7, WhoActs

-----------------------------------------------------------------------------
(* What a step may do with the commands.                                   *)

\* No FIFO gets anything, and none is emptied that a supervisor keeps open.
PipesRest ==
    /\ \A n \in Inode : pipe'[n] = pipe[n] \/ pipe'[n] = <<>>
    /\ \A s \in Supervisors : fd'[s] # None /\ fd'[s] = fd[s] => pipe'[fd[s]] = pipe[fd[s]]

\* No command moves; a FIFO with nothing in it may get the path, and the one at
\* the path a reader.
Settles ==
    /\ UNCHANGED <<accepted, during, taken, dropped, queue, ends>>
    /\ PipesRest
    /\ \A s \in Supervisors :
           fd'[s] = fd[s] \/ (fd[s] = None /\ queue[s] = <<>> /\ fd'[s] = path)
    /\ \A n \in Inode : path' = n => path = n \/ pipe[n] = <<>>

\* A supervisor ends.
Departs ==
    /\ UNCHANGED <<accepted, during, taken, dropped, path>>
    /\ ends' = ends + 1
    /\ PipesRest
    /\ \A s \in Supervisors :
           /\ fd'[s] = fd[s] \/ fd'[s] = None
           /\ queue'[s] = queue[s] \/ queue'[s] = <<>>

\* Command c goes from the FIFO of s to its queue, is dropped or is too long.
Reads(s, c) ==
    /\ UNCHANGED <<accepted, during, taken, path, fd, ends>>
    /\ fd[s] \in Inode /\ pipe[fd[s]] # <<>> /\ c = Head(pipe[fd[s]])
    /\ pipe'[fd[s]] = Tail(pipe[fd[s]])
    /\ \A n \in Inode \ {fd[s]} : pipe'[n] = pipe[n]
    /\ \A t \in Supervisors \ {s} : queue'[t] = queue[t]
    /\ \/ queue'[s] = Append(queue[s], c) /\ Len(queue[s]) < QueueCap /\ dropped' = dropped
       \/ queue'[s] = queue[s] /\ dropped' = dropped \cup {c}
       \/ queue'[s] = queue[s] /\ dropped' = dropped /\ c \in Long

\* Command c goes from the queue of s, which reads the FIFO at the path.
Takes(s, c) ==
    /\ UNCHANGED <<accepted, during, dropped, path, fd, ends, pipe>>
    /\ path = fd[s] /\ fd[s] # None
    /\ queue[s] # <<>> /\ c = Head(queue[s])
    /\ taken' = Append(taken, c)
    /\ queue'[s] = Tail(queue[s])
    /\ \A t \in Supervisors \ {s} : queue'[t] = queue[t]

\* Command c is accepted and goes to FIFO n, which has a reader.
Writes(n, c) ==
    /\ UNCHANGED <<taken, dropped, path, fd, queue, ends>>
    /\ HasReader(n) /\ Len(pipe[n]) < PipeCap
    /\ accepted' = Append(accepted, c)
    /\ during' = [during EXCEPT ![c] = ends]
    /\ pipe'[n] = Append(pipe[n], c)
    /\ \A m \in Inode \ {n} :
           /\ pipe'[m] = pipe[m] \/ pipe'[m] = <<>>
           /\ HasReader(m) => pipe'[m] = pipe[m]

LEMMA RestingPipes ==
  ASSUME pipe \in [Inode -> Seq(Cmd)], fd \in [Supervisors -> Inode \cup {None}], PipeIs(pipe)
  PROVE  PipesRest
<1>1. /\ \A n \in Inode : pipe'[n] = pipe[n] \/ pipe'[n] = <<>>
      /\ \A n \in Inode : Held(n)' => pipe'[n] = pipe[n]
  BY PipesKeep
<1>2. ASSUME NEW s \in Supervisors, fd'[s] # None, fd'[s] = fd[s]
      PROVE  pipe'[fd[s]] = pipe[fd[s]]
  <2>1. PICK n \in Inode : n = fd[s]
    BY <1>2
  <2>2. Held(n)'
    BY <1>2, <2>1 DEF Held
  <2> QED
    BY <1>1, <2>1, <2>2
<1> QED
  BY <1>1, <1>2 DEF PipesRest

LEMMA WrittenPipes ==
  ASSUME pipe \in [Inode -> Seq(Cmd)], NEW n \in Inode, NEW w \in {"web", "console"},
         carried[w] \in Cmd, Written(n, w), HasReader(n), Len(pipe[n]) < PipeCap,
         UNCHANGED <<taken, dropped, path, fd, queue, ends>>
  PROVE  Writes(n, carried[w])
<1> DEFINE p == [pipe EXCEPT ![n] = Append(@, carried[w])]
<1>1. p \in [Inode -> Seq(Cmd)]
  BY AppendProperties
<1>2. p[n] = Append(pipe[n], carried[w]) /\ \A m \in Inode \ {n} : p[m] = pipe[m]
  OBVIOUS
<1>3. PipeIs(p)
  BY DEF Written
<1> HIDE DEF p
<1>4. /\ \A m \in Inode : pipe'[m] = p[m] \/ pipe'[m] = <<>>
      /\ \A m \in Inode : Held(m)' => pipe'[m] = p[m]
  BY <1>1, <1>3, PipesKeep
<1>5. \A m \in Inode : HasReader(m) => Held(m)'
  BY DEF HasReader, Held
<1>6. accepted' = Append(accepted, carried[w]) /\ during' = [during EXCEPT ![carried[w]] = ends]
  BY DEF Written
<1> QED
  BY <1>2, <1>4, <1>5, <1>6 DEF Writes

LEMMA HowCommandsMove ==
  ASSUME Shape, Alone, Created, Carrying, [Next]_vars
  PROVE  \/ Settles \/ Departs
         \/ \E s \in Supervisors, c \in Cmd : Reads(s, c) \/ Takes(s, c)
         \/ \E n \in Inode, c \in Cmd : Writes(n, c)
<1> USE DEF sups, files, writers, log, fates, runs, Enter
<1>0. /\ fd \in [Supervisors -> Inode \cup {None}]
      /\ pipe \in [Inode -> Seq(Cmd)] /\ queue \in [Supervisors -> Seq(Cmd)]
      /\ path \in Inode \cup {None, File} /\ inodes \in 0..MaxInodes
      /\ None \notin Inode /\ File \notin Inode
  BY ControlAssumption DEF Shape, Processes, Places, Inode
<1>1. ASSUME UNCHANGED <<accepted, during, taken, dropped, queue, ends, pipe, fd>>,
             \A n \in Inode : path' = n => path = n \/ pipe[n] = <<>>
      PROVE  Settles
  BY <1>1 DEF Settles, PipesRest
<1>2. ASSUME NEW s \in Supervisors, Ends(s), UNCHANGED files PROVE Departs
  <2>1. PipesRest
    BY <1>0, <1>2, RestingPipes DEF Ends
  <2>2. \A t \in Supervisors : /\ fd'[t] = fd[t] \/ fd'[t] = None
                               /\ queue'[t] = queue[t] \/ queue'[t] = <<>>
    BY <1>0, <1>2 DEF Ends
  <2> QED
    BY <1>2, <2>1, <2>2 DEF Ends, Departs
<1>3. ASSUME NEW s \in Supervisors, EnsureFIFO(s) PROVE Settles \/ Departs
  <2>1. CASE Ends(s) /\ UNCHANGED files
    BY <1>2, <2>1
  <2>2. CASE inodes < MaxInodes /\ inodes' = inodes + 1 /\ path' = inodes'
             /\ UNCHANGED <<lock, fd, queue, pipe, writers, log, fates, runs>>
    <3>1. \A n \in Inode : path' = n => pipe[n] = <<>>
      BY <1>0, <2>2 DEF Created, Inode
    <3> QED
      BY <1>1, <2>2, <3>1
  <2>3. CASE UNCHANGED <<fd, queue, files, pipe, log, fates, runs>>
    BY <1>1, <2>3
  <2> QED
    BY <1>3, <2>1, <2>2, <2>3 DEF EnsureFIFO
<1>4. ASSUME NEW s \in Supervisors, Open(s) PROVE Settles
  <2>1. fd[s] = None /\ queue[s] = <<>> /\ fd' = [fd EXCEPT ![s] = path] /\ path \in Inode
    BY <1>4 DEF Open, Alone, AloneIn
  <2>2. UNCHANGED <<accepted, during, taken, dropped, queue, ends, pipe, path>>
    BY <1>4 DEF Open
  <2>3. \A t \in Supervisors :
            fd'[t] = fd[t] \/ (fd[t] = None /\ queue[t] = <<>> /\ fd'[t] = path)
    BY <1>0, <2>1
  <2> QED
    BY <2>2, <2>3 DEF Settles, PipesRest
<1>5. ASSUME NEW s \in Supervisors, Read(s)
      PROVE  \E c \in Cmd : Reads(s, c)
  <2> DEFINE c == Head(pipe[fd[s]])
  <2>1. fd[s] \in Inode /\ pipe[fd[s]] # <<>>
    BY <1>0, <1>5 DEF Read
  <2>2. c \in Cmd
    BY <1>0, <2>1, HeadTailProperties
  <2>3. \/ /\ Len(queue[s]) < QueueCap
           /\ queue' = [queue EXCEPT ![s] = Append(@, c)] /\ dropped' = dropped
        \/ queue' = queue /\ dropped' = dropped \cup {c}
        \/ queue' = queue /\ dropped' = dropped /\ c \in Long
    BY <1>5 DEF Read, Offer
  <2>4. /\ pipe' = [pipe EXCEPT ![fd[s]] = Tail(@)]
        /\ UNCHANGED <<accepted, during, taken, path, fd, ends>>
    BY <1>5 DEF Read
  <2>5. c = Head(pipe[fd[s]])
    OBVIOUS
  <2> HIDE DEF c
  <2>6. /\ pipe'[fd[s]] = Tail(pipe[fd[s]])
        /\ \A n \in Inode \ {fd[s]} : pipe'[n] = pipe[n]
    BY <1>0, <2>1, <2>4
  <2>7. /\ \A t \in Supervisors \ {s} : queue'[t] = queue[t]
        /\ \/ queue'[s] = Append(queue[s], c) /\ Len(queue[s]) < QueueCap /\ dropped' = dropped
           \/ queue'[s] = queue[s] /\ dropped' = dropped \cup {c}
           \/ queue'[s] = queue[s] /\ dropped' = dropped /\ c \in Long
    BY <1>0, <2>3
  <2> QED
    BY <2>1, <2>2, <2>4, <2>5, <2>6, <2>7 DEF Reads
<1>6. ASSUME NEW s \in Supervisors, Take(s)
      PROVE  \E c \in Cmd : Takes(s, c)
  <2> DEFINE c == Head(queue[s])
  <2>1. queue[s] # <<>> /\ queue[s] \in Seq(Cmd)
    BY <1>0, <1>6 DEF Take
  <2>2. c \in Cmd
    BY <2>1, HeadTailProperties
  <2>3. path = fd[s] /\ fd[s] # None
    BY <1>6 DEF Take, Alone, AloneIn
  <2>4. /\ UNCHANGED <<accepted, during, dropped, path, fd, ends, pipe>>
        /\ taken' = Append(taken, c)
        /\ queue' = [queue EXCEPT ![s] = Tail(@)]
    BY <1>6 DEF Take
  <2>5. c = Head(queue[s])
    OBVIOUS
  <2> HIDE DEF c
  <2>6. queue'[s] = Tail(queue[s]) /\ \A t \in Supervisors \ {s} : queue'[t] = queue[t]
    BY <1>0, <2>4
  <2> QED
    BY <2>1, <2>2, <2>3, <2>4, <2>5, <2>6 DEF Takes
<1>7. ASSUME NEW s \in Supervisors,
             AcquireLock(s) \/ Leave(s) \/ Unlink(s) \/ GoesAway(s) \/ ComesBack(s)
      PROVE  Settles
  BY <1>0, <1>1, <1>7 DEF AcquireLock, Leave, Unlink, GoesAway, ComesBack
<1>8. CASE WebOpens \/ ConsoleOpens \/ UNCHANGED vars
  BY <1>0, <1>1, <1>8 DEF WebOpens, ConsoleOpens, vars
<1>9. ASSUME Refused, UNCHANGED <<sups, files, fates, ends>> PROVE Settles
  <2>1. PipesRest
    BY <1>0, <1>9, RestingPipes DEF Refused
  <2> QED
    BY <1>9, <2>1 DEF Refused, Settles
<1>10. CASE WebWrites
  <2>1. web \in Inode /\ carried["web"] \in Cmd /\ UNCHANGED <<sups, files, fates, ends>>
    BY <1>10 DEF WebWrites, Carrying, Shape, Senders
  <2>2. CASE Refused
    BY <1>9, <2>1, <2>2
  <2>3. CASE HasReader(web) /\ Len(pipe[web]) < PipeCap /\ Written(web, "web")
    BY <1>0, <2>1, <2>3, WrittenPipes
  <2> QED
    BY <1>10, <2>2, <2>3 DEF WebWrites
<1>11. CASE ConsoleWrites
  <2>1. /\ console \in Inode /\ carried["console"] \in Cmd
        /\ UNCHANGED <<sups, files, fates, ends>>
    BY <1>11 DEF ConsoleWrites, Carrying, Shape, Senders
  <2>2. CASE Refused
    BY <1>9, <2>1, <2>2
  <2>3. CASE HasReader(console) /\ Len(pipe[console]) < PipeCap /\ Written(console, "console")
    BY <1>0, <2>1, <2>3, WrittenPipes
  <2> QED
    BY <1>11, <2>2, <2>3 DEF ConsoleWrites
<1> QED
  BY <1>2, <1>3, <1>4, <1>5, <1>6, <1>7, <1>8, <1>10, <1>11, WhoActs DEF Exit, Crash

-----------------------------------------------------------------------------
LEMMA NothingIsInLine ==
  ASSUME NEW R
  PROVE  /\ Chain(R, <<>>)
         /\ \A q : Leads(R, q, <<>>) /\ Leads(R, <<>>, q)
         /\ ToSet(<<>>) = {}
<1>1. DOMAIN <<>> = {}
  OBVIOUS
<1>2. ToSet(<<>>) = {}
  BY <1>1 DEF ToSet
<1> QED
  BY <1>1, <1>2 DEF Chain, Leads

\* The head of a line goes to the end of the one before it.
LEMMA MovingUp ==
  ASSUME NEW R, NEW p \in Seq(Cmd), NEW q \in Seq(Cmd), q # <<>>,
         Chain(R, p), Chain(R, q), Leads(R, p, q)
  PROVE  /\ Head(q) \in Cmd
         /\ ToSet(Append(p, Head(q))) = ToSet(p) \cup {Head(q)}
         /\ ToSet(q) = {Head(q)} \cup ToSet(Tail(q))
         /\ Chain(R, Append(p, Head(q))) /\ Chain(R, Tail(q))
         /\ Leads(R, Append(p, Head(q)), Tail(q))
<1>1. Head(q) \in Cmd
  BY HeadTailProperties
<1>2. ToSet(Append(p, Head(q))) = ToSet(p) \cup {Head(q)}
  BY <1>1, ElementsOfAppend
<1>3. ToSet(q) = {Head(q)} \cup ToSet(Tail(q))
  BY ElementsOfTail
<1>4. Chain(R, Tail(q)) /\ \A y \in ToSet(Tail(q)) : <<Head(q), y>> \in R
  BY ChainTail
<1>5. \A x \in ToSet(p) : <<x, Head(q)>> \in R
  BY <1>3 DEF Leads
<1>6. Chain(R, Append(p, Head(q)))
  BY <1>1, <1>5, ChainAppend
<1>7. Leads(R, Append(p, Head(q)), Tail(q))
  BY <1>2, <1>3, <1>4 DEF Leads
<1> QED
  BY <1>1, <1>2, <1>3, <1>4, <1>6, <1>7

\* A command that is accepted comes after all the others.
LEMMA AcceptedLast ==
  ASSUME accepted \in Seq(Cmd), NEW c \in Cmd, accepted' = Append(accepted, c)
  PROVE  /\ Earlier \subseteq Earlier'
         /\ \A x \in ToSet(accepted) : <<x, c>> \in Earlier'
         /\ ToSet(accepted') = ToSet(accepted) \cup {c}
<1> DEFINE l == Len(accepted)
<1>1. /\ l \in Nat /\ Len(accepted') = l + 1
      /\ \A i \in 1..l : accepted'[i] = accepted[i] /\ accepted[i] \in Cmd
      /\ accepted'[l + 1] = c /\ DOMAIN accepted = 1..l
  BY AppendProperties, LenProperties, ElementOfSeq
<1>2. ToSet(accepted') = ToSet(accepted) \cup {c}
  BY ElementsOfAppend
<1> HIDE DEF l
<1>3. ASSUME NEW x \in Cmd, NEW y \in Cmd, <<x, y>> \in Earlier PROVE <<x, y>> \in Earlier'
  <2>1. PICK i, j \in 1..l : i < j /\ accepted[i] = x /\ accepted[j] = y
    BY <1>3 DEF Earlier, l
  <2>2. /\ i \in 1..Len(accepted') /\ j \in 1..Len(accepted')
        /\ accepted'[i] = x /\ accepted'[j] = y
    BY <1>1, <2>1
  <2> QED
    BY <2>1, <2>2 DEF Earlier
<1>4. ASSUME NEW x \in ToSet(accepted) PROVE <<x, c>> \in Earlier'
  <2>1. PICK i \in 1..l : accepted[i] = x
    BY <1>1 DEF ToSet
  <2>2. /\ i \in 1..Len(accepted') /\ l + 1 \in 1..Len(accepted') /\ i < l + 1
        /\ accepted'[i] = x /\ accepted'[l + 1] = c /\ x \in Cmd
    BY <1>1, <2>1
  <2> QED
    BY <2>2 DEF Earlier
<1>5. Earlier \subseteq Earlier'
  BY <1>3 DEF Earlier
<1> QED
  BY <1>2, <1>4, <1>5

LEMMA NextAllAccepted ==
  ASSUME PlaneInv, [Next]_vars
  PROVE  AllAccepted'
<1>0. /\ pipe \in [Inode -> Seq(Cmd)] /\ queue \in [Supervisors -> Seq(Cmd)]
      /\ taken \in Seq(Cmd) /\ accepted \in Seq(Cmd)
      /\ AllAccepted
  BY DEF PlaneInv, Shape, Processes, Places, Commands
<1>1. ToSet(<<>>) = {}
  BY NothingIsInLine
<1>2. CASE Settles \/ Departs
  <2>1. /\ accepted' = accepted /\ taken' = taken
        /\ \A n \in Inode : pipe'[n] = pipe[n] \/ pipe'[n] = <<>>
        /\ \A s \in Supervisors : queue'[s] = queue[s] \/ queue'[s] = <<>>
    BY <1>2 DEF Settles, Departs, PipesRest
  <2> QED
    BY <1>0, <1>1, <2>1 DEF AllAccepted
<1>3. ASSUME NEW s \in Supervisors, NEW c \in Cmd, Reads(s, c) PROVE AllAccepted'
  <2>1. fd[s] \in Inode /\ pipe[fd[s]] \in Seq(Cmd) /\ pipe[fd[s]] # <<>> /\ queue[s] \in Seq(Cmd)
    BY <1>0, <1>3 DEF Reads
  <2>2. ToSet(pipe[fd[s]]) = {c} \cup ToSet(pipe'[fd[s]])
    BY <1>3, <2>1, ElementsOfTail DEF Reads
  <2>3. ToSet(Append(queue[s], c)) = ToSet(queue[s]) \cup {c}
    BY <2>1, ElementsOfAppend
  <2>4. ToSet(queue'[s]) \subseteq ToSet(queue[s]) \cup {c}
    BY <1>3, <2>3 DEF Reads
  <2>5. /\ accepted' = accepted /\ taken' = taken
        /\ \A n \in Inode \ {fd[s]} : pipe'[n] = pipe[n]
        /\ \A t \in Supervisors \ {s} : queue'[t] = queue[t]
    BY <1>3 DEF Reads
  <2> QED
    BY <1>0, <2>1, <2>2, <2>4, <2>5 DEF AllAccepted
<1>4. ASSUME NEW s \in Supervisors, NEW c \in Cmd, Takes(s, c) PROVE AllAccepted'
  <2>1. ToSet(queue[s]) = {c} \cup ToSet(queue'[s])
    BY <1>0, <1>4, ElementsOfTail DEF Takes
  <2>2. ToSet(taken') = ToSet(taken) \cup {c}
    BY <1>0, <1>4, ElementsOfAppend DEF Takes
  <2>3. /\ accepted' = accepted /\ pipe' = pipe
        /\ \A t \in Supervisors \ {s} : queue'[t] = queue[t]
    BY <1>4 DEF Takes
  <2> QED
    BY <1>0, <2>1, <2>2, <2>3 DEF AllAccepted
<1>5. ASSUME NEW n \in Inode, NEW c \in Cmd, Writes(n, c) PROVE AllAccepted'
  <2>1. ToSet(accepted') = ToSet(accepted) \cup {c}
    BY <1>0, <1>5, AcceptedLast DEF Writes
  <2>2. pipe[n] \in Seq(Cmd)
    BY <1>0
  <2>3. ToSet(pipe'[n]) = ToSet(pipe[n]) \cup {c}
    BY <1>5, <2>2, ElementsOfAppend DEF Writes
  <2>4. /\ taken' = taken /\ queue' = queue
        /\ \A m \in Inode \ {n} : pipe'[m] = pipe[m] \/ pipe'[m] = <<>>
    BY <1>5 DEF Writes
  <2> QED
    BY <1>0, <1>1, <2>1, <2>3, <2>4 DEF AllAccepted
<1> QED
  BY <1>2, <1>3, <1>4, <1>5, HowCommandsMove DEF PlaneInv

LEMMA NextBounded ==
  ASSUME PlaneInv, [Next]_vars
  PROVE  Bounded'
<1>0. /\ \A n \in Inode : pipe[n] \in Seq(Cmd) /\ Len(pipe[n]) \in Nat
      /\ \A s \in Supervisors : queue[s] \in Seq(Cmd) /\ Len(queue[s]) \in Nat
      /\ PipeCap \in Nat /\ QueueCap \in Nat /\ Len(<<>>) = 0
      /\ Bounded
  BY ControlAssumption, LenProperties, EmptySeq DEF PlaneInv, Shape, Processes, Places
<1>1. CASE Settles \/ Departs
  <2>1. /\ \A n \in Inode : pipe'[n] = pipe[n] \/ pipe'[n] = <<>>
        /\ \A s \in Supervisors : queue'[s] = queue[s] \/ queue'[s] = <<>>
    BY <1>1 DEF Settles, Departs, PipesRest
  <2> QED
    BY <1>0, <2>1 DEF Bounded
<1>2. ASSUME NEW s \in Supervisors, NEW c \in Cmd, Reads(s, c) PROVE Bounded'
  <2>1. Len(pipe'[fd[s]]) = Len(pipe[fd[s]]) - 1 /\ fd[s] \in Inode
    BY <1>0, <1>2, HeadTailProperties DEF Reads
  <2>2. Len(Append(queue[s], c)) = Len(queue[s]) + 1
    BY <1>0, AppendProperties
  <2>3. Len(queue'[s]) <= QueueCap
    BY <1>0, <1>2, <2>2 DEF Reads, Bounded
  <2>4. Len(pipe'[fd[s]]) <= PipeCap
    BY <1>0, <2>1 DEF Bounded
  <2>5. /\ \A n \in Inode \ {fd[s]} : pipe'[n] = pipe[n]
        /\ \A t \in Supervisors \ {s} : queue'[t] = queue[t]
    BY <1>2 DEF Reads
  <2> QED
    BY <1>0, <2>3, <2>4, <2>5 DEF Bounded
<1>3. ASSUME NEW s \in Supervisors, NEW c \in Cmd, Takes(s, c) PROVE Bounded'
  <2>1. Len(queue'[s]) = Len(queue[s]) - 1
    BY <1>0, <1>3, HeadTailProperties DEF Takes
  <2>2. Len(queue'[s]) <= QueueCap
    BY <1>0, <2>1 DEF Bounded
  <2>3. pipe' = pipe /\ \A t \in Supervisors \ {s} : queue'[t] = queue[t]
    BY <1>3 DEF Takes
  <2> QED
    BY <1>0, <2>2, <2>3 DEF Bounded
<1>4. ASSUME NEW n \in Inode, NEW c \in Cmd, Writes(n, c) PROVE Bounded'
  <2>1. Len(pipe'[n]) = Len(pipe[n]) + 1
    BY <1>0, <1>4, AppendProperties DEF Writes
  <2>2. Len(pipe'[n]) <= PipeCap
    BY <1>0, <1>4, <2>1 DEF Writes
  <2>3. queue' = queue /\ \A m \in Inode \ {n} : pipe'[m] = pipe[m] \/ pipe'[m] = <<>>
    BY <1>4 DEF Writes
  <2> QED
    BY <1>0, <2>2, <2>3 DEF Bounded
<1> QED
  BY <1>1, <1>2, <1>3, <1>4, HowCommandsMove DEF PlaneInv

LEMMA NextAccounted ==
  ASSUME PlaneInv, [Next]_vars
  PROVE  Accounted'
<1>0. /\ pipe \in [Inode -> Seq(Cmd)] /\ queue \in [Supervisors -> Seq(Cmd)]
      /\ fd \in [Supervisors -> Inode \cup {None}]
      /\ taken \in Seq(Cmd) /\ accepted \in Seq(Cmd)
      /\ ends \in Nat /\ during \in [Cmd -> Nat]
      /\ ToSet(accepted) \subseteq Cmd
  <2>1. ToSet(accepted) \subseteq Cmd
    BY LenProperties, ElementOfSeq DEF PlaneInv, Shape, Commands, ToSet
  <2> QED
    BY <2>1 DEF PlaneInv, Shape, Processes, Places, Commands
<1>1. /\ \A c \in Cmd : during[c] <= ends
      /\ \A c \in ToSet(accepted) : Found(c)
  BY DEF PlaneInv, Accounted
<1>2. CASE Settles
  <2>1. /\ UNCHANGED <<accepted, during, taken, dropped, queue, ends>>
        /\ \A s \in Supervisors : fd[s] # None => fd'[s] = fd[s] /\ pipe'[fd[s]] = pipe[fd[s]]
    BY <1>2 DEF Settles, PipesRest
  <2>2. ASSUME NEW c \in ToSet(accepted) PROVE Found(c)'
    BY <1>1, <2>1 DEF Found
  <2> QED
    BY <1>1, <2>1, <2>2 DEF Accounted
<1>3. CASE Departs
  <2>1. accepted' = accepted /\ during' = during /\ ends' = ends + 1
    BY <1>3 DEF Departs
  <2>2. \A c \in Cmd : ends' > during'[c] /\ during'[c] <= ends'
    BY <1>0, <1>1, <2>1
  <2> QED
    BY <1>0, <2>1, <2>2 DEF Accounted, Found
<1>4. ASSUME NEW s \in Supervisors, NEW c \in Cmd, Reads(s, c) PROVE Accounted'
  <2>1. fd[s] \in Inode /\ fd[s] # None
    BY <1>4, ControlAssumption DEF Reads, Inode
  <2>2. ToSet(pipe[fd[s]]) = {c} \cup ToSet(pipe'[fd[s]])
    BY <1>0, <1>4, <2>1, ElementsOfTail DEF Reads
  <2>3. queue[s] \in Seq(Cmd)
    BY <1>0
  <2>4. ToSet(Append(queue[s], c)) = ToSet(queue[s]) \cup {c}
    BY <2>3, ElementsOfAppend
  <2>5. /\ ToSet(queue[s]) \subseteq ToSet(queue'[s]) /\ dropped \subseteq dropped'
        /\ c \in ToSet(queue'[s]) \cup dropped' \/ c \in Long
    BY <1>4, <2>4 DEF Reads
  <2>6. /\ UNCHANGED <<accepted, during, taken, fd, ends>>
        /\ \A n \in Inode \ {fd[s]} : pipe'[n] = pipe[n]
        /\ \A t \in Supervisors \ {s} : queue'[t] = queue[t]
    BY <1>4 DEF Reads
  <2>7. ASSUME NEW d \in ToSet(accepted) PROVE Found(d)'
    <3>1. CASE \E t \in Supervisors : fd[t] # None /\ d \in ToSet(pipe[fd[t]])
      <4>1. PICK t \in Supervisors : fd[t] # None /\ d \in ToSet(pipe[fd[t]])
        BY <3>1
      <4>2. CASE fd[t] = fd[s]
        <5>1. d \in ToSet(pipe'[fd'[t]]) \/ d \in ToSet(queue'[s]) \cup dropped' \/ d \in Long
          BY <2>2, <2>5, <2>6, <4>1, <4>2
        <5> QED
          BY <2>6, <4>1, <5>1 DEF Found
      <4>3. CASE fd[t] # fd[s]
        <5>1. fd[t] \in Inode \ {fd[s]}
          BY <1>0, <4>1, <4>3
        <5> QED
          BY <2>6, <4>1, <5>1 DEF Found
      <4> QED
        BY <4>2, <4>3
    <3>2. CASE \E t \in Supervisors : d \in ToSet(queue[t])
      <4>1. PICK t \in Supervisors : d \in ToSet(queue[t])
        BY <3>2
      <4>2. d \in ToSet(queue'[t])
        BY <2>5, <2>6, <4>1
      <4> QED
        BY <4>2 DEF Found
    <3>3. CASE d \in ToSet(taken) \cup dropped \/ ends > during[d] \/ d \in Long
      BY <2>5, <2>6, <3>3 DEF Found
    <3> QED
      BY <1>1, <3>1, <3>2, <3>3 DEF Found
  <2> QED
    BY <1>1, <2>6, <2>7 DEF Accounted
<1>5. ASSUME NEW s \in Supervisors, NEW c \in Cmd, Takes(s, c) PROVE Accounted'
  <2>1. ToSet(queue[s]) = {c} \cup ToSet(queue'[s])
    BY <1>0, <1>5, ElementsOfTail DEF Takes
  <2>2. ToSet(taken') = ToSet(taken) \cup {c}
    BY <1>0, <1>5, ElementsOfAppend DEF Takes
  <2>3. /\ UNCHANGED <<accepted, during, dropped, fd, ends, pipe>>
        /\ \A t \in Supervisors \ {s} : queue'[t] = queue[t]
    BY <1>5 DEF Takes
  <2>4. ASSUME NEW d \in ToSet(accepted) PROVE Found(d)'
    BY <1>1, <2>1, <2>2, <2>3 DEF Found
  <2> QED
    BY <1>1, <2>3, <2>4 DEF Accounted
<1>6. ASSUME NEW n \in Inode, NEW c \in Cmd, Writes(n, c) PROVE Accounted'
  <2>1. ToSet(accepted') = ToSet(accepted) \cup {c}
    BY <1>0, <1>6, AcceptedLast DEF Writes
  <2>2. pipe[n] \in Seq(Cmd)
    BY <1>0
  <2>3. ToSet(pipe'[n]) = ToSet(pipe[n]) \cup {c}
    BY <1>6, <2>2, ElementsOfAppend DEF Writes
  <2>4. /\ UNCHANGED <<taken, dropped, fd, queue, ends>>
        /\ \A m \in Inode \ {n} : HasReader(m) => pipe'[m] = pipe[m]
    BY <1>6 DEF Writes
  <2>5. during'[c] = ends /\ \A d \in Cmd \ {c} : during'[d] = during[d]
    BY <1>0, <1>6 DEF Writes
  <2>6. \A d \in Cmd : during'[d] <= ends'
    <3>1. ends <= ends /\ ends' = ends
      BY <1>0, <2>4
    <3> QED
      BY <1>1, <2>5, <3>1
  <2>7. PICK r \in Supervisors : fd[r] = n
    BY <1>6 DEF Writes, HasReader
  <2>8. n # None
    BY ControlAssumption DEF Inode
  <2>9. Found(c)'
    BY <2>3, <2>4, <2>7, <2>8 DEF Found
  <2>10. ASSUME NEW d \in ToSet(accepted), d # c PROVE Found(d)'
    <3>1. CASE \E t \in Supervisors : fd[t] # None /\ d \in ToSet(pipe[fd[t]])
      <4>1. PICK t \in Supervisors : fd[t] # None /\ d \in ToSet(pipe[fd[t]])
        BY <3>1
      <4>2. fd[t] \in Inode /\ HasReader(fd[t])
        BY <1>0, <4>1 DEF HasReader
      <4>3. d \in ToSet(pipe'[fd[t]])
        BY <2>3, <2>4, <4>1, <4>2
      <4> QED
        BY <2>4, <4>1, <4>3 DEF Found
    <3>2. CASE (\E t \in Supervisors : d \in ToSet(queue[t])) \/ d \in ToSet(taken) \cup dropped
      BY <2>4, <3>2 DEF Found
    <3>3. CASE ends > during[d] \/ d \in Long
      BY <1>0, <2>4, <2>5, <2>10, <3>3 DEF Found
    <3> QED
      BY <1>1, <3>1, <3>2, <3>3 DEF Found
  <2> QED
    BY <2>1, <2>6, <2>9, <2>10 DEF Accounted
<1> QED
  BY <1>2, <1>3, <1>4, <1>5, <1>6, HowCommandsMove DEF PlaneInv

LEMMA NextCreated ==
  ASSUME Shape, Alone, Created, Carrying, [Next]_vars
  PROVE  Created'
<1> USE DEF sups, files, writers, log, fates, runs
<1>0. /\ path \in Inode \cup {None, File} /\ inodes \in Nat
      /\ web \in Inode \cup {None} /\ console \in Inode \cup {None}
      /\ None \notin Inode /\ File \notin Inode
      /\ \A n \in Inode : n \in Nat
  BY ControlAssumption DEF Shape, Places, Senders, Inode
<1>1. \/ UNCHANGED <<path, inodes>>
      \/ path' \in {None, File} /\ inodes' = inodes
      \/ path' = inodes' /\ inodes' = inodes + 1
  BY <1>0 DEF Next, Supervise, Send, vars, AcquireLock, EnsureFIFO, Open, Read, Take, GoesAway,
         ComesBack, Leave, Unlink, Exit, Crash, Ends, WebOpens, WebWrites, ConsoleOpens, ConsoleWrites
<1>2. /\ web' \in Inode => web' = web \/ web' = path
      /\ console' \in Inode => console' = console \/ console' = path
  BY <1>0 DEF Next, Supervise, Send, vars, AcquireLock, EnsureFIFO, Open, Read, Take, GoesAway,
         ComesBack, Leave, Unlink, Exit, Crash, Ends, WebOpens, WebWrites, ConsoleOpens, ConsoleWrites
<1>3. inodes' \in Nat /\ inodes <= inodes'
  BY <1>0, <1>1
<1>4. /\ path' \in Inode => path' <= inodes'
      /\ web' \in Inode => web' <= inodes'
      /\ console' \in Inode => console' <= inodes'
  <2>1. /\ path \in Inode => path <= inodes'
        /\ web \in Inode => web <= inodes'
        /\ console \in Inode => console <= inodes'
    BY <1>0, <1>3 DEF Created
  <2> QED
    BY <1>0, <1>1, <1>2, <1>3, <2>1
<1>5. ASSUME NEW s \in Supervisors, fd'[s] \in Inode PROVE fd'[s] <= inodes'
  <2>1. fd'[s] = fd[s] \/ fd'[s] = path
    BY <1>0, <1>5, HowCommandsMove DEF Settles, Departs, Reads, Takes, Writes
  <2>2. fd[s] \in Inode => fd[s] <= inodes
    BY DEF Created
  <2>3. path \in Inode => path <= inodes
    BY DEF Created
  <2> QED
    BY <1>0, <1>3, <1>5, <2>1, <2>2, <2>3
<1>6. ASSUME NEW n \in Inode, n > inodes' PROVE pipe'[n] = <<>>
  <2>1. n > inodes
    BY <1>0, <1>3, <1>6
  <2>2. pipe[n] = <<>> /\ ~HasReader(n)
    BY <1>0, <2>1 DEF Created, HasReader
  <2>3. CASE Settles \/ Departs
    BY <2>2, <2>3 DEF Settles, Departs, PipesRest
  <2>4. ASSUME NEW s \in Supervisors, NEW c \in Cmd, Reads(s, c) \/ Takes(s, c)
        PROVE  pipe'[n] = <<>>
    BY <2>2, <2>4 DEF Reads, Takes
  <2>5. ASSUME NEW m \in Inode, NEW c \in Cmd, Writes(m, c) PROVE pipe'[n] = <<>>
    BY <2>2, <2>5 DEF Writes
  <2> QED
    BY <2>3, <2>4, <2>5, HowCommandsMove
<1> QED
  BY <1>4, <1>5, <1>6 DEF Created

LEMMA NextLined ==
  ASSUME PlaneInv, [Next]_vars
  PROVE  Lined'
<1> DEFINE E == Earlier
<1> DEFINE F == Earlier'
<1>0. /\ pipe \in [Inode -> Seq(Cmd)] /\ queue \in [Supervisors -> Seq(Cmd)]
      /\ fd \in [Supervisors -> Inode \cup {None}]
      /\ taken \in Seq(Cmd) /\ accepted \in Seq(Cmd)
      /\ None \notin Inode
      /\ AllAccepted /\ Alone
  BY ControlAssumption DEF PlaneInv, Shape, Processes, Places, Commands, Inode
<1>1. /\ Chain(E, taken)
      /\ \A n \in Inode : Chain(E, pipe[n])
      /\ \A n \in Inode : n = path => Leads(E, taken, pipe[n])
      /\ \A s \in Supervisors : Chain(E, queue[s]) /\ Leads(E, taken, queue[s])
      /\ \A s \in Supervisors : fd[s] # None => /\ Leads(E, taken, pipe[fd[s]])
                                                /\ Leads(E, queue[s], pipe[fd[s]])
  BY DEF PlaneInv, Lined
<1>2. accepted' = accepted => F = E
  BY DEF Earlier
<1>3. fd' \in [Supervisors -> Inode \cup {None}]
  BY NextProcesses DEF PlaneInv, Shape, Processes
<1>4. /\ Chain(F, <<>>)
      /\ \A q : Leads(F, q, <<>>) /\ Leads(F, <<>>, q)
  BY NothingIsInLine
<1> HIDE DEF E, F
<1>5. ASSUME Chain(F, taken'),
             \A n \in Inode : Chain(F, pipe'[n]),
             \A n \in Inode : n = path' => Leads(F, taken', pipe'[n]),
             \A s \in Supervisors : Chain(F, queue'[s]) /\ Leads(F, taken', queue'[s]),
             \A s \in Supervisors : fd'[s] # None => /\ Leads(F, taken', pipe'[fd'[s]])
                                                     /\ Leads(F, queue'[s], pipe'[fd'[s]])
      PROVE  Lined'
  BY <1>5 DEF Lined, F
<1>6. CASE Settles
  <2>1. F = E /\ taken' = taken /\ queue' = queue
    BY <1>2, <1>6 DEF Settles
  <2>2. \A n \in Inode : pipe'[n] = pipe[n] \/ pipe'[n] = <<>>
    BY <1>6 DEF Settles, PipesRest
  <2>3. ASSUME NEW n \in Inode, n = path' PROVE Leads(F, taken', pipe'[n])
    <3>1. n = path \/ pipe'[n] = <<>>
      BY <1>6, <2>2, <2>3 DEF Settles
    <3> QED
      BY <1>1, <1>4, <2>1, <2>2, <3>1
  <2>4. ASSUME NEW s \in Supervisors, fd'[s] # None
        PROVE  Leads(F, taken', pipe'[fd'[s]]) /\ Leads(F, queue'[s], pipe'[fd'[s]])
    <3>1. fd'[s] \in Inode
      BY <1>3, <2>4
    <3>2. pipe'[fd'[s]] = pipe[fd'[s]] \/ pipe'[fd'[s]] = <<>>
      BY <2>2, <3>1
    <3>3. fd'[s] = fd[s] \/ (queue[s] = <<>> /\ fd'[s] = path)
      BY <1>6 DEF Settles
    <3>4. CASE pipe'[fd'[s]] = <<>>
      BY <1>4, <3>4
    <3>5. CASE fd'[s] = fd[s] /\ pipe'[fd'[s]] = pipe[fd'[s]]
      BY <1>1, <2>1, <2>4, <3>5
    <3>6. CASE queue[s] = <<>> /\ fd'[s] = path /\ pipe'[fd'[s]] = pipe[fd'[s]]
      BY <1>1, <1>4, <2>1, <3>1, <3>6
    <3> QED
      BY <3>2, <3>3, <3>4, <3>5, <3>6
  <2>5. \A n \in Inode : Chain(F, pipe'[n])
    BY <1>1, <1>4, <2>1, <2>2
  <2> QED
    BY <1>1, <1>5, <2>1, <2>3, <2>4, <2>5
<1>7. CASE Departs
  <2>1. F = E /\ taken' = taken /\ path' = path
    BY <1>2, <1>7 DEF Departs
  <2>2. /\ \A n \in Inode : pipe'[n] = pipe[n] \/ pipe'[n] = <<>>
        /\ \A s \in Supervisors : queue'[s] = queue[s] \/ queue'[s] = <<>>
        /\ \A s \in Supervisors : fd'[s] # None => fd'[s] = fd[s]
    BY <1>7 DEF Departs, PipesRest
  <2>3. \A n \in Inode : Chain(F, pipe'[n]) /\ (n = path' => Leads(F, taken', pipe'[n]))
    BY <1>1, <1>4, <2>1, <2>2
  <2>4. \A s \in Supervisors : Chain(F, queue'[s]) /\ Leads(F, taken', queue'[s])
    BY <1>1, <1>4, <2>1, <2>2
  <2>5. ASSUME NEW s \in Supervisors, fd'[s] # None
        PROVE  Leads(F, taken', pipe'[fd'[s]]) /\ Leads(F, queue'[s], pipe'[fd'[s]])
    <3>1. fd[s] \in Inode /\ fd'[s] = fd[s]
      BY <1>0, <2>2, <2>5
    <3>2. /\ pipe'[fd[s]] = pipe[fd[s]] \/ pipe'[fd[s]] = <<>>
          /\ queue'[s] = queue[s] \/ queue'[s] = <<>>
      BY <2>2, <3>1
    <3> QED
      BY <1>1, <1>4, <2>1, <2>5, <3>1, <3>2
  <2> QED
    BY <1>1, <1>5, <2>1, <2>3, <2>4, <2>5
<1>8. ASSUME NEW s \in Supervisors, NEW c \in Cmd, Reads(s, c) PROVE Lined'
  <2> DEFINE n == fd[s]
  <2>1. /\ F = E /\ UNCHANGED <<taken, path, fd>>
        /\ n \in Inode /\ n # None /\ pipe[n] # <<>> /\ c = Head(pipe[n]) /\ pipe'[n] = Tail(pipe[n])
        /\ \A m \in Inode \ {n} : pipe'[m] = pipe[m]
        /\ \A t \in Supervisors \ {s} : queue'[t] = queue[t]
        /\ queue'[s] = Append(queue[s], c) \/ queue'[s] = queue[s]
    BY <1>0, <1>2, <1>8 DEF Reads
  <2>2. \A t \in Supervisors \ {s} : fd[t] = None
    <3>1. phase[s] # "off"
      BY <1>0, <2>1 DEF Alone, AloneIn
    <3> QED
      BY <1>0, <3>1, OnlyOne
  <2>3. n = fd[s]
    OBVIOUS
  <2> HIDE DEF n
  <2>4. /\ Chain(E, pipe[n]) /\ Chain(E, queue[s]) /\ Leads(E, queue[s], pipe[n])
        /\ Leads(E, taken, pipe[n]) /\ Leads(E, taken, queue[s])
    BY <1>1, <2>1, <2>3
  <2>5. pipe[n] \in Seq(Cmd) /\ queue[s] \in Seq(Cmd)
    BY <1>0, <2>1
  <2>6. /\ ToSet(Append(queue[s], c)) = ToSet(queue[s]) \cup {c}
        /\ ToSet(pipe[n]) = {c} \cup ToSet(pipe'[n])
        /\ Chain(E, Append(queue[s], c)) /\ Chain(E, pipe'[n])
        /\ Leads(E, Append(queue[s], c), pipe'[n])
    BY <2>1, <2>4, <2>5, MovingUp
  <2>7. /\ Leads(E, taken, Append(queue[s], c))
        /\ Leads(E, taken, pipe'[n]) /\ Leads(E, queue[s], pipe'[n])
    BY <2>4, <2>6 DEF Leads
  <2>8. \A m \in Inode : Chain(F, pipe'[m])
    BY <1>1, <2>1, <2>6
  <2>9. \A m \in Inode : m = path' => Leads(F, taken', pipe'[m])
    BY <1>1, <2>1, <2>7
  <2>10. \A t \in Supervisors : Chain(F, queue'[t]) /\ Leads(F, taken', queue'[t])
    BY <1>1, <2>1, <2>4, <2>6, <2>7
  <2>11. \A t \in Supervisors : fd'[t] # None => /\ Leads(F, taken', pipe'[fd'[t]])
                                                 /\ Leads(F, queue'[t], pipe'[fd'[t]])
    BY <2>1, <2>2, <2>3, <2>6, <2>7
  <2> QED
    BY <1>1, <1>5, <2>1, <2>8, <2>9, <2>10, <2>11
<1>9. ASSUME NEW s \in Supervisors, NEW c \in Cmd, Takes(s, c) PROVE Lined'
  <2>1. /\ F = E /\ UNCHANGED <<path, fd, pipe>>
        /\ path = fd[s] /\ fd[s] \in Inode /\ fd[s] # None
        /\ queue[s] # <<>> /\ c = Head(queue[s])
        /\ taken' = Append(taken, c) /\ queue'[s] = Tail(queue[s])
        /\ \A t \in Supervisors \ {s} : queue'[t] = queue[t]
    BY <1>0, <1>2, <1>9 DEF Takes
  <2>2. \A t \in Supervisors \ {s} : fd[t] = None /\ queue[t] = <<>>
    <3>1. phase[s] # "off"
      BY <1>0, <2>1 DEF Alone, AloneIn
    <3> QED
      BY <1>0, <3>1, OnlyOne
  <2>3. /\ Chain(E, queue[s]) /\ Chain(E, taken) /\ Leads(E, taken, queue[s])
        /\ Leads(E, taken, pipe[path]) /\ Leads(E, queue[s], pipe[path])
        /\ queue[s] \in Seq(Cmd)
    BY <1>0, <1>1, <2>1
  <2>4. /\ ToSet(taken') = ToSet(taken) \cup {c}
        /\ ToSet(queue[s]) = {c} \cup ToSet(queue'[s])
        /\ Chain(E, taken') /\ Chain(E, queue'[s]) /\ Leads(E, taken', queue'[s])
    BY <1>0, <2>1, <2>3, MovingUp
  <2>5. Leads(E, taken', pipe[path]) /\ Leads(E, queue'[s], pipe[path])
    BY <2>3, <2>4 DEF Leads
  <2>6. \A t \in Supervisors : Chain(F, queue'[t]) /\ Leads(F, taken', queue'[t])
    BY <1>4, <2>1, <2>2, <2>4
  <2>7. \A t \in Supervisors : fd'[t] # None => /\ Leads(F, taken', pipe'[fd'[t]])
                                                /\ Leads(F, queue'[t], pipe'[fd'[t]])
    BY <2>1, <2>2, <2>5
  <2>8. \A n \in Inode : Chain(F, pipe'[n]) /\ (n = path' => Leads(F, taken', pipe'[n]))
    BY <1>1, <2>1, <2>5
  <2> QED
    BY <1>5, <2>1, <2>4, <2>6, <2>7, <2>8
<1>10. ASSUME NEW n \in Inode, NEW c \in Cmd, Writes(n, c) PROVE Lined'
  <2>1. /\ UNCHANGED <<taken, path, fd, queue>>
        /\ pipe'[n] = Append(pipe[n], c)
        /\ \A m \in Inode \ {n} : pipe'[m] = pipe[m] \/ pipe'[m] = <<>>
    BY <1>10 DEF Writes
  <2>2. /\ E \subseteq F
        /\ \A x \in ToSet(accepted) : <<x, c>> \in F
    BY <1>0, <1>10, AcceptedLast DEF Writes, E, F
  <2>3. \A q : Chain(E, q) => Chain(F, q)
    BY <2>2 DEF Chain
  <2>4. \A p, q : Leads(E, p, q) => Leads(F, p, q)
    BY <2>2 DEF Leads
  <2>5. pipe[n] \in Seq(Cmd) /\ Chain(F, pipe[n])
    BY <1>0, <1>1, <2>3
  <2>6. ToSet(pipe'[n]) = ToSet(pipe[n]) \cup {c}
    BY <2>1, <2>5, ElementsOfAppend
  <2>7. Chain(F, pipe'[n])
    <3>1. \A x \in ToSet(pipe[n]) : <<x, c>> \in F
      BY <1>0, <2>2 DEF AllAccepted
    <3> QED
      BY <2>1, <2>5, <3>1, ChainAppend
  <2>8. ASSUME NEW q, ToSet(q) \subseteq ToSet(accepted), NEW m \in Inode, Leads(E, q, pipe[m])
        PROVE  Leads(F, q, pipe'[m])
    <3>1. CASE m = n
      <4>1. Leads(F, q, pipe[n])
        BY <2>4, <2>8, <3>1
      <4> QED
        BY <2>2, <2>6, <2>8, <3>1, <4>1 DEF Leads
    <3>2. CASE m # n
      BY <1>4, <2>1, <2>4, <2>8, <3>2
    <3> QED
      BY <3>1, <3>2
  <2>9. /\ ToSet(taken) \subseteq ToSet(accepted)
        /\ \A s \in Supervisors : ToSet(queue[s]) \subseteq ToSet(accepted)
    BY <1>0 DEF AllAccepted
  <2>10. \A m \in Inode : Chain(F, pipe'[m])
    BY <1>1, <1>4, <2>1, <2>3, <2>7
  <2>11. \A m \in Inode : m = path' => Leads(F, taken', pipe'[m])
    BY <1>1, <2>1, <2>8, <2>9
  <2>12. \A s \in Supervisors : Chain(F, queue'[s]) /\ Leads(F, taken', queue'[s])
    BY <1>1, <2>1, <2>3, <2>4
  <2>13. ASSUME NEW s \in Supervisors, fd'[s] # None
         PROVE  Leads(F, taken', pipe'[fd'[s]]) /\ Leads(F, queue'[s], pipe'[fd'[s]])
    <3>1. fd'[s] = fd[s] /\ fd[s] \in Inode
      BY <1>0, <2>1, <2>13
    <3> QED
      BY <1>1, <2>1, <2>8, <2>9, <2>13, <3>1
  <2>14. Chain(F, taken')
    BY <1>1, <2>1, <2>3
  <2> QED
    BY <1>5, <2>10, <2>11, <2>12, <2>13, <2>14
<1> QED
  BY <1>6, <1>7, <1>8, <1>9, <1>10, HowCommandsMove DEF PlaneInv

-----------------------------------------------------------------------------
\* PlaneInv holds in every reachable state: the strengthening of the four
\* invariants below.
THEOREM PlaneInvariance == Spec => []PlaneInv
<1>1. PlaneInv /\ [Next]_vars => PlaneInv'
  <2> SUFFICES ASSUME PlaneInv, [Next]_vars PROVE PlaneInv'
    OBVIOUS
  <2>1. Shape /\ Alone /\ Created /\ Carrying
    BY DEF PlaneInv
  <2>2. Shape'
    BY <2>1, NextProcesses, NextPlaces, NextSenders, NextCommands DEF Shape
  <2>3. Alone' /\ Created' /\ Carrying'
    BY <2>1, NextAlone, NextCreated, NextCarrying DEF Alone
  <2>4. Bounded' /\ AllAccepted' /\ Lined' /\ Accounted'
    BY NextBounded, NextAllAccepted, NextLined, NextAccounted
  <2> QED
    BY <2>2, <2>3, <2>4 DEF PlaneInv
<1> QED
  BY InitPlaneInv, <1>1, PTL DEF Spec

\* The types of the model, with the bounds of the kernel's pipe and of the
\* queue of fifoReader (controlCh, serverInputCh).
THEOREM ControlTypeCorrect == Spec => []TypeOK
<1>1. PlaneInv => TypeOK
  BY DEF PlaneInv, Shape, Processes, Places, Senders, Commands, Bounded, TypeOK
<1> QED
  BY PlaneInvariance, <1>1, PTL

\* acquireLock, ensureFIFO and the order of the deferred calls of main: a
\* supervisor that serves is alone, and its FIFO is the one at the path.
THEOREM ServingIsReachable == Spec => []Reachable
<1>1. PlaneInv => Reachable
  BY OnlyOne DEF PlaneInv, Alone, AloneIn, Reachable
<1> QED
  BY PlaneInvariance, <1>1, PTL

\* An accepted command is under way, received, dropped with a line in the log
\* (fifoReader), or a supervisor has ended since: never just gone, but for the
\* line that is too long for the Scanner.
THEOREM NothingIsLostSilently == Spec => []NoSilentLoss
<1>1. PlaneInv => NoSilentLoss
  BY DEF PlaneInv, Shape, Processes, Accounted, Found, NoSilentLoss
<1> QED
  BY PlaneInvariance, <1>1, PTL

\* The main goroutine receives the commands in the order in which they were
\* accepted and none of them twice, over all restarts.
THEOREM CommandsAreInOrder == Spec => []InOrder
<1>1. PlaneInv => InOrder
  <2> SUFFICES ASSUME PlaneInv, NEW i \in 1..Len(taken), NEW j \in 1..Len(taken), i < j
      PROVE \E k, l \in 1..Len(accepted) : k < l /\ accepted[k] = taken[i] /\ accepted[l] = taken[j]
    BY DEF InOrder
  <2>1. DOMAIN taken = 1..Len(taken) /\ Chain(Earlier, taken)
    BY LenProperties DEF PlaneInv, Shape, Commands, Lined
  <2>2. <<taken[i], taken[j]>> \in Earlier
    BY <2>1 DEF Chain
  <2> QED
    BY <2>2 DEF Earlier
<1> QED
  BY PlaneInvariance, <1>1, PTL
=============================================================================
