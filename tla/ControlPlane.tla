---------------------------- MODULE ControlPlane ----------------------------
(***************************************************************************)
(* How a command reaches the supervisor: a FIFO in run/, the lock that     *)
(* keeps supervisors apart, the reader goroutine with its bounded queue,   *)
(* and the two kinds of writer, the web API and the console.               *)
(*                                                                         *)
(* run/control and run/server.stdin are handled by the same code; the      *)
(* module describes either of them.  They differ in where the main         *)
(* goroutine receives: from controlCh in waitReady, healthCheck and        *)
(* monitor, from serverInputCh in monitor alone.  A command is a number:   *)
(* the writers send 1, 2, ... each once, so losing, repeating and          *)
(* reordering can be seen.                                                 *)
(***************************************************************************)
EXTENDS Naturals, Sequences, FiniteSets, SequencesExt

CONSTANTS
    Supervisors,  \* processes that may try to be the supervisor
    Long,         \* the commands of more than 64 KiB, the longest a Scanner takes
    QueueCap,     \* capacity of controlCh (64) or serverInputCh (128)
    PipeCap,      \* commands the kernel's pipe buffer holds
    MaxCmds,      \* bound: commands sent
    MaxInodes,    \* bound: FIFOs created
    MaxEnds,      \* bound: supervisors that end
    None,         \* no process, no file
    File          \* a regular file

ASSUME ControlAssumption ==
    /\ Long \subseteq Nat
    /\ QueueCap \in Nat \ {0} /\ PipeCap \in Nat \ {0}
    /\ MaxCmds \in Nat /\ MaxInodes \in Nat /\ MaxEnds \in Nat
    /\ None \notin Supervisors \cup Nat /\ File \notin Nat /\ None # File

Inode == 1..MaxInodes
Cmd == 1..MaxCmds

VARIABLES
    phase,     \* how far each supervisor is in main()
    lock,      \* the holder of supervisor.lock
    path,      \* what the FIFO's path leads to: nothing, a FIFO or a file
    inodes,    \* FIFOs created so far
    fd,        \* the FIFO each supervisor has open for reading and writing
    pipe,      \* the bytes in each FIFO
    queue,     \* controlCh of each supervisor
    web,       \* the FIFO the web handler has open (at most one: App.mu)
    console,   \* the FIFO the console has open or is blocked on
    blocked,   \* whether the console is blocked in open
    carried,   \* the command each writer is about to write
    sent,      \* history: the number of the last command tried
    accepted,  \* history: the commands written to a FIFO, in that order
    taken,     \* history: the commands the main goroutine received
    dropped,   \* history: the commands dropped and logged
    ends,      \* history: how many supervisors have ended
    during,    \* history: ends at the time each command was accepted
    busy,      \* the supervisors whose main goroutine is in no select on the queue
    deaf       \* the supervisors whose fifoReader has returned

sups    == <<phase, lock, fd, queue>>
files   == <<path, inodes>>
writers == <<web, console, blocked, carried>>
log     == <<sent, accepted, during>>
fates   == <<taken, dropped>>
runs    == <<ends, busy, deaf>>
vars    == <<sups, files, pipe, writers, log, fates, runs>>

TypeOK ==
    /\ phase \in [Supervisors -> {"off", "locked", "ready", "serving", "leaving", "unlinked"}]
    /\ lock \in Supervisors \cup {None}
    /\ path \in Inode \cup {None, File}
    /\ inodes \in 0..MaxInodes
    /\ fd \in [Supervisors -> Inode \cup {None}]
    /\ \A n \in Inode : pipe[n] \in Seq(Cmd) /\ Len(pipe[n]) <= PipeCap
    /\ \A s \in Supervisors : queue[s] \in Seq(Cmd) /\ Len(queue[s]) <= QueueCap
    /\ web \in Inode \cup {None}
    /\ console \in Inode \cup {None}
    /\ blocked \in BOOLEAN
    /\ carried \in [{"web", "console"} -> 0..MaxCmds]
    /\ sent \in 0..MaxCmds
    /\ accepted \in Seq(Cmd) /\ taken \in Seq(Cmd) /\ dropped \subseteq Cmd
    /\ ends \in Nat
    /\ during \in [Cmd -> Nat]
    /\ busy \subseteq Supervisors /\ deaf \subseteq Supervisors

Init ==
    /\ phase = [s \in Supervisors |-> "off"]
    /\ lock = None
    /\ path = None
    /\ inodes = 0
    /\ fd = [s \in Supervisors |-> None]
    /\ pipe = [n \in Inode |-> <<>>]
    /\ queue = [s \in Supervisors |-> <<>>]
    /\ web = None
    /\ console = None
    /\ blocked = FALSE
    /\ carried = [w \in {"web", "console"} |-> 0]
    /\ sent = 0
    /\ accepted = <<>> /\ taken = <<>> /\ dropped = {}
    /\ ends = 0
    /\ during = [c \in Cmd |-> 0]
    /\ busy = {} /\ deaf = {}

Enter(s, l) == phase' = [phase EXCEPT ![s] = l]

\* The kernel keeps what is in a FIFO only while somebody has it open.
Held(n) == web = n \/ (console = n /\ ~blocked) \/ \E s \in Supervisors : fd[s] = n
PipeIs(p) == pipe' = [n \in Inode |-> IF Held(n)' THEN p[n] ELSE <<>>]

HasReader(n) == \E s \in Supervisors : fd[s] = n

-----------------------------------------------------------------------------
(* main() of the supervisor around its loop.                               *)

\* acquireLock: a non-blocking flock; main panics where it is refused.
AcquireLock(s) ==
    /\ phase[s] = "off"
    /\ lock = None
    /\ ends < MaxEnds
    /\ lock' = s
    /\ Enter(s, "locked")
    /\ UNCHANGED <<fd, queue, files, pipe, writers, log, fates, runs>>

\* The process is gone: the kernel closes its descriptors and drops its lock.
Ends(s) ==
    /\ Enter(s, "off")
    /\ lock' = IF lock = s THEN None ELSE lock
    /\ fd' = [fd EXCEPT ![s] = None]
    /\ queue' = [queue EXCEPT ![s] = <<>>]
    /\ ends' = ends + 1
    /\ busy' = busy \ {s}
    /\ deaf' = deaf \ {s}
    /\ UNCHANGED <<writers, log, fates>>
    /\ PipeIs(pipe)

\* Mutant: a FIFO left by a dead supervisor is replaced.
EnsureNewFIFO(s) ==
    /\ phase[s] = "locked"
    /\ \/ /\ path # File
          /\ inodes < MaxInodes
          /\ inodes' = inodes + 1
          /\ path' = inodes'
          /\ Enter(s, "ready")
          /\ UNCHANGED <<lock, fd, queue, pipe, writers, log, fates, runs>>
       \/ path = File /\ Ends(s) /\ UNCHANGED files

\* ensureFIFO: a FIFO is reused, anything else in its place makes main panic.
EnsureFIFO(s) ==
    /\ phase[s] = "locked"
    /\ \/ /\ path = None
          /\ inodes < MaxInodes
          /\ inodes' = inodes + 1
          /\ path' = inodes'
          /\ Enter(s, "ready")
          /\ UNCHANGED <<lock, fd, queue, pipe, writers, log, fates, runs>>
       \/ /\ path \in Inode
          /\ Enter(s, "ready")
          /\ UNCHANGED <<lock, fd, queue, files, pipe, writers, log, fates, runs>>
       \/ path = File /\ Ends(s) /\ UNCHANGED files

\* OpenFile for reading and writing, and go fifoReader, which runs before the
\* main goroutine has come to its first select.  A console blocked in its open
\* is let through.
Open(s) ==
    /\ phase[s] = "ready"
    /\ path \in Inode
    /\ fd' = [fd EXCEPT ![s] = path]
    /\ Enter(s, "serving")
    /\ blocked' = (blocked /\ console # path)
    /\ busy' = busy \cup {s}
    /\ UNCHANGED <<lock, queue, files, pipe, web, console, carried, log, fates, ends, deaf>>

\* Mutant: the queue is not bounded.
OfferUnbounded(s, c) == queue' = [queue EXCEPT ![s] = Append(@, c)] /\ UNCHANGED dropped

\* Mutant: a command that does not fit is forgotten.
OfferForgets(s, c) ==
    /\ UNCHANGED dropped
    /\ \/ Len(queue[s]) < QueueCap /\ queue' = [queue EXCEPT ![s] = Append(@, c)]
       \/ Len(queue[s]) >= QueueCap /\ UNCHANGED queue

\* Mutant: a goroutine for every line, so a later one may be queued first.
OfferOvertakes(s, c) ==
    \/ /\ Len(queue[s]) < QueueCap
       /\ queue' = [queue EXCEPT ![s] = <<c>> \o @]
       /\ UNCHANGED dropped
    \/ /\ Len(queue[s]) >= QueueCap
       /\ dropped' = dropped \cup {c}
       /\ UNCHANGED queue

\* The select of fifoReader: a command goes to the queue, or is dropped and
\* logged when it is full.
Offer(s, c) ==
    \/ /\ Len(queue[s]) < QueueCap
       /\ queue' = [queue EXCEPT ![s] = Append(@, c)]
       /\ UNCHANGED dropped
    \/ /\ Len(queue[s]) >= QueueCap
       /\ dropped' = dropped \cup {c}
       /\ UNCHANGED queue

\* Mutant: a line is passed on only when the next one is there.
ReadWaits(s) ==
    /\ fd[s] # None /\ s \notin deaf
    /\ Len(pipe[fd[s]]) > 1
    /\ \/ /\ Head(pipe[fd[s]]) \notin Long
          /\ Offer(s, Head(pipe[fd[s]]))
          /\ UNCHANGED deaf
       \/ /\ Head(pipe[fd[s]]) \in Long
          /\ deaf' = deaf \cup {s}
          /\ UNCHANGED <<queue, dropped>>
    /\ pipe' = [pipe EXCEPT ![fd[s]] = Tail(@)]
    /\ UNCHANGED <<phase, lock, fd, files, writers, log, taken, ends, busy>>

\* One round of fifoReader.  A line the Scanner has no room for ends the loop:
\* it is gone without a word and nothing is read after it.
Read(s) ==
    /\ fd[s] # None /\ s \notin deaf
    /\ pipe[fd[s]] # <<>>
    /\ \/ /\ Head(pipe[fd[s]]) \notin Long
          /\ Offer(s, Head(pipe[fd[s]]))
          /\ UNCHANGED deaf
       \/ /\ Head(pipe[fd[s]]) \in Long
          /\ deaf' = deaf \cup {s}
          /\ UNCHANGED <<queue, dropped>>
    /\ pipe' = [pipe EXCEPT ![fd[s]] = Tail(@)]
    /\ UNCHANGED <<phase, lock, fd, files, writers, log, taken, ends, busy>>

\* The main goroutine leaves the selects that read this queue: it starts a
\* server, backs up, recovers, sleeps or is stuck in writeCommand; for
\* serverInputCh everything but monitor counts.  Nothing says for how long.
GoesAway(s) ==
    /\ phase[s] = "serving"
    /\ s \notin busy
    /\ busy' = busy \cup {s}
    /\ UNCHANGED <<sups, files, pipe, writers, log, fates, ends, deaf>>

\* It comes to a select that reads this queue.
ComesBack(s) ==
    /\ phase[s] = "serving"
    /\ s \in busy
    /\ busy' = busy \ {s}
    /\ UNCHANGED <<sups, files, pipe, writers, log, fates, ends, deaf>>

\* The main goroutine receives a command in a select that reads this queue.
Take(s) ==
    /\ phase[s] = "serving"
    /\ s \notin busy
    /\ queue[s] # <<>>
    /\ taken' = Append(taken, Head(queue[s]))
    /\ queue' = [queue EXCEPT ![s] = Tail(@)]
    /\ UNCHANGED <<phase, lock, fd, files, pipe, writers, log, dropped, runs>>

\* Mutant: releaseLock is deferred last and so runs first.
LeaveUnlocked(s) ==
    /\ phase[s] = "serving"
    /\ Enter(s, "leaving")
    /\ lock' = None
    /\ UNCHANGED <<fd, queue, files, pipe, writers, log, fates, runs>>

\* The loop of main has ended; the deferred calls follow, last one first.
Leave(s) ==
    /\ phase[s] = "serving"
    /\ Enter(s, "leaving")
    /\ UNCHANGED <<lock, fd, queue, files, pipe, writers, log, fates, runs>>

\* os.Remove of the FIFO's path.
Unlink(s) ==
    /\ phase[s] = "leaving"
    /\ path' = None
    /\ Enter(s, "unlinked")
    /\ UNCHANGED <<lock, fd, queue, inodes, pipe, writers, log, fates, runs>>

\* Close, releaseLock, the end of the process.
Exit(s) ==
    /\ phase[s] = "unlinked"
    /\ Ends(s)
    /\ UNCHANGED files

\* The process dies at any other moment and leaves the FIFO behind.
Crash(s) ==
    /\ phase[s] # "off"
    /\ Ends(s)
    /\ UNCHANGED files

-----------------------------------------------------------------------------
(* The writers.                                                            *)

\* Writer w has a new command.
Carries(w) ==
    /\ sent < MaxCmds
    /\ sent' = sent + 1
    /\ carried' = [carried EXCEPT ![w] = sent']

\* The command of writer w gets into FIFO n, or does not.
Written(n, w) ==
    /\ accepted' = Append(accepted, carried[w])
    /\ during' = [during EXCEPT ![carried[w]] = ends]
    /\ PipeIs([pipe EXCEPT ![n] = Append(@, carried[w])])

Refused == UNCHANGED <<accepted, during>> /\ PipeIs(pipe)

\* writeFIFO opens without blocking: a FIFO nobody reads, or no FIFO at all,
\* is an error and the handler answers 503.  A regular file in its place
\* swallows the command, and the handler answers "accepted".  MaxBytesReader
\* keeps long commands out.
WebOpens ==
    /\ web = None
    /\ sent + 1 \notin Long
    /\ Carries("web")
    /\ web' = IF path \in Inode /\ HasReader(path) THEN path ELSE None
    /\ UNCHANGED <<sups, files, pipe, console, blocked, accepted, during, fates, runs>>

\* The write and the close.  os.NewFile puts a non-blocking FIFO under the
\* poller: a write to a full one waits, with App.mu held, for room or for the
\* end of the last reader.
WebWrites ==
    /\ web # None
    /\ web' = None
    /\ UNCHANGED <<sups, files, console, blocked, carried, sent, fates, runs>>
    /\ \/ HasReader(web) /\ Len(pipe[web]) < PipeCap /\ Written(web, "web")
       \/ ~HasReader(web) /\ Refused

\* printf > "$CONTROL": the shell's open creates a missing file, and blocks
\* on a FIFO nobody reads.
ConsoleOpens ==
    /\ console = None
    /\ Carries("console")
    /\ \/ path \in {None, File} /\ path' = File /\ UNCHANGED <<console, blocked>>
       \/ /\ path \in Inode
          /\ console' = path
          /\ blocked' = ~HasReader(path)
          /\ UNCHANGED path
    /\ UNCHANGED <<sups, inodes, pipe, web, accepted, during, fates, runs>>

\* The write waits for room; without a reader it fails.
ConsoleWrites ==
    /\ console # None /\ ~blocked
    /\ console' = None
    /\ UNCHANGED <<sups, files, web, blocked, carried, sent, fates, runs>>
    /\ \/ HasReader(console) /\ Len(pipe[console]) < PipeCap /\ Written(console, "console")
       \/ ~HasReader(console) /\ Refused

-----------------------------------------------------------------------------
Supervise(s) ==
    \/ AcquireLock(s) \/ EnsureFIFO(s) \/ Open(s)
    \/ Read(s) \/ Take(s) \/ GoesAway(s) \/ ComesBack(s)
    \/ Leave(s) \/ Unlink(s) \/ Exit(s) \/ Crash(s)

Send == WebOpens \/ WebWrites \/ ConsoleOpens \/ ConsoleWrites

Next == (\E s \in Supervisors : Supervise(s)) \/ Send

Spec == Init /\ [][Next]_vars

\* The goroutines of a supervisor run, an open descriptor is written to, and
\* somebody (systemd, the operator) starts a supervisor where none is left.  A
\* select chooses at random among what is ready: main may leave it and come
\* back without a command, but not for ever.  That it comes back at all is not
\* assumed.
Fairness ==
    /\ \A s \in Supervisors :
           WF_vars(EnsureFIFO(s)) /\ WF_vars(Open(s)) /\ WF_vars(Read(s))
           /\ SF_vars(Take(s)) /\ WF_vars(Unlink(s)) /\ WF_vars(Exit(s))
    /\ WF_vars(\E s \in Supervisors : AcquireLock(s))
    /\ WF_vars(WebWrites) /\ WF_vars(ConsoleWrites)

FairSpec == Spec /\ Fairness

-----------------------------------------------------------------------------
(* Properties.                                                             *)

\* A serving supervisor is the only one and can be reached: the path leads
\* to the FIFO it reads.  A supervisor that is leaving never removes the FIFO
\* of its successor (the deferred Remove runs before releaseLock).
Reachable ==
    \A s \in Supervisors : phase[s] = "serving" =>
        path = fd[s] /\ \A t \in Supervisors \ {s} : phase[t] = "off"

\* An accepted command can always be accounted for: it is on its way, was
\* received, was dropped with a line in the log, or a supervisor has ended
\* since it was accepted.  The one exception is a line too long for the
\* Scanner.
NoSilentLoss ==
    \A c \in ToSet(accepted) :
        \/ \E n \in Inode : c \in ToSet(pipe[n])
        \/ \E s \in Supervisors : c \in ToSet(queue[s])
        \/ c \in ToSet(taken) \cup dropped
        \/ ends > during[c]
        \/ c \in Long

\* Commands are received in the order in which they were accepted, none of
\* them twice, also over restarts.
InOrder ==
    \A i, j \in 1..Len(taken) : i < j =>
        \E k, l \in 1..Len(accepted) : k < l /\ accepted[k] = taken[i] /\ accepted[l] = taken[j]

\* Where the main goroutine keeps coming back to its selects, an accepted
\* command is received or dropped, unless its supervisor ends or a line too
\* long has ended the reader.
ComingBack == \A s \in Supervisors : []<>(s \notin busy)
Delivered ==
    ComingBack =>
        \A c \in Cmd : c \in ToSet(accepted) ~>
            (c \in ToSet(taken) \cup dropped \/ ends > during[c] \/ deaf # {})

\* A console that has blocked on the FIFO of a dead supervisor is let through
\* by the next one, as long as there are any.
ConsoleFreed == blocked ~> (~blocked \/ ends = MaxEnds)
=============================================================================
