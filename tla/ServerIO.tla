------------------------------ MODULE ServerIO ------------------------------
(***************************************************************************)
(* The pipes between the supervisor and one Minecraft process: the main    *)
(* goroutine writing commands, one copyOutput goroutine for each stream,   *)
(* the goroutine that waits for the exit, and Process.mu, which they       *)
(* share.  The process is taken to be single-threaded: while it waits for  *)
(* room in a stream it reads no input.                                     *)
(***************************************************************************)
EXTENDS Naturals, Sequences

CONSTANTS
    Streams,   \* stdout and stderr
    StdinCap,  \* commands that fit in the pipe to the process
    PipeCap,   \* lines that fit in the pipe of a stream
    LinesCap,  \* capacity of Process.lines (8192)
    LongLines, \* streams that may carry a line longer than the Scanner takes
    FullAt,    \* bound: the lines whose write to the log may fail (a full disk)
    MaxCmds,   \* bound: commands written to the process
    MaxLines   \* bound: lines printed on each stream

ASSUME IOAssumption ==
    /\ StdinCap \in Nat \ {0} /\ PipeCap \in Nat \ {0} /\ LinesCap \in Nat \ {0}
    /\ MaxCmds \in Nat /\ MaxLines \in Nat
    /\ LongLines \subseteq Streams /\ FullAt \subseteq Nat
    /\ {"free", "main", "running", "exited"} \cap Streams = {}

VARIABLES
    server,   \* the process: running, exited, or waiting to print on a stream
    stdin,    \* how many commands are in its input pipe
    piped,    \* the lines in the pipe of each stream
    printed,  \* how many lines it has printed on each stream
    pump,     \* each copyOutput: scan, lock, send or ended
    line,     \* the line each copyOutput has in hand
    mu,       \* the holder of Process.mu
    logged,   \* the log file: the lines of each stream, 0 where one is missing
    lines,    \* how many lines are in Process.lines
    main,     \* the main goroutine
    why,      \* what writeCommand was called for
    written,  \* how many commands have been written
    reaper    \* the goroutine around cmd.Wait

minecraft == <<server, printed>>
output    == <<pump, line, logged, lines>>
goroutine == <<main, why, written>>
vars      == <<minecraft, stdin, piped, output, mu, goroutine, reaper>>

TypeOK ==
    /\ server \in {"running", "exited"} \cup Streams
    /\ stdin \in 0..StdinCap
    /\ \A s \in Streams : piped[s] \in Seq(1..MaxLines) /\ Len(piped[s]) <= PipeCap
    /\ printed \in [Streams -> 0..MaxLines]
    /\ pump \in [Streams -> {"scan", "lock", "send", "ended"}]
    /\ line \in [Streams -> 0..MaxLines]
    /\ mu \in {"free", "main"} \cup Streams
    /\ \A s \in Streams : logged[s] \in Seq(0..MaxLines)
    /\ lines \in 0..LinesCap
    /\ main \in {"ready", "monitor", "lock", "write", "stopping", "killing", "gone"}
    /\ why \in {"console", "stop"}
    /\ written \in 0..MaxCmds
    /\ reaper \in {"wait", "drain", "done"}

Init ==
    /\ server = "running"
    /\ stdin = 0
    /\ piped = [s \in Streams |-> <<>>]
    /\ printed = [s \in Streams |-> 0]
    /\ pump = [s \in Streams |-> "scan"]
    /\ line = [s \in Streams |-> 0]
    /\ mu = "free"
    /\ logged = [s \in Streams |-> <<>>]
    /\ lines = 0
    /\ main = "ready"
    /\ why = "console"
    /\ written = 0
    /\ reaper = "wait"

Done == reaper = "done"

-----------------------------------------------------------------------------
(* The Minecraft process.                                                  *)

\* It has a line for stream s and waits until the pipe takes it.
WantsToPrint(s) ==
    /\ server = "running"
    /\ printed[s] < MaxLines
    /\ server' = s
    /\ UNCHANGED <<printed, stdin, piped, output, mu, goroutine, reaper>>

Prints(s) ==
    /\ server = s
    /\ Len(piped[s]) < PipeCap
    /\ server' = "running"
    /\ printed' = [printed EXCEPT ![s] = @ + 1]
    /\ piped' = [piped EXCEPT ![s] = Append(@, printed'[s])]
    /\ UNCHANGED <<stdin, output, mu, goroutine, reaper>>

ReadsInput ==
    /\ server = "running"
    /\ stdin > 0
    /\ stdin' = stdin - 1
    /\ UNCHANGED <<minecraft, piped, output, mu, goroutine, reaper>>

ServerExits ==
    /\ server # "exited"
    /\ server' = "exited"
    /\ UNCHANGED <<printed, stdin, piped, output, mu, goroutine, reaper>>

-----------------------------------------------------------------------------
(* copyOutput.                                                             *)

\* scanner.Scan: the next line, or the end of the stream: nobody writes to it
\* any more or cmd.Wait has closed it.  A line above 1 MiB ends the Scanner
\* as well; the pipe stays open and is read no more.
Scan(s) ==
    /\ pump[s] = "scan"
    /\ \/ /\ piped[s] # <<>>
          /\ line' = [line EXCEPT ![s] = Head(piped[s])]
          /\ piped' = [piped EXCEPT ![s] = Tail(@)]
          /\ pump' = [pump EXCEPT ![s] = "lock"]
       \/ /\ piped[s] = <<>>
          /\ server = "exited"
          /\ pump' = [pump EXCEPT ![s] = "ended"]
          /\ UNCHANGED <<line, piped>>
       \/ /\ piped[s] # <<>>
          /\ s \in LongLines
          /\ pump' = [pump EXCEPT ![s] = "ended"]
          /\ piped' = [piped EXCEPT ![s] = Tail(@)]
          /\ UNCHANGED line
    /\ UNCHANGED <<minecraft, stdin, logged, lines, mu, goroutine, reaper>>

\* Mutant: a line that the channel does not take is not logged either.
LogDelivered(s) ==
    /\ pump[s] = "lock"
    /\ mu = "free"
    /\ logged' = [logged EXCEPT ![s] = IF lines < LinesCap THEN Append(@, line[s]) ELSE @]
    /\ pump' = [pump EXCEPT ![s] = "send"]
    /\ UNCHANGED <<minecraft, stdin, piped, line, lines, mu, goroutine, reaper>>

\* mu.Lock, the write to the log, whose error is ignored, mu.Unlock.
LogLine(s) ==
    /\ pump[s] = "lock"
    /\ mu = "free"
    /\ \E l \in {line[s]} \cup (IF line[s] \in FullAt THEN {0} ELSE {}) :
           logged' = [logged EXCEPT ![s] = Append(@, l)]
    /\ pump' = [pump EXCEPT ![s] = "send"]
    /\ UNCHANGED <<minecraft, stdin, piped, line, lines, mu, goroutine, reaper>>

\* Mutant: the send has no default arm.
SendLineBlocking(s) ==
    /\ pump[s] = "send"
    /\ lines < LinesCap /\ lines' = lines + 1
    /\ pump' = [pump EXCEPT ![s] = "scan"]
    /\ UNCHANGED <<minecraft, stdin, piped, line, logged, mu, goroutine, reaper>>

\* Mutant: the channel is not bounded.
SendLineUnbounded(s) ==
    /\ pump[s] = "send"
    /\ lines' = lines + 1
    /\ pump' = [pump EXCEPT ![s] = "scan"]
    /\ UNCHANGED <<minecraft, stdin, piped, line, logged, mu, goroutine, reaper>>

\* The send that is given up when the channel is full.
SendLine(s) ==
    /\ pump[s] = "send"
    /\ lines' = IF lines < LinesCap THEN lines + 1 ELSE lines
    /\ pump' = [pump EXCEPT ![s] = "scan"]
    /\ UNCHANGED <<minecraft, stdin, piped, line, logged, mu, goroutine, reaper>>

\* cmd.Wait: the process has exited and the read ends are closed, whatever
\* is still in the pipes.
WaitReturns ==
    /\ reaper = "wait"
    /\ server = "exited"
    /\ piped' = [s \in Streams |-> <<>>]
    /\ reaper' = "drain"
    /\ UNCHANGED <<minecraft, stdin, output, mu, goroutine>>

\* Mutant: wg.Wait is missing.
ClosesDoneEarly ==
    /\ reaper = "drain"
    /\ mu = "free"
    /\ reaper' = "done"
    /\ UNCHANGED <<minecraft, stdin, piped, output, mu, goroutine>>

\* wg.Wait, the Close of the log, close(p.done).
ClosesDone ==
    /\ reaper = "drain"
    /\ \A s \in Streams : pump[s] = "ended"
    /\ mu = "free"
    /\ reaper' = "done"
    /\ UNCHANGED <<minecraft, stdin, piped, output, mu, goroutine>>

-----------------------------------------------------------------------------
(* The main goroutine.                                                     *)

\* waitReady and healthCheck empty the channel; monitor never reads it.
ReadsLine ==
    /\ main = "ready"
    /\ lines > 0
    /\ lines' = lines - 1
    /\ UNCHANGED <<minecraft, stdin, piped, pump, line, logged, mu, goroutine, reaper>>

Healthy ==
    /\ main = "ready"
    /\ main' = "monitor"
    /\ UNCHANGED <<minecraft, stdin, piped, output, mu, why, written, reaper>>

\* A console line, or the "stop" of stopProcess.
Command(w) ==
    /\ main = "monitor"
    /\ w = "stop" \/ written < MaxCmds
    /\ main' = "lock"
    /\ why' = w
    /\ written' = IF w = "stop" THEN written ELSE written + 1
    /\ UNCHANGED <<minecraft, stdin, piped, output, mu, reaper>>

AfterWrite == main' = IF why = "stop" THEN "stopping" ELSE "monitor"

\* writeCommand: mu.Lock and the test of p.done.
Lock ==
    /\ main = "lock"
    /\ mu = "free"
    /\ IF Done THEN AfterWrite /\ UNCHANGED mu ELSE main' = "write" /\ mu' = "main"
    /\ UNCHANGED <<minecraft, stdin, piped, output, why, written, reaper>>

\* The write blocks while the pipe is full, and fails when nobody reads it;
\* mu is held until it returns.
Write ==
    /\ main = "write"
    /\ \/ server # "exited" /\ stdin < StdinCap /\ stdin' = stdin + 1
       \/ server = "exited" /\ UNCHANGED stdin
    /\ mu' = "free"
    /\ AfterWrite
    /\ UNCHANGED <<minecraft, piped, output, why, written, reaper>>

\* Mutant: stopProcess has no timeout.
StoppingPatiently ==
    /\ main = "stopping"
    /\ Done
    /\ main' = "gone"
    /\ UNCHANGED server
    /\ UNCHANGED <<printed, stdin, piped, output, mu, why, written, reaper>>

\* The select of stopProcess: the exit, or after stopTimeout the kill.
Stopping ==
    /\ main = "stopping"
    /\ IF Done
         THEN main' = "gone" /\ UNCHANGED server
         ELSE main' = "killing" /\ server' = "exited"
    /\ UNCHANGED <<printed, stdin, piped, output, mu, why, written, reaper>>

\* waitReady or healthCheck has run into its deadline, or was told to stop.
GivesUp ==
    /\ main = "ready"
    /\ main' = "killing"
    /\ server' = "exited"
    /\ UNCHANGED <<printed, stdin, piped, output, mu, why, written, reaper>>

\* kill waits for p.done.
Killing ==
    /\ main = "killing"
    /\ Done
    /\ main' = "gone"
    /\ UNCHANGED <<minecraft, stdin, piped, output, mu, why, written, reaper>>

\* Startup fails, or monitor sees that the process has exited.
SeesExit ==
    /\ main \in {"ready", "monitor"}
    /\ Done
    /\ main' = "gone"
    /\ UNCHANGED <<minecraft, stdin, piped, output, mu, why, written, reaper>>

-----------------------------------------------------------------------------
Pump(s) == Scan(s) \/ LogLine(s) \/ SendLine(s)
Reaper == WaitReturns \/ ClosesDone
MainStep == Lock \/ Write \/ Stopping \/ Killing \/ SeesExit

Server == (\E s \in Streams : WantsToPrint(s) \/ Prints(s)) \/ ReadsInput \/ ServerExits

Next ==
    \/ Server
    \/ \E s \in Streams : Pump(s)
    \/ Reaper
    \/ MainStep \/ ReadsLine \/ Healthy \/ GivesUp \/ \E w \in {"console", "stop"} : Command(w)

Spec == Init /\ [][Next]_vars

\* Every goroutine is scheduled, and a write that has room completes.  The
\* lock is handed over fairly: sync.Mutex starves nobody.  Nothing is assumed
\* of what the server does.
FairSpec ==
    /\ Spec
    /\ \A s \in Streams :
           WF_vars(Scan(s)) /\ SF_vars(LogLine(s)) /\ WF_vars(SendLine(s)) /\ WF_vars(Prints(s))
    /\ WF_vars(Reaper)
    /\ SF_vars(Lock) /\ WF_vars(Write) /\ WF_vars(Stopping) /\ WF_vars(Killing) /\ WF_vars(SeesExit)

-----------------------------------------------------------------------------
(* Properties.                                                             *)

\* The log holds every line of a stream that was read, in order, also when
\* nobody empties Process.lines; a line is missing only where its own write
\* failed (main.go:205).
LogHasNoGaps ==
    \A s \in Streams : \A i \in 1..Len(logged[s]) :
        logged[s][i] = i \/ (logged[s][i] = 0 /\ i \in FullAt)

\* p.done is closed only when no copyOutput can write to the log any more
\* (wg.Wait before close, main.go:213-222).
DoneComesLast == Done => \A s \in Streams : pump[s] = "ended" /\ Len(logged[s]) = line[s]

\* The supervisor never blocks the server for good: what it wants to print
\* is taken, even though monitor does not read Process.lines, as long as the
\* Scanner of the stream has not met a line it cannot hold.
OutputFlows == \A s \in Streams : server = s ~> (server # s \/ pump[s] = "ended")

\* Once stopProcess has been called the process is down in the end ("graceful
\* stop timed out; forced Minecraft down", main.go:328), even a server that
\* hangs on a stream nobody reads any more.
StopIsForced == (main = "lock" /\ why = "stop") ~> main = "gone"
=============================================================================
