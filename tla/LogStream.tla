------------------------------ MODULE LogStream ------------------------------
(***************************************************************************)
(* How a line of the server's log reaches the browsers (web/main.go): the  *)
(* log files the supervisor leaves, startLogFollower with its tail, LogHub *)
(* and one handleEvents per connected client.                              *)
(*                                                                         *)
(* Lines are numbered in the order in which they are logged, over all      *)
(* files, so losing, repeating and reordering can be seen.                 *)
(***************************************************************************)
EXTENDS Naturals, Sequences, SequencesExt

CONSTANTS
    Clients,   \* browsers that may connect
    Slow,      \* those that may stop reading
    SubCap,    \* capacity of a subscriber's channel (256)
    BatchMax,  \* lines in a batch (32)
    MaxFiles,  \* bound: logs started
    MaxLines   \* bound: lines logged

ASSUME StreamAssumption ==
    /\ Slow \subseteq Clients
    /\ SubCap \in Nat \ {0} /\ BatchMax \in Nat \ {0}
    /\ MaxFiles \in Nat /\ MaxLines \in Nat

Line == 1..MaxLines

VARIABLES
    files,     \* how many logs/server-*.log there are; the last is the newest
    logged,    \* the file that each line went to
    path,      \* the follower's variable path; 0 stands for ""
    follower,  \* between two rounds, starting tail, or reading from it
    pos,       \* tail has passed over the lines up to this one
    conn,      \* each client: off, opening (first snapshot sent) or streaming
    chan,      \* the channel of each subscriber
    batch,     \* the batch of each handler
    got,       \* history: what was written to each client, over connections
    offered,   \* history: what was published to the current subscription
    missed     \* history: what was published to it when its channel was full

logs     == <<files, logged>>
tail     == <<path, follower, pos>>
handlers == <<conn, chan, batch, got>>
history  == <<offered, missed>>
vars     == <<logs, tail, handlers, history>>

TypeOK ==
    /\ files \in 0..MaxFiles
    /\ logged \in Seq(1..MaxFiles) /\ Len(logged) <= MaxLines
    /\ path \in 0..files
    /\ follower \in {"round", "starting", "tailing"}
    /\ pos \in 0..Len(logged)
    /\ conn \in [Clients -> {"off", "opening", "streaming"}]
    /\ \A c \in Clients :
           /\ chan[c] \in Seq(Line) /\ Len(chan[c]) <= SubCap
           /\ batch[c] \in Seq(Line) /\ Len(batch[c]) < BatchMax
           /\ got[c] \in Seq(Line)
    /\ offered \in [Clients -> SUBSET Line]
    /\ missed \in [Clients -> SUBSET Line]

Init ==
    /\ files = 0
    /\ logged = <<>>
    /\ path = 0
    /\ follower = "round"
    /\ pos = 0
    /\ conn = [c \in Clients |-> "off"]
    /\ chan = [c \in Clients |-> <<>>]
    /\ batch = [c \in Clients |-> <<>>]
    /\ got = [c \in Clients |-> <<>>]
    /\ offered = [c \in Clients |-> {}]
    /\ missed = [c \in Clients |-> {}]

-----------------------------------------------------------------------------
(* The supervisor and its logs.                                            *)

\* startChecked opens a new log for every start of the live server.
NewLog ==
    /\ files < MaxFiles
    /\ files' = files + 1
    /\ UNCHANGED <<logged, tail, handlers, history>>

\* copyOutput writes to the newest log; an older one has been closed.
LogLine ==
    /\ files > 0
    /\ Len(logged) < MaxLines
    /\ logged' = Append(logged, files)
    /\ UNCHANGED <<files, tail, handlers, history>>

-----------------------------------------------------------------------------
(* startLogFollower.                                                       *)

\* The head of the loop: the newest log is not the one in path.
ListLogs ==
    /\ follower = "round"
    /\ files \notin {0, path}
    /\ path' = files
    /\ follower' = "starting"
    /\ UNCHANGED <<logs, pos, handlers, history>>

\* Mutant: tail prints what is already there.
TailFromStart ==
    /\ follower = "starting"
    /\ \/ follower' = "tailing" /\ pos' = 0
       \/ follower' = "round" /\ UNCHANGED pos
    /\ UNCHANGED <<logs, path, handlers, history>>

\* tail -n 0 -F path: it begins at the end of the file.  Where it cannot be
\* started path keeps its value.
StartTail ==
    /\ follower = "starting"
    /\ \/ follower' = "tailing" /\ pos' = Len(logged)
       \/ follower' = "round" /\ UNCHANGED pos
    /\ UNCHANGED <<logs, path, handlers, history>>

\* The lines of the followed file that tail has not passed over.
Ahead == {n \in 1..Len(logged) : n > pos /\ logged[n] = path}

\* The next line tail prints.
Following(n) == n \in Ahead /\ \A m \in Ahead : n <= m

Subscribed == {c \in Clients : conn[c] = "streaming"}
Full(c) == Len(chan[c]) = SubCap

\* Mutant: the send has no default arm.
PublishWaits ==
    /\ follower = "tailing"
    /\ \A c \in Subscribed : ~Full(c)
    /\ \E n \in Ahead :
           /\ Following(n)
           /\ pos' = n
           /\ chan' = [c \in Clients |-> IF c \in Subscribed THEN Append(chan[c], n) ELSE chan[c]]
           /\ offered' = [c \in Clients |-> IF c \in Subscribed THEN offered[c] \cup {n} ELSE offered[c]]
           /\ UNCHANGED missed
    /\ UNCHANGED <<logs, path, follower, conn, batch, got>>

\* Mutant: the channel is not bounded.
PublishUnbounded ==
    /\ follower = "tailing"
    /\ \E n \in Ahead :
           /\ Following(n)
           /\ pos' = n
           /\ chan' = [c \in Clients |-> IF c \in Subscribed THEN Append(chan[c], n) ELSE chan[c]]
           /\ offered' = [c \in Clients |-> IF c \in Subscribed THEN offered[c] \cup {n} ELSE offered[c]]
           /\ UNCHANGED missed
    /\ UNCHANGED <<logs, path, follower, conn, batch, got>>

\* Scan and Publish: each subscriber gets the line or misses it.
Publish ==
    /\ follower = "tailing"
    /\ \E n \in Ahead :
           /\ Following(n)
           /\ pos' = n
           /\ chan' = [c \in Clients |->
                          IF c \in Subscribed /\ ~Full(c) THEN Append(chan[c], n) ELSE chan[c]]
           /\ offered' = [c \in Clients |-> IF c \in Subscribed THEN offered[c] \cup {n} ELSE offered[c]]
           /\ missed' = [c \in Clients |->
                            IF c \in Subscribed /\ Full(c) THEN missed[c] \cup {n} ELSE missed[c]]
    /\ UNCHANGED <<logs, path, follower, conn, batch, got>>

\* tail is killed.  It does not end by itself: -F waits for the file.
TailDies ==
    /\ follower = "tailing"
    /\ follower' = "round"
    /\ path' = 0
    /\ UNCHANGED <<logs, pos, handlers, history>>

-----------------------------------------------------------------------------
(* handleEvents.                                                           *)

\* The first event, which holds no lines, has been written.
Connect(c) ==
    /\ conn[c] = "off"
    /\ conn' = [conn EXCEPT ![c] = "opening"]
    /\ UNCHANGED <<logs, tail, chan, batch, got, history>>

Subscribe(c) ==
    /\ conn[c] = "opening"
    /\ conn' = [conn EXCEPT ![c] = "streaming"]
    /\ UNCHANGED <<logs, tail, chan, batch, got, history>>

\* Mutant: a full batch is replaced by a new one before it is written.
ReceiveForgets(c) ==
    /\ chan[c] # <<>>
    /\ chan' = [chan EXCEPT ![c] = Tail(@)]
    /\ LET b == Append(batch[c], Head(chan[c])) IN
           /\ batch' = [batch EXCEPT ![c] = IF Len(b) < BatchMax THEN b ELSE <<>>]
           /\ UNCHANGED got
    /\ UNCHANGED <<logs, tail, conn, history>>

\* Mutant: the batch is written but not emptied.
ReceiveRepeats(c) ==
    /\ chan[c] # <<>>
    /\ chan' = [chan EXCEPT ![c] = Tail(@)]
    /\ LET b == Append(batch[c], Head(chan[c])) IN
           IF Len(b) < BatchMax
             THEN batch' = [batch EXCEPT ![c] = b] /\ UNCHANGED got
             ELSE batch' = batch /\ got' = [got EXCEPT ![c] = @ \o b]
    /\ UNCHANGED <<logs, tail, conn, history>>

\* A line is taken from the channel; a full batch is written.
Receive(c) ==
    /\ chan[c] # <<>>
    /\ chan' = [chan EXCEPT ![c] = Tail(@)]
    /\ LET b == Append(batch[c], Head(chan[c])) IN
           IF Len(b) < BatchMax
             THEN batch' = [batch EXCEPT ![c] = b] /\ UNCHANGED got
             ELSE batch' = [batch EXCEPT ![c] = <<>>] /\ got' = [got EXCEPT ![c] = @ \o b]
    /\ UNCHANGED <<logs, tail, conn, history>>

\* Mutant: only full batches are written.
FlushFull(c) ==
    /\ Len(batch[c]) >= BatchMax
    /\ got' = [got EXCEPT ![c] = @ \o batch[c]]
    /\ batch' = [batch EXCEPT ![c] = <<>>]
    /\ UNCHANGED <<logs, tail, conn, chan, history>>

\* The tick that writes whatever is in the batch.
Flush(c) ==
    /\ batch[c] # <<>>
    /\ got' = [got EXCEPT ![c] = @ \o batch[c]]
    /\ batch' = [batch EXCEPT ![c] = <<>>]
    /\ UNCHANGED <<logs, tail, conn, chan, history>>

\* The client goes or a write fails: Unsubscribe, and what is in the channel
\* and in the batch is gone.
Leave(c) ==
    /\ conn[c] # "off"
    /\ conn' = [conn EXCEPT ![c] = "off"]
    /\ chan' = [chan EXCEPT ![c] = <<>>]
    /\ batch' = [batch EXCEPT ![c] = <<>>]
    /\ offered' = [offered EXCEPT ![c] = {}]
    /\ missed' = [missed EXCEPT ![c] = {}]
    /\ UNCHANGED <<logs, tail, got>>

\* The web service dies and is started again.
WebRestarts ==
    /\ path' = 0
    /\ follower' = "round"
    /\ conn' = [c \in Clients |-> "off"]
    /\ chan' = [c \in Clients |-> <<>>]
    /\ batch' = [c \in Clients |-> <<>>]
    /\ offered' = [c \in Clients |-> {}]
    /\ missed' = [c \in Clients |-> {}]
    /\ UNCHANGED <<logs, pos, got>>

-----------------------------------------------------------------------------
Server == NewLog \/ LogLine
Follow == ListLogs \/ StartTail \/ Publish \/ TailDies
Handle(c) == Connect(c) \/ Subscribe(c) \/ Receive(c) \/ Flush(c) \/ Leave(c)

Next == Server \/ Follow \/ WebRestarts \/ \E c \in Clients : Handle(c)

Spec == Init /\ [][Next]_vars

\* Goroutines are scheduled, the ticker fires, and a client that is not slow
\* reads what is written to it.  A slow one may block its handler for good.
Fairness ==
    /\ WF_vars(ListLogs) /\ WF_vars(StartTail) /\ WF_vars(Publish)
    /\ \A c \in Clients \ Slow : WF_vars(Subscribe(c)) /\ WF_vars(Receive(c)) /\ WF_vars(Flush(c))

FairSpec == Spec /\ Fairness

-----------------------------------------------------------------------------
(* Properties.                                                             *)

\* A client sees the lines in the order of the log and none of them twice,
\* over its reconnections, restarts of tail and of the web service, and
\* changes of the log ("tail -n 0", web/main.go:112; the copy of the
\* batch in flush, web/main.go:284).
StreamInOrder == \A c \in Clients : \A i, j \in DOMAIN got[c] : i < j => got[c][i] < got[c][j]

\* Whatever is published while a client is subscribed has been written to it,
\* is on its way, or met a full channel: the handler loses nothing between
\* channel, batch and response.
LossIsOverflow ==
    \A c \in Subscribed :
        offered[c] \subseteq ToSet(got[c]) \cup ToSet(batch[c]) \cup ToSet(chan[c]) \cup missed[c]

\* A client that stops reading holds up neither the follower nor the other
\* clients: the lines of the followed log keep being published (the default
\* arm of Publish, web/main.go:96).
SlowHarmsNobody ==
    \A n \in Line : (follower = "tailing" /\ n \in Ahead) ~> (n \notin Ahead \/ follower # "tailing")

\* A client that reads is written every line it was offered and had room for,
\* also the last ones of a burst, as long as it stays.
Streamed ==
    \A c \in Clients \ Slow, n \in Line :
        (conn[c] = "streaming" /\ n \in offered[c])
            ~> (n \in ToSet(got[c]) \cup missed[c] \/ conn[c] # "streaming")
=============================================================================
