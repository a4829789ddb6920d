-------------------------------- MODULE LogPage --------------------------------
(***************************************************************************)
(* The log as a browser shows it (web/optimization.js, which the page      *)
(* loads twice: embed_patch.go and optimization_embed.go each insert it).  *)
(* Each copy keeps the lines it shows; it fetches the end of the newest    *)
(* log when the page is loaded or looked at again, and saves its lines in  *)
(* the browser under one key that both copies share.  The second copy also *)
(* has the events of the wire, since its window.apply replaces that of   *)
(* the first.  How the stream comes about is in LogStream; here it is      *)
(* something that may lose lines and end.                                  *)
(*                                                                         *)
(* Lines are numbered over all logs, and know their server; the code sees  *)
(* only their text.                                                        *)
(***************************************************************************)
EXTENDS Naturals, Sequences, FiniteSets

CONSTANTS
    Texts,      \* the texts of the lines that are logged, in order
    OverlapMax, \* lines compared when an answer is merged (100)
    FetchLines, \* lines asked for (500)
    CacheLimit, \* LOG_CACHE_LIMIT
    WireMax,    \* bound: events on their way
    MaxServers, \* bound: servers started; the last one has no probe after it
    MaxVisits   \* bound: how often the page is loaded or looked at again

ASSUME PageAssumption ==
    /\ OverlapMax \in Nat \ {0} /\ FetchLines \in Nat \ {0} /\ CacheLimit \in Nat \ {0}
    /\ OverlapMax <= FetchLines /\ FetchLines <= CacheLimit
    /\ Texts \in Seq(STRING) /\ WireMax \in Nat /\ MaxServers \in Nat \ {0} /\ MaxVisits \in Nat

Copies == 1..2
Streamed == 2  \* the copy whose window.apply is called

VARIABLES
    server,  \* the process that writes the newest log, or has written it
    logged,  \* the lines of all logs
    earlier, \* how many of them are in the logs of earlier servers
    wire,    \* events of the stream on their way to the page
    shown,   \* localLogs of each copy
    cached,  \* cachedPID of each copy; 0 stands for null
    request, \* the request of each copy for /api/logs
    timer,   \* each copy: saveCache has set its timer
    stored,  \* the record in localStorage
    visits   \* how often the page has been loaded or looked at again

logVars  == <<server, logged, earlier>>
browser  == <<stored, visits>>
copies   == <<shown, cached, request, timer>>
pageVars == <<logVars, wire, browser, copies>>

Line == [by : 1..MaxServers, n : DOMAIN Texts]
Probe == MaxServers + 1  \* the process of a probe, which has no log
Pid == 0..Probe

Idle == [state |-> "idle", lines |-> <<>>]
Asked == [state |-> "asked", lines |-> <<>>]
NoRecord == [pid |-> 0, lines |-> <<>>]

PageTypeOK ==
    /\ server \in 1..MaxServers
    /\ logged \in Seq(Line) /\ Len(logged) <= Len(Texts)
    /\ earlier \in 0..Len(logged)
    /\ wire \in Seq([pid : Pid, lines : Seq(Line)]) /\ Len(wire) <= WireMax
    /\ \A c \in Copies :
           /\ shown[c] \in Seq(Line) /\ Len(shown[c]) <= CacheLimit
           /\ cached[c] \in Pid /\ timer[c] \in BOOLEAN
           /\ request[c] \in [state : {"idle", "asked", "answered"}, lines : Seq(Line)]
    /\ stored \in [pid : Pid, lines : Seq(Line)]
    /\ visits \in 0..MaxVisits

PageInit ==
    /\ server = 1
    /\ logged = <<>>
    /\ earlier = 0
    /\ wire = <<>>
    /\ shown = [c \in Copies |-> <<>>]
    /\ cached = [c \in Copies |-> 0]
    /\ request = [c \in Copies |-> Asked]
    /\ timer = [c \in Copies |-> FALSE]
    /\ stored = NoRecord
    /\ visits = 0

TextOf(lines) == [i \in DOMAIN lines |-> Texts[lines[i].n]]

Least(a, b) == IF a < b THEN a ELSE b

\* The last n lines: all[len(all)-n:] and slice(-n).
LastLines(s, n) == IF Len(s) > n THEN SubSeq(s, Len(s) - n + 1, Len(s)) ELSE s

\* The newest log is this server's.
Log == SubSeq(logged, earlier + 1, Len(logged))

\* Mutant: slice(0, LOG_CACHE_LIMIT).
FirstKept(lines) == SubSeq(lines, 1, Least(Len(lines), CacheLimit))

\* Mutant: no limit.
KeptAll(lines) == lines

\* What is kept of the lines.
Kept(lines) == LastLines(lines, CacheLimit)

-----------------------------------------------------------------------------
(* The server and the stream.                                              *)

Send(event) == Len(wire) < WireMax /\ wire' = Append(wire, event)

\* A line, which is streamed, or not: the page is not connected, nothing
\* follows this log yet, or a channel is full.  The status of an event with
\* lines is empty.
NextLine ==
    /\ Len(logged) < Len(Texts)
    /\ LET line == [by |-> server, n |-> Len(logged) + 1] IN
           /\ logged' = Append(logged, line)
           /\ \/ Send([pid |-> 0, lines |-> <<line>>])
              \/ UNCHANGED wire
    /\ UNCHANGED <<server, earlier, browser, copies>>

\* The next server, with a log of its own.
ServerRestarts ==
    /\ server < MaxServers
    /\ server' = server + 1
    /\ earlier' = Len(logged)
    /\ UNCHANGED <<logged, wire, browser, copies>>

\* The status that handleEvents sends first, and every five seconds: of the
\* process that findServerPID finds.  It may be that of a probe, after which
\* another server follows.  A status without one changes nothing here.
SendStatus ==
    /\ \E p \in {server} \cup (IF server < MaxServers THEN {Probe} ELSE {}) : Send([pid |-> p, lines |-> <<>>])
    /\ UNCHANGED <<logVars, browser, copies>>

\* The connection ends, with what is on its way; EventSource opens the next.
StreamBreaks ==
    /\ wire # <<>>
    /\ wire' = <<>>
    /\ UNCHANGED <<logVars, browser, copies>>

-----------------------------------------------------------------------------
(* The stream's events at the page.                                        *)

\* window.apply, resetCache and appendLogs.
Apply ==
    /\ wire # <<>>
    /\ wire' = Tail(wire)
    /\ LET c == Streamed
           event == Head(wire)
           reset == 0 \notin {event.pid, cached[c]} /\ event.pid # cached[c]
           before == IF reset THEN <<>> ELSE shown[c] IN
           /\ shown' = [shown EXCEPT ![c] = Kept(before \o event.lines)]
           /\ cached' = [cached EXCEPT ![c] = IF event.pid = 0 THEN @ ELSE event.pid]
           /\ stored' = IF reset THEN NoRecord ELSE stored
           /\ timer' = [timer EXCEPT ![c] = @ \/ event.lines # <<>>]
    /\ UNCHANGED <<logVars, visits, request>>

-----------------------------------------------------------------------------
(* The end of the log, fetched.                                            *)

\* The page is looked at again: loadInitialLogs in both copies, of which one
\* may still wait for an answer.
Look ==
    /\ visits < MaxVisits
    /\ visits' = visits + 1
    /\ request' = [c \in Copies |-> IF request[c] = Idle THEN Asked ELSE request[c]]
    /\ UNCHANGED <<logVars, wire, stored, shown, cached, timer>>

\* handleLogs: the last lines of the newest log.
Serve(c) ==
    /\ request[c].state = "asked"
    /\ request' = [request EXCEPT ![c] = [state |-> "answered", lines |-> LastLines(Log, FetchLines)]]
    /\ UNCHANGED <<logVars, wire, browser, shown, cached, timer>>

\* There is no answer, or none that can be read.
FetchFails(c) ==
    /\ request[c].state = "asked"
    /\ request' = [request EXCEPT ![c] = Idle]
    /\ UNCHANGED <<logVars, wire, browser, shown, cached, timer>>

\* What of the local lines is looked for in the answer.
Overlap(local, lines) == Least(OverlapMax, Least(Len(local), Len(lines)))

\* Where the block begins in lines.
Matches(block, lines) ==
    {i \in 1..(Len(lines) - Len(block) + 1) :
        TextOf(SubSeq(lines, i, i + Len(block) - 1)) = TextOf(block)}

\* Mutant: lines.slice(i).
FromMatch(lines, first, overlap) == SubSeq(lines, first, Len(lines))

From(lines, first, overlap) == SubSeq(lines, first + overlap, Len(lines))

\* mergeInitialLogs: what follows the first match is appended; without one
\* the answer replaces everything.
Merged(local, lines) ==
    LET overlap == Overlap(local, lines)
        found == Matches(LastLines(local, overlap), lines)
        first == CHOOSE i \in found : \A j \in found : i <= j
    IN  IF local = <<>> \/ found = {}
          THEN Kept(lines)
          ELSE Kept(local \o From(lines, first, overlap))

Arrive(c) ==
    /\ request[c].state = "answered"
    /\ request' = [request EXCEPT ![c] = Idle]
    /\ LET lines == request[c].lines IN
           IF lines = <<>>
             THEN UNCHANGED <<shown, timer>>
             ELSE /\ shown' = [shown EXCEPT ![c] = Merged(@, lines)]
                  /\ timer' = [timer EXCEPT ![c] = TRUE]
    /\ UNCHANGED <<logVars, wire, browser, cached>>

-----------------------------------------------------------------------------
(* What the browser keeps.                                                 *)

\* The timer of saveCache fires.  A write that the browser refuses is like a
\* timer that has not fired yet.
Save(c) ==
    /\ timer[c]
    /\ timer' = [timer EXCEPT ![c] = FALSE]
    /\ stored' = [pid |-> cached[c], lines |-> Kept(shown[c])]
    /\ UNCHANGED <<logVars, wire, visits, shown, cached, request>>

\* The page is loaded again, in front or in the background: loadCache and
\* loadInitialLogs of both copies.
LoadPage ==
    /\ visits < MaxVisits
    /\ visits' = visits + 1
    /\ wire' = <<>>
    /\ shown' = [c \in Copies |-> Kept(stored.lines)]
    /\ cached' = [c \in Copies |-> stored.pid]
    /\ timer' = [c \in Copies |-> FALSE]
    /\ \E r \in {Idle, Asked} : request' = [c \in Copies |-> r]
    /\ UNCHANGED <<logVars, stored>>

PageNext ==
    \/ NextLine \/ ServerRestarts \/ SendStatus \/ StreamBreaks
    \/ Apply \/ Look \/ LoadPage
    \/ \E c \in Copies : Serve(c) \/ FetchFails(c) \/ Arrive(c) \/ Save(c)

PageSpec == PageInit /\ [][PageNext]_pageVars

-----------------------------------------------------------------------------
(* Properties.                                                             *)

\* Copy c takes over its answer.
TakesOver(c) ==
    /\ request[c].state = "answered" /\ request[c].lines # <<>>
    /\ request'[c] = Idle /\ UNCHANGED visits

\* However many lines the stream has lost, doubled or brought late, over
\* reconnections, restarts of the server and loads of the page: when either
\* copy takes over an answer that is still the end of the log, what it shows
\* ends as the log does (mergeInitialLogs, optimization.js:58).
FreshAnswerHeals ==
    [][\A c \in Copies : TakesOver(c) /\ request[c].lines = LastLines(Log, FetchLines) =>
           LET n == Least(OverlapMax, Least(Len(shown'[c]), Len(Log)))
           IN  TextOf(LastLines(shown'[c], n)) = TextOf(LastLines(Log, n))]_copies

\* The lines follow each other in one log.
Stretch(lines) ==
    \A i \in DOMAIN lines : i > 1 => lines[i] = [lines[i - 1] EXCEPT !.n = @ + 1]

\* A merge tears no hole and doubles nothing: lines without a gap stay so,
\* also when the answer is older than they are or from another server's log,
\* if the texts compared occur only once in all logs (optimization.js:63).
CompleteStaysComplete ==
    [][\A c \in Copies :
           LET block == LastLines(shown[c], Overlap(shown[c], request[c].lines)) IN
           TakesOver(c) /\ Stretch(shown[c]) /\ Cardinality(Matches(block, logged)) <= 1
               => Stretch(shown'[c])]_copies
================================================================================
