---------------------------- MODULE ServerIOProofs ----------------------------
(***************************************************************************)
(* The pipes between the supervisor and the process, for any streams,      *)
(* capacities and bounds.                                                  *)
(*                                                                         *)
(* The argument: the lines in a pipe carry consecutive numbers up to the   *)
(* last one printed, and as long as the stream is read the line in hand    *)
(* comes right before them (Numbered).  So the log of a stream counts from *)
(* one to the line in hand, but for the lines whose write failed.          *)
(***************************************************************************)
EXTENDS ServerIO, DataLemmas

\* A sequence whose elements count up to n.
CountsTo(q, n) == \A i \in 1..Len(q) : q[i] = n - Len(q) + i

\* Only the lines whose write failed are missing from a log.
Kept(q) == \A i \in 1..Len(q) : q[i] = i \/ (q[i] = 0 /\ i \in FullAt)

\* The log of stream s counts from one, its pipe up to the last line printed.
Counted(s) ==
    /\ Kept(logged[s])
    /\ CountsTo(piped[s], printed[s])

\* The line in hand is the one between the log and the pipe.
InHand(s) ==
    /\ Len(piped[s]) <= printed[s]
    /\ line[s] <= printed[s]
    /\ line[s] = IF pump[s] = "lock" THEN Len(logged[s]) + 1 ELSE Len(logged[s])
    /\ pump[s] # "ended" /\ reaper = "wait" => line[s] + Len(piped[s]) = printed[s]

Numbered(s) == Counted(s) /\ InHand(s)

\* The types in a form that steps preserve.
Shape ==
    /\ server \in {"running", "exited"} \cup Streams
    /\ stdin \in 0..StdinCap
    /\ piped \in [Streams -> Seq(Nat)]
    /\ \A s \in Streams : Len(piped[s]) <= PipeCap
    /\ printed \in [Streams -> 0..MaxLines]
    /\ server \in Streams => printed[server] < MaxLines
    /\ pump \in [Streams -> {"scan", "lock", "send", "ended"}]
    /\ line \in [Streams -> Nat]
    /\ mu \in {"free", "main"} \cup Streams
    /\ logged \in [Streams -> Seq(Nat)]
    /\ lines \in 0..LinesCap
    /\ main \in {"ready", "monitor", "lock", "write", "stopping", "killing", "gone"}
    /\ why \in {"console", "stop"}
    /\ written \in 0..MaxCmds
    /\ reaper \in {"wait", "drain", "done"}

\* Once cmd.Wait has returned nobody prints and the pipes are gone.
AfterExit ==
    /\ reaper # "wait" => server = "exited" /\ \A s \in Streams : piped[s] = <<>>
    /\ Done => \A s \in Streams : pump[s] = "ended"

IOInv ==
    /\ Shape
    /\ AfterExit
    /\ \A s \in Streams : Numbered(s)

-----------------------------------------------------------------------------
LEMMA AppendingCounts ==
  ASSUME NEW q \in Seq(Nat), NEW n \in Nat, CountsTo(q, n)
  PROVE  CountsTo(Append(q, n + 1), n + 1)
<1> DEFINE r == Append(q, n + 1)
<1> DEFINE l == Len(q)
<1>1. /\ Len(r) = l + 1 /\ l \in Nat
      /\ \A i \in 1..l : r[i] = q[i]
      /\ r[l + 1] = n + 1
  BY AppendProperties, LenProperties
<1>2. \A i \in 1..l : q[i] = n - l + i
  BY DEF CountsTo
<1> HIDE DEF l, r
<1>3. \A i \in 1..(l + 1) : r[i] = (n + 1) - (l + 1) + i
  <2> SUFFICES ASSUME NEW i \in 1..(l + 1) PROVE r[i] = (n + 1) - (l + 1) + i
    OBVIOUS
  <2>1. CASE i = l + 1
    BY <1>1, <2>1
  <2>2. CASE i \in 1..l
    BY <1>1, <1>2, <2>2
  <2> QED
    BY <1>1, <2>1, <2>2
<1> QED
  BY <1>1, <1>3 DEF CountsTo, r

LEMMA LoggingKeeps ==
  ASSUME NEW q \in Seq(Nat), Kept(q), NEW l \in Nat,
         l = Len(q) + 1 \/ (l = 0 /\ Len(q) + 1 \in FullAt)
  PROVE  Kept(Append(q, l))
<1> DEFINE r == Append(q, l)
<1> DEFINE n == Len(q)
<1>1. /\ Len(r) = n + 1 /\ n \in Nat
      /\ \A i \in 1..n : r[i] = q[i]
      /\ r[n + 1] = l
  BY AppendProperties, LenProperties
<1>2. \A i \in 1..n : q[i] = i \/ (q[i] = 0 /\ i \in FullAt)
  BY DEF Kept
<1>3. l = n + 1 \/ (l = 0 /\ n + 1 \in FullAt)
  OBVIOUS
<1> HIDE DEF n, r
<1>4. \A i \in 1..(n + 1) : r[i] = i \/ (r[i] = 0 /\ i \in FullAt)
  <2> SUFFICES ASSUME NEW i \in 1..(n + 1) PROVE r[i] = i \/ (r[i] = 0 /\ i \in FullAt)
    OBVIOUS
  <2>1. CASE i = n + 1
    BY <1>1, <1>3, <2>1
  <2>2. CASE i \in 1..n
    BY <1>1, <1>2, <2>2
  <2> QED
    BY <1>1, <2>1, <2>2
<1> QED
  BY <1>1, <1>4 DEF Kept, r

LEMMA TakingCounts ==
  ASSUME NEW q \in Seq(Nat), q # <<>>, NEW n \in Nat, CountsTo(q, n)
  PROVE  CountsTo(Tail(q), n) /\ Head(q) = n - Len(q) + 1
<1> DEFINE r == Tail(q)
<1> DEFINE l == Len(q)
<1>1. /\ l \in Nat /\ l >= 1 /\ Len(r) = l - 1
      /\ \A i \in 1..Len(r) : r[i] = q[i + 1]
  BY HeadTailProperties, EmptySeq
<1>2. \A i \in 1..l : q[i] = n - l + i
  BY DEF CountsTo
<1>3. Head(q) = q[1]
  OBVIOUS
<1> HIDE DEF l, r
<1>4. \A i \in 1..(l - 1) : r[i] = n - (l - 1) + i
  <2> SUFFICES ASSUME NEW i \in 1..(l - 1) PROVE r[i] = n - (l - 1) + i
    OBVIOUS
  <2>1. r[i] = q[i + 1] /\ i + 1 \in 1..l
    BY <1>1
  <2>2. q[i + 1] = n - l + (i + 1)
    BY <1>2, <2>1
  <2> QED
    BY <1>1, <2>1, <2>2
<1>5. Head(q) = n - l + 1
  BY <1>1, <1>2, <1>3
<1> QED
  BY <1>1, <1>4, <1>5 DEF CountsTo, l, r

-----------------------------------------------------------------------------
LEMMA InitIOInv == Init => IOInv
  BY IOAssumption DEF Init, IOInv, Shape, AfterExit, Numbered, Counted, CountsTo, Kept, InHand, Done

LEMMA NextShape == IOInv /\ [Next]_vars => Shape'
<1> SUFFICES ASSUME IOInv, [Next]_vars PROVE Shape'
  OBVIOUS
<1> USE IOAssumption DEF IOInv, Shape, minecraft, output, goroutine
<1>1. ASSUME NEW s \in Streams, WantsToPrint(s) PROVE Shape'
  BY <1>1 DEF WantsToPrint
<1>2. ASSUME NEW s \in Streams, Prints(s) PROVE Shape'
  <2>1. printed[s] + 1 \in Nat /\ printed'[s] = printed[s] + 1
    BY <1>2 DEF Prints
  <2>2. /\ Append(piped[s], printed'[s]) \in Seq(Nat)
        /\ Len(Append(piped[s], printed'[s])) = Len(piped[s]) + 1
    BY <2>1, AppendProperties
  <2>3. /\ printed[s] < MaxLines /\ server' = "running" /\ server' \notin Streams
        /\ Len(piped[s]) \in Nat
    BY <1>2, LenProperties DEF Prints
  <2> QED
    BY <1>2, <2>1, <2>2, <2>3 DEF Prints
<1>3. CASE ReadsInput \/ ServerExits
  BY <1>3 DEF ReadsInput, ServerExits
<1>4. ASSUME NEW s \in Streams, Scan(s) PROVE Shape'
  <2>1. piped[s] # <<>> => /\ Head(piped[s]) \in Nat
                           /\ Tail(piped[s]) \in Seq(Nat)
                           /\ Len(Tail(piped[s])) = Len(piped[s]) - 1
    BY HeadTailProperties
  <2>2. Len(piped[s]) \in Nat /\ Len(piped[s]) <= PipeCap
    BY LenProperties
  <2>3. line' \in [Streams -> Nat]
    BY <1>4, <2>1 DEF Scan
  <2>4. piped' \in [Streams -> Seq(Nat)]
    BY <1>4, <2>1 DEF Scan
  <2>5. \A r \in Streams : Len(piped'[r]) <= PipeCap
    <3>1. \/ piped' = piped
          \/ piped[s] # <<>> /\ piped' = [piped EXCEPT ![s] = Tail(piped[s])]
      BY <1>4 DEF Scan
    <3>2. \A r \in Streams \ {s} : piped'[r] = piped[r]
      BY <3>1
    <3>3. piped'[s] = piped[s] \/ Len(piped'[s]) = Len(piped[s]) - 1
      BY <2>1, <3>1
    <3>4. Len(piped'[s]) <= PipeCap
      BY <2>2, <3>3
    <3> QED
      BY <3>2, <3>4
  <2>6. pump' \in [Streams -> {"scan", "lock", "send", "ended"}]
    BY <1>4 DEF Scan
  <2> QED
    BY <1>4, <2>3, <2>4, <2>5, <2>6 DEF Scan
<1>5. ASSUME NEW s \in Streams, LogLine(s) PROVE Shape'
  <2>1. \A l \in {line[s], 0} : Append(logged[s], l) \in Seq(Nat)
    BY AppendProperties
  <2>2. logged' \in [Streams -> Seq(Nat)]
    <3>1. PICK l \in {line[s], 0} : logged' = [logged EXCEPT ![s] = Append(@, l)]
      BY <1>5 DEF LogLine
    <3> QED
      BY <2>1, <3>1
  <2>3. pump' \in [Streams -> {"scan", "lock", "send", "ended"}]
    BY <1>5 DEF LogLine
  <2>4. /\ UNCHANGED <<server, printed, stdin, piped>>
        /\ UNCHANGED <<line, lines, mu, main, why, written, reaper>>
    BY <1>5 DEF LogLine
  <2>5. /\ server' \in {"running", "exited"} \cup Streams
        /\ server' \in Streams => printed'[server'] < MaxLines
        /\ mu' \in {"free", "main"} \cup Streams
    BY <2>4
  <2>6. /\ piped' \in [Streams -> Seq(Nat)]
        /\ \A r \in Streams : Len(piped'[r]) <= PipeCap
        /\ printed' \in [Streams -> 0..MaxLines]
        /\ line' \in [Streams -> Nat]
    BY <2>4
  <2>7. /\ stdin' \in 0..StdinCap /\ lines' \in 0..LinesCap /\ written' \in 0..MaxCmds
        /\ main' \in {"ready", "monitor", "lock", "write", "stopping", "killing", "gone"}
        /\ why' \in {"console", "stop"} /\ reaper' \in {"wait", "drain", "done"}
    BY <2>4
  <2> HIDE DEF IOInv
  <2> QED
    BY <2>2, <2>3, <2>5, <2>6, <2>7, Zenon
<1>6. ASSUME NEW s \in Streams, SendLine(s) PROVE Shape'
  BY <1>6 DEF SendLine
<1>7. CASE Reaper
  <2>1. CASE WaitReturns
    <3>1. <<>> \in Seq(Nat) /\ Len(<<>>) = 0
      BY EmptySeq
    <3>2. piped' \in [Streams -> Seq(Nat)]
      BY <2>1, <3>1 DEF WaitReturns
    <3>3. \A r \in Streams : piped'[r] = <<>>
      BY <2>1 DEF WaitReturns
    <3>4. 0 <= PipeCap
      OBVIOUS
    <3>5. \A r \in Streams : Len(piped'[r]) <= PipeCap
      BY <3>1, <3>3, <3>4
    <3>6. /\ UNCHANGED <<server, printed, stdin, pump, line, logged, lines>>
          /\ UNCHANGED <<mu, main, why, written>> /\ reaper' = "drain"
      BY <2>1 DEF WaitReturns
    <3> HIDE DEF IOInv
    <3> QED
      BY <3>2, <3>5, <3>6 DEF IOInv
  <2>2. CASE ClosesDone
    BY <2>2 DEF ClosesDone
  <2> QED
    BY <1>7, <2>1, <2>2 DEF Reaper
<1>8. CASE Lock
  BY <1>8 DEF Lock, AfterWrite
<1>9. CASE Write
  BY <1>9 DEF Write, AfterWrite
<1>10. CASE Stopping \/ Killing \/ SeesExit \/ ReadsLine \/ Healthy \/ GivesUp
  BY <1>10 DEF Stopping, Killing, SeesExit, ReadsLine, Healthy, GivesUp
<1>11. ASSUME NEW w \in {"console", "stop"}, Command(w) PROVE Shape'
  BY <1>11 DEF Command
<1>12. CASE UNCHANGED vars
  BY <1>12 DEF vars
<1> QED
  BY <1>1, <1>2, <1>3, <1>4, <1>5, <1>6, <1>7, <1>8, <1>9, <1>10, <1>11, <1>12
     DEF Next, Server, Pump, MainStep

LEMMA NextAfterExit == IOInv /\ [Next]_vars => AfterExit'
<1> SUFFICES ASSUME IOInv, [Next]_vars PROVE AfterExit'
  OBVIOUS
<1> USE IOAssumption DEF IOInv, Shape, AfterExit, Done, minecraft, output, goroutine
<1>1. ASSUME NEW s \in Streams, WantsToPrint(s) \/ Prints(s) PROVE AfterExit'
  BY <1>1 DEF WantsToPrint, Prints
<1>2. CASE ReadsInput \/ ServerExits
  BY <1>2 DEF ReadsInput, ServerExits
<1>3. ASSUME NEW s \in Streams, Pump(s) PROVE AfterExit'
  BY <1>3 DEF Pump, Scan, LogLine, SendLine
<1>4. CASE Reaper
  BY <1>4 DEF Reaper, WaitReturns, ClosesDone
<1>5. CASE Lock \/ Write
  BY <1>5 DEF Lock, Write
<1>6. CASE Stopping \/ Killing \/ SeesExit \/ ReadsLine \/ Healthy \/ GivesUp
  BY <1>6 DEF Stopping, Killing, SeesExit, ReadsLine, Healthy, GivesUp
<1>7. ASSUME NEW w \in {"console", "stop"}, Command(w) PROVE AfterExit'
  BY <1>7 DEF Command
<1>8. CASE UNCHANGED vars
  BY <1>8 DEF vars
<1> QED
  BY <1>1, <1>2, <1>3, <1>4, <1>5, <1>6, <1>7, <1>8 DEF Next, Server, MainStep

\* Only five actions move the lines or the goroutines that carry them.
LEMMA WhoMovesLines ==
  ASSUME [Next]_vars
  PROVE  \/ UNCHANGED <<piped, printed, line, logged, pump, reaper>>
         \/ \E s \in Streams : Prints(s) \/ Scan(s) \/ LogLine(s) \/ SendLine(s)
         \/ Reaper
  BY DEF vars, minecraft, output, goroutine, Next, Server, Pump, MainStep, WantsToPrint,
         ReadsInput, ServerExits, Lock, Write, Stopping, Killing, SeesExit, ReadsLine,
         Healthy, GivesUp, Command

LEMMA NextNumbered ==
  ASSUME IOInv, [Next]_vars, NEW t \in Streams
  PROVE  Numbered(t)'
<1> USE DEF minecraft, output, goroutine
<1>S. logged[t] \in Seq(Nat) /\ piped[t] \in Seq(Nat)
  BY DEF IOInv, Shape
<1>1. Counted(t) /\ InHand(t)
  BY DEF IOInv, Numbered
<1>2. /\ printed[t] \in Nat /\ line[t] \in Nat
      /\ Len(logged[t]) \in Nat /\ Len(piped[t]) \in Nat
  BY <1>S, IOAssumption, LenProperties DEF IOInv, Shape
<1>3. /\ pump \in [Streams -> {"scan", "lock", "send", "ended"}]
      /\ line \in [Streams -> Nat] /\ DOMAIN printed = Streams
      /\ DOMAIN piped = Streams /\ DOMAIN logged = Streams
  BY DEF IOInv, Shape
<1>4. \/ UNCHANGED <<piped, printed, line, logged, pump, reaper>>
      \/ \E s \in Streams \ {t} : Prints(s) \/ Scan(s) \/ LogLine(s) \/ SendLine(s)
      \/ Prints(t) \/ Scan(t) \/ LogLine(t) \/ SendLine(t)
      \/ WaitReturns \/ ClosesDone
  BY WhoMovesLines DEF Reaper
<1>5. CASE UNCHANGED <<piped, printed, line, logged, pump, reaper>>
  BY <1>1, <1>5 DEF Numbered, Counted, CountsTo, Kept, InHand
<1>6. ASSUME NEW s \in Streams \ {t}, Prints(s) \/ Scan(s) \/ LogLine(s) \/ SendLine(s)
      PROVE  Numbered(t)'
  <2>1. /\ piped'[t] = piped[t] /\ printed'[t] = printed[t] /\ line'[t] = line[t]
        /\ logged'[t] = logged[t] /\ pump'[t] = pump[t] /\ reaper' = reaper
    BY <1>3, <1>6 DEF Prints, Scan, LogLine, SendLine
  <2> QED
    BY <1>1, <2>1 DEF Numbered, Counted, CountsTo, Kept, InHand
<1>7. CASE Prints(t)
  <2>1. /\ reaper = "wait" /\ reaper' = reaper
        /\ printed'[t] = printed[t] + 1
        /\ piped'[t] = Append(piped[t], printed[t] + 1)
        /\ UNCHANGED <<line, logged, pump>>
    BY <1>3, <1>7, IOAssumption DEF Prints, IOInv, AfterExit
  <2>2. /\ Len(piped'[t]) = Len(piped[t]) + 1
        /\ \A i \in 1..Len(piped[t]) : piped'[t][i] = piped[t][i]
        /\ piped'[t][Len(piped[t]) + 1] = printed[t] + 1
    BY <1>S, <1>2, <2>1, AppendProperties
  <2>3. InHand(t)'
    <3>1. /\ Len(piped'[t]) = Len(piped[t]) + 1
          /\ printed'[t] = printed[t] + 1 /\ reaper = "wait" /\ reaper' = reaper
          /\ UNCHANGED <<line, logged, pump>>
      BY <2>1, <2>2
    <3>2. Len(piped'[t]) <= printed'[t] /\ line'[t] <= printed'[t]
      BY <1>1, <1>2, <3>1 DEF InHand
    <3>3. line'[t] = IF pump'[t] = "lock" THEN Len(logged'[t]) + 1 ELSE Len(logged'[t])
      BY <1>1, <3>1 DEF InHand
    <3>4. ASSUME pump'[t] # "ended" PROVE line'[t] + Len(piped'[t]) = printed'[t]
      <4>1. line[t] + Len(piped[t]) = printed[t] /\ line'[t] = line[t]
        BY <1>1, <3>1, <3>4 DEF InHand
      <4> QED
        BY <1>2, <3>1, <4>1
    <3> QED
      BY <3>2, <3>3, <3>4 DEF InHand
  <2>4. CountsTo(piped'[t], printed'[t])
    BY <1>S, <1>1, <1>2, <2>1, AppendingCounts DEF Counted
  <2> QED
    BY <1>1, <2>1, <2>3, <2>4 DEF Numbered, Counted
<1>8. CASE Scan(t)
  <2>1. /\ pump[t] = "scan" /\ UNCHANGED <<printed, logged, reaper>>
        /\ \/ piped[t] # <<>> /\ line'[t] = Head(piped[t]) /\ pump'[t] = "lock"
           \/ line' = line /\ pump'[t] = "ended"
        /\ \/ piped[t] # <<>> /\ piped'[t] = Tail(piped[t])
           \/ piped' = piped /\ pump'[t] = "ended"
    BY <1>3, <1>8 DEF Scan
  <2>2. piped[t] # <<>> => Len(piped[t]) >= 1 /\ Len(Tail(piped[t])) = Len(piped[t]) - 1
    BY <1>S, <1>2, HeadTailProperties, EmptySeq
  <2>3. piped[t] # <<>> => reaper = "wait"
    BY DEF IOInv, AfterExit
  <2>4. piped[t] # <<>> => /\ Head(piped[t]) = printed[t] - Len(piped[t]) + 1
                           /\ CountsTo(Tail(piped[t]), printed[t])
    BY <1>S, <1>1, <1>2, TakingCounts DEF Counted
  <2>5. InHand(t)'
    <3>S. /\ pump[t] = "scan" /\ UNCHANGED <<printed, logged, reaper>>
          /\ \/ Len(piped'[t]) = Len(piped[t]) - 1 /\ Len(piped[t]) >= 1
             \/ Len(piped'[t]) = Len(piped[t])
      BY <2>1, <2>2
    <3>1. line[t] = Len(logged[t]) /\ (reaper = "wait" => line[t] + Len(piped[t]) = printed[t])
      BY <1>1, <3>S DEF InHand
    <3>2. piped[t] # <<>> => Head(piped[t]) = Len(logged[t]) + 1
      <4> DEFINE k == Len(piped[t])
      <4>1. k \in Nat
        BY <1>2
      <4>2. piped[t] # <<>> => line[t] + k = printed[t] /\ Head(piped[t]) = printed[t] - k + 1
        BY <2>3, <2>4, <3>1
      <4> HIDE DEF k
      <4> QED
        BY <1>2, <3>1, <4>1, <4>2
    <3>3. Len(piped'[t]) <= printed[t]
      BY <1>1, <1>2, <3>S DEF InHand
    <3>4. CASE pump'[t] = "lock"
      <4>1. /\ line'[t] = Len(logged[t]) + 1
            /\ Len(piped'[t]) = Len(piped[t]) - 1 /\ Len(piped[t]) >= 1
            /\ line[t] + Len(piped[t]) = printed[t]
        BY <2>1, <2>2, <2>3, <3>1, <3>2, <3>4
      <4> DEFINE k == Len(piped[t])
      <4> DEFINE j == Len(logged[t])
      <4>2. /\ k \in Nat /\ j \in Nat /\ k >= 1 /\ j + k = printed[t]
            /\ line'[t] = j + 1 /\ Len(piped'[t]) = k - 1 /\ printed'[t] = printed[t]
        BY <1>2, <3>S, <3>1, <4>1
      <4> HIDE DEF j, k
      <4>3. line'[t] <= printed'[t] /\ line'[t] + Len(piped'[t]) = printed'[t]
        BY <4>2
      <4> QED
        BY <3>S, <3>3, <3>4, <4>1, <4>3 DEF InHand
    <3>5. CASE pump'[t] = "ended"
      BY <1>1, <1>2, <2>1, <3>1, <3>3, <3>5 DEF InHand
    <3> QED
      BY <2>1, <3>4, <3>5
  <2>6. Counted(t)'
    BY <1>1, <2>1, <2>4 DEF Counted
  <2> QED
    BY <2>5, <2>6 DEF Numbered
<1>9. CASE LogLine(t)
  <2>1. /\ pump[t] = "lock" /\ pump'[t] = "send"
        /\ \E l \in {line[t], 0} :
               /\ l = line[t] \/ (l = 0 /\ line[t] \in FullAt)
               /\ logged'[t] = Append(logged[t], l)
        /\ UNCHANGED <<piped, printed, line, reaper>>
    BY <1>3, <1>9 DEF LogLine
  <2>2. line[t] = Len(logged[t]) + 1
    BY <1>1, <2>1 DEF InHand
  <2>3. Len(logged'[t]) = Len(logged[t]) + 1
    BY <1>S, <1>2, <2>1, AppendProperties
  <2>4. InHand(t)'
    BY <1>1, <1>2, <2>1, <2>2, <2>3 DEF InHand
  <2>5. Kept(logged'[t])
    BY <1>S, <1>1, <1>2, <2>1, <2>2, LoggingKeeps DEF Counted
  <2> QED
    BY <1>1, <2>1, <2>4, <2>5 DEF Numbered, Counted
<1>10. CASE SendLine(t)
  <2>1. /\ pump[t] = "send" /\ pump'[t] = "scan"
        /\ UNCHANGED <<piped, printed, line, logged, reaper>>
    BY <1>3, <1>10 DEF SendLine
  <2> QED
    BY <1>1, <2>1 DEF Numbered, Counted, CountsTo, Kept, InHand
<1>11. CASE WaitReturns
  <2>1. piped'[t] = <<>> /\ reaper' = "drain" /\ UNCHANGED <<printed, line, logged, pump>>
    BY <1>11 DEF WaitReturns
  <2> QED
    BY <1>1, <1>2, <2>1 DEF Numbered, Counted, CountsTo, Kept, InHand
<1>12. CASE ClosesDone
  BY <1>1, <1>12 DEF ClosesDone, Numbered, Counted, CountsTo, Kept, InHand
<1> QED
  BY <1>4, <1>5, <1>6, <1>7, <1>8, <1>9, <1>10, <1>11, <1>12

\* The inductive invariant holds in every reachable state.
THEOREM IOInvariance == Spec => []IOInv
<1>1. IOInv /\ [Next]_vars => IOInv'
  BY NextShape, NextAfterExit, NextNumbered DEF IOInv
<1> QED
  BY <1>1, InitIOInv, PTL DEF Spec

-----------------------------------------------------------------------------
\* Types hold in every reachable state.
THEOREM IOTypeCorrect == Spec => []TypeOK
<1>1. ASSUME IOInv PROVE TypeOK
  <2> USE <1>1, IOAssumption DEF IOInv, Shape, Numbered, Counted, CountsTo, Kept, InHand
  <2>1. ASSUME NEW s \in Streams
        PROVE  piped[s] \in Seq(1..MaxLines) /\ logged[s] \in Seq(0..MaxLines)
    <3>1. printed[s] \in 0..MaxLines /\ MaxLines \in Nat
      OBVIOUS
    <3>2. piped[s] \in Seq(Nat) /\ \A i \in 1..Len(piped[s]) : piped[s][i] \in 1..MaxLines
      BY <3>1, LenProperties
    <3>3. logged[s] \in Seq(Nat) /\ \A i \in 1..Len(logged[s]) : logged[s][i] \in 0..MaxLines
      <4>1. Len(logged[s]) \in Nat /\ Len(logged[s]) <= MaxLines
        BY <3>1, LenProperties
      <4>2. \A i \in 1..Len(logged[s]) : logged[s][i] \in {0, i}
        OBVIOUS
      <4>3. ASSUME NEW i \in 1..Len(logged[s]) PROVE logged[s][i] \in 0..MaxLines
        <5>1. logged[s][i] = 0 \/ logged[s][i] = i
          BY <4>2
        <5>2. i \in 0..MaxLines /\ 0 \in 0..MaxLines
          BY <3>1, <4>1
        <5> HIDE DEF IOInv, Shape
        <5> QED
          BY <5>1, <5>2
      <4>4. logged[s] \in Seq(Nat)
        OBVIOUS
      <4> HIDE DEF IOInv
      <4> QED
        BY <4>3, <4>4
    <3> QED
      BY <3>2, <3>3, SeqOver
  <2>2. line \in [Streams -> 0..MaxLines]
    OBVIOUS
  <2> QED
    BY <2>1, <2>2 DEF TypeOK
<1> QED
  BY <1>1, IOInvariance, PTL

\* The log holds the lines of a stream in order, however full Process.lines
\* is and whoever holds the lock; only a failed write leaves a line out.
THEOREM LogIsComplete == Spec => []LogHasNoGaps
<1>1. IOInv => LogHasNoGaps
  BY DEF IOInv, Numbered, Counted, Kept, LogHasNoGaps
<1> QED
  BY <1>1, IOInvariance, PTL

\* p.done is closed only after the last line that was read is in the log.
THEOREM DoneIsLast == Spec => []DoneComesLast
<1>1. IOInv => DoneComesLast
  BY DEF IOInv, Shape, AfterExit, Numbered, InHand, DoneComesLast
<1> QED
  BY <1>1, IOInvariance, PTL
=============================================================================
