---------------------------- MODULE LogStreamProofs ----------------------------
(***************************************************************************)
(* The way of the lines to the browsers, for any clients, capacities and   *)
(* bounds.                                                                 *)
(*                                                                         *)
(* The argument: what a client has got, its batch and its channel are one  *)
(* rising run of line numbers that ends at or before pos (InFlight), and   *)
(* pos never goes back, whatever dies or is started again.  What was       *)
(* offered to a subscription is in one of the three or was missed.         *)
(***************************************************************************)
EXTENDS LogStream, DataLemmas

\* Each element of the sequence is above the ones before it.
Rising(q) == \A i, j \in DOMAIN q : i < j => q[i] < q[j]

\* Whatever is in p is below whatever is in q.
Precede(p, q) == \A x \in ToSet(p), y \in ToSet(q) : x < y

\* The types in a form that steps preserve.
Shape ==
    /\ files \in 0..MaxFiles
    /\ logged \in Seq(1..MaxFiles) /\ Len(logged) <= MaxLines
    /\ path \in 0..files
    /\ follower \in {"round", "starting", "tailing"}
    /\ pos \in 0..Len(logged)
    /\ conn \in [Clients -> {"off", "opening", "streaming"}]
    /\ chan \in [Clients -> Seq(Line)]
    /\ batch \in [Clients -> Seq(Line)]
    /\ got \in [Clients -> Seq(Line)]
    /\ offered \in [Clients -> SUBSET Line]
    /\ missed \in [Clients -> SUBSET Line]

\* The bounds of the channel and of the batch.
Bounded(c) == Len(chan[c]) <= SubCap /\ Len(batch[c]) < BatchMax

\* The lines of a client, from what it has got to what waits for its handler.
InFlight(c) ==
    /\ Rising(got[c]) /\ Rising(batch[c]) /\ Rising(chan[c])
    /\ Precede(got[c], batch[c]) /\ Precede(got[c], chan[c]) /\ Precede(batch[c], chan[c])
    /\ \A n \in ToSet(got[c]) \cup ToSet(batch[c]) \cup ToSet(chan[c]) : n <= pos

\* What was offered to it.
Accounted(c) ==
    offered[c] \subseteq ToSet(got[c]) \cup ToSet(batch[c]) \cup ToSet(chan[c]) \cup missed[c]

StreamInv ==
    /\ Shape
    /\ \A c \in Clients : Bounded(c) /\ InFlight(c) /\ Accounted(c)

-----------------------------------------------------------------------------
\* Rising and Precede are about the pairs of numbers in this order.
Upward == {pair \in Nat \X Nat : pair[1] < pair[2]}

LEMMA RisingIsChain ==
  ASSUME NEW q \in Seq(Nat)
  PROVE  Rising(q) <=> Chain(Upward, q)
<1>1. \A i \in DOMAIN q : q[i] \in Nat
  BY ElementOfSeq, LenProperties
<1>2. \A i, j \in DOMAIN q : q[i] < q[j] <=> <<q[i], q[j]>> \in Upward
  BY <1>1 DEF Upward
<1> QED
  BY <1>2, Zenon DEF Rising, Chain

LEMMA RisingAppend ==
  ASSUME NEW q \in Seq(Nat), NEW n \in Nat, Rising(q), \A x \in ToSet(q) : x < n
  PROVE  Rising(Append(q, n))
<1>1. \A x \in ToSet(q) : <<x, n>> \in Upward
  BY ElementOfSeq, LenProperties DEF ToSet, Upward
<1>2. Append(q, n) \in Seq(Nat)
  BY AppendProperties
<1>3. Chain(Upward, Append(q, n))
  BY <1>1, ChainAppend, RisingIsChain
<1> QED
  BY <1>2, <1>3, RisingIsChain

LEMMA RisingConcat ==
  ASSUME NEW p \in Seq(Nat), NEW q \in Seq(Nat), Rising(p), Rising(q), Precede(p, q)
  PROVE  Rising(p \o q)
<1>1. ToSet(p) \subseteq Nat /\ ToSet(q) \subseteq Nat
  BY ElementOfSeq, LenProperties DEF ToSet
<1>2. Leads(Upward, p, q)
  BY <1>1 DEF Precede, Leads, Upward
<1>3. p \o q \in Seq(Nat)
  BY ConcatProperties
<1>4. Chain(Upward, p \o q)
  BY <1>2, ChainConcat, RisingIsChain
<1> QED
  BY <1>3, <1>4, RisingIsChain

LEMMA RisingTail ==
  ASSUME NEW q \in Seq(Nat), q # <<>>, Rising(q)
  PROVE  Rising(Tail(q)) /\ \A y \in ToSet(Tail(q)) : Head(q) < y
<1>1. Tail(q) \in Seq(Nat)
  BY HeadTailProperties
<1>2. Chain(Upward, Tail(q)) /\ \A y \in ToSet(Tail(q)) : <<Head(q), y>> \in Upward
  BY ChainTail, RisingIsChain
<1> QED
  BY <1>1, <1>2, RisingIsChain DEF Upward

-----------------------------------------------------------------------------
LEMMA InitStreamInv == Init => StreamInv
<1> SUFFICES ASSUME Init PROVE StreamInv
  OBVIOUS
<1>1. <<>> \in Seq(Line) /\ <<>> \in Seq(1..MaxFiles) /\ Len(<<>>) = 0 /\ DOMAIN <<>> = {}
  BY EmptySeq, LenProperties
<1>2. ToSet(<<>>) = {}
  BY <1>1 DEF ToSet
<1>3. Shape
  BY <1>1, StreamAssumption DEF Init, Shape
<1>4. ASSUME NEW c \in Clients PROVE Bounded(c) /\ InFlight(c) /\ Accounted(c)
  <2>1. chan[c] = <<>> /\ batch[c] = <<>> /\ got[c] = <<>> /\ offered[c] = {}
    BY DEF Init
  <2> QED
    BY <1>1, <1>2, <2>1, StreamAssumption
       DEF Bounded, InFlight, Accounted, Rising, Precede
<1> QED
  BY <1>3, <1>4 DEF StreamInv

\* pos is a line that has been logged, and the log only grows.
LEMMA PosGrows ==
  ASSUME StreamInv, [Next]_vars
  PROVE  pos \in Nat /\ pos' \in Nat /\ pos <= pos' /\ pos' <= Len(logged')
<1> USE DEF logs, tail, handlers, history
<1>1. Len(logged) \in Nat /\ pos \in Nat /\ pos <= Len(logged) /\ files \in Nat
  BY LenProperties, StreamAssumption DEF StreamInv, Shape
<1>2. CASE LogLine
  <2>1. files \in 1..MaxFiles /\ logged \in Seq(1..MaxFiles)
    BY <1>2, StreamAssumption DEF LogLine, StreamInv, Shape
  <2>2. Len(logged') = Len(logged) + 1 /\ pos' = pos
    BY <1>2, <2>1, AppendProperties DEF LogLine
  <2> QED
    BY <1>1, <2>2
<1>3. CASE Publish
  <2>1. logged' = logged /\ pos' \in Ahead
    BY <1>3 DEF Publish
  <2> QED
    BY <1>1, <2>1 DEF Ahead
<1>4. CASE StartTail
  BY <1>1, <1>4 DEF StartTail
<1>5. CASE UNCHANGED <<logged, pos>>
  BY <1>1, <1>5
<1>6. \/ LogLine \/ Publish \/ StartTail
      \/ UNCHANGED <<logged, pos>>
  BY DEF Next, Server, Follow, Handle, vars, NewLog, ListLogs, TailDies, WebRestarts,
         Connect, Subscribe, Receive, Flush, Leave
<1> QED
  BY <1>2, <1>3, <1>4, <1>5, <1>6

\* What Receive does with the line it takes, and what Flush does.
LEMMA HandlerTypes ==
  ASSUME Shape, NEW c \in Clients
  PROVE  /\ chan[c] # <<>> => /\ Tail(chan[c]) \in Seq(Line)
                              /\ Head(chan[c]) \in Line
                              /\ Append(batch[c], Head(chan[c])) \in Seq(Line)
                              /\ got[c] \o Append(batch[c], Head(chan[c])) \in Seq(Line)
         /\ got[c] \o batch[c] \in Seq(Line)
         /\ <<>> \in Seq(Line)
<1>1. chan[c] \in Seq(Line) /\ batch[c] \in Seq(Line) /\ got[c] \in Seq(Line)
  BY DEF Shape
<1>2. ASSUME chan[c] # <<>>
      PROVE  /\ Tail(chan[c]) \in Seq(Line) /\ Head(chan[c]) \in Line
  BY <1>1, <1>2, HeadTailProperties
<1>3. ASSUME chan[c] # <<>>
      PROVE  Append(batch[c], Head(chan[c])) \in Seq(Line)
  BY <1>1, <1>2, <1>3, AppendProperties
<1>4. ASSUME chan[c] # <<>>
      PROVE  got[c] \o Append(batch[c], Head(chan[c])) \in Seq(Line)
  BY <1>1, <1>3, <1>4, ConcatProperties
<1>5. got[c] \o batch[c] \in Seq(Line) /\ <<>> \in Seq(Line)
  BY <1>1, ConcatProperties, EmptySeq
<1> QED
  BY <1>2, <1>3, <1>4, <1>5

\* The rest of the steps leaves the clients alone.
LEMMA WhoServes ==
  ASSUME [Next]_vars
  PROVE  \/ UNCHANGED <<handlers, history>>
         \/ Publish
         \/ WebRestarts
         \/ \E c \in Clients :
                Connect(c) \/ Subscribe(c) \/ Receive(c) \/ Flush(c) \/ Leave(c)
<1>1. CASE NewLog \/ LogLine \/ ListLogs \/ StartTail \/ TailDies \/ UNCHANGED vars
  BY <1>1 DEF NewLog, LogLine, ListLogs, StartTail, TailDies, vars, history, handlers
<1> QED
  BY <1>1 DEF Next, Server, Follow, Handle

LEMMA NextShape ==
  ASSUME StreamInv, [Next]_vars
  PROVE  Shape'
<1> USE StreamAssumption DEF logs, tail, handlers, history
<1>1. Shape
  BY DEF StreamInv
<1>2. pos' \in 0..Len(logged')
  BY PosGrows
<1>3. /\ files' \in 0..MaxFiles /\ path' \in 0..files'
      /\ follower' \in {"round", "starting", "tailing"}
  BY <1>1 DEF Next, Server, Follow, Handle, vars, NewLog, LogLine, ListLogs, StartTail, Publish,
         TailDies, WebRestarts, Connect, Subscribe, Receive, Flush, Leave, Shape
<1>4. logged' \in Seq(1..MaxFiles) /\ Len(logged') <= MaxLines
  <2>1. CASE LogLine
    <3>1. files \in 1..MaxFiles /\ logged \in Seq(1..MaxFiles) /\ logged' = Append(logged, files)
      BY <1>1, <2>1 DEF LogLine, Shape
    <3>2. logged' \in Seq(1..MaxFiles) /\ Len(logged') = Len(logged) + 1
      BY <3>1, AppendProperties
    <3>3. Len(logged) < MaxLines /\ Len(logged) \in Nat
      BY <2>1, <3>1, LenProperties DEF LogLine
    <3> QED
      BY <3>2, <3>3
  <2>2. CASE UNCHANGED logged
    BY <1>1, <2>2 DEF Shape
  <2>3. LogLine \/ UNCHANGED logged
    BY DEF Next, Server, Follow, Handle, vars, NewLog, ListLogs, StartTail, Publish, TailDies,
         WebRestarts, Connect, Subscribe, Receive, Flush, Leave
  <2> QED
    BY <2>1, <2>2, <2>3
<1>5. /\ conn' \in [Clients -> {"off", "opening", "streaming"}]
      /\ chan' \in [Clients -> Seq(Line)] /\ batch' \in [Clients -> Seq(Line)]
      /\ got' \in [Clients -> Seq(Line)]
      /\ offered' \in [Clients -> SUBSET Line] /\ missed' \in [Clients -> SUBSET Line]
  <2> DEFINE Goal == /\ conn' \in [Clients -> {"off", "opening", "streaming"}]
                     /\ chan' \in [Clients -> Seq(Line)] /\ batch' \in [Clients -> Seq(Line)]
                     /\ got' \in [Clients -> Seq(Line)]
                     /\ offered' \in [Clients -> SUBSET Line]
                     /\ missed' \in [Clients -> SUBSET Line]
  <2>1. ASSUME UNCHANGED <<handlers, history>> PROVE Goal
    BY <1>1, <2>1 DEF Shape
  <2>2. ASSUME Publish PROVE Goal
    <3>1. PICK n \in Ahead :
            /\ chan' = [c \in Clients |->
                          IF c \in Subscribed /\ ~Full(c) THEN Append(chan[c], n) ELSE chan[c]]
            /\ offered' = [c \in Clients |->
                          IF c \in Subscribed THEN offered[c] \cup {n} ELSE offered[c]]
            /\ missed' = [c \in Clients |->
                          IF c \in Subscribed /\ Full(c) THEN missed[c] \cup {n} ELSE missed[c]]
      BY <2>2 DEF Publish
    <3>2. n \in Line
      BY <1>1, LenProperties DEF Ahead, Line, Shape
    <3>3. \A c \in Clients : Append(chan[c], n) \in Seq(Line)
      BY <1>1, <3>2, AppendProperties DEF Shape
    <3>4. chan' \in [Clients -> Seq(Line)]
      BY <1>1, <3>1, <3>3 DEF Shape
    <3>5. offered' \in [Clients -> SUBSET Line] /\ missed' \in [Clients -> SUBSET Line]
      BY <1>1, <3>1, <3>2 DEF Shape
    <3>6. UNCHANGED <<conn, batch, got>>
      BY <2>2 DEF Publish
    <3> QED
      BY <1>1, <3>4, <3>5, <3>6 DEF Shape
  <2>3. ASSUME WebRestarts PROVE Goal
    BY <1>1, <2>3, EmptySeq DEF WebRestarts, Shape
  <2>4. ASSUME NEW c \in Clients, Connect(c) \/ Subscribe(c) PROVE Goal
    BY <1>1, <2>4 DEF Connect, Subscribe, Shape
  <2>5. ASSUME NEW c \in Clients, Receive(c) PROVE Goal
    <3>1. chan[c] # <<>> /\ chan' = [chan EXCEPT ![c] = Tail(@)]
          /\ UNCHANGED <<conn, offered, missed>>
      BY <2>5 DEF Receive
    <3> DEFINE b == Append(batch[c], Head(chan[c]))
    <3>2. \/ batch' = [batch EXCEPT ![c] = b] /\ got' = got
          \/ batch' = [batch EXCEPT ![c] = <<>>] /\ got' = [got EXCEPT ![c] = @ \o b]
      BY <2>5 DEF Receive
    <3>3. b \in Seq(Line) /\ got[c] \o b \in Seq(Line) /\ Tail(chan[c]) \in Seq(Line)
          /\ <<>> \in Seq(Line)
      BY <1>1, <3>1, HandlerTypes
    <3> HIDE DEF b
    <3>4. chan' \in [Clients -> Seq(Line)]
      BY <1>1, <3>1, <3>3 DEF Shape
    <3>5. batch' \in [Clients -> Seq(Line)]
      BY <1>1, <3>2, <3>3 DEF Shape
    <3>6. got' \in [Clients -> Seq(Line)]
      BY <1>1, <3>2, <3>3 DEF Shape
    <3> QED
      BY <1>1, <3>1, <3>4, <3>5, <3>6 DEF Shape
  <2>6. ASSUME NEW c \in Clients, Flush(c) PROVE Goal
    <3>1. /\ got' = [got EXCEPT ![c] = @ \o batch[c]]
          /\ batch' = [batch EXCEPT ![c] = <<>>]
          /\ UNCHANGED <<conn, chan, offered, missed>>
      BY <2>6 DEF Flush
    <3>2. got[c] \o batch[c] \in Seq(Line) /\ <<>> \in Seq(Line)
      BY <1>1, HandlerTypes
    <3> QED
      BY <1>1, <3>1, <3>2 DEF Shape
  <2>7. ASSUME NEW c \in Clients, Leave(c) PROVE Goal
    <3>1. <<>> \in Seq(Line) /\ {} \in SUBSET Line
      BY EmptySeq
    <3>2. /\ conn' = [conn EXCEPT ![c] = "off"] /\ got' = got
          /\ chan' = [chan EXCEPT ![c] = <<>>] /\ batch' = [batch EXCEPT ![c] = <<>>]
          /\ offered' = [offered EXCEPT ![c] = {}] /\ missed' = [missed EXCEPT ![c] = {}]
      BY <2>7 DEF Leave
    <3>3. chan' \in [Clients -> Seq(Line)] /\ batch' \in [Clients -> Seq(Line)]
      BY <1>1, <3>1, <3>2 DEF Shape
    <3>4. offered' \in [Clients -> SUBSET Line] /\ missed' \in [Clients -> SUBSET Line]
      BY <1>1, <3>1, <3>2 DEF Shape
    <3>5. conn' \in [Clients -> {"off", "opening", "streaming"}]
      BY <1>1, <3>2 DEF Shape
    <3>6. got' \in [Clients -> Seq(Line)]
      BY <1>1, <3>2 DEF Shape
    <3> QED
      BY <3>3, <3>4, <3>5, <3>6
  <2> HIDE DEF Goal
  <2>8. Goal
    <3>1. ASSUME NEW c \in Clients,
                 Connect(c) \/ Subscribe(c) \/ Receive(c) \/ Flush(c) \/ Leave(c)
          PROVE  Goal
      BY <2>4, <2>5, <2>6, <2>7, <3>1
    <3> QED
      BY <2>1, <2>2, <2>3, <3>1, WhoServes
  <2> QED
    BY <2>8 DEF Goal
<1> QED
  BY <1>2, <1>3, <1>4, <1>5 DEF Shape

-----------------------------------------------------------------------------
LEMMA LinesAreNumbers ==
  ASSUME NEW q \in Seq(Line)
  PROVE  q \in Seq(Nat) /\ ToSet(q) \subseteq Nat /\ ToSet(q) \subseteq Line
<1>1. \A i \in 1..Len(q) : q[i] \in Line /\ q[i] \in Nat
  BY StreamAssumption, ElementOfSeq DEF Line
<1>2. q \in Seq(Nat)
  BY <1>1, SeqOver
<1>3. DOMAIN q = 1..Len(q)
  BY LenProperties
<1> QED
  BY <1>1, <1>2, <1>3 DEF ToSet

\* What a step may do with the lines of one client.
LEMMA HowLinesMove ==
  ASSUME Shape, [Next]_vars, NEW t \in Clients
  PROVE  \/ /\ got'[t] = got[t] /\ batch'[t] = batch[t] /\ chan'[t] = chan[t]
            /\ offered'[t] = offered[t] /\ missed'[t] = missed[t]
         \/ /\ Publish /\ ~Full(t)
            /\ got'[t] = got[t] /\ batch'[t] = batch[t] /\ chan'[t] = Append(chan[t], pos')
            /\ offered'[t] = offered[t] \cup {pos'} /\ missed'[t] = missed[t]
         \/ /\ Publish
            /\ got'[t] = got[t] /\ batch'[t] = batch[t] /\ chan'[t] = chan[t]
            /\ offered'[t] = offered[t] \cup {pos'} /\ missed'[t] = missed[t] \cup {pos'}
         \/ /\ chan[t] # <<>> /\ chan'[t] = Tail(chan[t])
            /\ offered'[t] = offered[t] /\ missed'[t] = missed[t]
            /\ \/ /\ Len(Append(batch[t], Head(chan[t]))) < BatchMax
                  /\ batch'[t] = Append(batch[t], Head(chan[t])) /\ got'[t] = got[t]
               \/ /\ batch'[t] = <<>>
                  /\ got'[t] = got[t] \o Append(batch[t], Head(chan[t]))
         \/ /\ got'[t] = got[t] \o batch[t] /\ batch'[t] = <<>> /\ chan'[t] = chan[t]
            /\ offered'[t] = offered[t] /\ missed'[t] = missed[t]
         \/ /\ got'[t] = got[t] /\ batch'[t] = <<>> /\ chan'[t] = <<>>
            /\ offered'[t] = {} /\ missed'[t] = {}
<1> DEFINE Same(s) == /\ got'[s] = got[s] /\ batch'[s] = batch[s] /\ chan'[s] = chan[s]
                      /\ offered'[s] = offered[s] /\ missed'[s] = missed[s]
<1> USE DEF logs, tail, handlers, history
<1>1. /\ conn \in [Clients -> {"off", "opening", "streaming"}]
      /\ DOMAIN chan = Clients /\ DOMAIN batch = Clients /\ DOMAIN got = Clients
      /\ DOMAIN offered = Clients /\ DOMAIN missed = Clients
  BY DEF Shape
<1>2. ASSUME UNCHANGED <<handlers, history>> PROVE Same(t)
  BY <1>2
<1>3. ASSUME NEW c \in Clients \ {t},
             Connect(c) \/ Subscribe(c) \/ Receive(c) \/ Flush(c) \/ Leave(c)
      PROVE  Same(t)
  BY <1>1, <1>3 DEF Connect, Subscribe, Receive, Flush, Leave
<1>4. ASSUME Connect(t) \/ Subscribe(t) PROVE Same(t)
  BY <1>4 DEF Connect, Subscribe
<1>5. CASE Publish
  <2>1. PICK n \in Ahead :
          /\ pos' = n
          /\ chan' = [c \in Clients |->
                        IF c \in Subscribed /\ ~Full(c) THEN Append(chan[c], n) ELSE chan[c]]
          /\ offered' = [c \in Clients |->
                        IF c \in Subscribed THEN offered[c] \cup {n} ELSE offered[c]]
          /\ missed' = [c \in Clients |->
                        IF c \in Subscribed /\ Full(c) THEN missed[c] \cup {n} ELSE missed[c]]
    BY <1>5 DEF Publish
  <2>2. got' = got /\ batch' = batch
    BY <1>5 DEF Publish
  <2>3. CASE t \in Subscribed /\ ~Full(t)
    BY <1>5, <2>1, <2>2, <2>3
  <2>4. CASE t \in Subscribed /\ Full(t)
    BY <1>5, <2>1, <2>2, <2>4
  <2>5. CASE t \notin Subscribed
    BY <2>1, <2>2, <2>5
  <2> QED
    BY <2>3, <2>4, <2>5
<1>6. CASE Receive(t)
  <2>1. /\ chan[t] # <<>> /\ chan'[t] = Tail(chan[t])
        /\ offered'[t] = offered[t] /\ missed'[t] = missed[t]
    BY <1>1, <1>6 DEF Receive
  <2>2. \/ /\ Len(Append(batch[t], Head(chan[t]))) < BatchMax
           /\ batch'[t] = Append(batch[t], Head(chan[t])) /\ got'[t] = got[t]
        \/ /\ batch'[t] = <<>>
           /\ got'[t] = got[t] \o Append(batch[t], Head(chan[t]))
    BY <1>1, <1>6 DEF Receive
  <2> QED
    BY <2>1, <2>2
<1>7. CASE Flush(t)
  BY <1>1, <1>7 DEF Flush
<1>8. CASE Leave(t) \/ WebRestarts
  BY <1>1, <1>8 DEF Leave, WebRestarts
<1> HIDE DEF Same
<1>9. Same(t) \/ Publish \/ Receive(t) \/ Flush(t) \/ Leave(t) \/ WebRestarts
  BY <1>2, <1>3, <1>4, WhoServes
<1> QED
  BY <1>5, <1>6, <1>7, <1>8, <1>9 DEF Same

LEMMA NextLines ==
  ASSUME StreamInv, [Next]_vars, NEW t \in Clients
  PROVE  Bounded(t)' /\ InFlight(t)' /\ Accounted(t)'
<1>1. /\ Shape /\ Bounded(t) /\ InFlight(t) /\ Accounted(t)
  BY DEF StreamInv
<1>2. pos \in Nat /\ pos' \in Nat /\ pos <= pos'
  BY PosGrows
<1>3. got[t] \in Seq(Line) /\ batch[t] \in Seq(Line) /\ chan[t] \in Seq(Line)
  BY <1>1 DEF Shape
<1>4. /\ got[t] \in Seq(Nat) /\ batch[t] \in Seq(Nat) /\ chan[t] \in Seq(Nat)
      /\ ToSet(got[t]) \subseteq Nat /\ ToSet(batch[t]) \subseteq Nat /\ ToSet(chan[t]) \subseteq Nat
  BY <1>3, LinesAreNumbers
<1>5. /\ ToSet(<<>>) = {} /\ Rising(<<>>) /\ Len(<<>>) = 0 /\ <<>> \in Seq(Nat)
  BY EmptySeq, LenProperties DEF ToSet, Rising
<1>6. /\ SubCap \in Nat /\ BatchMax \in Nat /\ 0 < BatchMax
      /\ Len(got[t]) \in Nat /\ Len(batch[t]) \in Nat /\ Len(chan[t]) \in Nat
  BY <1>3, StreamAssumption, LenProperties
<1>7. /\ Rising(got[t]) /\ Rising(batch[t]) /\ Rising(chan[t])
      /\ \A x \in ToSet(got[t]), y \in ToSet(batch[t]) : x < y
      /\ \A x \in ToSet(got[t]), y \in ToSet(chan[t]) : x < y
      /\ \A x \in ToSet(batch[t]), y \in ToSet(chan[t]) : x < y
      /\ \A n \in ToSet(got[t]) \cup ToSet(batch[t]) \cup ToSet(chan[t]) : n <= pos
      /\ offered[t] \subseteq ToSet(got[t]) \cup ToSet(batch[t]) \cup ToSet(chan[t]) \cup missed[t]
      /\ Len(chan[t]) <= SubCap /\ Len(batch[t]) < BatchMax
  BY <1>1 DEF Bounded, InFlight, Accounted, Precede
<1>8. /\ \A n \in ToSet(got[t]) \cup ToSet(batch[t]) \cup ToSet(chan[t]) : n <= pos'
      /\ Publish => pos < pos'
  <2>1. ASSUME Publish PROVE pos < pos'
    BY <1>2, <2>1 DEF Publish, Ahead
  <2>2. \A n \in ToSet(got[t]) \cup ToSet(batch[t]) \cup ToSet(chan[t]) : n \in Nat /\ n <= pos
    BY <1>4, <1>7
  <2> QED
    BY <1>2, <2>1, <2>2
<1>9. CASE got'[t] = got[t] /\ batch'[t] = batch[t] /\ chan'[t] = chan[t]
           /\ (\/ offered'[t] = offered[t] /\ missed'[t] = missed[t]
               \/ offered'[t] = offered[t] \cup {pos'} /\ missed'[t] = missed[t] \cup {pos'})
  <2>1. offered'[t] \subseteq
          ToSet(got'[t]) \cup ToSet(batch'[t]) \cup ToSet(chan'[t]) \cup missed'[t]
    BY <1>7, <1>9
  <2> QED
    BY <1>7, <1>8, <1>9, <2>1 DEF Bounded, InFlight, Accounted, Precede
<1>10. CASE Publish /\ ~Full(t)
            /\ got'[t] = got[t] /\ batch'[t] = batch[t] /\ chan'[t] = Append(chan[t], pos')
            /\ offered'[t] = offered[t] \cup {pos'} /\ missed'[t] = missed[t]
  <2>1. ToSet(chan'[t]) = ToSet(chan[t]) \cup {pos'}
    <3>1. chan[t] \in Seq(Nat) /\ pos' \in Nat
      BY <1>2, <1>4
    <3>2. ToSet(Append(chan[t], pos')) = ToSet(chan[t]) \cup {pos'}
      BY <3>1, ElementsOfAppend
    <3> QED
      BY <1>10, <3>2
  <2>2. \A n \in ToSet(got[t]) \cup ToSet(batch[t]) \cup ToSet(chan[t]) : n < pos'
    <3>1. \A n \in ToSet(got[t]) \cup ToSet(batch[t]) \cup ToSet(chan[t]) : n \in Nat /\ n <= pos
      BY <1>4, <1>7
    <3> QED
      BY <1>2, <1>8, <1>10, <3>1
  <2>3. Rising(chan'[t])
    BY <1>2, <1>4, <1>7, <1>10, <2>2, RisingAppend
  <2>4. Len(chan'[t]) = Len(chan[t]) + 1 /\ Len(chan[t]) # SubCap
    BY <1>2, <1>4, <1>10, AppendProperties DEF Full
  <2>5. Bounded(t)'
    BY <1>6, <1>7, <1>10, <2>4 DEF Bounded
  <2>6. InFlight(t)'
    BY <1>2, <1>7, <1>8, <1>10, <2>1, <2>2, <2>3 DEF InFlight, Precede
  <2>7. Accounted(t)'
    BY <1>7, <1>10, <2>1 DEF Accounted
  <2> QED
    BY <2>5, <2>6, <2>7
<1>11. CASE chan[t] # <<>> /\ chan'[t] = Tail(chan[t])
            /\ offered'[t] = offered[t] /\ missed'[t] = missed[t]
            /\ (\/ /\ Len(Append(batch[t], Head(chan[t]))) < BatchMax
                   /\ batch'[t] = Append(batch[t], Head(chan[t])) /\ got'[t] = got[t]
                \/ /\ batch'[t] = <<>>
                   /\ got'[t] = got[t] \o Append(batch[t], Head(chan[t])))
  <2> DEFINE h == Head(chan[t])
  <2> DEFINE b == Append(batch[t], h)
  <2> DEFINE k == Tail(chan[t])
  <2>1. /\ h \in Nat /\ k \in Seq(Nat) /\ Len(k) = Len(chan[t]) - 1
        /\ ToSet(chan[t]) = {h} \cup ToSet(k)
    BY <1>4, <1>11, HeadTailProperties, ElementsOfTail
  <2>2. Rising(k) /\ \A y \in ToSet(k) : h < y
    BY <1>4, <1>7, <1>11, RisingTail
  <2> HIDE DEF h, k
  <2>3. b \in Seq(Nat) /\ ToSet(b) = ToSet(batch[t]) \cup {h}
    <3>1. batch[t] \in Seq(Nat) /\ h \in Nat
      BY <1>4, <2>1
    <3>2. ToSet(b) = ToSet(batch[t]) \cup {h}
      BY <3>1, ElementsOfAppend
    <3>3. b \in Seq(Nat)
      BY <3>1, AppendProperties
    <3> QED
      BY <3>2, <3>3
  <2>4. Rising(b)
    <3>1. \A x \in ToSet(batch[t]) : x < h
      BY <1>7, <2>1
    <3> QED
      BY <1>4, <1>7, <2>1, <3>1, RisingAppend
  <2> HIDE DEF b
  <2>5. /\ \A x \in ToSet(got[t]), y \in ToSet(b) : x < y
        /\ \A x \in ToSet(b), y \in ToSet(k) : x < y
        /\ \A x \in ToSet(got[t]), y \in ToSet(k) : x < y
        /\ \A n \in ToSet(got[t]) \cup ToSet(b) \cup ToSet(k) : n <= pos'
        /\ offered[t] \subseteq ToSet(got[t]) \cup ToSet(b) \cup ToSet(k) \cup missed[t]
    BY <1>7, <1>8, <2>1, <2>2, <2>3
  <2>6. Len(k) <= SubCap
    BY <1>6, <1>7, <2>1
  <2>7. chan'[t] = k
    BY <1>11 DEF k
  <2>8. CASE Len(b) < BatchMax /\ batch'[t] = b /\ got'[t] = got[t]
    BY <1>7, <1>11, <2>2, <2>4, <2>5, <2>6, <2>7, <2>8
       DEF Bounded, InFlight, Accounted, Precede
  <2>9. CASE batch'[t] = <<>> /\ got'[t] = got[t] \o b
    <3>1. ToSet(got'[t]) = ToSet(got[t]) \cup ToSet(b)
      BY <1>4, <2>3, <2>9, ElementsOfConcat
    <3>2. Rising(got'[t])
      BY <1>4, <1>7, <2>3, <2>4, <2>5, <2>9, RisingConcat DEF Precede
    <3>3. ToSet(batch'[t]) = {} /\ Rising(batch'[t]) /\ Len(batch'[t]) = 0
      BY <1>5, <2>9
    <3>4. Bounded(t)'
      BY <1>6, <2>6, <2>7, <3>3 DEF Bounded
    <3>5. InFlight(t)'
      BY <2>2, <2>5, <2>7, <3>1, <3>2, <3>3 DEF InFlight, Precede
    <3>6. Accounted(t)'
      BY <1>11, <2>5, <2>7, <3>1, <3>3 DEF Accounted
    <3> QED
      BY <3>4, <3>5, <3>6
  <2> QED
    BY <1>11, <2>8, <2>9 DEF b, h
<1>12. CASE got'[t] = got[t] \o batch[t] /\ batch'[t] = <<>> /\ chan'[t] = chan[t]
            /\ offered'[t] = offered[t] /\ missed'[t] = missed[t]
  <2>1. ToSet(got'[t]) = ToSet(got[t]) \cup ToSet(batch[t])
    BY <1>4, <1>12, ElementsOfConcat
  <2>2. Rising(got'[t])
    BY <1>4, <1>7, <1>12, RisingConcat DEF Precede
  <2>3. ToSet(batch'[t]) = {} /\ Rising(batch'[t]) /\ Len(batch'[t]) = 0
    BY <1>5, <1>12
  <2>4. Bounded(t)'
    BY <1>6, <1>7, <1>12, <2>3 DEF Bounded
  <2>5. InFlight(t)'
    BY <1>7, <1>8, <1>12, <2>1, <2>2, <2>3 DEF InFlight, Precede
  <2>6. Accounted(t)'
    BY <1>7, <1>12, <2>1, <2>3 DEF Accounted
  <2> QED
    BY <2>4, <2>5, <2>6
<1>13. CASE got'[t] = got[t] /\ batch'[t] = <<>> /\ chan'[t] = <<>>
            /\ offered'[t] = {} /\ missed'[t] = {}
  <2>1. /\ ToSet(batch'[t]) = {} /\ Rising(batch'[t]) /\ Len(batch'[t]) = 0
        /\ ToSet(chan'[t]) = {} /\ Rising(chan'[t]) /\ Len(chan'[t]) = 0
    BY <1>5, <1>13
  <2>2. Bounded(t)'
    BY <1>6, <2>1 DEF Bounded
  <2>3. InFlight(t)'
    BY <1>7, <1>8, <1>13, <2>1 DEF InFlight, Precede
  <2>4. Accounted(t)'
    BY <1>13 DEF Accounted
  <2> QED
    BY <2>2, <2>3, <2>4
<1> QED
  BY <1>1, <1>9, <1>10, <1>11, <1>12, <1>13, HowLinesMove

-----------------------------------------------------------------------------
\* StreamInv holds in every reachable state: the strengthening of the three
\* invariants below.
THEOREM StreamInvariance == Spec => []StreamInv
<1>1. StreamInv /\ [Next]_vars => StreamInv'
  <2> SUFFICES ASSUME StreamInv, [Next]_vars PROVE StreamInv'
    OBVIOUS
  <2>1. Shape'
    BY NextShape
  <2>2. \A t \in Clients : Bounded(t)' /\ InFlight(t)' /\ Accounted(t)'
    BY NextLines
  <2> QED
    BY <2>1, <2>2 DEF StreamInv
<1> QED
  BY InitStreamInv, <1>1, PTL DEF Spec

\* The types of the model, with the bound of a subscriber's channel, which is
\* never exceeded whatever is published, and that of a batch.
THEOREM StreamTypeCorrect == Spec => []TypeOK
<1>1. StreamInv => TypeOK
  BY DEF StreamInv, Shape, Bounded, TypeOK
<1> QED
  BY StreamInvariance, <1>1, PTL

\* Publish, handleEvents, its reconnections, the deaths of tail and of the
\* web service: no client sees a line twice or out of the order of the log.
THEOREM LinesStayInOrder == Spec => []StreamInOrder
<1>1. StreamInv => StreamInOrder
  BY DEF StreamInv, InFlight, Rising, StreamInOrder
<1> QED
  BY StreamInvariance, <1>1, PTL

\* What handleEvents is given it writes to its client: a published line is
\* lost to a subscriber only where its channel was full.
THEOREM OnlyOverflowLoses == Spec => []LossIsOverflow
<1>1. StreamInv => LossIsOverflow
  BY DEF StreamInv, Accounted, LossIsOverflow, Subscribed
<1> QED
  BY StreamInvariance, <1>1, PTL
=============================================================================
