----------------------------- MODULE WebStoreProofs -----------------------------
(***************************************************************************)
(* The password and the player counts over the crashes of the web service, *)
(* for any counts the server may report and any bounds.                    *)
(*                                                                         *)
(* The argument about the password: once a service has listened with one,  *)
(* it is the one in the file, and only a failed read lets a service make   *)
(* another (Passwords).  About the counts: the file only grows, so what    *)
(* was written at a place stays there (Written), and a point or an answer, *)
(* which are made of places, does not change (Answered).                   *)
(*                                                                         *)
(* And the conversation by which the counts are asked for (StatusQuery),   *)
(* for any numbers, and cuts at any byte.  Argument: readVarInt undoes     *)
(* appendVarInt, also where other bytes follow or the last ones are        *)
(* missing (VarIntEncodes, ReadingNumber); so what has not been read is    *)
(* always what has come of the rest of the reply (Reading).                *)
(***************************************************************************)
EXTENDS WebStore, StatusQuery, DataLemmas

FileByte == {"time", "count"} \X Nat \X Int

Taken == [online : 0..GreatestCount, at : Nat, whole : BOOLEAN]

WebShape ==
    /\ service \in {"down", "creating", "writing", "up"}
    /\ credentials \in {Blank} \cup Secret
    /\ password \in {Blank} \cup Secret
    /\ made \in 0..MaxPasswords
    /\ misread \in BOOLEAN
    /\ granted \subseteq Secret

\* The password of a service that has one, and the ones that services have
\* listened with.
Passwords ==
    /\ service # "down" => password \in Secret
    /\ service = "up" => credentials = password
    /\ \/ misread
       \/ granted = {}
       \/ granted = {credentials} /\ credentials \in Secret /\ service \in {"down", "up"}

CountShape ==
    /\ file \in Seq(FileByte)
    /\ kept \in Seq(Taken)
    /\ Len(file) <= RecordSize * Len(kept)
    /\ Len(kept) <= MaxSamples

\* A sample written whole is in the file, byte by byte.
Written ==
    \A n \in DOMAIN kept : kept[n].whole =>
        /\ kept[n].at + RecordSize <= Len(file)
        /\ \A i \in 1..RecordSize : file[kept[n].at + i] = Record(n, kept[n].online)[i]

\* The last answer, point by point.
Answered ==
    /\ answer.points \in Seq(Seq(FileByte)) /\ answer.total \in 0..Total /\ answer.window \in Nat
    /\ Len(answer.points) =
           IF answer.total < answer.window THEN answer.total ELSE answer.window
    /\ \A i \in 1..Len(answer.points) :
           answer.points[i] = RecordAt(answer.total - Len(answer.points) + i - 1)

WebInv == WebShape /\ Passwords /\ CountShape /\ Written /\ Answered

-----------------------------------------------------------------------------
(* The bytes of the file.                                                  *)

LEMMA RecordBytes ==
  ASSUME NEW n \in Nat, NEW count \in Int
  PROVE  /\ Record(n, count) \in Seq(FileByte) /\ Len(Record(n, count)) = RecordSize
         /\ \A k \in 0..RecordSize :
                /\ SubSeq(Record(n, count), 1, k) \in Seq(FileByte)
                /\ Len(SubSeq(Record(n, count), 1, k)) = k
                /\ \A i \in 1..k : SubSeq(Record(n, count), 1, k)[i] = Record(n, count)[i]
<1> DEFINE r == Record(n, count)
<1>1. /\ <<"time", n, 1>> \in FileByte /\ <<"time", n, 2>> \in FileByte /\ <<"count", n, count>> \in FileByte
  BY DEF FileByte
<1>2. r \in Seq(FileByte) /\ Len(r) = RecordSize
  BY <1>1 DEF Record, RecordSize
<1>3. \A i \in 1..RecordSize : r[i] \in FileByte
  BY <1>2, ElementOfSeq
<1> HIDE DEF r
<1>4. ASSUME NEW k \in 0..RecordSize
      PROVE  /\ SubSeq(r, 1, k) \in Seq(FileByte)
             /\ Len(SubSeq(r, 1, k)) = k
             /\ \A i \in 1..k : SubSeq(r, 1, k)[i] = r[i]
  <2>1. k \in Int /\ 1 \in Int /\ \A i \in 1..k : r[i] \in FileByte
    BY <1>3 DEF RecordSize
  <2>2. /\ SubSeq(r, 1, k) \in Seq(FileByte)
        /\ Len(SubSeq(r, 1, k)) = IF 1 <= k THEN k - 1 + 1 ELSE 0
        /\ \A i \in 1..(k - 1 + 1) : SubSeq(r, 1, k)[i] = r[1 + i - 1]
    BY <2>1, SubSeqProperties
  <2>3. \A i \in 1..k : i \in 1..(k - 1 + 1) /\ 1 + i - 1 = i
    BY <2>1
  <2> QED
    BY <2>1, <2>2, <2>3 DEF RecordSize
<1> QED
  BY <1>2, <1>4 DEF r

\* Whole records in a file of l bytes.
LEMMA WholeRecords ==
  ASSUME NEW l \in Nat
  PROVE  /\ (l - (l % RecordSize)) \div RecordSize \in Nat
         /\ RecordSize * ((l - (l % RecordSize)) \div RecordSize) <= l
         /\ l < RecordSize * ((l - (l % RecordSize)) \div RecordSize) + RecordSize
  BY DEF RecordSize

\* The record number k of the bytes q.
LEMMA ReadingRecord ==
  ASSUME NEW q \in Seq(FileByte), NEW k \in Nat, (k + 1) * RecordSize <= Len(q)
  PROVE  /\ SubSeq(q, k * RecordSize + 1, (k + 1) * RecordSize) \in Seq(FileByte)
         /\ Len(SubSeq(q, k * RecordSize + 1, (k + 1) * RecordSize)) = RecordSize
         /\ \A i \in 1..RecordSize :
                SubSeq(q, k * RecordSize + 1, (k + 1) * RecordSize)[i] = q[k * RecordSize + i]
<1> DEFINE m == k * RecordSize + 1
<1> DEFINE n == (k + 1) * RecordSize
<1>1. /\ m \in Int /\ n \in Int /\ m <= n /\ n - m + 1 = RecordSize
      /\ \A i \in m..n : i \in 1..Len(q)
      /\ \A i \in 1..RecordSize : i \in 1..(n - m + 1) /\ m + i - 1 = k * RecordSize + i
  BY LenProperties DEF RecordSize
<1>2. \A i \in m..n : q[i] \in FileByte
  BY <1>1, ElementOfSeq
<1> HIDE DEF m, n
<1>3. /\ SubSeq(q, m, n) \in Seq(FileByte)
      /\ Len(SubSeq(q, m, n)) = IF m <= n THEN n - m + 1 ELSE 0
      /\ \A i \in 1..(n - m + 1) : SubSeq(q, m, n)[i] = q[m + i - 1]
  BY <1>1, <1>2, SubSeqProperties
<1>4. \A i \in 1..RecordSize : SubSeq(q, m, n)[i] = q[k * RecordSize + i]
  BY <1>1, <1>3
<1>5. Len(SubSeq(q, m, n)) = RecordSize
  BY <1>1, <1>3
<1> QED
  BY <1>3, <1>4, <1>5 DEF m, n

\* The file grows at its end.
LEMMA Growing ==
  ASSUME file \in Seq(FileByte), NEW x \in Seq(FileByte), file' = file \o x
  PROVE  /\ file' \in Seq(FileByte) /\ Len(file') = Len(file) + Len(x)
         /\ \A i \in 1..Len(file) : file'[i] = file[i]
         /\ \A i \in 1..Len(x) : file'[Len(file) + i] = x[i]
         /\ Total \in Nat /\ Total' \in Nat /\ Total <= Total'
         /\ \A k \in 0..(Total - 1) : RecordAt(k)' = RecordAt(k)
<1>1. /\ file' \in Seq(FileByte) /\ Len(file') = Len(file) + Len(x)
      /\ Len(file) \in Nat /\ Len(x) \in Nat
      /\ \A i \in 1..(Len(file) + Len(x)) :
             file'[i] = IF i <= Len(file) THEN file[i] ELSE x[i - Len(file)]
  BY ConcatProperties, LenProperties
<1> DEFINE l == Len(file)
<1> DEFINE e == Len(x)
<1>2. \A i \in 1..l : i \in 1..(l + e) /\ i <= l
  BY <1>1
<1>3. \A i \in 1..l : file'[i] = file[i]
  BY <1>1, <1>2
<1>4. \A i \in 1..e : l + i \in 1..(l + e) /\ ~(l + i <= l) /\ (l + i) - l = i
  BY <1>1
<1>5. \A i \in 1..e : file'[l + i] = x[i]
  BY <1>1, <1>4
<1>6. /\ Total \in Nat /\ RecordSize * Total <= l /\ l < RecordSize * Total + RecordSize
      /\ Total' \in Nat /\ RecordSize * Total' <= Len(file')
      /\ Len(file') < RecordSize * Total' + RecordSize
  BY <1>1, WholeRecords DEF Total
<1>7. Total <= Total'
  BY <1>1, <1>6 DEF RecordSize
<1>8. ASSUME NEW k \in 0..(Total - 1) PROVE RecordAt(k)' = RecordAt(k)
  <2>1. k \in Nat /\ (k + 1) * RecordSize <= l /\ (k + 1) * RecordSize <= Len(file')
    BY <1>1, <1>6, <1>8 DEF RecordSize
  <2>2. /\ RecordAt(k) \in Seq(FileByte) /\ Len(RecordAt(k)) = RecordSize
        /\ \A i \in 1..RecordSize : RecordAt(k)[i] = file[k * RecordSize + i]
    BY <2>1, ReadingRecord DEF RecordAt
  <2>3. /\ RecordAt(k)' \in Seq(FileByte) /\ Len(RecordAt(k)') = RecordSize
        /\ \A i \in 1..RecordSize : RecordAt(k)'[i] = file'[k * RecordSize + i]
    BY <1>1, <2>1, ReadingRecord DEF RecordAt
  <2>4. \A i \in 1..RecordSize : k * RecordSize + i \in 1..l
    BY <1>1, <2>1 DEF RecordSize
  <2>5. \A i \in 1..RecordSize : RecordAt(k)'[i] = RecordAt(k)[i]
    BY <1>3, <2>2, <2>3, <2>4
  <2> QED
    BY <2>2, <2>3, <2>5, SeqEqual
<1> QED
  BY <1>1, <1>3, <1>5, <1>6, <1>7, <1>8

-----------------------------------------------------------------------------
LEMMA InitWebInv == WebInit => WebInv
<1> SUFFICES ASSUME WebInit PROVE WebInv
  OBVIOUS
<1>1. /\ <<>> \in Seq(FileByte) /\ <<>> \in Seq(Taken) /\ <<>> \in Seq(Seq(FileByte)) /\ Len(<<>>) = 0
      /\ DOMAIN <<>> = {}
  BY EmptySeq
<1>2. WebShape
  <2>1. misread \in BOOLEAN
    BY Zenon DEF WebInit
  <2> QED
    BY <2>1, WebAssumption DEF WebInit, WebShape
<1>3. Passwords
  BY DEF WebInit, Passwords
<1>4. CountShape
  BY <1>1, WebAssumption DEF WebInit, CountShape, RecordSize
<1>5. Written
  BY <1>1 DEF WebInit, Written
<1>6. Answered
  <2>1. Total = 0
    BY <1>1 DEF WebInit, Total, RecordSize
  <2>2. answer.points = <<>> /\ answer.total = 0 /\ answer.window = WindowMax
    BY DEF WebInit
  <2> QED
    BY <1>1, <2>1, <2>2, WebAssumption DEF Answered
<1> QED
  BY <1>2, <1>3, <1>4, <1>5, <1>6 DEF WebInv

LEMMA NextWebShape ==
  ASSUME WebShape, Passwords, [WebNext]_webVars
  PROVE  WebShape'
<1> USE DEF secrets, counts
<1>0. /\ service \in {"down", "creating", "writing", "up"}
      /\ credentials \in {Blank} \cup Secret /\ password \in {Blank} \cup Secret
      /\ made \in 0..MaxPasswords /\ granted \subseteq Secret
      /\ MaxPasswords \in Nat
  BY WebAssumption DEF WebShape
<1>1. misread' \in BOOLEAN
  <2>1. misread \in BOOLEAN
    BY DEF WebShape
  <2>2. CASE Make
    BY <2>1, <2>2, Zenon DEF Make
  <2>3. CASE UNCHANGED misread
    BY <2>1, <2>3, Zenon
  <2>4. Make \/ UNCHANGED misread
    <3>1. CASE Load \/ Empty \/ Write \/ WriteError \/ WebDies \/ UNCHANGED webVars
      BY <3>1 DEF webVars, Load, Empty, Write, WriteError, WebDies
    <3>2. ASSUME NEW online \in Reported, NEW n \in 0..RecordSize,
                 Sample(online, n) \/ DiesInSample(online, n)
          PROVE  UNCHANGED misread
      BY <3>2 DEF Sample, DiesInSample
    <3>3. ASSUME NEW window \in Windows, Query(window) PROVE UNCHANGED misread
      BY <3>3 DEF Query
    <3> QED
      BY <3>1, <3>2, <3>3 DEF WebNext
  <2> QED
    BY <2>2, <2>3, <2>4
<1>2. CASE Load
  BY <1>0, <1>1, <1>2 DEF Load, Listen, WebShape
<1>3. CASE Make
  <2>1. made + 1 \in 1..MaxPasswords
    BY <1>0, <1>3 DEF Make
  <2>2. TRUE \in BOOLEAN
    OBVIOUS
  <2>3. [number |-> made + 1, whole |-> TRUE] \in Secret
    BY <2>1, <2>2 DEF Secret
  <2>4. /\ made' = made + 1 /\ service' = "creating"
        /\ password' = [number |-> made + 1, whole |-> TRUE]
        /\ UNCHANGED <<credentials, granted>>
    BY <1>3 DEF Make
  <2> QED
    BY <1>0, <1>1, <2>1, <2>3, <2>4 DEF WebShape
<1>4. CASE Empty
  BY <1>0, <1>1, <1>4 DEF Empty, WebShape
<1>5. CASE Write
  <2>1. password \in Secret
    BY <1>5 DEF Write, Passwords
  <2> QED
    BY <1>0, <1>1, <1>5, <2>1 DEF Write, Listen, WebShape
<1>6. CASE WriteError
  <2>1. password \in Secret
    BY <1>6 DEF WriteError, Passwords
  <2>2. [password EXCEPT !.whole = FALSE] \in Secret
    <3>1. FALSE \in BOOLEAN
      OBVIOUS
    <3> QED
      BY <2>1, <3>1 DEF Secret
  <2>3. credentials' \in {Blank} \cup Secret
    BY <1>0, <1>6, <2>2 DEF WriteError, CutShort
  <2>4. service' = "down" /\ password' = Blank /\ UNCHANGED <<made, granted>>
    BY <1>6 DEF WriteError
  <2> QED
    BY <1>0, <1>1, <2>3, <2>4 DEF WebShape
<1>7. CASE WebDies
  BY <1>0, <1>1, <1>7 DEF WebDies, WebShape
<1>8. ASSUME NEW online \in Reported, NEW n \in 0..RecordSize, DiesInSample(online, n)
      PROVE  WebShape'
  BY <1>0, <1>1, <1>8 DEF DiesInSample, WebShape
<1>9. ASSUME UNCHANGED <<service, secrets>> PROVE WebShape'
  BY <1>0, <1>1, <1>9 DEF WebShape
<1>10. ASSUME NEW online \in Reported, NEW n \in 0..RecordSize, Sample(online, n)
       PROVE  UNCHANGED <<service, secrets>>
  BY <1>10 DEF Sample
<1>11. ASSUME NEW window \in Windows, Query(window)
       PROVE  UNCHANGED <<service, secrets>>
  BY <1>11 DEF Query
<1>12. CASE UNCHANGED webVars
  BY <1>9, <1>12 DEF webVars
<1> QED
  BY <1>2, <1>3, <1>4, <1>5, <1>6, <1>7, <1>8, <1>9, <1>10, <1>11, <1>12 DEF WebNext

LEMMA NextPasswords ==
  ASSUME WebShape, Passwords, [WebNext]_webVars
  PROVE  Passwords'
<1> USE DEF secrets, counts
<1>0. /\ granted \subseteq Secret /\ service \in {"down", "creating", "writing", "up"}
      /\ Blank \notin Secret /\ MaxPasswords \in Nat /\ made \in 0..MaxPasswords
  BY WebAssumption DEF WebShape, Blank, Secret
<1>1. CASE Load
  BY <1>0, <1>1 DEF Load, Listen, Passwords
<1>2. CASE Make
  <2>1. [number |-> made + 1, whole |-> TRUE] \in Secret
    <3>1. made + 1 \in 1..MaxPasswords /\ TRUE \in BOOLEAN
      BY <1>0, <1>2 DEF Make
    <3> QED
      BY <3>1 DEF Secret
  <2>2. misread' \/ granted = {}
    BY <1>2 DEF Make, Passwords
  <2> QED
    BY <1>2, <2>1, <2>2 DEF Make, Passwords
<1>3. CASE Empty
  BY <1>0, <1>3 DEF Empty, Passwords
<1>4. CASE Write
  BY <1>0, <1>4 DEF Write, Listen, Passwords
<1>5. CASE WriteError \/ WebDies
  BY <1>0, <1>5 DEF WriteError, WebDies, Passwords
<1>6. ASSUME NEW online \in Reported, NEW n \in 0..RecordSize, DiesInSample(online, n)
      PROVE  Passwords'
  BY <1>0, <1>6 DEF DiesInSample, Passwords
<1>7. ASSUME UNCHANGED <<service, secrets>> PROVE Passwords'
  BY <1>7 DEF Passwords
<1>8. ASSUME NEW online \in Reported, NEW n \in 0..RecordSize, Sample(online, n)
      PROVE  UNCHANGED <<service, secrets>>
  BY <1>8 DEF Sample
<1>9. ASSUME NEW window \in Windows, Query(window)
      PROVE  UNCHANGED <<service, secrets>>
  BY <1>9 DEF Query
<1>10. CASE UNCHANGED webVars
  BY <1>7, <1>10 DEF webVars
<1> QED
  BY <1>1, <1>2, <1>3, <1>4, <1>5, <1>6, <1>7, <1>8, <1>9, <1>10 DEF WebNext

-----------------------------------------------------------------------------
\* n bytes of the record of a sample come to the end of the file.
Taking(online, n, whole) ==
    /\ Len(kept) < MaxSamples /\ (whole => n = RecordSize)
    /\ file' = file \o SubSeq(Record(Len(kept) + 1, online), 1, n)
    /\ kept' = Append(kept, [online |-> online, at |-> Len(file), whole |-> whole])
    /\ answer' = answer

\* What a step may do with the counts.
LEMMA HowCountsMove ==
  ASSUME [WebNext]_webVars
  PROVE  \/ UNCHANGED <<file, answer, kept>>
         \/ \E online \in 0..GreatestCount, n \in 0..RecordSize, whole \in BOOLEAN :
                Taking(online, n, whole)
         \/ \E window \in Windows : Query(window)
<1>1. ASSUME Load \/ Make \/ Empty \/ Write \/ WriteError \/ WebDies \/ UNCHANGED webVars
      PROVE  UNCHANGED <<file, answer, kept>>
  BY <1>1, SMT DEF counts, webVars, Load, Make, Empty, Write, WriteError, WebDies
<1>2. ASSUME NEW online \in Reported, Fits(online)
      PROVE  online \in 0..GreatestCount /\ TwoBytes(online) = online
  <2>1. GreatestCount \in Nat
    BY SMT DEF GreatestCount
  <2>2. online \in Int /\ online >= 0 /\ online <= GreatestCount
    BY <1>2, WebAssumption DEF Fits
  <2>3. online % (GreatestCount + 1) = online
    BY <2>1, <2>2, SMT
  <2> QED
    BY <2>1, <2>2, <2>3, SMT DEF TwoBytes
<1>3. ASSUME NEW online \in Reported, NEW n \in 0..RecordSize, Sample(online, n)
      PROVE  online \in 0..GreatestCount /\ \E whole \in BOOLEAN : Taking(online, n, whole)
  <2>1. online \in 0..GreatestCount /\ TwoBytes(online) = online
    BY <1>2, <1>3, Zenon DEF Sample
  <2>2. (n = RecordSize) \in BOOLEAN
    OBVIOUS
  <2>3. Taking(online, n, n = RecordSize)
    BY <1>3, <2>1, Zenon DEF Sample, Appended, Taking
  <2> QED
    BY <2>1, <2>2, <2>3, Zenon
<1>4. ASSUME NEW online \in Reported, NEW n \in 0..RecordSize, DiesInSample(online, n)
      PROVE  online \in 0..GreatestCount /\ \E whole \in BOOLEAN : Taking(online, n, whole)
  <2>1. online \in 0..GreatestCount /\ TwoBytes(online) = online
    BY <1>2, <1>4, Zenon DEF DiesInSample
  <2>2. Taking(online, n, FALSE)
    BY <1>4, <2>1, Zenon DEF DiesInSample, Appended, Taking
  <2> QED
    BY <2>1, <2>2, Zenon
<1>5. \/ Load \/ Make \/ Empty \/ Write \/ WriteError \/ WebDies \/ UNCHANGED webVars
      \/ \E online \in Reported, n \in 0..RecordSize :
             Sample(online, n) \/ DiesInSample(online, n)
      \/ \E window \in Windows : Query(window)
  BY Zenon DEF WebNext
<1>6. CASE Load \/ Make \/ Empty \/ Write \/ WriteError \/ WebDies \/ UNCHANGED webVars
  BY <1>1, <1>6, Zenon
<1>7. CASE \E online \in Reported, n \in 0..RecordSize :
               Sample(online, n) \/ DiesInSample(online, n)
  <2>1. PICK online \in Reported, n \in 0..RecordSize :
                Sample(online, n) \/ DiesInSample(online, n)
    BY <1>7, Zenon
  <2>2. online \in 0..GreatestCount /\ \E whole \in BOOLEAN : Taking(online, n, whole)
    BY <1>3, <1>4, <2>1, Zenon
  <2> QED
    BY <2>2, Zenon
<1> QED
  BY <1>5, <1>6, <1>7, Zenon

LEMMA NextCounts ==
  ASSUME CountShape, Written, Answered, [WebNext]_webVars
  PROVE  CountShape' /\ Written' /\ Answered'
<1>0. /\ file \in Seq(FileByte) /\ kept \in Seq(Taken)
      /\ Len(file) \in Nat /\ Len(kept) \in Nat /\ MaxSamples \in Nat
      /\ Len(file) <= RecordSize * Len(kept) /\ Len(kept) <= MaxSamples
  BY LenProperties, WebAssumption DEF CountShape
<1>1. CASE UNCHANGED <<file, answer, kept>>
  BY <1>1 DEF CountShape, Written, Answered, Total, RecordAt
<1>2. ASSUME NEW online \in 0..GreatestCount, NEW n \in 0..RecordSize, NEW whole \in BOOLEAN,
             Taking(online, n, whole)
      PROVE  CountShape' /\ Written' /\ Answered'
  <2>0. /\ Len(kept) < MaxSamples /\ (whole => n = RecordSize) /\ answer' = answer
        /\ file' = file \o SubSeq(Record(Len(kept) + 1, online), 1, n)
        /\ kept' = Append(kept, [online |-> online, at |-> Len(file), whole |-> whole])
    BY <1>2, Zenon DEF Taking
  <2> DEFINE record == Record(Len(kept) + 1, online)
  <2> DEFINE x == SubSeq(record, 1, n)
  <2> DEFINE new == [online |-> online, at |-> Len(file), whole |-> whole]
  <2>1. /\ x \in Seq(FileByte) /\ Len(x) = n
        /\ \A i \in 1..n : x[i] = record[i]
    <3>1. Len(kept) + 1 \in Nat /\ online \in Int
      BY <1>0
    <3> QED
      BY <3>1, RecordBytes
  <2>2. new \in Taken
    BY <1>0 DEF Taken
  <2>3. /\ new.online = online /\ new.at = Len(file) /\ new.whole = whole
    OBVIOUS
  <2>4. file' = file \o x /\ kept' = Append(kept, new)
    BY <2>0
  <2> HIDE DEF record, x, new
  <2>5. /\ file' \in Seq(FileByte) /\ Len(file') = Len(file) + Len(x)
        /\ \A i \in 1..Len(file) : file'[i] = file[i]
        /\ \A i \in 1..Len(x) : file'[Len(file) + i] = x[i]
        /\ Total \in Nat /\ Total' \in Nat /\ Total <= Total'
        /\ \A k \in 0..(Total - 1) : RecordAt(k)' = RecordAt(k)
    BY <1>0, <2>1, <2>4, Growing
  <2>6. /\ kept' \in Seq(Taken) /\ Len(kept') = Len(kept) + 1
        /\ \A m \in 1..Len(kept) : kept'[m] = kept[m]
        /\ kept'[Len(kept) + 1] = new
    BY <1>0, <2>2, <2>4, AppendProperties
  <2>7. CountShape'
    <3>1. Len(file') <= RecordSize * Len(kept')
      BY <1>0, <2>1, <2>5, <2>6 DEF RecordSize
    <3>2. Len(kept') <= MaxSamples
      BY <1>0, <2>0, <2>6
    <3> QED
      BY <2>5, <2>6, <3>1, <3>2 DEF CountShape
  <2>8. Written'
    <3> SUFFICES ASSUME NEW m \in DOMAIN kept', kept'[m].whole
                 PROVE  /\ kept'[m].at + RecordSize <= Len(file')
                        /\ \A i \in 1..RecordSize :
                               file'[kept'[m].at + i] = Record(m, kept'[m].online)[i]
      BY DEF Written
    <3>1. m \in 1..Len(kept) \/ m = Len(kept) + 1
      BY <1>0, <2>6, LenProperties
    <3>2. CASE m \in 1..Len(kept)
      <4>1. kept'[m] = kept[m] /\ kept[m] \in Taken /\ m \in DOMAIN kept
        BY <1>0, <2>6, <3>2, LenProperties, ElementOfSeq
      <4>2. /\ kept[m].at \in Nat /\ kept[m].at + RecordSize <= Len(file)
            /\ \A i \in 1..RecordSize : file[kept[m].at + i] = Record(m, kept[m].online)[i]
        BY <4>1 DEF Written, Taken
      <4>3. \A i \in 1..RecordSize : kept[m].at + i \in 1..Len(file)
        <5> DEFINE at == kept[m].at
        <5>1. at \in Nat /\ at + RecordSize <= Len(file) /\ Len(file) \in Nat
          BY <1>0, <4>2
        <5> HIDE DEF at
        <5>2. \A i \in 1..RecordSize : at + i \in 1..Len(file)
          BY <5>1 DEF RecordSize
        <5> QED
          BY <5>2 DEF at
      <4>4. kept[m].at + RecordSize <= Len(file')
        BY <1>0, <2>1, <2>5, <4>2 DEF RecordSize
      <4> QED
        BY <2>5, <4>1, <4>2, <4>3, <4>4
    <3>3. CASE m = Len(kept) + 1
      <4>1. kept'[m] = new /\ n = RecordSize
        BY <2>0, <2>3, <2>6, <3>3
      <4>2. \A i \in 1..RecordSize : file'[Len(file) + i] = record[i]
        BY <2>1, <2>5, <4>1
      <4>3. record = Record(m, online)
        BY <3>3 DEF record
      <4>4. Len(file) + RecordSize <= Len(file')
        BY <1>0, <2>1, <2>5, <4>1 DEF RecordSize
      <4> QED
        BY <2>3, <4>1, <4>2, <4>3, <4>4
    <3> QED
      BY <3>1, <3>2, <3>3
  <2>9. Answered'
    <3> DEFINE l == Len(answer.points)
    <3>1. /\ l \in Nat /\ answer.total \in Nat /\ answer.total <= Total /\ answer.window \in Nat
          /\ l <= answer.total
      BY <2>5, LenProperties DEF Answered
    <3>2. \A i \in 1..l : answer.total - l + i - 1 \in 0..(Total - 1)
      BY <2>5, <3>1
    <3>3. \A i \in 1..l : answer.points[i] = RecordAt(answer.total - l + i - 1)'
      <4> SUFFICES ASSUME NEW i \in 1..l
                   PROVE  answer.points[i] = RecordAt(answer.total - l + i - 1)'
        OBVIOUS
      <4>1. PICK k \in 0..(Total - 1) : k = answer.total - l + i - 1
        BY <3>2
      <4>2. answer.points[i] = RecordAt(k)
        BY <4>1 DEF Answered
      <4>3. RecordAt(k)' = RecordAt(k)
        BY <2>5
      <4> QED
        BY <2>0, <4>1, <4>2, <4>3 DEF RecordAt
    <3>4. answer.total \in 0..Total'
      BY <2>5, <3>1
    <3> QED
      BY <2>0, <3>3, <3>4 DEF Answered
  <2> QED
    BY <2>7, <2>8, <2>9
<1>3. ASSUME NEW window \in Windows, Query(window)
      PROVE  CountShape' /\ Written' /\ Answered'
  <2> DEFINE max == IF window \in 1..WindowMax THEN window ELSE WindowMax
  <2> DEFINE count == IF Total > max THEN max ELSE Total
  <2>1. max \in Nat
    BY WebAssumption
  <2>2. UNCHANGED <<file, kept>>
    BY <1>3 DEF Query
  <2>3. /\ Total \in Nat /\ RecordSize * Total <= Len(file)
        /\ Total' = Total /\ \A k \in Nat : RecordAt(k)' = RecordAt(k)
    BY <1>0, <2>2, WholeRecords DEF Total, RecordAt
  <2> HIDE DEF max
  <2>4. count \in Nat /\ WindowStart(max) = Total - count
    BY <2>1, <2>3 DEF WindowStart
  <2> HIDE DEF count
  <2>5. answer' = [points |-> [i \in 1..count |-> RecordAt(Total - count + i - 1)],
                   total |-> Total, window |-> max]
    BY <1>3, <2>4 DEF Query, max, count
  <2>6. \A i \in 1..count : Total - count + i - 1 \in 0..(Total - 1)
    BY <2>1, <2>3, <2>4 DEF count
  <2>7. \A i \in 1..count : RecordAt(Total - count + i - 1) \in Seq(FileByte)
    <3>1. ASSUME NEW k \in 0..(Total - 1) PROVE RecordAt(k) \in Seq(FileByte)
      <4>1. k \in Nat /\ (k + 1) * RecordSize <= Len(file)
        BY <1>0, <2>3 DEF RecordSize
      <4> QED
        BY <1>0, <4>1, ReadingRecord DEF RecordAt
    <3> QED
      BY <2>6, <3>1
  <2>8. /\ answer'.points = [i \in 1..count |-> RecordAt(Total - count + i - 1)]
        /\ answer'.total = Total /\ answer'.window = max
    BY <2>5
  <2>9. /\ answer'.points \in Seq(Seq(FileByte)) /\ Len(answer'.points) = count
        /\ \A i \in 1..count : answer'.points[i] = RecordAt(Total - count + i - 1)
    <3>1. answer'.points \in [1..count -> Seq(FileByte)]
      BY <2>7, <2>8
    <3> QED
      BY <2>4, <2>8, <3>1, SeqDef, LenProperties
  <2>10. CountShape' /\ Written'
    BY <2>2 DEF CountShape, Written
  <2>11. Answered'
    <3>1. answer'.total \in 0..Total' /\ answer'.window \in Nat
      BY <2>1, <2>3, <2>8
    <3>2. Len(answer'.points) =
              IF answer'.total < answer'.window THEN answer'.total ELSE answer'.window
      <4>1. count = IF Total < max THEN Total ELSE max
        BY <2>1, <2>3 DEF count
      <4> QED
        BY <2>8, <2>9, <4>1
    <3>3. \A i \in 1..count :
              answer'.points[i] = RecordAt(answer.total - Len(answer.points) + i - 1)'
      <4>1. file' = file /\ answer'.total = Total /\ Len(answer'.points) = count
        BY <2>2, <2>8, <2>9
      <4> QED
        BY <2>9, <4>1 DEF RecordAt
    <3> QED
      BY <2>9, <3>1, <3>2, <3>3 DEF Answered
  <2> QED
    BY <2>10, <2>11
<1> QED
  BY <1>1, <1>2, <1>3, HowCountsMove, Zenon

-----------------------------------------------------------------------------
\* The argument as a whole.
THEOREM WebInvariance == WebSpec => []WebInv
<1>1. WebInv /\ [WebNext]_webVars => WebInv'
  BY NextWebShape, NextPasswords, NextCounts, Zenon DEF WebInv
<1> QED
  BY InitWebInv, <1>1, PTL DEF WebSpec

\* Every variable of the web service keeps to its values.
THEOREM WebTypeCorrect == WebSpec => []WebTypeOK
<1>1. WebInv => WebTypeOK
  <2> SUFFICES ASSUME WebInv PROVE WebTypeOK
    OBVIOUS
  <2>1. Len(kept) <= MaxSamples /\ Len(file) <= RecordSize * MaxSamples
    BY LenProperties, WebAssumption DEF WebInv, CountShape, RecordSize
  <2>2. WebShape
    BY DEF WebInv
  <2> QED
    BY <2>1, <2>2, Zenon DEF WebShape, WebTypeOK
<1> QED
  BY <1>1, WebInvariance, PTL

\* The password a service asks for is in the file, and is the only one there
\* has ever been unless a read of the file has failed.
THEOREM PasswordIsKept == WebSpec => []PasswordStays
<1>1. WebInv => PasswordStays
  <2> SUFFICES ASSUME WebInv PROVE PasswordStays
    OBVIOUS
  <2>1. service = "up" => credentials = password
    BY DEF WebInv, Passwords
  <2>2. CASE granted = {}
    BY <2>1, <2>2, FS_EmptySet DEF PasswordStays
  <2>3. CASE granted = {credentials}
    <3>1. Cardinality(granted) = 1
      BY <2>3, FS_Singleton, Zenon
    <3> QED
      BY <2>1, <3>1 DEF PasswordStays
  <2>4. CASE misread
    BY <2>1, <2>4, Zenon DEF PasswordStays
  <2> QED
    BY <2>2, <2>3, <2>4, Zenon DEF WebInv, Passwords
<1> QED
  BY <1>1, WebInvariance, PTL

\* The history is a sequence of records, each at its place in the file.
PointsShape ==
    /\ Total \in Nat /\ RecordSize * Total <= Len(file)
    /\ Len(file) < RecordSize * Total + RecordSize
    /\ Points \in Seq(Seq(FileByte)) /\ Len(Points) = Total
    /\ \A i \in 1..Total : Points[i] = RecordAt(i - 1)

LEMMA PointsAreRecords == CountShape => PointsShape
<1> SUFFICES ASSUME CountShape PROVE PointsShape
  OBVIOUS
<1>1. file \in Seq(FileByte) /\ Len(file) \in Nat
  BY LenProperties DEF CountShape
<1>2. /\ Total \in Nat /\ RecordSize * Total <= Len(file)
      /\ Len(file) < RecordSize * Total + RecordSize
  BY <1>1, WholeRecords DEF Total
<1>3. ASSUME NEW i \in 1..Total PROVE RecordAt(i - 1) \in Seq(FileByte)
  <2>1. i - 1 \in Nat /\ (i - 1 + 1) * RecordSize <= Len(file)
    BY <1>1, <1>2 DEF RecordSize
  <2> QED
    BY <1>1, <2>1, ReadingRecord DEF RecordAt
<1>4. Points \in [1..Total -> Seq(FileByte)]
  BY <1>3 DEF Points
<1>5. Points \in Seq(Seq(FileByte)) /\ Len(Points) = Total
  BY <1>2, <1>4, SeqDef, LenProperties
<1> QED
  BY <1>2, <1>5 DEF Points, PointsShape

\* A sample written whole on the boundary of a record is read as it was
\* reported, whatever was lost before it and after it.
THEOREM SamplesAreRead == WebSpec => []AlignedAreRead
<1>1. WebInv => AlignedAreRead
  <2> SUFFICES ASSUME WebInv, NEW n \in DOMAIN kept,
                      kept[n].whole, kept[n].at % RecordSize = 0
               PROVE  Points[(kept[n].at \div RecordSize) + 1] = Record(n, kept[n].online)
    BY DEF AlignedAreRead
  <2> DEFINE at == kept[n].at
  <2> DEFINE k == at \div RecordSize
  <2> DEFINE r == Record(n, kept[n].online)
  <2>1. n \in Nat /\ kept[n].online \in Int /\ at \in Nat
    <3>1. n \in 1..Len(kept) /\ kept[n] \in Taken /\ Len(kept) \in Nat
      BY LenProperties, ElementOfSeq DEF WebInv, CountShape
    <3>2. GreatestCount \in Nat
      BY DEF GreatestCount
    <3>3. kept[n].online \in 0..GreatestCount /\ at \in Nat
      BY <3>1 DEF Taken
    <3> QED
      BY <3>1, <3>2, <3>3
  <2>2. r \in Seq(FileByte) /\ Len(r) = RecordSize
    BY <2>1, RecordBytes
  <2>3. at + RecordSize <= Len(file) /\ \A i \in 1..RecordSize : file[at + i] = r[i]
    BY DEF WebInv, Written
  <2>4. at % RecordSize = 0
    OBVIOUS
  <2> HIDE DEF at, r
  <2>5. /\ Total \in Nat /\ Len(file) < RecordSize * Total + RecordSize
        /\ \A i \in 1..Total : Points[i] = RecordAt(i - 1)
    BY PointsAreRecords DEF WebInv, PointsShape
  <2>6. file \in Seq(FileByte) /\ Len(file) \in Nat
    BY LenProperties DEF WebInv, CountShape
  <2>7. k \in Nat /\ k * RecordSize = at
    BY <2>1, <2>4 DEF RecordSize
  <2> HIDE DEF k
  <2>8. (k + 1) * RecordSize <= Len(file) /\ k + 1 \in 1..Total /\ k + 1 - 1 = k
    BY <2>1, <2>3, <2>5, <2>6, <2>7 DEF RecordSize
  <2>9. /\ RecordAt(k) \in Seq(FileByte) /\ Len(RecordAt(k)) = RecordSize
        /\ \A i \in 1..RecordSize : RecordAt(k)[i] = file[k * RecordSize + i]
    BY <2>6, <2>7, <2>8, ReadingRecord DEF RecordAt
  <2>10. RecordAt(k) = r
    <3>1. \A i \in 1..RecordSize : RecordAt(k)[i] = file[at + i]
      BY <2>7, <2>9, Zenon
    <3>2. \A i \in 1..RecordSize : RecordAt(k)[i] = r[i]
      BY <2>3, <3>1, Zenon
    <3>3. Len(RecordAt(k)) = Len(r) /\ \A i \in 1..Len(RecordAt(k)) : RecordAt(k)[i] = r[i]
      BY <2>2, <2>9, <3>2, Zenon
    <3> QED
      BY <2>2, <2>9, <3>3, SeqEqual, Zenon
  <2>11. Points[k + 1] = r
    <3>1. k + 1 \in 1..Total
      BY <2>8, Zenon
    <3>2. ASSUME NEW i \in 1..Total, i = k + 1 PROVE Points[i] = RecordAt(k)
      <4>1. i - 1 = k
        BY <2>7, <3>2, SMT
      <4>2. Points[i] = RecordAt(i - 1)
        BY <2>5, Zenon
      <4> QED
        BY <4>1, <4>2, Zenon
    <3>3. Points[k + 1] = RecordAt(k)
      BY <3>1, <3>2, Zenon
    <3> QED
      BY <2>10, <3>3, Zenon
  <2> QED
    BY <2>11 DEF k, at, r
<1> QED
  BY <1>1, WebInvariance, PTL

\* An answer is a tail of the history as it was then.
THEOREM AnswersAreRead == WebSpec => []AnswersAreTails
<1>1. WebInv => AnswersAreTails
  <2> SUFFICES ASSUME WebInv PROVE AnswersAreTails
    OBVIOUS
  <2> DEFINE l == Len(answer.points)
  <2> DEFINE t == answer.total
  <2> DEFINE tail == SubSeq(Points, t - l + 1, t)
  <2>1. /\ answer.points \in Seq(Seq(FileByte)) /\ t \in 0..Total /\ answer.window \in Nat
        /\ l = IF t < answer.window THEN t ELSE answer.window
        /\ \A i \in 1..l : answer.points[i] = RecordAt(t - l + i - 1)
    BY DEF WebInv, Answered
  <2>2. /\ Total \in Nat /\ Points \in Seq(Seq(FileByte)) /\ Len(Points) = Total
        /\ \A i \in 1..Total : Points[i] = RecordAt(i - 1)
    BY PointsAreRecords DEF WebInv, PointsShape
  <2>3. l \in Nat /\ t \in Nat /\ t <= Total /\ l <= t
    BY <2>1, <2>2
  <2> HIDE DEF l, t
  <2>4. /\ t - l + 1 \in Int /\ t \in Int
        /\ \A i \in (t - l + 1)..t : i \in 1..Total
    BY <2>2, <2>3
  <2>5. \A i \in (t - l + 1)..t : Points[i] \in Seq(FileByte)
    BY <2>2, <2>4, ElementOfSeq
  <2>6. /\ tail \in Seq(Seq(FileByte))
        /\ Len(tail) = IF t - l + 1 <= t THEN t - (t - l + 1) + 1 ELSE 0
        /\ \A i \in 1..(t - (t - l + 1) + 1) : tail[i] = Points[t - l + 1 + i - 1]
    BY <2>4, <2>5, SubSeqProperties
  <2> HIDE DEF tail
  <2>7. /\ Len(tail) = l
        /\ \A i \in 1..l : /\ i \in 1..(t - (t - l + 1) + 1)
                            /\ t - l + 1 + i - 1 = t - l + i
                            /\ t - l + i \in 1..Total
                            /\ t - l + i - 1 = (t - l + i) - 1
    BY <2>2, <2>3, <2>6
  <2>8. \A i \in 1..l : tail[i] = answer.points[i]
    <3> SUFFICES ASSUME NEW i \in 1..l PROVE tail[i] = answer.points[i]
      OBVIOUS
    <3>1. tail[i] = Points[t - l + i]
      BY <2>6, <2>7
    <3>2. Points[t - l + i] = RecordAt(t - l + i - 1)
      BY <2>2, <2>7
    <3> QED
      BY <2>1, <3>1, <3>2
  <2>9. tail = answer.points
    BY <2>1, <2>6, <2>7, <2>8, SeqEqual DEF l
  <2> QED
    BY <2>1, <2>3, <2>9 DEF AnswersAreTails, l, t, tail
<1> QED
  BY <1>1, WebInvariance, PTL

\* Once a point can be read, no step changes it.
THEOREM PointsStay == WebSpec => HistoryIsKept
<1>1. WebInv /\ [WebNext]_webVars => [IsPrefix(Points, Points')]_file
  <2> SUFFICES ASSUME WebInv, [WebNext]_webVars, file' # file
               PROVE  IsPrefix(Points, Points')
    OBVIOUS
  <2>0. CountShape /\ CountShape'
    BY NextCounts, Zenon DEF WebInv
  <2>1. ~ (UNCHANGED <<file, answer, kept>>) /\ ~ (\E window \in Windows : Query(window))
    BY DEF Query
  <2>2. PICK online \in 0..GreatestCount, n \in 0..RecordSize, whole \in BOOLEAN :
                 Taking(online, n, whole)
    BY <2>1, HowCountsMove, Zenon
  <2> DEFINE x == SubSeq(Record(Len(kept) + 1, online), 1, n)
  <2>3. file' = file \o x
    BY <2>2, Zenon DEF Taking
  <2>4. x \in Seq(FileByte) /\ file \in Seq(FileByte)
    <3>1. GreatestCount \in Nat
      BY DEF GreatestCount
    <3>2. Len(kept) + 1 \in Nat /\ online \in Int
      BY <2>0, <3>1, LenProperties DEF CountShape
    <3> QED
      BY <2>0, <3>2, RecordBytes DEF CountShape
  <2> HIDE DEF x
  <2>5. Total <= Total' /\ \A k \in 0..(Total - 1) : RecordAt(k)' = RecordAt(k)
    BY <2>3, <2>4, Growing
  <2>6. /\ Total \in Nat /\ Points \in Seq(Seq(FileByte)) /\ Len(Points) = Total
        /\ \A i \in 1..Total : Points[i] = RecordAt(i - 1)
    BY <2>0, PointsAreRecords DEF PointsShape
  <2>7. /\ Total' \in Nat /\ Points' \in Seq(Seq(FileByte)) /\ Len(Points') = Total'
        /\ \A i \in 1..Total' : Points'[i] = RecordAt(i - 1)'
    <3>1. PointsShape'
      BY <2>0, PointsAreRecords, PTL
    <3> QED
      BY <3>1, Zenon DEF PointsShape
  <2>8. ASSUME NEW i \in 1..Total PROVE Points'[i] = Points[i]
    <3>1. i - 1 \in 0..(Total - 1) /\ i \in 1..Total'
      BY <2>5, <2>6, <2>7
    <3>2. PICK k \in 0..(Total - 1) : k = i - 1
      BY <3>1
    <3>3. RecordAt(k)' = RecordAt(k)
      BY <2>5
    <3>4. Points'[i] = RecordAt(i - 1)'
      BY <2>7, <3>1
    <3>5. RecordAt(i - 1)' = RecordAt(k)'
      BY <3>2 DEF RecordAt
    <3>6. Points[i] = RecordAt(k)
      BY <2>6, <3>2
    <3> QED
      BY <3>3, <3>4, <3>5, <3>6
  <2> DEFINE before == Points
  <2> DEFINE after == Points'
  <2>9. /\ before \in Seq(Seq(FileByte)) /\ after \in Seq(Seq(FileByte))
        /\ Len(before) \in Nat /\ Len(after) \in Nat /\ Len(before) <= Len(after)
        /\ \A i \in 1..Len(before) : after[i] = before[i]
    BY <2>5, <2>6, <2>7, <2>8
  <2> HIDE DEF before, after
  <2>10. IsPrefix(before, after)
    BY <2>9, PrefixByElements
  <2> QED
    BY <2>10 DEF before, after
<1> QED
  BY <1>1, WebInvariance, PTL DEF WebSpec, HistoryIsKept

-----------------------------------------------------------------------------
(* StatusQuery: numbers and their bytes.                                   *)

\* The last seven bits of a number and the rest of it.
LEMMA Bytes128 ==
  ASSUME NEW v \in Nat
  PROVE  /\ v \div 128 \in Nat /\ v % 128 \in 0..127
         /\ v = (v % 128) + 128 * (v \div 128)
         /\ v >= 128 => v \div 128 < v
OBVIOUS

\* The equation of VarInt, and its type.
LEMMA VarIntIs ==
  /\ VarInt \in [Nat -> Seq(Byte)]
  /\ \A v \in Nat : VarInt[v] =
         IF v < 128 THEN <<v>> ELSE <<128 + (v % 128)>> \o VarInt[v \div 128]
<1> DEFINE rank == [v \in Nat |-> v]
<1> DEFINE S == Seq(Byte)
<1> DEFINE rule ==
      [v \in Nat |-> [f \in [Nat -> S] |->
          IF v < 128 THEN <<v>> ELSE <<128 + (v % 128)>> \o f[v \div 128]]]
<1>1. rank \in [Nat -> Nat]
  OBVIOUS
<1>2. ASSUME NEW v \in Nat, NEW f \in [Nat -> S]
      PROVE  (IF v < 128 THEN <<v>> ELSE <<128 + (v % 128)>> \o f[v \div 128]) \in S
  <2>1. CASE v < 128
    BY <2>1 DEF Byte
  <2>2. CASE ~ v < 128
    <3>1. 128 + (v % 128) \in Byte /\ v \div 128 \in Nat
      BY Bytes128 DEF Byte
    <3>2. <<128 + (v % 128)>> \in Seq(Byte) /\ f[v \div 128] \in Seq(Byte)
      BY <3>1
    <3> QED
      BY <2>2, <3>2, ConcatProperties
  <2> QED
    BY <2>1, <2>2
<1>3. rule \in [Nat -> [[Nat -> S] -> S]]
  <2> HIDE DEF S
  <2> QED
    BY <1>2
<1>4. ASSUME NEW v \in Nat, NEW f \in [Nat -> S], NEW g \in [Nat -> S],
             \A n \in Nat : rank[n] < rank[v] => f[n] = g[n]
      PROVE  rule[v][f] = rule[v][g]
  <2>1. v >= 128 => f[v \div 128] = g[v \div 128]
    BY <1>4, Bytes128
  <2> HIDE DEF S
  <2> QED
    BY <2>1
<1>5. \E f : Follows(f, rule, Nat, S)
  <2>1. S # {}
    <3>1. <<>> \in S
      BY EmptySeq
    <3> QED
      BY <3>1
  <2> HIDE DEF rank, S, rule
  <2>2. Descends(rule, rank, Nat, S)
    BY <1>1, <1>3, <1>4 DEF Descends
  <2> QED
    BY <2>1, <2>2, Recursion
<1>6. PICK f \in [Nat -> S] :
        f = [v \in Nat |-> IF v < 128 THEN <<v>> ELSE <<128 + (v % 128)>> \o f[v \div 128]]
  <2> HIDE DEF S
  <2>1. PICK f \in [Nat -> S] : \A v \in Nat : f[v] = rule[v][f]
    BY <1>5 DEF Follows
  <2>2. \A v \in Nat : f[v] = IF v < 128 THEN <<v>> ELSE <<128 + (v % 128)>> \o f[v \div 128]
    BY <2>1
  <2> QED
    BY <2>2
<1>7. VarInt = [v \in Nat |-> IF v < 128 THEN <<v>> ELSE <<128 + (v % 128)>> \o VarInt[v \div 128]]
  BY <1>6, Zenon DEF VarInt
<1>8. \A v \in Nat : VarInt[v] =
          IF v < 128 THEN <<v>> ELSE <<128 + (v % 128)>> \o VarInt[v \div 128]
  BY <1>7, Zenon
<1> DEFINE Typed == {v \in Nat : VarInt[v] \in Seq(Byte)}
<1>9. ASSUME NEW v \in Nat, \A m \in Nat : m < v => m \in Typed PROVE v \in Typed
  <2> SUFFICES VarInt[v] \in Seq(Byte)
    OBVIOUS
  <2>1. CASE v < 128
    <3>1. VarInt[v] = <<v>>
      BY <1>8, <2>1, Zenon
    <3>2. v \in Byte
      BY <2>1 DEF Byte
    <3> QED
      BY <3>1, <3>2
  <2>2. CASE ~ v < 128
    <3>1. 128 + (v % 128) \in Byte /\ v \div 128 \in Nat /\ v \div 128 < v
      BY <2>2, Bytes128 DEF Byte
    <3>2. <<128 + (v % 128)>> \in Seq(Byte) /\ VarInt[v \div 128] \in Seq(Byte)
      BY <1>9, <3>1
    <3>3. VarInt[v] = <<128 + (v % 128)>> \o VarInt[v \div 128]
      BY <1>8, <2>2, Zenon
    <3> QED
      BY <3>2, <3>3, ConcatProperties
  <2> QED
    BY <2>1, <2>2
<1>10. Nat \subseteq Typed
  <2> HIDE DEF Typed
  <2> QED
    BY <1>9, Induction
<1>11. VarInt \in [Nat -> Seq(Byte)]
  BY <1>7, <1>10
<1> QED
  BY <1>8, <1>11

\* A byte, and its last seven bits.
LEMMA ByteIs ==
  ASSUME NEW b \in Byte
  PROVE  b \in 0..255 /\ b % 128 \in 0..127 /\ (b < 128 => b % 128 = b)
BY DEF Byte

\* A number put together from its last seven bits and the rest.
LEMMA Joined ==
  ASSUME NEW low \in 0..127, NEW high \in Nat
  PROVE  low + (128 * high) \in Nat
OBVIOUS

\* Bytes without their first one.
LEMMA FirstByte ==
  ASSUME NEW bytes \in Seq(Byte), bytes # <<>>
  PROVE  /\ bytes[1] % 128 \in 0..127
         /\ Tail(bytes) \in Seq(Byte) /\ Len(Tail(bytes)) < Len(bytes)
         /\ Len(bytes) \in Nat /\ Len(Tail(bytes)) \in Nat
<1>1. Len(bytes) \in Nat \ {0}
  BY EmptySeq, LenProperties
<1>2. bytes[1] \in Byte
  <2>1. 1 \in 1..Len(bytes)
    BY <1>1
  <2> QED
    BY <2>1, ElementOfSeq
<1>3. bytes[1] % 128 \in 0..127
  BY <1>2, ByteIs, Zenon
<1> QED
  BY <1>1, <1>3, HeadTailProperties

\* The equation of LowFirst, and its type.
LEMMA LowFirstIs ==
  /\ LowFirst \in [Seq(Byte) -> Nat]
  /\ \A bytes \in Seq(Byte) : LowFirst[bytes] =
         IF bytes = <<>> THEN 0 ELSE (bytes[1] % 128) + (128 * LowFirst[Tail(bytes)])
<1> DEFINE S == Seq(Byte)
<1> DEFINE rank == [bytes \in S |-> Len(bytes)]
<1> DEFINE rule ==
      [bytes \in S |-> [f \in [S -> Nat] |->
          IF bytes = <<>> THEN 0 ELSE (bytes[1] % 128) + (128 * f[Tail(bytes)])]]
<1>1. rank \in [S -> Nat]
  BY LenProperties
<1>2. ASSUME NEW bytes \in S, NEW f \in [S -> Nat], bytes # <<>>
      PROVE  (bytes[1] % 128) + (128 * f[Tail(bytes)]) \in Nat
  <2>1. bytes[1] % 128 \in 0..127 /\ Tail(bytes) \in S
    BY <1>2, FirstByte
  <2>2. f[Tail(bytes)] \in Nat
    BY <2>1
  <2> QED
    BY <2>1, <2>2, Joined, Zenon
<1>3. rule \in [S -> [[S -> Nat] -> Nat]]
  <2> HIDE DEF S
  <2> QED
    BY <1>2
<1>4. ASSUME NEW bytes \in S, NEW f \in [S -> Nat], NEW g \in [S -> Nat],
             \A c \in S : rank[c] < rank[bytes] => f[c] = g[c]
      PROVE  rule[bytes][f] = rule[bytes][g]
  <2>1. bytes # <<>> => Tail(bytes) \in S /\ rank[Tail(bytes)] < rank[bytes]
    BY FirstByte
  <2>2. bytes # <<>> => f[Tail(bytes)] = g[Tail(bytes)]
    BY <1>4, <2>1
  <2> HIDE DEF S
  <2> QED
    BY <2>2
<1>5. PICK f : Follows(f, rule, S, Nat)
  <2>1. Descends(rule, rank, S, Nat)
    <3> HIDE DEF rank, S, rule
    <3> QED
      BY <1>1, <1>3, <1>4 DEF Descends
  <2> HIDE DEF rank, S, rule
  <2> QED
    BY <2>1, Recursion
<1>6. f = [bytes \in Seq(Byte) |->
             IF bytes = <<>> THEN 0 ELSE (bytes[1] % 128) + (128 * f[Tail(bytes)])]
  <2>1. f \in [S -> Nat] /\ \A bytes \in S : f[bytes] = rule[bytes][f]
    BY <1>5 DEF Follows
  <2>2. \A bytes \in S : f[bytes] =
            IF bytes = <<>> THEN 0 ELSE (bytes[1] % 128) + (128 * f[Tail(bytes)])
    <3> HIDE DEF S
    <3> QED
      BY <2>1
  <2> HIDE DEF rule
  <2> QED
    BY <2>1, <2>2
<1>7. LowFirst = [bytes \in Seq(Byte) |->
             IF bytes = <<>> THEN 0 ELSE (bytes[1] % 128) + (128 * LowFirst[Tail(bytes)])]
  BY <1>6, Zenon DEF LowFirst
<1>8. \A bytes \in Seq(Byte) : LowFirst[bytes] =
         IF bytes = <<>> THEN 0 ELSE (bytes[1] % 128) + (128 * LowFirst[Tail(bytes)])
  BY <1>7, Zenon
<1> DEFINE Typed == {n \in Nat : \A bytes \in S : Len(bytes) = n => LowFirst[bytes] \in Nat}
<1>9. ASSUME NEW n \in Nat, \A m \in Nat : m < n => m \in Typed PROVE n \in Typed
  <2> SUFFICES ASSUME NEW bytes \in S, Len(bytes) = n PROVE LowFirst[bytes] \in Nat
    OBVIOUS
  <2>1. CASE bytes = <<>>
    BY <1>8, <2>1
  <2>2. CASE bytes # <<>>
    <3>1. bytes[1] % 128 \in 0..127 /\ LowFirst[Tail(bytes)] \in Nat
      BY <1>9, <2>2, FirstByte
    <3>2. LowFirst[bytes] = (bytes[1] % 128) + (128 * LowFirst[Tail(bytes)])
      BY <1>8, <2>2, Zenon
    <3>3. (bytes[1] % 128) + (128 * LowFirst[Tail(bytes)]) \in Nat
      BY <3>1, Joined, Zenon
    <3> QED
      BY <3>2, <3>3, Zenon
  <2> QED
    BY <2>1, <2>2
<1>10. Nat \subseteq Typed
  <2> HIDE DEF Typed
  <2> QED
    BY <1>9, Induction
<1>11. \A bytes \in S : LowFirst[bytes] \in Nat
  BY <1>10, LenProperties
<1>12. LowFirst \in [Seq(Byte) -> Nat]
  BY <1>7, <1>11
<1> QED
  BY <1>8, <1>12

\* Bytes with one put before them.
LEMMA FirstOf ==
  ASSUME NEW h \in Byte, NEW t \in Seq(Byte)
  PROVE  /\ <<h>> \o t \in Seq(Byte) /\ <<h>> \o t # <<>>
         /\ Len(t) \in Nat /\ Len(<<h>> \o t) = Len(t) + 1
         /\ (<<h>> \o t)[1] = h
         /\ \A i \in 1..Len(t) : (<<h>> \o t)[i + 1] = t[i]
         /\ Tail(<<h>> \o t) = t
<1> DEFINE b == <<h>> \o t
<1>1. <<h>> \in Seq(Byte) /\ Len(<<h>>) = 1 /\ <<h>>[1] = h /\ Len(t) \in Nat
  OBVIOUS
<1>2. /\ b \in Seq(Byte) /\ Len(b) = 1 + Len(t)
      /\ \A i \in 1..(1 + Len(t)) : b[i] = IF i <= 1 THEN <<h>>[i] ELSE t[i - 1]
  BY <1>1, ConcatProperties
<1> HIDE DEF b
<1>3. b[1] = h /\ \A i \in 1..Len(t) : b[i + 1] = t[i]
  <2>1. 1 \in 1..(1 + Len(t)) /\ b[1] = <<h>>[1]
    BY <1>1, <1>2
  <2>2. ASSUME NEW i \in 1..Len(t) PROVE b[i + 1] = t[i]
    <3>1. i + 1 \in 1..(1 + Len(t)) /\ ~ (i + 1 <= 1) /\ (i + 1) - 1 = i
      BY <1>1
    <3> QED
      BY <1>2, <3>1
  <2> QED
    BY <1>1, <2>1, <2>2
<1>4. b # <<>>
  BY <1>1, <1>2
<1>5. Tail(b) = t
  <2>1. /\ Tail(b) \in Seq(Byte) /\ Len(Tail(b)) = Len(b) - 1
        /\ \A i \in 1..Len(Tail(b)) : Tail(b)[i] = b[i + 1]
    BY <1>2, <1>4, HeadTailProperties
  <2>2. Len(Tail(b)) = Len(t)
    BY <1>1, <1>2, <2>1
  <2>3. \A i \in 1..Len(Tail(b)) : Tail(b)[i] = t[i]
    BY <1>3, <2>1, <2>2
  <2> QED
    BY <2>1, <2>2, <2>3, SeqEqual
<1> QED
  BY <1>1, <1>2, <1>3, <1>4, <1>5 DEF b

\* The bytes of a number: all but the last say that more follow.
Encodes(bytes, v) ==
    /\ bytes \in Seq(Byte) /\ Len(bytes) \in Nat \ {0}
    /\ \A i \in 1..(Len(bytes) - 1) : ~ (bytes[i] < 128)
    /\ bytes[Len(bytes)] < 128
    /\ Value(bytes) = v

\* readVarInt undoes appendVarInt.
LEMMA VarIntEncodes ==
  ASSUME NEW v \in Nat
  PROVE  Encodes(VarInt[v], v)
<1> DEFINE Sound == {n \in Nat : Encodes(VarInt[n], n)}
<1>1. ASSUME NEW n \in Nat, \A m \in Nat : m < n => m \in Sound PROVE n \in Sound
  <2> SUFFICES Encodes(VarInt[n], n)
    OBVIOUS
  <2>1. CASE n < 128
    <3>1. VarInt[n] = <<n>> \o <<>> /\ n \in Byte
      <4>1. VarInt[n] = <<n>>
        BY <2>1, VarIntIs, Zenon
      <4>2. n \in Byte
        BY <2>1 DEF Byte
      <4>3. <<n>> \in Seq(Byte)
        BY <4>2
      <4> QED
        BY <4>1, <4>2, <4>3, ConcatEmptySeq
    <3>2. <<>> \in Seq(Byte) /\ Len(<<>>) = 0
      BY EmptySeq
    <3> DEFINE b == <<n>> \o <<>>
    <3>3. /\ b \in Seq(Byte) /\ b # <<>> /\ Len(b) = 1 /\ b[1] = n /\ Tail(b) = <<>>
      BY <3>1, <3>2, FirstOf
    <3> HIDE DEF b
    <3>4. LowFirst[b] = (b[1] % 128) + (128 * LowFirst[Tail(b)]) /\ LowFirst[<<>>] = 0
      BY <3>2, <3>3, LowFirstIs, Zenon
    <3>5. LowFirst[b] = n
      <4>1. LowFirst[b] = (n % 128) + (128 * 0)
        BY <3>3, <3>4, Zenon
      <4> QED
        BY <2>1, <4>1
    <3>6. Encodes(b, n)
      BY <2>1, <3>3, <3>5 DEF Encodes, Value
    <3> QED
      BY <3>1, <3>6 DEF b
  <2>2. CASE ~ (n < 128)
    <3> DEFINE h == 128 + (n % 128)
    <3> DEFINE t == VarInt[n \div 128]
    <3> DEFINE b == <<h>> \o t
    <3>1. /\ n \div 128 \in Nat /\ n \div 128 < n
          /\ h \in Byte /\ ~ (h < 128) /\ h % 128 = n % 128
      BY <2>2, Bytes128 DEF Byte
    <3>2. VarInt[n] = b
      BY <2>2, VarIntIs, Zenon
    <3>3. /\ t \in Seq(Byte) /\ Len(t) \in Nat \ {0}
          /\ \A i \in 1..(Len(t) - 1) : ~ (t[i] < 128)
          /\ t[Len(t)] < 128
          /\ LowFirst[t] = n \div 128
      BY <1>1, <3>1 DEF Encodes, Value
    <3> HIDE DEF t, h
    <3>4. /\ b \in Seq(Byte) /\ b # <<>> /\ Len(b) = Len(t) + 1 /\ b[1] = h
          /\ \A i \in 1..Len(t) : b[i + 1] = t[i]
          /\ Tail(b) = t
      BY <3>1, <3>3, FirstOf
    <3> HIDE DEF b
    <3>5. LowFirst[b] = (b[1] % 128) + (128 * LowFirst[Tail(b)])
      BY <3>4, LowFirstIs, Zenon
    <3>6. LowFirst[b] = n
      <4>1. LowFirst[b] = (n % 128) + (128 * (n \div 128))
        BY <3>1, <3>3, <3>4, <3>5, Zenon
      <4> QED
        BY <4>1, Bytes128
    <3>7. \A i \in 1..(Len(b) - 1) : ~ (b[i] < 128)
      <4> SUFFICES ASSUME NEW i \in 1..(Len(b) - 1) PROVE ~ (b[i] < 128)
        OBVIOUS
      <4>1. CASE i = 1
        BY <3>1, <3>4, <4>1
      <4>2. CASE i # 1
        <5>1. i - 1 \in 1..(Len(t) - 1) /\ i - 1 \in 1..Len(t) /\ (i - 1) + 1 = i
          BY <3>3, <3>4, <4>2
        <5>2. b[i] = t[i - 1]
          BY <3>4, <5>1
        <5> QED
          BY <3>3, <5>1, <5>2
      <4> QED
        BY <4>1, <4>2
    <3>8. b[Len(b)] < 128
      <4>1. Len(t) \in 1..Len(t)
        BY <3>3
      <4>2. b[Len(b)] = t[Len(t)]
        BY <3>4, <4>1
      <4> QED
        BY <3>3, <4>2
    <3>9. Encodes(b, n)
      BY <3>3, <3>4, <3>6, <3>7, <3>8 DEF Encodes, Value
    <3> QED
      BY <3>2, <3>9
  <2> QED
    BY <2>1, <2>2
<1>2. Nat \subseteq Sound
  <2> HIDE DEF Sound
  <2> QED
    BY <1>1, Induction
<1> QED
  BY <1>2

\* A number below 128^4 takes no more than four bytes, one below 128^5 five.
LEMMA VarIntIsShort ==
  ASSUME NEW v \in Nat, v < 128 * 128 * 128 * 128 * 128
  PROVE  Len(VarInt[v]) <= BytesMax
<1> DEFINE short(n, k) == Len(VarInt[n]) <= k
<1>1. \A n \in Nat : n < 128 => short(n, 1)
  <2> SUFFICES ASSUME NEW n \in Nat, n < 128 PROVE Len(VarInt[n]) <= 1
    OBVIOUS
  <2>1. VarInt[n] = <<n>>
    BY VarIntIs, Zenon
  <2> QED
    BY <2>1
<1>2. ASSUME NEW n \in Nat, NEW k \in Nat, short(n \div 128, k) PROVE short(n, k + 1)
  <2>1. CASE n < 128
    <3>1. short(n, 1)
      BY <1>1, <2>1
    <3>2. Len(VarInt[n]) \in Nat
      BY VarIntEncodes DEF Encodes
    <3> QED
      BY <3>1, <3>2
  <2>2. CASE ~ (n < 128)
    <3>1. VarInt[n] = <<128 + (n % 128)>> \o VarInt[n \div 128]
      BY <2>2, VarIntIs, Zenon
    <3>2. 128 + (n % 128) \in Byte /\ n \div 128 \in Nat
      BY Bytes128 DEF Byte
    <3>3. VarInt[n \div 128] \in Seq(Byte)
      BY <3>2, VarIntIs
    <3>4. /\ Len(VarInt[n]) = Len(VarInt[n \div 128]) + 1
          /\ Len(VarInt[n \div 128]) \in Nat
      BY <3>1, <3>2, <3>3, FirstOf
    <3> QED
      BY <1>2, <3>4
  <2> QED
    BY <2>1, <2>2
<1> HIDE DEF short
<1>3. ASSUME NEW n \in Nat, NEW m \in Nat, n < m * 128
      PROVE  n \div 128 \in Nat /\ n \div 128 < m
  BY <1>3
<1>4. \A n \in Nat : n < 128 * 128 => short(n, 2)
  BY <1>1, <1>2, <1>3
<1>5. \A n \in Nat : n < 128 * 128 * 128 => short(n, 3)
  BY <1>4, <1>2, <1>3
<1>6. \A n \in Nat : n < 128 * 128 * 128 * 128 => short(n, 4)
  BY <1>5, <1>2, <1>3
<1>7. short(v, 5)
  BY <1>6, <1>2, <1>3
<1> QED
  BY <1>7 DEF short, BytesMax

\* Where the number at the head of some bytes ends.
LEMMA NumberLengthIs ==
  ASSUME NEW bytes \in Seq(Byte)
  PROVE  /\ NumberLength(bytes) \in 0..Len(bytes)
         /\ NumberLength(bytes) = 0 =>
                \A m \in 1..Len(bytes) : m <= BytesMax => ~ (bytes[m] < 128)
         /\ NumberLength(bytes) # 0 =>
                /\ NumberLength(bytes) <= BytesMax
                /\ bytes[NumberLength(bytes)] < 128
                /\ \A m \in 1..(NumberLength(bytes) - 1) : ~ (bytes[m] < 128)
<1> DEFINE ends == {n \in DOMAIN bytes : n <= BytesMax /\ bytes[n] < 128}
<1>1. Len(bytes) \in Nat /\ DOMAIN bytes = 1..Len(bytes)
  BY LenProperties
<1>2. NumberLength(bytes) =
          IF ends = {} THEN 0 ELSE CHOOSE n \in ends : \A m \in ends : n <= m
  BY DEF NumberLength
<1>3. CASE ends = {}
  <2>1. \A m \in 1..Len(bytes) : m <= BytesMax => ~ (bytes[m] < 128)
    BY <1>1, <1>3
  <2>2. NumberLength(bytes) = 0
    BY <1>2, <1>3
  <2> QED
    BY <1>1, <2>1, <2>2
<1>4. CASE ends # {}
  <2>1. ends \in SUBSET Nat
    BY <1>1
  <2>2. \E n \in ends : \A m \in ends : n <= m
    <3> HIDE DEF ends
    <3> QED
      BY <1>4, <2>1, LeastNatural
  <2> DEFINE k == CHOOSE n \in ends : \A m \in ends : n <= m
  <2>3. k \in ends /\ \A m \in ends : k <= m
    <3> HIDE DEF ends
    <3> QED
      BY <2>2
  <2>4. NumberLength(bytes) = k
    BY <1>2, <1>4
  <2> HIDE DEF k
  <2>5. k \in 1..Len(bytes) /\ k <= BytesMax /\ bytes[k] < 128
    BY <1>1, <2>3
  <2>6. ASSUME NEW m \in 1..(k - 1) PROVE ~ (bytes[m] < 128)
    <3>1. m \in DOMAIN bytes /\ m <= BytesMax /\ ~ (k <= m)
      BY <1>1, <2>5 DEF BytesMax
    <3> QED
      BY <2>3, <3>1
  <2> QED
    BY <1>1, <2>4, <2>5, <2>6
<1> QED
  BY <1>3, <1>4

\* The beginning of a concatenation.
LEMMA Beginning ==
  ASSUME NEW s \in Seq(Byte), NEW t \in Seq(Byte), NEW n \in 0..Len(s \o t)
  PROVE  LET p == SubSeq(s \o t, 1, n) IN
         /\ p \in Seq(Byte) /\ Len(p) = n
         /\ Len(s) \in Nat /\ Len(t) \in Nat /\ Len(s \o t) = Len(s) + Len(t)
         /\ \A i \in 1..n : i <= Len(s) => p[i] = s[i]
         /\ n >= Len(s) =>
                /\ SubSeq(p, 1, Len(s)) = s
                /\ SubSeq(p, Len(s) + 1, Len(p)) = SubSeq(t, 1, n - Len(s))
<1> DEFINE b == s \o t
<1> DEFINE p == SubSeq(b, 1, n)
<1>1. /\ b \in Seq(Byte) /\ Len(s) \in Nat /\ Len(t) \in Nat
      /\ Len(b) = Len(s) + Len(t)
      /\ \A i \in 1..(Len(s) + Len(t)) : b[i] = IF i <= Len(s) THEN s[i] ELSE t[i - Len(s)]
  BY ConcatProperties, LenProperties
<1> HIDE DEF b
<1>2. n \in Nat /\ n <= Len(b)
  BY <1>1 DEF b
<1>3. p \in Seq(Byte) /\ Len(p) = n /\ \A i \in 1..n : p[i] = b[i]
  <2>1. \A i \in 1..n : b[i] \in Byte
    BY <1>1, <1>2, ElementOfSeq
  <2>2. /\ p \in Seq(Byte)
        /\ Len(p) = IF 1 <= n THEN n - 1 + 1 ELSE 0
        /\ \A i \in 1..(n - 1 + 1) : p[i] = b[1 + i - 1]
    BY <1>2, <2>1, SubSeqProperties
  <2> QED
    BY <1>2, <2>2
<1> HIDE DEF p
<1>4. \A i \in 1..n : i <= Len(s) => p[i] = s[i]
  BY <1>1, <1>2, <1>3
<1>5. ASSUME n >= Len(s) PROVE SubSeq(p, 1, Len(s)) = s
  <2>1. \A i \in 1..Len(s) : p[i] = s[i] /\ p[i] \in Byte
    BY <1>1, <1>2, <1>4, <1>5, ElementOfSeq
  <2> DEFINE q == SubSeq(p, 1, Len(s))
  <2>2. /\ q \in Seq(Byte)
        /\ Len(q) = IF 1 <= Len(s) THEN Len(s) - 1 + 1 ELSE 0
        /\ \A i \in 1..(Len(s) - 1 + 1) : q[i] = p[1 + i - 1]
    BY <1>1, <2>1, SubSeqProperties
  <2> HIDE DEF q
  <2>3. Len(q) = Len(s) /\ \A i \in 1..Len(q) : q[i] = s[i]
    BY <1>1, <2>1, <2>2
  <2>4. q = s
    BY <2>2, <2>3, SeqEqual
  <2> QED
    BY <2>4 DEF q
<1>6. ASSUME n >= Len(s) PROVE SubSeq(p, Len(s) + 1, Len(p)) = SubSeq(t, 1, n - Len(s))
  <2> DEFINE l == Len(s)
  <2> DEFINE q == SubSeq(p, l + 1, n)
  <2> DEFINE r == SubSeq(t, 1, n - l)
  <2>0. l \in Nat /\ n \in Nat /\ l <= n /\ n <= l + Len(t)
    BY <1>1, <1>2, <1>6
  <2>1. \A i \in (l + 1)..n : p[i] = t[i - l] /\ p[i] \in Byte
    <3> SUFFICES ASSUME NEW i \in (l + 1)..n PROVE p[i] = t[i - l] /\ p[i] \in Byte
      OBVIOUS
    <3>1. i \in 1..n /\ i \in 1..(Len(s) + Len(t)) /\ ~ (i <= Len(s))
      BY <2>0
    <3> QED
      BY <1>1, <1>3, <3>1, ElementOfSeq
  <2>2. \A i \in 1..(n - l) : t[i] \in Byte
    BY <1>1, <2>0, ElementOfSeq
  <2>3. l + 1 \in Int /\ n \in Int /\ n - l \in Int /\ n - l \in Nat
    BY <2>0
  <2> HIDE DEF l
  <2>4. /\ q \in Seq(Byte)
        /\ Len(q) = IF l + 1 <= n THEN n - (l + 1) + 1 ELSE 0
        /\ \A i \in 1..(n - (l + 1) + 1) : q[i] = p[(l + 1) + i - 1]
    BY <2>1, <2>3, SubSeqProperties
  <2>5. /\ r \in Seq(Byte)
        /\ Len(r) = IF 1 <= n - l THEN n - l - 1 + 1 ELSE 0
        /\ \A i \in 1..(n - l - 1 + 1) : r[i] = t[1 + i - 1]
    BY <2>2, <2>3, SubSeqProperties
  <2> HIDE DEF q, r
  <2>6. Len(q) = n - l /\ Len(r) = n - l
    BY <2>0, <2>4, <2>5
  <2>7. ASSUME NEW i \in 1..Len(q) PROVE q[i] = r[i]
    <3>1. /\ i \in 1..(n - (l + 1) + 1) /\ i \in 1..(n - l - 1 + 1)
          /\ (l + 1) + i - 1 \in (l + 1)..n /\ ((l + 1) + i - 1) - l = i
          /\ (l + 1) + i - 1 = l + i /\ 1 + i - 1 = i
      BY <2>0, <2>6
    <3>2. q[i] = p[l + i] /\ r[i] = t[i] /\ l + i \in (l + 1)..n /\ (l + i) - l = i
      BY <2>4, <2>5, <3>1
    <3>3. p[l + i] = t[(l + i) - l]
      BY <2>1, <3>2
    <3> QED
      BY <3>2, <3>3
  <2>8. q = r
    BY <2>4, <2>5, <2>6, <2>7, SeqEqual
  <2> QED
    BY <1>3, <2>8 DEF l, q, r
<1> QED
  BY <1>1, <1>3, <1>4, <1>5, <1>6 DEF p, b

\* readVarInt on what came of a number and what follows it.
LEMMA ReadingNumber ==
  ASSUME NEW v \in Nat, NEW rest \in Seq(Byte), NEW n \in 0..Len(VarInt[v] \o rest),
         NEW p, p = SubSeq(VarInt[v] \o rest, 1, n)
  PROVE  /\ After(p) \in Seq(Byte) /\ Len(VarInt[v]) \in Nat \ {0}
         /\ IF Len(VarInt[v]) <= n /\ Len(VarInt[v]) <= BytesMax
            THEN /\ NumberLength(p) > 0
                 /\ Number(p) = v
                 /\ After(p) = SubSeq(rest, 1, n - Len(VarInt[v]))
            ELSE NumberLength(p) = 0
<1> DEFINE c == VarInt[v]
<1> DEFINE k == NumberLength(p)
<1>1. /\ c \in Seq(Byte) /\ Len(c) \in Nat \ {0}
      /\ \A i \in 1..(Len(c) - 1) : ~ (c[i] < 128)
      /\ c[Len(c)] < 128 /\ Value(c) = v
  BY VarIntEncodes DEF Encodes
<1> HIDE DEF c
<1>2. /\ p \in Seq(Byte) /\ Len(p) = n /\ n \in Nat
      /\ \A i \in 1..n : i <= Len(c) => p[i] = c[i]
      /\ n >= Len(c) => /\ SubSeq(p, 1, Len(c)) = c
                        /\ SubSeq(p, Len(c) + 1, Len(p)) = SubSeq(rest, 1, n - Len(c))
  <2>1. n \in 0..Len(c \o rest) /\ p = SubSeq(c \o rest, 1, n)
    BY DEF c
  <2> DEFINE q == SubSeq(c \o rest, 1, n)
  <2>2. /\ q \in Seq(Byte) /\ Len(q) = n /\ Len(c \o rest) \in Nat
        /\ \A i \in 1..n : i <= Len(c) => q[i] = c[i]
        /\ n >= Len(c) => /\ SubSeq(q, 1, Len(c)) = c
                          /\ SubSeq(q, Len(c) + 1, Len(q)) = SubSeq(rest, 1, n - Len(c))
    BY <1>1, <2>1, Beginning
  <2>3. n \in Nat
    BY <2>1, <2>2
  <2> QED
    BY <2>1, <2>2, <2>3, Zenon
<1>3. /\ k \in 0..n
      /\ k = 0 => \A m \in 1..n : m <= BytesMax => ~ (p[m] < 128)
      /\ k # 0 => k <= BytesMax /\ p[k] < 128 /\ \A m \in 1..(k - 1) : ~ (p[m] < 128)
  BY <1>2, NumberLengthIs
<1> HIDE DEF k
<1>4. ASSUME k # 0 PROVE k = Len(c) /\ Len(c) <= n /\ Len(c) <= BytesMax
  <2>1. CASE k < Len(c)
    <3>1. k \in 1..(Len(c) - 1) /\ k \in 1..n /\ k <= Len(c)
      BY <1>1, <1>2, <1>3, <1>4, <2>1
    <3>2. p[k] = c[k] /\ ~ (c[k] < 128) /\ p[k] < 128
      BY <1>1, <1>2, <1>3, <1>4, <3>1
    <3> QED
      BY <3>2, Zenon
  <2>2. CASE k > Len(c)
    <3>1. Len(c) \in 1..(k - 1) /\ Len(c) \in 1..n
      BY <1>1, <1>2, <1>3, <2>2
    <3>2. p[Len(c)] = c[Len(c)] /\ c[Len(c)] < 128 /\ ~ (p[Len(c)] < 128)
      BY <1>1, <1>2, <1>3, <1>4, <3>1
    <3> QED
      BY <3>2, Zenon
  <2>3. CASE k = Len(c)
    <3>1. k <= n /\ k <= BytesMax
      BY <1>2, <1>3, <1>4
    <3> QED
      BY <2>3, <3>1
  <2> QED
    BY <1>1, <1>2, <1>3, <2>1, <2>2, <2>3
<1>5. ASSUME k = 0 PROVE ~ (Len(c) <= n /\ Len(c) <= BytesMax)
  BY <1>1, <1>2, <1>3, <1>5
<1>6. After(p) \in Seq(Byte)
  <2>1. \A i \in (k + 1)..Len(p) : p[i] \in Byte
    BY <1>2, <1>3, ElementOfSeq
  <2>2. k + 1 \in Int /\ Len(p) \in Int
    BY <1>2, <1>3
  <2>3. SubSeq(p, k + 1, Len(p)) \in Seq(Byte)
    BY <2>1, <2>2, SubSeqProperties
  <2> QED
    BY <2>3 DEF After, k
<1>7. ASSUME k # 0
      PROVE  Number(p) = v /\ After(p) = SubSeq(rest, 1, n - Len(c))
  <2>1. /\ k = Len(c) /\ n >= Len(c)
        /\ Number(p) = Value(SubSeq(p, 1, k)) /\ After(p) = SubSeq(p, k + 1, Len(p))
    BY <1>1, <1>2, <1>4, <1>7 DEF Number, After, k
  <2> QED
    BY <1>1, <1>2, <2>1
<1> QED
  BY <1>1, <1>3, <1>4, <1>5, <1>6, <1>7 DEF k, c

\* readVarInt gives back the number that appendVarInt wrote and leaves what
\* follows it, for every number that five bytes can say, whatever follows
\* (pc.go:124-132).
THEOREM NumbersAreRead ==
  ASSUME NEW v \in Nat, v < 128 * 128 * 128 * 128 * 128, NEW rest \in Seq(Byte)
  PROVE  Number(VarInt[v] \o rest) = v /\ After(VarInt[v] \o rest) = rest
<1> DEFINE c == VarInt[v]
<1> DEFINE all == c \o rest
<1>1. c \in Seq(Byte) /\ Len(c) \in Nat /\ Len(c) <= BytesMax
  <2>1. c \in Seq(Byte)
    BY VarIntEncodes DEF Encodes
  <2> QED
    BY <2>1, VarIntIsShort, LenProperties
<1>2. /\ all \in Seq(Byte) /\ Len(all) \in Nat /\ Len(rest) \in Nat
      /\ Len(all) = Len(c) + Len(rest)
  <2> HIDE DEF c
  <2> QED
    BY <1>1, ConcatProperties, LenProperties
<1>3. all = SubSeq(all, 1, Len(all)) /\ rest = SubSeq(rest, 1, Len(rest))
  <2> HIDE DEF all
  <2> QED
    BY <1>2, SubSeqFull
<1>4. Len(all) \in 0..Len(all) /\ Len(c) <= Len(all) /\ Len(all) - Len(c) = Len(rest)
  BY <1>1, <1>2
<1>5. Number(all) = v /\ After(all) = SubSeq(rest, 1, Len(all) - Len(c))
  BY <1>1, <1>3, <1>4, ReadingNumber
<1> QED
  BY <1>3, <1>4, <1>5

-----------------------------------------------------------------------------
(* The conversation.                                                       *)

\* p is what has come of all of the bytes, and whole says that it is all.
CutOf(p, whole, all) == \E n \in 0..Len(all) : p = SubSeq(all, 1, n) /\ (whole <=> n = Len(all))

\* What follows each of the numbers of a reply.
AfterSize == <<123>>
AfterId == VarInt[told.size] \o AfterSize
AfterLength == VarInt[told.id] \o AfterId

\* The bytes that have not been read are what has come of the rest of the
\* reply.
Reading ==
    /\ step = "dial" => ~answered
    /\ step \in {"id", "size", "text"} => answered
    /\ step = "length" /\ answered => CutOf(reply, told.whole, Reply(told.id, told.size))
    /\ step = "id" => CutOf(reply, told.whole, AfterLength)
    /\ step \in {"size", "text"} => told.id = 0
    /\ step = "size" => CutOf(reply, told.whole, AfterId)
    /\ step = "text" =>
           CutOf(reply, told.whole, AfterSize) /\ text = told.size /\ text <= SizeMax

\* The request, and what a count or an error says of the reply.
Requested == sent \in {<<>>, Packet(Handshake) \o Packet(StatusRequest)}

Concluded ==
    /\ step = "count" => told.whole /\ told.id = 0 /\ text = told.size /\ text <= SizeMax
    /\ step = "error" => ~told.whole \/ told.id # 0 \/ told.size > SizeMax

QueryInv == QueryTypeOK /\ Requested /\ Reading /\ Concluded

\* Three stretches of bytes in a row.
LEMMA ThreeParts ==
  ASSUME NEW a \in Seq(Byte), NEW b \in Seq(Byte), NEW c \in Seq(Byte)
  PROVE  /\ a \o b \in Seq(Byte) /\ b \o c \in Seq(Byte) /\ a \o (b \o c) \in Seq(Byte)
         /\ (a \o b) \o c = a \o (b \o c)
         /\ Len(a) \in Nat /\ Len(b) \in Nat /\ Len(c) \in Nat
         /\ Len(a \o b) = Len(a) + Len(b) /\ Len(b \o c) = Len(b) + Len(c)
         /\ Len(a \o (b \o c)) = Len(a) + (Len(b) + Len(c))
<1>1. /\ a \o b \in Seq(Byte) /\ b \o c \in Seq(Byte)
      /\ Len(a) \in Nat /\ Len(b) \in Nat /\ Len(c) \in Nat
      /\ Len(a \o b) = Len(a) + Len(b) /\ Len(b \o c) = Len(b) + Len(c)
  BY ConcatProperties, LenProperties
<1>2. a \o (b \o c) \in Seq(Byte) /\ Len(a \o (b \o c)) = Len(a) + Len(b \o c)
  BY <1>1, ConcatProperties
<1>3. (a \o b) \o c = a \o (b \o c)
  BY ConcatAssociative
<1> QED
  BY <1>1, <1>2, <1>3

\* What stands for the text in a reply.
LEMMA TextIs == AfterSize \in Seq(Byte) /\ Len(AfterSize) = 1
<1>1. 123 \in Byte
  BY DEF Byte
<1> QED
  BY <1>1 DEF AfterSize

\* A reply, number by number.
LEMMA ReplyIs ==
  ASSUME NEW id \in Nat, NEW size \in Nat
  PROVE  LET head == VarInt[id] \o VarInt[size] IN
         /\ Len(head) = Len(VarInt[id]) + Len(VarInt[size])
         /\ Len(head) + size \in Nat
         /\ VarInt[size] \o AfterSize \in Seq(Byte)
         /\ VarInt[id] \o (VarInt[size] \o AfterSize) \in Seq(Byte)
         /\ Reply(id, size) \in Seq(Byte)
         /\ Reply(id, size) =
                VarInt[Len(head) + size] \o (VarInt[id] \o (VarInt[size] \o AfterSize))
<1> DEFINE head == VarInt[id] \o VarInt[size]
<1>1. VarInt[id] \in Seq(Byte) /\ VarInt[size] \in Seq(Byte) /\ AfterSize \in Seq(Byte)
  BY VarIntIs, TextIs
<1>2. /\ head \in Seq(Byte) /\ head \o AfterSize = VarInt[id] \o (VarInt[size] \o AfterSize)
      /\ VarInt[size] \o AfterSize \in Seq(Byte)
      /\ VarInt[id] \o (VarInt[size] \o AfterSize) \in Seq(Byte)
      /\ Len(VarInt[id]) \in Nat /\ Len(VarInt[size]) \in Nat
      /\ Len(head) = Len(VarInt[id]) + Len(VarInt[size])
  BY <1>1, ThreeParts
<1>3. Reply(id, size) = (VarInt[Len(head) + size] \o head) \o AfterSize
  BY DEF Reply, AfterSize
<1> HIDE DEF head
<1>4. Len(head) + size \in Nat
  <2>1. Len(head) \in Nat
    BY <1>2, LenProperties
  <2> QED
    BY <2>1
<1>5. VarInt[Len(head) + size] \in Seq(Byte)
  BY <1>4, VarIntIs
<1> DEFINE length == VarInt[Len(head) + size]
<1>6. /\ (length \o head) \o AfterSize = length \o (head \o AfterSize)
      /\ length \o (head \o AfterSize) \in Seq(Byte)
  <2> HIDE DEF length
  <2>1. length \in Seq(Byte)
    BY <1>5 DEF length
  <2> QED
    BY <1>1, <1>2, <2>1, ThreeParts
<1> QED
  BY <1>2, <1>3, <1>4, <1>6 DEF head

\* A number can be read from these bytes, and this one can never be.
Found(p) == NumberLength(p) > 0
TooLong(v) == Len(VarInt[v]) > BytesMax

\* Reading a number leaves what has come of the rest; it fails only where the
\* number is cut or too long.
LEMMA ReadingCut ==
  ASSUME NEW v \in Nat, NEW rest \in Seq(Byte), NEW p, NEW whole \in BOOLEAN,
         CutOf(p, whole, VarInt[v] \o rest)
  PROVE  /\ After(p) \in Seq(Byte)
         /\ Found(p) => Number(p) = v /\ CutOf(After(p), whole, rest)
         /\ ~ Found(p) => ~ whole \/ TooLong(v)
<1> DEFINE k == Len(VarInt[v])
<1> DEFINE all == VarInt[v] \o rest
<1>1. PICK n \in 0..Len(all) : p = SubSeq(all, 1, n) /\ (whole <=> n = Len(all))
  BY DEF CutOf
<1>2. /\ Len(all) = k + Len(rest) /\ k \in Nat /\ Len(rest) \in Nat /\ n \in Nat
  <2>1. VarInt[v] \in Seq(Byte)
    BY VarIntIs
  <2> QED
    BY <2>1, ConcatProperties, LenProperties
<1>3. /\ After(p) \in Seq(Byte)
      /\ IF k <= n /\ k <= BytesMax
         THEN NumberLength(p) > 0 /\ Number(p) = v /\ After(p) = SubSeq(rest, 1, n - k)
         ELSE NumberLength(p) = 0
  BY <1>1, ReadingNumber
<1> HIDE DEF k, all
<1>4. CASE k <= n /\ k <= BytesMax
  <2>1. n - k \in 0..Len(rest) /\ (whole <=> n - k = Len(rest))
    BY <1>1, <1>2, <1>4
  <2>2. CutOf(After(p), whole, rest)
    BY <1>3, <1>4, <2>1 DEF CutOf
  <2>3. Found(p) /\ Number(p) = v
    BY <1>3, <1>4 DEF Found
  <2> QED
    BY <1>3, <2>2, <2>3
<1>5. CASE ~ (k <= n /\ k <= BytesMax)
  <2>1. ~ Found(p)
    BY <1>3, <1>5 DEF Found
  <2>2. ~ whole \/ k > BytesMax
    BY <1>1, <1>2, <1>5 DEF BytesMax
  <2> QED
    BY <1>3, <2>1, <2>2 DEF k, TooLong
<1> QED
  BY <1>4, <1>5

-----------------------------------------------------------------------------
\* The length of the handshake fits one byte.
LEMMA HandshakeIs == Handshake \in Seq(Byte) /\ Len(Handshake) < 128
<1> DEFINE name == [i \in 1..9 |-> 108]
<1> DEFINE port == <<99, 221>>
<1>1. name \in Seq(Byte) /\ Len(name) = 9
  <2>1. 108 \in Byte /\ 9 \in Nat
    BY DEF Byte
  <2> QED
    BY <2>1, IsASeq
<1>2. port \in Seq(Byte) /\ Len(port) = 2
  <2>1. 99 \in Byte /\ 221 \in Byte
    BY DEF Byte
  <2> QED
    BY <2>1
<1>3. ASSUME NEW v \in Nat, v < 128
      PROVE  VarInt[v] \in Seq(Byte) /\ Len(VarInt[v]) = 1
  <2>1. VarInt[v] = <<v>>
    BY <1>3, VarIntIs, Zenon
  <2>2. v \in Byte
    BY <1>3 DEF Byte
  <2> QED
    BY <2>1, <2>2
<1>4. /\ VarInt[0] \in Seq(Byte) /\ Len(VarInt[0]) = 1
      /\ VarInt[9] \in Seq(Byte) /\ Len(VarInt[9]) = 1
      /\ VarInt[1] \in Seq(Byte) /\ Len(VarInt[1]) = 1
  BY <1>3
<1> HIDE DEF name, port
<1> DEFINE a == VarInt[0] \o VarInt[0]
<1> DEFINE b == a \o VarInt[9]
<1> DEFINE c == b \o name
<1> DEFINE d == c \o port
<1>5. a \in Seq(Byte) /\ Len(a) = Len(VarInt[0]) + Len(VarInt[0])
  BY <1>4, ConcatProperties
<1> HIDE DEF a
<1>6. b \in Seq(Byte) /\ Len(b) = Len(a) + Len(VarInt[9])
  BY <1>4, <1>5, ConcatProperties
<1> HIDE DEF b
<1>7. c \in Seq(Byte) /\ Len(c) = Len(b) + Len(name)
  BY <1>1, <1>6, ConcatProperties
<1> HIDE DEF c
<1>8. d \in Seq(Byte) /\ Len(d) = Len(c) + Len(port)
  BY <1>2, <1>7, ConcatProperties
<1> HIDE DEF d
<1>9. d \o VarInt[1] \in Seq(Byte) /\ Len(d \o VarInt[1]) = Len(d) + Len(VarInt[1])
  BY <1>4, <1>8, ConcatProperties
<1>10. Handshake = d \o VarInt[1]
  BY DEF Handshake, a, b, c, d, name, port
<1>11. Len(d \o VarInt[1]) < 128
  BY <1>1, <1>2, <1>4, <1>5, <1>6, <1>7, <1>8, <1>9
<1> QED
  BY <1>9, <1>10, <1>11

\* Before the connection there is nothing to agree on.
LEMMA InitQueryInv == QueryInit => QueryInv
<1> SUFFICES ASSUME QueryInit PROVE QueryInv
  OBVIOUS
<1>1. <<>> \in Seq(Byte)
  BY EmptySeq
<1> QED
  BY <1>1 DEF QueryInit, QueryInv, QueryTypeOK, Requested, Reading, Concluded

\* The two packets that go out.
LEMMA RequestIs ==
  /\ Packet(Handshake) \o Packet(StatusRequest) \in Seq(Byte)
  /\ Packet(Handshake) \o Packet(StatusRequest) =
         VarInt[Len(Handshake)] \o (Handshake \o Packet(StatusRequest))
  /\ Packet(StatusRequest) \in Seq(Byte)
<1>1. /\ Handshake \in Seq(Byte) /\ Len(Handshake) \in Nat
      /\ VarInt[Len(Handshake)] \in Seq(Byte)
  <2>1. Handshake \in Seq(Byte) /\ Len(Handshake) \in Nat
    BY HandshakeIs, LenProperties
  <2> QED
    BY <2>1, VarIntIs
<1>2. StatusRequest \in Seq(Byte) /\ Len(StatusRequest) \in Nat
  <2>1. 0 \in Byte
    BY DEF Byte
  <2> QED
    BY <2>1 DEF StatusRequest
<1>3. Packet(StatusRequest) \in Seq(Byte)
  <2>1. VarInt[Len(StatusRequest)] \in Seq(Byte)
    BY <1>2, VarIntIs
  <2> QED
    BY <1>2, <2>1, ConcatProperties DEF Packet
<1>4. /\ (VarInt[Len(Handshake)] \o Handshake) \o Packet(StatusRequest) =
             VarInt[Len(Handshake)] \o (Handshake \o Packet(StatusRequest))
      /\ VarInt[Len(Handshake)] \o (Handshake \o Packet(StatusRequest)) \in Seq(Byte)
  BY <1>1, <1>3, ThreeParts
<1>5. Packet(Handshake) = VarInt[Len(Handshake)] \o Handshake
  BY DEF Packet
<1> QED
  BY <1>3, <1>4, <1>5, Zenon

\* The server can tell them apart.
LEMMA RequestAgrees ==
  ASSUME Requested, sent # <<>>
  PROVE  /\ SubSeq(After(sent), 1, Number(sent)) = Handshake
         /\ SubSeq(After(sent), Number(sent) + 1, Len(After(sent))) = Packet(StatusRequest)
<1> DEFINE rest == Handshake \o Packet(StatusRequest)
<1> DEFINE all == VarInt[Len(Handshake)] \o rest
<1>1. /\ Handshake \in Seq(Byte) /\ Len(Handshake) \in Nat /\ Len(Handshake) < 128
      /\ Packet(StatusRequest) \in Seq(Byte)
  BY HandshakeIs, RequestIs, LenProperties
<1>2. rest \in Seq(Byte) /\ Len(rest) \in Nat /\ Len(rest) >= Len(Handshake)
      /\ Len(rest) - Len(Handshake) = Len(Packet(StatusRequest))
  BY <1>1, ConcatProperties, LenProperties
<1>3. sent = all /\ all \in Seq(Byte) /\ Len(all) \in Nat
  BY RequestIs, LenProperties DEF Requested
<1> HIDE DEF rest, all
<1>4. Number(sent) = Len(Handshake) /\ After(sent) = rest
  <2>1. VarInt[Len(Handshake)] \in Seq(Byte) /\ Len(VarInt[Len(Handshake)]) <= BytesMax
    BY <1>1, VarIntIs, VarIntIsShort
  <2>2. /\ Len(all) = Len(VarInt[Len(Handshake)]) + Len(rest)
        /\ Len(VarInt[Len(Handshake)]) \in Nat
    BY <1>2, <2>1, ConcatProperties, LenProperties DEF all
  <2>3. /\ Len(all) \in 0..Len(all) /\ Len(VarInt[Len(Handshake)]) <= Len(all)
        /\ Len(all) - Len(VarInt[Len(Handshake)]) = Len(rest)
    BY <1>2, <1>3, <2>2
  <2>4. sent = SubSeq(all, 1, Len(all))
    BY <1>3, SubSeqFull
  <2>5. Number(sent) = Len(Handshake) /\ After(sent) = SubSeq(rest, 1, Len(rest))
    <3>1. /\ Len(all) \in 0..Len(VarInt[Len(Handshake)] \o rest)
          /\ sent = SubSeq(VarInt[Len(Handshake)] \o rest, 1, Len(all))
      BY <2>3, <2>4 DEF all
    <3> QED
      BY <1>1, <1>2, <2>1, <2>3, <3>1, ReadingNumber
  <2> QED
    BY <1>2, <2>5, SubSeqFull
<1>5. /\ SubSeq(rest, 1, Len(Handshake)) = Handshake
      /\ SubSeq(rest, Len(Handshake) + 1, Len(rest)) =
             SubSeq(Packet(StatusRequest), 1, Len(Packet(StatusRequest)))
  <2>1. Len(rest) \in 0..Len(Handshake \o Packet(StatusRequest))
    BY <1>2 DEF rest
  <2>2. SubSeq(rest, 1, Len(rest)) = rest
    BY <1>2, SubSeqFull
  <2> DEFINE p == SubSeq(Handshake \o Packet(StatusRequest), 1, Len(rest))
  <2>3. p = rest
    BY <2>2 DEF rest
  <2>4. Len(rest) >= Len(Handshake) =>
            /\ SubSeq(p, 1, Len(Handshake)) = Handshake
            /\ SubSeq(p, Len(Handshake) + 1, Len(p)) =
                   SubSeq(Packet(StatusRequest), 1, Len(rest) - Len(Handshake))
    BY <1>1, <2>1, Beginning
  <2> HIDE DEF p
  <2> QED
    BY <1>2, <2>3, <2>4
<1>6. SubSeq(Packet(StatusRequest), 1, Len(Packet(StatusRequest))) = Packet(StatusRequest)
  BY <1>1, SubSeqFull
<1> QED
  BY <1>4, <1>5, <1>6

-----------------------------------------------------------------------------
\* An error in the length is one of the reply: that of a status whose text may
\* be read takes no more than five bytes.
LEMMA LengthsFit ==
  ASSUME NEW size \in Nat, size <= SizeMax
  PROVE  Len(VarInt[Len(VarInt[0] \o VarInt[size]) + size]) <= BytesMax
<1> DEFINE n == Len(VarInt[0] \o VarInt[size]) + size
<1>1. SizeMax \in Nat /\ SizeMax < 128 * 128 * 128 * 128 /\ 0 \in Nat
  BY QueryAssumption
<1>2. size < 128 * 128 * 128 * 128 * 128
  BY <1>1
<1>3. Len(VarInt[0]) <= BytesMax /\ Len(VarInt[size]) <= BytesMax
  BY <1>1, <1>2, VarIntIsShort
<1>4. /\ Len(VarInt[0] \o VarInt[size]) = Len(VarInt[0]) + Len(VarInt[size])
      /\ Len(VarInt[0]) \in Nat /\ Len(VarInt[size]) \in Nat
  <2>1. VarInt[0] \in Seq(Byte) /\ VarInt[size] \in Seq(Byte)
    BY VarIntIs
  <2> QED
    BY <2>1, ConcatProperties, LenProperties
<1>5. n \in Nat /\ n < 128 * 128 * 128 * 128 * 128
  <2>1. n \in Nat /\ n <= SizeMax + 10
    <3> DEFINE a == Len(VarInt[0])
    <3> DEFINE b == Len(VarInt[size])
    <3>1. n = a + b + size /\ a \in Nat /\ b \in Nat /\ a <= 5 /\ b <= 5
      BY <1>3, <1>4 DEF BytesMax
    <3> HIDE DEF n, a, b
    <3> QED
      BY <1>1, <3>1
  <2>2. SizeMax + 10 < 128 * 128 * 128 * 128 * 128
    BY <1>1
  <2> HIDE DEF n
  <2> QED
    BY <1>1, <2>1, <2>2
<1> QED
  BY <1>5, VarIntIsShort

\* ReadingCut for the reply.
LEMMA CutHere ==
  ASSUME NEW v \in Nat, NEW rest \in Seq(Byte), told.whole \in BOOLEAN,
         CutOf(reply, told.whole, VarInt[v] \o rest)
  PROVE  /\ After(reply) \in Seq(Byte)
         /\ Found(reply) => Number(reply) = v /\ CutOf(After(reply), told.whole, rest)
         /\ ~ Found(reply) => ~ told.whole \/ TooLong(v)
BY ReadingCut

\* What a number read is, and what comes after it; or what the reply lacks.
LEMMA WhatIsRead ==
  ASSUME QueryInv, answered
  PROVE  /\ step \in {"length", "id", "size"} => After(reply) \in Seq(Byte)
         /\ step = "length" =>
                /\ Found(reply) => CutOf(After(reply), told.whole, AfterLength)
                /\ ~ Found(reply) => ~ told.whole \/ told.id # 0 \/ told.size > SizeMax
         /\ step = "id" =>
                /\ Found(reply) =>
                       Number(reply) = told.id /\ CutOf(After(reply), told.whole, AfterId)
                /\ ~ Found(reply) => ~ told.whole \/ told.id # 0
         /\ step = "size" =>
                /\ Found(reply) =>
                       Number(reply) = told.size /\ CutOf(After(reply), told.whole, AfterSize)
                /\ ~ Found(reply) => ~ told.whole \/ told.size > SizeMax
<1>0. told.id \in Nat /\ told.size \in Nat /\ told.whole \in BOOLEAN
  BY DEF QueryInv, QueryTypeOK
<1>2. AfterSize \in Seq(Byte) /\ AfterId \in Seq(Byte) /\ AfterLength \in Seq(Byte)
  BY <1>0, TextIs, ReplyIs DEF AfterId, AfterLength
<1>3. CASE step = "length"
  <2> DEFINE n == Len(VarInt[told.id] \o VarInt[told.size]) + told.size
  <2>0. n \in Nat
    BY <1>0, ReplyIs
  <2>1. n \in Nat /\ Reply(told.id, told.size) = VarInt[n] \o AfterLength
    BY <1>0, ReplyIs DEF AfterLength, AfterId
  <2>2. CutOf(reply, told.whole, VarInt[n] \o AfterLength)
    BY <1>3, <2>1 DEF QueryInv, Reading
  <2>3. told.id # 0 \/ told.size > SizeMax \/ ~ (TooLong(n))
    <3> SUFFICES ASSUME told.id = 0, ~ (told.size > SizeMax)
                 PROVE  ~ (TooLong(n))
      OBVIOUS
    <3>1. told.size <= SizeMax
      BY <1>0, QueryAssumption
    <3>2. Len(VarInt[n]) <= BytesMax
      BY <1>0, <3>1, LengthsFit
    <3>3. Len(VarInt[n]) \in Nat
      BY <2>1, VarIntEncodes DEF Encodes
    <3> HIDE DEF n
    <3> QED
      BY <3>2, <3>3 DEF BytesMax, TooLong
  <2> HIDE DEF n
  <2>4. /\ After(reply) \in Seq(Byte)
        /\ Found(reply) => CutOf(After(reply), told.whole, AfterLength)
        /\ ~ Found(reply) => ~ told.whole \/ TooLong(n)
    BY <1>0, <1>2, <2>0, <2>2, CutHere
  <2> QED
    BY <1>0, <1>3, <2>3, <2>4
<1>4. ASSUME NEW v \in Nat, v = 0 \/ v <= SizeMax
      PROVE  ~ (TooLong(v))
  <2>1. v < 128 * 128 * 128 * 128 * 128
    BY <1>4, QueryAssumption
  <2>2. Len(VarInt[v]) <= BytesMax /\ Len(VarInt[v]) \in Nat
    BY <2>1, VarIntIsShort, VarIntEncodes DEF Encodes
  <2> QED
    BY <2>2 DEF BytesMax, TooLong
<1>5. CASE step = "id"
  <2>1. CutOf(reply, told.whole, VarInt[told.id] \o AfterId)
    BY <1>0, <1>5 DEF QueryInv, Reading, AfterLength
  <2>2. /\ After(reply) \in Seq(Byte)
        /\ Found(reply) =>
               Number(reply) = told.id /\ CutOf(After(reply), told.whole, AfterId)
        /\ ~ Found(reply) => ~ told.whole \/ TooLong(told.id)
    BY <1>0, <1>2, <2>1, CutHere
  <2> QED
    BY <1>0, <1>4, <1>5, <2>2
<1>6. CASE step = "size"
  <2>1. CutOf(reply, told.whole, VarInt[told.size] \o AfterSize)
    BY <1>0, <1>6 DEF QueryInv, Reading, AfterId
  <2>2. /\ After(reply) \in Seq(Byte)
        /\ Found(reply) =>
               Number(reply) = told.size /\ CutOf(After(reply), told.whole, AfterSize)
        /\ ~ Found(reply) =>
               ~ told.whole \/ TooLong(told.size)
    BY <1>0, <1>2, <2>1, CutHere
  <2>3. ~ (TooLong(told.size)) \/ told.size > SizeMax
    <3>1. told.size <= SizeMax \/ told.size > SizeMax
      BY <1>0, QueryAssumption
    <3> QED
      BY <1>0, <1>4, <3>1
  <2> QED
    BY <1>0, <1>6, <2>2, <2>3
<1>7. ASSUME step \notin {"length", "id", "size"}
      PROVE  step # "length" /\ step # "id" /\ step # "size"
  BY <1>7
<1> QED
  BY <1>3, <1>5, <1>6, <1>7

\* The request goes out.
LEMMA AskKeeps == ASSUME QueryInv, Ask PROVE QueryInv'
<1>1. QueryTypeOK'
  BY RequestIs DEF QueryInv, QueryTypeOK, Ask
<1>2. Requested'
  BY DEF Ask, Requested
<1>3. Reading' /\ Concluded'
  BY DEF QueryInv, Reading, Concluded, Ask
<1> QED
  BY <1>1, <1>2, <1>3 DEF QueryInv

\* A reply comes, up to some byte.
LEMMA AnswerKeeps ==
  ASSUME QueryInv, NEW id \in Ids, NEW size \in Sizes, NEW n \in 0..Len(Reply(id, size)),
         Answer(id, size, n)
  PROVE  QueryInv'
<1> DEFINE all == Reply(id, size)
<1>1. id \in Nat /\ size \in Nat
  BY QueryAssumption
<1>2. all \in Seq(Byte) /\ Len(all) \in Nat
  BY <1>1, ReplyIs, LenProperties
<1>3. /\ reply' = SubSeq(all, 1, n) /\ told' = [id |-> id, size |-> size, whole |-> n = Len(all)]
      /\ answered' = TRUE /\ step = "length" /\ step' = step /\ sent' = sent /\ text' = text
  BY DEF Answer
<1>4. reply' \in Seq(Byte)
  <2> HIDE DEF all
  <2>1. n \in Int /\ \A i \in 1..n : all[i] \in Byte
    <3>1. n \in 0..Len(all)
      BY DEF all
    <3>2. \A i \in 1..n : i \in 1..Len(all)
      BY <1>2, <3>1
    <3> QED
      BY <1>2, <3>1, <3>2, ElementOfSeq
  <2> QED
    BY <1>3, <2>1, SubSeqProperties
<1>5. told'.id = id /\ told'.size = size /\ (told'.whole <=> n = Len(all))
  <2> HIDE DEF all
  <2> QED
    BY <1>3
<1>6. QueryTypeOK'
  <2>1. told' \in [id : Nat, size : Nat, whole : BOOLEAN]
    <3> HIDE DEF all
    <3> QED
      BY <1>1, <1>3
  <2> QED
    BY <1>3, <1>4, <2>1 DEF QueryInv, QueryTypeOK
<1>7. CutOf(reply', told'.whole, Reply(told'.id, told'.size))
  BY <1>3, <1>5 DEF CutOf
<1>8. Reading'
  BY <1>3, <1>7 DEF Reading
<1>9. Requested' /\ Concluded'
  BY <1>3 DEF QueryInv, Requested, Concluded
<1> QED
  BY <1>6, <1>8, <1>9 DEF QueryInv

\* A number is read.
LEMMA ReadsKeep ==
  ASSUME QueryInv, ReadLength \/ ReadId \/ ReadSize
  PROVE  QueryInv'
<1>1. /\ step' \in {"id", "size", "text", "error"} /\ answered' = TRUE
      /\ reply' \in Seq(Byte) /\ sent' = sent /\ told' = told
      /\ told.size \in Nat
      /\ step' = "id" => CutOf(reply', told.whole, AfterLength)
      /\ step' = "size" => told.id = 0 /\ CutOf(reply', told.whole, AfterId)
      /\ step' = "text" =>
             /\ told.id = 0 /\ CutOf(reply', told.whole, AfterSize)
             /\ text' = told.size /\ text' <= SizeMax
      /\ step' = "error" => ~ told.whole \/ told.id # 0 \/ told.size > SizeMax
  <2>0. QueryTypeOK /\ Reading
    BY DEF QueryInv
  <2>1. CASE ReadLength
    <3>1. /\ step = "length" /\ answered /\ step' = (IF Found(reply) THEN "id" ELSE "error")
          /\ reply' = After(reply) /\ UNCHANGED <<sent, answered, told>>
      BY <2>1 DEF ReadLength, ReadNumber, Found
    <3> QED
      BY <2>0, <3>1, WhatIsRead DEF QueryTypeOK
  <2>2. CASE ReadId
    <3>1. /\ step = "id" /\ answered
          /\ step' = (IF Found(reply) /\ Number(reply) = 0 THEN "size" ELSE "error")
          /\ reply' = After(reply) /\ UNCHANGED <<sent, answered, told>>
      BY <2>2 DEF ReadId, ReadNumber, Found
    <3> QED
      BY <2>0, <3>1, WhatIsRead DEF QueryTypeOK
  <2>3. CASE ReadSize
    <3>1. /\ step = "size" /\ answered
          /\ step' = (IF Found(reply) /\ Number(reply) <= SizeMax THEN "text" ELSE "error")
          /\ reply' = After(reply) /\ text' = Number(reply) /\ UNCHANGED <<sent, answered, told>>
      BY <2>3 DEF ReadSize, ReadNumber, Found
    <3>2. step = "size" /\ told.id = 0
      BY <2>0, <3>1 DEF Reading
    <3>3. told.size \in Nat /\ (told.size <= SizeMax \/ told.size > SizeMax)
      BY <2>0, QueryAssumption DEF QueryTypeOK
    <3> QED
      BY <2>0, <3>1, <3>2, <3>3, WhatIsRead DEF QueryTypeOK
  <2> QED
    BY <2>1, <2>2, <2>3
<1>2. text' \in Nat
  <2>1. ReadLength \/ ReadId => text' = text
    BY DEF ReadLength, ReadId
  <2>2. ReadSize => text' = Number(reply)
    BY DEF ReadSize
  <2>3. Number(reply) \in Nat
    <3>1. reply \in Seq(Byte) /\ Len(reply) \in Nat
      BY LenProperties DEF QueryInv, QueryTypeOK
    <3>2. NumberLength(reply) \in 0..Len(reply)
      BY <3>1, NumberLengthIs
    <3>3. SubSeq(reply, 1, NumberLength(reply)) \in Seq(Byte)
      <4>1. \A i \in 1..NumberLength(reply) : reply[i] \in Byte
        BY <3>1, <3>2, ElementOfSeq
      <4>2. NumberLength(reply) \in Int
        BY <3>1, <3>2
      <4> QED
        BY <4>1, <4>2, SubSeqProperties
    <3> QED
      BY <3>3, LowFirstIs DEF Number, Value
  <2> QED
    BY <2>1, <2>2, <2>3 DEF QueryInv, QueryTypeOK
<1>3. AfterLength' = AfterLength /\ AfterId' = AfterId /\ AfterSize' = AfterSize
  BY <1>1 DEF AfterLength, AfterId, AfterSize
<1>4. QueryTypeOK'
  BY <1>1, <1>2 DEF QueryInv, QueryTypeOK
<1>5. Requested' /\ Concluded'
  BY <1>1 DEF QueryInv, Requested, Concluded
<1>6. Reading'
  BY <1>1, <1>3 DEF Reading
<1> QED
  BY <1>4, <1>5, <1>6 DEF QueryInv

\* The text is read.
LEMMA ReadTextKeeps == ASSUME QueryInv, ReadText PROVE QueryInv'
<1>1. /\ step = "text" /\ step' = (IF reply # <<>> THEN "count" ELSE "error") /\ reply' = <<>>
      /\ sent' = sent /\ answered' = answered /\ text' = text /\ told' = told
  BY DEF ReadText
<1>2. /\ told.id = 0 /\ text = told.size /\ text <= SizeMax
      /\ CutOf(reply, told.whole, AfterSize)
  BY <1>1 DEF QueryInv, Reading
<1>3. told.whole <=> reply # <<>>
  <2>1. PICK n \in 0..Len(AfterSize) :
            reply = SubSeq(AfterSize, 1, n) /\ (told.whole <=> n = Len(AfterSize))
    BY <1>2 DEF CutOf
  <2>2. AfterSize \in Seq(Byte) /\ Len(AfterSize) = 1
    BY TextIs
  <2>3. CASE n = 0
    <3>1. reply = <<>>
      BY <2>1, <2>3, SubSeqEmpty
    <3> QED
      BY <2>1, <2>2, <2>3, <3>1
  <2>4. CASE n = 1
    <3>1. reply = AfterSize
      BY <2>1, <2>2, <2>4, SubSeqFull
    <3>2. reply # <<>>
      BY <2>2, <3>1
    <3> QED
      BY <2>1, <2>2, <2>4, <3>2
  <2> QED
    BY <2>1, <2>2, <2>3, <2>4
<1>4. QueryTypeOK'
  <2>1. <<>> \in Seq(Byte)
    BY EmptySeq
  <2> QED
    BY <1>1, <2>1 DEF QueryInv, QueryTypeOK
<1>5. Requested' /\ Reading'
  BY <1>1 DEF QueryInv, Requested, Reading
<1>6. Concluded'
  BY <1>1, <1>2, <1>3 DEF Concluded
<1> QED
  BY <1>4, <1>5, <1>6 DEF QueryInv

\* Every step of the conversation keeps the invariant.
LEMMA NextQueryInv == QueryInv /\ [QueryNext]_queryVars => QueryInv'
<1> SUFFICES ASSUME QueryInv, [QueryNext]_queryVars PROVE QueryInv'
  OBVIOUS
<1>1. CASE Late
  <2>1. QueryTypeOK' /\ Requested' /\ Concluded'
    BY <1>1 DEF QueryInv, QueryTypeOK, Requested, Concluded, Late
  <2>2. Reading'
    BY <1>1 DEF QueryInv, Reading, Late
  <2> QED
    BY <2>1, <2>2 DEF QueryInv
<1>2. CASE UNCHANGED queryVars
  <2>1. QueryTypeOK' /\ Requested' /\ Concluded'
    BY <1>2 DEF QueryInv, QueryTypeOK, Requested, Concluded, queryVars
  <2>2. Reading'
    BY <1>2 DEF QueryInv, Reading, AfterLength, AfterId, AfterSize, queryVars
  <2> QED
    BY <2>1, <2>2 DEF QueryInv
<1> QED
  BY <1>1, <1>2, AskKeeps, AnswerKeeps, ReadsKeep, ReadTextKeeps DEF QueryNext

\* At every point of the conversation the unread bytes are what has come of
\* the rest of the reply (pc.go:89-132).
THEOREM QueryInvariance == QuerySpec => []QueryInv
  BY InitQueryInv, NextQueryInv, PTL DEF QuerySpec

\* Every byte written and read is one, and no number or answer is anything else
\* (pc.go:89-132).
THEOREM QueryTypeCorrect == QuerySpec => []QueryTypeOK
<1>1. QueryInv => QueryTypeOK
  BY DEF QueryInv
<1> QED
  BY <1>1, QueryInvariance, PTL

\* The server can tell the packets of a request apart; a count is taken exactly
\* from a whole status that is not too long, for any numbers and any place where
\* the connection ends (pc.go:94-111, 118-132).
THEOREM PacketsAlwaysAgree == QuerySpec => []PacketsAgree
<1>1. QueryInv => PacketsAgree
  <2> SUFFICES ASSUME QueryInv PROVE PacketsAgree
    OBVIOUS
  <2> QED
    BY RequestAgrees DEF QueryInv, Concluded, PacketsAgree
<1> QED
  BY <1>1, QueryInvariance, PTL
=============================================================================
