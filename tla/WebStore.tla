------------------------------- MODULE WebStore -------------------------------
(***************************************************************************)
(* What the web service keeps under run/ over its crashes and restarts:    *)
(* web.credentials, which loadOrCreatePassword reads or writes before the  *)
(* service listens (web/main.go), and player-count.bin, to which the       *)
(* recorder appends a sample of the server's status every five seconds     *)
(* while requests read it (web/pc.go).                                     *)
(*                                                                         *)
(* The mutex of PlayerCountStore makes an append and a read one step each. *)
(* How a count comes from the server is in StatusQuery.                    *)
(***************************************************************************)
EXTENDS Integers, Sequences, FiniteSets, SequencesExt

CONSTANTS
    Reported,     \* values of players.online that the server may report
    Windows,      \* values of the parameter points; 0 stands for none or no number
    WindowMax,    \* playerCountMaxPoints
    MaxPasswords, \* bound: passwords made
    MaxSamples    \* bound: samples taken

ASSUME WebAssumption ==
    /\ Reported \subseteq Int
    /\ Windows \subseteq Nat
    /\ WindowMax \in Nat \ {0}
    /\ MaxPasswords \in Nat /\ MaxSamples \in Nat

\* A record is eight bytes of time and two of count; here two and one, which
\* keeps the three ways to be off: by one, by two and, with both, not at all.
RecordSize == 3

VARIABLES
    service,     \* how far main of the web service is
    credentials, \* web.credentials: a password, whole or cut, or nothing
    password,    \* the one this service has in memory
    made,        \* how many have been made
    misread,     \* history: a read of web.credentials has failed
    granted,     \* history: the passwords a service has listened with
    file,        \* player-count.bin, byte by byte
    answer,      \* the last answer of /api/player-count
    kept         \* history: each sample taken, and where it was written whole

secrets == <<credentials, password, made, misread, granted>>
counts  == <<file, answer, kept>>
webVars == <<service, secrets, counts>>

Secret == [number : 1..MaxPasswords, whole : BOOLEAN]
Blank == [number |-> 0, whole |-> FALSE]  \* no file, an empty one, no service

WebTypeOK ==
    /\ service \in {"down", "creating", "writing", "up"}
    /\ credentials \in {Blank} \cup Secret
    /\ password \in {Blank} \cup Secret
    /\ made \in 0..MaxPasswords
    /\ misread \in BOOLEAN
    /\ granted \subseteq Secret
    /\ Len(file) <= RecordSize * MaxSamples
    /\ Len(kept) <= MaxSamples

WebInit ==
    /\ service = "down"
    /\ credentials = Blank
    /\ password = Blank
    /\ made = 0
    /\ misread = FALSE
    /\ granted = {}
    /\ file = <<>>
    /\ answer = [points |-> <<>>, total |-> 0, window |-> WindowMax]
    /\ kept = <<>>

-----------------------------------------------------------------------------
(* loadOrCreatePassword.                                                   *)

Listen(p) ==
    /\ service' = "up"
    /\ password' = p
    /\ granted' = granted \cup {p}

\* The file has something in it, which is taken for the password.
Load ==
    /\ service = "down"
    /\ credentials \in Secret
    /\ Listen(credentials)
    /\ UNCHANGED <<credentials, made, misread, counts>>

\* It has not, or cannot be read: a new password is made.
Make ==
    /\ service = "down"
    /\ made < MaxPasswords
    /\ \/ credentials \notin Secret /\ UNCHANGED misread
       \/ misread' = TRUE
    /\ made' = made + 1
    /\ password' = [number |-> made + 1, whole |-> TRUE]
    /\ service' = "creating"
    /\ UNCHANGED <<credentials, granted, counts>>

\* os.WriteFile empties the file or creates it ...
Empty ==
    /\ service = "creating"
    /\ service' = "writing"
    /\ credentials' = Blank
    /\ UNCHANGED <<password, made, misread, granted, counts>>

\* ... and writes.
Write ==
    /\ service = "writing"
    /\ credentials' = password
    /\ Listen(password)
    /\ UNCHANGED <<made, misread, counts>>

\* What has reached the file when a write has not come to its end.
CutShort == credentials' \in {credentials, [password EXCEPT !.whole = FALSE]}

\* Mutant: the error of os.WriteFile is not looked at.
WriteErrorIgnored ==
    /\ service = "writing"
    /\ CutShort
    /\ Listen(password)
    /\ UNCHANGED <<made, misread, counts>>

\* The file cannot be opened, or the write fails: main panics, and systemd
\* starts the service again.
WriteError ==
    /\ \/ service = "creating" /\ UNCHANGED credentials
       \/ service = "writing" /\ CutShort
    /\ service' = "down"
    /\ password' = Blank
    /\ UNCHANGED <<made, misread, granted, counts>>

\* The service dies between two steps.
WebDies ==
    /\ service # "down"
    /\ service' = "down"
    /\ password' = Blank
    /\ UNCHANGED <<credentials, made, misread, granted, counts>>

-----------------------------------------------------------------------------
(* PlayerCountStore.                                                       *)

\* What two bytes hold: the greatest count, and uint16(n).
GreatestCount == 256 * 256 - 1

TwoBytes(n) == n % (GreatestCount + 1)

\* Mutant: only the sign is looked at.
FitsUnbounded(online) == online >= 0

\* The count with which minecraftPlayerCount returns.  Where it returns an
\* error (no connection, a deadline, another packet) nothing changes.
Fits(online) == online >= 0 /\ online <= GreatestCount

\* The record of sample number n, in two and one bytes.
Record(n, count) == <<<<"time", n, 1>>, <<"time", n, 2>>, <<"count", n, count>>>>

\* Mutant: the file is opened without O_APPEND.
WrittenAtStart(bytes) == bytes \o SubSeq(file, Len(bytes) + 1, Len(file))

Appended(bytes) == file \o bytes

\* A tick of the recorder: sample and append.  n bytes are written, fewer than
\* a record when the disk is full or the service dies in the middle; the
\* error is printed and the bytes stay.
Sample(online, n) ==
    /\ service = "up"
    /\ Len(kept) < MaxSamples
    /\ Fits(online)
    /\ LET number == Len(kept) + 1
           record == Record(number, TwoBytes(online)) IN
           /\ file' = Appended(SubSeq(record, 1, n))
           /\ kept' = Append(kept, [online |-> online, at |-> Len(file), whole |-> n = RecordSize])
    /\ UNCHANGED <<service, secrets, answer>>

DiesInSample(online, n) ==
    /\ service = "up"
    /\ Len(kept) < MaxSamples
    /\ Fits(online)
    /\ n < RecordSize
    /\ LET record == Record(Len(kept) + 1, TwoBytes(online)) IN
           file' = Appended(SubSeq(record, 1, n))
    /\ kept' = Append(kept, [online |-> online, at |-> Len(file), whole |-> FALSE])
    /\ service' = "down"
    /\ password' = Blank
    /\ UNCHANGED <<credentials, made, misread, granted, answer>>

RecordAt(index) == SubSeq(file, index * RecordSize + 1, (index + 1) * RecordSize)

Total == (Len(file) - (Len(file) % RecordSize)) \div RecordSize

\* Mutant: the first of the points instead of the last.
FirstOfWindow(max) == 0

WindowStart(max) == IF Total > max THEN Total - max ELSE 0

\* handle and read: the last points of the file, at most max of them.
Query(window) ==
    /\ service = "up"
    /\ LET max == IF window \in 1..WindowMax THEN window ELSE WindowMax
           start == WindowStart(max)
           count == IF Total > max THEN max ELSE Total IN
           answer' = [points |-> [i \in 1..count |-> RecordAt(start + i - 1)],
                      total  |-> Total, window |-> max]
    /\ UNCHANGED <<service, secrets, file, kept>>

WebNext ==
    \/ Load \/ Make \/ Empty \/ Write \/ WriteError \/ WebDies
    \/ \E online \in Reported, n \in 0..RecordSize :
           Sample(online, n) \/ DiesInSample(online, n)
    \/ \E window \in Windows : Query(window)

WebSpec == WebInit /\ [][WebNext]_webVars

-----------------------------------------------------------------------------
(* Properties.                                                             *)

\* What a service asks its users for is in the file, so over all crashes
\* between the steps of the first start, failed writes and restarts it is one
\* and the same password, as long as no read of the file fails
\* (loadOrCreatePassword, web/main.go:178: an empty file is filled, one cut
\* short is taken as it is).
PasswordStays ==
    /\ service = "up" => credentials = password
    /\ misread \/ Cardinality(granted) <= 1

\* The points of the whole file.
Points == [i \in 1..Total |-> RecordAt(i - 1)]

\* A sample written whole where a record begins is read as the server reported
\* it: after lost bytes too, once they add up to a record (pc.go:52, 68, 114).
AlignedAreRead ==
    \A n \in DOMAIN kept :
        kept[n].whole /\ kept[n].at % RecordSize = 0
            => Points[(kept[n].at \div RecordSize) + 1] = Record(n, kept[n].online)

\* No restart, short write or crash changes a point once it can be read
\* (O_APPEND, and the size cut to whole records: pc.go:46, 68).
HistoryIsKept == [][IsPrefix(Points, Points')]_file

\* An answer is the end of the history as it was then: as many points as
\* asked for, none left out and none after it, also when a record was being
\* written or has been cut (read, pc.go:68).
AnswersAreTails ==
    LET n == Len(answer.points) IN
    /\ answer.total <= Total
    /\ n = (IF answer.total < answer.window THEN answer.total ELSE answer.window)
    /\ answer.points = SubSeq(Points, answer.total - n + 1, answer.total)
===============================================================================
