------------------------------ MODULE StatusQuery ------------------------------
(***************************************************************************)
(* The conversation with the Minecraft server from which the recorder has  *)
(* its counts (minecraftPlayerCount, web/pc.go): two packets go out, one   *)
(* comes back, and the connection may end after any byte.  The server and  *)
(* its reply are external.                                                 *)
(***************************************************************************)
EXTENDS Integers, Sequences

CONSTANTS
    Ids,    \* numbers of packets that the server may answer with; 0 is a status
    Sizes,  \* sizes of the text in them
    SizeMax \* the longest text that is read (1024 * 1024); a packet with a text
            \* of this size, its number and the text's size is no longer than a
            \* number of five bytes can say

ASSUME QueryAssumption ==
    /\ Ids \subseteq Nat
    /\ Sizes \subseteq Nat \ {0}
    /\ SizeMax \in Nat /\ SizeMax < 128 * 128 * 128 * 128

VARIABLES
    step,     \* what is read next, or how it has ended
    sent,  \* the bytes written
    answered, \* the server has replied
    reply,    \* the bytes of its reply that have not been read
    text,     \* the size of the text, as read
    told      \* history: the reply, and whether it has come whole

queryVars == <<step, sent, answered, reply, text, told>>

Byte == 0..255

QueryTypeOK ==
    /\ step \in {"dial", "length", "id", "size", "text", "count", "error", "late"}
    /\ sent \in Seq(Byte) /\ reply \in Seq(Byte)
    /\ answered \in BOOLEAN
    /\ text \in Nat
    /\ told \in [id : Nat, size : Nat, whole : BOOLEAN]

QueryInit ==
    /\ step = "dial"
    /\ sent = <<>>
    /\ answered = FALSE
    /\ reply = <<>>
    /\ text = 0
    /\ told = [id |-> 0, size |-> 0, whole |-> FALSE]

-----------------------------------------------------------------------------
\* appendVarInt: seven bits to a byte, the lowest first; the eighth bit says
\* that more follow.
VarInt[v \in Nat] ==
    IF v < 128 THEN <<v>> ELSE <<128 + (v % 128)>> \o VarInt[v \div 128]

\* Mutant: value <<= 7 before each byte.
HighFirst[bytes \in Seq(Byte)] ==
    IF bytes = <<>> THEN 0
    ELSE (128 * HighFirst[SubSeq(bytes, 1, Len(bytes) - 1)]) + (bytes[Len(bytes)] % 128)

LowFirst[bytes \in Seq(Byte)] ==
    IF bytes = <<>> THEN 0 ELSE (bytes[1] % 128) + (128 * LowFirst[Tail(bytes)])

ValueHighFirst(bytes) == HighFirst[bytes]

\* The number that readVarInt makes of these bytes.
Value(bytes) == LowFirst[bytes]

BytesMax == 5  \* shift > 28

\* The length of the number at the head of bytes; 0 if none can be read.
NumberLength(bytes) ==
    LET ends == {n \in DOMAIN bytes : n <= BytesMax /\ bytes[n] < 128}
    IN  IF ends = {} THEN 0 ELSE CHOOSE n \in ends : \A m \in ends : n <= m

Number(bytes) == Value(SubSeq(bytes, 1, NumberLength(bytes)))
After(bytes) == SubSeq(bytes, NumberLength(bytes) + 1, Len(bytes))

\* writePacket.
Packet(payload) == VarInt[Len(payload)] \o payload

\* Packet 0: protocol 0, a name of nine letters, port 25565, 1 for a status.
Handshake ==
    VarInt[0] \o VarInt[0] \o VarInt[9] \o [i \in 1..9 |-> 108] \o <<99, 221>> \o VarInt[1]

StatusRequest == <<0>>

-----------------------------------------------------------------------------
Ask ==
    /\ step = "dial"
    /\ sent' = Packet(Handshake) \o Packet(StatusRequest)
    /\ step' = "length"
    /\ UNCHANGED <<answered, reply, text, told>>

\* The reply: its length, the number of the packet, the size of the text, and
\* the text, for which one byte stands.
Reply(id, size) ==
    LET head == VarInt[id] \o VarInt[size] IN VarInt[Len(head) + size] \o head \o <<123>>

\* The first n bytes of the reply come, then the connection ends.
Answer(id, size, n) ==
    /\ step = "length" /\ ~answered
    /\ n <= Len(Reply(id, size))
    /\ answered' = TRUE
    /\ reply' = SubSeq(Reply(id, size), 1, n)
    /\ told' = [id |-> id, size |-> size, whole |-> n = Len(Reply(id, size))]
    /\ UNCHANGED <<step, sent, text>>

\* Reads a number and goes on, or returns an error.
ReadNumber(here, next, accepted) ==
    /\ step = here /\ answered
    /\ step' = IF NumberLength(reply) > 0 /\ accepted THEN next ELSE "error"
    /\ reply' = After(reply)
    /\ UNCHANGED <<sent, answered, told>>

ReadLength == ReadNumber("length", "id", TRUE) /\ UNCHANGED text
ReadId == ReadNumber("id", "size", Number(reply) = 0) /\ UNCHANGED text
ReadSize == ReadNumber("size", "text", Number(reply) <= SizeMax) /\ text' = Number(reply)

\* io.ReadFull.
ReadText ==
    /\ step = "text"
    /\ step' = IF reply # <<>> THEN "count" ELSE "error"
    /\ reply' = <<>>
    /\ UNCHANGED <<sent, answered, text, told>>

\* The deadline has passed.
Late ==
    /\ step \in {"dial", "length", "id", "size", "text"}
    /\ step' = "late"
    /\ UNCHANGED <<sent, answered, reply, text, told>>

QueryNext ==
    \/ Ask \/ ReadLength \/ ReadId \/ ReadSize \/ ReadText \/ Late
    \/ \E id \in Ids, size \in Sizes : \E n \in 0..Len(Reply(id, size)) : Answer(id, size, n)

QuerySpec == QueryInit /\ [][QueryNext]_queryVars

-----------------------------------------------------------------------------
(* Properties.                                                             *)

\* The server can tell the two packets of a request apart; and a count is
\* taken from a reply exactly if that has come whole, is a status and is not
\* too long, wherever it has been cut and however many bytes its numbers have
\* (pc.go:94-111, 124, 129).
PacketsAgree ==
    /\ sent # <<>> =>
           LET first == After(sent)
               n == Number(sent)
           IN  /\ SubSeq(first, 1, n) = Handshake
               /\ SubSeq(first, n + 1, Len(first)) = Packet(StatusRequest)
    /\ step = "count" => told.whole /\ told.id = 0 /\ text = told.size /\ text <= SizeMax
    /\ step = "error" => ~told.whole \/ told.id # 0 \/ told.size > SizeMax
================================================================================
