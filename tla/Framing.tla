------------------------------- MODULE Framing -------------------------------
(***************************************************************************)
(* internal/protocol/main.go: the frames of one direction of a tunnel      *)
(* connection, byte by byte.  Goroutines of the sending side (Writers)     *)
(* write a frame each; the one reader of the other side takes the bytes    *)
(* apart again, as they come, until the connection ends in the middle of   *)
(* anything.  The sending side may run another version of the protocol.    *)
(***************************************************************************)
EXTENDS Naturals, Sequences, SequencesExt

CONSTANTS
    Writers,
    Nobody,          \* no writer
    Version,         \* TUNNEL_MESSAGE_PROTOCOL_VERSION
    OtherVersions,   \* of peers that were not updated
    LastType,        \* AUTH_TOKEN_LIMIT_EXCEEDED; REQUEST is 1
    Messages,        \* what a peer of this version may send: [type, data]
    OtherMessages,   \* what a peer of another version sends before it is answered
    MaxMessages      \* bound

Delimiter == 10
Digits    == 48..57
Byte      == 0..255

ASSUME FramingAssumption ==
    /\ Nobody \notin Writers
    /\ Version \in Byte /\ OtherVersions \subseteq Byte \ {Version}
    /\ LastType \in Nat \ {0} /\ LastType < 48
    /\ Messages \cup OtherMessages \subseteq [type : 1..LastType, data : Seq(Byte)]
    /\ MaxMessages \in Nat

VARIABLES
    version,   \* the sending side's version
    side,      \* the receiving side: "server" or "client"
    writer,    \* who is in Conn.Write, Nobody if no one
    rest,      \* the bytes it has not handed over yet
    stream,    \* bytes on their way
    cut,       \* the connection has ended
    sent,      \* the messages written, in the order of the writes
    reader,    \* "reading", or "ended" with its connection
    frame,     \* deserializeMessage: where it is and what it has read
    received,  \* the messages ReceiveMessage returned
    misread    \* history: ReceiveMessage returned an error that is not EOF

vars == <<version, side, writer, rest, stream, cut, sent, reader, frame, received, misread>>

-----------------------------------------------------------------------------
(* strconv.Itoa and strconv.Atoi                                           *)
Itoa[n \in Nat] ==
    IF n < 10 THEN <<48 + n>> ELSE Append(Itoa[n \div 10], 48 + (n % 10))

IsNumber(s) == s # <<>> /\ \A i \in DOMAIN s : s[i] \in Digits
Atoi[s \in Seq(Digits)] == IF s = <<>> THEN 0 ELSE 10 * Atoi[Front(s)] + (Last(s) - 48)

\* mutant
IsAnyType(b) == b \in Byte

IsValidTunnelMessageType(b) == b \in 1..LastType

\* mutant
SerializeNonEmpty(v, m) ==
    <<v, m.type>> \o Itoa[Len(m.data)]
        \o (IF m.data = <<>> THEN <<>> ELSE <<Delimiter>> \o m.data)

SerializeMessage(v, m) ==
    <<v, m.type>> \o Itoa[Len(m.data)] \o <<Delimiter>> \o m.data

(* No two bytes of what a peer of another version sends look like how a    *)
(* frame of this version begins. Before it is refused it sends             *)
(* CREATE_TUNNEL, RECLAIM_TUNNEL and HEARTBEAT_FROM_CLIENT; these hold     *)
(* this version, if at all, as the type, and a digit comes after that.     *)
NotTakenForOurs ==
    \A v \in OtherVersions, m \in OtherMessages :
        LET f == SerializeMessage(v, m) IN
        \A j \in 1..Len(f) : f[j] = Version => j < Len(f) /\ f[j + 1] \notin 1..LastType

Start == [at |-> "version", type |-> 0, digits |-> <<>>, left |-> 0, data |-> <<>>]

TypeOK ==
    /\ version \in {Version} \cup OtherVersions
    /\ side \in {"server", "client"}
    /\ writer \in Writers \cup {Nobody}
    /\ rest \in Seq(Byte) /\ stream \in Seq(Byte)
    /\ cut \in BOOLEAN /\ misread \in BOOLEAN
    /\ Len(sent) <= MaxMessages /\ Len(received) <= MaxMessages
    /\ reader \in {"reading", "ended"}
    /\ frame.at \in {"version", "type", "length", "data"}
    /\ frame.at \in {"length", "data"} => frame.type \in 1..LastType
    /\ frame.at = "data" =>
           frame.left > 0 /\ frame.left + Len(frame.data) = Atoi[frame.digits]

Init ==
    /\ version \in {Version} \cup OtherVersions
    /\ side \in {"server", "client"}
    /\ writer = Nobody /\ rest = <<>> /\ stream = <<>> /\ cut = FALSE /\ sent = <<>>
    /\ reader = "reading" /\ frame = Start /\ received = <<>> /\ misread = FALSE

-----------------------------------------------------------------------------
(* The sending side                                                        *)
readerVars == <<reader, frame, received, misread>>

\* mutant
NotWritingItself(w) == writer # w

(* Conn.Write locks the connection.                                        *)
MayWrite(w) == writer = Nobody

(* SendMessage: one Write of the whole frame, one writer at a time (of the *)
(* writes before it nothing is left).                                      *)
SendMessage(w, m) ==
    /\ Len(sent) < MaxMessages /\ ~cut
    /\ m \in IF version = Version THEN Messages ELSE OtherMessages
    /\ MayWrite(w)
    /\ writer' = w
    /\ rest' = SerializeMessage(version, m) \o rest
    /\ sent' = Append(sent, m)
    /\ UNCHANGED <<version, side, stream, cut, readerVars>>

(* The kernel takes some of the bytes at a time.                           *)
WriteSome ==
    /\ writer # Nobody
    /\ \E i \in 1..Len(rest) :
           /\ stream' = stream \o SubSeq(rest, 1, i)
           /\ rest' = SubSeq(rest, i + 1, Len(rest))
           /\ writer' = IF i = Len(rest) THEN Nobody ELSE writer
    /\ UNCHANGED <<version, side, cut, sent, readerVars>>

(* The connection ends: the bytes on their way arrive up to some point.    *)
Cut ==
    /\ ~cut
    /\ cut' = TRUE /\ writer' = Nobody /\ rest' = <<>>
    /\ \E i \in 0..Len(stream) : stream' = SubSeq(stream, 1, i)
    /\ UNCHANGED <<version, side, sent, readerVars>>

-----------------------------------------------------------------------------
(* The receiving side: deserializeMessage                                  *)
senderVars == <<version, side, writer, rest, cut, sent>>

Reads(at) == reader = "reading" /\ frame.at = at /\ stream # <<>>
byte      == Head(stream)

Keep(f) == frame' = f /\ UNCHANGED <<reader, received, misread>>

(* processTunnelMessages goes on after an error that is not a network      *)
(* error; the client ends (version) or dials again (anything else).        *)
Fail ==
    /\ misread' = TRUE /\ frame' = Start
    /\ reader' = IF side = "server" THEN "reading" ELSE "ended"
    /\ UNCHANGED received

Return(m) ==
    /\ received' = Append(received, m) /\ frame' = Start
    /\ UNCHANGED <<reader, misread>>

TakeByte == stream' = Tail(stream) /\ UNCHANGED senderVars

ReadVersion ==
    /\ Reads("version")
    /\ IF byte = Version THEN Keep([frame EXCEPT !.at = "type"]) ELSE Fail
    /\ TakeByte

ReadType ==
    /\ Reads("type")
    /\ IF IsValidTunnelMessageType(byte)
       THEN Keep([frame EXCEPT !.at = "length", !.type = byte]) ELSE Fail
    /\ TakeByte

\* mutant
LengthWithDelimiter(digits) == Atoi[digits] + 1

LengthOf(digits) == Atoi[digits]

(* ReadString('\n'), Atoi and, for a length of 0, readMessageData.         *)
ReadLength ==
    /\ Reads("length")
    /\ IF byte # Delimiter THEN Keep([frame EXCEPT !.digits = Append(@, byte)])
       ELSE IF ~IsNumber(frame.digits) THEN Fail
       ELSE LET n == LengthOf(frame.digits) IN
            IF n = 0 THEN Return([type |-> frame.type, data |-> <<>>])
                     ELSE Keep([frame EXCEPT !.at = "data", !.left = n])
    /\ TakeByte

(* readMessageData: io.ReadFull                                            *)
ReadData ==
    /\ Reads("data")
    /\ IF frame.left = 1
       THEN Return([type |-> frame.type, data |-> Append(frame.data, byte)])
       ELSE Keep([frame EXCEPT !.left = @ - 1, !.data = Append(@, byte)])
    /\ TakeByte

(* io.EOF or io.ErrUnexpectedEOF: what was read of a frame is dropped.     *)
ReadEOF ==
    /\ reader = "reading" /\ stream = <<>> /\ cut
    /\ reader' = "ended" /\ frame' = Start
    /\ UNCHANGED <<stream, senderVars, received, misread>>

ReadByte == ReadVersion \/ ReadType \/ ReadLength \/ ReadData

Next ==
    \/ \E w \in Writers, m \in Messages \cup OtherMessages : SendMessage(w, m)
    \/ WriteSome \/ Cut
    \/ ReadByte \/ ReadEOF

Spec     == Init /\ [][Next]_vars
FairSpec == Spec /\ WF_vars(WriteSome) /\ WF_vars(ReadByte)

-----------------------------------------------------------------------------
(* Properties                                                              *)

(* The messages of a peer of this version are received whole, once and in  *)
(* order whatever bytes they carry and however their writers interleave;   *)
(* of a peer of another version nothing is ever taken for a message.       *)
Channel == INSTANCE MessageChannel WITH
    sent <- IF version = Version THEN sent ELSE <<>>
IsChannel == Channel!Spec

(* Between peers of one version the reader is never out of step: where the *)
(* server goes on after an error, it does not go on in the middle of a     *)
(* frame.                                                                  *)
InStep == version = Version => ~misread

(* A written message is received unless the connection ends: the reader    *)
(* does not wait for a byte that is not coming.                            *)
AllArrive ==
    \A n \in 1..MaxMessages :
        Len(sent) >= n /\ version = Version ~> Len(received) >= n \/ cut
=============================================================================
