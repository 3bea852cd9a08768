----------------------------- MODULE Heartbeats -----------------------------
(***************************************************************************)
(* One tunnel connection in time: how the loops of its two ends,           *)
(* processTunnelMessages (internal/server/main.go) and                     *)
(* ProcessTunnelMessages (internal/client/main.go), find out that the      *)
(* other side is gone.  Both are the same loop with other times:           *)
(*   - before each read a timer is set; when it runs out a callback sends  *)
(*     a heartbeat and then sets a deadline for the read, in two calls;    *)
(*   - when the read returns the timer is stopped, which does not stop a   *)
(*     callback that has started, and the deadline is cleared.             *)
(*                                                                         *)
(* Time passes in ticks, and only when nothing is due: a goroutine takes   *)
(* no time, and no frame overtakes another. A frame takes from MinDelay to *)
(* MaxDelay ticks, or up to DataDelay if it carries a request or a         *)
(* response: from the write to the end of the read, including the time     *)
(* that it waits behind the frames before it, since those on their way     *)
(* travel side by side here. A write never blocks: a peer that reads       *)
(* nothing until the socket's buffer is full is not modelled. Nor is a     *)
(* connection that is replaced under a callback (see Reconnection).        *)
(***************************************************************************)
EXTENDS Integers, Sequences

CONSTANTS
    ServerTimeout,   \* HEARTBEAT_FROM_SERVER_TIMEOUT
    ClientTimeout,   \* HEARTBEAT_FROM_CLIENT_TIMEOUT
    ReadDeadline,    \* READ_DEADLINE
    MinDelay, MaxDelay, DataDelay,
    MaxFlight        \* bound: data frames are sent while fewer are on their way

ASSUME HeartbeatsAssumption ==
    /\ {ServerTimeout, ClientTimeout, ReadDeadline, MaxFlight} \subseteq Nat \ {0}
    /\ {MinDelay, MaxDelay, DataDelay} \subseteq Nat
    /\ MinDelay <= MaxDelay /\ MaxDelay <= DataDelay

Ends       == {"server", "client"}
Other(e)   == IF e = "server" THEN "client" ELSE "server"
Timeout(e) == IF e = "server" THEN ServerTimeout ELSE ClientTimeout
Off        == -1   \* a timer that is stopped, a deadline that is not set

VARIABLES
    alive,      \* the end's machine runs and its network works
    loop,       \* "reading", "timedOut" or "closed": it has left the connection
    timer,      \* ticks until the callback starts
    callback,   \* "none", "send" or "setDeadline": what it does next
    deadline,   \* ticks until the read fails
    wire,       \* frames on their way to the end, and the ticks each still takes
    quiet       \* history: ticks since the loop last read a frame

vars == <<alive, loop, timer, callback, deadline, wire, quiet>>

Types  == {"heartbeat", "ack", "data", "close"}
Frames == [type : Types, left : 0..DataDelay]

TypeOK ==
    /\ alive \in [Ends -> BOOLEAN]
    /\ loop \in [Ends -> {"reading", "timedOut", "closed"}]
    /\ callback \in [Ends -> {"none", "send", "setDeadline"}]
    /\ quiet \in [Ends -> Nat]
    /\ \A e \in Ends :
        /\ timer[e] \in {Off} \cup 0..Timeout(e)
        /\ deadline[e] \in {Off} \cup 0..ReadDeadline
        /\ Len(wire[e]) <= MaxFlight + 4
        /\ \A i \in DOMAIN wire[e] : wire[e][i] \in Frames

(* Both loops have just read a message of the tunnel's creation.           *)
Init ==
    /\ alive = [e \in Ends |-> TRUE] /\ loop = [e \in Ends |-> "reading"]
    /\ timer = [e \in Ends |-> Timeout(e)] /\ deadline = [e \in Ends |-> Off]
    /\ callback = [e \in Ends |-> "none"] /\ quiet = [e \in Ends |-> 0]
    /\ wire = [e \in Ends |-> <<>>]

Active(e) == alive[e] /\ loop[e] = "reading"

Delays == MinDelay..MaxDelay
Sent(w, e, type, d) == [w EXCEPT ![Other(e)] = Append(@, [type |-> type, left |-> d])]

(* time.AfterFunc starts the callback.                                     *)
TimerFires(e) ==
    /\ Active(e) /\ timer[e] = 0
    /\ timer' = [timer EXCEPT ![e] = Off] /\ callback' = [callback EXCEPT ![e] = "send"]
    /\ UNCHANGED <<alive, loop, deadline, wire, quiet>>

SendHeartbeat(e) ==
    /\ Active(e) /\ callback[e] = "send"
    /\ callback' = [callback EXCEPT ![e] = "setDeadline"]
    /\ \E d \in Delays : wire' = Sent(wire, e, "heartbeat", d)
    /\ UNCHANGED <<alive, loop, timer, deadline, quiet>>

\* mutant
DeadlineFromRead(e) == Timeout(e) + ReadDeadline

DeadlineFromNow(e) == ReadDeadline

SetDeadline(e) ==
    /\ Active(e) /\ callback[e] = "setDeadline"
    /\ callback' = [callback EXCEPT ![e] = "none"]
    /\ deadline' = [deadline EXCEPT ![e] = DeadlineFromNow(e)]
    /\ UNCHANGED <<alive, loop, timer, wire, quiet>>

Ready(e) == wire[e] # <<>> /\ Head(wire[e]).left = 0

\* mutant
KeepDeadline(e) == deadline

ClearDeadline(e) == [deadline EXCEPT ![e] = Off]

\* mutant
AnswerAll(type) == TRUE

AnswerTo(type) == type = "heartbeat"

(* The read returns a message: Stop, SetReadDeadline(time.Time{}), the     *)
(* message, and the next iteration's timer.                                *)
Receive(e) ==
    /\ Active(e) /\ Ready(e) /\ Head(wire[e]).type # "close"
    /\ timer' = [timer EXCEPT ![e] = Timeout(e)]
    /\ deadline' = ClearDeadline(e)
    /\ quiet' = [quiet EXCEPT ![e] = 0]
    /\ LET w == [wire EXCEPT ![e] = Tail(@)] IN
       IF AnswerTo(Head(wire[e]).type)
       THEN \E d \in Delays : wire' = Sent(w, e, "ack", d)
       ELSE wire' = w
    /\ UNCHANGED <<alive, loop, callback>>

(* Nothing of an end that leaves or dies matters any more.                 *)
StopClocks(e) ==
    /\ timer' = [timer EXCEPT ![e] = Off] /\ deadline' = [deadline EXCEPT ![e] = Off]
    /\ callback' = [callback EXCEPT ![e] = "none"] /\ quiet' = [quiet EXCEPT ![e] = 0]

Leave(e, why) ==
    /\ loop' = [loop EXCEPT ![e] = why]
    /\ StopClocks(e)
    /\ UNCHANGED alive

(* os.ErrDeadlineExceeded.  The server closes the connection; the client   *)
(* dials a new one and forgets this one without closing it.                *)
ReadTimesOut(e) ==
    /\ Active(e) /\ deadline[e] = 0
    /\ Leave(e, "timedOut")
    /\ \E d \in Delays :
           wire' = IF e = "server" THEN Sent(wire, e, "close", d) ELSE wire

(* The server ends the tunnel for a reason that is not about time.         *)
ServerCloses ==
    /\ Active("server")
    /\ Leave("server", "closed")
    /\ \E d \in Delays : wire' = Sent(wire, "server", "close", d)

ReadsEOF(e) ==
    /\ Active(e) /\ Ready(e) /\ Head(wire[e]).type = "close"
    /\ Leave(e, "closed")
    /\ wire' = [wire EXCEPT ![e] = <<>>]

(* REQUEST frames to the client, RESPONSE frames to the server.            *)
SendData(e) ==
    /\ Active(e) /\ Len(wire[Other(e)]) < MaxFlight
    /\ \E d \in MinDelay..DataDelay : wire' = Sent(wire, e, "data", d)
    /\ UNCHANGED <<alive, loop, timer, callback, deadline, quiet>>

(* The machine or its network stops without a word.                        *)
Die(e) ==
    /\ Active(e)
    /\ alive' = [alive EXCEPT ![e] = FALSE]
    /\ StopClocks(e)
    /\ UNCHANGED <<loop, wire>>

Due(e) == Active(e) /\ (timer[e] = 0 \/ deadline[e] = 0 \/ callback[e] # "none" \/ Ready(e))

Less(n)  == IF n > 0 THEN n - 1 ELSE n
Nearer(s) == [i \in DOMAIN s |-> [s[i] EXCEPT !.left = Less(@)]]

Tick ==
    /\ \A e \in Ends : ~Due(e)
    /\ timer' = [e \in Ends |-> Less(timer[e])]
    /\ deadline' = [e \in Ends |-> Less(deadline[e])]
    /\ wire' = [e \in Ends |-> IF Active(e) THEN Nearer(wire[e]) ELSE <<>>]
    /\ quiet' = [e \in Ends |-> IF Active(e) THEN quiet[e] + 1 ELSE 0]
    /\ UNCHANGED <<alive, loop, callback>>

Next ==
    \/ Tick \/ ServerCloses
    \/ \E e \in Ends : TimerFires(e) \/ SendHeartbeat(e) \/ SetDeadline(e) \/ Receive(e)
                       \/ ReadTimesOut(e) \/ ReadsEOF(e) \/ SendData(e) \/ Die(e)

Spec == Init /\ [][Next]_vars

-----------------------------------------------------------------------------
(* "if no response to heartbeat is received within that period, that means *)
(* the client has disconnected": an end is given up only when it is dead   *)
(* or has itself left the connection.                                      *)
LivePeerKept ==
    \A e \in Ends : loop[e] = "timedOut" => ~Active(Other(e))

(* No end waits for longer than its timer and the deadline together,       *)
(* however the callback and the reads interleave.                          *)
DeadPeerNoticed ==
    \A e \in Ends : quiet[e] <= Timeout(e) + ReadDeadline
=============================================================================
