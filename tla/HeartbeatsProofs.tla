-------------------------- MODULE HeartbeatsProofs --------------------------
(***************************************************************************)
(* The two promises of the heartbeats, for every timeout and deadline, and *)
(* type correctness.                                                       *)
(* ClockInv gives DeadPeerNoticed, for every delay. The argument is about  *)
(* one end alone, since nothing of the other one restarts the clock but a  *)
(* frame that is read:                                                     *)
(*   - while the timer runs, it and the silence add up to its time;        *)
(*   - when it has run out, the time stands still until the callback is    *)
(*     through, whether or not the callback is from an earlier iteration;  *)
(*   - after that a deadline is set, and it and the silence add up to no   *)
(*     more than the two times together.                                   *)
(* AnswerInv gives LivePeerKept, where the deadline is longer than two     *)
(* frames may take and no frame arrives in the tick it was sent in. The    *)
(* argument is about both ends and what is on its way between them: an end *)
(* with a deadline and a peer that still reads has a frame that comes      *)
(* before the deadline, or a heartbeat that reaches the peer so early that *)
(* its answer does. Both conditions are needed: SlowFrame.cfg and          *)
(* StaleDeadline.cfg each drop one.                                        *)
(* FlightInv gives TypeOK, where a frame is read sooner than the next beat *)
(* is due. The hard part is how many frames are on their way, besides the  *)
(* data the bound allows: one heartbeat, since the next one is a timeout   *)
(* away; two acknowledgements, since their heartbeats were; and one end of *)
(* the stream. It says so with times: how soon a heartbeat or an           *)
(* acknowledgement that is on its way will have been read.                 *)
(***************************************************************************)
EXTENDS Heartbeats, SequenceTheorems, TLAPS

ClockTypes ==
    /\ alive \in [Ends -> BOOLEAN]
    /\ loop \in [Ends -> {"reading", "timedOut", "closed"}]
    /\ callback \in [Ends -> {"none", "send", "setDeadline"}]
    /\ timer \in [Ends -> {Off} \cup Nat]
    /\ deadline \in [Ends -> {Off} \cup Nat]
    /\ quiet \in [Ends -> Nat]

(* An end that has died or left keeps no clock.                            *)
StillAtRest(e) ==
    ~Active(e) => timer[e] = Off /\ deadline[e] = Off /\ quiet[e] = 0

TimerAhead(e) == timer[e] # Off => quiet[e] + timer[e] = Timeout(e)

CallbackDue(e) ==
    Active(e) /\ timer[e] = Off /\ callback[e] # "none" => quiet[e] = Timeout(e)

DeadlineAhead(e) ==
    Active(e) /\ timer[e] = Off /\ callback[e] = "none" =>
        /\ deadline[e] # Off
        /\ quiet[e] + deadline[e] <= Timeout(e) + ReadDeadline

Clocks(e) == StillAtRest(e) /\ TimerAhead(e) /\ CallbackDue(e) /\ DeadlineAhead(e)

ClockInv == ClockTypes /\ \A e \in Ends : Clocks(e)

(* The times of an end are positive.                                       *)
LEMMA TimesPositive ==
    /\ \A e \in Ends : Timeout(e) \in Nat \ {0}
    /\ ReadDeadline \in Nat \ {0}
BY HeartbeatsAssumption DEF Ends, Timeout

(* The timer of the first read is set, nothing has been waited for yet.    *)
LEMMA ClockInit == Init => ClockInv
BY TimesPositive
DEF Init, ClockInv, ClockTypes, Clocks, StillAtRest, TimerAhead, CallbackDue,
    DeadlineAhead, Active, Off

(* Steps of the callback: the second one starts the deadline.              *)
LEMMA CallbackKeepsClocks ==
    ASSUME ClockInv, NEW e \in Ends,
           TimerFires(e) \/ SendHeartbeat(e) \/ SetDeadline(e)
    PROVE  ClockInv'
<1> USE TimesPositive DEF ClockInv, ClockTypes, Active
<1>1. CASE TimerFires(e)
  <2>1. ClockTypes'
    BY <1>1 DEF TimerFires
  <2>2. ASSUME NEW f \in Ends PROVE Clocks(f)'
    BY <1>1 DEF TimerFires, Clocks, StillAtRest, TimerAhead, CallbackDue, DeadlineAhead,
                Timeout, Off
  <2> QED BY <2>1, <2>2
<1>2. CASE SendHeartbeat(e)
  <2>1. ClockTypes'
    BY <1>2 DEF SendHeartbeat
  <2>2. ASSUME NEW f \in Ends PROVE Clocks(f)'
    BY <1>2 DEF SendHeartbeat, Clocks, StillAtRest, TimerAhead, CallbackDue, DeadlineAhead,
                Timeout, Off
  <2> QED BY <2>1, <2>2
<1>3. CASE SetDeadline(e)
  <2>1. ClockTypes'
    BY <1>3 DEF SetDeadline, DeadlineFromNow
  <2>2. ASSUME NEW f \in Ends PROVE Clocks(f)'
    BY <1>3 DEF SetDeadline, DeadlineFromNow, Clocks, StillAtRest, TimerAhead,
        CallbackDue, DeadlineAhead,
                Timeout, Off
  <2> QED BY <2>1, <2>2
<1> QED BY <1>1, <1>2, <1>3

(* A frame that is read starts the timer again.                            *)
LEMMA ReceiveKeepsClocks ==
    ASSUME ClockInv, NEW e \in Ends, Receive(e)
    PROVE  ClockInv'
<1> USE TimesPositive DEF ClockInv, ClockTypes, Active, Receive, ClearDeadline
<1>1. ClockTypes'
  BY DEF Off
<1>2. ASSUME NEW f \in Ends PROVE Clocks(f)'
  BY DEF Clocks, StillAtRest, TimerAhead, CallbackDue, DeadlineAhead, Timeout, Off
<1> QED BY <1>1, <1>2

(* An end that leaves the connection, however, stops its clocks.           *)
LEMMA LeaveKeepsClocks ==
    ASSUME ClockInv, NEW e \in Ends, NEW why \in {"timedOut", "closed"},
           Leave(e, why)
    PROVE  ClockInv'
<1> USE DEF ClockInv, ClockTypes, Active, Leave, StopClocks
<1>1. ClockTypes'
  BY DEF Off
<1>2. ASSUME NEW f \in Ends PROVE Clocks(f)'
  BY DEF Clocks, StillAtRest, TimerAhead, CallbackDue, DeadlineAhead, Timeout, Off
<1> QED BY <1>1, <1>2

(* So does one whose machine stops.                                        *)
LEMMA DieKeepsClocks ==
    ASSUME ClockInv, NEW e \in Ends, Die(e)
    PROVE  ClockInv'
<1> USE DEF ClockInv, ClockTypes, Active, Die, StopClocks
<1>1. ClockTypes'
  BY DEF Off
<1>2. ASSUME NEW f \in Ends PROVE Clocks(f)'
  BY DEF Clocks, StillAtRest, TimerAhead, CallbackDue, DeadlineAhead, Timeout, Off
<1> QED BY <1>1, <1>2

(* A tick passes from the clock that runs to the silence; it passes only   *)
(* when no callback is under way and no clock has run out.                 *)
LEMMA TickKeepsClocks ==
    ASSUME ClockInv, Tick
    PROVE  ClockInv'
<1> USE TimesPositive DEF ClockInv, ClockTypes, Active, Tick, Less
<1>1. ClockTypes'
  BY DEF Off
<1>2. ASSUME NEW f \in Ends PROVE Clocks(f)'
  <2>1. CASE Active(f)
    BY <2>1 DEF Due, Clocks, StillAtRest, TimerAhead, CallbackDue, DeadlineAhead, Timeout, Off
  <2>2. CASE ~Active(f)
    BY <2>2 DEF Clocks, StillAtRest, TimerAhead, CallbackDue, DeadlineAhead, Timeout, Off
  <2> QED BY <2>1, <2>2
<1> QED BY <1>1, <1>2

(* Every step keeps the clocks in order.                                   *)
LEMMA ClockStep == ClockInv /\ [Next]_vars => ClockInv'
<1> SUFFICES ASSUME ClockInv, [Next]_vars PROVE ClockInv'
  OBVIOUS
<1>1. CASE Tick
  BY <1>1, TickKeepsClocks
<1>2. CASE ServerCloses
  <2>1. Leave("server", "closed")
    BY <1>2 DEF ServerCloses
  <2> QED BY <2>1, LeaveKeepsClocks DEF Ends
<1>3. ASSUME NEW e \in Ends, TimerFires(e) \/ SendHeartbeat(e) \/ SetDeadline(e)
      PROVE ClockInv'
  BY <1>3, CallbackKeepsClocks
<1>4. ASSUME NEW e \in Ends, Receive(e) PROVE ClockInv'
  BY <1>4, ReceiveKeepsClocks
<1>5. ASSUME NEW e \in Ends, ReadTimesOut(e) PROVE ClockInv'
  <2>1. Leave(e, "timedOut")
    BY <1>5 DEF ReadTimesOut
  <2> QED BY <2>1, LeaveKeepsClocks
<1>6. ASSUME NEW e \in Ends, ReadsEOF(e) PROVE ClockInv'
  <2>1. Leave(e, "closed")
    BY <1>6 DEF ReadsEOF
  <2> QED BY <2>1, LeaveKeepsClocks
<1>7. ASSUME NEW e \in Ends, SendData(e) PROVE ClockInv'
  BY <1>7 DEF SendData, ClockInv, ClockTypes, Active, Clocks, StillAtRest, TimerAhead,
              CallbackDue, DeadlineAhead
<1>8. ASSUME NEW e \in Ends, Die(e) PROVE ClockInv'
  BY <1>8, DieKeepsClocks
<1>9. CASE UNCHANGED vars
  BY <1>9 DEF vars, ClockInv, ClockTypes, Active, Clocks, StillAtRest, TimerAhead,
              CallbackDue, DeadlineAhead
<1> QED
  BY <1>1, <1>2, <1>3, <1>4, <1>5, <1>6, <1>7, <1>8, <1>9 DEF Next

(* Clocks in order leave no end waiting for longer than the two times.     *)
LEMMA ClocksBoundSilence == ClockInv => DeadPeerNoticed
<1> SUFFICES ASSUME ClockInv, NEW e \in Ends
             PROVE  quiet[e] <= Timeout(e) + ReadDeadline
  BY DEF DeadPeerNoticed
<1> USE TimesPositive DEF ClockInv, ClockTypes, Clocks
<1>1. CASE ~Active(e)
  BY <1>1 DEF StillAtRest
<1>2. CASE timer[e] # Off
  BY <1>2 DEF TimerAhead
<1>3. CASE Active(e) /\ timer[e] = Off /\ callback[e] # "none"
  BY <1>3 DEF CallbackDue
<1>4. CASE Active(e) /\ timer[e] = Off /\ callback[e] = "none"
  BY <1>4 DEF DeadlineAhead
<1> QED BY <1>1, <1>2, <1>3, <1>4

(* Neither loop waits for a silent peer for longer than its timer and the  *)
(* read deadline together, with any times and any delays of the network,   *)
(* and however the callback and the reads interleave.                      *)
THEOREM DeadPeersAreNoticed == Spec => []DeadPeerNoticed
BY ClockInit, ClockStep, ClocksBoundSilence, PTL DEF Spec

-----------------------------------------------------------------------------
(* A heartbeat arrives in less than n ticks, with every frame before it.   *)
HeartbeatWithin(s, n) ==
    \E i \in DOMAIN s : s[i].type = "heartbeat" /\ \A j \in 1..i : s[j].left < n

(* A heartbeat that does not arrive in this tick.                          *)
UnreadHeartbeat(s) == \E i \in DOMAIN s : s[i].type = "heartbeat" /\ s[i].left > 0

(* Between the two calls of the callback its heartbeat is on its way.      *)
Asked(e) ==
    Active(e) /\ Active(Other(e)) /\ callback[e] = "setDeadline" =>
        UnreadHeartbeat(wire[Other(e)])

(* What keeps a deadline from running out.                                 *)
AnswerComes(e) ==
    Active(e) /\ Active(Other(e)) /\ deadline[e] # Off =>
        \/ wire[e] # <<>> /\ Head(wire[e]).left < deadline[e]
        \/ HeartbeatWithin(wire[Other(e)], deadline[e] - DataDelay)

AnswerInv ==
    /\ alive \in [Ends -> BOOLEAN]
    /\ loop \in [Ends -> {"reading", "timedOut", "closed"}]
    /\ callback \in [Ends -> {"none", "send", "setDeadline"}]
    /\ deadline \in [Ends -> {Off} \cup Nat]
    /\ wire \in [Ends -> Seq(Frames)]
    /\ \A e \in Ends : Asked(e) /\ AnswerComes(e)
    /\ LivePeerKept
-----------------------------------------------------------------------------
(* A frame that is sent overtakes none.                                    *)
LEMMA Appended ==
    ASSUME NEW s \in Seq(Frames), NEW f \in Frames
    PROVE  /\ Append(s, f) \in Seq(Frames) /\ Append(s, f) # <<>>
           /\ s # <<>> => Head(Append(s, f)) = Head(s)
           /\ s = <<>> => Head(Append(s, f)) = f
           /\ UnreadHeartbeat(s) => UnreadHeartbeat(Append(s, f))
           /\ f.type = "heartbeat" /\ f.left > 0 => UnreadHeartbeat(Append(s, f))
           /\ \A n \in Int : HeartbeatWithin(s, n) => HeartbeatWithin(Append(s, f), n)
<1> DEFINE a == Append(s, f)
<1>1. /\ a \in Seq(Frames) /\ a # <<>> /\ Len(a) = Len(s) + 1
      /\ \A i \in 1..Len(s) : a[i] = s[i]
      /\ a[Len(s) + 1] = f
  BY AppendProperties
<1>2. Len(s) \in Nat /\ DOMAIN s = 1..Len(s) /\ DOMAIN a = 1..Len(a)
  BY <1>1, LenProperties
<1>3. /\ s # <<>> => Head(a) = Head(s)
      /\ s = <<>> => Head(a) = f
  BY HeadTailAppend, Zenon
<1> HIDE DEF a
<1>4. UnreadHeartbeat(s) => UnreadHeartbeat(a)
  BY <1>1, <1>2 DEF UnreadHeartbeat
<1>5. f.type = "heartbeat" /\ f.left > 0 => UnreadHeartbeat(a)
  BY <1>1, <1>2 DEF UnreadHeartbeat
<1>6. ASSUME NEW n \in Int, HeartbeatWithin(s, n) PROVE HeartbeatWithin(a, n)
  BY <1>1, <1>2, <1>6 DEF HeartbeatWithin
<1> QED BY <1>1, <1>3, <1>4, <1>5, <1>6 DEF a

(* The frame that is read arrived before the heartbeat behind it.          *)
LEMMA TailOf ==
    ASSUME NEW s \in Seq(Frames), s # <<>>
    PROVE  /\ Head(s) = s[1] /\ Head(s) \in Frames /\ Tail(s) \in Seq(Frames)
           /\ UnreadHeartbeat(s) /\ Head(s).left = 0 => UnreadHeartbeat(Tail(s))
           /\ \A n \in Int : HeartbeatWithin(s, n) =>
                  /\ Head(s).left < n
                  /\ Head(s).type # "heartbeat" => HeartbeatWithin(Tail(s), n)
<1>1. /\ Head(s) \in Frames /\ Tail(s) \in Seq(Frames) /\ Len(Tail(s)) = Len(s) - 1
      /\ \A i \in 1..Len(Tail(s)) : Tail(s)[i] = s[i + 1]
  BY HeadTailProperties
<1>2. Len(s) \in Nat \ {0} /\ DOMAIN s = 1..Len(s) /\ DOMAIN Tail(s) = 1..(Len(s) - 1)
  BY <1>1, EmptySeq, LenProperties
<1>3. Head(s) = s[1]
  BY <1>2
<1> DEFINE r == Tail(s)
<1> HIDE DEF r
<1>4. /\ DOMAIN r = 1..(Len(s) - 1)
      /\ \A i \in 2..Len(s) : i - 1 \in DOMAIN r /\ r[i - 1] = s[i]
  <2>1. DOMAIN r = 1..(Len(s) - 1)
    BY <1>2 DEF r
  <2>2. ASSUME NEW i \in 2..Len(s) PROVE i - 1 \in DOMAIN r /\ r[i - 1] = s[i]
    <3>1. i - 1 \in 1..Len(Tail(s)) /\ (i - 1) + 1 = i
      BY <1>1, <1>2
    <3>2. Tail(s)[i - 1] = s[(i - 1) + 1]
      BY <1>1, <3>1
    <3> QED BY <1>1, <2>1, <3>1, <3>2 DEF r
  <2> QED BY <2>1, <2>2
<1>5. ASSUME UnreadHeartbeat(s), Head(s).left = 0 PROVE UnreadHeartbeat(r)
  <2>1. PICK i \in DOMAIN s : s[i].type = "heartbeat" /\ s[i].left > 0
    BY <1>5 DEF UnreadHeartbeat
  <2>2. i \in 2..Len(s)
    BY <1>2, <1>3, <1>5, <2>1
  <2> QED BY <1>4, <2>1, <2>2 DEF UnreadHeartbeat
<1>6. ASSUME NEW n \in Int, HeartbeatWithin(s, n)
      PROVE  Head(s).left < n /\ (Head(s).type # "heartbeat" => HeartbeatWithin(r, n))
  <2>1. PICK i \in DOMAIN s : s[i].type = "heartbeat" /\ \A j \in 1..i : s[j].left < n
    BY <1>6 DEF HeartbeatWithin
  <2>2. Head(s).left < n
    BY <1>2, <1>3, <2>1
  <2>3. ASSUME Head(s).type # "heartbeat" PROVE HeartbeatWithin(r, n)
    <3>1. i \in 2..Len(s)
      BY <1>2, <1>3, <2>1, <2>3
    <3>2. \A j \in 1..(i - 1) : r[j] = s[j + 1] /\ j + 1 \in 1..i
      BY <1>1, <1>2, <3>1 DEF r
    <3> QED BY <1>4, <2>1, <3>1, <3>2 DEF HeartbeatWithin
  <2> QED BY <2>2, <2>3
<1> QED BY <1>1, <1>3, <1>5, <1>6 DEF r

(* A tick brings every frame nearer, a heartbeat that is not yet there     *)
(* too.                                                                    *)
LEMMA NearerFrames ==
    ASSUME NEW s \in Seq(Frames)
    PROVE  /\ Nearer(s) \in Seq(Frames)
           /\ s # <<>> => /\ Nearer(s) # <<>> /\ Head(s).left \in Nat
                          /\ Head(Nearer(s)).left = Less(Head(s).left)
           /\ \A n \in Int : HeartbeatWithin(s, n) /\ Head(s).left > 0 =>
                  s # <<>> /\ HeartbeatWithin(Nearer(s), n - 1)
<1> DEFINE t == Nearer(s)
<1>1. /\ DOMAIN s = 1..Len(s) /\ Len(s) \in Nat
      /\ \A i \in 1..Len(s) : s[i] \in Frames
  BY LenProperties
<1>2. DOMAIN t = 1..Len(s) /\ \A i \in 1..Len(s) : t[i] = [s[i] EXCEPT !.left = Less(s[i].left)]
  BY <1>1 DEF Nearer
<1>3. \A i \in 1..Len(s) : /\ s[i].left \in 0..DataDelay
                           /\ t[i].type = s[i].type /\ t[i].left = Less(s[i].left)
                           /\ t[i] \in Frames
  <2> SUFFICES ASSUME NEW i \in 1..Len(s)
               PROVE  /\ s[i].left \in 0..DataDelay
                      /\ t[i].type = s[i].type /\ t[i].left = Less(s[i].left)
                      /\ t[i] \in Frames
    OBVIOUS
  <2>1. s[i] \in [type : Types, left : 0..DataDelay]
    BY <1>1 DEF Frames
  <2>2. t[i] = [s[i] EXCEPT !.left = Less(s[i].left)]
    BY <1>2
  <2>3. Less(s[i].left) \in 0..DataDelay
    BY <2>1, HeartbeatsAssumption DEF Less
  <2> HIDE DEF t
  <2> QED BY <2>1, <2>2, <2>3 DEF Frames
<1>4. t \in Seq(Frames) /\ Len(t) = Len(s)
  <2>1. t = [i \in 1..Len(s) |-> t[i]]
    BY <1>1 DEF Nearer
  <2>2. t \in [1..Len(s) -> Frames]
    BY <1>2, <1>3, <2>1
  <2>3. t \in Seq(Frames)
    BY <1>1, <2>2, IsASeq
  <2> QED BY <1>1, <1>2, <2>3, LenProperties
<1> HIDE DEF t
<1>5. ASSUME s # <<>>
      PROVE  /\ t # <<>> /\ Head(s).left \in Nat /\ Head(t).left = Less(Head(s).left)
             /\ Head(s) = s[1] /\ 1 \in 1..Len(s)
  <2>1. Len(s) >= 1 /\ Len(t) >= 1
    BY <1>1, <1>4, <1>5, EmptySeq
  <2>2. t # <<>> /\ Head(t) = t[1] /\ Head(s) = s[1]
    BY <1>4, <2>1
  <2> QED BY <1>1, <1>3, <2>1, <2>2
<1>6. ASSUME NEW n \in Int, HeartbeatWithin(s, n), Head(s).left > 0
      PROVE  s # <<>> /\ HeartbeatWithin(t, n - 1)
  <2>1. PICK i \in DOMAIN s : s[i].type = "heartbeat" /\ \A j \in 1..i : s[j].left < n
    BY <1>6 DEF HeartbeatWithin
  <2>2. s # <<>>
    BY <1>1, <2>1
  <2>3. n > 1
    BY <1>1, <1>5, <1>6, <2>1, <2>2
  <2>4. \A j \in 1..i : t[j].left < n - 1
    BY <1>1, <1>3, <2>1, <2>3 DEF Less
  <2> QED BY <1>1, <1>2, <1>3, <2>1, <2>2, <2>4 DEF HeartbeatWithin
<1> QED BY <1>4, <1>5, <1>6 DEF t

(* No frame takes longer than one with data.                               *)
LEMMA DelaysOrdered ==
    /\ MinDelay \in Nat /\ MaxDelay \in Nat /\ DataDelay \in Nat
    /\ MinDelay <= MaxDelay /\ MaxDelay <= DataDelay
    /\ \A d \in Delays : d \in MinDelay..DataDelay
    /\ \A d \in MinDelay..DataDelay : d \in Int /\ MinDelay <= d /\ d <= DataDelay
<1>1. /\ MinDelay \in Nat /\ MaxDelay \in Nat /\ DataDelay \in Nat
      /\ MinDelay <= MaxDelay /\ MaxDelay <= DataDelay
  BY HeartbeatsAssumption
<1> QED BY <1>1 DEF Delays

(* The ends of the connection.                                             *)
LEMMA EndsAreTwo ==
    /\ "server" \in Ends
    /\ \A e \in Ends : Other(e) \in Ends /\ Other(e) # e /\ Other(Other(e)) = e
    /\ \A e, f \in Ends : f = e \/ f = Other(e)
BY DEF Ends, Other

(* What is sent is the last frame on the other end's wire.                 *)
LEMMA SentFrame ==
    ASSUME NEW w \in [Ends -> Seq(Frames)], NEW e \in Ends, NEW type \in Types,
           NEW d \in Int, MinDelay <= d, d <= DataDelay
    PROVE  /\ [type |-> type, left |-> d] \in Frames
           /\ Sent(w, e, type, d) \in [Ends -> Seq(Frames)]
           /\ Sent(w, e, type, d)[e] = w[e]
           /\ Sent(w, e, type, d)[Other(e)] =
                  Append(w[Other(e)], [type |-> type, left |-> d])
<1> DEFINE f == [type |-> type, left |-> d]
<1>1. f \in Frames
  BY HeartbeatsAssumption DEF Frames
<1>2. Append(w[Other(e)], f) \in Seq(Frames)
  BY <1>1, EndsAreTwo, Appended
<1> HIDE DEF f
<1>3. Sent(w, e, type, d) = [w EXCEPT ![Other(e)] = Append(w[Other(e)], f)]
  BY DEF Sent, f
<1> QED BY <1>1, <1>2, <1>3, EndsAreTwo DEF f

(* Once an end is gone nothing has to be shown but that it left for a      *)
(* reason.                                                                 *)
LEMMA OneGone ==
    ASSUME AnswerInv, NEW e \in Ends, ~Active(e)',
           alive' \in [Ends -> BOOLEAN], loop' \in [Ends -> {"reading", "timedOut", "closed"}],
           callback' \in [Ends -> {"none", "send", "setDeadline"}],
           deadline' \in [Ends -> {Off} \cup Nat], wire' \in [Ends -> Seq(Frames)],
           alive'[Other(e)] = alive[Other(e)], loop'[Other(e)] = loop[Other(e)],
           loop'[e] = "timedOut" => loop[e] = "timedOut" \/ ~Active(Other(e))
    PROVE  AnswerInv'
<1>1. ASSUME NEW f \in Ends PROVE (Asked(f) /\ AnswerComes(f))'
  BY EndsAreTwo DEF Asked, AnswerComes, Active
<1>2. ASSUME NEW f \in Ends, loop'[f] = "timedOut" PROVE ~Active(Other(f))'
  <2>1. CASE f = e
    <3>1. ~Active(Other(e))
      BY <1>2, <2>1 DEF AnswerInv, LivePeerKept
    <3> QED BY <2>1, <3>1 DEF Active
  <2>2. CASE f = Other(e)
    BY <2>2, EndsAreTwo
  <2> QED BY <2>1, <2>2, EndsAreTwo
<1> QED BY <1>1, <1>2 DEF AnswerInv, LivePeerKept

(* An end that leaves,                                                     *)
LEMMA LeaveGone ==
    ASSUME AnswerInv, NEW e \in Ends, NEW why \in {"timedOut", "closed"}, Leave(e, why),
           wire' \in [Ends -> Seq(Frames)],
           why = "timedOut" => ~Active(Other(e))
    PROVE  AnswerInv'
<1> USE DEF AnswerInv, Leave, StopClocks
<1>1. ~Active(e)'
  BY DEF Active
<1>2. /\ alive' \in [Ends -> BOOLEAN] /\ loop' \in [Ends -> {"reading", "timedOut", "closed"}]
      /\ callback' \in [Ends -> {"none", "send", "setDeadline"}]
      /\ deadline' \in [Ends -> {Off} \cup Nat]
  BY DEF Off
<1>3. /\ alive'[Other(e)] = alive[Other(e)] /\ loop'[Other(e)] = loop[Other(e)]
      /\ loop'[e] = why
  BY EndsAreTwo
<1> QED BY <1>1, <1>2, <1>3, OneGone

(* and one that dies.                                                      *)
LEMMA DieGone ==
    ASSUME AnswerInv, NEW e \in Ends, Die(e)
    PROVE  AnswerInv'
<1> USE DEF AnswerInv, Die, StopClocks
<1>1. ~Active(e)'
  BY DEF Active
<1>2. /\ alive' \in [Ends -> BOOLEAN] /\ loop' \in [Ends -> {"reading", "timedOut", "closed"}]
      /\ callback' \in [Ends -> {"none", "send", "setDeadline"}]
      /\ deadline' \in [Ends -> {Off} \cup Nat] /\ wire' \in [Ends -> Seq(Frames)]
  BY DEF Off
<1>3. /\ alive'[Other(e)] = alive[Other(e)] /\ loop'[Other(e)] = loop[Other(e)]
      /\ loop'[e] = loop[e]
  BY EndsAreTwo
<1> QED BY <1>1, <1>2, <1>3, OneGone

(* No deadline runs out while the peer still reads: no frame takes a       *)
(* negative time.                                                          *)
LEMMA NoEarlyTimeout ==
    ASSUME AnswerInv, NEW e \in Ends, ReadTimesOut(e)
    PROVE  ~Active(Other(e))
<1> SUFFICES ASSUME Active(Other(e)) PROVE FALSE
  OBVIOUS
<1>1. Active(e) /\ deadline[e] = 0 /\ deadline[e] # Off
  BY DEF ReadTimesOut, Off
<1>2. AnswerComes(e) /\ wire \in [Ends -> Seq(Frames)]
  BY DEF AnswerInv
<1>3. CASE wire[e] # <<>> /\ Head(wire[e]).left < 0
  <2>1. Head(wire[e]) \in Frames
    BY <1>2, <1>3, TailOf
  <2> QED BY <1>3, <2>1, HeartbeatsAssumption DEF Frames
<1>4. CASE HeartbeatWithin(wire[Other(e)], 0 - DataDelay)
  <2>1. wire[Other(e)] \in Seq(Frames) /\ 0 - DataDelay \in Int /\ 0 - DataDelay <= 0
    BY <1>2, EndsAreTwo, HeartbeatsAssumption
  <2>2. wire[Other(e)] # <<>>
    BY <1>4 DEF HeartbeatWithin
  <2>3. Head(wire[Other(e)]) \in Frames /\ Head(wire[Other(e)]).left < 0 - DataDelay
    BY <1>4, <2>1, <2>2, TailOf
  <2> QED BY <2>1, <2>3, HeartbeatsAssumption DEF Frames
<1> QED BY <1>1, <1>2, <1>3, <1>4 DEF AnswerComes

(* So an end that gives its peer up has lost it.                           *)
LEMMA TimesOutStep ==
    ASSUME AnswerInv, NEW e \in Ends, ReadTimesOut(e)
    PROVE  AnswerInv'
<1>1. ~Active(Other(e)) /\ Leave(e, "timedOut")
  BY NoEarlyTimeout DEF ReadTimesOut
<1>2. PICK d \in Delays : wire' = IF e = "server" THEN Sent(wire, e, "close", d) ELSE wire
  BY DEF ReadTimesOut
<1>3. wire' \in [Ends -> Seq(Frames)]
  BY <1>2, SentFrame, DelaysOrdered DEF AnswerInv, Types
<1> QED BY <1>1, <1>3, LeaveGone

(* The server that closes is gone,                                         *)
LEMMA ClosesStep == AnswerInv /\ ServerCloses => AnswerInv'
<1> SUFFICES ASSUME AnswerInv, ServerCloses PROVE AnswerInv'
  OBVIOUS
<1>1. PICK d \in Delays : wire' = Sent(wire, "server", "close", d)
  BY DEF ServerCloses
<1>2. wire' \in [Ends -> Seq(Frames)]
  BY <1>1, EndsAreTwo, SentFrame, DelaysOrdered DEF AnswerInv, Types
<1> QED BY <1>2, EndsAreTwo, LeaveGone DEF ServerCloses

(* and the end that reads of it.                                           *)
LEMMA EOFStep ==
    ASSUME AnswerInv, NEW e \in Ends, ReadsEOF(e)
    PROVE  AnswerInv'
<1>1. wire' \in [Ends -> Seq(Frames)]
  <2>1. wire' = [wire EXCEPT ![e] = <<>>] /\ <<>> \in Seq(Frames)
    BY DEF ReadsEOF
  <2> QED BY <2>1 DEF AnswerInv
<1> QED BY <1>1, LeaveGone DEF ReadsEOF

(* The timer asks for nothing yet.                                         *)
LEMMA FiresStep ==
    ASSUME AnswerInv, NEW e \in Ends, TimerFires(e)
    PROVE  AnswerInv'
<1> USE DEF AnswerInv, TimerFires
<1>1. ASSUME NEW f \in Ends PROVE (Asked(f) /\ AnswerComes(f))'
  BY DEF Asked, AnswerComes, Active
<1> QED BY <1>1 DEF LivePeerKept, Active

(* A frame that is sent disturbs nobody's answer; if it is a heartbeat it  *)
(* will be one's question.                                                 *)
LEMMA AddsFrame ==
    ASSUME AnswerInv, NEW e \in Ends, NEW type \in Types, NEW d \in MinDelay..DataDelay,
           wire' = Sent(wire, e, type, d), UNCHANGED <<alive, loop, deadline>>,
           callback' \in [Ends -> {"none", "send", "setDeadline"}],
           callback'[Other(e)] = callback[Other(e)],
           callback'[e] = callback[e] \/ (type = "heartbeat" /\ d > 0)
    PROVE  AnswerInv'
<1> DEFINE f == [type |-> type, left |-> d]
           o == Other(e)
<1>1. /\ f \in Frames /\ wire' \in [Ends -> Seq(Frames)]
      /\ wire'[e] = wire[e] /\ wire'[o] = Append(wire[o], f)
      /\ f.type = type /\ f.left = d
  <2>1. d \in Int /\ MinDelay <= d /\ d <= DataDelay
    BY DelaysOrdered
  <2> QED BY <2>1, SentFrame DEF AnswerInv
<1>2. o \in Ends /\ o # e /\ Other(o) = e /\ \A g \in Ends : g = e \/ g = o
  BY EndsAreTwo
<1>3. wire[o] \in Seq(Frames)
  BY <1>2 DEF AnswerInv
<1> HIDE DEF f
<1>4. /\ wire'[o] # <<>>
      /\ wire[o] # <<>> => Head(wire'[o]) = Head(wire[o])
      /\ UnreadHeartbeat(wire[o]) => UnreadHeartbeat(wire'[o])
      /\ type = "heartbeat" /\ d > 0 => UnreadHeartbeat(wire'[o])
      /\ \A n \in Int : HeartbeatWithin(wire[o], n) => HeartbeatWithin(wire'[o], n)
  BY <1>1, <1>3, Appended
<1>5. \A g \in Ends : deadline[g] - DataDelay \in Int
  <2>1. \A g \in Ends : deadline[g] \in Int
    BY DEF AnswerInv, Off
  <2> QED BY <2>1, DelaysOrdered
<1>6. Active(e)' = Active(e) /\ Active(o)' = Active(o)
  BY DEF Active
<1> HIDE DEF o
<1>7. Asked(e)' /\ Asked(o)'
  <2>1. Asked(e) /\ Asked(o)
    BY <1>2 DEF AnswerInv
  <2> QED BY <1>1, <1>2, <1>4, <1>6, <2>1 DEF Asked, o
<1>8. AnswerComes(e)' /\ AnswerComes(o)'
  <2>1. AnswerComes(e) /\ AnswerComes(o)
    BY <1>2 DEF AnswerInv
  <2> QED BY <1>1, <1>2, <1>4, <1>5, <1>6, <2>1 DEF AnswerComes, o
<1>9. LivePeerKept'
  BY DEF AnswerInv, LivePeerKept, Active
<1> QED BY <1>1, <1>2, <1>7, <1>8, <1>9 DEF AnswerInv

(* The first call of the callback.                                         *)
LEMMA SendsStep ==
    ASSUME MinDelay # 0, AnswerInv, NEW e \in Ends, SendHeartbeat(e)
    PROVE  AnswerInv'
<1>1. PICK d \in Delays : wire' = Sent(wire, e, "heartbeat", d)
  BY DEF SendHeartbeat
<1>2. d \in MinDelay..DataDelay /\ d > 0 /\ "heartbeat" \in Types
  BY HeartbeatsAssumption DEF Delays, Types
<1>3. /\ callback' \in [Ends -> {"none", "send", "setDeadline"}]
      /\ callback'[Other(e)] = callback[Other(e)] /\ UNCHANGED <<alive, loop, deadline>>
  BY EndsAreTwo DEF SendHeartbeat, AnswerInv
<1> QED BY <1>1, <1>2, <1>3, AddsFrame

(* A request or a response.                                                *)
LEMMA DataStep ==
    ASSUME AnswerInv, NEW e \in Ends, SendData(e)
    PROVE  AnswerInv'
<1>1. PICK d \in MinDelay..DataDelay : wire' = Sent(wire, e, "data", d)
  BY DEF SendData
<1>2. "data" \in Types
  BY DEF Types
<1>3. UNCHANGED <<alive, loop, deadline>>
  BY DEF SendData
<1>4. /\ callback' \in [Ends -> {"none", "send", "setDeadline"}]
      /\ callback'[Other(e)] = callback[Other(e)] /\ callback'[e] = callback[e]
  BY DEF SendData, AnswerInv
<1> QED BY <1>1, <1>2, <1>3, <1>4, AddsFrame

(* The second call of the callback: whatever is before the heartbeat       *)
(* arrives early enough.                                                   *)
LEMMA DeadlineStep ==
    ASSUME 2 * DataDelay < ReadDeadline, AnswerInv, NEW e \in Ends, SetDeadline(e)
    PROVE  AnswerInv'
<1> DEFINE o == Other(e)
<1>1. /\ Active(e) /\ callback[e] = "setDeadline"
      /\ callback' = [callback EXCEPT ![e] = "none"]
      /\ deadline' = [deadline EXCEPT ![e] = ReadDeadline]
      /\ UNCHANGED <<alive, loop, wire>>
  BY DEF SetDeadline, DeadlineFromNow
<1>2. o \in Ends /\ o # e /\ Other(o) = e /\ \A g \in Ends : g = e \/ g = o
  BY EndsAreTwo
<1>3. /\ callback' \in [Ends -> {"none", "send", "setDeadline"}]
      /\ deadline' \in [Ends -> {Off} \cup Nat]
      /\ wire' \in [Ends -> Seq(Frames)]
  BY <1>1, HeartbeatsAssumption DEF AnswerInv
<1>4. \A g \in Ends : Active(g)' = Active(g)
  BY <1>1 DEF Active
<1>5. Asked(e)' /\ Asked(o)'
  BY <1>1, <1>2, <1>4 DEF AnswerInv, Asked
<1>6. AnswerComes(o)'
  BY <1>1, <1>2, <1>4 DEF AnswerInv, AnswerComes
<1>7. AnswerComes(e)'
  <2> SUFFICES ASSUME Active(o) PROVE HeartbeatWithin(wire[o], ReadDeadline - DataDelay)
    BY <1>1, <1>2, <1>4 DEF AnswerComes, AnswerInv
  <2>1. UnreadHeartbeat(wire[o])
    BY <1>1 DEF AnswerInv, Asked
  <2>2. \A i \in DOMAIN wire[o] : wire[o][i] \in Frames
    BY <1>2 DEF AnswerInv
  <2>3. DataDelay < ReadDeadline - DataDelay
    BY HeartbeatsAssumption
  <2>4. /\ wire[o] \in Seq(Frames) /\ Len(wire[o]) \in Nat
        /\ DOMAIN wire[o] = 1..Len(wire[o])
    BY <1>2, LenProperties DEF AnswerInv
  <2>5. \A i \in 1..Len(wire[o]) : wire[o][i].left < ReadDeadline - DataDelay
    <3> TAKE i \in 1..Len(wire[o])
    <3>1. wire[o][i].left \in 0..DataDelay
      BY <2>2, <2>4 DEF Frames
    <3> QED BY <2>3, <3>1, DelaysOrdered, HeartbeatsAssumption
  <2> QED BY <2>1, <2>4, <2>5 DEF UnreadHeartbeat, HeartbeatWithin
<1>8. LivePeerKept'
  BY <1>1 DEF AnswerInv, LivePeerKept, Active
<1> QED BY <1>1, <1>2, <1>3, <1>5, <1>6, <1>7, <1>8 DEF AnswerInv

(* An end that reads has no deadline left; if it reads a heartbeat, the    *)
(* answer to it is on its way, and if not, the heartbeat is still behind.  *)
LEMMA ReceiveStep ==
    ASSUME 2 * DataDelay < ReadDeadline, AnswerInv, NEW e \in Ends, Receive(e)
    PROVE  AnswerInv'
<1> DEFINE o == Other(e)
           h == Head(wire[e])
           t == Tail(wire[e])
           w == [wire EXCEPT ![e] = t]
<1>1. /\ Active(e) /\ wire[e] # <<>> /\ h.left = 0
      /\ deadline' = [deadline EXCEPT ![e] = Off]
      /\ UNCHANGED <<alive, loop, callback>>
  BY DEF Receive, Ready, ClearDeadline
<1>2. o \in Ends /\ o # e /\ Other(o) = e /\ \A g \in Ends : g = e \/ g = o
  BY EndsAreTwo
<1>3. wire[e] \in Seq(Frames) /\ wire[o] \in Seq(Frames)
  BY <1>2 DEF AnswerInv
<1>4. /\ t \in Seq(Frames)
      /\ UnreadHeartbeat(wire[e]) => UnreadHeartbeat(t)
      /\ \A n \in Int : HeartbeatWithin(wire[e], n) =>
             0 < n /\ (h.type # "heartbeat" => HeartbeatWithin(t, n))
  BY <1>1, <1>3, TailOf
<1>5. w \in [Ends -> Seq(Frames)] /\ w[e] = t /\ w[o] = wire[o]
  BY <1>2, <1>4 DEF AnswerInv
<1>6. \/ wire' = w /\ h.type # "heartbeat"
      \/ \E d \in Delays : wire' = Sent(w, e, "ack", d)
  BY DEF Receive, AnswerTo
<1> HIDE DEF w, h, t
<1> DEFINE Answered ==
        /\ wire'[o] # <<>> /\ Head(wire'[o]).left \in 0..DataDelay
        /\ wire[o] # <<>> => Head(wire'[o]) = Head(wire[o])
        /\ UnreadHeartbeat(wire[o]) => UnreadHeartbeat(wire'[o])
<1>7. /\ wire' \in [Ends -> Seq(Frames)] /\ wire'[e] = t
      /\ (wire'[o] = wire[o] /\ h.type # "heartbeat") \/ Answered
  <2>1. CASE wire' = w /\ h.type # "heartbeat"
    BY <1>5, <2>1
  <2>2. ASSUME NEW d \in Delays, wire' = Sent(w, e, "ack", d) 
        PROVE  wire' \in [Ends -> Seq(Frames)] /\ wire'[e] = t /\ Answered
    <3>1. d \in Int /\ MinDelay <= d /\ d <= DataDelay /\ "ack" \in Types
      BY DelaysOrdered DEF Types
    <3>0. d \in 0..DataDelay
      BY <3>1, DelaysOrdered
    <3> DEFINE a == [type |-> "ack", left |-> d]
    <3>2. /\ a \in Frames /\ wire' \in [Ends -> Seq(Frames)]
          /\ wire'[e] = t /\ wire'[o] = Append(wire[o], a) /\ a.left \in 0..DataDelay
      BY <1>5, <2>2, <3>0, <3>1, SentFrame
    <3> HIDE DEF a
    <3>3. /\ wire'[o] # <<>>
          /\ wire[o] # <<>> => Head(wire'[o]) = Head(wire[o])
          /\ wire[o] = <<>> => Head(wire'[o]) = a
          /\ UnreadHeartbeat(wire[o]) => UnreadHeartbeat(wire'[o])
      BY <1>3, <3>2, Appended
    <3>4. Head(wire'[o]).left \in 0..DataDelay
      <4>1. wire[o] # <<>> => Head(wire[o]).left \in 0..DataDelay
        BY <1>3, TailOf DEF Frames
      <4> QED BY <3>2, <3>3, <4>1
    <3> QED BY <3>2, <3>3, <3>4
  <2> QED BY <1>6, <2>1, <2>2
<1>8. Active(e)' = Active(e) /\ Active(o)' = Active(o)
  BY <1>1 DEF Active
<1>9. /\ deadline' \in [Ends -> {Off} \cup Nat] /\ deadline'[e] = Off
      /\ deadline'[o] = deadline[o]
  BY <1>1, <1>2 DEF AnswerInv
<1> HIDE DEF o
<1>10. Asked(e)' /\ Asked(o)'
  <2>1. Asked(e) /\ Asked(o)
    BY <1>2 DEF AnswerInv
  <2> QED BY <1>1, <1>2, <1>4, <1>7, <1>8, <2>1 DEF Asked, o
<1>11. AnswerComes(e)'
  BY <1>9 DEF AnswerComes
<1>12. AnswerComes(o)'
  <2> SUFFICES ASSUME Active(o), deadline[o] # Off
               PROVE  \/ wire'[o] # <<>> /\ Head(wire'[o]).left < deadline[o]
                      \/ HeartbeatWithin(t, deadline[o] - DataDelay)
    BY <1>1, <1>2, <1>7, <1>8, <1>9 DEF AnswerComes
  <2>1. deadline[o] \in Nat /\ DataDelay \in Nat
    BY <1>2, DelaysOrdered DEF AnswerInv
  <2>2. \/ wire[o] # <<>> /\ Head(wire[o]).left < deadline[o]
        \/ HeartbeatWithin(wire[e], deadline[o] - DataDelay)
    BY <1>1, <1>2 DEF AnswerInv, AnswerComes
  <2>3. CASE wire[o] # <<>> /\ Head(wire[o]).left < deadline[o]
    BY <1>7, <2>3
  <2>4. CASE HeartbeatWithin(wire[e], deadline[o] - DataDelay)
    <3>1. /\ 0 < deadline[o] - DataDelay
          /\ h.type # "heartbeat" => HeartbeatWithin(t, deadline[o] - DataDelay)
      BY <1>4, <2>1, <2>4
    <3> QED BY <1>7, <2>1, <3>1
  <2> QED BY <2>2, <2>3, <2>4
<1>13. LivePeerKept'
  BY <1>1 DEF AnswerInv, LivePeerKept, Active
<1> QED BY <1>1, <1>2, <1>7, <1>9, <1>10, <1>11, <1>12, <1>13 DEF AnswerInv

(* A tick brings the deadline nearer, and the answer.                      *)
LEMMA TickStep ==
    ASSUME AnswerInv, Tick
    PROVE  AnswerInv'
<1>1. \A e \in Ends : ~Due(e) /\ Active(e)' = Active(e)
  BY DEF Tick, Active
<1>2. /\ alive' \in [Ends -> BOOLEAN] /\ loop' \in [Ends -> {"reading", "timedOut", "closed"}]
      /\ callback' \in [Ends -> {"none", "send", "setDeadline"}]
      /\ deadline' \in [Ends -> {Off} \cup Nat]
      /\ \A e \in Ends : deadline'[e] = Less(deadline[e])
  BY DEF AnswerInv, Tick, Less, Off
<1>3. /\ wire' \in [Ends -> Seq(Frames)]
      /\ \A e \in Ends : Active(e) => wire'[e] = Nearer(wire[e])
  <2>1. wire' = [e \in Ends |-> IF Active(e) THEN Nearer(wire[e]) ELSE <<>>]
    BY DEF Tick
  <2>2. \A e \in Ends : Nearer(wire[e]) \in Seq(Frames)
    BY NearerFrames DEF AnswerInv
  <2>3. <<>> \in Seq(Frames)
    OBVIOUS
  <2> QED BY <2>1, <2>2, <2>3
<1>4. ASSUME NEW e \in Ends PROVE Asked(e)'
  BY <1>1 DEF Asked, Due, Tick
<1>5. ASSUME NEW e \in Ends PROVE AnswerComes(e)'
  <2> DEFINE o == Other(e)
  <2>1. o \in Ends
    BY EndsAreTwo
  <2> SUFFICES ASSUME Active(e), Active(o), deadline'[e] # Off
               PROVE  \/ wire'[e] # <<>> /\ Head(wire'[e]).left < deadline'[e]
                      \/ HeartbeatWithin(wire'[o], deadline'[e] - DataDelay)
    BY <1>1, <2>1 DEF AnswerComes
  <2>2. /\ wire[e] \in Seq(Frames) /\ wire[o] \in Seq(Frames)
        /\ wire'[e] = Nearer(wire[e]) /\ wire'[o] = Nearer(wire[o])
    BY <1>3, <2>1 DEF AnswerInv
  <2>3. /\ deadline[e] \in Nat \ {0} /\ deadline[e] # Off
        /\ deadline'[e] = deadline[e] - 1 /\ DataDelay \in Nat
    <3>1. deadline[e] # 0
      BY <1>1 DEF Due
    <3>2. deadline[e] \in {Off} \cup Nat
      BY DEF AnswerInv
    <3> QED BY <1>2, <3>1, <3>2, DelaysOrdered DEF Less, Off
  <2>4. \A f \in {e, o} : wire[f] = <<>> \/ Head(wire[f]).left # 0
    BY <1>1, <2>1 DEF Due, Ready
  <2> HIDE DEF o
  <2>5. CASE wire[e] # <<>> /\ Head(wire[e]).left < deadline[e]
    <3>1. /\ wire'[e] # <<>> /\ Head(wire[e]).left \in Nat
          /\ Head(wire'[e]).left = Less(Head(wire[e]).left)
      BY <2>2, <2>5, NearerFrames
    <3>2. Head(wire[e]).left # 0
      BY <2>4, <2>5
    <3> QED BY <2>3, <2>5, <3>1, <3>2 DEF Less
  <2>6. CASE HeartbeatWithin(wire[o], deadline[e] - DataDelay)
    <3>1. wire[o] # <<>>
      BY <2>6 DEF HeartbeatWithin
    <3>2. Head(wire[o]).left \in Nat /\ Head(wire[o]).left # 0
      BY <2>2, <2>4, <3>1, NearerFrames
    <3>3. deadline[e] - DataDelay \in Int
      BY <2>3
    <3>4. HeartbeatWithin(Nearer(wire[o]), (deadline[e] - DataDelay) - 1)
      BY <2>2, <2>6, <3>2, <3>3, NearerFrames
    <3>5. (deadline[e] - DataDelay) - 1 = deadline'[e] - DataDelay
      BY <2>3
    <3> QED BY <2>2, <3>4, <3>5
  <2>7. AnswerComes(e)
    BY DEF AnswerInv
  <2> QED BY <2>3, <2>5, <2>6, <2>7 DEF AnswerComes, o
<1>6. LivePeerKept'
  BY DEF AnswerInv, LivePeerKept, Tick, Active
<1> QED BY <1>2, <1>3, <1>4, <1>5, <1>6 DEF AnswerInv

(* No deadline is set at the start.                                        *)
LEMMA AnswerInit == Init => AnswerInv
<1> SUFFICES ASSUME Init PROVE AnswerInv
  OBVIOUS
<1>1. /\ wire \in [Ends -> Seq(Frames)] /\ deadline \in [Ends -> {Off} \cup Nat]
      /\ alive \in [Ends -> BOOLEAN] /\ loop \in [Ends -> {"reading", "timedOut", "closed"}]
      /\ callback \in [Ends -> {"none", "send", "setDeadline"}]
  BY DEF Init
<1>2. \A e \in Ends : Asked(e) /\ AnswerComes(e)
  BY DEF Init, Asked, AnswerComes, Off
<1>3. LivePeerKept
  BY DEF Init, LivePeerKept
<1> QED BY <1>1, <1>2, <1>3 DEF AnswerInv

(* Every step leaves an answer before each deadline.                       *)
LEMMA AnswerStep ==
    ASSUME MinDelay # 0, 2 * DataDelay < ReadDeadline
    PROVE  AnswerInv /\ [Next]_vars => AnswerInv'
<1> SUFFICES ASSUME AnswerInv, [Next]_vars PROVE AnswerInv'
  OBVIOUS
<1>1. CASE Tick
  BY <1>1, TickStep
<1>2. CASE ServerCloses
  BY <1>2, ClosesStep
<1>3. ASSUME NEW e \in Ends,
             \/ TimerFires(e) \/ SendHeartbeat(e) \/ SetDeadline(e) \/ Receive(e)
             \/ ReadTimesOut(e) \/ ReadsEOF(e) \/ SendData(e) \/ Die(e)
      PROVE AnswerInv'
  BY <1>3, FiresStep, SendsStep, DeadlineStep, ReceiveStep, TimesOutStep, EOFStep, DataStep,
     DieGone
<1>4. CASE UNCHANGED vars
  BY <1>4 DEF vars, AnswerInv, Asked, AnswerComes, LivePeerKept, Active
<1> QED BY <1>1, <1>2, <1>3, <1>4 DEF Next

(* Neither loop gives up a peer that is alive and still reads, whatever    *)
(* the timers, the requests and the order of the callback's calls and the  *)
(* reads: "if no response to heartbeat is received within that period,     *)
(* that means the client has disconnected".                                *)
THEOREM LivePeersAreKept ==
    ASSUME MinDelay # 0, 2 * DataDelay < ReadDeadline
    PROVE  Spec => []LivePeerKept
<1>1. AnswerInv => LivePeerKept
  BY DEF AnswerInv
<1> QED BY <1>1, AnswerInit, AnswerStep, PTL DEF Spec
-----------------------------------------------------------------------------
(* The least time in which e may send another heartbeat.                   *)
NextBeat(e) ==
    IF callback[e] = "send" THEN 0 ELSE IF timer[e] # Off THEN timer[e] ELSE Timeout(e)

(* A heartbeat is on its way.                                              *)
HasBeat(s) == \E i \in DOMAIN s : s[i].type = "heartbeat"

(* The first i frames all arrive within n ticks.                           *)
ReadWithin(s, i, n) == \A j \in 1..i : s[j].left <= n

(* What is on its way to an end: data frames come before the bound; a      *)
(* heartbeat is alone and is read within b ticks, an acknowledgement       *)
(* within a and the first of two within z, and there are no three; the     *)
(* stream ends once, and only if c.                                        *)
InFlight(s, b, a, z, c) ==
    /\ \A i \in DOMAIN s :
        /\ s[i].type = "data" => i <= MaxFlight
        /\ s[i].type = "heartbeat" => ReadWithin(s, i, b)
        /\ s[i].type = "ack" => ReadWithin(s, i, a)
        /\ s[i].type = "close" => c
    /\ \A i, k \in DOMAIN s : i < k =>
        /\ s[i].type = s[k].type => s[i].type \in {"data", "ack"}
        /\ s[i].type = "ack" /\ s[k].type = "ack" => ReadWithin(s, i, z)
    /\ \A i, k, l \in DOMAIN s : i < k /\ k < l =>
           ~(s[i].type = "ack" /\ s[k].type = "ack" /\ s[l].type = "ack")

(* A heartbeat of e is read DataDelay ticks after it was sent, and it was  *)
(* sent a timeout before the next one.                                     *)
BeatBound(e) == DataDelay + NextBeat(e) - Timeout(e)
(* An acknowledgement to e is read within twice that; if the next          *)
(* heartbeat is on its way already, it is the answer to the one before.    *)
AckBound(e)  ==
    2 * DataDelay + NextBeat(e)
        - (IF HasBeat(wire[Other(e)]) THEN 2 * Timeout(e) ELSE Timeout(e))
(* The server's loop may have ended the stream to the client.              *)
HasClosed(e) == e = "client" /\ loop["server"] # "reading"

(* What is on its way to one end.                                          *)
Flies(e) ==
    InFlight(wire[e], BeatBound(Other(e)), AckBound(e), AckBound(e) - Timeout(e), HasClosed(e))

(* The types without the bounds on what is on its way. A timer that runs   *)
(* while the callback is under way has just been set again.                *)
FlightTypes ==
    /\ alive \in [Ends -> BOOLEAN]
    /\ loop \in [Ends -> {"reading", "timedOut", "closed"}]
    /\ callback \in [Ends -> {"none", "send", "setDeadline"}]
    /\ timer \in [Ends -> {Off} \cup Nat] /\ deadline \in [Ends -> {Off} \cup Nat]
    /\ wire \in [Ends -> Seq(Frames)]
    /\ \A e \in Ends :
        /\ timer[e] <= Timeout(e) /\ deadline[e] <= ReadDeadline
        /\ callback[e] # "none" /\ timer[e] # Off => timer[e] = Timeout(e)
        /\ ~Active(e) => timer[e] = Off /\ callback[e] = "none"

(* The inductive invariant.                                                *)
FlightInv == FlightTypes /\ \A e \in Ends : Flies(e)

-----------------------------------------------------------------------------
(* The parts of a frame.                                                   *)
LEMMA FrameTypes ==
    ASSUME NEW s \in Seq(Frames)
    PROVE  /\ Len(s) \in Nat /\ DOMAIN s = 1..Len(s)
           /\ \A i \in 1..Len(s) : s[i].left \in 0..DataDelay /\ s[i].type \in Types
<1>1. Len(s) \in Nat /\ DOMAIN s = 1..Len(s) /\ \A i \in 1..Len(s) : s[i] \in Frames
  BY LenProperties
<1> QED BY <1>1 DEF Frames

(* Later bounds hold as well.                                              *)
LEMMA FlightLoosens ==
    ASSUME NEW s \in Seq(Frames), NEW b \in Int, NEW a \in Int, NEW z \in Int, NEW c,
           InFlight(s, b, a, z, c),
           NEW b2 \in Int, NEW a2 \in Int, NEW z2 \in Int, NEW c2,
           b <= b2, a <= a2, z <= z2, c => c2
    PROVE  InFlight(s, b2, a2, z2, c2)
<1>1. \A i \in DOMAIN s : \A j \in 1..i : s[j].left \in Int
  BY FrameTypes, HeartbeatsAssumption
<1>2. ASSUME NEW i \in DOMAIN s, NEW m \in Int, NEW n \in Int, m <= n, ReadWithin(s, i, m)
      PROVE  ReadWithin(s, i, n)
  BY <1>1, <1>2 DEF ReadWithin
<1> QED BY <1>2 DEF InFlight

(* An empty wire is within every bound.                                    *)
LEMMA FlightOfNone ==
    ASSUME NEW b, NEW a, NEW z, NEW c
    PROVE  InFlight(<<>>, b, a, z, c) /\ ~HasBeat(<<>>)
BY DEF InFlight, HasBeat

(* A frame is read; if it is the heartbeat there is none left.             *)
LEMMA FlightTail ==
    ASSUME NEW s \in Seq(Frames), s # <<>>,
           NEW b \in Int, NEW a \in Int, NEW z \in Int, NEW c, InFlight(s, b, a, z, c)
    PROVE  /\ InFlight(Tail(s), b, a, z, c)
           /\ HasBeat(Tail(s)) => HasBeat(s) /\ Head(s).type # "heartbeat"
           /\ Head(s).type = "heartbeat" => HasBeat(s) /\ Head(s).left <= b
<1> DEFINE t == Tail(s)
<1>1. PICK n \in Nat : n = Len(s) /\ n > 0 /\ DOMAIN s = 1..n
  <2>1. PICK n \in Nat : n = Len(s) /\ DOMAIN s = 1..n
    BY FrameTypes
  <2>2. n # 0
    BY <2>1, EmptySeq
  <2> QED BY <2>1, <2>2
<1>2. /\ DOMAIN t = 1..(n - 1)
      /\ \A i \in 1..(n - 1) : t[i] = s[i + 1]
  <2>1. /\ Tail(s) \in Seq(Frames) /\ Len(Tail(s)) = Len(s) - 1
        /\ \A i \in 1..Len(Tail(s)) : Tail(s)[i] = s[i + 1]
    BY HeadTailProperties
  <2> QED BY <1>1, <2>1, FrameTypes
<1>3. Head(s) = s[1]
  BY TailOf
<1> HIDE DEF t
<1>4. \A i \in 1..(n - 1) : i + 1 \in 1..n /\ i + 1 # 1 /\ 1 < i + 1
  OBVIOUS
<1>5. ASSUME NEW i \in 1..(n - 1), NEW m, ReadWithin(s, i + 1, m) PROVE ReadWithin(t, i, m)
  <2>1. ASSUME NEW j \in 1..i PROVE t[j].left <= m
    <3>1. j + 1 \in 1..(i + 1) /\ j \in 1..(n - 1)
      OBVIOUS
    <3> QED BY <1>2, <1>5, <3>1 DEF ReadWithin
  <2> QED BY <2>1 DEF ReadWithin
<1>6. InFlight(t, b, a, z, c)
  <2>1. ASSUME NEW i \in 1..(n - 1)
        PROVE  /\ t[i].type = "data" => i <= MaxFlight
               /\ t[i].type = "heartbeat" => ReadWithin(t, i, b)
               /\ t[i].type = "ack" => ReadWithin(t, i, a)
               /\ t[i].type = "close" => c
    <3>1. t[i] = s[i + 1] /\ i + 1 \in DOMAIN s
      BY <1>1, <1>2, <1>4
    <3>2. i + 1 <= MaxFlight => i <= MaxFlight
      BY HeartbeatsAssumption
    <3> QED BY <1>5, <3>1, <3>2 DEF InFlight
  <2>2. ASSUME NEW i \in 1..(n - 1), NEW k \in 1..(n - 1), i < k
        PROVE  /\ t[i].type = t[k].type => t[i].type \in {"data", "ack"}
               /\ t[i].type = "ack" /\ t[k].type = "ack" => ReadWithin(t, i, z)
    <3>1. /\ t[i] = s[i + 1] /\ i + 1 \in DOMAIN s
          /\ t[k] = s[k + 1] /\ k + 1 \in DOMAIN s
      BY <1>1, <1>2, <1>4
    <3>2. i + 1 < k + 1
      BY <2>2
    <3> QED BY <1>5, <3>1, <3>2 DEF InFlight
  <2>3. ASSUME NEW i \in 1..(n - 1), NEW k \in 1..(n - 1), NEW l \in 1..(n - 1), i < k, k < l
        PROVE  ~(t[i].type = "ack" /\ t[k].type = "ack" /\ t[l].type = "ack")
    <3>1. /\ t[i] = s[i + 1] /\ i + 1 \in DOMAIN s
          /\ t[k] = s[k + 1] /\ k + 1 \in DOMAIN s
          /\ t[l] = s[l + 1] /\ l + 1 \in DOMAIN s
      BY <1>1, <1>2, <1>4
    <3>2. i + 1 < k + 1 /\ k + 1 < l + 1
      BY <2>3
    <3> QED BY <3>1, <3>2 DEF InFlight
  <2> QED BY <1>2, <2>1, <2>2, <2>3 DEF InFlight
<1>7. ASSUME HasBeat(t) PROVE HasBeat(s) /\ Head(s).type # "heartbeat"
  <2>1. PICK i \in 1..(n - 1) : t[i].type = "heartbeat"
    BY <1>2, <1>7 DEF HasBeat
  <2>2. i + 1 \in DOMAIN s /\ s[i + 1].type = "heartbeat" /\ 1 \in DOMAIN s /\ 1 < i + 1
    BY <1>1, <1>2, <1>4, <2>1
  <2>3. s[1].type # "heartbeat"
    BY <2>2 DEF InFlight
  <2> QED BY <1>3, <2>2, <2>3 DEF HasBeat
<1>8. ASSUME Head(s).type = "heartbeat" PROVE HasBeat(s) /\ Head(s).left <= b
  <2>1. 1 \in DOMAIN s /\ s[1].type = "heartbeat" /\ 1 \in 1..1
    BY <1>1, <1>3, <1>8
  <2>2. ReadWithin(s, 1, b)
    BY <2>1 DEF InFlight
  <2> QED BY <1>3, <2>1, <2>2 DEF HasBeat, ReadWithin
<1> QED BY <1>6, <1>7, <1>8 DEF t

(* A tick brings every frame nearer; none was there already, so no bound   *)
(* falls below nothing.                                                    *)
LEMMA FlightNearer ==
    ASSUME NEW s \in Seq(Frames), s = <<>> \/ Head(s).left # 0,
           NEW b \in Int, NEW a \in Int, NEW z \in Int, NEW c, InFlight(s, b, a, z, c)
    PROVE  /\ InFlight(Nearer(s), b - 1, a - 1, z - 1, c)
           /\ HasBeat(Nearer(s)) => HasBeat(s)
<1> DEFINE t == Nearer(s)
<1>1. PICK n \in Nat : n = Len(s) /\ DOMAIN s = 1..n
  BY FrameTypes
<1>2. \A i \in 1..n : s[i].left \in 0..DataDelay /\ s[i].type \in Types
  BY <1>1, FrameTypes
<1>3. DOMAIN t = 1..n /\ \A i \in 1..n : t[i] = [s[i] EXCEPT !.left = Less(s[i].left)]
  BY <1>1 DEF Nearer
<1> HIDE DEF t
<1>4. \A i \in 1..n : t[i].type = s[i].type /\ t[i].left = Less(s[i].left)
  <2> TAKE i \in 1..n
  <2>1. s[i] \in [type : Types, left : 0..DataDelay]
    BY <1>1, ElementOfSeq DEF Frames
  <2> QED BY <1>3, <2>1
<1>5. ASSUME NEW i \in 1..n, NEW m \in Int, ReadWithin(s, i, m) PROVE ReadWithin(t, i, m - 1)
  <2>1. s # <<>> /\ 1 \in 1..i /\ Head(s) = s[1]
    <3>1. 1 \in 1..i /\ n > 0
      OBVIOUS
    <3>2. s # <<>>
      BY <1>1, <3>1, EmptySeq
    <3> QED BY <3>1, <3>2, TailOf
  <2>2. s[1].left \in 0..DataDelay /\ s[1].left # 0 /\ s[1].left <= m
    <3>1. 1 \in 1..n
      OBVIOUS
    <3> QED BY <1>2, <1>5, <2>1, <3>1 DEF ReadWithin
  <2>3. m - 1 >= 0
    BY <2>2, HeartbeatsAssumption
  <2>4. ASSUME NEW j \in 1..i PROVE t[j].left <= m - 1
    <3>1. j \in 1..n
      OBVIOUS
    <3>2. t[j].left = Less(s[j].left) /\ s[j].left \in 0..DataDelay /\ s[j].left <= m
      BY <1>2, <1>4, <1>5, <3>1 DEF ReadWithin
    <3>3. PICK x \in Int : x = s[j].left /\ x <= m
      BY <3>2, HeartbeatsAssumption
    <3>4. t[j].left = IF x > 0 THEN x - 1 ELSE x
      BY <3>2, <3>3 DEF Less
    <3> QED BY <2>3, <3>3, <3>4
  <2> QED BY <2>4 DEF ReadWithin
<1>6. InFlight(t, b - 1, a - 1, z - 1, c)
  <2>1. ASSUME NEW i \in 1..n
        PROVE  /\ t[i].type = "data" => i <= MaxFlight
               /\ t[i].type = "heartbeat" => ReadWithin(t, i, b - 1)
               /\ t[i].type = "ack" => ReadWithin(t, i, a - 1)
               /\ t[i].type = "close" => c
    <3>1. t[i].type = s[i].type /\ i \in DOMAIN s
      BY <1>1, <1>4
    <3> QED BY <1>5, <3>1 DEF InFlight
  <2>2. ASSUME NEW i \in 1..n, NEW k \in 1..n, i < k
        PROVE  /\ t[i].type = t[k].type => t[i].type \in {"data", "ack"}
               /\ t[i].type = "ack" /\ t[k].type = "ack" => ReadWithin(t, i, z - 1)
    <3>1. t[i].type = s[i].type /\ t[k].type = s[k].type /\ i \in DOMAIN s /\ k \in DOMAIN s
      BY <1>1, <1>4
    <3> QED BY <1>5, <2>2, <3>1 DEF InFlight
  <2>3. ASSUME NEW i \in 1..n, NEW k \in 1..n, NEW l \in 1..n, i < k, k < l
        PROVE  ~(t[i].type = "ack" /\ t[k].type = "ack" /\ t[l].type = "ack")
    <3>1. /\ t[i].type = s[i].type /\ t[k].type = s[k].type /\ t[l].type = s[l].type
          /\ i \in DOMAIN s /\ k \in DOMAIN s /\ l \in DOMAIN s
      BY <1>1, <1>4
    <3> QED BY <2>3, <3>1 DEF InFlight
  <2> QED BY <1>3, <2>1, <2>2, <2>3 DEF InFlight
<1>7. HasBeat(t) => HasBeat(s)
  BY <1>1, <1>3, <1>4 DEF HasBeat
<1> QED BY <1>6, <1>7 DEF t

(* A frame that is sent arrives after all the others.                      *)
LEMMA FlightAppend ==
    ASSUME NEW s \in Seq(Frames), NEW f \in Frames,
           NEW b \in Int, NEW a \in Int, NEW z \in Int, NEW c, InFlight(s, b, a, z, c),
           f.type = "data" => Len(s) < MaxFlight,
           f.type = "heartbeat" => DataDelay <= b /\ ~HasBeat(s),
           f.type = "ack" => DataDelay <= a /\ InFlight(s, b, z, -1, c),
           f.type = "close" => c /\ InFlight(s, b, a, z, FALSE)
    PROVE  /\ InFlight(Append(s, f), b, a, z, c)
           /\ HasBeat(Append(s, f)) <=> HasBeat(s) \/ f.type = "heartbeat"
<1> DEFINE t == Append(s, f)
<1>1. PICK n \in Nat : n = Len(s) /\ DOMAIN s = 1..n
  BY FrameTypes
<1>2. /\ DOMAIN t = 1..(n + 1)
      /\ \A i \in 1..n : t[i] = s[i]
      /\ t[n + 1] = f
      /\ \A i \in 1..(n + 1) : t[i].left \in 0..DataDelay /\ t[i].type \in Types
  <2>1. /\ t \in Seq(Frames) /\ Len(t) = Len(s) + 1
        /\ \A i \in 1..Len(s) : t[i] = s[i]
        /\ t[Len(s) + 1] = f
    BY AppendProperties
  <2> HIDE DEF t
  <2> QED BY <1>1, <2>1, FrameTypes
<1> HIDE DEF t
<1>3. \A i \in 1..(n + 1) : i \in 1..n \/ i = n + 1
  OBVIOUS
<1>4. ASSUME NEW i \in 1..n, NEW m, ReadWithin(s, i, m) PROVE ReadWithin(t, i, m)
  <2>1. \A j \in 1..i : j \in 1..n
    OBVIOUS
  <2> QED BY <1>2, <1>4, <2>1 DEF ReadWithin
<1>5. ASSUME NEW m \in Int, DataDelay <= m PROVE ReadWithin(t, n + 1, m)
  <2>1. \A j \in 1..(n + 1) : t[j].left <= DataDelay /\ t[j].left \in Int
    BY <1>2, HeartbeatsAssumption
  <2> QED BY <1>5, <2>1, HeartbeatsAssumption DEF ReadWithin
<1>6. ASSUME f.type = "ack", NEW i \in 1..n, s[i].type = "ack"
      PROVE  ReadWithin(s, i, z) /\ \A k \in 1..n : i < k => s[k].type # "ack"
  <2>1. InFlight(s, b, z, -1, c)
    BY <1>6
  <2>2. ReadWithin(s, i, z)
    BY <1>1, <1>6, <2>1 DEF InFlight
  <2>3. ASSUME NEW k \in 1..n, i < k, s[k].type = "ack" PROVE FALSE
    <3>1. ReadWithin(s, i, -1)
      BY <1>1, <1>6, <2>1, <2>3 DEF InFlight
    <3>2. i \in 1..i
      OBVIOUS
    <3>3. s[i].left <= -1
      BY <3>1, <3>2 DEF ReadWithin
    <3>4. s[i].left \in 0..DataDelay
      BY <1>1, FrameTypes
    <3>5. PICK x \in Int : x = s[i].left /\ x >= 0
      BY <3>4, HeartbeatsAssumption
    <3>6. x <= -1
      BY <3>3, <3>5, Zenon
    <3> QED BY <3>5, <3>6
  <2> QED BY <2>2, <2>3
<1>7. ASSUME NEW i \in 1..(n + 1)
      PROVE  /\ t[i].type = "data" => i <= MaxFlight
             /\ t[i].type = "heartbeat" => ReadWithin(t, i, b)
             /\ t[i].type = "ack" => ReadWithin(t, i, a)
             /\ t[i].type = "close" => c
  <2>1. CASE i \in 1..n
    BY <1>1, <1>2, <1>4, <2>1 DEF InFlight
  <2>2. CASE i = n + 1
    <3>1. f.type = "data" => n + 1 <= MaxFlight
      BY <1>1, HeartbeatsAssumption
    <3> QED BY <1>2, <1>5, <2>2, <3>1
  <2> QED BY <1>3, <2>1, <2>2
<1>8. ASSUME NEW i \in 1..n
      PROVE  /\ s[i].type = f.type => f.type \in {"data", "ack"}
             /\ s[i].type = "ack" /\ f.type = "ack" => ReadWithin(t, i, z)
  <2>1. f.type = "heartbeat" => s[i].type # "heartbeat"
    BY <1>1 DEF HasBeat
  <2>2. f.type = "close" => s[i].type # "close"
    BY <1>1 DEF InFlight
  <2>3. f.type \in {"heartbeat", "ack", "data", "close"}
    BY DEF Frames, Types
  <2> QED BY <1>4, <1>6, <2>1, <2>2, <2>3
<1>9. ASSUME NEW i \in 1..(n + 1), NEW k \in 1..(n + 1), i < k
      PROVE  /\ t[i].type = t[k].type => t[i].type \in {"data", "ack"}
             /\ t[i].type = "ack" /\ t[k].type = "ack" => ReadWithin(t, i, z)
  <2>1. i \in 1..n
    BY <1>9
  <2>2. CASE k \in 1..n
    BY <1>1, <1>2, <1>4, <1>9, <2>1, <2>2 DEF InFlight
  <2>3. CASE k = n + 1
    BY <1>2, <1>8, <2>1, <2>3
  <2> QED BY <1>3, <2>2, <2>3
<1>10. ASSUME NEW i \in 1..(n + 1), NEW k \in 1..(n + 1), NEW l \in 1..(n + 1), i < k, k < l
       PROVE  ~(t[i].type = "ack" /\ t[k].type = "ack" /\ t[l].type = "ack")
  <2>1. i \in 1..n /\ k \in 1..n
    BY <1>10
  <2>2. CASE l \in 1..n
    BY <1>1, <1>2, <1>10, <2>1, <2>2 DEF InFlight
  <2>3. CASE l = n + 1
    BY <1>2, <1>6, <1>10, <2>1, <2>3
  <2> QED BY <1>3, <2>2, <2>3
<1>11. InFlight(t, b, a, z, c)
  BY <1>2, <1>7, <1>9, <1>10 DEF InFlight
<1>12. HasBeat(t) <=> HasBeat(s) \/ f.type = "heartbeat"
  <2>1. n + 1 \in 1..(n + 1) /\ \A i \in 1..n : i \in 1..(n + 1)
    OBVIOUS
  <2> QED BY <1>1, <1>2, <1>3, <2>1 DEF HasBeat
<1> QED BY <1>11, <1>12 DEF t

(* The bound of TypeOK: of five frames behind the data three are           *)
(* acknowledgements or two are of one other type.                          *)
LEMMA FlightShort ==
    ASSUME NEW s \in Seq(Frames), NEW b, NEW a, NEW z, NEW c, InFlight(s, b, a, z, c)
    PROVE  Len(s) <= MaxFlight + 4
<1>1. PICK n \in Nat : n = Len(s) /\ DOMAIN s = 1..n
  BY FrameTypes
<1>2. MaxFlight \in Nat
  BY HeartbeatsAssumption
<1> SUFFICES ASSUME n > MaxFlight + 4 PROVE FALSE
  BY <1>1, <1>2
<1> DEFINE p(x) == MaxFlight + x
<1>3. \A x \in 1..5 : p(x) \in 1..n
  BY <1>2
<1>4. \A x \in 1..5 : s[p(x)].type \in {"heartbeat", "ack", "close"}
  <2> TAKE x \in 1..5
  <2>1. p(x) \in DOMAIN s /\ ~(p(x) <= MaxFlight)
    BY <1>1, <1>2, <1>3
  <2>2. s[p(x)].type \in Types
    BY <1>1, <1>3, FrameTypes
  <2> HIDE DEF p
  <2> QED BY <2>1, <2>2 DEF InFlight, Types
<1>5. \A x, y \in 1..5 : x < y =>
          p(x) \in DOMAIN s /\ p(y) \in DOMAIN s /\ p(x) < p(y)
  BY <1>1, <1>2, <1>3
<1> HIDE DEF p
<1>6. \A x, y \in 1..5 : x < y /\ s[p(x)].type = s[p(y)].type => s[p(x)].type = "ack"
  <2> TAKE x, y \in 1..5
  <2>1. x < y /\ s[p(x)].type = s[p(y)].type => s[p(x)].type \in {"data", "ack"}
    BY <1>5 DEF InFlight
  <2> QED BY <1>4, <2>1
<1>7. \A x, y, w \in 1..5 : x < y /\ y < w =>
          ~(s[p(x)].type = "ack" /\ s[p(y)].type = "ack" /\ s[p(w)].type = "ack")
  BY <1>5 DEF InFlight
<1> DEFINE q == [x \in 1..5 |-> s[p(x)].type]
<1>8. /\ q[1] \in {"heartbeat", "ack", "close"} /\ q[2] \in {"heartbeat", "ack", "close"}
      /\ q[3] \in {"heartbeat", "ack", "close"} /\ q[4] \in {"heartbeat", "ack", "close"}
      /\ q[5] \in {"heartbeat", "ack", "close"}
  BY <1>4
<1>9. /\ \A x, y \in 1..5 : x < y /\ q[x] = q[y] => q[x] = "ack"
      /\ \A x, y, w \in 1..5 : x < y /\ y < w => ~(q[x] = "ack" /\ q[y] = "ack" /\ q[w] = "ack")
  BY <1>6, <1>7
<1> HIDE DEF q
<1> QED BY <1>8, <1>9

(* The bounds are numbers and the next heartbeat is at most a timeout      *)
(* away.                                                                   *)
BoundsOK ==
    \A e \in Ends :
        /\ NextBeat(e) \in Nat /\ NextBeat(e) <= Timeout(e)
        /\ BeatBound(e) \in Int /\ AckBound(e) \in Int
        /\ Timeout(e) \in Nat /\ Timeout(e) > 0 /\ DataDelay \in Nat

(* The types make them so.                                                 *)
LEMMA Bounds == FlightTypes => BoundsOK
<1> SUFFICES ASSUME FlightTypes, NEW e \in Ends
             PROVE  /\ NextBeat(e) \in Nat /\ NextBeat(e) <= Timeout(e)
                    /\ BeatBound(e) \in Int /\ AckBound(e) \in Int
                    /\ Timeout(e) \in Nat /\ Timeout(e) > 0 /\ DataDelay \in Nat
  BY DEF BoundsOK
<1>1. Timeout(e) \in Nat /\ Timeout(e) > 0 /\ DataDelay \in Nat
  BY TimesPositive, HeartbeatsAssumption
<1>2. timer[e] \in {Off} \cup Nat /\ timer[e] <= Timeout(e)
  BY DEF FlightTypes
<1>3. NextBeat(e) \in Nat /\ NextBeat(e) <= Timeout(e)
  BY <1>1, <1>2 DEF NextBeat
<1>4. PICK n \in Nat, t \in Nat : n = NextBeat(e) /\ t = Timeout(e)
  BY <1>1, <1>3
<1>5. BeatBound(e) \in Int
  BY <1>1, <1>4 DEF BeatBound
<1>6. AckBound(e) \in Int
  BY <1>1, <1>4 DEF AckBound
<1> QED BY <1>1, <1>3, <1>5, <1>6

(* After the step too.                                                     *)
LEMMA BoundsNext == FlightTypes' => BoundsOK'
BY Bounds, PTL

(* A bound follows the next heartbeat and grows when the heartbeat is      *)
(* read.                                                                   *)
LEMMA BoundsGrow ==
    ASSUME FlightTypes, FlightTypes', NEW f \in Ends, NEW k \in Nat,
           NextBeat(f) - k <= NextBeat(f)', NextBeat(Other(f)) - k <= NextBeat(Other(f))',
           HasBeat(wire'[Other(f)]) => HasBeat(wire[Other(f)])
    PROVE  /\ BeatBound(Other(f)) - k <= BeatBound(Other(f))'
           /\ AckBound(f) - k <= AckBound(f)'
<1> DEFINE o == Other(f)
<1>1. o \in Ends
  BY EndsAreTwo
<1> HIDE DEF o
<1>2. PICK n \in Nat, t \in Nat, m \in Nat, u \in Nat, d \in Nat :
          n = NextBeat(f) /\ t = Timeout(f) /\ m = NextBeat(o) /\ u = Timeout(o) /\ d = DataDelay
  BY <1>1, Bounds DEF BoundsOK
<1>3. PICK n2 \in Nat, m2 \in Nat : n2 = NextBeat(f)' /\ m2 = NextBeat(o)'
  BY <1>1, BoundsNext DEF BoundsOK
<1>4. n - k <= n2 /\ m - k <= m2
  BY <1>2, <1>3 DEF o
<1>5. BeatBound(o) = (d + m) - u /\ BeatBound(o)' = (d + m2) - u
  BY <1>2, <1>3 DEF BeatBound
<1>6. /\ AckBound(f) = (2 * d + n) - (IF HasBeat(wire[o]) THEN 2 * t ELSE t)
      /\ AckBound(f)' = (2 * d + n2) - (IF HasBeat(wire'[o]) THEN 2 * t ELSE t)
  BY <1>2, <1>3 DEF AckBound, HasBeat, o
<1>7. ((d + m) - u) - k <= (d + m2) - u
  BY <1>4
<1>8. ((2 * d + n) - 2 * t) - k <= (2 * d + n2) - 2 * t
  BY <1>4
<1>9. ((2 * d + n) - 2 * t) - k <= (2 * d + n2) - t
  BY <1>4
<1>10. ((2 * d + n) - t) - k <= (2 * d + n2) - t
  BY <1>4
<1>11. AckBound(f) - k <= AckBound(f)'
  <2>1. CASE HasBeat(wire'[o])
    <3>1. HasBeat(wire[o])
      BY <2>1 DEF o
    <3> QED BY <1>6, <1>8, <2>1, <3>1
  <2>2. CASE ~HasBeat(wire'[o]) /\ HasBeat(wire[o])
    BY <1>6, <1>9, <2>2
  <2>3. CASE ~HasBeat(wire'[o]) /\ ~HasBeat(wire[o])
    BY <1>6, <1>10, <2>3
  <2> QED BY <2>1, <2>2, <2>3
<1> QED BY <1>5, <1>7, <1>11 DEF o

(* What was on its way before the step still is, if no heartbeat comes     *)
(* nearer.                                                                 *)
LEMMA FliesOn ==
    ASSUME FlightTypes, FlightTypes', NEW f \in Ends,
           NextBeat(f) <= NextBeat(f)', NextBeat(Other(f)) <= NextBeat(Other(f))',
           HasBeat(wire'[Other(f)]) => HasBeat(wire[Other(f)]),
           HasClosed(f) => HasClosed(f)',
           InFlight(wire'[f], BeatBound(Other(f)), AckBound(f), AckBound(f) - Timeout(f),
                    HasClosed(f))
           \/ InFlight(wire'[f], BeatBound(Other(f)), AckBound(f), AckBound(f) - Timeout(f),
                       HasClosed(f)')
    PROVE  Flies(f)'
<1> DEFINE o == Other(f)
<1>1. o \in Ends
  BY EndsAreTwo
<1>2. BeatBound(o) - 0 <= BeatBound(o)' /\ AckBound(f) - 0 <= AckBound(f)'
  <2>1. PICK n \in Nat, m \in Nat : n = NextBeat(f) /\ m = NextBeat(o)
    BY <1>1, Bounds DEF BoundsOK
  <2>2. NextBeat(f) - 0 <= NextBeat(f)' /\ NextBeat(o) - 0 <= NextBeat(o)'
    BY <2>1
  <2> QED BY <2>2, BoundsGrow
<1>3. PICK b \in Int, a \in Int, t \in Int : b = BeatBound(o) /\ a = AckBound(f) /\ t = Timeout(f)
  BY <1>1, Bounds DEF BoundsOK
<1>4. PICK b2 \in Int, a2 \in Int : b2 = BeatBound(o)' /\ a2 = AckBound(f)'
  BY <1>1, BoundsNext DEF BoundsOK
<1>5. b <= b2 /\ a <= a2 /\ a - t <= a2 - t
  BY <1>2, <1>3, <1>4
<1>6. wire'[f] \in Seq(Frames)
  BY DEF FlightTypes
<1>7. InFlight(wire'[f], b, a, a - t, HasClosed(f)) \/ InFlight(wire'[f], b, a, a - t, HasClosed(f)')
  BY <1>3
<1>8. HasClosed(f) \in BOOLEAN /\ HasClosed(f)' \in BOOLEAN
  BY DEF HasClosed
<1>9. InFlight(wire'[f], b2, a2, a2 - t, HasClosed(f)')
  BY <1>5, <1>6, <1>7, <1>8, FlightLoosens
<1>10. Timeout(f)' = Timeout(f) /\ Other(f)' = Other(f)
  BY DEF Timeout, Other
<1>11. Flies(f)' = InFlight(wire'[f], BeatBound(o)', AckBound(f)', AckBound(f)' - t, HasClosed(f)')
  BY <1>3, <1>10 DEF Flies, InFlight, ReadWithin
<1> QED BY <1>4, <1>9, <1>11

-----------------------------------------------------------------------------
(* Whatever is sent is a frame.                                            *)
LEMMA WireStep ==
    ASSUME wire \in [Ends -> Seq(Frames)], Next
    PROVE  wire' \in [Ends -> Seq(Frames)]
<1> DEFINE W == [Ends -> Seq(Frames)]
<1>1. ASSUME NEW w \in W, NEW e \in Ends, NEW type \in Types, NEW d \in MinDelay..DataDelay
      PROVE  Sent(w, e, type, d) \in W
  BY <1>1, SentFrame, DelaysOrdered
<1>2. \A d \in Delays : d \in MinDelay..DataDelay
  BY DelaysOrdered
<1>3. <<>> \in Seq(Frames) /\ {"heartbeat", "ack", "data", "close"} \subseteq Types
  BY DEF Types
<1>4. CASE Tick
  <2>1. \A e \in Ends : Nearer(wire[e]) \in Seq(Frames)
    BY NearerFrames
  <2> QED BY <1>3, <1>4, <2>1 DEF Tick
<1>5. CASE ServerCloses
  BY <1>1, <1>2, <1>3, <1>5 DEF ServerCloses, Ends
<1>6. ASSUME NEW e \in Ends, TimerFires(e) \/ SetDeadline(e) \/ Die(e) PROVE wire' \in W
  BY <1>6 DEF TimerFires, SetDeadline, Die
<1>7. ASSUME NEW e \in Ends, SendHeartbeat(e) PROVE wire' \in W
  BY <1>1, <1>2, <1>3, <1>7 DEF SendHeartbeat
<1>8. ASSUME NEW e \in Ends, SendData(e) PROVE wire' \in W
  BY <1>1, <1>3, <1>8 DEF SendData
<1>9. ASSUME NEW e \in Ends, ReadTimesOut(e) PROVE wire' \in W
  BY <1>1, <1>2, <1>3, <1>9 DEF ReadTimesOut
<1>10. ASSUME NEW e \in Ends, ReadsEOF(e) PROVE wire' \in W
  BY <1>3, <1>10 DEF ReadsEOF
<1>11. ASSUME NEW e \in Ends, Receive(e) PROVE wire' \in W
  <2> DEFINE w == [wire EXCEPT ![e] = Tail(@)]
  <2>1. wire[e] \in Seq(Frames) /\ wire[e] # <<>>
    BY <1>11 DEF Receive, Ready
  <2>2. Tail(wire[e]) \in Seq(Frames)
    BY <2>1, TailOf
  <2>3. w \in W
    BY <2>2
  <2>4. wire' = w \/ \E d \in Delays : wire' = Sent(w, e, "ack", d)
    BY <1>11 DEF Receive
  <2> HIDE DEF w
  <2>5. ASSUME NEW d \in Delays PROVE Sent(w, e, "ack", d) \in W
    BY <1>1, <1>2, <1>3, <2>3
  <2> QED BY <2>3, <2>4, <2>5
<1> QED BY <1>4, <1>5, <1>6, <1>7, <1>8, <1>9, <1>10, <1>11 DEF Next

(* Every step keeps the types.                                             *)
LEMMA TypesStep ==
    ASSUME FlightTypes, Next
    PROVE  FlightTypes'
<1> DEFINE T == /\ alive' \in [Ends -> BOOLEAN]
                /\ loop' \in [Ends -> {"reading", "timedOut", "closed"}]
                /\ callback' \in [Ends -> {"none", "send", "setDeadline"}]
                /\ timer' \in [Ends -> {Off} \cup Nat] /\ deadline' \in [Ends -> {Off} \cup Nat]
           C(e) == /\ timer'[e] <= Timeout(e) /\ deadline'[e] <= ReadDeadline
                   /\ callback'[e] # "none" /\ timer'[e] # Off => timer'[e] = Timeout(e)
                   /\ ~Active(e)' => timer'[e] = Off /\ callback'[e] = "none"
<1> SUFFICES T /\ \A e \in Ends : C(e)
  <2>1. wire' \in [Ends -> Seq(Frames)]
    BY WireStep DEF FlightTypes
  <2> QED BY <2>1 DEF FlightTypes, Timeout
<1> USE TimesPositive DEF FlightTypes, Active
<1>1. ASSUME NEW e \in Ends, NEW why \in {"timedOut", "closed"}, Leave(e, why)
      PROVE  T /\ \A f \in Ends : C(f)
  BY <1>1 DEF Leave, StopClocks, Off
<1>2. CASE Tick
  <2>1. T
    BY <1>2 DEF Tick, Less, Off
  <2>2. ASSUME NEW f \in Ends PROVE C(f)
    <3>1. /\ timer'[f] = Less(timer[f]) /\ deadline'[f] = Less(deadline[f])
          /\ callback' = callback /\ Active(f)' = Active(f)
          /\ Active(f) => callback[f] = "none"
      BY <1>2 DEF Tick, Due
    <3>2. \A n \in {Off} \cup Nat : Less(n) <= n /\ Less(n) \in Int /\ n \in Int
      BY DEF Less, Off
    <3>3. timer[f] = Off => Less(timer[f]) = Off
      BY DEF Less, Off
    <3>4. /\ timer[f] \in {-1} \cup Nat /\ deadline[f] \in {-1} \cup Nat
          /\ timer[f] <= Timeout(f) /\ deadline[f] <= ReadDeadline
          /\ ~Active(f) => timer[f] = Off /\ callback[f] = "none"
      BY DEF Off
    <3>5. /\ Less(timer[f]) <= timer[f] /\ Less(deadline[f]) <= deadline[f]
          /\ Less(timer[f]) \in Int /\ Less(deadline[f]) \in Int
          /\ timer[f] \in Int /\ deadline[f] \in Int
      BY <3>2
    <3>6. Less(timer[f]) <= Timeout(f) /\ Less(deadline[f]) <= ReadDeadline
      <4>1. PICK t \in Nat, r \in Nat : t = Timeout(f) /\ r = ReadDeadline
        OBVIOUS
      <4> QED BY <3>4, <3>5, <4>1
    <3>7. callback'[f] = "none"
      BY <3>1, <3>4
    <3> QED BY <3>1, <3>3, <3>4, <3>6, <3>7
  <2> QED BY <2>1, <2>2
<1>3. CASE ServerCloses
  <2>1. Leave("server", "closed")
    BY <1>3 DEF ServerCloses
  <2> QED BY <1>1, <2>1, EndsAreTwo
<1>4. ASSUME NEW e \in Ends, ReadTimesOut(e) PROVE T /\ \A f \in Ends : C(f)
  <2>1. Leave(e, "timedOut")
    BY <1>4 DEF ReadTimesOut
  <2> QED BY <1>1, <2>1
<1>5. ASSUME NEW e \in Ends, ReadsEOF(e) PROVE T /\ \A f \in Ends : C(f)
  <2>1. Leave(e, "closed")
    BY <1>5 DEF ReadsEOF
  <2> QED BY <1>1, <2>1
<1>6. ASSUME NEW e \in Ends, Die(e) PROVE T /\ \A f \in Ends : C(f)
  BY <1>6 DEF Die, StopClocks, Off
<1>7. ASSUME NEW e \in Ends, TimerFires(e) PROVE T /\ \A f \in Ends : C(f)
  BY <1>7 DEF TimerFires, Off
<1>8. ASSUME NEW e \in Ends, SendHeartbeat(e) PROVE T /\ \A f \in Ends : C(f)
  BY <1>8 DEF SendHeartbeat, Off
<1>9. ASSUME NEW e \in Ends, SetDeadline(e) PROVE T /\ \A f \in Ends : C(f)
  BY <1>9 DEF SetDeadline, DeadlineFromNow, Off
<1>10. ASSUME NEW e \in Ends, SendData(e) PROVE T /\ \A f \in Ends : C(f)
  BY <1>10 DEF SendData
<1>11. ASSUME NEW e \in Ends, Receive(e) PROVE T /\ \A f \in Ends : C(f)
  BY <1>11 DEF Receive, ClearDeadline, Off
<1> HIDE DEF T, C
<1> QED BY <1>2, <1>3, <1>4, <1>5, <1>6, <1>7, <1>8, <1>9, <1>10, <1>11 DEF Next

(* No heartbeat comes nearer in the step, and what the server has ended    *)
(* stays so.                                                               *)
BeatsLater == \A e \in Ends : NextBeat(e) <= NextBeat(e)' /\ (HasClosed(e) => HasClosed(e)')

(* A step that touches the clocks of one end only.                         *)
LEMMA BeatsLaterThan ==
    ASSUME FlightTypes, NEW e \in Ends,
           \A f \in Ends : f # e => callback'[f] = callback[f] /\ timer'[f] = timer[f],
           NextBeat(e) <= NextBeat(e)',
           loop["server"] # "reading" => loop'["server"] # "reading"
    PROVE  BeatsLater
<1>1. ASSUME NEW f \in Ends, f # e PROVE NextBeat(f)' = NextBeat(f)
  BY <1>1 DEF NextBeat, Timeout
<1>2. \A f \in Ends : NextBeat(f) <= NextBeat(f)
  BY Bounds DEF BoundsOK
<1>3. \A f \in Ends : HasClosed(f) => HasClosed(f)'
  BY DEF HasClosed
<1> QED BY <1>1, <1>2, <1>3 DEF BeatsLater

(* A step that sends nothing.                                              *)
LEMMA NoneSent ==
    ASSUME FlightInv, FlightTypes', BeatsLater,
           \A e \in Ends :
               \/ wire'[e] = wire[e] \/ wire'[e] = <<>>
               \/ wire[e] # <<>> /\ wire'[e] = Tail(wire[e])
    PROVE  FlightInv'
<1>1. ASSUME NEW e \in Ends PROVE Flies(e)'
  <2>1. ASSUME NEW g \in Ends, NEW b \in Int, NEW a \in Int, NEW z \in Int, NEW c,
               InFlight(wire[g], b, a, z, c)
        PROVE  InFlight(wire'[g], b, a, z, c) /\ (HasBeat(wire'[g]) => HasBeat(wire[g]))
    <3>1. wire[g] \in Seq(Frames)
      BY DEF FlightInv, FlightTypes
    <3> QED BY <2>1, <3>1, FlightOfNone, FlightTail
  <2>2. ASSUME NEW g \in Ends
        PROVE  /\ InFlight(wire'[g], BeatBound(Other(g)), AckBound(g),
                           AckBound(g) - Timeout(g), HasClosed(g))
               /\ HasBeat(wire'[g]) => HasBeat(wire[g])
    <3>1. PICK b \in Int, a \in Int, t \in Int :
              b = BeatBound(Other(g)) /\ a = AckBound(g) /\ t = Timeout(g)
      BY EndsAreTwo, Bounds DEF BoundsOK, FlightInv
    <3>2. InFlight(wire[g], b, a, a - t, HasClosed(g)) /\ a - t \in Int
      BY <3>1 DEF FlightInv, Flies
    <3> QED BY <2>1, <3>1, <3>2
  <2>3. /\ NextBeat(e) <= NextBeat(e)' /\ NextBeat(Other(e)) <= NextBeat(Other(e))'
        /\ HasClosed(e) => HasClosed(e)'
    <3>1. Other(e) \in Ends
      BY EndsAreTwo
    <3>2. NextBeat(Other(e)) <= NextBeat(Other(e))'
      BY <3>1 DEF BeatsLater, NextBeat, Timeout
    <3> QED BY <3>2 DEF BeatsLater
  <2>4. HasBeat(wire'[Other(e)]) => HasBeat(wire[Other(e)])
    BY <2>2, EndsAreTwo
  <2> QED BY <2>2, <2>3, <2>4, FliesOn DEF FlightInv
<1> QED BY <1>1 DEF FlightInv

(* A step that sends a frame which is neither a heartbeat nor an answer to *)
(* one.                                                                    *)
LEMMA OneSent ==
    ASSUME FlightInv, FlightTypes', BeatsLater, NEW e \in Ends, NEW f \in Frames,
           f.type \in {"data", "close"},
           wire'[e] = wire[e], wire'[Other(e)] = Append(wire[Other(e)], f),
           f.type = "data" => Len(wire[Other(e)]) < MaxFlight,
           f.type = "close" => ~HasClosed(Other(e)) /\ HasClosed(Other(e))'
    PROVE  FlightInv'
<1> DEFINE o == Other(e)
<1>1. o \in Ends /\ Other(o) = e /\ \A g \in Ends : g = e \/ g = o
  BY EndsAreTwo
<1>2. /\ NextBeat(e) <= NextBeat(e)' /\ NextBeat(o) <= NextBeat(o)'
      /\ HasClosed(e) => HasClosed(e)'
      /\ HasClosed(o) => HasClosed(o)'
  BY <1>1 DEF BeatsLater, NextBeat, Timeout, HasClosed
<1>3. PICK b \in Int, a \in Int, t \in Int : b = BeatBound(e) /\ a = AckBound(o) /\ t = Timeout(o)
  BY <1>1, Bounds DEF BoundsOK, FlightInv
<1>4. InFlight(wire[o], b, a, a - t, HasClosed(o))
  BY <1>1, <1>3 DEF FlightInv, Flies
<1>5. wire[o] \in Seq(Frames)
  BY <1>1 DEF FlightInv, FlightTypes
<1>6. InFlight(wire[o], b, a, a - t, HasClosed(o)')
  <2>1. b <= b /\ a <= a /\ a - t <= a - t /\ a - t \in Int
    OBVIOUS
  <2>2. HasClosed(o) => HasClosed(o)'
    BY <1>2
  <2> HIDE DEF o
  <2> QED BY ONLY <1>3, <1>4, <1>5, <2>1, <2>2, b \in Int, a \in Int, t \in Int, FlightLoosens
<1>7. f.type = "close" => HasClosed(o)' /\ InFlight(wire[o], b, a, a - t, FALSE)
  <2>1. HasClosed(o) \in BOOLEAN
    BY DEF HasClosed
  <2>2. f.type = "close" => HasClosed(o)' /\ HasClosed(o) = FALSE
    BY <2>1
  <2> QED BY <1>4, <2>2
<1> HIDE DEF o
<1>8. a - t \in Int
  OBVIOUS
<1>9. /\ InFlight(Append(wire[o], f), b, a, a - t, HasClosed(o)')
      /\ HasBeat(Append(wire[o], f)) <=> HasBeat(wire[o]) \/ f.type = "heartbeat"
  <2>1. f.type # "heartbeat" /\ f.type # "ack"
    OBVIOUS
  <2>2. f.type = "data" => Len(wire[o]) < MaxFlight
    BY DEF o
  <2> HIDE DEF InFlight
  <2> QED BY <1>5, <1>6, <1>7, <1>8, <2>1, <2>2, FlightAppend
<1>10. Flies(o)'
  <2>1. wire'[o] = Append(wire[o], f) /\ wire'[Other(o)] = wire[Other(o)]
    BY <1>1 DEF o
  <2>2. InFlight(wire'[o], BeatBound(Other(o)), AckBound(o), AckBound(o) - Timeout(o), HasClosed(o)')
    BY <1>1, <1>3, <1>9, <2>1
  <2> QED BY <1>1, <1>2, <2>1, <2>2, FliesOn DEF FlightInv
<1>11. Flies(e)'
  <2>1. HasBeat(wire'[Other(e)]) => HasBeat(wire[Other(e)])
    BY <1>9 DEF o
  <2>2. InFlight(wire'[e], BeatBound(Other(e)), AckBound(e), AckBound(e) - Timeout(e), HasClosed(e))
    BY DEF FlightInv, Flies
  <2>3. NextBeat(Other(e)) <= NextBeat(Other(e))'
    BY <1>2 DEF o, NextBeat, Timeout
  <2> QED BY <1>2, <2>1, <2>2, <2>3, FliesOn DEF FlightInv
<1> QED BY <1>1, <1>10, <1>11 DEF FlightInv

(* The next heartbeat was due now, and still is.                           *)
LEMMA FiresFlight ==
    ASSUME FlightInv, NEW e \in Ends, TimerFires(e)
    PROVE  FlightInv'
<1>1. FlightTypes'
  BY TypesStep DEF FlightInv, Next
<1>2. /\ timer[e] = 0 /\ timer' = [timer EXCEPT ![e] = Off]
      /\ callback' = [callback EXCEPT ![e] = "send"]
      /\ wire' = wire /\ loop' = loop
  BY DEF TimerFires
<1>3. NextBeat(e) = 0 /\ NextBeat(e)' = 0
  BY <1>2, TimesPositive DEF NextBeat, FlightInv, FlightTypes, Off
<1>4. BeatsLater
  BY <1>2, <1>3, BeatsLaterThan DEF FlightInv, FlightTypes
<1> QED BY <1>1, <1>2, <1>4, NoneSent

(* The second call of the callback sends nothing.                          *)
LEMMA DeadlineFlight ==
    ASSUME FlightInv, NEW e \in Ends, SetDeadline(e)
    PROVE  FlightInv'
<1>1. FlightTypes'
  BY TypesStep DEF FlightInv, Next
<1>2. /\ callback[e] = "setDeadline" /\ callback' = [callback EXCEPT ![e] = "none"]
      /\ wire' = wire /\ loop' = loop /\ timer' = timer
  BY DEF SetDeadline
<1>3. NextBeat(e)' = NextBeat(e)
  BY <1>2 DEF NextBeat, Timeout, FlightInv, FlightTypes
<1>4. NextBeat(e) <= NextBeat(e)'
  BY <1>3, Bounds DEF BoundsOK, FlightInv
<1>5. BeatsLater
  BY <1>2, <1>4, BeatsLaterThan DEF FlightInv, FlightTypes
<1> QED BY <1>1, <1>2, <1>5, NoneSent

(* An end that stops its clocks sends no heartbeat.                        *)
LEMMA StopsLater ==
    ASSUME FlightTypes, NEW e \in Ends, StopClocks(e),
           loop["server"] # "reading" => loop'["server"] # "reading"
    PROVE  BeatsLater
<1>1. callback' = [callback EXCEPT ![e] = "none"] /\ timer' = [timer EXCEPT ![e] = Off]
  BY DEF StopClocks
<1>2. NextBeat(e)' = Timeout(e)
  BY <1>1 DEF NextBeat, Timeout, FlightTypes
<1>3. NextBeat(e) <= NextBeat(e)'
  BY <1>2, Bounds DEF BoundsOK
<1> QED BY <1>1, <1>3, BeatsLaterThan DEF FlightTypes

(* A machine that stops.                                                   *)
LEMMA DieFlight ==
    ASSUME FlightInv, NEW e \in Ends, Die(e)
    PROVE  FlightInv'
<1>1. FlightTypes'
  BY TypesStep DEF FlightInv, Next
<1>2. StopClocks(e) /\ wire' = wire /\ loop' = loop
  BY DEF Die
<1> QED BY <1>1, <1>2, StopsLater, NoneSent DEF FlightInv

(* The client's loop reads the end of the stream.                          *)
LEMMA EOFFlight ==
    ASSUME FlightInv, NEW e \in Ends, ReadsEOF(e)
    PROVE  FlightInv'
<1>1. FlightTypes'
  BY TypesStep DEF FlightInv, Next
<1>2. /\ StopClocks(e) /\ loop' = [loop EXCEPT ![e] = "closed"]
      /\ wire' = [wire EXCEPT ![e] = <<>>]
  BY DEF ReadsEOF, Leave
<1>3. loop \in [Ends -> {"reading", "timedOut", "closed"}] /\ wire \in [Ends -> Seq(Frames)]
  BY DEF FlightInv, FlightTypes
<1>4. loop["server"] # "reading" => loop'["server"] # "reading"
  BY <1>2, <1>3, EndsAreTwo
<1>5. \A g \in Ends : wire'[g] = wire[g] \/ wire'[g] = <<>>
  BY <1>2, <1>3
<1> QED BY <1>1, <1>2, <1>4, <1>5, StopsLater, NoneSent DEF FlightInv

(* A request or a response, within the bound.                              *)
LEMMA DataFlight ==
    ASSUME FlightInv, NEW e \in Ends, SendData(e)
    PROVE  FlightInv'
<1>1. FlightTypes'
  BY TypesStep DEF FlightInv, Next
<1>2. /\ Len(wire[Other(e)]) < MaxFlight
      /\ callback' = callback /\ timer' = timer /\ loop' = loop
  BY DEF SendData
<1>3. PICK d \in MinDelay..DataDelay : wire' = Sent(wire, e, "data", d)
  BY DEF SendData
<1>4. PICK f \in Frames : /\ f.type = "data" /\ wire'[e] = wire[e]
                          /\ wire'[Other(e)] = Append(wire[Other(e)], f)
  <2> DEFINE f == [type |-> "data", left |-> d]
  <2>1. /\ f \in Frames /\ wire'[e] = wire[e] /\ f.type = "data"
        /\ wire'[Other(e)] = Append(wire[Other(e)], f)
    BY <1>3, SentFrame, DelaysOrdered DEF FlightInv, FlightTypes, Types
  <2> HIDE DEF f
  <2> QED BY <2>1
<1>5. NextBeat(e)' = NextBeat(e)
  BY <1>2 DEF NextBeat, Timeout
<1>6. NextBeat(e) <= NextBeat(e)'
  BY <1>5, Bounds DEF BoundsOK, FlightInv
<1>7. BeatsLater
  BY <1>2, <1>6, BeatsLaterThan DEF FlightInv
<1> QED BY <1>1, <1>2, <1>4, <1>7, OneSent

(* The server ends the stream, once: its loop was reading.                 *)
LEMMA ServerLeavesFlight ==
    ASSUME FlightInv, Next, NEW why \in {"timedOut", "closed"}, Active("server"),
           Leave("server", why), NEW d \in Delays, wire' = Sent(wire, "server", "close", d)
    PROVE  FlightInv'
<1>1. FlightTypes'
  BY TypesStep DEF FlightInv
<1>2. StopClocks("server") /\ loop' = [loop EXCEPT !["server"] = why]
  BY DEF Leave
<1>3. PICK f \in Frames : /\ f.type = "close" /\ wire'["server"] = wire["server"]
                          /\ wire'[Other("server")] = Append(wire[Other("server")], f)
  <2> DEFINE f == [type |-> "close", left |-> d]
  <2>1. d \in Int /\ MinDelay <= d /\ d <= DataDelay
    BY DelaysOrdered
  <2>2. /\ f \in Frames /\ wire'["server"] = wire["server"] /\ f.type = "close"
        /\ wire'[Other("server")] = Append(wire[Other("server")], f)
    BY <2>1, SentFrame, EndsAreTwo DEF FlightInv, FlightTypes, Types
  <2> HIDE DEF f
  <2> QED BY <2>2
<1>4. loop["server"] = "reading" /\ loop'["server"] # "reading"
  BY <1>2 DEF Active, FlightInv, FlightTypes, Ends
<1>5. ~HasClosed(Other("server")) /\ HasClosed(Other("server"))'
  BY <1>4 DEF HasClosed, Other
<1>6. BeatsLater
  BY <1>2, <1>4, StopsLater, EndsAreTwo DEF FlightInv
<1> QED BY <1>1, <1>3, <1>5, <1>6, OneSent, EndsAreTwo

(* The server then closes the connection, the client sends nothing.        *)
LEMMA TimesOutFlight ==
    ASSUME FlightInv, NEW e \in Ends, ReadTimesOut(e)
    PROVE  FlightInv'
<1>1. CASE e = "server"
  <2>1. PICK d \in Delays : wire' = Sent(wire, e, "close", d)
    BY <1>1 DEF ReadTimesOut
  <2>2. Active("server") /\ Leave("server", "timedOut") /\ Next
    BY <1>1 DEF ReadTimesOut, Next
  <2> QED BY <1>1, <2>1, <2>2, ServerLeavesFlight
<1>2. CASE e # "server"
  <2>1. /\ StopClocks(e) /\ loop' = [loop EXCEPT ![e] = "timedOut"] /\ wire' = wire
    BY <1>2 DEF ReadTimesOut, Leave
  <2>2. loop["server"] # "reading" => loop'["server"] # "reading"
    BY <1>2, <2>1, EndsAreTwo DEF FlightInv, FlightTypes
  <2>3. FlightTypes'
    BY TypesStep DEF FlightInv, Next
  <2> QED BY <2>1, <2>2, <2>3, StopsLater, NoneSent DEF FlightInv
<1> QED BY <1>1, <1>2

(* The server closes for another reason.                                   *)
LEMMA ClosesFlight ==
    ASSUME FlightInv, ServerCloses
    PROVE  FlightInv'
<1>1. PICK d \in Delays : wire' = Sent(wire, "server", "close", d)
  BY DEF ServerCloses
<1>2. Active("server") /\ Leave("server", "closed") /\ Next
  BY DEF ServerCloses, Next
<1> QED BY <1>1, <1>2, ServerLeavesFlight

(* A tick makes no heartbeat.                                              *)
LEMMA NearerBeat ==
    ASSUME NEW s \in Seq(Frames), HasBeat(Nearer(s))
    PROVE  HasBeat(s)
<1>1. PICK i \in DOMAIN s : Nearer(s)[i].type = "heartbeat"
  BY DEF HasBeat, Nearer
<1>2. Nearer(s)[i] = [s[i] EXCEPT !.left = Less(@)]
  BY DEF Nearer
<1>3. s[i] \in [type : Types, left : 0..DataDelay]
  BY ElementOfSeq, LenProperties DEF Frames
<1>4. Nearer(s)[i].type = s[i].type
  BY <1>2, <1>3
<1> QED BY <1>1, <1>4 DEF HasBeat

(* A tick brings the heartbeats and the next ones nearer alike.            *)
LEMMA TickFlight ==
    ASSUME FlightInv, Tick
    PROVE  FlightInv'
<1>1. FlightTypes'
  BY TypesStep DEF FlightInv, Next
<1>2. /\ \A e \in Ends : /\ timer'[e] = Less(timer[e])
                         /\ wire'[e] = IF Active(e) THEN Nearer(wire[e]) ELSE <<>>
                         /\ ~Due(e)
      /\ callback' = callback /\ loop' = loop
  BY DEF Tick
<1>3. ASSUME NEW e \in Ends PROVE NextBeat(e) - 1 <= NextBeat(e)'
  <2>1. callback[e] = "none"
    BY <1>2 DEF Due, FlightInv, FlightTypes
  <2>2. timer[e] \in {-1} \cup Nat /\ Timeout(e) \in Nat
    BY TimesPositive DEF FlightInv, FlightTypes, Off
  <2>3. CASE timer[e] = Off
    <3>1. timer'[e] = Off
      BY <1>2, <2>3 DEF Less, Off
    <3>2. NextBeat(e) = Timeout(e) /\ NextBeat(e)' = Timeout(e)
      BY <1>2, <2>1, <2>3, <3>1 DEF NextBeat, Timeout
    <3> QED BY <2>2, <3>2
  <2>4. CASE timer[e] # Off
    <3>1. timer[e] # 0
      <4>1. Active(e)
        BY <2>4 DEF FlightInv, FlightTypes
      <4> QED BY <1>2, <4>1 DEF Due
    <3>2. PICK t \in Nat : t = timer[e] /\ t > 0 /\ timer'[e] = t - 1
      BY <1>2, <2>2, <2>4, <3>1 DEF Less, Off
    <3>3. NextBeat(e) = t /\ NextBeat(e)' = t - 1
      BY <1>2, <2>1, <2>4, <3>2 DEF NextBeat, Off
    <3> QED BY <3>2, <3>3
  <2> QED BY <2>3, <2>4
<1>4. ASSUME NEW e \in Ends PROVE Flies(e)'
  <2> DEFINE o == Other(e)
  <2>1. o \in Ends
    BY EndsAreTwo
  <2>2. ASSUME NEW g \in Ends, HasBeat(wire'[g]) PROVE HasBeat(wire[g]) /\ Active(g)
    <3>1. Active(g)
      BY <1>2, <2>2, FlightOfNone
    <3>2. wire'[g] = Nearer(wire[g]) /\ wire[g] \in Seq(Frames)
      BY <1>2, <3>1 DEF FlightInv, FlightTypes
    <3> QED BY <2>2, <3>1, <3>2, NearerBeat
  <2>3. CASE Active(e)
    <3>1. wire'[e] = Nearer(wire[e]) /\ wire[e] \in Seq(Frames) /\ wire'[e] \in Seq(Frames)
      BY <1>1, <1>2, <2>3 DEF FlightInv, FlightTypes
    <3>2. wire[e] = <<>> \/ Head(wire[e]).left # 0
      BY <1>2, <2>3 DEF Due, Ready
    <3>3. PICK b \in Int, a \in Int, t \in Int :
              b = BeatBound(o) /\ a = AckBound(e) /\ t = Timeout(e)
      BY <2>1, Bounds DEF BoundsOK, FlightInv
    <3>4. PICK b2 \in Int, a2 \in Int : b2 = BeatBound(o)' /\ a2 = AckBound(e)'
      BY <1>1, <2>1, BoundsNext DEF BoundsOK
    <3>5. InFlight(wire[e], b, a, a - t, HasClosed(e)) /\ a - t \in Int
      BY <3>3 DEF FlightInv, Flies
    <3>6. InFlight(wire'[e], b - 1, a - 1, (a - t) - 1, HasClosed(e))
      BY <3>1, <3>2, <3>5, FlightNearer
    <3>7. b - 1 <= b2 /\ a - 1 <= a2
      <4>1. NextBeat(Other(e)) - 1 <= NextBeat(Other(e))'
        BY <1>3, <2>1
      <4>2. HasBeat(wire'[Other(e)]) => HasBeat(wire[Other(e)])
        BY <2>1, <2>2
      <4>3. BeatBound(Other(e)) - 1 <= BeatBound(Other(e))' /\ AckBound(e) - 1 <= AckBound(e)'
        BY <1>1, <1>3, <4>1, <4>2, BoundsGrow DEF FlightInv
      <4> QED BY <3>3, <3>4, <4>3
    <3>8. (a - t) - 1 <= a2 - t
      BY <3>7
    <3>9. HasClosed(e)' = HasClosed(e)
      BY <1>2 DEF HasClosed
    <3>10. InFlight(wire'[e], b2, a2, a2 - t, HasClosed(e)')
      <4>1. b - 1 \in Int /\ a - 1 \in Int /\ (a - t) - 1 \in Int /\ a2 - t \in Int
        OBVIOUS
      <4>2. InFlight(wire'[e], b2, a2, a2 - t, HasClosed(e))
        BY ONLY <3>1, <3>4, <3>6, <3>7, <3>8, <4>1, FlightLoosens
      <4> QED BY <3>9, <4>2
    <3>11. Timeout(e)' = Timeout(e)
      BY DEF Timeout
    <3>12. Flies(e)' = InFlight(wire'[e], BeatBound(o)', AckBound(e)', AckBound(e)' - t, HasClosed(e)')
      BY <3>3, <3>11 DEF Flies, InFlight, ReadWithin
    <3> QED BY <3>4, <3>10, <3>12
  <2>4. CASE ~Active(e)
    <3>1. wire'[e] = <<>>
      BY <1>2, <2>4
    <3> QED BY <3>1, FlightOfNone DEF Flies, InFlight
  <2> QED BY <2>3, <2>4
<1> QED BY <1>1, <1>4 DEF FlightInv

(* The heartbeat before this one has been read: it was sent a timeout ago, *)
(* which is longer than any frame takes.                                   *)
LEMMA SendsFlight ==
    ASSUME DataDelay < ServerTimeout, DataDelay < ClientTimeout,
           FlightInv, NEW e \in Ends, SendHeartbeat(e)
    PROVE  FlightInv'
<1> DEFINE o == Other(e)
<1>1. FlightTypes'
  BY TypesStep DEF FlightInv, Next
<1>2. o \in Ends /\ o # e /\ Other(o) = e /\ \A g \in Ends : g = e \/ g = o
  BY EndsAreTwo
<1>3. /\ callback[e] = "send" /\ callback' = [callback EXCEPT ![e] = "setDeadline"]
      /\ timer' = timer /\ loop' = loop
  BY DEF SendHeartbeat
<1>4. PICK f \in Frames : /\ f.type = "heartbeat" /\ wire'[e] = wire[e]
                          /\ wire'[o] = Append(wire[o], f)
  <2>1. PICK d \in Delays : wire' = Sent(wire, e, "heartbeat", d)
    BY DEF SendHeartbeat
  <2> DEFINE f == [type |-> "heartbeat", left |-> d]
  <2>2. d \in Int /\ MinDelay <= d /\ d <= DataDelay
    BY DelaysOrdered
  <2>3. /\ f \in Frames /\ wire'[e] = wire[e] /\ f.type = "heartbeat"
        /\ wire'[Other(e)] = Append(wire[Other(e)], f)
    BY <2>1, <2>2, SentFrame DEF FlightInv, FlightTypes, Types
  <2> HIDE DEF f
  <2> QED BY <2>3
<1>5. NextBeat(e) = 0 /\ NextBeat(e)' = Timeout(e) /\ NextBeat(o)' = NextBeat(o)
  <2>1. timer[e] # Off => timer[e] = Timeout(e)
    BY <1>3 DEF FlightInv, FlightTypes
  <2>2. callback'[e] = "setDeadline" /\ callback'[o] = callback[o]
    BY <1>2, <1>3 DEF FlightInv, FlightTypes
  <2> HIDE DEF o
  <2> QED BY <1>3, <2>1, <2>2 DEF NextBeat, Timeout
<1>6. wire[o] \in Seq(Frames) /\ wire[e] \in Seq(Frames)
  BY <1>2 DEF FlightInv, FlightTypes
<1>7. HasClosed(o)' = HasClosed(o) /\ HasClosed(e)' = HasClosed(e)
  BY <1>3 DEF HasClosed
<1>8. Timeout(o)' = Timeout(o) /\ Timeout(e)' = Timeout(e) /\ DataDelay < Timeout(e)
  BY DEF Timeout
<1> HIDE DEF o
<1>9. PICK d \in Nat, t \in Nat, u \in Nat, n \in Nat :
          d = DataDelay /\ t = Timeout(e) /\ u = Timeout(o) /\ n = NextBeat(o)
  BY <1>2, Bounds DEF BoundsOK, FlightInv
<1>10. d < t
  BY <1>8, <1>9
<1>11. PICK a \in Int : a = AckBound(o) /\ a = AckBound(o)'
  <2>1. AckBound(o) \in Int
    BY <1>2, Bounds DEF BoundsOK, FlightInv
  <2>2. AckBound(o)' = AckBound(o)
    BY <1>2, <1>4, <1>5, <1>8 DEF AckBound, HasBeat
  <2> QED BY <2>1, <2>2
<1>12. BeatBound(e) = d - t /\ BeatBound(e)' = d
  BY <1>5, <1>8, <1>9 DEF BeatBound
<1>13. InFlight(wire[o], d - t, a, a - u, HasClosed(o))
  BY <1>2, <1>9, <1>11, <1>12 DEF FlightInv, Flies
<1>14. ~HasBeat(wire[o])
  <2> SUFFICES ASSUME NEW i \in DOMAIN wire[o], wire[o][i].type = "heartbeat" PROVE FALSE
    BY DEF HasBeat
  <2>1. ReadWithin(wire[o], i, d - t)
    BY <1>13 DEF InFlight
  <2>2. i \in 1..i
    BY <1>6, FrameTypes
  <2>3. wire[o][i].left <= d - t
    BY <2>1, <2>2 DEF ReadWithin
  <2>4. PICK x \in Nat : x = wire[o][i].left
    BY <1>6, FrameTypes, HeartbeatsAssumption
  <2>5. x <= d - t
    BY <2>3, <2>4
  <2> QED BY <1>10, <2>5
<1>15. /\ InFlight(wire'[o], d, a, a - u, HasClosed(o))
       /\ HasBeat(wire'[o])
  <2>1. d - t \in Int /\ d \in Int /\ a - u \in Int /\ d - t <= d /\ a <= a /\ a - u <= a - u
        /\ d <= d
    OBVIOUS
  <2>2. InFlight(wire[o], d, a, a - u, HasClosed(o))
    BY ONLY <1>6, <1>13, <2>1, a \in Int, FlightLoosens
  <2>3. f.type # "data" /\ f.type # "ack" /\ f.type # "close" /\ f.type = "heartbeat"
    BY <1>4
  <2>4. DataDelay <= d
    BY <1>9
  <2>5. /\ InFlight(Append(wire[o], f), d, a, a - u, HasClosed(o))
        /\ HasBeat(Append(wire[o], f)) <=> HasBeat(wire[o]) \/ f.type = "heartbeat"
    BY ONLY <1>6, <1>14, <2>1, <2>2, <2>3, <2>4, a \in Int, f \in Frames, FlightAppend
  <2> QED BY <1>4, <2>3, <2>5
<1>16. Flies(o)'
  <2>1. Flies(o)' = InFlight(wire'[o], BeatBound(Other(o))', AckBound(o)', AckBound(o)' - Timeout(o),
                             HasClosed(o)')
    BY <1>8 DEF Flies, InFlight, ReadWithin
  <2>2. BeatBound(Other(o))' = BeatBound(e)'
    BY <1>2
  <2> QED BY <1>7, <1>9, <1>11, <1>12, <1>15, <2>1, <2>2
<1>17. Flies(e)'
  <2>1. AckBound(e)' = AckBound(e)
    <3>1. AckBound(e) = (2 * d + 0) - t
      BY <1>5, <1>9, <1>14 DEF AckBound, o
    <3>2. AckBound(e)' = (2 * d + t) - 2 * t
      BY <1>5, <1>8, <1>9, <1>15 DEF AckBound, HasBeat, o
    <3>3. (2 * d + 0) - t = (2 * d + t) - 2 * t
      OBVIOUS
    <3> QED BY <3>1, <3>2, <3>3
  <2>2. BeatBound(o)' = BeatBound(o)
    BY <1>5, <1>8 DEF BeatBound
  <2>3. Flies(e)
    BY DEF FlightInv
  <2>4. Flies(e)' = InFlight(wire'[e], BeatBound(o)', AckBound(e)', AckBound(e)' - Timeout(e),
                             HasClosed(e)')
    BY <1>8 DEF Flies, InFlight, ReadWithin, o
  <2>5. Flies(e) = InFlight(wire[e], BeatBound(o), AckBound(e), AckBound(e) - Timeout(e),
                            HasClosed(e))
    BY DEF Flies, o
  <2> QED BY <1>4, <1>7, <2>1, <2>2, <2>3, <2>4, <2>5
<1> QED BY <1>1, <1>2, <1>16, <1>17 DEF FlightInv

(* The answer to a heartbeat: the one before it is now the first of two,   *)
(* and a third would have been there for longer than a frame takes.        *)
LEMMA ReceiveFlight ==
    ASSUME DataDelay < ServerTimeout, DataDelay < ClientTimeout,
           FlightInv, NEW e \in Ends, Receive(e)
    PROVE  FlightInv'
<1> DEFINE o == Other(e)
           h == Head(wire[e])
           w == [wire EXCEPT ![e] = Tail(@)]
<1>1. FlightTypes'
  BY TypesStep DEF FlightInv, Next
<1>2. o \in Ends /\ o # e /\ Other(o) = e /\ \A g \in Ends : g = e \/ g = o
  BY EndsAreTwo
<1>3. /\ wire[e] # <<>> /\ h.left = 0
      /\ timer' = [timer EXCEPT ![e] = Timeout(e)]
      /\ callback' = callback /\ loop' = loop
  BY DEF Receive, Ready
<1>4. wire[o] \in Seq(Frames) /\ wire[e] \in Seq(Frames)
  BY <1>2 DEF FlightInv, FlightTypes
<1>5. /\ Tail(wire[e]) \in Seq(Frames)
      /\ w \in [Ends -> Seq(Frames)] /\ w[e] = Tail(wire[e]) /\ w[o] = wire[o]
  <2>1. Tail(wire[e]) \in Seq(Frames)
    BY <1>3, <1>4, TailOf
  <2> QED BY <1>2, <2>1 DEF FlightInv, FlightTypes
<1>6. BeatsLater
  <2>1. timer'[e] = Timeout(e) /\ Timeout(e) # Off
    BY <1>3, TimesPositive DEF FlightInv, FlightTypes, Off
  <2>2. NextBeat(e)' = IF callback[e] = "send" THEN 0 ELSE Timeout(e)
    BY <1>3, <2>1 DEF NextBeat
  <2>3. callback[e] = "send" => NextBeat(e) = 0
    BY DEF NextBeat
  <2>4. NextBeat(e) <= NextBeat(e)'
    BY <2>2, <2>3, Bounds DEF BoundsOK, FlightInv
  <2> QED BY <1>3, <2>4, BeatsLaterThan DEF FlightInv, FlightTypes
<1>7. CASE h.type # "heartbeat"
  <2>1. wire' = w
    BY <1>7 DEF Receive, AnswerTo
  <2>2. \A g \in Ends : wire'[g] = wire[g] \/ (wire[g] # <<>> /\ wire'[g] = Tail(wire[g]))
    BY <1>2, <1>3, <1>5, <2>1
  <2> QED BY <1>1, <1>6, <2>2, NoneSent
<1>8. CASE h.type = "heartbeat"
  <2>1. PICK f \in Frames : /\ f.type = "ack" /\ wire'[e] = Tail(wire[e])
                            /\ wire'[o] = Append(wire[o], f)
    <3>1. PICK d \in Delays : wire' = Sent(w, e, "ack", d)
      BY <1>8 DEF Receive, AnswerTo
    <3> DEFINE f == [type |-> "ack", left |-> d]
    <3>2. d \in Int /\ MinDelay <= d /\ d <= DataDelay /\ "ack" \in Types
      BY DelaysOrdered DEF Types
    <3> HIDE DEF w
    <3>3. /\ f \in Frames /\ wire'[e] = w[e] /\ f.type = "ack"
          /\ wire'[Other(e)] = Append(w[Other(e)], f)
      BY <1>5, <3>1, <3>2, SentFrame
    <3> HIDE DEF f
    <3> QED BY <1>5, <3>3
  <2> HIDE DEF h, w
  <2>2. NextBeat(o)' = NextBeat(o) /\ NextBeat(e) <= NextBeat(e)' /\ NextBeat(o) <= NextBeat(o)'
    <3>1. NextBeat(o)' = NextBeat(o)
      BY <1>2, <1>3 DEF NextBeat, Timeout, FlightInv, FlightTypes
    <3> QED BY <1>2, <1>6, <3>1 DEF BeatsLater
  <2>3. HasClosed(o)' = HasClosed(o) /\ HasClosed(e)' = HasClosed(e)
    BY <1>3 DEF HasClosed
  <2>4. Timeout(o)' = Timeout(o) /\ Timeout(e)' = Timeout(e) /\ DataDelay < Timeout(o)
    BY DEF Timeout
  <2> HIDE DEF o
  <2>5. PICK d \in Nat, u \in Nat, n \in Nat :
            d = DataDelay /\ u = Timeout(o) /\ n = NextBeat(o) /\ n <= u /\ d < u
    BY <1>2, <2>4, Bounds DEF BoundsOK, FlightInv
  <2>6. PICK b \in Int, b2 \in Int : b = BeatBound(e) /\ b2 = BeatBound(e)' /\ b <= b2
    <3>1. PICK m \in Nat, m2 \in Nat, t \in Nat :
              m = NextBeat(e) /\ m2 = NextBeat(e)' /\ t = Timeout(e)
      BY <1>1, Bounds, BoundsNext DEF BoundsOK, FlightInv
    <3>2. m <= m2
      BY <2>2, <3>1
    <3>3. BeatBound(e) = (d + m) - t /\ BeatBound(e)' = (d + m2) - t
      BY <2>4, <2>5, <3>1 DEF BeatBound
    <3>4. (d + m) - t <= (d + m2) - t
      BY <3>2
    <3> QED BY <3>3, <3>4
  <2>7. PICK a \in Int, c \in BOOLEAN : a = AckBound(o) /\ c = HasClosed(o)
    BY <1>2, Bounds DEF BoundsOK, FlightInv, HasClosed
  <2>8. InFlight(wire[o], b, a, a - u, c)
    BY <1>2, <2>5, <2>6, <2>7 DEF FlightInv, Flies
  <2>9. /\ HasBeat(wire[e]) /\ ~HasBeat(wire'[e]) /\ 0 <= (d + n) - u
        /\ InFlight(wire'[e], BeatBound(o), AckBound(e), AckBound(e) - Timeout(e), HasClosed(e))
    <3>1. PICK bb \in Int, aa \in Int, tt \in Int :
              bb = BeatBound(o) /\ aa = AckBound(e) /\ tt = Timeout(e)
      BY <1>2, Bounds DEF BoundsOK, FlightInv
    <3>2. InFlight(wire[e], bb, aa, aa - tt, HasClosed(e)) /\ aa - tt \in Int
      BY <3>1 DEF FlightInv, Flies, o
    <3>3. /\ InFlight(Tail(wire[e]), bb, aa, aa - tt, HasClosed(e))
          /\ HasBeat(Tail(wire[e])) => HasBeat(wire[e]) /\ Head(wire[e]).type # "heartbeat"
          /\ Head(wire[e]).type = "heartbeat" => HasBeat(wire[e]) /\ Head(wire[e]).left <= bb
      BY <1>3, <1>4, <3>2, FlightTail
    <3>4. HasBeat(wire[e]) /\ ~HasBeat(Tail(wire[e])) /\ 0 <= bb
      BY <1>3, <1>8, <3>3 DEF h
    <3>5. bb = (d + n) - u
      BY <2>5, <3>1 DEF BeatBound
    <3> QED BY <2>1, <3>1, <3>3, <3>4, <3>5
  <2>10. a = (2 * d + n) - 2 * u
    BY <1>2, <2>5, <2>7, <2>9 DEF AckBound
  <2>11. AckBound(o)' = (2 * d + n) - u
    BY <1>2, <2>2, <2>4, <2>5, <2>9 DEF AckBound, HasBeat
  <2>12. PICK a2 \in Int : a2 = AckBound(o)' /\ a2 = a + u
    BY <2>10, <2>11
  <2>13. d <= a2 /\ a - u <= -1 /\ a <= a2 /\ a - u <= a /\ a2 - u = a
    BY <2>5, <2>9, <2>10, <2>11, <2>12
  <2>14. InFlight(wire[o], b2, a2, a, c) /\ InFlight(wire[o], b2, a, -1, c)
    <3>1. a - u \in Int /\ -1 \in Int
      OBVIOUS
    <3> QED BY ONLY <1>4, <2>6, <2>8, <2>13, <3>1, b \in Int, b2 \in Int, a \in Int, a2 \in Int,
                    FlightLoosens
  <2>15. /\ InFlight(wire'[o], b2, a2, a, c)
         /\ HasBeat(wire'[o]) => HasBeat(wire[o])
    <3>1. f.type # "data" /\ f.type # "heartbeat" /\ f.type # "close" /\ DataDelay <= a2
      BY <2>1, <2>5, <2>13
    <3>2. /\ InFlight(Append(wire[o], f), b2, a2, a, c)
          /\ HasBeat(Append(wire[o], f)) <=> HasBeat(wire[o]) \/ f.type = "heartbeat"
      BY ONLY <1>4, <2>14, <3>1, b2 \in Int, a \in Int, a2 \in Int, f \in Frames, FlightAppend
    <3> QED BY <2>1, <3>1, <3>2
  <2>16. Flies(o)'
    <3>1. Flies(o)' = InFlight(wire'[o], BeatBound(Other(o))', AckBound(o)',
                               AckBound(o)' - Timeout(o), HasClosed(o)')
      BY <2>4 DEF Flies, InFlight, ReadWithin
    <3>2. BeatBound(Other(o))' = BeatBound(e)'
      BY <1>2
    <3> QED BY <2>3, <2>5, <2>6, <2>7, <2>12, <2>13, <2>15, <3>1, <3>2
  <2>17. Flies(e)'
    <3>1. HasBeat(wire'[Other(e)]) => HasBeat(wire[Other(e)])
      BY <2>15 DEF o
    <3>2. NextBeat(Other(e)) <= NextBeat(Other(e))'
      BY <2>2 DEF o, NextBeat, Timeout
    <3>3. InFlight(wire'[e], BeatBound(Other(e)), AckBound(e), AckBound(e) - Timeout(e), HasClosed(e))
      BY <2>9 DEF o
    <3> QED BY <1>1, <2>2, <2>3, <3>1, <3>2, <3>3, FliesOn DEF FlightInv
  <2> QED BY <1>1, <1>2, <2>16, <2>17 DEF FlightInv
<1> QED BY <1>7, <1>8

(* Nothing is on its way at the start.                                     *)
LEMMA FlightInit ==
    ASSUME DataDelay < ServerTimeout, DataDelay < ClientTimeout
    PROVE  Init => FlightInv
<1> SUFFICES ASSUME Init PROVE FlightInv
  OBVIOUS
<1>1. FlightTypes
  BY TimesPositive DEF Init, FlightTypes, Active, Off
<1>2. \A e \in Ends : Flies(e)
  BY FlightOfNone DEF Init, Flies
<1> QED BY <1>1, <1>2 DEF FlightInv

(* Every step keeps what is on its way within the bounds.                  *)
LEMMA FlightStep ==
    ASSUME DataDelay < ServerTimeout, DataDelay < ClientTimeout
    PROVE  FlightInv /\ [Next]_vars => FlightInv'
<1> SUFFICES ASSUME FlightInv, [Next]_vars PROVE FlightInv'
  OBVIOUS
<1>1. CASE Tick
  BY <1>1, TickFlight
<1>2. CASE ServerCloses
  BY <1>2, ClosesFlight
<1>3. ASSUME NEW e \in Ends, SendHeartbeat(e) PROVE FlightInv'
  BY <1>3, SendsFlight
<1>4. ASSUME NEW e \in Ends, Receive(e) PROVE FlightInv'
  BY <1>4, ReceiveFlight
<1>5. ASSUME NEW e \in Ends,
             \/ TimerFires(e) \/ SetDeadline(e) \/ ReadTimesOut(e)
             \/ ReadsEOF(e) \/ SendData(e) \/ Die(e)
      PROVE FlightInv'
  BY <1>5, FiresFlight, DeadlineFlight, TimesOutFlight, EOFFlight, DataFlight, DieFlight
<1>6. CASE UNCHANGED vars
  <2>1. FlightTypes'
    BY <1>6 DEF vars, FlightInv, FlightTypes, Active
  <2>2. ASSUME NEW e \in Ends PROVE Flies(e)'
    <3>1. Flies(e)
      BY DEF FlightInv
    <3> QED BY <1>6, <3>1 DEF vars, Flies, BeatBound, AckBound, NextBeat, HasBeat, HasClosed,
                              Timeout, InFlight, ReadWithin
  <2> QED BY <2>1, <2>2 DEF FlightInv
<1> QED BY <1>1, <1>2, <1>3, <1>4, <1>5, <1>6 DEF Next

(* The invariant, with that of the clocks, gives the types.                *)
LEMMA FlightTyped == FlightInv /\ ClockInv => TypeOK
<1> SUFFICES ASSUME FlightInv, ClockInv PROVE TypeOK
  OBVIOUS
<1>1. ASSUME NEW e \in Ends
      PROVE  /\ timer[e] \in {Off} \cup 0..Timeout(e)
             /\ deadline[e] \in {Off} \cup 0..ReadDeadline
  BY TimesPositive DEF FlightInv, FlightTypes, Off
<1>2. ASSUME NEW e \in Ends
      PROVE  Len(wire[e]) <= MaxFlight + 4 /\ \A i \in DOMAIN wire[e] : wire[e][i] \in Frames
  <2>1. wire[e] \in Seq(Frames)
    BY DEF FlightInv, FlightTypes
  <2>2. Flies(e)
    BY DEF FlightInv
  <2>3. Len(wire[e]) <= MaxFlight + 4
    BY <2>1, <2>2, FlightShort DEF Flies
  <2> QED BY <2>1, <2>3, ElementOfSeq, LenProperties
<1>3. /\ alive \in [Ends -> BOOLEAN]
      /\ loop \in [Ends -> {"reading", "timedOut", "closed"}]
      /\ callback \in [Ends -> {"none", "send", "setDeadline"}]
      /\ quiet \in [Ends -> Nat]
  BY DEF ClockInv, ClockTypes
<1> QED BY <1>1, <1>2, <1>3 DEF TypeOK

(* Every variable stays within its type, and heartbeats and their          *)
(* acknowledgements do not pile up between two ends that send them by      *)
(* timer: besides the data frames at most four frames are on their way to  *)
(* an end.                                                                 *)
THEOREM TypeCorrect ==
    ASSUME DataDelay < ServerTimeout, DataDelay < ClientTimeout
    PROVE  Spec => []TypeOK
BY ClockInit, ClockStep, FlightInit, FlightStep, FlightTyped, PTL DEF Spec
=============================================================================
