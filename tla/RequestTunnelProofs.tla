------------------------- MODULE RequestTunnelProofs -------------------------
(***************************************************************************)
(* Every answer reaches the request it was made for, for every number of   *)
(* requests and ids and with all faults.  The argument in four steps:      *)
(*   - types: a handler that sends has drawn an id;                        *)
(*   - the table: an entry of inflightRequests belongs to a handler that   *)
(*     waits, and a responder that has taken one is alone with it;         *)
(*   - the ids: while none is drawn twice, a message carries the id of the *)
(*     request it is of, wherever it is on its way;                        *)
(*   - so a responder finds in the table the request its message is of.    *)
(* The first two hold with colliding ids as well, and so does that a       *)
(* response goes out with its own headers: they are set by the responder   *)
(* that is alone with the request.                                         *)
(***************************************************************************)
EXTENDS RequestTunnel, TLAPS

-----------------------------------------------------------------------------
(* The invariants                                                          *)

Unstored == {"new", "serialize", "store"}
Waiting  == {"send", "await", "delete"}

(* A handler that may send its id has one.                                 *)
StoredOK == \A r \in Reqs : handler[r] \in Waiting => reqId[r] \in Ids

TypeInv == TypeOK /\ StoredOK

(* Nothing is done for a request before it is stored in the table.         *)
FreshOK == \A r \in Reqs : handler[r] \in Unstored => reqId[r] = NoId /\ headers[r] = {}

(* LoadAndDelete: the request a responder works for is no longer in the    *)
(* table, and its handler will not put it there again.                     *)
TakenOK ==
    \A g \in responders : g.at # "lookup" =>
        /\ g.req \in Reqs /\ handler[g.req] \notin Unstored
        /\ \A i \in Ids : inflight[i] # g.req

TableInv == FreshOK /\ InflightIsAwaited /\ TakenOK

(* No id is drawn twice.                                                   *)
OwnIds == \A r, s \in Reqs : reqId[r] = reqId[s] /\ reqId[r] # NoId => r = s

(* The id a message carries is that of its request, on both connections    *)
(* and in both programs.                                                   *)
MessagesOK ==
    /\ \A m \in toClient \cup atClient : reqId[m.of] = m.id
    /\ \A k \in 1..Len(toServer) : toServer[k] # Disconnect =>
           reqId[toServer[k].of] = toServer[k].id
    /\ \A g \in responders : reqId[g.msg.of] = g.msg.id

(* A responder that has found a request has found its message's.           *)
MatchOK == \A g \in responders : g.at # "lookup" => g.req = g.msg.of

IdInv == OwnIds /\ MessagesOK

AnswerInv == MatchOK /\ RightAnswer

(* A responder that has found a request is the only one that ever does so  *)
(* for that request: until it sets the headers there are none, and nobody  *)
(* but it can deliver a response.                                          *)
IsResponse(a) == \E r \in Reqs : a = <<"response", r>>
AloneOK ==
    \A g, h \in responders :
        g.at # "lookup" /\ h.at # "lookup" /\ g.req = h.req => g = h
TakerOK ==
    \A g \in responders :
        /\ g.at \in {"parse", "headers"} => headers[g.req] = {}
        /\ g.at = "deliver" => headers[g.req] = {g.msg.of}
        /\ g.at # "lookup" => ~IsResponse(answer[g.req])
EntryOK ==
    \A i \in Ids : inflight[i] # NoReq =>
        headers[inflight[i]] = {} /\ ~IsResponse(answer[inflight[i]])
UnansweredOK == \A r \in Reqs : handler[r] \in Unstored => ~IsResponse(answer[r])

HeaderInv == AloneOK /\ TakerOK /\ EntryOK /\ UnansweredOK /\ HeadersOfAnswer

-----------------------------------------------------------------------------
(* What handlers write to users.                                           *)
LEMMA AnswerTypes ==
    /\ {<<"none">>, <<"noTunnel">>, <<"silence">>, <<"reset">>} \subseteq Answers
    /\ \A e \in Causes : <<"error", e>> \in Answers
    /\ \A r \in Reqs : <<"response", r>> \in Answers
BY DEF Answers

(* A cancelled request has a cause to answer with.                         *)
LEMMA CancelAnswerType ==
    ASSUME TypeOK, NEW r \in Reqs, Cancelled(r)
    PROVE  CancelAnswer(r) \in Answers
<1>1. cause[r] \in Causes
  BY DEF TypeOK, Cancelled
<1> QED BY <1>1, AnswerTypes DEF CancelAnswer

(* Nothing has happened yet.                                               *)
LEMMA TypeInit == Init => TypeInv
BY AnswerTypes DEF Init, TypeInv, TypeOK, StoredOK, Waiting

(* A panic leaves typed state behind.                                      *)
LEMMA CrashType ==
    ASSUME TypeInv, Crash
    PROVE  TypeInv'
<1> USE DEF TypeInv, TypeOK, StoredOK, Waiting, Crash
<1>1. cause' \in [Reqs -> Causes \cup {"none"}]
  BY DEF Causes
<1>2. answer' \in [Reqs -> Answers]
  BY AnswerTypes
<1>3. toServer' \in Seq(Messages \cup {Disconnect})
  OBVIOUS
<1> QED BY <1>1, <1>2, <1>3

(* The steps of ServeHTTP, its serializer and its timer.                   *)
LEMMA HandlerType ==
    ASSUME TypeInv, NEW r \in Reqs,
           \/ Arrive(r) \/ UserLeaves(r) \/ BodyRead(r) \/ ChunkTimerFires(r)
           \/ CancelRead(r) \/ Handle(r)
    PROVE  TypeInv'
<1> USE DEF TypeInv, TypeOK, StoredOK, Waiting, requestVars, clientVars, SetHandler, SetAnswer,
            Cancel, CancelWith, Cancelled
<1>1. CASE Arrive(r)
  BY <1>1, AnswerTypes DEF Arrive
<1>2. CASE UserLeaves(r)
  BY <1>2 DEF UserLeaves, Causes
<1>3. CASE BodyRead(r)
  BY <1>3 DEF BodyRead, Causes
<1>4. CASE ChunkTimerFires(r)
  BY <1>4 DEF ChunkTimerFires
<1>5. CASE CancelRead(r)
  BY <1>5 DEF CancelRead, Causes
<1>6. CASE NotSerialized(r)
  BY <1>6, CancelAnswerType DEF NotSerialized
<1>7. CASE Serialized(r)
  BY <1>7 DEF Serialized
<1>8. CASE Store(r)
  BY <1>8 DEF Store, RandomIds
<1>9. CASE Send(r)
  BY <1>9 DEF Send, Causes
<1>10. CASE AwaitCancelled(r)
  BY <1>10, CancelAnswerType DEF AwaitCancelled
<1>11. CASE DeleteInflight(r)
  BY <1>11 DEF DeleteInflight
<1> QED
  BY <1>1, <1>2, <1>3, <1>4, <1>5, <1>6, <1>7, <1>8, <1>9, <1>10, <1>11 DEF Handle

(* The client, the network, and the end of the grace period.               *)
LEMMA WireType ==
    ASSUME TypeInv,
           \/ \E m \in toClient : ClientReads(m)
           \/ \E m \in atClient : ClientAnswers(m)
           \/ ClientQuits \/ LinkBreaks \/ GracePeriodEnds
    PROVE  TypeInv'
<1> USE DEF TypeInv, TypeOK, StoredOK, Waiting, requestVars, clientVars
<1>1. ASSUME NEW m \in toClient, ClientReads(m) PROVE TypeInv'
  BY <1>1 DEF ClientReads
<1>2. ASSUME NEW m \in atClient, ClientAnswers(m) PROVE TypeInv'
  <2>1. \A res \in Results : [id |-> m.id, of |-> m.of, result |-> res] \in Messages
    BY RequestAssumption DEF Messages
  <2> QED BY <1>2, <2>1 DEF ClientAnswers
<1>3. CASE ClientQuits
  BY <1>3 DEF ClientQuits
<1>4. CASE LinkBreaks
  BY <1>4 DEF LinkBreaks
<1>5. CASE GracePeriodEnds
  <2>1. toServer' \in {toServer, <<>>}
    BY <1>5 DEF GracePeriodEnds
  <2>2. toServer \in Seq(Messages \cup {Disconnect})
    OBVIOUS
  <2>3. <<>> \in Seq(Messages \cup {Disconnect})
    OBVIOUS
  <2> QED BY <1>5, <2>1, <2>2, <2>3 DEF GracePeriodEnds
<1> QED BY <1>1, <1>2, <1>3, <1>4, <1>5

(* The reader: what is not a CLIENT_DISCONNECT is a response.              *)
LEMMA ReadType ==
    ASSUME TypeInv, Read
    PROVE  TypeInv'
<1> USE DEF TypeInv, TypeOK, StoredOK, Waiting, requestVars, clientVars
<1>1. CASE ReadMessage
  <2>1. Head(toServer) \in Messages
    BY <1>1 DEF ReadMessage
  <2>2. toServer' \in Seq(Messages \cup {Disconnect})
    BY <1>1 DEF ReadMessage
  <2> QED BY <1>1, <2>1, <2>2 DEF ReadMessage
<1>2. CASE ReaderCloses
  BY <1>2 DEF ReaderCloses
<1>3. CASE ReaderClosesAgain
  BY <1>3, CrashType DEF ReaderClosesAgain
<1> QED BY <1>1, <1>2, <1>3 DEF Read

(* handleResponseMessages.                                                 *)
LEMMA ResponderType ==
    ASSUME TypeInv, NEW g \in responders, Respond(g)
    PROVE  TypeInv'
<1> USE DEF TypeInv, TypeOK, StoredOK, Waiting, requestVars, clientVars, SetHandler, SetAnswer,
            Cancel, CancelWith, Cancelled, Becomes, Ends
<1>1. CASE Lookup(g)
  BY <1>1 DEF Lookup, Messages
<1>2. CASE Parse(g)
  <2> USE <1>2 DEF Parse, Causes
  <2>1. CASE g.msg.result = "response"
    BY <2>1
  <2>2. CASE g.msg.result = "badHead"
    BY <2>2
  <2>3. CASE g.msg.result = "cutBody"
    BY <2>3
  <2>4. g.msg.result \in {"response", "badHead", "cutBody"}
    BY DEF Messages, AllResults
  <2> QED BY <2>1, <2>2, <2>3, <2>4
<1>3. CASE ParseCloses(g)
  BY <1>3, CrashType DEF ParseCloses, Causes
<1>4. CASE SetHeaders(g)
  <2>1. g.msg.of \in Reqs
    BY <1>4 DEF Messages
  <2>2. headers' \in [Reqs -> SUBSET Reqs]
    BY <1>4, <2>1 DEF SetHeaders
  <2>3. responders' \subseteq [msg : Messages, at : {"lookup", "parse", "headers", "deliver"},
                              req : Reqs \cup {NoReq}]
    BY <1>4 DEF SetHeaders
  <2> QED BY <1>4, <2>2, <2>3 DEF SetHeaders
<1>5. CASE Deliver(g)
  BY <1>5, AnswerTypes DEF Deliver, Messages, Causes
<1>6. CASE DeliverCancelled(g)
  BY <1>6 DEF DeliverCancelled
<1> QED BY <1>1, <1>2, <1>3, <1>4, <1>5, <1>6 DEF Respond

(* Every step keeps the types.                                             *)
LEMMA TypeStep == TypeInv /\ [Next]_vars => TypeInv'
<1> SUFFICES ASSUME TypeInv, [Next]_vars PROVE TypeInv'
  OBVIOUS
<1>1. CASE HeaderRace
  BY <1>1, CrashType DEF HeaderRace
<1>2. CASE UNCHANGED vars
  BY <1>2 DEF vars, requestVars, clientVars, TypeInv, TypeOK, StoredOK
<1> QED
  BY <1>1, <1>2, HandlerType, WireType, ReadType, ResponderType DEF Next

(* Every reachable state of the tunnel's requests is well typed: in        *)
(* particular nothing is sent without an id, and no responder works on a   *)
(* CLIENT_DISCONNECT.                                                      *)
THEOREM TypeCorrect == Spec => []TypeOK
<1>1. TypeInv => TypeOK
  BY DEF TypeInv
<1> QED BY <1>1, TypeInit, TypeStep, PTL DEF Spec

-----------------------------------------------------------------------------
(* The table is empty.                                                     *)
LEMMA TableInit == Init => TableInv
BY DEF Init, TableInv, FreshOK, InflightIsAwaited, TakenOK, Unstored

(* A panic empties the table.                                              *)
LEMMA CrashTable ==
    ASSUME TypeInv, TableInv, Crash
    PROVE  TableInv'
BY DEF TypeInv, TypeOK, Crash, TableInv, FreshOK, InflightIsAwaited, TakenOK, Unstored

(* A step that leaves handlers, ids, headers and the table alone, and      *)
(* starts only responders that have not looked anything up, keeps the      *)
(* table.                                                                  *)
LEMMA QuietTable ==
    ASSUME TableInv, UNCHANGED <<handler, reqId, headers, inflight>>,
           \A g \in responders' : g \in responders \/ g.at = "lookup"
    PROVE  TableInv'
BY DEF TableInv, FreshOK, InflightIsAwaited, TakenOK

(* Store enters a request whose id is new to it, while nothing else is     *)
(* done for it; a handler that leaves takes its entry along.               *)
LEMMA HandlerTable ==
    ASSUME TypeInv, TableInv, NEW r \in Reqs,
           \/ Arrive(r) \/ UserLeaves(r) \/ BodyRead(r) \/ ChunkTimerFires(r)
           \/ CancelRead(r) \/ Handle(r)
    PROVE  TableInv'
<1> USE RequestAssumption
    DEF TypeInv, TypeOK, StoredOK, Waiting, TableInv, FreshOK, InflightIsAwaited, TakenOK,
        Unstored, SetHandler
<1>1. CASE Arrive(r)
  BY <1>1 DEF Arrive
<1>2. CASE UserLeaves(r) \/ BodyRead(r) \/ ChunkTimerFires(r) \/ CancelRead(r)
  BY <1>2, QuietTable DEF UserLeaves, BodyRead, ChunkTimerFires, CancelRead
<1>3. CASE NotSerialized(r)
  BY <1>3 DEF NotSerialized
<1>4. CASE Serialized(r)
  BY <1>4 DEF Serialized
<1>5. CASE Store(r)
  BY <1>5 DEF Store
<1>6. CASE Send(r)
  BY <1>6 DEF Send
<1>7. CASE AwaitCancelled(r)
  BY <1>7 DEF AwaitCancelled
<1>8. CASE DeleteInflight(r)
  BY <1>8 DEF DeleteInflight
<1> QED
  BY <1>1, <1>2, <1>3, <1>4, <1>5, <1>6, <1>7, <1>8 DEF Handle

(* A parsed response is handed on, or its responder ends.                  *)
LEMMA ParseOutcome ==
    ASSUME TypeInv, NEW g \in responders, Parse(g)
    PROVE  Becomes(g, "headers", g.req) \/ Ends(g)
<1>1. g.msg.result \in {"response", "badHead", "cutBody"}
  BY DEF TypeInv, TypeOK, Parse, Messages, AllResults
<1>2. CASE g.msg.result = "response"
  BY <1>2 DEF Parse
<1>3. CASE g.msg.result = "badHead"
  BY <1>3 DEF Parse
<1>4. CASE g.msg.result = "cutBody"
  BY <1>4 DEF Parse
<1> QED BY <1>1, <1>2, <1>3, <1>4

(* Lookup takes the only entry of its request.                             *)
LEMMA ResponderTable ==
    ASSUME TypeInv, TableInv, NEW g \in responders, Respond(g)
    PROVE  TableInv'
<1> USE RequestAssumption
    DEF TypeInv, TypeOK, StoredOK, Waiting, TableInv, FreshOK, InflightIsAwaited, TakenOK,
        Unstored, requestVars
<1>1. CASE Lookup(g)
  BY <1>1 DEF Lookup, Becomes, Ends, Messages
<1>2. CASE Parse(g)
  <2>1. UNCHANGED <<handler, reqId, headers, inflight>>
    BY <1>2 DEF Parse
  <2>2. Becomes(g, "headers", g.req) \/ Ends(g)
    BY <1>2, ParseOutcome
  <2> QED BY <1>2, <2>1, <2>2 DEF Parse, Becomes, Ends
<1>3. CASE ParseCloses(g)
  BY <1>3, CrashTable, QuietTable DEF ParseCloses, Ends
<1>4. CASE SetHeaders(g)
  BY <1>4 DEF SetHeaders, Becomes
<1>5. CASE Deliver(g)
  BY <1>5 DEF Deliver, Ends, SetHandler
<1>6. CASE DeliverCancelled(g)
  BY <1>6, QuietTable DEF DeliverCancelled, Ends
<1> QED BY <1>1, <1>2, <1>3, <1>4, <1>5, <1>6 DEF Respond

(* Every step keeps the table.                                             *)
LEMMA TableStep == TypeInv /\ TableInv /\ [Next]_vars => TableInv'
<1> SUFFICES ASSUME TypeInv, TableInv, [Next]_vars PROVE TableInv'
  OBVIOUS
<1> USE DEF requestVars, clientVars
<1>1. ASSUME NEW m \in toClient, ClientReads(m) PROVE TableInv'
  BY <1>1, QuietTable DEF ClientReads
<1>2. ASSUME NEW m \in atClient, ClientAnswers(m) PROVE TableInv'
  BY <1>2, QuietTable DEF ClientAnswers
<1>3. CASE ClientQuits \/ LinkBreaks \/ GracePeriodEnds \/ ReaderCloses \/ UNCHANGED vars
  BY <1>3, QuietTable DEF ClientQuits, LinkBreaks, GracePeriodEnds, ReaderCloses, vars
<1>4. CASE ReadMessage
  BY <1>4, QuietTable DEF ReadMessage
<1>5. CASE ReaderClosesAgain \/ HeaderRace
  BY <1>5, CrashTable DEF ReaderClosesAgain, HeaderRace
<1> QED
  BY <1>1, <1>2, <1>3, <1>4, <1>5, HandlerTable, ResponderTable DEF Next, Read

(* Neither a response, an error, a user who left nor a panic leaves an     *)
(* entry in inflightRequests whose handler has gone, even if two requests  *)
(* draw the same id.                                                       *)
THEOREM InflightRequestsWait == Spec => []InflightIsAwaited
<1>1. TypeInv /\ TableInv => InflightIsAwaited
  BY DEF TableInv
<1> QED BY <1>1, TypeInit, TypeStep, TableInit, TableStep, PTL DEF Spec

-----------------------------------------------------------------------------
(* No id is drawn, no message is on its way.                               *)
LEMMA IdInit == Init => IdInv
BY DEF Init, IdInv, OwnIds, MessagesOK

(* A panic loses all messages.                                             *)
LEMMA CrashIds ==
    ASSUME IdInv, Crash
    PROVE  IdInv'
BY DEF Crash, IdInv, OwnIds, MessagesOK

(* A step that draws no id and makes no message keeps the ids.             *)
LEMMA QuietIds ==
    ASSUME IdInv, UNCHANGED reqId,
           toClient' \cup atClient' \subseteq toClient \cup atClient,
           toServer' \in {toServer, <<>>},
           \A g \in responders' : \E h \in responders : g.msg = h.msg
    PROVE  IdInv'
<1> USE DEF IdInv, OwnIds, MessagesOK
<1>1. CASE toServer' = toServer
  BY <1>1
<1>2. CASE toServer' = <<>>
  BY <1>2
<1> QED BY <1>1, <1>2

(* Store draws an id no request has had; it disturbs no message, since     *)
(* none of the request was sent before.  Send makes a message with that    *)
(* id.                                                                     *)
LEMMA HandlerIds ==
    ASSUME TypeInv, TableInv, IdInv, "idCollision" \notin Events, NEW r \in Reqs,
           \/ Arrive(r) \/ UserLeaves(r) \/ BodyRead(r) \/ ChunkTimerFires(r)
           \/ CancelRead(r) \/ Handle(r)
    PROVE  IdInv'
<1> USE DEF clientVars
<1>1. CASE Store(r)
  <2>1. PICK i \in RandomIds : reqId' = [reqId EXCEPT ![r] = i]
    BY <1>1 DEF Store
  <2>2. i \in Ids /\ \A s \in Reqs : reqId[s] # i
    BY <2>1 DEF RandomIds
  <2>3. reqId[r] = NoId
    BY <1>1 DEF Store, TableInv, FreshOK, Unstored
  <2>4. OwnIds'
    BY <2>1, <2>2 DEF IdInv, OwnIds, TypeInv, TypeOK
  <2>5. MessagesOK'
    <3> USE <1>1, <2>1, <2>3, RequestAssumption
        DEF IdInv, MessagesOK, TypeInv, TypeOK, Messages, Store
    <3>1. ASSUME NEW m \in toClient \cup atClient PROVE reqId'[m.of] = m.id
      OBVIOUS
    <3>2. ASSUME NEW k \in 1..Len(toServer), toServer[k] # Disconnect
          PROVE  reqId'[toServer[k].of] = toServer[k].id
      BY <3>2
    <3>3. ASSUME NEW g \in responders PROVE reqId'[g.msg.of] = g.msg.id
      OBVIOUS
    <3> QED BY <3>1, <3>2, <3>3
  <2> QED BY <2>4, <2>5 DEF IdInv
<1>2. CASE Send(r)
  BY <1>2 DEF Send, IdInv, OwnIds, MessagesOK
<1>3. CASE Arrive(r) \/ UserLeaves(r) \/ BodyRead(r) \/ ChunkTimerFires(r) \/ CancelRead(r)
  BY <1>3, QuietIds DEF Arrive, UserLeaves, BodyRead, ChunkTimerFires, CancelRead
<1>4. CASE NotSerialized(r) \/ Serialized(r) \/ AwaitCancelled(r) \/ DeleteInflight(r)
  BY <1>4, QuietIds DEF NotSerialized, Serialized, AwaitCancelled, DeleteInflight
<1> QED BY <1>1, <1>2, <1>3, <1>4 DEF Handle

(* A responder keeps its message.                                          *)
LEMMA ResponderIds ==
    ASSUME TypeInv, IdInv, NEW g \in responders, Respond(g)
    PROVE  IdInv'
<1> USE DEF clientVars, requestVars
<1>1. CASE Crash
  BY <1>1, CrashIds
<1>2. CASE ~Crash
  <2>1. UNCHANGED <<reqId, toClient, atClient, toServer>>
    BY <1>2 DEF Respond, Lookup, Parse, ParseCloses, SetHeaders, Deliver, DeliverCancelled
  <2>2. Ends(g) \/ \E at, r : Becomes(g, at, r)
    BY <1>2, ParseOutcome
    DEF Respond, Lookup, ParseCloses, SetHeaders, Deliver, DeliverCancelled
  <2> QED BY <2>1, <2>2, QuietIds DEF Becomes, Ends
<1> QED BY <1>1, <1>2

(* Every step keeps the ids: the client answers with the id it was sent.   *)
LEMMA IdStep ==
    ASSUME "idCollision" \notin Events
    PROVE  TypeInv /\ TableInv /\ IdInv /\ [Next]_vars => IdInv'
<1> SUFFICES ASSUME TypeInv, TableInv, IdInv, [Next]_vars PROVE IdInv'
  OBVIOUS
<1> USE DEF requestVars, clientVars
<1>1. ASSUME NEW m \in toClient, ClientReads(m) PROVE IdInv'
  BY <1>1, QuietIds DEF ClientReads
<1>2. ASSUME NEW m \in atClient, ClientAnswers(m) PROVE IdInv'
  BY <1>2 DEF ClientAnswers, TypeInv, TypeOK, IdInv, OwnIds, MessagesOK
<1>3. CASE ClientQuits
  BY <1>3 DEF ClientQuits, TypeInv, TypeOK, IdInv, OwnIds, MessagesOK
<1>4. CASE LinkBreaks \/ GracePeriodEnds \/ ReaderCloses \/ UNCHANGED vars
  BY <1>4, QuietIds DEF LinkBreaks, GracePeriodEnds, ReaderCloses, vars
<1>5. CASE ReadMessage
  BY <1>5 DEF ReadMessage, TypeInv, TypeOK, IdInv, OwnIds, MessagesOK
<1>6. CASE ReaderClosesAgain \/ HeaderRace
  BY <1>6, CrashIds DEF ReaderClosesAgain, HeaderRace
<1> QED
  BY <1>1, <1>2, <1>3, <1>4, <1>5, <1>6, HandlerIds, ResponderIds DEF Next, Read

-----------------------------------------------------------------------------
(* Only Deliver writes a response.                                         *)
LEMMA OtherAnswers ==
    /\ ~IsResponse(<<"none">>) /\ ~IsResponse(<<"noTunnel">>)
    /\ ~IsResponse(<<"silence">>) /\ ~IsResponse(<<"reset">>)
    /\ \A e : ~IsResponse(<<"error", e>>)
    /\ \A r : ~IsResponse(CancelAnswer(r))
BY DEF IsResponse, CancelAnswer

(* Nobody is answered.                                                     *)
LEMMA HeaderInit == Init => HeaderInv
BY OtherAnswers
DEF Init, HeaderInv, AloneOK, TakerOK, EntryOK, UnansweredOK, HeadersOfAnswer, IsResponse

(* A step that sets no headers, enters nothing in the table, delivers no   *)
(* response and hands none on keeps the headers.                           *)
LEMMA QuietHeaders ==
    ASSUME TypeInv, TableInv, HeaderInv, UNCHANGED headers,
           \A r \in Reqs : answer'[r] = answer[r] \/ ~IsResponse(answer'[r]),
           \A g \in responders' : g \in responders \/ g.at = "lookup",
           \A i \in Ids : inflight'[i] \in {inflight[i], NoReq},
           \A r \in Reqs : handler'[r] \in Unstored => handler[r] \in Unstored
    PROVE  HeaderInv'
<1>1. AloneOK'
  BY DEF HeaderInv, AloneOK
<1>2. ASSUME NEW r \in Reqs, IsResponse(answer'[r])
      PROVE  IsResponse(answer[r]) /\ answer'[r] = answer[r]
  BY <1>2
<1>3. TakerOK'
  <2>1. \A g \in responders' : g.at # "lookup" => g \in responders /\ g.req \in Reqs
    BY DEF TableInv, TakenOK
  <2>2. \A g \in responders' : g.at # "lookup" => ~IsResponse(answer'[g.req])
    BY <1>2, <2>1 DEF HeaderInv, TakerOK
  <2>3. \A g \in responders' : /\ g.at \in {"parse", "headers"} => headers'[g.req] = {}
                               /\ g.at = "deliver" => headers'[g.req] = {g.msg.of}
    BY <2>1 DEF HeaderInv, TakerOK
  <2> QED BY <2>2, <2>3 DEF TakerOK, IsResponse
<1>4. EntryOK'
  <2> SUFFICES ASSUME NEW i \in Ids, inflight'[i] # NoReq
               PROVE  headers'[inflight'[i]] = {} /\ ~IsResponse(answer'[inflight'[i]])
    BY DEF EntryOK, IsResponse
  <2>1. inflight'[i] = inflight[i] /\ inflight[i] \in Reqs
    BY DEF TypeInv, TypeOK
  <2> QED BY <1>2, <2>1 DEF HeaderInv, EntryOK
<1>5. UnansweredOK'
  BY <1>2 DEF HeaderInv, UnansweredOK, IsResponse
<1>6. HeadersOfAnswer'
  <2> SUFFICES ASSUME NEW r \in Reqs, NEW s \in Reqs, answer'[r] = <<"response", s>>
               PROVE  headers'[r] = {s}
    BY DEF HeadersOfAnswer
  <2>1. answer[r] = <<"response", s>>
    BY <1>2 DEF IsResponse
  <2> QED BY <2>1 DEF HeaderInv, HeadersOfAnswer
<1> QED BY <1>1, <1>3, <1>4, <1>5, <1>6 DEF HeaderInv

(* A panic answers nobody.                                                 *)
LEMMA CrashHeaders ==
    ASSUME TypeInv, TableInv, HeaderInv, Crash
    PROVE  HeaderInv'
BY QuietHeaders, OtherAnswers DEF Crash, Unstored

(* A handler answers with an error, or not at all; what it stores has no   *)
(* headers yet.                                                            *)
LEMMA HandlerHeaders ==
    ASSUME TypeInv, TableInv, HeaderInv, NEW r \in Reqs,
           \/ Arrive(r) \/ UserLeaves(r) \/ BodyRead(r) \/ ChunkTimerFires(r)
           \/ CancelRead(r) \/ Handle(r)
    PROVE  HeaderInv'
<1>1. UNCHANGED <<headers, responders>>
  BY DEF Handle, Arrive, UserLeaves, BodyRead, ChunkTimerFires, CancelRead, NotSerialized,
         Serialized, Store, Send, AwaitCancelled, DeleteInflight
<1>2. \A s \in Reqs : answer'[s] = answer[s] \/ ~IsResponse(answer'[s])
  <2>1. \/ UNCHANGED answer
        \/ SetAnswer(r, <<"noTunnel">>)
        \/ SetAnswer(r, CancelAnswer(r))
    BY DEF Handle, Arrive, UserLeaves, BodyRead, ChunkTimerFires, CancelRead, NotSerialized,
           Serialized, Store, Send, AwaitCancelled, DeleteInflight
  <2> QED BY <2>1, OtherAnswers DEF SetAnswer, TypeInv, TypeOK
<1>3. \A s \in Reqs : handler'[s] \in Unstored => handler[s] \in Unstored
  BY DEF Handle, Arrive, UserLeaves, BodyRead, ChunkTimerFires, CancelRead, NotSerialized,
         Serialized, Store, Send, AwaitCancelled, DeleteInflight, SetHandler, Unstored,
         TypeInv, TypeOK
<1>4. CASE Store(r)
  <2>1. PICK i \in Ids : inflight' = [inflight EXCEPT ![i] = r]
    BY <1>4 DEF Store, RandomIds
  <2>2. headers[r] = {} /\ ~IsResponse(answer[r]) /\ UNCHANGED answer
    BY <1>4 DEF Store, TableInv, FreshOK, HeaderInv, UnansweredOK, Unstored
  <2>3. EntryOK'
    BY <1>1, <2>1, <2>2 DEF HeaderInv, EntryOK, IsResponse, TypeInv, TypeOK
  <2> QED
    BY <1>1, <1>3, <2>2, <2>3
    DEF HeaderInv, AloneOK, TakerOK, UnansweredOK, HeadersOfAnswer, IsResponse
<1>5. CASE ~Store(r)
  <2>1. \A i \in Ids : inflight'[i] \in {inflight[i], NoReq}
    BY <1>5 DEF Handle, Arrive, UserLeaves, BodyRead, ChunkTimerFires, CancelRead, NotSerialized,
           Serialized, Send, AwaitCancelled, DeleteInflight, TypeInv, TypeOK
  <2> QED BY <1>1, <1>2, <1>3, <2>1, QuietHeaders
<1> QED BY <1>4, <1>5

(* Only the responder that has taken a request touches its headers and its *)
(* answer.                                                                 *)
LEMMA ResponderHeaders ==
    ASSUME TypeInv, TableInv, HeaderInv, NEW g \in responders, Respond(g)
    PROVE  HeaderInv'
<1> USE DEF requestVars
<1>1. CASE Lookup(g)
  <2>1. \A i \in Ids : inflight'[i] \in {inflight[i], NoReq}
    BY <1>1 DEF Lookup, TypeInv, TypeOK
  <2>2. CASE Ends(g)
    BY <1>1, <2>1, <2>2, QuietHeaders DEF Lookup, Ends
  <2>3. CASE ~Ends(g)
    <3> DEFINE r == inflight[g.msg.id]
    <3>1. /\ r \in Reqs /\ r # NoReq /\ g.msg.id \in Ids /\ Becomes(g, "parse", r)
          /\ inflight' = [inflight EXCEPT ![g.msg.id] = NoReq]
      BY <1>1, <2>3 DEF Lookup, TypeInv, TypeOK, Messages
    <3>2. \A h \in responders : h.at # "lookup" => h.req # r
      BY <3>1 DEF TableInv, TakenOK
    <3>3. headers[r] = {} /\ ~IsResponse(answer[r])
      BY <3>1 DEF HeaderInv, EntryOK
    <3> HIDE DEF r
    <3>4. AloneOK'
      BY <3>1, <3>2 DEF Becomes, HeaderInv, AloneOK
    <3>5. TakerOK'
      BY <1>1, <3>1, <3>3 DEF Lookup, Becomes, HeaderInv, TakerOK, IsResponse
    <3>6. EntryOK'
      BY <1>1, <3>1 DEF Lookup, HeaderInv, EntryOK, IsResponse, TypeInv, TypeOK
    <3> QED
      BY <1>1, <3>4, <3>5, <3>6
      DEF Lookup, HeaderInv, UnansweredOK, HeadersOfAnswer, IsResponse
  <2> QED BY <2>2, <2>3
<1>2. CASE Parse(g)
  <2>1. CASE Ends(g)
    BY <1>2, <2>1, QuietHeaders DEF Parse, Ends
  <2>2. CASE Becomes(g, "headers", g.req)
    <3>1. UNCHANGED <<handler, headers, answer, inflight>> /\ g.at = "parse"
      BY <1>2 DEF Parse
    <3>2. AloneOK' /\ TakerOK'
      BY <2>2, <3>1 DEF Becomes, HeaderInv, AloneOK, TakerOK, IsResponse
    <3> QED BY <3>1, <3>2 DEF HeaderInv, EntryOK, UnansweredOK, HeadersOfAnswer, IsResponse
  <2> QED BY <1>2, <2>1, <2>2, ParseOutcome
<1>3. CASE ParseCloses(g)
  BY <1>3, CrashHeaders, QuietHeaders DEF ParseCloses, Ends
<1>4. CASE SetHeaders(g)
  <2>1. /\ g.at = "headers" /\ g.req \in Reqs /\ headers[g.req] = {} /\ ~IsResponse(answer[g.req])
        /\ \A i \in Ids : inflight[i] # g.req
    BY <1>4 DEF SetHeaders, TableInv, TakenOK, HeaderInv, TakerOK
  <2>2. /\ headers' = [headers EXCEPT ![g.req] = {g.msg.of}] /\ Becomes(g, "deliver", g.req)
        /\ UNCHANGED <<handler, answer, inflight>>
    BY <1>4, <2>1 DEF SetHeaders
  <2>3. \A h \in responders : h.at # "lookup" /\ h # g => h.req # g.req
    BY <2>1 DEF HeaderInv, AloneOK
  <2>4. AloneOK'
    BY <2>1, <2>2 DEF Becomes, HeaderInv, AloneOK
  <2>5. TakerOK'
    <3>1. headers'[g.req] = {g.msg.of} /\ \A r \in Reqs \ {g.req} : headers'[r] = headers[r]
      BY <2>1, <2>2 DEF TypeInv, TypeOK
    <3>2. ASSUME NEW h \in responders, h # g
          PROVE  /\ h.at \in {"parse", "headers"} => headers'[h.req] = {}
                 /\ h.at = "deliver" => headers'[h.req] = {h.msg.of}
                 /\ h.at # "lookup" => ~IsResponse(answer[h.req])
      <4>1. h.at # "lookup" => h.req \in Reqs \ {g.req}
        BY <2>3, <3>2 DEF TableInv, TakenOK
      <4> QED BY <3>1, <4>1 DEF HeaderInv, TakerOK
    <3> DEFINE n == [msg |-> g.msg, at |-> "deliver", req |-> g.req]
    <3>3. n.at = "deliver" /\ n.req = g.req /\ n.msg = g.msg
      OBVIOUS
    <3>4. responders' = (responders \ {g}) \cup {n}
      BY <2>2 DEF Becomes
    <3> HIDE DEF n
    <3>5. \A h \in responders' : h = n \/ (h \in responders /\ h # g)
      BY <3>4
    <3> QED BY <2>1, <2>2, <3>1, <3>2, <3>3, <3>5 DEF TakerOK, IsResponse
  <2>6. EntryOK' /\ UnansweredOK'
    BY <2>1, <2>2 DEF HeaderInv, EntryOK, UnansweredOK, IsResponse, TypeInv, TypeOK
  <2>7. HeadersOfAnswer'
    BY <2>1, <2>2 DEF HeaderInv, HeadersOfAnswer, IsResponse, TypeInv, TypeOK
  <2> QED BY <2>4, <2>5, <2>6, <2>7 DEF HeaderInv
<1>5. CASE Deliver(g)
  <2>1. /\ g.at = "deliver" /\ g.req \in Reqs /\ headers[g.req] = {g.msg.of}
        /\ \A i \in Ids : inflight[i] # g.req
        /\ handler[g.req] \notin Unstored
    BY <1>5 DEF Deliver, TableInv, TakenOK, HeaderInv, TakerOK
  <2>2. /\ answer' = [answer EXCEPT ![g.req] = <<"response", g.msg.of>>]
        /\ handler' = [handler EXCEPT ![g.req] = "done"]
        /\ Ends(g) /\ UNCHANGED <<headers, inflight>>
    BY <1>5 DEF Deliver, SetAnswer, SetHandler
  <2>3. \A h \in responders : h.at # "lookup" /\ h # g => h.req # g.req
    BY <2>1 DEF HeaderInv, AloneOK
  <2>4. AloneOK' /\ TakerOK'
    BY <2>1, <2>2, <2>3 DEF Ends, HeaderInv, AloneOK, TakerOK, IsResponse, TypeInv, TypeOK
  <2>5. EntryOK' /\ UnansweredOK'
    BY <2>1, <2>2 DEF HeaderInv, EntryOK, UnansweredOK, IsResponse, TypeInv, TypeOK, Unstored
  <2>6. HeadersOfAnswer'
    BY <2>1, <2>2 DEF HeaderInv, HeadersOfAnswer, TypeInv, TypeOK
  <2> QED BY <2>4, <2>5, <2>6 DEF HeaderInv
<1>6. CASE DeliverCancelled(g)
  BY <1>6, QuietHeaders DEF DeliverCancelled, Ends
<1> QED BY <1>1, <1>2, <1>3, <1>4, <1>5, <1>6 DEF Respond

(* Every step keeps the headers.                                           *)
LEMMA HeaderStep == TypeInv /\ TableInv /\ HeaderInv /\ [Next]_vars => HeaderInv'
<1> SUFFICES ASSUME TypeInv, TableInv, HeaderInv, [Next]_vars PROVE HeaderInv'
  OBVIOUS
<1> USE DEF requestVars, clientVars
<1>1. ASSUME NEW m \in toClient, ClientReads(m) PROVE HeaderInv'
  BY <1>1, QuietHeaders DEF ClientReads
<1>2. ASSUME NEW m \in atClient, ClientAnswers(m) PROVE HeaderInv'
  BY <1>2, QuietHeaders DEF ClientAnswers
<1>3. CASE ClientQuits \/ LinkBreaks \/ GracePeriodEnds \/ ReaderCloses \/ UNCHANGED vars
  BY <1>3, QuietHeaders DEF ClientQuits, LinkBreaks, GracePeriodEnds, ReaderCloses, vars
<1>4. CASE ReadMessage
  BY <1>4, QuietHeaders DEF ReadMessage
<1>5. CASE ReaderClosesAgain \/ HeaderRace
  BY <1>5, CrashHeaders DEF ReaderClosesAgain, HeaderRace
<1> QED
  BY <1>1, <1>2, <1>3, <1>4, <1>5, HandlerHeaders, ResponderHeaders DEF Next, Read

(* A response goes out with its own headers and no others, even where an   *)
(* id is drawn twice and it is the response to another request.            *)
THEOREM HeadersAreOfTheAnswer == Spec => []HeadersOfAnswer
<1>1. HeaderInv => HeadersOfAnswer
  BY DEF HeaderInv
<1> QED
  BY <1>1, TypeInit, TypeStep, TableInit, TableStep, HeaderInit, HeaderStep, PTL DEF Spec

-----------------------------------------------------------------------------
(* Nobody is answered.                                                     *)
LEMMA AnswerInit == Init => AnswerInv
BY OtherAnswers DEF Init, AnswerInv, MatchOK, RightAnswer, IsResponse

(* A step that delivers no response and hands none on keeps the answers.   *)
LEMMA QuietAnswer ==
    ASSUME AnswerInv,
           \A r \in Reqs : answer'[r] = answer[r] \/ ~IsResponse(answer'[r]),
           \A g \in responders' : g \in responders \/ g.at = "lookup"
    PROVE  AnswerInv'
BY DEF AnswerInv, MatchOK, RightAnswer, IsResponse

(* A panic answers nobody.                                                 *)
LEMMA CrashAnswer ==
    ASSUME TypeInv, AnswerInv, Crash
    PROVE  AnswerInv'
BY QuietAnswer, OtherAnswers DEF Crash

(* A handler answers with an error, or not at all.                         *)
LEMMA HandlerAnswer ==
    ASSUME TypeInv, AnswerInv, NEW r \in Reqs,
           \/ Arrive(r) \/ UserLeaves(r) \/ BodyRead(r) \/ ChunkTimerFires(r)
           \/ CancelRead(r) \/ Handle(r)
    PROVE  AnswerInv'
<1>1. UNCHANGED responders
  BY DEF Handle, Arrive, UserLeaves, BodyRead, ChunkTimerFires, CancelRead, NotSerialized,
         Serialized, Store, Send, AwaitCancelled, DeleteInflight
<1>2. \/ UNCHANGED answer
      \/ SetAnswer(r, <<"noTunnel">>)
      \/ SetAnswer(r, CancelAnswer(r))
  BY DEF Handle, Arrive, UserLeaves, BodyRead, ChunkTimerFires, CancelRead, NotSerialized,
         Serialized, Store, Send, AwaitCancelled, DeleteInflight
<1>3. \A s \in Reqs : answer'[s] = answer[s] \/ ~IsResponse(answer'[s])
  BY <1>2, OtherAnswers DEF SetAnswer, TypeInv, TypeOK
<1> QED BY <1>1, <1>3, QuietAnswer

(* Lookup finds the request its message is of, by the id both have; so the *)
(* response goes to that one.                                              *)
LEMMA ResponderAnswer ==
    ASSUME TypeInv, TableInv, IdInv, AnswerInv, NEW g \in responders, Respond(g)
    PROVE  AnswerInv'
<1> USE DEF requestVars
<1>1. CASE Lookup(g)
  <2>1. CASE inflight[g.msg.id] = NoReq
    BY <1>1, <2>1, QuietAnswer DEF Lookup, Ends
  <2>2. CASE inflight[g.msg.id] # NoReq
    <3>1. g.msg.id \in Ids /\ g.msg.of \in Reqs /\ inflight[g.msg.id] \in Reqs
      BY <2>2 DEF TypeInv, TypeOK, Messages
    <3>2. reqId[inflight[g.msg.id]] = g.msg.id
      BY <2>2, <3>1 DEF TableInv, InflightIsAwaited
    <3>3. reqId[g.msg.of] = g.msg.id
      BY DEF IdInv, MessagesOK
    <3>4. inflight[g.msg.id] = g.msg.of
      BY <3>1, <3>2, <3>3, RequestAssumption DEF IdInv, OwnIds
    <3> QED
      BY <1>1, <2>2, <3>4
      DEF Lookup, Becomes, AnswerInv, MatchOK, RightAnswer
  <2> QED BY <2>1, <2>2
<1>2. CASE Parse(g)
  <2>1. CASE Ends(g)
    BY <1>2, <2>1, QuietAnswer DEF Parse, Ends
  <2>2. CASE Becomes(g, "headers", g.req)
    BY <1>2, <2>2
    DEF Parse, Becomes, AnswerInv, MatchOK, RightAnswer
  <2> QED BY <1>2, <2>1, <2>2, ParseOutcome
<1>3. CASE ParseCloses(g)
  BY <1>3, CrashAnswer, QuietAnswer DEF ParseCloses, Ends
<1>4. CASE SetHeaders(g)
  BY <1>4 DEF SetHeaders, Becomes, AnswerInv, MatchOK, RightAnswer
<1>5. CASE Deliver(g)
  <2>1. g.req \in Reqs /\ g.msg.of = g.req
    BY <1>5 DEF Deliver, TableInv, TakenOK, AnswerInv, MatchOK
  <2>2. answer' = [answer EXCEPT ![g.req] = <<"response", g.req>>]
    BY <1>5, <2>1 DEF Deliver, SetAnswer
  <2> QED
    BY <1>5, <2>1, <2>2 DEF Deliver, Ends, TypeInv, TypeOK, AnswerInv, MatchOK, RightAnswer
<1>6. CASE DeliverCancelled(g)
  BY <1>6, QuietAnswer DEF DeliverCancelled, Ends
<1> QED BY <1>1, <1>2, <1>3, <1>4, <1>5, <1>6 DEF Respond

(* Every step keeps the answers.                                           *)
LEMMA AnswerStep == TypeInv /\ TableInv /\ IdInv /\ AnswerInv /\ [Next]_vars => AnswerInv'
<1> SUFFICES ASSUME TypeInv, TableInv, IdInv, AnswerInv, [Next]_vars PROVE AnswerInv'
  OBVIOUS
<1> USE DEF requestVars, clientVars
<1>1. ASSUME NEW m \in toClient, ClientReads(m) PROVE AnswerInv'
  BY <1>1, QuietAnswer DEF ClientReads
<1>2. ASSUME NEW m \in atClient, ClientAnswers(m) PROVE AnswerInv'
  BY <1>2, QuietAnswer DEF ClientAnswers
<1>3. CASE ClientQuits \/ LinkBreaks \/ GracePeriodEnds \/ ReaderCloses \/ UNCHANGED vars
  BY <1>3, QuietAnswer DEF ClientQuits, LinkBreaks, GracePeriodEnds, ReaderCloses, vars
<1>4. CASE ReadMessage
  BY <1>4, QuietAnswer DEF ReadMessage
<1>5. CASE ReaderClosesAgain \/ HeaderRace
  BY <1>5, CrashAnswer DEF ReaderClosesAgain, HeaderRace
<1> QED
  BY <1>1, <1>2, <1>3, <1>4, <1>5, HandlerAnswer, ResponderAnswer DEF Next, Read

(* The invariants together, where no id is drawn twice.                    *)
LEMMA RequestsInv ==
    ASSUME "idCollision" \notin Events
    PROVE  Spec => [](TypeInv /\ TableInv /\ IdInv /\ AnswerInv)
BY TypeInit, TypeStep, TableInit, TableStep, IdInit, IdStep, AnswerInit, AnswerStep, PTL
DEF Spec

(* The answer a user gets was made for his own request, unless an id is    *)
(* drawn twice, however responders, cancellations, timeouts and the end of *)
(* the tunnel interleave.                                                  *)
THEOREM AnswersAreRight ==
    ASSUME "idCollision" \notin Events
    PROVE  Spec => []RightAnswer
<1>1. AnswerInv => RightAnswer
  BY DEF AnswerInv
<1> QED BY <1>1, RequestsInv, PTL
=============================================================================
