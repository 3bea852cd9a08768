---------------------------- MODULE RequestTunnel ----------------------------
(***************************************************************************)
(* HTTP requests through one tunnel: ServeHTTP and serializeRequest for    *)
(* each request (internal/server), the goroutine that reads the tunnel,    *)
(* the handleResponseMessages goroutines it starts, and the mmar client's  *)
(* handleRequestMessage goroutines (internal/client).                      *)
(*                                                                         *)
(* A request is named r; a message or an answer carries the request it was *)
(* made for, so that a wrong delivery shows.  The context of a request is  *)
(* its cancellation cause: the first cancel wins, the later ones do        *)
(* nothing.  What the destination sends back is one of Results.            *)
(***************************************************************************)
EXTENDS Naturals, Sequences, FiniteSets

CONSTANTS Reqs,        \* HTTP requests that arrive
          Ids,         \* request ids: non-zero uint32 values
          NoId, NoReq,
          Results,     \* what the client may send back, see AllResults
          Events       \* which of AllEvents can happen

AllResults == {"response",   \* a response of the destination, or an error page
               "badHead",    \* one http.ReadResponse refuses
               "cutHead",    \* one that ends before its head does
               "cutBody"}    \* one whose body is incomplete

AllEvents == {"userLeaves", "badBody", "chunkTimeout", "linkBreaks", "clientQuits",
             "idCollision"}   \* a random id is drawn for a second request

ASSUME RequestAssumption ==
    /\ NoId \notin Ids /\ NoReq \notin Reqs
    /\ Results \subseteq AllResults /\ Events \subseteq AllEvents

Causes == {"canceled",           \* context.Canceled: user left, or handler returned
           "chunkTimeout", "chunkError", "tooLarge",
           "notForwarded", "badResponse", "badResponseBody", "disconnected"}

VARIABLES
    handler,    \* where ServeHTTP is for each request
    serializer, \* where its serializeRequest goroutine is
    timer,      \* has the callback of the body-chunk timer been started?
    cause,      \* why its context was cancelled, or "none"
    reqId,      \* the id it was given
    headers,    \* requests whose response headers were set on its writer
    answer,     \* what was written to the user
    inflight,   \* ct.inflightRequests
    toClient,   \* REQUEST messages sent and not yet read by the client
    atClient,   \* those a client goroutine works on
    toServer,   \* messages from the client, in order
    responders, \* the handleResponseMessages goroutines
    link,       \* the connection, as the client's end makes it
    tunnel,     \* "up" while routed; closeClientTunnel lingers in "closing"
    reading     \* is the reader still in its loop?

requestVars == <<handler, serializer, timer, cause, reqId, headers, answer>>
clientVars  == <<toClient, atClient>>
vars == <<requestVars, inflight, clientVars, toServer, responders, link, tunnel, reading>>

Answers == {<<"none">>, <<"noTunnel">>, <<"silence">>, <<"reset">>}
               \cup {<<"error", e>> : e \in Causes} \cup {<<"response", r>> : r \in Reqs}

Messages   == [id : Ids, of : Reqs, result : AllResults]
Disconnect == [id |-> NoId, of |-> NoReq, result |-> "disconnect"]

TypeOK ==
    /\ handler \in [Reqs -> {"new", "serialize", "store", "send", "await",
                             "delete", "done"}]
    /\ serializer \in [Reqs -> {"none", "reading", "sending", "done"}]
    /\ timer \in [Reqs -> BOOLEAN]
    /\ cause \in [Reqs -> Causes \cup {"none"}]
    /\ reqId \in [Reqs -> Ids \cup {NoId}]
    /\ headers \in [Reqs -> SUBSET Reqs]
    /\ answer \in [Reqs -> Answers]
    /\ inflight \in [Ids -> Reqs \cup {NoReq}]
    /\ toClient \subseteq [id : Ids, of : Reqs]
    /\ atClient \subseteq [id : Ids, of : Reqs]
    /\ toServer \in Seq(Messages \cup {Disconnect})
    /\ responders \subseteq [msg : Messages, at : {"lookup", "parse", "headers", "deliver"},
                             req : Reqs \cup {NoReq}]
    /\ link \in {"up", "quitting", "broken"}
    /\ tunnel \in {"up", "closing", "closed"}
    /\ reading \in BOOLEAN

Init ==
    /\ handler = [r \in Reqs |-> "new"]
    /\ serializer = [r \in Reqs |-> "none"]
    /\ timer = [r \in Reqs |-> FALSE]
    /\ cause = [r \in Reqs |-> "none"]
    /\ reqId = [r \in Reqs |-> NoId]
    /\ headers = [r \in Reqs |-> {}]
    /\ answer = [r \in Reqs |-> <<"none">>]
    /\ inflight = [i \in Ids |-> NoReq]
    /\ toClient = {} /\ atClient = {} /\ toServer = <<>> /\ responders = {}
    /\ link = "up" /\ tunnel = "up" /\ reading = TRUE

(* context.CancelCauseFunc: only the first call has an effect.             *)
Cancelled(r) == cause[r] # "none"
CancelWith(r, e) == [cause EXCEPT ![r] = IF @ = "none" THEN e ELSE @]
Cancel(r, e) == cause' = CancelWith(r, e)

SetHandler(r, at) == handler' = [handler EXCEPT ![r] = at]
SetAnswer(r, a) == answer' = [answer EXCEPT ![r] = a]

(* A panic takes the server down: its users see their connections reset.   *)
Crash ==
    /\ handler' = [r \in Reqs |-> "done"]
    /\ answer' = [r \in Reqs |-> IF handler[r] = "done" THEN answer[r] ELSE <<"reset">>]
    /\ cause' = [r \in Reqs |-> IF cause[r] = "none" THEN "canceled" ELSE cause[r]]
    /\ serializer' = [r \in Reqs |-> "done"] /\ timer' = [r \in Reqs |-> FALSE]
    /\ inflight' = [i \in Ids |-> NoReq]
    /\ responders' = {} /\ toClient' = {} /\ atClient' = {} /\ toServer' = <<>>
    /\ link' = "broken" /\ tunnel' = "closed" /\ reading' = FALSE
    /\ UNCHANGED <<reqId, headers>>

-----------------------------------------------------------------------------
(* ServeHTTP and its serializer                                            *)

Arrive(r) ==
    /\ handler[r] = "new"
    /\ IF tunnel = "up"
       THEN /\ SetHandler(r, "serialize")
            /\ serializer' = [serializer EXCEPT ![r] = "reading"]
            /\ UNCHANGED answer
       ELSE /\ SetHandler(r, "done")
            /\ SetAnswer(r, <<"noTunnel">>)
            /\ UNCHANGED serializer
    /\ UNCHANGED <<timer, cause, reqId, headers, inflight, clientVars, toServer,
                   responders, link, tunnel, reading>>

UserLeaves(r) ==
    /\ "userLeaves" \in Events
    /\ handler[r] \notin {"new", "done"} /\ ~Cancelled(r)
    /\ Cancel(r, "canceled")
    /\ UNCHANGED <<handler, serializer, timer, reqId, headers, answer, inflight, clientVars,
                   toServer, responders, link, tunnel, reading>>

(* The body was read to its end, or it was not: a read fails at the latest *)
(* when the handler has returned.                                          *)
BodyRead(r) ==
    /\ serializer[r] = "reading"
    /\ \/ /\ serializer' = [serializer EXCEPT ![r] = "sending"]
          /\ UNCHANGED cause
       \/ /\ "badBody" \in Events \/ handler[r] = "done"
          /\ serializer' = [serializer EXCEPT ![r] = "done"]
          /\ \E e \in {"chunkError", "tooLarge"} : Cancel(r, e)
    /\ UNCHANGED <<handler, timer, reqId, headers, answer, inflight, clientVars,
                   toServer, responders, link, tunnel, reading>>

(* readBufferTimeout fires during a read; Stop does not wait for the       *)
(* callback, which may run after the body was read.                        *)
ChunkTimerFires(r) ==
    /\ "chunkTimeout" \in Events
    /\ serializer[r] = "reading" /\ ~timer[r]
    /\ timer' = [timer EXCEPT ![r] = TRUE]
    /\ UNCHANGED <<handler, serializer, cause, reqId, headers, answer, inflight, clientVars,
                   toServer, responders, link, tunnel, reading>>

CancelRead(r) ==
    /\ timer[r]
    /\ timer' = [timer EXCEPT ![r] = FALSE]
    /\ Cancel(r, "chunkTimeout")
    /\ UNCHANGED <<handler, serializer, reqId, headers, answer, inflight, clientVars,
                   toServer, responders, link, tunnel, reading>>

(* handleCancel: nothing is written for context.Canceled.                  *)
CancelAnswer(r) == IF cause[r] = "canceled" THEN <<"silence">> ELSE <<"error", cause[r]>>

(* The handler returns before the request was serialized; a serializer     *)
(* that is sending has nobody to receive and stays for ever.               *)
NotSerialized(r) ==
    /\ handler[r] = "serialize" /\ Cancelled(r)
    /\ SetAnswer(r, CancelAnswer(r))
    /\ SetHandler(r, "done")
    /\ UNCHANGED <<serializer, timer, cause, reqId, headers, inflight, clientVars,
                   toServer, responders, link, tunnel, reading>>

Serialized(r) ==
    /\ handler[r] = "serialize" /\ serializer[r] = "sending"
    /\ serializer' = [serializer EXCEPT ![r] = "done"]
    /\ SetHandler(r, "store")
    /\ UNCHANGED <<timer, cause, reqId, headers, answer, inflight, clientVars,
                   toServer, responders, link, tunnel, reading>>

(* GenerateUniqueRequestID looks up the id 0 once, before its loop, and    *)
(* takes the first random non-zero number.                                 *)
RandomIdsFree == {i \in Ids : inflight[i] = NoReq}   \* mutant: an id returns once it is free

RandomIds ==
    IF "idCollision" \in Events THEN Ids
    ELSE Ids \ {reqId[r] : r \in Reqs}

Store(r) ==
    /\ handler[r] = "store"
    /\ \E i \in RandomIds :
          /\ reqId' = [reqId EXCEPT ![r] = i]
          /\ inflight' = [inflight EXCEPT ![i] = r]
    /\ SetHandler(r, "send")
    /\ UNCHANGED <<serializer, timer, cause, headers, answer, clientVars, toServer,
                   responders, link, tunnel, reading>>

(* A write to a broken connection may fail at once, or vanish.             *)
Send(r) ==
    /\ handler[r] = "send"
    /\ SetHandler(r, "await")
    /\ \/ /\ tunnel # "closed"
          /\ toClient' = IF link = "up" THEN toClient \cup {[id |-> reqId[r], of |-> r]}
                                        ELSE toClient
          /\ UNCHANGED cause
       \/ /\ tunnel = "closed" \/ link = "broken"
          /\ Cancel(r, "notForwarded")
          /\ UNCHANGED toClient
    /\ UNCHANGED <<serializer, timer, reqId, headers, answer, inflight, atClient,
                   toServer, responders, link, tunnel, reading>>

AwaitCancelled(r) ==
    /\ handler[r] = "await" /\ Cancelled(r)
    /\ SetAnswer(r, CancelAnswer(r))
    /\ SetHandler(r, "delete")
    /\ UNCHANGED <<serializer, timer, cause, reqId, headers, inflight, clientVars,
                   toServer, responders, link, tunnel, reading>>

DeleteInflight(r) ==
    /\ handler[r] = "delete"
    /\ inflight' = [inflight EXCEPT ![reqId[r]] = NoReq]
    /\ SetHandler(r, "done")
    /\ UNCHANGED <<serializer, timer, cause, reqId, headers, answer, clientVars,
                   toServer, responders, link, tunnel, reading>>

-----------------------------------------------------------------------------
(* The mmar client                                                         *)

ClientReads(m) ==
    /\ link = "up" /\ m \in toClient
    /\ toClient' = toClient \ {m}
    /\ atClient' = atClient \cup {m}
    /\ UNCHANGED <<requestVars, inflight, toServer, responders, link, tunnel, reading>>

(* handleRequestMessage: forward to the destination, send what came back.  *)
ClientAnswers(m) ==
    /\ link \in {"up", "quitting"} /\ m \in atClient
    /\ atClient' = atClient \ {m}
    /\ \E res \in Results :
          toServer' = Append(toServer, [id |-> m.id, of |-> m.of, result |-> res])
    /\ UNCHANGED <<requestVars, inflight, toClient, responders, link, tunnel, reading>>

(* Interrupted: CLIENT_DISCONNECT, no more reads, three seconds to finish. *)
ClientQuits ==
    /\ "clientQuits" \in Events /\ link = "up"
    /\ link' = "quitting"
    /\ toServer' = Append(toServer, Disconnect)
    /\ UNCHANGED <<requestVars, inflight, clientVars, responders, tunnel, reading>>

(* The network fails, or the client exits: what was under way is lost.     *)
LinkBreaks ==
    /\ link = "quitting" \/ ("linkBreaks" \in Events /\ link = "up")
    /\ link' = "broken"
    /\ toClient' = {} /\ atClient' = {}
    /\ UNCHANGED <<requestVars, inflight, toServer, responders, tunnel, reading>>

-----------------------------------------------------------------------------
(* processTunnelMessages                                                   *)

ReadMessageAny ==   \* mutant: CLIENT_DISCONNECT falls through
    /\ reading /\ toServer # <<>>
    /\ toServer' = Tail(toServer)
    /\ responders' = responders \cup {[msg |-> Head(toServer), at |-> "lookup", req |-> NoReq]}
    /\ UNCHANGED <<requestVars, inflight, clientVars, link, tunnel, reading>>

ReadMessage ==
    /\ reading /\ toServer # <<>> /\ Head(toServer) # Disconnect
    /\ toServer' = Tail(toServer)
    /\ responders' = responders \cup {[msg |-> Head(toServer), at |-> "lookup", req |-> NoReq]}
    /\ UNCHANGED <<requestVars, inflight, clientVars, link, tunnel, reading>>

(* CLIENT_DISCONNECT or a failed read.  After a responder's close this is  *)
(* the second closeClientTunnel, which panics on the closed channels.      *)
ReadEnds == \/ toServer # <<>> /\ Head(toServer) = Disconnect
            \/ link = "broken" \/ tunnel = "closed"

ReaderCloses ==
    /\ reading /\ ReadEnds /\ tunnel = "up"
    /\ tunnel' = "closing" /\ reading' = FALSE
    /\ UNCHANGED <<requestVars, inflight, clientVars, toServer, responders, link>>

ReaderClosesAgain == reading /\ ReadEnds /\ tunnel # "up" /\ Crash

(* ClientTunnel.close: after the grace period the connection is closed.  A *)
(* reader that is still in its loop may find buffered messages.            *)
GracePeriodEnds ==
    /\ tunnel = "closing"
    /\ tunnel' = "closed" /\ link' = "broken"
    /\ toClient' = {} /\ atClient' = {}
    /\ toServer' \in IF reading THEN {toServer, <<>>} ELSE {<<>>}
    /\ UNCHANGED <<requestVars, inflight, responders, reading>>

-----------------------------------------------------------------------------
(* handleResponseMessages                                                  *)

Becomes(g, at, r) == responders' = (responders \ {g}) \cup {[msg |-> g.msg, at |-> at, req |-> r]}
Ends(g) == responders' = responders \ {g}

LookupKeeps(g) ==   \* mutant: Load in the place of LoadAndDelete
    /\ g \in responders /\ g.at = "lookup"
    /\ IF inflight[g.msg.id] = NoReq THEN Ends(g)
       ELSE Becomes(g, "parse", inflight[g.msg.id])
    /\ UNCHANGED <<requestVars, inflight, clientVars, toServer, link, tunnel, reading>>

(* LoadAndDelete: whoever is first has the request to itself.              *)
Lookup(g) ==
    /\ g \in responders /\ g.at = "lookup"
    /\ inflight' = [inflight EXCEPT ![g.msg.id] = NoReq]
    /\ IF inflight[g.msg.id] = NoReq THEN Ends(g)
       ELSE Becomes(g, "parse", inflight[g.msg.id])
    /\ UNCHANGED <<requestVars, clientVars, toServer, link, tunnel, reading>>

ParseBeforeHeaders(g) ==   \* mutant: the response is handed over before its headers are set
    /\ g \in responders /\ g.at = "parse" /\ g.msg.result # "cutHead"
    /\ IF g.msg.result = "response" THEN Becomes(g, "deliver", g.req) /\ UNCHANGED cause
       ELSE Ends(g) /\ Cancel(g.req, "badResponse")
    /\ UNCHANGED <<handler, serializer, timer, reqId, headers, answer, inflight, clientVars,
                   toServer, link, tunnel, reading>>

ParseQuiet(g) ==   \* mutant: no cancel when the response cannot be read
    /\ g \in responders /\ g.at = "parse" /\ g.msg.result # "cutHead"
    /\ IF g.msg.result = "response" THEN Becomes(g, "headers", g.req) ELSE Ends(g)
    /\ UNCHANGED <<requestVars, inflight, clientVars, toServer, link, tunnel, reading>>

Parse(g) ==
    /\ g \in responders /\ g.at = "parse" /\ g.msg.result # "cutHead"
    /\ CASE g.msg.result = "response" -> Becomes(g, "headers", g.req) /\ UNCHANGED cause
         [] g.msg.result = "badHead"  -> Ends(g) /\ Cancel(g.req, "badResponse")
         [] g.msg.result = "cutBody"  -> Ends(g) /\ Cancel(g.req, "badResponseBody")
    /\ UNCHANGED <<handler, serializer, timer, reqId, headers, answer, inflight, clientVars,
                   toServer, link, tunnel, reading>>

(* io.ErrUnexpectedEOF from the buffered message is taken for the client's *)
(* connection: the whole tunnel is closed.                                 *)
ParseCloses(g) ==
    /\ g \in responders /\ g.at = "parse" /\ g.msg.result = "cutHead"
    /\ IF tunnel = "up"
       THEN /\ tunnel' = "closing"
            /\ Ends(g) /\ Cancel(g.req, "disconnected")
            /\ UNCHANGED <<handler, serializer, timer, reqId, headers, answer, inflight,
                           clientVars, toServer, link, reading>>
       ELSE Crash

(* The writer belongs to the handler's goroutine, which may be answering,  *)
(* or may have returned.                                                   *)
SetHeaders(g) ==
    /\ g \in responders /\ g.at = "headers"
    /\ headers' = [headers EXCEPT ![g.req] = @ \cup {g.msg.of}]
    /\ Becomes(g, "deliver", g.req)
    /\ UNCHANGED <<handler, serializer, timer, cause, reqId, answer, inflight, clientVars,
                   toServer, link, tunnel, reading>>

(* Two goroutines in one http.Header map: the runtime may stop the process *)
(* while the handler answers with an error, or net/http ends the response. *)
HeaderRace ==
    /\ \E g \in responders : /\ g.at = "headers" /\ Cancelled(g.req)
                             /\ handler[g.req] \in {"await", "delete"}
    /\ Crash

(* The select of the responder meets the select of the handler.            *)
Deliver(g) ==
    /\ g \in responders /\ g.at = "deliver" /\ handler[g.req] = "await"
    /\ SetAnswer(g.req, <<"response", g.msg.of>>)
    /\ SetHandler(g.req, "done")
    /\ Cancel(g.req, "canceled")
    /\ Ends(g)
    /\ UNCHANGED <<serializer, timer, reqId, headers, inflight, clientVars, toServer,
                   link, tunnel, reading>>

DeliverCancelledNever(g) == FALSE /\ UNCHANGED vars   \* mutant: a send without select

DeliverCancelled(g) ==
    /\ g \in responders /\ g.at = "deliver" /\ Cancelled(g.req)
    /\ Ends(g)
    /\ UNCHANGED <<requestVars, inflight, clientVars, toServer, link, tunnel, reading>>

-----------------------------------------------------------------------------
Handle(r) ==
    \/ NotSerialized(r) \/ Serialized(r) \/ Store(r) \/ Send(r)
    \/ AwaitCancelled(r) \/ DeleteInflight(r)

Respond(g) ==
    Lookup(g) \/ Parse(g) \/ ParseCloses(g) \/ SetHeaders(g) \/ Deliver(g) \/ DeliverCancelled(g)

Read == ReadMessage \/ ReaderCloses \/ ReaderClosesAgain

Next ==
    \/ \E r \in Reqs : Arrive(r) \/ UserLeaves(r) \/ BodyRead(r) \/ ChunkTimerFires(r)
                         \/ CancelRead(r) \/ Handle(r)
    \/ \E m \in toClient : ClientReads(m)
    \/ \E m \in atClient : ClientAnswers(m)
    \/ ClientQuits \/ LinkBreaks
    \/ Read \/ GracePeriodEnds
    \/ \E g \in responders : Respond(g)
    \/ HeaderRace

Spec == Init /\ [][Next]_vars

(* Goroutines that can run do run, on both sides; the client's forwarding  *)
(* ends by DEST_REQUEST_TIMEOUT, and the read of a body ends or its timer  *)
(* fires.  Users and failures are free.                                    *)
Fairness ==
    /\ \A r \in Reqs : WF_vars(BodyRead(r) \/ ChunkTimerFires(r)) /\ WF_vars(CancelRead(r)) /\ WF_vars(Handle(r))
    /\ WF_vars(\E m \in toClient : ClientReads(m))
    /\ WF_vars(\E m \in atClient : ClientAnswers(m))
    /\ WF_vars(Read) /\ WF_vars(GracePeriodEnds)
    /\ \A r \in Reqs : WF_vars(\E g \in responders : g.msg.of = r /\ Respond(g))

FairSpec == Spec /\ Fairness

-----------------------------------------------------------------------------
(* What the code guarantees.                                               *)

(* The answer a user gets was made for his own request, however the        *)
(* responders, the ids and the cancellations interleave.                   *)
RightAnswer == \A r, s \in Reqs : answer[r] = <<"response", s>> => s = r

(* A tunnelled answer goes out with the headers of that very response.     *)
HeadersOfAnswer == \A r, s \in Reqs : answer[r] = <<"response", s>> => headers[r] = {s}

(* An entry of inflightRequests belongs to a handler that still waits for  *)
(* its answer: neither a response, an error nor a user who left leaves an  *)
(* entry behind.                                                           *)
InflightIsAwaited ==
    \A i \in Ids : inflight[i] # NoReq =>
        reqId[inflight[i]] = i /\ handler[inflight[i]] \in {"send", "await", "delete"}

(* While its tunnel is up, every request gets an answer: each way a        *)
(* responder can fail cancels the request it has taken from the table.     *)
EveryRequestAnswered ==
    \A r \in Reqs : handler[r] = "serialize" ~> (handler[r] = "done" \/ tunnel # "up" \/ link # "up")

(* No responder waits for ever for a handler that has returned.            *)
RespondersEnd ==
    \A r \in Reqs : (\E g \in responders : g.req = r) ~> ~(\E g \in responders : g.req = r)
=============================================================================
