---------------------------- MODULE Reconnection ----------------------------
(***************************************************************************)
(* One mmar client (internal/client/main.go) over the life of its          *)
(* connections, with the mmar server (internal/server/main.go) as far as   *)
(* the client depends on it: what it keeps per connection, the subdomains, *)
(* and that it stops and is restarted.                                     *)
(*                                                                         *)
(* The client is several goroutines that use the one field mc.Tunnel.Conn: *)
(* main, the reader (ProcessTunnelMessages, which runs reconnectTunnel),   *)
(* the heartbeat callback, and one goroutine per request.  reconnectTunnel *)
(* replaces that field under them.                                         *)
(*                                                                         *)
(* The server handles a message in one step here (TunnelRegistry has its   *)
(* steps), but for the time a closed tunnel's connection stays open.       *)
(* Other clients are a name they hold (Rival).                             *)
(***************************************************************************)
EXTENDS Naturals, Sequences, FiniteSets

CONSTANTS
    Conns,         \* the TCP connections the client may have had at one time
    Names,         \* subdomains
    CustomNames,   \* those a user may have asked for: CustomName
    NoName,        \* "", and the Id of a nil *ClientTunnel
    Nobody,        \* no tunnel has the name
    Rival,         \* another client's tunnel has it
    MaxTunnelsPerIP,
    MaxFaults,     \* bound: broken links, late acknowledgements, server stops
    MaxRequests,   \* bound: requests of users that reach the client
    MaxRivals,     \* bound: names other clients take
    Faults         \* which of {"earlyCut", "replyWrite"} may happen

ASSUME ReconnectionAssumption ==
    /\ Conns # {} /\ CustomNames \subseteq Names
    /\ NoName \notin Names
    /\ Nobody \notin Conns /\ Rival \notin Conns /\ Nobody # Rival
    /\ MaxTunnelsPerIP \in Nat \ {0}
    /\ {MaxFaults, MaxRequests, MaxRivals} \subseteq Nat
    /\ Faults \subseteq {"earlyCut", "replyWrite"}

VARIABLES
    customName,  \* ConfigOptions.CustomName
    proc,        \* the client: "running" or why it ended
    main,        \* Run: "create", "wait" for SIGINT, "cancelled"
    reader,      \* "receive", "dial", "reclaim" or "done"
    conn,        \* mc.Tunnel.Conn
    subdomain,   \* mc.subdomain
    told,        \* TUNNEL_CREATED was read on conn
    answering,   \* request goroutines that have not answered yet
    late,        \* those among them whose request came on an earlier connection
    link,        \* per connection: "up", "closing" when the server waits to close it,
                 \* or "cut"
    toServer,    \* frames on their way, in order, as long as somebody reads
    toClient,
    server,      \* "up" or "down"
    session,     \* processTunnelMessages per connection: "none", "reading", "drained"
                 \* when another goroutine has closed the tunnel it reads for, or
                 \* "unanswered" when it ended as TUNNEL_CREATED could not be written
    ct,          \* its ct: the tunnel's name, NoName for nil
    clients,     \* ms.clients: name -> connection
    faults, requests, rivals

clientVars  == <<proc, main, reader, conn, subdomain, told, answering, late>>
serverVars  == <<server, session, ct, clients>>
netVars     == <<link, toServer, toClient>>
budgets     == <<faults, requests, rivals>>
vars        == <<customName, clientVars, serverVars, netVars, budgets>>

Reasons == {"interrupt", "refused", "sendFailed"}

(* Messages carry the name they are about; the rest of their data is       *)
(* abstracted.                                                             *)
ToServerMsgs == [type : {"CREATE", "RECLAIM", "RESPONSE", "LATE", "DISCONNECT"},
                 name : Names \cup {NoName}]
ToClientMsgs == [type : {"CREATED", "REFUSED", "REQUEST"},
                 name : Names \cup {NoName}]
Msg(t, n) == [type |-> t, name |-> n]
Say(t)    == Msg(t, NoName)

TypeOK ==
    /\ customName \in CustomNames \cup {NoName}
    /\ proc \in {"running"} \cup Reasons
    /\ main \in {"create", "wait", "cancelled"}
    /\ reader \in {"receive", "dial", "reclaim", "done"}
    /\ conn \in Conns
    /\ subdomain \in Names \cup {NoName}
    /\ told \in BOOLEAN
    /\ answering \in 0..MaxRequests /\ late \in 0..answering
    /\ link \in [Conns -> {"up", "closing", "cut"}]
    /\ toServer \in [Conns -> Seq(ToServerMsgs)]
    /\ toClient \in [Conns -> Seq(ToClientMsgs)]
    /\ server \in {"up", "down"}
    /\ session \in [Conns -> {"none", "reading", "drained", "unanswered"}]
    /\ ct \in [Conns -> Names \cup {NoName}]
    /\ clients \in [Names -> Conns \cup {Nobody, Rival}]
    /\ faults \in 0..MaxFaults /\ requests \in 0..MaxRequests /\ rivals \in 0..MaxRivals

(* Run has dialled: the reader runs, CREATE_TUNNEL is not yet written.     *)
(* (Could the server not be reached, Run has ended before this.)           *)
Init ==
    /\ customName \in CustomNames \cup {NoName}
    /\ proc = "running" /\ main = "create" /\ reader = "receive"
    /\ conn = CHOOSE k \in Conns : TRUE
    /\ subdomain = NoName /\ told = FALSE /\ answering = 0 /\ late = 0
    /\ link = [k \in Conns |-> IF k = conn THEN "up" ELSE "cut"]
    /\ toServer = [k \in Conns |-> <<>>] /\ toClient = [k \in Conns |-> <<>>]
    /\ server = "up" /\ clients = [n \in Names |-> Nobody]
    /\ session = [k \in Conns |-> IF k = conn THEN "reading" ELSE "none"]
    /\ ct = [k \in Conns |-> NoName]
    /\ faults = 0 /\ requests = 0 /\ rivals = 0

-----------------------------------------------------------------------------
(* The client                                                              *)

Running == proc = "running"
Read(k) == session[k] \in {"reading", "drained"}   \* by the server
NoFrames == [k \in Conns |-> <<>>]

(* Something goes wrong, not before Run has written CREATE_TUNNEL unless   *)
(* "earlyCut" may happen.                                                  *)
Fault ==
    /\ faults < MaxFaults /\ faults' = faults + 1
    /\ main = "create" => "earlyCut" \in Faults

outside == <<customName, serverVars, budgets>>   \* what no step of the client changes

(* Writing to a connection that is cut may go unnoticed or fail.           *)
Send(m) ==
    /\ toServer' = IF link[conn] # "cut" /\ Read(conn)
                   THEN [toServer EXCEPT ![conn] = Append(@, m)] ELSE toServer
    /\ UNCHANGED <<link, toClient>>
SendFails == link[conn] = "cut"

(* os.Exit, log.Fatal, the end of Run: the goroutines are gone, the kernel *)
(* closes every connection.                                                *)
Exit(why) ==
    /\ proc' = why /\ reader' = "done" /\ told' = FALSE /\ answering' = 0 /\ late' = 0
    /\ link' = [k \in Conns |-> "cut"] /\ toClient' = NoFrames
    /\ UNCHANGED <<main, conn, subdomain, toServer, outside>>
ExitIfSendFails == SendFails /\ Exit("sendFailed")

(* The loops of the reader look at ctx when they start again.              *)
Loop == IF main = "cancelled" THEN "done" ELSE "receive"

SendCreate ==
    /\ Running /\ main = "create"
    /\ \/ /\ Send(Msg("CREATE", customName)) /\ main' = "wait"
          /\ UNCHANGED <<proc, reader, conn, subdomain, told, answering, late, outside>>
       \/ ExitIfSendFails

(* SIGINT: CLIENT_DISCONNECT, whose error is dropped, then cancel().       *)
Interrupt ==
    /\ Running /\ main = "wait"
    /\ Send(Say("DISCONNECT")) /\ main' = "cancelled"
    /\ UNCHANGED <<proc, reader, conn, subdomain, told, answering, late, outside>>

(* The graceful shutdown timer ends Run.                                   *)
Leave == Running /\ main = "cancelled" /\ Exit("interrupt")

(* ReceiveMessage returned a message.                                      *)
Take == toClient' = [toClient EXCEPT ![conn] = Tail(@)]
Reads(type) ==
    /\ Running /\ reader = "receive"
    /\ toClient[conn] # <<>> /\ Head(toClient[conn]).type = type

ReceiveCreated ==
    /\ Reads("CREATED") /\ Take
    /\ subdomain' = Head(toClient[conn]).name /\ told' = TRUE
    /\ reader' = Loop
    /\ UNCHANGED <<proc, main, conn, answering, late, link, toServer, outside>>

(* CLIENT_TUNNEL_LIMIT, SUBDOMAIN_ALREADY_TAKEN and the other refusals.    *)
ReceiveRefusal == Reads("REFUSED") /\ Exit("refused")

\* mutant
StartAnsweringTwice == answering' = answering + 2

StartAnswering == answering' = answering + 1   \* go mc.handleRequestMessage

ReceiveRequest ==
    /\ Reads("REQUEST") /\ Take
    /\ StartAnswering /\ reader' = Loop
    /\ UNCHANGED <<proc, main, conn, subdomain, told, late, link, toServer, outside>>

(* HEARTBEAT_FROM_SERVER, which comes when nothing else does (it is not    *)
(* followed on its way), is answered by the reader itself.                 *)
ReceiveHeartbeat ==
    /\ Running /\ reader = "receive" /\ toClient[conn] = <<>>
    /\ \/ /\ reader' = Loop
          /\ UNCHANGED <<proc, main, conn, subdomain, told, answering, late, netVars, outside>>
       \/ ExitIfSendFails

(* An error of ReceiveMessage.                                             *)
Disconnected ==
    /\ Running /\ reader = "receive"
    /\ reader' = IF main = "cancelled" THEN "done" ELSE "dial"
    /\ told' = FALSE
    /\ UNCHANGED <<proc, main, conn, subdomain, answering, late, netVars, customName,
                   serverVars>>

(* The connection failed or its other side has ended: see Heartbeats for   *)
(* how a silent one is noticed.                                            *)
ReadFails ==
    /\ Disconnected
    /\ toClient[conn] = <<>> /\ link[conn] = "cut"
    /\ UNCHANGED budgets

(* The acknowledgement of a heartbeat comes later than READ_DEADLINE.      *)
ReadTimesOut ==
    /\ Disconnected
    /\ link[conn] # "cut" /\ Fault
    /\ UNCHANGED <<requests, rivals>>

(* reconnectTunnel: a cancelled context ends it; a dial that fails is      *)
(* tried again and changes nothing.  The old connection is not closed, it  *)
(* may still be up.                                                        *)
StopDialling ==
    /\ Running /\ reader = "dial" /\ main = "cancelled"
    /\ reader' = "done"
    /\ UNCHANGED <<proc, main, conn, subdomain, told, answering, late, netVars, outside>>

Unused(k) ==
    k # conn /\ ~Read(k) /\ link[k] = "cut" /\ \A n \in Names : clients[n] # k

Dial ==
    /\ Running /\ reader = "dial" /\ main # "cancelled"
    /\ server = "up" /\ \E k \in Conns : Unused(k)
    /\ LET k == CHOOSE k \in Conns : Unused(k) IN   \* which one tells nothing apart
           /\ conn' = k /\ link' = [link EXCEPT ![k] = "up"]
           /\ toServer' = [toServer EXCEPT ![k] = <<>>] /\ toClient' = NoFrames
           /\ session' = [session EXCEPT ![k] = "reading"] /\ ct' = [ct EXCEPT ![k] = NoName]
    /\ reader' = "reclaim" /\ late' = answering
    /\ UNCHANGED <<proc, main, subdomain, told, answering, customName, server,
                   clients, budgets>>

\* mutant
ReclaimCustomName == customName

ReclaimData == subdomain

\* mutant
SendIfNamed ==
    IF subdomain = NoName THEN UNCHANGED netVars ELSE Send(Msg("RECLAIM", ReclaimData))

SendReclaimMsg == Send(Msg("RECLAIM", ReclaimData))

SendReclaim ==
    /\ Running /\ reader = "reclaim"
    /\ \/ /\ SendReclaimMsg /\ reader' = Loop
          /\ UNCHANGED <<proc, main, conn, subdomain, told, answering, late, outside>>
       \/ ExitIfSendFails

(* The heartbeat callback, which runs when nothing was read for a while    *)
(* and may be overtaken by the reader before it writes.  A                 *)
(* HEARTBEAT_FROM_CLIENT that is written only makes the server answer.     *)
HeartbeatFails == Running /\ ExitIfSendFails

(* handleRequestMessage ends by writing to what mc.Tunnel.Conn is now.     *)
Answer ==
    /\ Running /\ answering > 0
    /\ \/ /\ answering' = answering - 1
          /\ \/ late < answering /\ Send(Say("RESPONSE")) /\ late' = late
             \/ late > 0 /\ Send(Say("LATE")) /\ late' = late - 1
          /\ UNCHANGED <<proc, main, reader, conn, subdomain, told, outside>>
       \/ ExitIfSendFails

-----------------------------------------------------------------------------
(* The server                                                              *)

EndSession(k, how) ==
    session' = [session EXCEPT ![k] = how] /\ ct' = [ct EXCEPT ![k] = NoName]

(* The process is gone: nothing of its state is kept anywhere.             *)
GoDown ==
    /\ server' = "down" /\ clients' = [n \in Names |-> Nobody]
    /\ session' = [k \in Conns |-> "none"] /\ ct' = [k \in Conns |-> NoName]
    /\ link' = [k \in Conns |-> "cut"]
    /\ UNCHANGED toClient

(* compose.yaml, `restart: unless-stopped`.                                *)
Restart ==
    /\ server = "down" /\ server' = "up"
    /\ UNCHANGED <<customName, clientVars, netVars, session, ct, clients, budgets>>

\* mutant
KeepRoute(n) == clients

Unroute(n) == [clients EXCEPT ![n] = Nobody]

(* The entry goes at once, the connection after GRACEFUL_SHUTDOWN_TIMEOUT. *)
(* The close of a nil tunnel, and the second close of one, panic.          *)
CloseTunnel(k) ==
    /\ clients' = Unroute(ct[k])
    /\ link' = [link EXCEPT ![k] = IF @ = "cut" THEN @ ELSE "closing"]
    /\ UNCHANGED <<server, toClient>>
Closable(k) == ct[k] # NoName /\ session[k] # "drained"

(* By the reader, which returns.                                           *)
CloseClientTunnelOrConn(k) ==
    IF ~Closable(k) THEN GoDown
    ELSE CloseTunnel(k) /\ EndSession(k, "none")

CloseBehindReader(k) ==
    IF ~Closable(k) THEN GoDown
    ELSE CloseTunnel(k) /\ session' = [session EXCEPT ![k] = "drained"] /\ UNCHANGED ct

\* mutant
RegisteredToOthers(n) == n # NoName /\ clients[n] = Rival

Registered(n) == n # NoName /\ clients[n] # Nobody

TunnelLimitedIP == Cardinality({n \in Names : clients[n] \in Conns}) >= MaxTunnelsPerIP

Reply(k, m) ==
    toClient' = IF link[k] # "cut" /\ k = conn
                THEN [toClient EXCEPT ![k] = Append(@, m)] ELSE toClient

Refuse(k, l) ==
    /\ Reply(k, Say("REFUSED"))
    /\ EndSession(k, "none") /\ link' = l
    /\ UNCHANGED <<server, clients>>

(* GenerateUniqueSubdomain; a generated name is nobody's custom name.      *)
Choices(n) ==
    IF n # NoName THEN {n}
    ELSE {g \in Names \ CustomNames : clients[g] = Nobody /\ g # subdomain}

(* AddClient and the reply, which may fail and end the session.  A new     *)
(* tunnel has new channels.                                                *)
Register(k, n) ==
    /\ clients' = [clients EXCEPT ![n] = k]
    /\ \/ /\ ct' = [ct EXCEPT ![k] = n] /\ Reply(k, Msg("CREATED", n))
          /\ session' = [session EXCEPT ![k] = "reading"]
       \/ /\ "replyWrite" \in Faults /\ link[k] = "cut"
          /\ EndSession(k, "unanswered")
          /\ UNCHANGED toClient
    /\ UNCHANGED <<server, link>>

NewClientTunnel(k, n) ==
    \/ Registered(n) /\ Refuse(k, link)
    \/ ~Registered(n) /\ TunnelLimitedIP /\ Refuse(k, [link EXCEPT ![k] = "cut"])
    \/ ~Registered(n) /\ ~TunnelLimitedIP /\ \E u \in Choices(n) : Register(k, u)

(* RECLAIM_TUNNEL looks the name up before newClientTunnel does.           *)
ReclaimTunnel(k, n) ==
    IF Registered(n) THEN CloseClientTunnelOrConn(k) ELSE NewClientTunnel(k, n)

(* handleResponseMessages looks the request up in ct.inflightRequests,     *)
(* where one of an earlier connection is not.  A response that breaks off  *)
(* in its header is taken for the end of the connection.                   *)
HandleResponse(k, type) ==
    IF ct[k] = NoName THEN GoDown
    ELSE \/ UNCHANGED <<serverVars, link, toClient>>
         \/ type = "RESPONSE" /\ CloseBehindReader(k)

Process(k, m) ==
    \/ m.type = "CREATE" /\ NewClientTunnel(k, m.name)
    \/ m.type = "RECLAIM" /\ ReclaimTunnel(k, m.name)
    \/ m.type \in {"RESPONSE", "LATE"} /\ HandleResponse(k, m.type)
    \/ m.type = "DISCONNECT" /\ CloseClientTunnelOrConn(k)

ServerReceives(k) ==
    /\ Read(k) /\ toServer[k] # <<>>
    /\ Process(k, Head(toServer[k]))
    /\ toServer' = [toServer EXCEPT ![k] = IF Read(k)' THEN Tail(@) ELSE <<>>]
    /\ UNCHANGED <<customName, clientVars, budgets>>

(* The connection is broken, or the client reads it no more and answers no *)
(* heartbeat.                                                              *)
ServerReadFails(k) ==
    /\ Read(k) /\ toServer[k] = <<>>
    /\ link[k] = "cut" \/ k # conn
    /\ CloseClientTunnelOrConn(k)
    /\ UNCHANGED <<customName, clientVars, toServer, budgets>>

(* The client's acknowledgement comes later than READ_DEADLINE.            *)
ServerReadTimesOut(k) ==
    /\ Read(k) /\ link[k] # "cut" /\ Fault
    /\ CloseClientTunnelOrConn(k)
    /\ toServer' = [toServer EXCEPT ![k] = <<>>]
    /\ UNCHANGED <<customName, clientVars, requests, rivals>>

(* The heartbeat callback cannot write and closes the tunnel itself.       *)
ServerHeartbeatFails(k) ==
    /\ Read(k) /\ link[k] = "cut"
    /\ CloseBehindReader(k)
    /\ UNCHANGED <<customName, clientVars, toServer, budgets>>

Prefixes(s) == {SubSeq(s, 1, i) : i \in 0..Len(s)}

(* What is on its way arrives up to some point.                            *)
Break(k) ==
    /\ link' = [link EXCEPT ![k] = "cut"]
    /\ \E s \in Prefixes(toServer[k]), c \in Prefixes(toClient[k]) :
           /\ toServer' = [toServer EXCEPT ![k] = s]
           /\ toClient' = [toClient EXCEPT ![k] = c]

(* Conn.Close, the end of close(graceful).                                 *)
CloseConn(k) ==
    /\ link[k] = "closing" /\ Break(k)
    /\ UNCHANGED <<customName, clientVars, serverVars, budgets>>

(* ServeHTTP sends a user's request to the tunnel of the name.             *)
UserRequest(n) ==
    /\ clients[n] \in Conns /\ link[clients[n]] # "cut" /\ requests < MaxRequests
    /\ requests' = requests + 1
    /\ Reply(clients[n], Say("REQUEST"))
    /\ UNCHANGED <<customName, clientVars, serverVars, link, toServer, faults, rivals>>

-----------------------------------------------------------------------------
(* The rest of the world                                                   *)

Cut(k) ==
    /\ link[k] # "cut" /\ Fault
    /\ Break(k)
    /\ UNCHANGED <<customName, clientVars, serverVars, requests, rivals>>

ServerStops ==
    /\ server = "up" /\ Fault
    /\ GoDown /\ toServer' = NoFrames
    /\ UNCHANGED <<customName, clientVars, requests, rivals>>

RivalTakes(n) ==
    /\ n \in CustomNames /\ clients[n] = Nobody /\ server = "up"
    /\ rivals < MaxRivals
    /\ rivals' = rivals + 1
    /\ clients' = [clients EXCEPT ![n] = Rival]
    /\ UNCHANGED <<customName, clientVars, netVars, server, session, ct, faults,
                   requests>>

RivalLeaves(n) ==
    /\ clients[n] = Rival
    /\ clients' = [clients EXCEPT ![n] = Nobody]
    /\ UNCHANGED <<customName, clientVars, netVars, server, session, ct, budgets>>

-----------------------------------------------------------------------------
MainStep   == SendCreate \/ Leave
ReaderStep == ReceiveCreated \/ ReceiveRefusal \/ ReceiveRequest \/ ReadFails
              \/ StopDialling \/ Dial \/ SendReclaim
SessionStep(k) == ServerReceives(k) \/ ServerReadFails(k)

Next ==
    \/ MainStep \/ ReaderStep \/ Answer
    \/ Interrupt \/ ReceiveHeartbeat \/ HeartbeatFails \/ ReadTimesOut
    \/ \E k \in Conns : SessionStep(k) \/ CloseConn(k) \/ ServerReadTimesOut(k)
                         \/ ServerHeartbeatFails(k) \/ Cut(k)
    \/ Restart \/ ServerStops
    \/ \E n \in Names : UserRequest(n) \/ RivalTakes(n) \/ RivalLeaves(n)

Spec == Init /\ [][Next]_vars

(* Goroutines are scheduled, timers end, a broken connection is noticed    *)
(* (Heartbeats), a stopped server is restarted, and a dial that keeps      *)
(* being possible succeeds.  Users, faults and other clients owe nothing.  *)
FairSpec ==
    /\ Spec
    /\ WF_vars(MainStep) /\ WF_vars(ReaderStep) /\ WF_vars(Answer)
    /\ WF_vars(Restart)
    /\ \A k \in Conns : WF_vars(SessionStep(k)) /\ WF_vars(CloseConn(k))

-----------------------------------------------------------------------------
(* Properties                                                              *)

(* The client's view: it was told a name on the connection it has.         *)
Open == Running /\ told

(* While the client believes its tunnel is open and its connection is up,  *)
(* its name is routed to that connection: neither a rival, nor the end of  *)
(* an older connection that had the same name, by whichever goroutine,     *)
(* takes it away.  Only the server's close of this very tunnel does, for   *)
(* as long as the connection outlives its entry ("closing").               *)
OpenIsRouted ==
    Open /\ link[conn] = "up" => clients[subdomain] = conn

(* The tunnel keeps its name: see ReconnectingTunnel.                      *)
Tunnel == INSTANCE ReconnectingTunnel WITH
    phase <- IF ~Running THEN "closed" ELSE IF Open THEN "open" ELSE "opening",
    name <- subdomain
KeepsItsName == Tunnel!Spec

(* When the faults end, a client that has not ended gets its tunnel back   *)
(* and keeps it, whatever it and the server were doing at the time: the    *)
(* restart of a server that stopped on a nil tunnel included.              *)
TunnelComesBack == <>[](~Running \/ Open)

(* However a client ended, its tunnels are taken off the server, those it  *)
(* asked for in its last moments too; but for one whose TUNNEL_CREATED     *)
(* could not be written, which no goroutine of the server knows.           *)
EndedClientsLeave ==
    ~Running ~> \A n \in Names :
        clients[n] \in Conns => session[clients[n]] = "unanswered"
=============================================================================
