--------------------------- MODULE TunnelRegistry ---------------------------
(***************************************************************************)
(* The tunnel registry of the mmar server (internal/server/main.go): how   *)
(* connections of mmar clients create, reclaim and close tunnels, and the  *)
(* three tables that record them: MmarServer.clients, .tunnelsPerIP and    *)
(* AuthManager.tunnelsPerKey.                                              *)
(*                                                                         *)
(* Every accepted connection has one goroutine that reads it (role         *)
(* "reader": processTunnelMessages) and at most one at a time that may     *)
(* close the tunnel behind the reader's back (role "async": the heartbeat  *)
(* timer's callback, or a response goroutine).  Only newClientTunnel takes *)
(* ms.mu; closeClientTunnel and the reads of ms.clients do not.  One       *)
(* action is one access to a shared table.                                 *)
(***************************************************************************)
EXTENDS AuthManager, GoSlice, FiniteSets

CONSTANTS Conns,               \* connections the server serves at a time
          Reuse,               \* may later connections take an ended one's place?
          IPs, ipOf,           \* client address of each connection
          Names,               \* strings clients ask for as a subdomain
          ValidNames,          \* those isValidSubdomainName accepts
          RandomIds,           \* strings GenerateRandomID may return
          NoConn,
          AuthEnabled,         \* ms.authManager # nil
          MaxTunnelsPerIP,     \* constants.MAX_TUNNELS_PER_IP
          Requests,            \* CREATE_TUNNEL / RECLAIM_TUNNEL messages
          Repeaters,           \* connections that may ask again when they have a tunnel
          Faults               \* which of AllFaults can happen

NoName == Zero                 \* no custom name: ""

AllFaults == {"asyncClose",    \* a heartbeat write fails, or a response is cut
              "replyWrite",    \* the TUNNEL_CREATED message cannot be sent
              "idCollision"}   \* GenerateRandomID returns a name in use

ASSUME RegistryAssumption ==
    /\ ipOf \in [Conns -> IPs]
    /\ NoConn \notin Conns
    /\ NoName \notin Names \cup RandomIds
    /\ ValidNames \subseteq Names
    /\ TunnelIds = Names \cup RandomIds
    /\ AuthEnabled \in BOOLEAN /\ Reuse \in BOOLEAN
    /\ MaxTunnelsPerIP \in Nat \ {0}
    /\ Requests \subseteq [kind  : {"CREATE", "RECLAIM"},
                           name  : Names \cup {NoName},
                           token : Tokens \cup {NoToken}]
    /\ Repeaters \subseteq Conns
    /\ Faults \subseteq AllFaults

Reader(c) == <<c, "reader">>
Async(c)  == <<c, "async">>
Procs     == Conns \X {"reader", "async"}
ConnOf(p) == p[1]

VARIABLES
    down,          \* why the server process is down, or "no"
    lock,          \* holder of ms.mu
    clients,       \* ms.clients: the connection a subdomain is routed to
    tunnelsPerIP,  \* ms.tunnelsPerIP: a slice header for each address
    heap,          \* backing arrays of those slices
    pc,            \* where each goroutine is
    hdr,           \* its local copy of a tunnelsPerIP slice
    ask,           \* name asked for until it is taken, and ct.authToken
    sub,           \* the subdomain its tunnel got (ct.Id)
    hasTunnel,     \* the reader's ct # nil, and no call that will replace it
    chanClosed,    \* drainChannels has closed the tunnel's channels
    conn,          \* the TCP connection, as this end sees it
    again,         \* a second tunnel was asked for on it
    stray          \* the replaced tunnel an async goroutine still has, or NoAsk

tables == <<clients, tunnelsPerIP, heap, tunnelsPerKey>>
second == <<again, stray>>
perConn == <<ask, sub, hasTunnel, chanClosed, conn, second>>
vars == <<down, lock, tables, pc, hdr, perConn>>

(* Program points: newClientTunnel, closeClientTunnel, and the rest.       *)
Locked    == {"name", "ipCheck", "addClient", "ipRead", "ipAppend",
              "ipStore", "addKey"}
Creating  == {"auth", "lock"} \cup Locked \cup {"reply"}
Closing   == {"rmClient", "ipGet", "ipDelete", "ipPut", "rmKey",
              "drain", "linger"}
Points    == {"new", "loop", "idle", "fired", "orphan", "ended"}
                 \cup Creating \cup Closing
NoAsk == [name |-> NoName, token |-> NoToken]

Reasons == {"nilOnEOF", "nilOnReclaim", "nilOnHeartbeat", "nilOnResponse",
            "doubleClose", "mapRace", "interrupt"}
Asks    == [name : Names \cup {NoName}, token : Tokens \cup {NoToken}]
Tunnels == [name : TunnelIds \cup {NoName}, token : Tokens \cup {NoToken}]

TypeOK ==
    /\ down \in Reasons \cup {"no"}
    /\ lock \in Conns \cup {NoConn}
    /\ clients \in [TunnelIds -> Conns \cup {NoConn}]
    /\ tunnelsPerIP \in [IPs -> Headers]
    /\ heap \in [Arrays -> Seq(TunnelIds \cup {NoName})]
    /\ AuthTypeOK
    /\ pc \in [Procs -> Points]
    /\ hdr \in [Procs -> Headers]
    /\ ask \in [Conns -> Asks]
    /\ sub \in [Conns -> TunnelIds \cup {NoName}]
    /\ hasTunnel \in [Conns -> BOOLEAN]
    /\ chanClosed \in [Conns -> BOOLEAN]
    /\ conn \in [Conns -> {"none", "open", "writeClosed", "closed"}]
    /\ again \in [Conns -> BOOLEAN]
    /\ stray \in [Conns -> Tunnels]

(* Run: a fresh process has empty tables.                                  *)
Init ==
    /\ down = "no"
    /\ lock = NoConn
    /\ clients = [id \in TunnelIds |-> NoConn]
    /\ tunnelsPerIP = [ip \in IPs |-> EmptySlice]
    /\ heap = [a \in Arrays |-> <<>>]
    /\ NewAuthManager
    /\ pc = [p \in Procs |-> IF p[2] = "reader" THEN "new" ELSE "idle"]
    /\ hdr = [p \in Procs |-> EmptySlice]
    /\ ask = [c \in Conns |-> NoAsk]
    /\ sub = [c \in Conns |-> NoName]
    /\ hasTunnel = [c \in Conns |-> FALSE]
    /\ chanClosed = [c \in Conns |-> FALSE]
    /\ conn = [c \in Conns |-> "none"]
    /\ again = [c \in Conns |-> FALSE]
    /\ stray = [c \in Conns |-> NoAsk]

(* The process dies: an unrecovered panic in any goroutine, a fatal error  *)
(* of the runtime, or an interrupt.  Nothing is persisted.                 *)
Crash(why) ==
    /\ down' = why
    /\ lock' = NoConn
    /\ clients' = [id \in TunnelIds |-> NoConn]
    /\ tunnelsPerIP' = [ip \in IPs |-> EmptySlice]
    /\ heap' = [a \in Arrays |-> <<>>]
    /\ tunnelsPerKey' = [k \in Tokens |-> <<>>]
    /\ pc' = [p \in Procs |-> IF p[2] = "reader" THEN "new" ELSE "idle"]
    /\ hdr' = [p \in Procs |-> EmptySlice]
    /\ ask' = [c \in Conns |-> NoAsk]
    /\ sub' = [c \in Conns |-> NoName]
    /\ hasTunnel' = [c \in Conns |-> FALSE]
    /\ chanClosed' = [c \in Conns |-> FALSE]
    /\ conn' = [c \in Conns |-> "none"]
    /\ again' = [c \in Conns |-> FALSE]
    /\ stray' = [c \in Conns |-> NoAsk]

Up == down = "no"
At(p, point) == Up /\ pc[p] = point
GoTo(p, point) == pc' = [pc EXCEPT ![p] = point]
SetConn(c, state) == conn' = [conn EXCEPT ![c] = state]

-----------------------------------------------------------------------------
(* Accepting a connection, and the messages that concern the registry.     *)

(* Run's accept loop: a new connection, maybe in the place of an old one   *)
(* that ms.clients does not know any more.                                 *)
Accept(c) ==
    /\ Up /\ pc[Async(c)] \in {"idle", "ended"}
    /\ pc[Reader(c)] = "new" \/ (Reuse /\ pc[Reader(c)] = "ended")
    /\ \A id \in TunnelIds : clients[id] # c
    /\ pc' = [pc EXCEPT ![Reader(c)] = "loop", ![Async(c)] = "idle"]
    /\ SetConn(c, "open")
    /\ ask' = [ask EXCEPT ![c] = NoAsk]
    /\ sub' = [sub EXCEPT ![c] = NoName]
    /\ hasTunnel' = [hasTunnel EXCEPT ![c] = FALSE]
    /\ chanClosed' = [chanClosed EXCEPT ![c] = FALSE]
    /\ again' = [again EXCEPT ![c] = FALSE]
    /\ stray' = [stray EXCEPT ![c] = NoAsk]
    /\ UNCHANGED <<down, lock, tables, hdr>>

(* A client may ask again: ct is replaced, and the entries of the tunnel   *)
(* it was stay.  A goroutine that was to close that one still has it.      *)
Current(c) == [name |-> sub[c], token |-> ask[c].token]
Strays(c) ==
    IF ~hasTunnel[c] \/ pc[Async(c)] = "idle" THEN {NoAsk}
    ELSE IF stray[c] = NoAsk THEN {Current(c)}
    ELSE IF pc[Async(c)] = "fired" THEN {stray[c], Current(c)}
    ELSE {stray[c]}

Registered(req) == req.name \in TunnelIds /\ clients[req.name] # NoConn

ReceiveRequest(c, req) ==
    /\ At(Reader(c), "loop") /\ conn[c] = "open"
    /\ hasTunnel[c] => c \in Repeaters
    /\ ~(req.kind = "RECLAIM" /\ Registered(req))
    /\ again' = [again EXCEPT ![c] = @ \/ hasTunnel[c]]
    /\ \E s \in Strays(c) : stray' = [stray EXCEPT ![c] = s]
    /\ ask' = [ask EXCEPT ![c] = [name |-> req.name, token |-> req.token]]
    /\ hasTunnel' = [hasTunnel EXCEPT ![c] = FALSE]
    /\ chanClosed' = [chanClosed EXCEPT ![c] = FALSE]
    /\ GoTo(Reader(c), "auth")
    /\ UNCHANGED <<down, lock, tables, hdr, sub, conn>>

(* A RECLAIM_TUNNEL of a registered name goes to closeClientTunnelOrConn,  *)
(* which closes the tunnel, and dereferences ct: nil on a connection       *)
(* without one.                                                            *)
ReclaimRegistered(c, req) ==
    /\ At(Reader(c), "loop") /\ conn[c] = "open"
    /\ req.kind = "RECLAIM" /\ Registered(req)
    /\ \/ ~hasTunnel[c] /\ Crash("nilOnReclaim")
       \/ /\ hasTunnel[c] /\ c \in Repeaters
          /\ GoTo(Reader(c), "rmClient")
          /\ UNCHANGED <<down, lock, tables, hdr, perConn>>

(* A network error, CLIENT_DISCONNECT, or a heartbeat ack that cannot be   *)
(* sent: the reader closes the tunnel; without one it dereferences nil.    *)
ReceiveCloseRegistered(c) ==                           \* mutant: ct.close only
    /\ At(Reader(c), "loop")
    /\ hasTunnel[c]
    /\ GoTo(Reader(c), "drain")
    /\ UNCHANGED <<down, lock, tables, hdr, perConn>>

ReceiveClose(c) ==
    /\ At(Reader(c), "loop")
    /\ hasTunnel[c]
    /\ GoTo(Reader(c), "rmClient")
    /\ UNCHANGED <<down, lock, tables, hdr, perConn>>

ReceiveCloseNoTunnel(c) ==
    /\ At(Reader(c), "loop") /\ ~hasTunnel[c]
    /\ Crash("nilOnEOF")

(* The answer to a request of an earlier connection, sent by the client    *)
(* on its new one before the reclaim: handleResponseMessages(nil, ...).    *)
ReceiveResponseNoTunnel(c) ==
    /\ At(Reader(c), "loop") /\ ~hasTunnel[c] /\ conn[c] = "open"
    /\ Crash("nilOnResponse")

-----------------------------------------------------------------------------
(* newClientTunnel.  A definition marked "mutant" is a bug this code could *)
(* have had, for the properties to catch; no action uses it.               *)

(* sendErrorAndCloseWrite, and the return of nil that ends the reader.     *)
Reject(c) ==
    /\ SetConn(c, IF conn[c] = "closed" THEN "closed" ELSE "writeClosed")
    /\ GoTo(Reader(c), "ended")

Authorized(token) ==
    IF AuthEnabled THEN ValidateToken(token) /\ ~CheckTunnelLimit(token)
                   ELSE token = NoToken

Authenticate(c) ==
    /\ At(Reader(c), "auth")
    /\ IF Authorized(ask[c].token)
       THEN GoTo(Reader(c), "lock") /\ UNCHANGED conn
       ELSE Reject(c)
    /\ UNCHANGED <<down, lock, tables, hdr, ask, sub, hasTunnel, chanClosed, second>>

AcquireLockUnguarded(c) ==                             \* mutant: no mutex
    /\ At(Reader(c), "lock")
    /\ lock' = c
    /\ GoTo(Reader(c), "name")
    /\ UNCHANGED <<down, tables, hdr, perConn>>

AcquireLock(c) ==
    /\ At(Reader(c), "lock") /\ lock = NoConn
    /\ lock' = c
    /\ GoTo(Reader(c), "name")
    /\ UNCHANGED <<down, tables, hdr, perConn>>

NameNotLookedUp(name) == name \notin ValidNames     \* mutant
NameRefused(name) == name \notin ValidNames \/ clients[name] # NoConn

RefuseNameLocked(c) ==                                 \* mutant: no Unlock
    /\ At(Reader(c), "name")
    /\ ask[c].name # NoName /\ NameRefused(ask[c].name)
    /\ Reject(c)
    /\ UNCHANGED <<down, lock, tables, hdr, ask, sub, hasTunnel, chanClosed, second>>

RefuseName(c) ==
    /\ At(Reader(c), "name")
    /\ ask[c].name # NoName /\ NameRefused(ask[c].name)
    /\ lock' = NoConn
    /\ Reject(c)
    /\ UNCHANGED <<down, tables, hdr, ask, sub, hasTunnel, chanClosed, second>>

(* GenerateUniqueSubdomain looks ms.clients up once, for "", before the    *)
(* loop: what GenerateRandomID returns is used without another look.       *)
GeneratedNames ==
    {id \in RandomIds : "idCollision" \in Faults \/ clients[id] = NoConn}

TakeName(c) ==
    /\ At(Reader(c), "name")
    /\ \E id \in IF ask[c].name = NoName THEN GeneratedNames
                 ELSE {n \in {ask[c].name} : ~NameRefused(n)} :
          sub' = [sub EXCEPT ![c] = id]
    /\ ask' = [ask EXCEPT ![c].name = NoName]
    /\ GoTo(Reader(c), "ipCheck")
    /\ UNCHANGED <<down, lock, tables, hdr, hasTunnel, chanClosed, conn, second>>

TunnelLimitedIPLate(ip) == tunnelsPerIP[ip].len > MaxTunnelsPerIP  \* mutant
TunnelLimitedIP(ip) == tunnelsPerIP[ip].len >= MaxTunnelsPerIP

(* At the limit the connection is closed at once, under the lock.          *)
CheckIP(c) ==
    /\ At(Reader(c), "ipCheck")
    /\ IF TunnelLimitedIP(ipOf[c])
       THEN /\ SetConn(c, "closed")
            /\ chanClosed' = [chanClosed EXCEPT ![c] = TRUE]
            /\ lock' = NoConn
            /\ GoTo(Reader(c), "ended")
       ELSE /\ GoTo(Reader(c), "addClient")
            /\ UNCHANGED <<conn, chanClosed, lock>>
    /\ UNCHANGED <<down, tables, hdr, ask, sub, hasTunnel, second>>

AddClient(c) ==
    /\ At(Reader(c), "addClient")
    /\ clients' = [clients EXCEPT ![sub[c]] = c]
    /\ GoTo(Reader(c), "ipRead")
    /\ UNCHANGED <<down, lock, tunnelsPerIP, heap, tunnelsPerKey, hdr, perConn>>

(* ms.tunnelsPerIP[ip] = append(ms.tunnelsPerIP[ip], sub): read the header,*)
(* write the element, store the new header.                                *)
ReadIP(c) ==
    /\ At(Reader(c), "ipRead")
    /\ hdr' = [hdr EXCEPT ![Reader(c)] = tunnelsPerIP[ipOf[c]]]
    /\ GoTo(Reader(c), "ipAppend")
    /\ UNCHANGED <<down, lock, tables, perConn>>

InUse == {0} \cup {tunnelsPerIP[ip].arr : ip \in IPs} \cup {hdr[p].arr : p \in Procs}
FreshArrays == {a \in Arrays \ InUse : \A b \in Arrays \ InUse : a <= b}

AppendIP(c) ==
    LET s == hdr[Reader(c)] IN
    /\ At(Reader(c), "ipAppend")
    /\ \E fresh \in FreshArrays :
         /\ heap' = AppendHeap(heap, s, sub[c], fresh)
         /\ hdr' = [hdr EXCEPT ![Reader(c)] = AppendHeader(heap, s, fresh)]
    /\ GoTo(Reader(c), "ipStore")
    /\ UNCHANGED <<down, lock, clients, tunnelsPerIP, tunnelsPerKey, perConn>>

(* Store a local header into the map; the local copy is dead afterwards.   *)
StoreHeader(p) ==
    /\ tunnelsPerIP' = [tunnelsPerIP EXCEPT ![ipOf[ConnOf(p)]] = hdr[p]]
    /\ hdr' = [hdr EXCEPT ![p] = EmptySlice]
    /\ heap' = Collect(heap, {tunnelsPerIP'[ip].arr : ip \in IPs}
                               \cup {hdr'[q].arr : q \in Procs})

StoreIP(c) ==
    /\ At(Reader(c), "ipStore")
    /\ StoreHeader(Reader(c))
    /\ GoTo(Reader(c), "addKey")
    /\ UNCHANGED <<down, lock, clients, tunnelsPerKey, perConn>>

AddKey(c) ==
    /\ At(Reader(c), "addKey")
    /\ IF AuthEnabled /\ ask[c].token # NoToken
       THEN AddTunnel(ask[c].token, sub[c])
       ELSE UNCHANGED tunnelsPerKey
    /\ lock' = NoConn
    /\ GoTo(Reader(c), "reply")
    /\ UNCHANGED <<down, clients, tunnelsPerIP, heap, hdr, perConn>>

Reply(c) ==
    /\ At(Reader(c), "reply") /\ conn[c] # "closed"
    /\ hasTunnel' = [hasTunnel EXCEPT ![c] = TRUE]
    /\ GoTo(Reader(c), "loop")
    /\ UNCHANGED <<down, lock, tables, hdr, ask, sub, chanClosed, conn, second>>

(* The reply cannot be sent: nil, err, and the reader returns.             *)
ReplyFailsClosing(c) ==                                \* mutant: closes, keeps the entry
    /\ At(Reader(c), "reply") /\ "replyWrite" \in Faults
    /\ Reject(c)
    /\ UNCHANGED <<down, lock, tables, hdr, ask, sub, hasTunnel, chanClosed, second>>

ReplyFails(c) ==
    /\ At(Reader(c), "reply") /\ ("replyWrite" \in Faults \/ conn[c] = "closed")
    /\ GoTo(Reader(c), "orphan")
    /\ UNCHANGED <<down, lock, tables, hdr, perConn>>

-----------------------------------------------------------------------------
(* The goroutine behind the reader's back: the callback of the heartbeat   *)
(* timer, or handleResponseMessages, that ends without closing or closes.  *)

AsyncStarts(c) ==
    /\ At(Reader(c), "loop") /\ pc[Async(c)] = "idle" /\ "asyncClose" \in Faults
    /\ GoTo(Async(c), "fired")
    /\ UNCHANGED <<down, lock, tables, hdr, perConn>>

NoStray(c) == stray' = [stray EXCEPT ![c] = NoAsk]

AsyncEnds(c) ==
    /\ At(Async(c), "fired")
    /\ GoTo(Async(c), "idle") /\ NoStray(c)
    /\ UNCHANGED <<down, lock, tables, hdr, ask, sub, hasTunnel, chanClosed, conn, again>>

(* The callback closes the tunnel that ct is, a response goroutine the one *)
(* that ct was when the response came.                                     *)
AsyncCloses(c) ==
    /\ At(Async(c), "fired") /\ hasTunnel[c]
    /\ GoTo(Async(c), "rmClient") /\ NoStray(c)
    /\ UNCHANGED <<down, lock, tables, hdr, ask, sub, hasTunnel, chanClosed, conn, again>>

AsyncClosesStray(c) ==
    /\ At(Async(c), "fired") /\ stray[c] # NoAsk
    /\ GoTo(Async(c), "rmClient")
    /\ UNCHANGED <<down, lock, tables, hdr, perConn>>

(* While newClientTunnel runs for another tunnel, ct is still the old one. *)
AsyncClosesNoTunnel(c) ==
    /\ At(Async(c), "fired") /\ ~hasTunnel[c]
    /\ pc[Reader(c)] \in Creating => stray[c] = NoAsk
    /\ Crash("nilOnHeartbeat")

-----------------------------------------------------------------------------
(* closeClientTunnel, by either goroutine and without ms.mu                *)

Stray(p)    == p = Async(ConnOf(p)) /\ stray[ConnOf(p)] # NoAsk
TunnelOf(p) == IF Stray(p) THEN stray[ConnOf(p)] ELSE Current(ConnOf(p))

RemoveClient(p) ==
    /\ At(p, "rmClient")
    /\ clients' = [clients EXCEPT ![TunnelOf(p).name] = NoConn]
    /\ GoTo(p, "ipGet")
    /\ UNCHANGED <<down, lock, tunnelsPerIP, heap, tunnelsPerKey, hdr, perConn>>

GetIP(p) ==
    /\ At(p, "ipGet")
    /\ hdr' = [hdr EXCEPT ![p] = tunnelsPerIP[ipOf[ConnOf(p)]]]
    /\ GoTo(p, "ipDelete")
    /\ UNCHANGED <<down, lock, tables, perConn>>

DeleteIPUnchecked(p) ==                                \* mutant: index -1 not tested
    /\ At(p, "ipDelete")
    /\ hdr' = [hdr EXCEPT ![p] = DeleteHeader(@)]
    /\ GoTo(p, "ipPut")
    /\ UNCHANGED <<down, lock, tables, perConn>>

DeleteIP(p) ==
    LET s == hdr[p]
        found == Positions(heap, s, TunnelOf(p).name) IN
    /\ At(p, "ipDelete")
    /\ IF found # {}
       THEN /\ heap' = DeleteHeap(heap, s, Min(found))
            /\ hdr' = [hdr EXCEPT ![p] = DeleteHeader(s)]
            /\ GoTo(p, "ipPut")
       ELSE /\ hdr' = [hdr EXCEPT ![p] = EmptySlice]
            /\ heap' = Collect(heap, {tunnelsPerIP[ip].arr : ip \in IPs}
                                       \cup {hdr'[q].arr : q \in Procs})
            /\ GoTo(p, "rmKey")
    /\ UNCHANGED <<down, lock, clients, tunnelsPerIP, tunnelsPerKey, perConn>>

PutIPUnstored(p) ==                                    \* mutant: result dropped
    /\ At(p, "ipPut")
    /\ hdr' = [hdr EXCEPT ![p] = EmptySlice]
    /\ GoTo(p, "rmKey")
    /\ UNCHANGED <<down, lock, tables, perConn>>

PutIP(p) ==
    /\ At(p, "ipPut")
    /\ StoreHeader(p)
    /\ GoTo(p, "rmKey")
    /\ UNCHANGED <<down, lock, clients, tunnelsPerKey, perConn>>

RemoveKey(p) ==
    LET t == TunnelOf(p) IN
    /\ At(p, "rmKey")
    /\ IF AuthEnabled /\ t.token # NoToken
       THEN RemoveTunnel(t.token, t.name)
       ELSE UNCHANGED tunnelsPerKey
    /\ GoTo(p, "drain")
    /\ UNCHANGED <<down, lock, clients, tunnelsPerIP, heap, hdr, perConn>>

(* drainChannels: closing a closed channel panics.  Nobody else closes     *)
(* those of a replaced tunnel.                                             *)
DrainChannels(p) ==
    /\ At(p, "drain") /\ (Stray(p) \/ ~chanClosed[ConnOf(p)])
    /\ chanClosed' = [chanClosed EXCEPT ![ConnOf(p)] = @ \/ ~Stray(p)]
    /\ GoTo(p, "linger")
    /\ UNCHANGED <<down, lock, tables, hdr, ask, sub, hasTunnel, conn, second>>

DrainClosedChannels(p) ==
    /\ At(p, "drain") /\ ~Stray(p) /\ chanClosed[ConnOf(p)]
    /\ Crash("doubleClose")

(* The connection is that of the tunnel which has replaced it, too.        *)
CloseConn(p) ==
    /\ At(p, "linger")
    /\ SetConn(ConnOf(p), "closed")
    /\ GoTo(p, IF Stray(p) THEN "idle" ELSE "ended")
    /\ IF Stray(p) THEN NoStray(ConnOf(p)) ELSE UNCHANGED stray
    /\ UNCHANGED <<down, lock, tables, hdr, ask, sub, hasTunnel, chanClosed, again>>

-----------------------------------------------------------------------------
(* Go's maps are not safe for concurrent use: the runtime may stop the     *)
(* process when a write meets another access.  ServeHTTP and the stats     *)
(* handler read ms.clients at any time.                                    *)
WritesIPs(p) == \/ pc[p] \in {"ipStore", "ipPut"}
                \/ pc[p] = "ipCheck" /\ tunnelsPerIP[ipOf[ConnOf(p)]] = EmptySlice
UsesIPs(p)   == pc[p] \in {"ipCheck", "ipRead", "ipStore", "ipGet", "ipPut"}

MapRace ==
    /\ Up
    /\ \/ \E p \in Procs : pc[p] \in {"addClient", "rmClient"}
       \/ \E p, q \in Procs : p # q /\ WritesIPs(p) /\ UsesIPs(q)
    /\ Crash("mapRace")

Shutdown == Up /\ Crash("interrupt")

Restart ==
    /\ ~Up
    /\ down' = "no"
    /\ UNCHANGED <<lock, tables, pc, hdr, perConn>>

-----------------------------------------------------------------------------
Create(c) ==
    \/ Authenticate(c) \/ AcquireLock(c) \/ RefuseName(c) \/ TakeName(c)
    \/ CheckIP(c) \/ AddClient(c) \/ ReadIP(c) \/ AppendIP(c) \/ StoreIP(c)
    \/ AddKey(c) \/ Reply(c) \/ ReplyFails(c)

Close(p) ==
    \/ RemoveClient(p) \/ GetIP(p) \/ DeleteIP(p) \/ PutIP(p) \/ RemoveKey(p)
    \/ DrainChannels(p) \/ DrainClosedChannels(p) \/ CloseConn(p)

Receive(c) ==
    \/ Accept(c)
    \/ \E req \in Requests : ReceiveRequest(c, req) \/ ReclaimRegistered(c, req)
    \/ ReceiveClose(c) \/ ReceiveCloseNoTunnel(c) \/ ReceiveResponseNoTunnel(c)

Asynchronous(c) ==
    \/ AsyncStarts(c) \/ AsyncEnds(c)
    \/ AsyncCloses(c) \/ AsyncClosesStray(c) \/ AsyncClosesNoTunnel(c)

Next ==
    \/ \E c \in Conns : Receive(c) \/ Create(c) \/ Asynchronous(c)
    \/ \E p \in Procs : Close(p)
    \/ MapRace \/ Shutdown \/ Restart

Spec == Init /\ [][Next]_vars

(* Goroutines that can run do run, and sync.Mutex does not starve a waiter *)
(* (it hands the lock over after a millisecond).  Nothing is promised of   *)
(* clients, timers or the network.                                         *)
Fairness ==
    /\ \A c \in Conns : WF_vars(Create(c)) /\ SF_vars(AcquireLock(c))
    /\ \A p \in Procs : WF_vars(Close(p))

FairSpec == Spec /\ Fairness

-----------------------------------------------------------------------------
(* What the code guarantees.                                               *)

(* TunnelLimitedIP and append are two accesses, closeClientTunnel shrinks  *)
(* the list in between and without the lock: whatever they interleave to,  *)
(* the list recorded for an address never outgrows the limit.              *)
IpListBounded == \A ip \in IPs : tunnelsPerIP[ip].len <= MaxTunnelsPerIP

(* closeClientTunnel removes the entry before it closes the connection:    *)
(* ServeHTTP never finds a tunnel whose connection the server has closed,  *)
(* unless a second tunnel was asked for on it: then the close of one, or   *)
(* the refusal of the other, takes the connection from both.               *)
RoutedConnOpen ==
    \A id \in TunnelIds :
        clients[id] # NoConn /\ ~again[clients[id]] => conn[clients[id]] = "open"

(* The check that a subdomain is free and the write that takes it are one  *)
(* critical section: no step hands a routed subdomain to another tunnel.   *)
NoTakeover ==
    [][\A id \in TunnelIds :
          clients[id] # NoConn => clients'[id] \in {clients[id], NoConn}]_vars

(* A tunnel that its client still uses stays routed, however the unlocked  *)
(* closes of other tunnels interleave with it.                             *)
EstablishedRoutable ==
    \A c \in Conns : hasTunnel[c] /\ pc[Reader(c)] = "loop" => clients[sub[c]] = c

(* A token is charged once for each tunnel between AddTunnel and           *)
(* RemoveTunnel, also when a name is taken again, with the same token,     *)
(* before the close of its last tunnel gets to RemoveTunnel.               *)
ChargedPoints == {"reply", "orphan", "rmClient", "ipGet", "ipDelete", "ipPut", "rmKey"}
Charged(c, token) ==
    /\ AuthEnabled /\ ask[c].token = token
    /\ pc[Reader(c)] \in ChargedPoints \/ (pc[Reader(c)] = "loop" /\ hasTunnel[c])
TokenSlotsExact ==
    \A k \in Tokens :
        Len(tunnelsPerKey[k]) = Cardinality({c \in Conns : Charged(c, k)})

(* The list of an address that only one connection uses is exactly its     *)
(* tunnel's name while the tunnel is up, and empty once the connection is  *)
(* gone, though the lists of all addresses share the heap's arrays.        *)
IpSlotsExact ==
    \A c \in Conns :
        LET s == tunnelsPerIP[ipOf[c]] IN
        (\A d \in Conns \ {c} : ipOf[d] # ipOf[c]) =>
            /\ pc[Reader(c)] \in {"new", "ended"} => s.len = 0
            /\ hasTunnel[c] /\ pc[Reader(c)] = "loop" =>
                   s.len = 1 /\ Elements(heap, s) = {sub[c]}

(* Every request for a tunnel is decided and every close that the reader   *)
(* starts is carried out: no early return keeps ms.mu, and no call waits   *)
(* for ever on what other goroutines do.                                   *)
Busy(c) == pc[Reader(c)] \in Creating \cup Closing
EveryCallReturns == \A c \in Conns : Busy(c) ~> ~Busy(c)

(* The registry implements the ownership of subdomains it promises.  A     *)
(* connection that asks for a second tunnel gives up the first as far as   *)
(* the promise goes, and none is made for what it gets then.               *)
Owners ==
    [id \in TunnelIds |->
        IF clients[id] # NoConn /\ again[clients[id]] THEN NoConn ELSE clients[id]]
Owner == INSTANCE TunnelOwnership
             WITH Names <- TunnelIds, Nobody <- NoConn, owner <- Owners,
                  open <- {c \in Conns : conn[c] = "open"}
OwnerSpec == Owner!Spec
=============================================================================
