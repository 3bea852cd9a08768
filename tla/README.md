# Verification of mmar

mmar exposes an HTTP server on somebody's machine under a public subdomain. A **server**
(`internal/server`) accepts TCP connections of **clients** (`internal/client`); each connection may
become a *tunnel* with a subdomain, and an HTTP request for that subdomain is sent through the
tunnel, answered by the client's local server, and the answer is sent back. This directory holds
TLA+ models of that program, TLC configurations that check them and TLAPS proofs about them.

## 1. The system

| Component | State it keeps | Operations | Source |
|---|---|---|---|
| Tunnel registry | `ms.clients` (subdomain to tunnel), `ms.tunnelsPerIP` (address to list of subdomains), `ms.mu`; per connection the reader's `ct`, `ct.Id`, `ct.authToken`, two channels, the socket | accept, create, reclaim, close, interrupt | `internal/server/main.go` 38-126, 253-469, 538-759 |
| Authentication | `am.apiKeys`, `am.tunnelsPerKey`, `am.mu` | load, validate, check limit, add, remove | `internal/auth/main.go` |
| Request tunnelling | `ct.inflightRequests`, one context and one response channel per request | ServeHTTP, serializeRequest, handleResponseMessages | `internal/server/main.go` 128-136, 176-251, 471-536; `utils.go` |
| Client | `mc.Tunnel.Conn` and its reader, `mc.subdomain`, the context of the shutdown | create, forward a request, heartbeat, reconnect and reclaim, quit | `internal/client/main.go` |
| Heartbeats | a timer per iteration of each reader, the socket's read deadline | fire, stop, time out | `server/main.go` 541-562, `client/main.go` 218-238 |
| Framing | where the buffered reader is in a frame | serialize, deserialize | `internal/protocol/main.go` |
| Names and addresses | none of their own: the keys of `ms.clients` | the data of CREATE_TUNNEL, isValidSubdomainName, ExtractSubdomain, ExtractIP, the printed URL | `server/main.go` 253-281, 575-589, `client/main.go` 357-364, `utils/main.go` 18-32, `logger/main.go` 166-198 |
| Stats page, logger, command line, simulations | none that matters here | | |

How they interact. The accept loop starts one goroutine per connection, the *reader*
(`processTunnelMessages`). It calls `newClientTunnel` and `closeClientTunnel`, starts one goroutine
per response (`handleResponseMessages`) and one timer per iteration (the heartbeat). The timer's
callback and a response goroutine may themselves call `closeClientTunnel`. Each HTTP request is a
goroutine of net/http that reads `ms.clients`, starts a `serializeRequest` goroutine, stores itself
in the tunnel's table and waits for its context or its response channel. The client starts one
goroutine per REQUEST message. All communication between the two programs is one TCP connection per
tunnel; within the server it is the shared maps, channels and contexts.

What is hard:

- `newClientTunnel` holds `ms.mu`; `closeClientTunnel`, `ServeHTTP` and the check of a RECLAIM
  message do not, and all of them use the same maps. The slices in `tunnelsPerIP` share backing
  arrays, which `append` and `slices.Delete` write in place.
- The token limit is checked before `ms.mu` is taken and charged within it.
- A tunnel can be closed by three kinds of goroutine, without a test whether it is closed already. Its
  entry goes at once, its connection only after a grace period.
- A connection may ask for a second tunnel: `ct` is replaced, and nobody closes the first.
- `ct` is nil until the first tunnel of a connection exists, and several handlers use it before.
- A request ends by an answer, an error, a timer or its user, in any order and at the same time.
- Nothing is persisted: a panic, a fatal runtime error or an interrupt loses every table.
- The client replaces its connection while its heartbeat and its request goroutines write to it, and
  several of its writes end the process when they fail.
- Both ends decide by time alone that the other is gone: a timer, a callback that `Stop` does not
  wait for, and a deadline that the callback sets and the loop clears.
- The client may notice a dead connection before the server does (5 s against 8 s): its new
  connection then meets its own old tunnel.
- Frames of many goroutines share a byte stream; the server reads on after a frame it refuses.
- A name is stored as it was typed, and looked up in lower case.

What makes each part correct. *Registry*: a subdomain is routed to one open connection and passes on
only after a release (for connections that ask for one tunnel); an established tunnel stays routed;
the limits hold; every creation is decided. *Authentication*: a token is charged once per tunnel.
*Requests*: a user gets the answer, with the headers, of his own request; the table holds only
requests that wait; nobody waits for ever. *Client*: it keeps its name over all reconnections, what
it believes to be open is routed to it until the server closes it, and the tunnel comes back when
faults end. *Heartbeats*: a dead end is noticed in bounded time, a live one is kept. *Framing*:
messages arrive whole, once and in order. *Names*: what is registered is a label, and the URL
printed leads to the tunnel. `PROJECT.json` lists the hazards, each with its line and the properties
that would catch it, or a note that says why none does: mostly because the code does go wrong there,
and section 5 shows it.

## 2. Modules

    GoSlice       AuthManager
         \         /
       TunnelRegistry ---refines---> TunnelOwnership
             |
      TunnelRegistryInv
        /            \
    MCTunnelRegistry  TunnelRegistryProofs (uses GoSliceTheorems)
                              |
                      TunnelRegistrySafety

    RequestTunnel                                MCRequestTunnel, RequestTunnelProofs
    Reconnection  ---refines---> ReconnectingTunnel   MCReconnection, ReconnectionProofs
    Heartbeats                                   MCHeartbeats, HeartbeatsProofs
    Framing       ---refines---> MessageChannel  MCFraming, FramingProofs
    Subdomains                                   MCSubdomains, SubdomainsProofs

### TunnelRegistry, with AuthManager and GoSlice

One action is one access to a shared table, or one stretch of code that touches only what belongs to
its goroutine. `pc[<<c, "reader">>]` is where the reader of connection `c` is, `pc[<<c, "async">>]`
where the goroutine that may close its tunnel behind its back is.

| Code | Model |
|---|---|
| `handleTcpConnection` | `Accept` |
| CREATE_TUNNEL / RECLAIM_TUNNEL | `ReceiveRequest`, then `Authenticate`, `AcquireLock`, `RefuseName` or `TakeName`, `CheckIP`, `AddClient`, `ReadIP`, `AppendIP`, `StoreIP`, `AddKey`, `Reply` or `ReplyFails` |
| RECLAIM_TUNNEL of a registered name | `ReclaimRegistered` |
| read error, CLIENT_DISCONNECT, failed ack | `ReceiveClose`, without a tunnel `ReceiveCloseNoTunnel` |
| RESPONSE before the reclaim | `ReceiveResponseNoTunnel` |
| a second such message when the connection has a tunnel | the same actions: `ReceiveRequest` sets `again`, `Strays` is the tunnel a goroutine still has in its hands |
| heartbeat callback, truncated response | `AsyncStarts`, `AsyncEnds`, `AsyncCloses`, `AsyncClosesStray`, `AsyncClosesNoTunnel` |
| `closeClientTunnel` | `RemoveClient`, `GetIP`, `DeleteIP`, `PutIP`, `RemoveKey`, `DrainChannels` or `DrainClosedChannels`, `CloseConn` |
| a panic in any goroutine, an interrupt, a fatal map race | `Crash(why)`; `Restart` is a new process |
| `ms.tunnelsPerIP[ip] = append(...)` | a header `[arr, len]` read, an array written in `heap`, the header stored |

`GoSlice` keeps backing arrays apart from headers, because that is where the unlocked close bites:
two headers of one array may have different lengths. `AuthManager` methods are atomic, as `am.mu`
makes them. Go's map race is modelled by `MapRace`: when an access may meet a write the runtime may
stop the process. If it does not, the accesses happen in some order.

`Repeaters` are the connections that may ask for a tunnel again when they have one. The mmar client
does so in one case: it is cut off before it has written CREATE_TUNNEL, and writes it after a reclaim
(EarlyCut, section 5). Then `ct` is replaced and the entries of the first tunnel stay, with no reader
that would close it, on a connection that the end of the second tunnel, its refusal or the limit
closes. So `RoutedConnOpen` and `OwnerSpec` except a connection from its second request on (`again`),
and SecondTunnel.cfg shows why; they, and every other property, hold of the connections beside it.

Abstractions. A name is a model value, valid or not. There is one asynchronous closer per connection
at a time. A connection with an entry in `ms.clients` is not used again for another in the model. A
slice header is read and written in one step (a torn header is not modelled). The branch of
`closeClientTunnelOrConn` that calls `closeTunnel` is not reachable: a non-nil `ct` always has a name,
and a nil one panics before.

### TunnelOwnership

What the registry promises, on its own: `owner` and `open`, with the steps open, claim, release,
close, crash. `TunnelRegistry` maps `owner` to `clients` and `open` to the connections it has not
shut, and implements it (`OwnerSpec`), unless a generated name collides with one in use. A connection
that has asked for a second tunnel owns nothing in the mapping (`Owners`).

### RequestTunnel

One tunnel and a set of HTTP requests. Per request: `handler` (ServeHTTP), `serializer`, `timer` (a
callback of the chunk timer that has started), `cause` (the first `cancel` wins), `answer` (what the
user got). Per tunnel: `inflight` (the table), `toClient`, `atClient`, `toServer`, `responders` (the
response goroutines), `link` (the connection), `tunnel` ("up", "closing" in the grace period,
"closed") and `reading` (whether the reader is in its loop).

| Code | Model |
|---|---|
| ServeHTTP | `Arrive`, `NotSerialized` or `Serialized`, `Store`, `Send`, then `Deliver` or `AwaitCancelled` and `DeleteInflight` |
| `serializeRequest`, `cancelRead` | `BodyRead`, `ChunkTimerFires`, `CancelRead` |
| the client's reader, `handleRequestMessage`, shutdown | `ClientReads`, `ClientAnswers`, `ClientQuits` |
| the server's reader | `ReadMessage`, `ReaderCloses`, `ReaderClosesAgain` |
| `handleResponseMessages` | `Lookup`, `Parse` or `ParseCloses`, `SetHeaders`, `Deliver` or `DeliverCancelled` |
| `ClientTunnel.close` | `GracePeriodEnds` |
| two goroutines in one header map | `HeaderRace` |

The contents of a response are one of four `Results`, the outcomes `handleResponseMessages` tells
apart. The heartbeat's close is not repeated here: it is one more goroutine that closes, as in
`ParseCloses`, and TunnelRegistry has it. A lost connection ends the model's tunnel: a reclaimed one
is a new `ClientTunnel` with a new, empty table.

### Reconnection

One client over the life of its connections, with the server as far as the client depends on it:
where TunnelRegistry has many clients and every step of the server, this module has one client with
every step, and a server that handles a message in one step, stops and is restarted. Closing a
tunnel is two steps: its entry goes at once and `link` becomes "closing", the connection goes
(`CloseConn`) when the grace period ends; meanwhile the client holds a tunnel for open that is
routed nowhere. Other clients are names they hold (`Rival`). Connections are FIFO queues of frames
in both directions; a broken one delivers some prefix of what was on its way, and a write to it
fails or goes unnoticed, as TCP has it.

| Code | Model |
|---|---|
| `Run` | `SendCreate`, `Interrupt`, `Leave` |
| `ProcessTunnelMessages` | `ReceiveCreated`, `ReceiveRefusal`, `ReceiveRequest`, `ReceiveHeartbeat`, `ReadFails`, `ReadTimesOut`; the callback is `HeartbeatFails` |
| `reconnectTunnel` | `StopDialling`, `Dial`, `SendReclaim` |
| the end of `handleRequestMessage` | `Answer`: to the connection there is then, not the one the request came from (a LATE response) |
| `os.Exit`, `log.Fatal` | `Exit(why)`: every connection of the client is closed |
| `processTunnelMessages` | `ServerReceives`, with `NewClientTunnel`, `ReclaimTunnel`, `HandleResponse`, `CloseClientTunnelOrConn`; `ServerReadFails`, `ServerReadTimesOut` |
| `closeClientTunnel` by a response goroutine (a truncated response) or the heartbeat callback | `CloseBehindReader`: the session is "drained", a second close panics |
| `ClientTunnel.close` | `CloseTunnel`, then `CloseConn` |
| a nil `ct` that is used | `GoDown`, then `Restart` |

`ReconnectingTunnel` is what the user is promised: the tunnel is opening or open, again and again,
always under the first name printed, until it is closed. Abstractions: keys and the refusals of
Authentication are TunnelRegistry's; custom names are valid ones; heartbeats and
their acknowledgements are not followed on their way, since they change nothing: what is kept is that
the write of one may fail, that the client may answer one when nothing else has come, and that a
deadline may run out on a connection that is up (`ReadTimesOut`, `ServerReadTimesOut`, within
`MaxFaults`; Heartbeats has the times). A response that breaks off closes the tunnel if its request is
one of this connection. A connection of the model is used again when neither side
has anything of it left.

### Heartbeats

Both loops with their timers, in ticks. Time passes only when nothing is due, so each goroutine
reacts at once, in every order, and the network takes what it takes: `MinDelay..MaxDelay` for a
heartbeat or its acknowledgement, up to `DataDelay` for a frame with a body, and nothing overtakes
anything on a connection. These are times from end to end: the frames on their way travel side by
side, so the time of one includes what it waits behind the others, and `DataDelay` is to be read
with the queue of bodies in it. A write never blocks, although a peer that reads nothing blocks it
once the socket's buffer is full. It is one connection: a client's callback that sets a deadline for
the connection that has replaced its own is not here. `Receive` is Stop, clearing the deadline and
the next timer; the callback is `TimerFires`, `SendHeartbeat`, `SetDeadline`, which may interleave
with it. `quiet` is a history variable: how long the loop has read nothing. `Die` is a machine that
stops without a word; `ServerCloses` and `ReadsEOF` are an orderly end.

### Framing

The bytes of one direction of a connection. `SendMessage` is one `Conn.Write`, which Go's net package
does under a lock; the kernel takes its bytes in any pieces (`WriteSome`). `ReadVersion`, `ReadType`,
`ReadLength`, `ReadData` are `deserializeMessage`, one byte at a time, in `frame`. After a decoding
error (`Fail`) the server goes on with the next byte; the client exits or dials again. `MessageChannel`
is the promise: the sequence received grows along the sequence sent. A peer of another version is
modelled with this version's frame and another version byte. `Atoi` also takes a sign; no frame here
has one. `NotTakenForOurs` says that no two bytes of such a peer look like a version byte of ours and
a type: the messages it sends before it is refused are CREATE_TUNNEL and RECLAIM_TUNNEL, whose bodies
are names and keys, and HEARTBEAT_FROM_CLIENT, whose body is empty, and the version byte in their type
place is followed by a digit of the length.
`Itoa` and `Atoi` are recursive functions, not operators, so that they can be proved about.

### Subdomains

Strings are sequences of characters over a small alphabet with both cases, a digit, the hyphen, the
bar, the dot and one character that no name may have. A name is followed from the command line
through `CreateData`, `Parse`, `IsValidSubdomainName` into `ms.clients`, and from there through the
printed URL (`UrlHost`) and `ExtractSubdomain` to what `ServeHTTP` finds. `routed` are the tunnels
that `ms.clients` holds for their names: `GenerateUniqueSubdomain` does not look up the name it
returns, so two tunnels may have one generated name, the later one takes the entry of the earlier,
and the first of them to close deletes it. A name that is asked for is looked up, and is nobody
else's. `IsLabel` is the reference definition: what DNS allows a label to be. `Char` is the
alphabet: the theorems hold for any that has the three separators.

### Theorem modules

`GoSliceTheorems` proves what append and delete keep (a header stays within its array, arrays hold
names, what a list holds afterwards). `TunnelRegistryProofs` proves type correctness of the registry,
`TunnelRegistrySafety` its other theorems. `RequestTunnelProofs`, `ReconnectionProofs`,
`HeartbeatsProofs`, `FramingProofs` and `SubdomainsProofs` belong to the module they name.

## 3. What is checked

Run a configuration with `tlc -config X.cfg M`, where M is the MC module of the table. Definitions
with the comment "mutant" are bugs the code could have had; no action uses them. Putting one in the
place of the definition that follows it must make a property fail, which shows that the property
depends on that line of the code.

| Run | Instance | Properties | Bounds and why they are enough |
|---|---|---|---|
| RegistryCreation | 3 connections, two of one address and one of another, limit 2, one valid and one invalid name, two generated, a token listed twice with limits 1 and 2, an unknown token, no faults | `TypeOK`, `EstablishedRoutable`, `TokenSlotsExact`, `NoTakeover`, `IpSlotsExact` | two connections race for the last slot while a third closes; the addresses share `heap`, so arrays are freed and used again |
| RegistryFaults | 2 connections of one address, reused without end, one of which asks for second tunnels, limit 1, two custom names (one created, one reclaimed), asynchronous closes and failed replies | `IpListBounded`, `RoutedConnOpen`, `OwnerSpec`, `EveryCallReturns` | limit 1 and reuse: a close of an earlier tunnel meets the creation of a later one of the same name; the refusals under the lock happen while the other connection waits for it, and while the first tunnel of the same connection is up (with both connections repeating, generated names and keys as well, 2.8 million states show the same safety) |
| Requests | 2 requests, 2 ids, all results, all events but collision | `TypeOK`, `RightAnswer`, `HeadersOfAnswer`, `InflightIsAwaited` | the properties relate a request to the answer of another, two suffice to mix them up |
| RequestsLiveness | 2 requests, users who leave, chunk timers | `EveryRequestAnswered`, `RespondersEnd` | failures of the link are left out: the properties say nothing of a link that is down |
| Reconnect (MCReconnection) | 3 connections at a time, a custom name and two generated ones, limit 2, 2 faults, 1 request, 1 rival | `TypeOK`, `OpenIsRouted`, `KeepsItsName`, `TunnelComesBack`, `EndedClientsLeave` | two faults: the second falls into the recovery from the first. Three connections: an old one the server still holds, one that failed while it reclaimed, and the next. A fault may be a deadline on a live connection, or hit one the server waits to close |
| Heartbeats (MCHeartbeats) | the code's 5, 2 and 3 seconds in ticks of half a second, frames with a body 1 second, 2 on the way | `TypeOK`, `LivePeerKept`, `DeadPeerNoticed` | every phase of each timer against the other's occurs; `LivePeerKept` needs 2 * `DataDelay` < `ReadDeadline`: a heartbeat waits behind one body and its acknowledgement behind another (SlowFrame, section 5) |
| Framing (MCFraming) | 2 writers, 3 messages of 3 kinds, peers of versions 3, 4 and 5 | `TypeOK`, `InStep`, `IsChannel`, `AllArrive` | bodies hold the version byte, the delimiter and a whole frame; a length has two digits; one type byte is the delimiter (10); a message is empty; a version-3 RECLAIM_TUNNEL begins with a 4 in second place; a heartbeat of another version |
| Subdomains (MCSubdomains) | 2 users, every word of up to 3 of 9 characters, some of 4, three keys and none, two generated names, of which both users may get the same | `LabelsOnly`, `AskedNameGiven`, `UrlReachesTunnel`, `StatsApart` | each rule looks at the first, the last or any character, or at the length against `MaxLength` = 3 |
| EarlyDisconnect, HangAfterClose, KeepReconnecting, SlowFrame | the smallest instance that shows it, Reconnect's for KeepReconnecting | one each, violated | see section 5 |

Bounds in the modules: `MaxArrays` (6 arrays cover every header that can be alive in these
instances: one per address and goroutine, and the fresh one), `Reuse` (may a new connection take the
place of one that ended), `Repeaters` (who may ask for a second tunnel), one asynchronous closer per
connection, finite `Reqs` (so the requests run stops, hence `CHECK_DEADLOCK FALSE`). `MaxFaults`
(broken links, late acknowledgements and server stops), `MaxRequests` and `MaxRivals` bound
Reconnection, which ends when its client does (`CHECK_DEADLOCK FALSE`); `MaxMessages` bounds Framing,
`MaxFlight` the data frames on their way in Heartbeats, which never stops and is checked for deadlock:
time can always pass. `Subdomains` never stops either: a tunnel can be created or closed. Symmetry is
used in safety runs only.

Fairness. Registry: weak fairness of each goroutine that is creating or closing; strong fairness of
taking the lock, since `sync.Mutex` hands itself over to a waiter after a millisecond. Requests:
weak fairness of handlers, responders, the two readers and of the end of the grace period; the
client answers what it has read because its HTTP client has a timeout (`DEST_REQUEST_TIMEOUT`); a
body is read or its chunk timer fires (`REQ_BODY_READ_CHUNK_TIMEOUT`). Nothing is assumed of users,
of when connections arrive or fail, or of the heartbeat. Reconnection: weak fairness of the client's
goroutines and of the server's per connection; of `Restart`, because the documented deployment says
`restart: unless-stopped` (README.md:252); of `Dial`, which is tried again every 3 seconds; of
`ReadFails` and `ServerReadFails` on a broken connection, which is what Heartbeats shows
(`DeadPeerNoticed`); and of `CloseConn`, the end of a timer. That a write fails, a deadline runs out
on a live connection or a response breaks off is never assumed. Framing: weak fairness of the reader
and of the kernel that takes written bytes.

## 4. What is proved

Every safety property of the passing runs is also a theorem, for every value of the constants that
the named assumptions allow: any set of connections, addresses, names, tokens, requests, users and
writers, any limit and keys file, any times, messages of any bytes and length, names of any length.
The assumptions are `RegistryAssumption`, `AuthAssumption`, `ArraysAssumption`, `RequestAssumption`,
`ReconnectionAssumption`, `HeartbeatsAssumption`, `FramingAssumption` and `SubdomainsAssumption`; TLC
evaluates each of them in the runs.

| Module | Theorem | Property | Needs |
|---|---|---|---|
| TunnelRegistry | `TypeCorrect` | `TypeOK` | |
| | `IpListNeverOverfull` | `IpListBounded` | |
| | `RoutedConnectionOpen` | `RoutedConnOpen`: for connections that ask for one tunnel, beside others | |
| | `NamesAreNotTakenOver` | `NoTakeover` | no collision of generated names |
| | `EstablishedStaysRouted` | `EstablishedRoutable` | no collision, no asynchronous close |
| | `TokenSlotsAreExact` | `TokenSlotsExact` | no asynchronous close, no second tunnel on a connection |
| | `IpSlotsAreExact` | `IpSlotsExact` | no asynchronous close, no second tunnel on a connection |
| | `ImplementsOwnership` | `OwnerSpec`: the same | no collision |
| RequestTunnel | `TypeCorrect` | `TypeOK` | |
| | `InflightRequestsWait` | `InflightIsAwaited` | |
| | `AnswersAreRight` | `RightAnswer` | no collision of request ids |
| | `HeadersAreOfTheAnswer` | `HeadersOfAnswer` | |
| Reconnection | `TypeCorrect` | `TypeOK` | |
| | `OpenTunnelsAreRouted` | `OpenIsRouted`: until the server begins to close the tunnel | |
| | `TunnelKeepsItsName` | `KeepsItsName` (a refinement) | no connection breaks before CREATE_TUNNEL is written |
| Heartbeats | `DeadPeersAreNoticed` | `DeadPeerNoticed` | |
| | `LivePeersAreKept` | `LivePeerKept` | `MinDelay` is not 0, 2 * `DataDelay` < `ReadDeadline` |
| | `TypeCorrect` | `TypeOK` | `DataDelay` is less than both timeouts |
| Framing | `ReaderInStep` | `InStep` | |
| | `TypeCorrect` | `TypeOK` | `NotTakenForOurs` |
| | `ImplementsChannel` | `IsChannel` (a refinement) | `NotTakenForOurs` |
| | `TextIsNotTakenForOurs` | `NotTakenForOurs` | bodies of other versions without the version byte |
| | `NumberRoundTrip` | Atoi undoes Itoa | |
| Subdomains | `NamesAreLabels` | `LabelsOnly`: names that are asked for are given once | |
| | `AskedNamesAreGiven` | `AskedNameGiven` | |
| | `UrlsReachLowerCaseTunnels` | `UrlReachesTunnel`: of tunnels that have their entry | |
| | `StatsPageApart` | `StatsApart` | |

Where nothing is needed all faults of the module are allowed. No condition is for convenience: without
it TLC finds the property violated. With a collision of names `NoTakeover`, `EstablishedRoutable` and
`OwnerSpec` fail (NameCollision.cfg shows the collision), with one of request ids `RightAnswer`
(RequestIds.cfg). With an asynchronous close a second `RemoveClient` may remove the entry of the next
owner, and the slots of a tunnel are given back while its reader still holds it (DoubleClose.cfg
shows the two closes). A second tunnel on a connection overwrites the name and the token its slots are
given back by. Some statements have a condition inside instead: `RoutedConnOpen` and `OwnerSpec` (no
second tunnel on this connection: SecondTunnel.cfg), `OpenIsRouted` (the connection is not the one of
a tunnel being closed), and `LabelsOnly` and `UrlReachesTunnel` (no other tunnel has the same
generated name). EarlyCut.cfg, StaleDeadline.cfg and SlowFrame.cfg each drop one of the conditions of
`TunnelKeepsItsName` and `LivePeersAreKept`. With frames that take longer than a timeout heartbeats
pile up on the wire, and Heartbeats' `TypeOK` fails.

### The arguments

*Registry.* The inductive invariants are in `TunnelRegistryInv`:

- `TypeInv`: types alone are not inductive, since `AppendIP` indexes an array by a header. `HeapOK`
  says each header fits its array; `NamedOK` that a tunnel which reaches AddTunnel has a name.
- `LockOK`: the lock is held exactly in the critical section. With `IpOK` it carries the limit: what
  `CheckIP` saw stays true up to the store, because the only other writers, the closes, store headers
  they have shortened (`ipPut` headers are below the limit).
- `TunnelOK` and `EntryOK`: which program points a routed connection can be at, if it has asked for one
  tunnel. It is open there, and no goroutine of it is past `RemoveClient`: the entry goes before the
  connection. Whether another connection asks again does not matter: what it overwrites is its own.
- `FreeOK`: between the lookup of a name and the write that takes it the name stays free.
- `OwnOK`: from `AddClient` to `RemoveClient` the entry is the tunnel's own.
- `KeyOK`: the tunnels charged to a token and the places of its list correspond one to one, and each
  place holds its tunnel's name. `RemoveTunnel` deletes the first place with the name, which may be
  that of another tunnel of the same name; the correspondence is then rearranged, and the count is right.
- `SlotsOK`: where the one slot of a connection alone at its address is, on its way into the list and
  out of it. It rests on `ArraysOK`: but for the empty array no two addresses share one, with the
  headers in the goroutines' hands counted, so what one address writes no other reads.

*Requests.* Four steps: types (a handler that sends has drawn an id); the table (an entry belongs to a
handler that waits, and a responder that has taken one with `LoadAndDelete` is alone with it); the ids
(while none is drawn twice, a message carries the id of the request it is of, wherever it is: in
`toClient`, `atClient`, `toServer` or a responder); so a responder finds in the table the request
its message is of. The first two hold with collisions as well, and with them `HeaderInv`: until a
responder that is alone with a request sets its headers there are none, and only it can deliver.

*Client.* `RoutingInv` needs nothing of the faults: every name a TUNNEL_CREATED has brought, or is
about to bring, on a connection that is "up" is routed to that connection, and the close of another
session takes no name from it, by its reader or behind it: a session that reads has the entry of its
name (`OwnerInv`), and one whose tunnel was closed behind its reader panics before it could delete
another's. `IInv` adds that each connection carries one request for a tunnel at most, with the name
the client already has; so every step of the client is one of `ReconnectingTunnel` or a stutter.

*Heartbeats.* `ClockInv`: while the timer runs, it and the silence add up to its time; a callback under
way has stopped the time at exactly that; afterwards the deadline is set, and it and the silence stay
within both times together. A callback of an earlier iteration does no harm, since it can only set the
deadline again. `AnswerInv`: an end with a deadline and a peer that still reads has a frame that comes
before the deadline, or a heartbeat on its way that reaches the peer so early that its answer does.
`FlightInv`: besides the data frames there are one heartbeat, two acknowledgements and one end of the
stream on their way at most; it is carried by the times within which each of them will have been read,
counted from the next heartbeat that may be sent.

*Framing.* The bytes on their way, with those the kernel has not taken yet, are the written frames end
to end from the reader's place on; what the reader holds is the beginning of the frame it is in; so it
reads the next byte of that frame and is never out of step. Of a peer of another version it never gets
past a type byte. That a length survives (`NumberRoundTrip`) is shown without induction: the set of
lengths at which it would not has no least element.

*Names.* The first place of a separator exists, so `Parse` undoes `CreateData` when the name holds no
bar; the name is validated or generated in any case (`NamesInv`); a label has no dot, so
`ExtractSubdomain` gives its lower-case form back from the URL. No name is in `routed` twice, and only
a tunnel of the same name takes another out: none has the same, if the name was asked for.

### Only model-checked

Liveness, which is out of the prover's reach: `EveryCallReturns`, `EveryRequestAnswered`,
`RespondersEnd`, `TunnelComesBack`, `EndedClientsLeave`, `AllArrive`.

## 5. Where the code and its documents disagree

The first four are runs that TLC refutes.

| Configuration | Text | What happens |
|---|---|---|
| EarlyDisconnect | server/main.go:462, "just close the tcp connection" | `ct` is nil, the server panics |
| HangAfterClose | server/main.go:236, context cancelled if the tunnel is closed | waiting requests are not cancelled |
| KeepReconnecting | client/main.go:177, "Keep attempting to reconnect the existing tunnel until successful" | a heartbeat, answer, acknowledgement or reclaim that meets the broken connection ends the client |
| SlowFrame | server/main.go:551-552, no response within the period "means the client has disconnected" | the acknowledgement waits behind a long response; the server drops a live client |

These configurations are refuted too (MCTunnelRegistry unless noted):

| Configuration | Text | What happens |
|---|---|---|
| TokenLimit | README.md:217, a maximum of concurrent tunnels per token | two creations check before either charges |
| IpLimit | README.md:36, 5 tunnels per IP | an unlocked close overwrites the list a creation stored |
| ReplyLeak | README.md:218, counts updated when tunnels are destroyed | a tunnel whose TUNNEL_CREATED cannot be sent stays registered |
| DoubleClose | server/main.go:108, drain to prevent panics | heartbeat callback and reader both close, the second panics |
| CustomName (MCReconnection) | constants/main.go:39, a name is generated only "if not provided" | a client cut off before TUNNEL_CREATED reclaims "" and gets a generated name |
| OpenOnUrl (MCSubdomains) | logger/main.go:170, "A mmar tunnel is now open on" the URL | a name with an upper-case letter is stored as typed and looked up in lower case: its URL leads nowhere, or to the tunnel of the lower-case name |

Variants, and what a property above needs:

- IpLeak (`IpSlotsReleased`) is the lost update of IpLimit the other way round; ReclaimTaken
  (`ReclaimClosesTunnel`) the nil `ct` of a reclaim; NameCollision (`GeneratedNameUnique`) and
  RequestIds (`WaitingIdsUnique`) a lookup in the init statement of a `for`, never repeated;
  FinalResponse (`FinalResponseCompletes`) the goroutine that waits for a final response and is the
  one that would read it.
- StaleDeadline (MCHeartbeats) drops the assumption that an acknowledgement takes longer than the
  callback needs between its two calls: the deadline is then set after the loop has cleared it, and
  `LivePeerKept` fails.
- EarlyCut (MCReconnection) allows the connection to break before `Run` has written CREATE_TUNNEL: the
  reader reconnects first and both a RECLAIM_TUNNEL and a CREATE_TUNNEL go out on the new connection,
  which gets two tunnels, and `KeepsItsName` fails.
- SecondTunnel (`EveryRoutedConnOpen`) is what the server makes of two such messages: the second asks
  for a name that is refused, `newClientTunnel` half-closes the connection and the reader returns, and
  the first name stays routed to it, with nobody to close it.

Two sequences of Reconnect stop the server and the properties hold over its restart. A client notices
a dead connection sooner than the server, reclaims a name that is still registered, and
`closeClientTunnelOrConn` dereferences a nil `ct`. A request goroutine answers on the new connection
before the reclaim is written, and `handleResponseMessages` does the same.

## 6. Not modelled, and the plan

Not modelled because they change no state that matters: the stats page and its credentials (a read of
`ms.clients` and a comparison of hashes), the logger but for the URL, the command line, the
simulations (the repository's end-to-end tests). The client's HTTP client and its DNS and TLS options
are abstracted to the outcomes of a request. Torn reads of a two-word interface or a three-word slice
header are left out. The limit message is written under `ms.mu`: a peer that reads nothing holds the
lock for as long as its socket buffer is full; buffers are not modelled. A request that the client
cannot parse ends it (`client/main.go` 126-137); the server serialised it, so it can.

Planned, in this order:

1. A serializer that finishes after its handler has given up, with the channel nobody receives from.
2. `IpSlotsExact` and `TokenSlotsExact` with asynchronous closes and second tunnels, as bounds instead
   of equalities: by how much the counts may be off after so many of them.
3. A connection that the client replaces under its heartbeat callback, in Heartbeats.
4. Socket buffers: writes that block, under `ms.mu` (the limit message) and in the heartbeat callback.
