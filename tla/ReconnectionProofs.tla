------------------------ MODULE ReconnectionProofs ------------------------
(***************************************************************************)
(* A client over the life of its connections, for every number of          *)
(* connections, names, requests and faults. Two inductive invariants:      *)
(*   - RoutingInv, which needs nothing of the faults: a session's name is  *)
(*     routed to its own connection, so the close of another session takes *)
(*     no name from the client's; and every name TUNNEL_CREATED has        *)
(*     brought, or is about to, is routed to the connection it came on;    *)
(*   - IInv, for connections that do not break before CREATE_TUNNEL is     *)
(*     written: each connection carries one request for a tunnel at most,  *)
(*     with the name the client already has, and so all TUNNEL_CREATED     *)
(*     bring one name.                                                     *)
(* The first gives OpenIsRouted, the second the refinement of              *)
(* ReconnectingTunnel. Without its condition the second is false: a client *)
(* that reclaims before it creates gets two names (EarlyCut.cfg).          *)
(***************************************************************************)
EXTENDS Reconnection, FiniteSetTheorems, SequenceTheorems, TLAPS

(* The places of the messages of one type in a queue.                      *)
Places(s, t) == {i \in DOMAIN s : s[i].type = t}

(* The names TUNNEL_CREATED brings.                                        *)
Created(s) == {s[i].name : i \in Places(s, "CREATED")}

(* The requests for a tunnel in a queue to the server, the names they ask  *)
(* for, and that there is one at most.                                     *)
Makers(s) == Places(s, "CREATE") \cup Places(s, "RECLAIM")
Asked(s)  == {s[i].name : i \in Makers(s)}
AsksOnce(s) == \A i, j \in Makers(s) : i = j

(* The requests of users on their way to the client.                       *)
Waiting(s) == Cardinality(Places(s, "REQUEST"))

(* A goroutine that answers, and a request on its way, is of a user's      *)
(* request: what bounds the goroutines.                                    *)
RequestsInv == answering + Waiting(toClient[conn]) <= requests

TypeInv == TypeOK /\ RequestsInv

(* A client that dials believes in no tunnel.                              *)
DialInv == reader = "dial" => ~told

(* The name of a session is routed to its connection, until a goroutine    *)
(* closes its tunnel.                                                      *)
OwnerInv ==
    \A k \in Conns : session[k] = "reading" /\ ct[k] # NoName => clients[ct[k]] = k

(* Before Run has written CREATE_TUNNEL the server knows the connection,   *)
(* and nothing went over it.                                               *)
BeforeCreateInv ==
    main = "create" =>
        /\ proc = "running" /\ reader = "receive" /\ subdomain = NoName /\ answering = 0
        /\ link[conn] = "up" /\ toServer[conn] = <<>> /\ toClient[conn] = <<>>
        /\ \A k \in Conns : Read(k) => k = conn
        /\ \A n \in Names : clients[n] \notin Conns

(* The client waits for the answer to a request for a tunnel, or is about  *)
(* to make one.                                                            *)
Asking == main = "create" \/ reader = "reclaim" \/ Asked(toServer[conn]) # {}

(* One request at most is on a connection, nothing was created on it       *)
(* before, and it is for the name the client has, if it has one.           *)
AskedOnceInv ==
    /\ AsksOnce(toServer[conn])
    /\ main = "create" \/ reader = "reclaim" => Asked(toServer[conn]) = {}
    /\ Asking => Created(toClient[conn]) = {}
    /\ Asking => ~told
    /\ subdomain # NoName => Asked(toServer[conn]) \subseteq {subdomain}

(* All TUNNEL_CREATED on their way bring one name, that of the client if   *)
(* it has one.                                                             *)
NameInv ==
    /\ Created(toClient[conn]) \subseteq Names
    /\ \A n, o \in Created(toClient[conn]) : n = o
    /\ subdomain # NoName => Created(toClient[conn]) \subseteq {subdomain}
    /\ told => subdomain # NoName

(* The names the client was told, or is about to be told, on its           *)
(* connection are routed to that.                                          *)
RoutedInv ==
    link[conn] = "up" =>
        \A n \in Created(toClient[conn]) \cup (IF told THEN {subdomain} ELSE {}) :
            n \in Names /\ clients[n] = conn

-----------------------------------------------------------------------------
(* Nothing is in an empty queue.                                           *)
LEMMA EmptyQueue ==
    /\ \A t : Places(<<>>, t) = {}
    /\ Created(<<>>) = {} /\ Asked(<<>>) = {} /\ AsksOnce(<<>>) /\ Waiting(<<>>) = 0
<1>1. \A t : Places(<<>>, t) = {}
  BY DEF Places
<1> QED BY <1>1, FS_EmptySet DEF Created, Makers, Asked, AsksOnce, Waiting

(* A message that is appended adds its place, and leaves the others        *)
(* theirs.                                                                 *)
LEMMA PlacesOfAppend ==
    ASSUME NEW M, NEW s \in Seq(M), NEW m \in M, NEW t
    PROVE  /\ Places(Append(s, m), t)
              = Places(s, t) \cup (IF m.type = t THEN {Len(s) + 1} ELSE {})
           /\ \A i \in Places(s, t) : Append(s, m)[i] = s[i]
           /\ Append(s, m)[Len(s) + 1] = m
           /\ Len(s) + 1 \notin Places(s, t)
<1> DEFINE a == Append(s, m)
<1>1. /\ a \in Seq(M) /\ Len(a) = Len(s) + 1 /\ a[Len(s) + 1] = m
      /\ \A i \in 1..Len(s) : a[i] = s[i]
  BY AppendProperties
<1>2. DOMAIN a = 1..(Len(s) + 1) /\ DOMAIN s = 1..Len(s) /\ Len(s) \in Nat
  BY <1>1, LenProperties
<1> HIDE DEF a
<1>3. DOMAIN a = DOMAIN s \cup {Len(s) + 1} /\ Len(s) + 1 \notin DOMAIN s
  BY <1>2
<1>4. Places(a, t) = Places(s, t) \cup (IF m.type = t THEN {Len(s) + 1} ELSE {})
  BY <1>1, <1>2, <1>3 DEF Places
<1> QED BY <1>1, <1>2, <1>3, <1>4 DEF Places, a

(* The rest of a queue has its messages one place further on.              *)
LEMMA PlacesOfTail ==
    ASSUME NEW M, NEW s \in Seq(M), s # <<>>, NEW t
    PROVE  /\ \A i \in Places(Tail(s), t) :
                  i \in Nat \ {0} /\ i + 1 \in Places(s, t) /\ Tail(s)[i] = s[i + 1]
           /\ Head(s) = s[1]
           /\ Head(s).type = t => 1 \in Places(s, t)
<1>1. /\ Tail(s) \in Seq(M) /\ Len(Tail(s)) = Len(s) - 1
      /\ \A i \in 1..Len(Tail(s)) : Tail(s)[i] = s[i + 1]
  BY HeadTailProperties
<1>2. Len(s) \in Nat \ {0} /\ DOMAIN s = 1..Len(s)
  BY EmptySeq, LenProperties
<1>3. DOMAIN Tail(s) = 1..(Len(s) - 1)
  BY <1>1, LenProperties
<1>4. Head(s) = s[1]
  BY <1>2
<1> QED BY <1>1, <1>2, <1>3, <1>4 DEF Places

(* What arrives of a queue that is cut has its messages where they were.   *)
LEMMA PlacesOfPrefix ==
    ASSUME NEW M, NEW s \in Seq(M), NEW p \in Prefixes(s), NEW t
    PROVE  /\ p \in Seq(M)
           /\ Places(p, t) \subseteq Places(s, t)
           /\ \A i \in Places(p, t) : p[i] = s[i]
<1>1. PICK n \in 0..Len(s) : p = SubSeq(s, 1, n)
  BY DEF Prefixes
<1>2. Len(s) \in Nat /\ DOMAIN s = 1..Len(s) /\ \A i \in 1..Len(s) : s[i] \in M
  BY LenProperties
<1>3. /\ p \in Seq(M) /\ Len(p) = IF 1 <= n THEN n - 1 + 1 ELSE 0
      /\ \A i \in 1..(n - 1 + 1) : p[i] = s[1 + i - 1]
  BY <1>1, <1>2, SubSeqProperties
<1>4. DOMAIN p = 1..n /\ \A i \in 1..n : p[i] = s[i]
  BY <1>1, <1>2, <1>3, LenProperties
<1> QED BY <1>1, <1>2, <1>3, <1>4 DEF Places

(* A queue has finitely many messages of a type.                           *)
LEMMA PlacesFinite ==
    ASSUME NEW M, NEW s \in Seq(M), NEW t
    PROVE  IsFiniteSet(Places(s, t)) /\ Cardinality(Places(s, t)) \in Nat
<1>1. DOMAIN s = 1..Len(s) /\ Len(s) \in Nat
  BY LenProperties
<1>2. IsFiniteSet(1..Len(s))
  BY <1>1, FS_Interval
<1>3. Places(s, t) \in SUBSET (1..Len(s))
  BY <1>1 DEF Places
<1> QED BY <1>2, <1>3, FS_Subset, FS_CardinalityType

(* What appending a message adds to the names created and asked for and to *)
(* the waiting requests.                                                   *)
LEMMA AppendMessage ==
    ASSUME NEW M, NEW s \in Seq(M), NEW m \in M
    PROVE  /\ Append(s, m) \in Seq(M)
           /\ Created(Append(s, m))
              = Created(s) \cup (IF m.type = "CREATED" THEN {m.name} ELSE {})
           /\ Asked(Append(s, m))
              = Asked(s) \cup (IF m.type \in {"CREATE", "RECLAIM"} THEN {m.name} ELSE {})
           /\ AsksOnce(s) /\ (Asked(s) = {} \/ m.type \notin {"CREATE", "RECLAIM"})
              => AsksOnce(Append(s, m))
           /\ Waiting(Append(s, m)) = Waiting(s) + (IF m.type = "REQUEST" THEN 1 ELSE 0)
           /\ Waiting(s) \in Nat
<1> DEFINE a == Append(s, m)
<1>1. /\ \A t : Places(a, t) = Places(s, t) \cup (IF m.type = t THEN {Len(s) + 1} ELSE {})
      /\ \A t : \A i \in Places(s, t) : a[i] = s[i]
      /\ a[Len(s) + 1] = m
      /\ \A t : Len(s) + 1 \notin Places(s, t)
  <2>1. ASSUME NEW t
        PROVE  /\ Places(a, t) = Places(s, t) \cup (IF m.type = t THEN {Len(s) + 1} ELSE {})
               /\ \A i \in Places(s, t) : a[i] = s[i]
               /\ a[Len(s) + 1] = m
               /\ Len(s) + 1 \notin Places(s, t)
    BY PlacesOfAppend
  <2> QED BY <2>1, Zenon
<1>2. a \in Seq(M)
  BY AppendProperties
<1> HIDE DEF a
<1>3. Created(a) = Created(s) \cup (IF m.type = "CREATED" THEN {m.name} ELSE {})
  BY <1>1 DEF Created
<1>4. Makers(a) = Makers(s) \cup (IF m.type \in {"CREATE", "RECLAIM"} THEN {Len(s) + 1} ELSE {})
      /\ \A i \in Makers(s) : a[i] = s[i]
  BY <1>1 DEF Makers
<1>5. Asked(a) = Asked(s) \cup (IF m.type \in {"CREATE", "RECLAIM"} THEN {m.name} ELSE {})
  BY <1>1, <1>4 DEF Asked
<1>6. ASSUME AsksOnce(s), Asked(s) = {} \/ m.type \notin {"CREATE", "RECLAIM"}
      PROVE  AsksOnce(a)
  BY <1>4, <1>6 DEF AsksOnce, Asked
<1>7. /\ IsFiniteSet(Places(s, "REQUEST")) /\ Waiting(s) \in Nat
  BY PlacesFinite DEF Waiting
<1>8. Waiting(a) = Waiting(s) + (IF m.type = "REQUEST" THEN 1 ELSE 0)
  <2>1. CASE m.type = "REQUEST"
    <3>1. Places(a, "REQUEST") = Places(s, "REQUEST") \cup {Len(s) + 1}
          /\ Len(s) + 1 \notin Places(s, "REQUEST")
      BY <1>1, <2>1
    <3> QED BY <1>7, <2>1, <3>1, FS_AddElement DEF Waiting
  <2>2. CASE m.type # "REQUEST"
    <3>1. Places(a, "REQUEST") = Places(s, "REQUEST")
      BY <1>1, <2>2
    <3> QED BY <1>7, <2>2, <3>1 DEF Waiting
  <2> QED BY <2>1, <2>2
<1> QED BY <1>2, <1>3, <1>5, <1>6, <1>7, <1>8 DEF a

(* What taking the first message from a queue leaves of them.              *)
LEMMA TailMessages ==
    ASSUME NEW M, NEW s \in Seq(M), s # <<>>
    PROVE  /\ Head(s) \in M /\ Tail(s) \in Seq(M)
           /\ Created(Tail(s)) \subseteq Created(s)
           /\ Head(s).type = "CREATED" => Head(s).name \in Created(s)
           /\ Asked(Tail(s)) \subseteq Asked(s)
           /\ Head(s).type \in {"CREATE", "RECLAIM"} => Head(s).name \in Asked(s)
           /\ AsksOnce(s) => AsksOnce(Tail(s))
           /\ AsksOnce(s) /\ Head(s).type \in {"CREATE", "RECLAIM"} => Asked(Tail(s)) = {}
           /\ Waiting(Tail(s)) + (IF Head(s).type = "REQUEST" THEN 1 ELSE 0) <= Waiting(s)
           /\ Waiting(Tail(s)) \in Nat /\ Waiting(s) \in Nat
           /\ Head(s).type = "REQUEST" => Places(s, "REQUEST") # {}
<1>1. /\ \A t : \A i \in Places(Tail(s), t) :
             i \in Nat \ {0} /\ i + 1 \in Places(s, t) /\ Tail(s)[i] = s[i + 1]
      /\ Head(s) = s[1]
      /\ \A t : Head(s).type = t => 1 \in Places(s, t)
  BY PlacesOfTail
<1>2. Head(s) \in M /\ Tail(s) \in Seq(M)
  BY HeadTailProperties
<1> DEFINE r == Tail(s)
           h == Head(s)
<1> HIDE DEF r, h
<1>3. /\ Created(r) \subseteq Created(s)
      /\ h.type = "CREATED" => h.name \in Created(s)
  <2>1. \A i \in Places(r, "CREATED") : i + 1 \in Places(s, "CREATED") /\ r[i] = s[i + 1]
    BY <1>1 DEF r
  <2>2. h.type = "CREATED" => 1 \in Places(s, "CREATED") /\ h = s[1]
    BY <1>1 DEF h
  <2> QED BY <2>1, <2>2 DEF Created
<1>4. /\ \A i \in Makers(r) : i \in Nat \ {0} /\ i + 1 \in Makers(s) /\ r[i] = s[i + 1]
      /\ h.type \in {"CREATE", "RECLAIM"} => 1 \in Makers(s) /\ h = s[1]
  BY <1>1 DEF Makers, r, h
<1>5. /\ Asked(r) \subseteq Asked(s)
      /\ h.type \in {"CREATE", "RECLAIM"} => h.name \in Asked(s)
  BY <1>4 DEF Asked
<1>6. AsksOnce(s) => AsksOnce(r)
  BY <1>4 DEF AsksOnce
<1>7. ASSUME AsksOnce(s), h.type \in {"CREATE", "RECLAIM"} PROVE Asked(r) = {}
  <2>1. \A i \in Makers(r) : i \in Nat \ {0} /\ i + 1 = 1
    BY <1>4, <1>7 DEF AsksOnce
  <2> QED BY <2>1 DEF Asked
<1>8. /\ Waiting(r) + (IF h.type = "REQUEST" THEN 1 ELSE 0) <= Waiting(s)
      /\ Waiting(r) \in Nat /\ Waiting(s) \in Nat
  <2> DEFINE P == Places(s, "REQUEST")
             Q == Places(r, "REQUEST")
             R == P \ {1}
             f == [i \in Q |-> i + 1]
  <2>1. IsFiniteSet(P) /\ IsFiniteSet(Q) /\ Waiting(r) \in Nat /\ Waiting(s) \in Nat
    BY <1>2, PlacesFinite DEF Waiting, r
  <2>2. IsFiniteSet(R) /\ Cardinality(R) = IF 1 \in P THEN Cardinality(P) - 1 ELSE Cardinality(P)
    BY <2>1, FS_RemoveElement
  <2>3. \A i \in Q : i \in Nat \ {0} /\ i + 1 \in P
    BY <1>1 DEF r
  <2> HIDE DEF P, Q
  <2>4. f \in Injection(Q, R)
    BY <2>3 DEF Injection, IsInjective
  <2>5. Cardinality(Q) <= Cardinality(R)
    BY <2>2, <2>4, FS_Injection
  <2>6. h.type = "REQUEST" => 1 \in P
    BY <1>1 DEF P, h
  <2> QED BY <2>1, <2>2, <2>5, <2>6 DEF Waiting, P, Q
<1>9. h.type = "REQUEST" => Places(s, "REQUEST") # {}
  BY <1>1 DEF h
<1> QED BY <1>2, <1>3, <1>5, <1>6, <1>7, <1>8, <1>9 DEF r, h

(* What cutting a queue leaves of them.                                    *)
LEMMA PrefixMessages ==
    ASSUME NEW M, NEW s \in Seq(M), NEW p \in Prefixes(s)
    PROVE  /\ p \in Seq(M)
           /\ Created(p) \subseteq Created(s) /\ Asked(p) \subseteq Asked(s)
           /\ AsksOnce(s) => AsksOnce(p)
           /\ Waiting(p) <= Waiting(s) /\ Waiting(p) \in Nat /\ Waiting(s) \in Nat
<1>1. /\ p \in Seq(M) /\ \A t : Places(p, t) \subseteq Places(s, t)
      /\ \A t : \A i \in Places(p, t) : p[i] = s[i]
  BY PlacesOfPrefix
<1>2. Created(p) \subseteq Created(s)
  BY <1>1 DEF Created
<1>3. Makers(p) \subseteq Makers(s) /\ \A i \in Makers(p) : p[i] = s[i]
  BY <1>1 DEF Makers
<1>4. Asked(p) \subseteq Asked(s) /\ (AsksOnce(s) => AsksOnce(p))
  BY <1>3 DEF Asked, AsksOnce
<1>5. IsFiniteSet(Places(s, "REQUEST")) /\ Waiting(p) \in Nat /\ Waiting(s) \in Nat
  BY <1>1, PlacesFinite DEF Waiting
<1>6. Waiting(p) <= Waiting(s)
  BY <1>1, <1>5, FS_Subset DEF Waiting
<1> QED BY <1>1, <1>2, <1>4, <1>5, <1>6

-----------------------------------------------------------------------------
(* SendMessage of the client: the queue to the server grows by the         *)
(* message, or stays.                                                      *)
LEMMA SendEffect ==
    ASSUME TypeOK, NEW m \in ToServerMsgs, Send(m)
    PROVE  /\ link' = link /\ toClient' = toClient
           /\ toServer' \in [Conns -> Seq(ToServerMsgs)]
           /\ Asked(toServer'[conn]) \subseteq Asked(toServer[conn])
                  \cup (IF m.type \in {"CREATE", "RECLAIM"} THEN {m.name} ELSE {})
           /\ AsksOnce(toServer[conn])
              /\ (Asked(toServer[conn]) = {} \/ m.type \notin {"CREATE", "RECLAIM"})
              => AsksOnce(toServer'[conn])
<1> DEFINE s == toServer[conn]
<1>1. /\ toServer \in [Conns -> Seq(ToServerMsgs)] /\ conn \in Conns
      /\ s \in Seq(ToServerMsgs)
  BY DEF TypeOK
<1>2. /\ Append(s, m) \in Seq(ToServerMsgs)
      /\ Asked(Append(s, m))
         = Asked(s) \cup (IF m.type \in {"CREATE", "RECLAIM"} THEN {m.name} ELSE {})
      /\ AsksOnce(s) /\ (Asked(s) = {} \/ m.type \notin {"CREATE", "RECLAIM"})
         => AsksOnce(Append(s, m))
  BY <1>1, AppendMessage, Zenon
<1>3. toServer' = toServer \/ toServer' = [toServer EXCEPT ![conn] = Append(s, m)]
  BY DEF Send
<1> HIDE DEF s
<1>4. CASE toServer' = toServer
  BY <1>1, <1>4 DEF Send, s
<1>5. CASE toServer' = [toServer EXCEPT ![conn] = Append(s, m)]
  <2>1. toServer'[conn] = Append(s, m) /\ toServer' \in [Conns -> Seq(ToServerMsgs)]
    BY <1>1, <1>2, <1>5
  <2> QED BY <1>2, <2>1 DEF Send, s
<1> QED BY <1>3, <1>4, <1>5

(* SendMessage of the server: the queue to the client grows by the         *)
(* message, or stays.                                                      *)
LEMMA ReplyEffect ==
    ASSUME TypeOK, NEW k \in Conns, NEW m \in ToClientMsgs, Reply(k, m)
    PROVE  /\ toClient' \in [Conns -> Seq(ToClientMsgs)]
           /\ \A j \in Conns : j # k => toClient'[j] = toClient[j]
           /\ link[k] = "cut" \/ k # conn => toClient' = toClient
           /\ Created(toClient'[k]) \subseteq Created(toClient[k])
                  \cup (IF m.type = "CREATED" THEN {m.name} ELSE {})
           /\ Waiting(toClient'[k]) \in Nat /\ Waiting(toClient[k]) \in Nat
           /\ Waiting(toClient'[k]) <= Waiting(toClient[k])
                                       + (IF m.type = "REQUEST" THEN 1 ELSE 0)
<1> DEFINE s == toClient[k]
<1>1. /\ toClient \in [Conns -> Seq(ToClientMsgs)]
      /\ s \in Seq(ToClientMsgs)
  BY DEF TypeOK
<1>2. /\ Append(s, m) \in Seq(ToClientMsgs)
      /\ Created(Append(s, m))
         = Created(s) \cup (IF m.type = "CREATED" THEN {m.name} ELSE {})
      /\ Waiting(Append(s, m)) = Waiting(s) + (IF m.type = "REQUEST" THEN 1 ELSE 0)
      /\ Waiting(s) \in Nat
  BY <1>1, AppendMessage, Zenon
<1>3. toClient' = IF link[k] # "cut" /\ k = conn THEN [toClient EXCEPT ![k] = Append(s, m)]
                  ELSE toClient
  BY DEF Reply
<1> HIDE DEF s
<1>4. CASE ~(link[k] # "cut" /\ k = conn)
  <2>1. toClient' = toClient
    BY <1>3, <1>4
  <2> QED BY <1>1, <1>2, <2>1 DEF s
<1>5. CASE link[k] # "cut" /\ k = conn
  <2>1. /\ toClient'[k] = Append(s, m) /\ toClient' \in [Conns -> Seq(ToClientMsgs)]
        /\ \A j \in Conns : j # k => toClient'[j] = toClient[j]
    BY <1>1, <1>2, <1>3, <1>5
  <2> QED BY <1>2, <1>5, <2>1 DEF s
<1> QED BY <1>4, <1>5

(* ReceiveMessage of the client takes the first message.                   *)
LEMMA TakeEffect ==
    ASSUME TypeOK, NEW t, Reads(t), Take
    PROVE  /\ Head(toClient[conn]) \in ToClientMsgs
           /\ Head(toClient[conn]).type = t
           /\ toClient' \in [Conns -> Seq(ToClientMsgs)]
           /\ Created(toClient'[conn]) \subseteq Created(toClient[conn])
           /\ t = "CREATED" => Head(toClient[conn]).name \in Created(toClient[conn])
           /\ Waiting(toClient'[conn]) + (IF t = "REQUEST" THEN 1 ELSE 0)
              <= Waiting(toClient[conn])
           /\ Waiting(toClient'[conn]) \in Nat /\ Waiting(toClient[conn]) \in Nat
<1> DEFINE s == toClient[conn]
<1>1. /\ toClient \in [Conns -> Seq(ToClientMsgs)] /\ conn \in Conns
      /\ s \in Seq(ToClientMsgs) /\ s # <<>> /\ Head(s).type = t
      /\ toClient' = [toClient EXCEPT ![conn] = Tail(s)]
  BY DEF TypeOK, Reads, Take
<1>2. /\ Head(s) \in ToClientMsgs /\ Tail(s) \in Seq(ToClientMsgs)
      /\ Created(Tail(s)) \subseteq Created(s)
      /\ Head(s).type = "CREATED" => Head(s).name \in Created(s)
      /\ Waiting(Tail(s)) + (IF Head(s).type = "REQUEST" THEN 1 ELSE 0) <= Waiting(s)
      /\ Waiting(Tail(s)) \in Nat /\ Waiting(s) \in Nat
  BY <1>1, TailMessages, Zenon
<1> HIDE DEF s
<1>3. toClient'[conn] = Tail(s) /\ toClient' \in [Conns -> Seq(ToClientMsgs)]
  BY <1>1, <1>2
<1> QED BY <1>1, <1>2, <1>3 DEF s

(* ReceiveMessage of the server takes the first message; what follows it   *)
(* is lost when nobody reads on.                                           *)
LEMMA ReceiveEffect ==
    ASSUME TypeOK, NEW k \in Conns, toServer[k] # <<>>, NEW b \in BOOLEAN,
           toServer' = [toServer EXCEPT ![k] = IF b THEN Tail(@) ELSE <<>>]
    PROVE  /\ Head(toServer[k]) \in ToServerMsgs
           /\ toServer' \in [Conns -> Seq(ToServerMsgs)]
           /\ \A j \in Conns : j # k => toServer'[j] = toServer[j]
           /\ Asked(toServer'[k]) \subseteq Asked(toServer[k])
           /\ AsksOnce(toServer[k]) => AsksOnce(toServer'[k])
           /\ Head(toServer[k]).type \in {"CREATE", "RECLAIM"} =>
                  /\ Head(toServer[k]).name \in Asked(toServer[k])
                  /\ AsksOnce(toServer[k]) => Asked(toServer'[k]) = {}
<1> DEFINE s == toServer[k]
<1>1. /\ toServer \in [Conns -> Seq(ToServerMsgs)]
      /\ s \in Seq(ToServerMsgs) /\ s # <<>>
      /\ toServer' = [toServer EXCEPT ![k] = IF b THEN Tail(s) ELSE <<>>]
  BY DEF TypeOK
<1>2. /\ Head(s) \in ToServerMsgs /\ Tail(s) \in Seq(ToServerMsgs)
      /\ Asked(Tail(s)) \subseteq Asked(s)
      /\ Head(s).type \in {"CREATE", "RECLAIM"} => Head(s).name \in Asked(s)
      /\ AsksOnce(s) => AsksOnce(Tail(s))
      /\ AsksOnce(s) /\ Head(s).type \in {"CREATE", "RECLAIM"} => Asked(Tail(s)) = {}
  BY <1>1, TailMessages, Zenon
<1> HIDE DEF s
<1>3. CASE b
  <2>1. /\ toServer'[k] = Tail(s) /\ toServer' \in [Conns -> Seq(ToServerMsgs)]
        /\ \A j \in Conns : j # k => toServer'[j] = toServer[j]
    BY <1>1, <1>2, <1>3
  <2> QED BY <1>1, <1>2, <2>1 DEF s
<1>4. CASE ~b
  <2>1. <<>> \in Seq(ToServerMsgs)
    OBVIOUS
  <2>2. /\ toServer'[k] = <<>> /\ toServer' \in [Conns -> Seq(ToServerMsgs)]
        /\ \A j \in Conns : j # k => toServer'[j] = toServer[j]
    BY <1>1, <1>4, <2>1
  <2>3. Asked(toServer'[k]) = {} /\ AsksOnce(toServer'[k])
    BY <2>2, EmptyQueue
  <2> QED BY <1>1, <1>2, <2>2, <2>3 DEF s
<1> QED BY <1>3, <1>4

(* So it does in ServerReceives.                                           *)
LEMMA ReceivesEffect ==
    ASSUME TypeOK, NEW k \in Conns, ServerReceives(k)
    PROVE  /\ Head(toServer[k]) \in ToServerMsgs
           /\ Head(toServer[k]).name \in Names \cup {NoName}
           /\ Process(k, Head(toServer[k]))
           /\ toServer' \in [Conns -> Seq(ToServerMsgs)]
           /\ \A j \in Conns : j # k => toServer'[j] = toServer[j]
           /\ Asked(toServer'[k]) \subseteq Asked(toServer[k])
           /\ AsksOnce(toServer[k]) => AsksOnce(toServer'[k])
           /\ Head(toServer[k]).type \in {"CREATE", "RECLAIM"} =>
                  /\ Head(toServer[k]).name \in Asked(toServer[k])
                  /\ AsksOnce(toServer[k]) => Asked(toServer'[k]) = {}
<1>1. PICK b \in BOOLEAN : toServer' = [toServer EXCEPT ![k] = IF b THEN Tail(@) ELSE <<>>]
  BY Zenon DEF ServerReceives, Read
<1>2. toServer[k] # <<>> /\ Process(k, Head(toServer[k]))
  BY DEF ServerReceives
<1>3. Head(toServer[k]) \in ToServerMsgs
  BY <1>1, <1>2, ReceiveEffect
<1>4. Head(toServer[k]).name \in Names \cup {NoName}
  BY <1>3 DEF ToServerMsgs
<1> QED BY <1>1, <1>2, <1>4, ReceiveEffect

(* A connection that breaks loses messages and brings none.                *)
LEMMA BreakEffect ==
    ASSUME TypeOK, NEW k \in Conns, Break(k)
    PROVE  /\ toServer' \in [Conns -> Seq(ToServerMsgs)]
           /\ toClient' \in [Conns -> Seq(ToClientMsgs)]
           /\ \A j \in Conns :
                  /\ Created(toClient'[j]) \subseteq Created(toClient[j])
                  /\ Waiting(toClient'[j]) <= Waiting(toClient[j])
                  /\ Waiting(toClient'[j]) \in Nat /\ Waiting(toClient[j]) \in Nat
                  /\ Asked(toServer'[j]) \subseteq Asked(toServer[j])
                  /\ AsksOnce(toServer[j]) => AsksOnce(toServer'[j])
<1>1. /\ toServer \in [Conns -> Seq(ToServerMsgs)]
      /\ toClient \in [Conns -> Seq(ToClientMsgs)]
  BY DEF TypeOK
<1>2. PICK s \in Prefixes(toServer[k]), c \in Prefixes(toClient[k]) :
          /\ toServer' = [toServer EXCEPT ![k] = s]
          /\ toClient' = [toClient EXCEPT ![k] = c]
  BY DEF Break
<1>3. /\ s \in Seq(ToServerMsgs) /\ Asked(s) \subseteq Asked(toServer[k])
      /\ AsksOnce(toServer[k]) => AsksOnce(s)
  BY <1>1, PrefixMessages, Zenon
<1>4. /\ c \in Seq(ToClientMsgs) /\ Created(c) \subseteq Created(toClient[k])
      /\ Waiting(c) <= Waiting(toClient[k])
      /\ Waiting(c) \in Nat
  BY <1>1, PrefixMessages, Zenon
<1>5. \A j \in Conns : Waiting(toClient[j]) \in Nat
  BY <1>1, PlacesFinite DEF Waiting
<1>6. ASSUME NEW j \in Conns
      PROVE  /\ Created(toClient'[j]) \subseteq Created(toClient[j])
             /\ Waiting(toClient'[j]) <= Waiting(toClient[j])
             /\ Waiting(toClient'[j]) \in Nat
             /\ Asked(toServer'[j]) \subseteq Asked(toServer[j])
             /\ AsksOnce(toServer[j]) => AsksOnce(toServer'[j])
  <2>1. CASE j = k
    <3>1. toServer'[j] = s /\ toClient'[j] = c
      BY <1>1, <1>2, <2>1
    <3> QED BY <1>3, <1>4, <2>1, <3>1
  <2>2. CASE j # k
    <3>1. toServer'[j] = toServer[j] /\ toClient'[j] = toClient[j]
      BY <1>1, <1>2, <2>2
    <3> QED BY <1>5, <3>1
  <2> QED BY <2>1, <2>2
<1> QED BY <1>1, <1>2, <1>3, <1>4, <1>5, <1>6

-----------------------------------------------------------------------------
USE DEF Running, Read, outside, clientVars, serverVars, netVars, budgets

(* The types hold at the start, and no request is under way.               *)
LEMMA TypeInit == Init => TypeOK /\ RequestsInv
<1> SUFFICES ASSUME Init PROVE TypeOK /\ RequestsInv
  OBVIOUS
<1>1. conn \in Conns
  BY ReconnectionAssumption DEF Init
<1>2. <<>> \in Seq(ToServerMsgs) /\ <<>> \in Seq(ToClientMsgs)
  OBVIOUS
<1>3. TypeOK
  <2>1. 0 \in 0..MaxFaults /\ 0 \in 0..MaxRequests /\ 0 \in 0..MaxRivals
    BY ReconnectionAssumption
  <2>2. /\ link = [k \in Conns |-> IF k = conn THEN "up" ELSE "cut"]
        /\ session = [k \in Conns |-> IF k = conn THEN "reading" ELSE "none"]
    BY DEF Init
  <2>3. /\ link \in [Conns -> {"up", "closing", "cut"}]
        /\ session \in [Conns -> {"none", "reading", "drained", "unanswered"}]
    BY <2>2
  <2>4. /\ toServer \in [Conns -> Seq(ToServerMsgs)] /\ toClient \in [Conns -> Seq(ToClientMsgs)]
        /\ ct \in [Conns -> Names \cup {NoName}]
        /\ clients \in [Names -> Conns \cup {Nobody, Rival}]
    BY <1>2 DEF Init
  <2>5. answering = 0 /\ late = 0 /\ 0 \in 0..0
    BY DEF Init
  <2> QED BY <1>1, <2>1, <2>3, <2>4, <2>5 DEF Init, TypeOK
<1>4. toClient[conn] = <<>> /\ answering = 0 /\ requests = 0
  BY <1>1 DEF Init
<1> QED BY <1>3, <1>4, EmptyQueue DEF RequestsInv

(* The end of the client keeps the types.                                  *)
LEMMA ExitTypes == ASSUME TypeOK, NEW w \in Reasons, Exit(w) PROVE TypeOK'
<1>1. toClient' \in [Conns -> Seq(ToClientMsgs)]
  <2>1. <<>> \in Seq(ToClientMsgs)
    OBVIOUS
  <2> QED BY <2>1 DEF Exit, NoFrames
<1>2. answering' = 0 /\ late' = 0 /\ 0 \in 0..0 /\ 0 \in 0..MaxRequests
  BY ReconnectionAssumption DEF Exit
<1>3. link' \in [Conns -> {"up", "closing", "cut"}]
  BY DEF Exit
<1> QED BY <1>1, <1>2, <1>3 DEF TypeOK, Exit

(* Steps of the client that write keep the types.                          *)
LEMMA SendTypes ==
    ASSUME TypeOK, SendCreate \/ Interrupt \/ SendReclaim \/ Answer
    PROVE  TypeOK'
<1>1. CASE ExitIfSendFails
  BY <1>1, ExitTypes DEF ExitIfSendFails, Reasons
<1>2. CASE SendCreate /\ ~ExitIfSendFails
  <2>1. Msg("CREATE", customName) \in ToServerMsgs
    BY ReconnectionAssumption DEF TypeOK, Msg, ToServerMsgs
  <2>2. Send(Msg("CREATE", customName))
    BY <1>2 DEF SendCreate
  <2>3. toServer' \in [Conns -> Seq(ToServerMsgs)] /\ link' = link /\ toClient' = toClient
    BY <2>1, <2>2, SendEffect
  <2> QED BY <1>2, <2>3 DEF SendCreate, TypeOK
<1>3. CASE Interrupt
  <2>1. Say("DISCONNECT") \in ToServerMsgs
    BY DEF Say, Msg, ToServerMsgs
  <2>2. Send(Say("DISCONNECT"))
    BY <1>3 DEF Interrupt
  <2>3. toServer' \in [Conns -> Seq(ToServerMsgs)] /\ link' = link /\ toClient' = toClient
    BY <2>1, <2>2, SendEffect
  <2> QED BY <1>3, <2>3 DEF Interrupt, TypeOK
<1>4. CASE SendReclaim /\ ~ExitIfSendFails
  <2>1. Msg("RECLAIM", subdomain) \in ToServerMsgs
    BY DEF TypeOK, Msg, ToServerMsgs
  <2>2. Send(Msg("RECLAIM", subdomain))
    BY <1>4 DEF SendReclaim, SendReclaimMsg, ReclaimData
  <2>3. toServer' \in [Conns -> Seq(ToServerMsgs)] /\ link' = link /\ toClient' = toClient
    BY <2>1, <2>2, SendEffect
  <2> QED BY <1>4, <2>3 DEF SendReclaim, Loop, TypeOK
<1>5. CASE Answer /\ ~ExitIfSendFails
  <2>1. Say("RESPONSE") \in ToServerMsgs /\ Say("LATE") \in ToServerMsgs
    BY DEF Say, Msg, ToServerMsgs
  <2>2. Send(Say("RESPONSE")) \/ Send(Say("LATE"))
    BY <1>5 DEF Answer
  <2>3. toServer' \in [Conns -> Seq(ToServerMsgs)] /\ link' = link /\ toClient' = toClient
    BY <2>1, <2>2, SendEffect
  <2>4. answering' \in 0..MaxRequests /\ late' \in 0..answering'
    BY <1>5, ReconnectionAssumption DEF Answer, TypeOK
  <2> QED BY <1>5, <2>3, <2>4 DEF Answer, TypeOK
<1> QED BY <1>1, <1>2, <1>3, <1>4, <1>5 DEF SendCreate, SendReclaim, Answer

(* Steps of the client that read a message keep the types; a goroutine is  *)
(* started for a request that was waiting.                                 *)
LEMMA ReadTypes ==
    ASSUME TypeInv, ReceiveCreated \/ ReceiveRequest \/ ReceiveHeartbeat \/ ReceiveRefusal
    PROVE  TypeOK'
<1> USE DEF TypeInv
<1>1. CASE ReceiveCreated
  <2>1. Head(toClient[conn]) \in ToClientMsgs /\ toClient' \in [Conns -> Seq(ToClientMsgs)]
    BY <1>1, TakeEffect DEF ReceiveCreated
  <2>2. Head(toClient[conn]).name \in Names \cup {NoName}
    BY <2>1 DEF ToClientMsgs
  <2> QED BY <1>1, <2>1, <2>2 DEF ReceiveCreated, Loop, TypeOK
<1>2. CASE ReceiveRequest
  <2>1. /\ toClient' \in [Conns -> Seq(ToClientMsgs)]
        /\ Waiting(toClient'[conn]) + 1 <= Waiting(toClient[conn])
        /\ Waiting(toClient'[conn]) \in Nat /\ Waiting(toClient[conn]) \in Nat
    BY <1>2, TakeEffect DEF ReceiveRequest
  <2>2. answering' = answering + 1
    BY <1>2 DEF ReceiveRequest, StartAnswering
  <2>3. answering \in 0..MaxRequests /\ requests \in 0..MaxRequests
    BY DEF TypeOK
  <2>4. answering' \in 0..MaxRequests /\ late \in 0..answering'
    BY <2>1, <2>2, <2>3, ReconnectionAssumption DEF RequestsInv, TypeOK
  <2> QED BY <1>2, <2>1, <2>4 DEF ReceiveRequest, Loop, TypeOK
<1>3. CASE ReceiveHeartbeat /\ ~ExitIfSendFails
  BY <1>3 DEF ReceiveHeartbeat, Loop, TypeOK
<1>4. CASE ReceiveRefusal
  BY <1>4, ExitTypes DEF ReceiveRefusal, Reasons
<1>5. CASE ExitIfSendFails
  BY <1>5, ExitTypes DEF ExitIfSendFails, Reasons
<1> QED BY <1>1, <1>2, <1>3, <1>4, <1>5

(* reconnectTunnel's dial, with the chosen connection named: it is new,    *)
(* empty and routed to by no name.                                         *)
LEMMA DialEffect ==
    ASSUME TypeOK, Dial
    PROVE  /\ conn' \in Conns /\ conn' # conn /\ reader' = "reclaim"
           /\ \A n \in Names : clients[n] # conn'
           /\ link' = [link EXCEPT ![conn'] = "up"]
           /\ toServer' = [toServer EXCEPT ![conn'] = <<>>]
           /\ toClient' = NoFrames /\ late' = answering
           /\ session' = [session EXCEPT ![conn'] = "reading"]
           /\ ct' = [ct EXCEPT ![conn'] = NoName]
           /\ UNCHANGED <<proc, main, subdomain, told, answering, customName, server,
                          clients, budgets>>
<1> DEFINE u == CHOOSE j \in Conns : Unused(j)
<1>1. u \in Conns /\ Unused(u)
  BY DEF Dial
<1>2. /\ conn' = u /\ link' = [link EXCEPT ![u] = "up"]
      /\ toServer' = [toServer EXCEPT ![u] = <<>>]
      /\ toClient' = NoFrames /\ late' = answering
      /\ session' = [session EXCEPT ![u] = "reading"]
      /\ ct' = [ct EXCEPT ![u] = NoName]
      /\ reader' = "reclaim"
      /\ UNCHANGED <<proc, main, subdomain, told, answering, customName, server,
                     clients, budgets>>
  BY Zenon DEF Dial
<1> HIDE DEF u
<1> QED BY <1>1, <1>2 DEF Unused

(* The other steps of the client keep the types.                           *)
LEMMA ReaderTypes ==
    ASSUME TypeOK, ReadFails \/ ReadTimesOut \/ StopDialling \/ Dial \/ HeartbeatFails \/ Leave
    PROVE  TypeOK'
<1>1. CASE ReadFails
  BY <1>1 DEF ReadFails, Disconnected, TypeOK
<1>2. CASE StopDialling
  BY <1>2 DEF StopDialling, TypeOK
<1>3. CASE Dial
  <2>1. <<>> \in Seq(ToServerMsgs) /\ <<>> \in Seq(ToClientMsgs)
    OBVIOUS
  <2>2. /\ conn' \in Conns /\ reader' = "reclaim"
        /\ link' = [link EXCEPT ![conn'] = "up"]
        /\ toServer' = [toServer EXCEPT ![conn'] = <<>>]
        /\ toClient' = NoFrames /\ late' = answering
        /\ session' = [session EXCEPT ![conn'] = "reading"]
        /\ ct' = [ct EXCEPT ![conn'] = NoName]
        /\ UNCHANGED <<proc, main, subdomain, told, answering, customName, server,
                       clients, budgets>>
    BY <1>3, DialEffect
  <2>3. toClient' \in [Conns -> Seq(ToClientMsgs)] /\ late' \in 0..answering
    BY <2>1, <2>2, ReconnectionAssumption DEF NoFrames, TypeOK
  <2> QED BY <2>1, <2>2, <2>3 DEF TypeOK
<1>4. CASE ReadTimesOut
  <2>1. faults' \in 0..MaxFaults
    BY <1>4, ReconnectionAssumption DEF ReadTimesOut, Fault, TypeOK
  <2> QED BY <1>4, <2>1 DEF ReadTimesOut, Disconnected, TypeOK
<1>5. CASE HeartbeatFails \/ Leave
  BY <1>5, ExitTypes DEF HeartbeatFails, ExitIfSendFails, Leave, Reasons
<1> QED BY <1>1, <1>2, <1>3, <1>4, <1>5

-----------------------------------------------------------------------------
(* The types of what a step of the server changes.                         *)
ServerTypeOK ==
    /\ link \in [Conns -> {"up", "closing", "cut"}]
    /\ toClient \in [Conns -> Seq(ToClientMsgs)]
    /\ server \in {"up", "down"}
    /\ session \in [Conns -> {"none", "reading", "drained", "unanswered"}]
    /\ ct \in [Conns -> Names \cup {NoName}]
    /\ clients \in [Names -> Conns \cup {Nobody, Rival}]

(* A server that stops keeps the types.                                    *)
LEMMA GoDownTypes == ASSUME ServerTypeOK, GoDown PROVE ServerTypeOK'
BY DEF ServerTypeOK, GoDown

(* A goroutine of a connection closes its tunnel: the reader, or another.  *)
Closes(k) == CloseClientTunnelOrConn(k) \/ CloseBehindReader(k)

(* A close stops the server, or takes away the name of a session whose     *)
(* tunnel nobody has closed, while the connection waits for its own close. *)
LEMMA ClosesEffect ==
    ASSUME NEW k \in Conns, Closes(k)
    PROVE  \/ GoDown
           \/ /\ Closable(k)
              /\ clients' = [clients EXCEPT ![ct[k]] = Nobody]
              /\ link' = [link EXCEPT ![k] = IF link[k] = "cut" THEN "cut" ELSE "closing"]
              /\ \/ session' = [session EXCEPT ![k] = "none"] /\ ct' = [ct EXCEPT ![k] = NoName]
                 \/ session' = [session EXCEPT ![k] = "drained"] /\ ct' = ct
              /\ server' = server /\ toClient' = toClient
BY DEF Closes, CloseClientTunnelOrConn, CloseBehindReader, CloseTunnel, EndSession, Unroute

(* So does a close,                                                        *)
LEMMA CloseTypes ==
    ASSUME ServerTypeOK, NEW k \in Conns, Closes(k)
    PROVE  ServerTypeOK'
<1>1. CASE GoDown
  BY <1>1, GoDownTypes
<1>2. CASE ~GoDown
  BY <1>2, ClosesEffect DEF ServerTypeOK
<1> QED BY <1>1, <1>2

(* a refusal,                                                              *)
LEMMA RefuseTypes ==
    ASSUME TypeOK, NEW k \in Conns, NEW l \in [Conns -> {"up", "closing", "cut"}], Refuse(k, l)
    PROVE  ServerTypeOK'
<1>1. Say("REFUSED") \in ToClientMsgs
  BY DEF Say, Msg, ToClientMsgs
<1>2. Reply(k, Say("REFUSED"))
  BY DEF Refuse
<1>3. toClient' \in [Conns -> Seq(ToClientMsgs)]
  BY <1>1, <1>2, ReplyEffect
<1> QED BY <1>3 DEF Refuse, EndSession, ServerTypeOK, TypeOK

(* and AddClient with its reply.                                           *)
LEMMA RegisterTypes ==
    ASSUME TypeOK, NEW k \in Conns, NEW n \in Names, Register(k, n)
    PROVE  ServerTypeOK'
<1>1. clients' \in [Names -> Conns \cup {Nobody, Rival}]
  BY DEF Register, TypeOK
<1>2. CASE /\ ct' = [ct EXCEPT ![k] = n] /\ Reply(k, Msg("CREATED", n))
           /\ session' = [session EXCEPT ![k] = "reading"]
  <2>1. Msg("CREATED", n) \in ToClientMsgs
    BY DEF Msg, ToClientMsgs
  <2>2. toClient' \in [Conns -> Seq(ToClientMsgs)]
    BY <1>2, <2>1, ReplyEffect
  <2> QED BY <1>1, <1>2, <2>2 DEF Register, ServerTypeOK, TypeOK
<1>3. CASE EndSession(k, "unanswered") /\ toClient' = toClient
  BY <1>1, <1>3 DEF Register, EndSession, ServerTypeOK, TypeOK
<1> QED BY <1>2, <1>3 DEF Register

(* newClientTunnel registers a name nobody has, and the one asked for if   *)
(* one was.                                                                *)
LEMMA ChoicesAreFree ==
    ASSUME TypeOK, NEW n \in Names \cup {NoName}, ~Registered(n), NEW u \in Choices(n)
    PROVE  u \in Names /\ clients[u] = Nobody /\ (n # NoName => u = n)
BY ReconnectionAssumption DEF TypeOK, Choices, Registered

(* newClientTunnel keeps the types.                                        *)
LEMMA NewTunnelTypes ==
    ASSUME TypeOK, NEW k \in Conns, NEW n \in Names \cup {NoName}, NewClientTunnel(k, n)
    PROVE  ServerTypeOK'
<1>1. CASE Refuse(k, link)
  BY <1>1, RefuseTypes DEF TypeOK
<1>2. CASE Refuse(k, [link EXCEPT ![k] = "cut"])
  <2>1. [link EXCEPT ![k] = "cut"] \in [Conns -> {"up", "closing", "cut"}]
    BY DEF TypeOK
  <2> QED BY <1>2, <2>1, RefuseTypes
<1>3. ASSUME ~Registered(n), NEW u \in Choices(n), Register(k, u) PROVE ServerTypeOK'
  BY <1>3, ChoicesAreFree, RegisterTypes
<1> QED BY <1>1, <1>2, <1>3 DEF NewClientTunnel

(* The steps of the server about one connection.                           *)
Breaks(k) == ServerReadFails(k) \/ ServerReadTimesOut(k) \/ ServerHeartbeatFails(k)
ServerStep(k) == ServerReceives(k) \/ Breaks(k)

(* A connection that fails, or seems to, has its tunnel closed.            *)
LEMMA BreaksEffect ==
    ASSUME TypeOK, NEW k \in Conns, Breaks(k)
    PROVE  /\ Read(k) /\ Closes(k)
           /\ UNCHANGED <<customName, clientVars, requests, rivals>>
           /\ faults' \in 0..MaxFaults
           /\ toServer' \in [Conns -> Seq(ToServerMsgs)]
           /\ \A j \in Conns : /\ Asked(toServer'[j]) \subseteq Asked(toServer[j])
                               /\ AsksOnce(toServer[j]) => AsksOnce(toServer'[j])
<1>1. /\ Read(k) /\ Closes(k)
      /\ UNCHANGED <<customName, clientVars, requests, rivals>>
  BY DEF Breaks, ServerReadFails, ServerReadTimesOut, ServerHeartbeatFails, Closes
<1>2. faults' \in 0..MaxFaults
  BY ReconnectionAssumption
  DEF Breaks, ServerReadFails, ServerReadTimesOut, ServerHeartbeatFails, Fault, TypeOK
<1>3. CASE toServer' = toServer
  BY <1>1, <1>2, <1>3 DEF TypeOK
<1>4. CASE toServer' = [toServer EXCEPT ![k] = <<>>]
  <2>1. <<>> \in Seq(ToServerMsgs)
    OBVIOUS
  <2>2. /\ toServer'[k] = <<>> /\ toServer' \in [Conns -> Seq(ToServerMsgs)]
        /\ \A j \in Conns : j # k => toServer'[j] = toServer[j]
    BY <1>4, <2>1 DEF TypeOK
  <2>3. Asked(toServer'[k]) = {} /\ AsksOnce(toServer'[k])
    BY <2>2, EmptyQueue
  <2> QED BY <1>1, <1>2, <2>2, <2>3
<1> QED BY <1>3, <1>4 DEF Breaks, ServerReadFails, ServerReadTimesOut, ServerHeartbeatFails

(* Every step of a session keeps the types.                                *)
LEMMA ServerTypes ==
    ASSUME TypeOK, NEW k \in Conns, ServerStep(k)
    PROVE  TypeOK'
<1>1. ServerTypeOK
  BY DEF TypeOK, ServerTypeOK
<1>2. CASE ServerReceives(k)
  <2> DEFINE m == Head(toServer[k])
  <2>1. /\ m.name \in Names \cup {NoName} /\ Process(k, m)
        /\ toServer' \in [Conns -> Seq(ToServerMsgs)]
    BY <1>2, ReceivesEffect
  <2> HIDE DEF m
  <2>2. ServerTypeOK'
    <3>1. CASE NewClientTunnel(k, m.name)
      BY <2>1, <3>1, NewTunnelTypes
    <3>2. CASE Closes(k)
      BY <1>1, <3>2, CloseTypes
    <3>3. CASE GoDown
      BY <1>1, <3>3, GoDownTypes
    <3>4. CASE UNCHANGED <<serverVars, link, toClient>>
      BY <1>1, <3>4 DEF ServerTypeOK
    <3> QED
      BY <2>1, <3>1, <3>2, <3>3, <3>4 DEF Process, ReclaimTunnel, HandleResponse, Closes
  <2> QED BY <1>2, <2>1, <2>2 DEF ServerReceives, TypeOK, ServerTypeOK
<1>3. CASE Breaks(k)
  <2>1. ServerTypeOK'
    BY <1>1, <1>3, BreaksEffect, CloseTypes
  <2> QED BY <1>3, <2>1, BreaksEffect DEF TypeOK, ServerTypeOK
<1> QED BY <1>2, <1>3 DEF ServerStep

(* So do users, rivals, faults and the restart.                            *)
LEMMA WorldTypes ==
    ASSUME TypeOK, Restart \/ ServerStops \/ (\E k \in Conns : Cut(k) \/ CloseConn(k))
                   \/ \E n \in Names : UserRequest(n) \/ RivalTakes(n) \/ RivalLeaves(n)
    PROVE  TypeOK'
<1> USE ReconnectionAssumption
<1>1. CASE Restart
  BY <1>1 DEF Restart, TypeOK
<1>2. CASE ServerStops
  <2>1. ServerTypeOK'
    BY <1>2, GoDownTypes DEF ServerStops, TypeOK, ServerTypeOK
  <2>2. faults' \in 0..MaxFaults
    BY <1>2 DEF ServerStops, Fault, TypeOK
  <2>3. <<>> \in Seq(ToServerMsgs)
    OBVIOUS
  <2> QED BY <1>2, <2>1, <2>2, <2>3 DEF ServerStops, NoFrames, TypeOK, ServerTypeOK
<1>3. ASSUME NEW k \in Conns, Cut(k) \/ CloseConn(k) PROVE TypeOK'
  <2>1. faults' \in 0..MaxFaults
    BY <1>3 DEF Cut, CloseConn, Fault, TypeOK
  <2>2. Break(k)
    BY <1>3 DEF Cut, CloseConn
  <2>3. link' \in [Conns -> {"up", "closing", "cut"}]
    BY <2>2 DEF Break, TypeOK
  <2>4. toServer' \in [Conns -> Seq(ToServerMsgs)] /\ toClient' \in [Conns -> Seq(ToClientMsgs)]
    BY <2>2, BreakEffect
  <2>5. UNCHANGED <<customName, clientVars, serverVars, requests, rivals>>
    BY <1>3 DEF Cut, CloseConn
  <2> QED BY <2>1, <2>3, <2>4, <2>5 DEF TypeOK
<1>4. ASSUME NEW n \in Names, UserRequest(n) PROVE TypeOK'
  <2>1. Say("REQUEST") \in ToClientMsgs
    BY DEF Say, Msg, ToClientMsgs
  <2>2. toClient' \in [Conns -> Seq(ToClientMsgs)]
    BY <1>4, <2>1, ReplyEffect DEF UserRequest
  <2>3. requests' \in 0..MaxRequests
    BY <1>4 DEF UserRequest, TypeOK
  <2> QED BY <1>4, <2>2, <2>3 DEF UserRequest, TypeOK
<1>5. ASSUME NEW n \in Names, RivalTakes(n) PROVE TypeOK'
  <2>1. rivals' \in 0..MaxRivals /\ clients' \in [Names -> Conns \cup {Nobody, Rival}]
    BY <1>5 DEF RivalTakes, TypeOK
  <2> QED BY <1>5, <2>1 DEF RivalTakes, TypeOK
<1>6. ASSUME NEW n \in Names, RivalLeaves(n) PROVE TypeOK'
  BY <1>6 DEF RivalLeaves, TypeOK
<1> QED BY <1>1, <1>2, <1>3, <1>4, <1>5, <1>6

-----------------------------------------------------------------------------
(* A new tunnel takes no name from another: its own was nobody's.          *)
LEMMA OwnerOfRegister ==
    ASSUME TypeOK, OwnerInv, NEW k \in Conns, NEW n \in Names, clients[n] = Nobody,
           Register(k, n)
    PROVE  OwnerInv'
<1> USE ReconnectionAssumption
<1>1. clients' = [clients EXCEPT ![n] = k]
  BY DEF Register
<1>2. CASE ct' = [ct EXCEPT ![k] = n] /\ session' = [session EXCEPT ![k] = "reading"]
  BY <1>1, <1>2 DEF OwnerInv, TypeOK
<1>3. CASE EndSession(k, "unanswered")
  BY <1>1, <1>3 DEF EndSession, OwnerInv, TypeOK
<1> QED BY <1>2, <1>3 DEF Register

(* A server that stops has no session.                                     *)
LEMMA OwnerOfGoDown == ASSUME GoDown PROVE OwnerInv'
BY DEF OwnerInv, GoDown

(* A close takes away the name of its own session only, which no other     *)
(* session has.                                                            *)
LEMMA OwnerOfClose ==
    ASSUME TypeOK, OwnerInv, NEW k \in Conns, Read(k), Closes(k)
    PROVE  OwnerInv'
<1>1. CASE GoDown
  BY <1>1, OwnerOfGoDown
<1>2. CASE ~GoDown
  <2>1. /\ ct[k] # NoName /\ session[k] = "reading"
        /\ clients' = [clients EXCEPT ![ct[k]] = Nobody]
        /\ \/ session' = [session EXCEPT ![k] = "none"] /\ ct' = [ct EXCEPT ![k] = NoName]
           \/ session' = [session EXCEPT ![k] = "drained"] /\ ct' = ct
    BY <1>2, ClosesEffect DEF Closable, TypeOK
  <2>2. clients[ct[k]] = k
    BY <2>1 DEF OwnerInv
  <2>3. ASSUME NEW j \in Conns, session'[j] = "reading", ct'[j] # NoName
        PROVE  clients'[ct'[j]] = j
    <3>1. j # k /\ session[j] = "reading" /\ ct'[j] = ct[j]
      BY <2>1, <2>3 DEF TypeOK
    <3>2. clients[ct[j]] = j
      BY <2>3, <3>1 DEF OwnerInv
    <3> QED BY <2>1, <2>2, <3>1, <3>2 DEF TypeOK
  <2> QED BY <2>3 DEF OwnerInv
<1> QED BY <1>1, <1>2

(* A refusal ends a session and routes nothing.                            *)
LEMMA OwnerOfRefuse ==
    ASSUME TypeOK, OwnerInv, NEW k \in Conns, NEW l, Refuse(k, l) PROVE OwnerInv'
BY DEF TypeOK, OwnerInv, Refuse, EndSession

(* newClientTunnel leaves every session the owner of its name.             *)
LEMMA OwnerOfNewTunnel ==
    ASSUME TypeOK, OwnerInv, NEW k \in Conns, NEW n \in Names \cup {NoName},
           NewClientTunnel(k, n)
    PROVE  OwnerInv'
<1>1. ASSUME ~Registered(n), NEW u \in Choices(n), Register(k, u) PROVE OwnerInv'
  BY <1>1, ChoicesAreFree, OwnerOfRegister
<1> QED BY <1>1, OwnerOfRefuse DEF NewClientTunnel

(* So does every step of a session.                                        *)
LEMMA OwnerOfSession ==
    ASSUME TypeOK, OwnerInv, NEW k \in Conns, ServerStep(k) PROVE OwnerInv'
<1>1. Read(k)
  BY BreaksEffect DEF ServerStep, ServerReceives
<1>2. CASE ServerReceives(k)
  <2> DEFINE m == Head(toServer[k])
  <2>1. m.name \in Names \cup {NoName} /\ Process(k, m)
    BY <1>2, ReceivesEffect
  <2> HIDE DEF m
  <2>2. CASE NewClientTunnel(k, m.name)
    BY <2>1, <2>2, OwnerOfNewTunnel
  <2>3. CASE Closes(k)
    BY <1>1, <2>3, OwnerOfClose
  <2>4. CASE GoDown
    BY <2>4, OwnerOfGoDown
  <2>5. CASE UNCHANGED <<serverVars, link, toClient>>
    BY <2>5 DEF OwnerInv
  <2> QED BY <2>1, <2>2, <2>3, <2>4, <2>5 DEF Process, ReclaimTunnel, HandleResponse, Closes
<1>3. CASE Breaks(k)
  BY <1>1, <1>3, BreaksEffect, OwnerOfClose
<1> QED BY <1>2, <1>3 DEF ServerStep

(* A new session has no name.                                              *)
LEMMA OwnerOfDial == ASSUME TypeOK, OwnerInv, Dial PROVE OwnerInv'
<1>1. /\ conn' \in Conns /\ \A n \in Names : clients[n] # conn'
      /\ session' = [session EXCEPT ![conn'] = "reading"]
      /\ ct' = [ct EXCEPT ![conn'] = NoName]
      /\ clients' = clients
  BY DialEffect
<1> QED BY <1>1 DEF OwnerInv, TypeOK

(* Other clients take free names and leave their own.                      *)
LEMMA OwnerOfRival ==
    ASSUME TypeOK, OwnerInv, NEW n \in Names, RivalTakes(n) \/ RivalLeaves(n) PROVE OwnerInv'
<1>1. clients[n] \notin Conns
  BY ReconnectionAssumption DEF RivalTakes, RivalLeaves
<1>2. session' = session /\ ct' = ct
  BY DEF RivalTakes, RivalLeaves
<1>3. \A o \in Names : o # n => clients'[o] = clients[o]
  BY DEF RivalTakes, RivalLeaves, TypeOK
<1> QED BY <1>1, <1>2, <1>3 DEF OwnerInv, TypeOK

(* The steps of the client that neither ask for a tunnel, nor get one, nor *)
(* dial.                                                                   *)
ClientStepQuiet ==
    \/ Interrupt \/ Answer \/ ReceiveRequest \/ ReceiveHeartbeat \/ ReceiveRefusal
    \/ ReadFails \/ ReadTimesOut \/ StopDialling \/ HeartbeatFails \/ Leave

(* The client writes no state of the server.                               *)
LEMMA ServerApart ==
    ASSUME SendCreate \/ SendReclaim \/ ReceiveCreated \/ ClientStepQuiet
    PROVE  UNCHANGED serverVars
BY DEF SendCreate, SendReclaim, ReceiveCreated, ClientStepQuiet, Interrupt, Answer,
       ReceiveRequest, ReceiveHeartbeat, ReceiveRefusal, ReadFails, ReadTimesOut, Disconnected,
       StopDialling, HeartbeatFails, Leave, ExitIfSendFails, Exit

(* Every step leaves every session the owner of its name.                  *)
LEMMA OwnerStep == ASSUME TypeOK, OwnerInv, [Next]_vars PROVE OwnerInv'
<1>1. CASE SendCreate \/ SendReclaim \/ ReceiveCreated \/ ClientStepQuiet
  BY <1>1, ServerApart DEF OwnerInv
<1>2. CASE Restart
  BY <1>2 DEF Restart, OwnerInv
<1>3. CASE ServerStops
  BY <1>3 DEF ServerStops, GoDown, OwnerInv, TypeOK
<1>4. ASSUME NEW k \in Conns, Cut(k) \/ CloseConn(k) PROVE OwnerInv'
  BY <1>4 DEF Cut, CloseConn, OwnerInv
<1>5. ASSUME NEW n \in Names, UserRequest(n) PROVE OwnerInv'
  BY <1>5 DEF UserRequest, OwnerInv
<1>6. CASE UNCHANGED vars
  BY <1>6 DEF vars, OwnerInv
<1> QED
  BY <1>1, <1>2, <1>3, <1>4, <1>5, <1>6, OwnerOfSession, OwnerOfDial, OwnerOfRival
  DEF Next, MainStep, ReaderStep, SessionStep, ServerStep, Breaks, ClientStepQuiet

-----------------------------------------------------------------------------
(* What the proof of the client's one name rests on, but for the start.    *)
NamesInv == DialInv /\ AskedOnceInv /\ NameInv

(* A step that asks for nothing, is told nothing and dials nothing: queues *)
(* may shrink, connections break, the client lose its tunnel.              *)
Narrowed ==
    /\ conn' = conn /\ subdomain' = subdomain /\ (told' => told)
    /\ Created(toClient'[conn]) \subseteq Created(toClient[conn])
    /\ Asked(toServer'[conn]) \subseteq Asked(toServer[conn])
    /\ AsksOnce(toServer[conn]) => AsksOnce(toServer'[conn])
    /\ main' = "create" => main = "create"
    /\ reader' = "reclaim" => reader = "reclaim"
    /\ reader' = "dial" => ~told'

(* Such a step cannot disturb the names.                                   *)
LEMMA NarrowedNames == ASSUME TypeOK, NamesInv, Narrowed PROVE NamesInv'
<1> USE DEF NamesInv, Narrowed
<1>1. DialInv'
  BY DEF DialInv
<1>2. AskedOnceInv'
  BY DEF AskedOnceInv, Asking
<1>3. NameInv'
  BY DEF NameInv
<1> QED BY <1>1, <1>2, <1>3

(* The end of the client is one.                                           *)
LEMMA ExitNarrows ==
    ASSUME TypeOK, NamesInv, NEW w, Exit(w) PROVE Narrowed
<1>1. toClient'[conn] = <<>>
  BY DEF Exit, NoFrames, TypeOK
<1>2. Created(toClient'[conn]) = {}
  BY <1>1, EmptyQueue
<1> QED BY <1>2 DEF Exit, Narrowed, NamesInv, DialInv, AskedOnceInv

(* The quiet steps of the client are.                                      *)
LEMMA QuietNarrows ==
    ASSUME TypeOK, NamesInv, ClientStepQuiet PROVE Narrowed
<1> USE DEF Narrowed
<1>1. CASE ExitIfSendFails \/ HeartbeatFails \/ Leave \/ ReceiveRefusal
  BY <1>1, ExitNarrows DEF ExitIfSendFails, HeartbeatFails, Leave, ReceiveRefusal
<1>2. CASE Interrupt
  <2>1. Say("DISCONNECT") \in ToServerMsgs /\ Say("DISCONNECT").type = "DISCONNECT"
    BY DEF Say, Msg, ToServerMsgs
  <2>2. Send(Say("DISCONNECT"))
    BY <1>2 DEF Interrupt
  <2>3. /\ link' = link /\ toClient' = toClient
        /\ Asked(toServer'[conn]) \subseteq Asked(toServer[conn])
        /\ AsksOnce(toServer[conn]) => AsksOnce(toServer'[conn])
    BY <2>1, <2>2, SendEffect
  <2> QED BY <1>2, <2>3 DEF Interrupt, NamesInv, DialInv, AskedOnceInv
<1>3. CASE Answer /\ ~ExitIfSendFails
  <2>1. PICK t \in {"RESPONSE", "LATE"} : Send(Say(t))
    BY <1>3 DEF Answer
  <2>2. Say(t) \in ToServerMsgs /\ Say(t).type \notin {"CREATE", "RECLAIM"}
    BY DEF Say, Msg, ToServerMsgs
  <2>3. /\ link' = link /\ toClient' = toClient
        /\ Asked(toServer'[conn]) \subseteq Asked(toServer[conn])
        /\ AsksOnce(toServer[conn]) => AsksOnce(toServer'[conn])
    BY <2>1, <2>2, SendEffect
  <2> QED BY <1>3, <2>3 DEF Answer, NamesInv, DialInv, AskedOnceInv
<1>4. CASE ReceiveRequest
  <2>1. Created(toClient'[conn]) \subseteq Created(toClient[conn])
    BY <1>4, TakeEffect DEF ReceiveRequest
  <2> QED BY <1>4, <2>1 DEF ReceiveRequest, Loop
<1>5. CASE ReceiveHeartbeat /\ ~ExitIfSendFails
  BY <1>5 DEF ReceiveHeartbeat, Loop
<1>6. CASE ReadFails \/ ReadTimesOut
  BY <1>6 DEF ReadFails, ReadTimesOut, Disconnected
<1>7. CASE StopDialling
  BY <1>7 DEF StopDialling, NamesInv, DialInv
<1> QED BY <1>1, <1>2, <1>3, <1>4, <1>5, <1>6, <1>7 DEF ClientStepQuiet, HeartbeatFails

(* RECLAIM_TUNNEL is the first request on its connection, with the name in *)
(* mc.subdomain.                                                           *)
LEMMA NamesOfSendReclaim ==
    ASSUME TypeOK, NamesInv, BeforeCreateInv, SendReclaim, ~ExitIfSendFails PROVE NamesInv'
<1>1. /\ Msg("RECLAIM", subdomain) \in ToServerMsgs
      /\ Msg("RECLAIM", subdomain).name = subdomain
  BY DEF TypeOK, Msg, ToServerMsgs
<1>2. Send(Msg("RECLAIM", subdomain))
  BY DEF SendReclaim, SendReclaimMsg, ReclaimData
<1>3. /\ link' = link /\ toClient' = toClient
      /\ Asked(toServer'[conn]) \subseteq Asked(toServer[conn]) \cup {subdomain}
      /\ AsksOnce(toServer[conn]) /\ Asked(toServer[conn]) = {} => AsksOnce(toServer'[conn])
  BY <1>1, <1>2, SendEffect
<1>4. /\ reader = "reclaim" /\ reader' \in {"receive", "done"}
      /\ UNCHANGED <<proc, main, conn, subdomain, told, session, ct>>
  BY DEF SendReclaim, Loop
<1>5. main # "create"
  BY <1>4 DEF BeforeCreateInv
<1> QED BY <1>3, <1>4, <1>5 DEF NamesInv, DialInv, AskedOnceInv, Asking, NameInv

(* CREATE_TUNNEL is the first request on its connection, by a client       *)
(* without a name.                                                         *)
LEMMA NamesOfSendCreate ==
    ASSUME TypeOK, NamesInv, BeforeCreateInv, SendCreate, ~ExitIfSendFails PROVE NamesInv'
<1>1. /\ Msg("CREATE", customName) \in ToServerMsgs
      /\ Msg("CREATE", customName).name = customName
  BY ReconnectionAssumption DEF TypeOK, Msg, ToServerMsgs
<1>2. Send(Msg("CREATE", customName))
  BY DEF SendCreate
<1>3. /\ link' = link /\ toClient' = toClient
      /\ Asked(toServer'[conn]) \subseteq Asked(toServer[conn]) \cup {customName}
      /\ AsksOnce(toServer[conn]) /\ Asked(toServer[conn]) = {} => AsksOnce(toServer'[conn])
  BY <1>1, <1>2, SendEffect
<1>4. /\ main = "create" /\ main' = "wait"
      /\ UNCHANGED <<proc, reader, conn, subdomain, told, session, ct>>
  BY DEF SendCreate
<1>5. subdomain = NoName /\ reader = "receive"
  BY <1>4 DEF BeforeCreateInv
<1> QED BY <1>3, <1>4, <1>5 DEF NamesInv, DialInv, AskedOnceInv, Asking, NameInv

(* TUNNEL_CREATED comes when no request is open, with the name the client  *)
(* has or its first.                                                       *)
LEMMA NamesOfReceiveCreated ==
    ASSUME TypeOK, NamesInv, ReceiveCreated PROVE NamesInv'
<1> DEFINE n == Head(toClient[conn]).name
<1>1. /\ Created(toClient'[conn]) \subseteq Created(toClient[conn])
      /\ n \in Created(toClient[conn])
  BY TakeEffect DEF ReceiveCreated
<1>2. /\ subdomain' = n /\ told' = TRUE /\ reader = "receive" /\ reader' \in {"receive", "done"}
      /\ UNCHANGED <<proc, main, conn, link, toServer, session, ct>>
  BY DEF ReceiveCreated, Reads, Loop
<1> HIDE DEF n
<1>3. n \in Names /\ n # NoName
  BY <1>1, ReconnectionAssumption DEF NamesInv, NameInv
<1> USE DEF NamesInv
<1>4. DialInv'
  BY <1>2 DEF DialInv
<1>5. ~Asking
  BY <1>1 DEF AskedOnceInv
<1>6. AskedOnceInv'
  BY <1>2, <1>5 DEF AskedOnceInv, Asking
<1>7. NameInv'
  BY <1>1, <1>2, <1>3 DEF NameInv
<1> QED BY <1>4, <1>6, <1>7

(* The new connection is empty.                                            *)
LEMMA NamesOfDial ==
    ASSUME TypeOK, NamesInv, BeforeCreateInv, Dial PROVE NamesInv'
<1>1. /\ conn' \in Conns /\ reader' = "reclaim"
      /\ link' = [link EXCEPT ![conn'] = "up"]
      /\ toServer' = [toServer EXCEPT ![conn'] = <<>>] /\ toClient' = NoFrames
      /\ UNCHANGED <<proc, main, subdomain, told>>
  BY DialEffect
<1>2. reader = "dial"
  BY DEF Dial
<1>3. toServer'[conn'] = <<>> /\ toClient'[conn'] = <<>>
  BY <1>1 DEF NoFrames, TypeOK
<1>4. /\ Created(toClient'[conn']) = {} /\ Asked(toServer'[conn']) = {}
      /\ AsksOnce(toServer'[conn'])
  BY <1>3, EmptyQueue
<1>5. ~told
  BY <1>2 DEF NamesInv, DialInv
<1>6. DialInv'
  BY <1>1, <1>2 DEF NamesInv, DialInv, TypeOK
<1>7. AskedOnceInv'
  BY <1>1, <1>4, <1>5 DEF AskedOnceInv, Asking
<1>8. NameInv'
  BY <1>1, <1>4, <1>5 DEF NameInv
<1> QED BY <1>6, <1>7, <1>8 DEF NamesInv

-----------------------------------------------------------------------------
(* A step of the server on one connection brings no other one up and sends *)
(* nothing on it.                                                          *)
SameElsewhere(k) ==
    /\ \A j \in Conns : link'[j] = "up" => link[j] = "up"
    /\ \A j \in Conns : j # k => toClient'[j] = toClient[j]

(* The names that are routed to the client's connection stay so while that *)
(* is up.                                                                  *)
KeepsRoutes == link'[conn] = "up" => \A n \in Names : clients[n] = conn => clients'[n] = conn

(* A server that stops sends nothing and cuts everything.                  *)
LEMMA GoDownEffect ==
    ASSUME TypeOK, NEW k \in Conns, GoDown
    PROVE  SameElsewhere(k) /\ toClient' = toClient /\ KeepsRoutes
BY DEF GoDown, SameElsewhere, KeepsRoutes, TypeOK

(* A close sends nothing; it takes a name from the client's connection     *)
(* only if that is closed too.                                             *)
LEMMA CloseEffect ==
    ASSUME TypeOK, OwnerInv, NEW k \in Conns, Read(k), Closes(k)
    PROVE  SameElsewhere(k) /\ toClient' = toClient /\ KeepsRoutes
<1>1. CASE GoDown
  BY <1>1, GoDownEffect
<1>2. CASE ~GoDown
  <2>1. /\ ct[k] # NoName /\ session[k] = "reading"
        /\ clients' = [clients EXCEPT ![ct[k]] = Nobody]
        /\ link' = [link EXCEPT ![k] = IF link[k] = "cut" THEN "cut" ELSE "closing"]
        /\ toClient' = toClient
    BY <1>2, ClosesEffect DEF Closable, TypeOK
  <2>2. clients[ct[k]] = k
    BY <2>1 DEF OwnerInv
  <2>3. link'[k] # "up" /\ \A j \in Conns : j # k => link'[j] = link[j]
    BY <2>1 DEF TypeOK
  <2>4. KeepsRoutes
    BY <2>1, <2>2, <2>3 DEF KeepsRoutes, TypeOK
  <2> QED BY <2>1, <2>3, <2>4 DEF SameElsewhere
<1> QED BY <1>1, <1>2

(* A refusal creates nothing and takes no name.                            *)
LEMMA RefuseEffect ==
    ASSUME TypeOK, NEW k \in Conns, NEW l,
           l = link \/ l = [link EXCEPT ![k] = "cut"], Refuse(k, l)
    PROVE  /\ SameElsewhere(k) /\ clients' = clients
           /\ Created(toClient'[k]) \subseteq Created(toClient[k])
<1>1. Say("REFUSED") \in ToClientMsgs /\ Say("REFUSED").type = "REFUSED"
  BY DEF Say, Msg, ToClientMsgs
<1>2. Reply(k, Say("REFUSED"))
  BY DEF Refuse
<1>3. /\ \A j \in Conns : j # k => toClient'[j] = toClient[j]
      /\ Created(toClient'[k]) \subseteq Created(toClient[k])
  BY <1>1, <1>2, ReplyEffect
<1>4. \A j \in Conns : link'[j] = "up" => link[j] = "up"
  BY DEF Refuse, TypeOK
<1> QED BY <1>3, <1>4 DEF Refuse, SameElsewhere

(* AddClient routes the name to the connection TUNNEL_CREATED goes to.     *)
LEMMA RegisterEffect ==
    ASSUME TypeOK, NEW k \in Conns, NEW u \in Names, Register(k, u)
    PROVE  /\ SameElsewhere(k)
           /\ clients' = [clients EXCEPT ![u] = k]
           /\ Created(toClient'[k]) \subseteq Created(toClient[k]) \cup {u}
<1>1. link' = link /\ clients' = [clients EXCEPT ![u] = k]
  BY DEF Register
<1>2. CASE Reply(k, Msg("CREATED", u))
  <2>1. /\ Msg("CREATED", u) \in ToClientMsgs
        /\ Msg("CREATED", u).type = "CREATED" /\ Msg("CREATED", u).name = u
    BY DEF Msg, ToClientMsgs
  <2>2. /\ \A j \in Conns : j # k => toClient'[j] = toClient[j]
        /\ Created(toClient'[k]) \subseteq Created(toClient[k]) \cup {u}
    BY <1>2, <2>1, ReplyEffect
  <2> QED BY <1>1, <2>2 DEF SameElsewhere
<1>3. CASE toClient' = toClient
  BY <1>1, <1>3 DEF SameElsewhere
<1> QED BY <1>2, <1>3 DEF Register

(* newClientTunnel takes no name from a connection; what TUNNEL_CREATED    *)
(* brings is routed, and is the name asked for if one was.                 *)
LEMMA NewTunnelEffect ==
    ASSUME TypeOK, NEW k \in Conns, NEW n \in Names \cup {NoName}, NewClientTunnel(k, n)
    PROVE  /\ SameElsewhere(k) /\ KeepsRoutes
           /\ \/ Created(toClient'[k]) \subseteq Created(toClient[k])
              \/ \E u \in Names :
                     /\ n # NoName => u = n
                     /\ Created(toClient'[k]) \subseteq Created(toClient[k]) \cup {u}
                     /\ clients'[u] = k
<1>1. ASSUME NEW l \in {link, [link EXCEPT ![k] = "cut"]}, Refuse(k, l)
      PROVE  /\ SameElsewhere(k) /\ KeepsRoutes
             /\ Created(toClient'[k]) \subseteq Created(toClient[k])
  BY <1>1, RefuseEffect DEF KeepsRoutes
<1>2. ASSUME ~Registered(n), NEW u \in Choices(n), Register(k, u)
      PROVE  /\ SameElsewhere(k) /\ u \in Names /\ (n # NoName => u = n)
             /\ Created(toClient'[k]) \subseteq Created(toClient[k]) \cup {u}
             /\ clients'[u] = k /\ KeepsRoutes
  <2>1. u \in Names /\ clients[u] = Nobody /\ (n # NoName => u = n)
    BY <1>2, ChoicesAreFree
  <2>2. /\ SameElsewhere(k) /\ clients' = [clients EXCEPT ![u] = k]
        /\ Created(toClient'[k]) \subseteq Created(toClient[k]) \cup {u}
    BY <1>2, <2>1, RegisterEffect
  <2>3. clients'[u] = k /\ KeepsRoutes
    BY <2>1, <2>2, ReconnectionAssumption DEF KeepsRoutes, TypeOK
  <2> QED BY <2>1, <2>2, <2>3
<1>3. CASE Refuse(k, link) \/ Refuse(k, [link EXCEPT ![k] = "cut"])
  BY <1>1, <1>3
<1>4. CASE ~Registered(n) /\ \E u \in Choices(n) : Register(k, u)
  BY <1>2, <1>4
<1> QED BY <1>3, <1>4 DEF NewClientTunnel

(* A step of the server that sends nothing to the client cannot disturb    *)
(* the names.                                                              *)
LEMMA ElsewhereNarrows ==
    ASSUME TypeOK, NamesInv, NEW k \in Conns, SameElsewhere(k),
           k # conn \/ toClient' = toClient,
           UNCHANGED <<conn, subdomain, told, main, reader>>,
           Asked(toServer'[conn]) \subseteq Asked(toServer[conn]),
           AsksOnce(toServer[conn]) => AsksOnce(toServer'[conn])
    PROVE  Narrowed
<1> QED BY DEF TypeOK, SameElsewhere, Narrowed, NamesInv, DialInv, AskedOnceInv

(* What a step of a session does to the connections, the routes and the    *)
(* names on their way.                                                     *)
LEMMA SessionElsewhere ==
    ASSUME TypeOK, OwnerInv, NEW k \in Conns, ServerStep(k)
    PROVE  /\ SameElsewhere(k) /\ KeepsRoutes
           /\ \/ Created(toClient'[k]) \subseteq Created(toClient[k])
              \/ \E u \in Names :
                     /\ Created(toClient'[k]) \subseteq Created(toClient[k]) \cup {u}
                     /\ clients'[u] = k
<1>1. Read(k)
  BY BreaksEffect DEF ServerStep, ServerReceives
<1>2. ASSUME Closes(k) \/ GoDown
      PROVE  SameElsewhere(k) /\ KeepsRoutes /\ toClient' = toClient
  BY <1>1, <1>2, CloseEffect, GoDownEffect
<1>3. CASE ServerReceives(k)
  <2> DEFINE m == Head(toServer[k])
  <2>1. m.name \in Names \cup {NoName} /\ Process(k, m)
    BY <1>3, ReceivesEffect
  <2> HIDE DEF m
  <2>2. CASE UNCHANGED <<serverVars, link, toClient>>
    BY <2>2 DEF SameElsewhere, KeepsRoutes
  <2>3. CASE NewClientTunnel(k, m.name)
    BY <2>1, <2>3, NewTunnelEffect
  <2> QED
    BY <1>2, <2>1, <2>2, <2>3 DEF Process, ReclaimTunnel, HandleResponse, Closes
<1> QED BY <1>2, <1>3, BreaksEffect DEF ServerStep

(* newClientTunnel answers the one request on the client's connection:     *)
(* with the name it was for.                                               *)
LEMMA NamesOfNewTunnel ==
    ASSUME TypeOK, NamesInv, NEW n \in Asked(toServer[conn]), n \in Names \cup {NoName},
           NewClientTunnel(conn, n),
           UNCHANGED <<conn, subdomain, told, main, reader>>,
           Asked(toServer'[conn]) = {}, AsksOnce(toServer'[conn])
    PROVE  NamesInv'
<1> USE DEF NamesInv
<1>1. conn \in Conns
  BY DEF TypeOK
<1>2. Asking /\ ~told /\ Created(toClient[conn]) = {} /\ main # "create" /\ reader # "reclaim"
  BY DEF AskedOnceInv, Asking
<1>3. subdomain # NoName => n = subdomain
  BY DEF AskedOnceInv
<1>4. /\ SameElsewhere(conn)
      /\ \/ Created(toClient'[conn]) \subseteq Created(toClient[conn])
         \/ \E u \in Names :
                /\ n # NoName => u = n
                /\ Created(toClient'[conn]) \subseteq Created(toClient[conn]) \cup {u}
  BY <1>1, NewTunnelEffect
<1>5. DialInv'
  BY <1>1, <1>4 DEF DialInv, SameElsewhere
<1>6. AskedOnceInv'
  BY <1>2 DEF AskedOnceInv, Asking
<1>7. NameInv'
  BY <1>2, <1>3, <1>4 DEF NameInv
<1> QED BY <1>5, <1>6, <1>7

(* No step of a session disturbs the names.                                *)
LEMMA NamesOfSession ==
    ASSUME TypeOK, OwnerInv, NamesInv, NEW k \in Conns, ServerStep(k) PROVE NamesInv'
<1>1. /\ Read(k) /\ conn \in Conns
      /\ UNCHANGED <<conn, subdomain, told, main, reader>>
  BY BreaksEffect DEF ServerStep, ServerReceives, TypeOK
<1>2. CASE Breaks(k)
  <2>1. SameElsewhere(k) /\ toClient' = toClient
    BY <1>1, <1>2, BreaksEffect, CloseEffect
  <2> QED BY <1>1, <1>2, <2>1, BreaksEffect, ElsewhereNarrows, NarrowedNames
<1>3. CASE ServerReceives(k)
  <2> DEFINE m == Head(toServer[k])
  <2>1. /\ m.name \in Names \cup {NoName} /\ Process(k, m)
        /\ \A j \in Conns : j # k => toServer'[j] = toServer[j]
        /\ Asked(toServer'[k]) \subseteq Asked(toServer[k])
        /\ AsksOnce(toServer[k]) => AsksOnce(toServer'[k])
        /\ m.type \in {"CREATE", "RECLAIM"} =>
               m.name \in Asked(toServer[k]) /\ (AsksOnce(toServer[k]) => Asked(toServer'[k]) = {})
    BY <1>3, ReceivesEffect
  <2> HIDE DEF m
  <2>2. ASSUME SameElsewhere(k), k # conn \/ toClient' = toClient PROVE NamesInv'
    BY <1>1, <2>1, <2>2, ElsewhereNarrows, NarrowedNames
  <2>3. ASSUME NewClientTunnel(k, m.name), m.type \in {"CREATE", "RECLAIM"} PROVE NamesInv'
    <3>1. CASE k = conn
      <4>1. /\ m.name \in Asked(toServer[conn])
            /\ Asked(toServer'[conn]) = {} /\ AsksOnce(toServer'[conn])
        BY <2>1, <2>3, <3>1 DEF NamesInv, AskedOnceInv
      <4> QED BY <1>1, <2>1, <2>3, <3>1, <4>1, NamesOfNewTunnel
    <3>2. CASE k # conn
      BY <2>1, <2>2, <2>3, <3>2, NewTunnelEffect
    <3> QED BY <3>1, <3>2
  <2>4. CASE Closes(k)
    BY <1>1, <2>2, <2>4, CloseEffect
  <2>5. CASE GoDown
    BY <2>2, <2>5, GoDownEffect
  <2>6. CASE UNCHANGED <<serverVars, link, toClient>>
    BY <2>2, <2>6 DEF SameElsewhere
  <2> QED
    BY <2>1, <2>3, <2>4, <2>5, <2>6 DEF Process, ReclaimTunnel, HandleResponse, Closes
<1> QED BY <1>2, <1>3 DEF ServerStep

(* Nor does a message of the server that is not TUNNEL_CREATED.            *)
LEMMA ReplyNarrows ==
    ASSUME TypeOK, NamesInv, NEW k \in Conns, NEW m \in ToClientMsgs, m.type # "CREATED",
           Reply(k, m), UNCHANGED <<clientVars, link, session, ct, toServer>>
    PROVE  Narrowed
<1>1. /\ \A j \in Conns : j # k => toClient'[j] = toClient[j]
      /\ Created(toClient'[k]) \subseteq Created(toClient[k])
  BY ReplyEffect
<1>2. Created(toClient'[conn]) \subseteq Created(toClient[conn])
  BY <1>1 DEF TypeOK
<1> QED BY <1>2 DEF Narrowed, NamesInv, DialInv, AskedOnceInv

(* Nor do users, rivals, faults and the restart.                           *)
LEMMA NamesOfWorld ==
    ASSUME TypeOK, NamesInv,
           \/ Restart \/ ServerStops
           \/ \E k \in Conns : Cut(k) \/ CloseConn(k)
           \/ \E n \in Names : UserRequest(n) \/ RivalTakes(n) \/ RivalLeaves(n)
    PROVE  NamesInv'
<1> SUFFICES Narrowed
  BY NarrowedNames
<1>1. conn \in Conns
  BY DEF TypeOK
<1>2. CASE Restart \/ \E n \in Names : RivalTakes(n) \/ RivalLeaves(n)
  BY <1>2 DEF Restart, RivalTakes, RivalLeaves, Narrowed, NamesInv, DialInv, AskedOnceInv
<1>3. CASE ServerStops
  <2>1. SameElsewhere(conn) /\ toClient' = toClient
    BY <1>1, <1>3, GoDownEffect DEF ServerStops
  <2>2. toServer'[conn] = <<>>
    BY <1>1, <1>3 DEF ServerStops, NoFrames
  <2>3. Asked(toServer'[conn]) = {} /\ AsksOnce(toServer'[conn])
    BY <2>2, EmptyQueue
  <2> QED BY <1>1, <1>3, <2>1, <2>3, ElsewhereNarrows DEF ServerStops
<1>4. ASSUME NEW n \in Names, UserRequest(n) PROVE Narrowed
  <2>1. Say("REQUEST") \in ToClientMsgs /\ Say("REQUEST").type # "CREATED"
    BY DEF Say, Msg, ToClientMsgs
  <2> QED BY <1>4, <2>1, ReplyNarrows DEF UserRequest
<1>5. ASSUME NEW k \in Conns, Cut(k) \/ CloseConn(k) PROVE Narrowed
  <2>1. Break(k) /\ UNCHANGED clientVars
    BY <1>5 DEF Cut, CloseConn
  <2>2. /\ Created(toClient'[conn]) \subseteq Created(toClient[conn])
        /\ Asked(toServer'[conn]) \subseteq Asked(toServer[conn])
        /\ AsksOnce(toServer[conn]) => AsksOnce(toServer'[conn])
    BY <1>1, <2>1, BreakEffect
  <2> QED BY <2>1, <2>2 DEF Narrowed, NamesInv, DialInv, AskedOnceInv
<1> QED BY <1>2, <1>3, <1>4, <1>5

(* No step disturbs the names of a client that has asked for its tunnel.   *)
LEMMA NamesStep ==
    ASSUME TypeOK, OwnerInv, NamesInv, BeforeCreateInv, [Next]_vars PROVE NamesInv'
<1>1. CASE ClientStepQuiet
  BY <1>1, QuietNarrows, NarrowedNames
<1>2. CASE ExitIfSendFails
  BY <1>2, ExitNarrows, NarrowedNames DEF ExitIfSendFails
<1>3. CASE UNCHANGED vars
  BY <1>3, NarrowedNames DEF vars, Narrowed, NamesInv, DialInv, AskedOnceInv
<1> QED
  BY <1>1, <1>2, <1>3, NamesOfSendCreate, NamesOfSendReclaim, NamesOfReceiveCreated,
     NamesOfDial, NamesOfSession, NamesOfWorld
  DEF Next, MainStep, ReaderStep, SessionStep, ServerStep, Breaks, ClientStepQuiet

-----------------------------------------------------------------------------
(* No request of a user is added to a queue.                               *)
NoMoreWaiting ==
    \A j \in Conns : /\ Waiting(toClient'[j]) \in Nat
                     /\ Waiting(toClient'[j]) <= Waiting(toClient[j])

(* The requests on their way are a number.                                 *)
LEMMA WaitingType ==
    ASSUME TypeOK
    PROVE  /\ \A j \in Conns : Waiting(toClient[j]) \in Nat
           /\ toClient' = toClient => NoMoreWaiting
<1>1. \A j \in Conns : Waiting(toClient[j]) \in Nat
  BY PlacesFinite DEF TypeOK, Waiting
<1> QED BY <1>1 DEF NoMoreWaiting

(* A reply that is no REQUEST adds none,                                   *)
LEMMA ReplyWaits ==
    ASSUME TypeOK, NEW k \in Conns, NEW m \in ToClientMsgs, m.type # "REQUEST", Reply(k, m)
    PROVE  NoMoreWaiting
<1>1. /\ \A j \in Conns : j # k => toClient'[j] = toClient[j]
      /\ Waiting(toClient'[k]) \in Nat /\ Waiting(toClient[k]) \in Nat
      /\ Waiting(toClient'[k]) <= Waiting(toClient[k])
  BY ReplyEffect
<1> QED BY <1>1, WaitingType DEF NoMoreWaiting

(* newClientTunnel adds none,                                              *)
LEMMA NewTunnelWaits ==
    ASSUME TypeOK, NEW k \in Conns, NEW n \in Names \cup {NoName}, NewClientTunnel(k, n)
    PROVE  NoMoreWaiting
<1>1. ASSUME NEW l, Refuse(k, l) PROVE NoMoreWaiting
  <2>1. Say("REFUSED") \in ToClientMsgs /\ Say("REFUSED").type = "REFUSED"
    BY DEF Say, Msg, ToClientMsgs
  <2> QED BY <1>1, <2>1, ReplyWaits DEF Refuse
<1>2. ASSUME ~Registered(n), NEW u \in Choices(n), Register(k, u) PROVE NoMoreWaiting
  <2>1. u \in Names
    BY <1>2, ChoicesAreFree
  <2>2. Msg("CREATED", u) \in ToClientMsgs /\ Msg("CREATED", u).type = "CREATED"
    BY <2>1 DEF Msg, ToClientMsgs
  <2> QED BY <1>2, <2>2, ReplyWaits, WaitingType DEF Register
<1> QED BY <1>1, <1>2 DEF NewClientTunnel

(* a session adds none.                                                    *)
LEMMA SessionWaits ==
    ASSUME TypeOK, NEW k \in Conns, ServerStep(k)
    PROVE  NoMoreWaiting
<1>1. ASSUME Closes(k) \/ GoDown \/ UNCHANGED <<serverVars, link, toClient>>
      PROVE  NoMoreWaiting
  <2>1. toClient' = toClient
    BY <1>1, ClosesEffect DEF GoDown
  <2> QED BY <2>1, WaitingType
<1>2. CASE ServerReceives(k)
  <2> DEFINE m == Head(toServer[k])
  <2>1. m.name \in Names \cup {NoName} /\ Process(k, m)
    BY <1>2, ReceivesEffect
  <2> HIDE DEF m
  <2> QED BY <1>1, <2>1, NewTunnelWaits DEF Process, ReclaimTunnel, HandleResponse, Closes
<1> QED BY <1>1, <1>2, BreaksEffect DEF ServerStep

(* Every step keeps the bound on requests under way: a goroutine starts    *)
(* for a request that was on its way, a request comes from a user.         *)
LEMMA RequestsStep ==
    ASSUME TypeInv, [Next]_vars
    PROVE  RequestsInv'
<1> USE DEF TypeInv, RequestsInv
<1>1. /\ conn \in Conns /\ answering \in Nat /\ requests \in Nat
      /\ Waiting(toClient[conn]) \in Nat
  BY ReconnectionAssumption, WaitingType DEF TypeOK
<1>2. ASSUME NoMoreWaiting, conn' = conn, answering' = answering, requests' = requests
      PROVE  RequestsInv'
  BY <1>1, <1>2 DEF NoMoreWaiting
<1>3. CASE toClient' = toClient /\ conn' = conn /\ answering' = answering /\ requests' = requests
  BY <1>2, <1>3, WaitingType
<1>4. CASE /\ ~ExitIfSendFails
           /\ \/ ReadFails \/ ReadTimesOut \/ StopDialling \/ SendCreate \/ SendReclaim
              \/ Interrupt \/ ReceiveHeartbeat
  BY <1>3, <1>4
  DEF ReceiveHeartbeat, ReadFails, ReadTimesOut, Disconnected, StopDialling, SendCreate, SendReclaim,
      SendReclaimMsg, Interrupt, Send
<1>5. CASE ExitIfSendFails \/ Leave \/ ReceiveRefusal
  <2>1. /\ toClient' = NoFrames /\ conn' = conn /\ answering' = 0 /\ requests' = requests
    BY <1>5 DEF ExitIfSendFails, Leave, ReceiveRefusal, Exit
  <2>2. Waiting(toClient'[conn]) = 0
    BY <1>1, <2>1, EmptyQueue DEF NoFrames
  <2> QED BY <1>1, <2>1, <2>2
<1>6. CASE ReceiveCreated
  <2>1. Reads("CREATED") /\ Take
    BY <1>6 DEF ReceiveCreated
  <2>2. /\ Waiting(toClient'[conn]) <= Waiting(toClient[conn])
        /\ Waiting(toClient'[conn]) \in Nat
    BY <2>1, TakeEffect
  <2>3. conn' = conn /\ answering' = answering /\ requests' = requests
    BY <1>6 DEF ReceiveCreated
  <2> QED BY <1>1, <2>2, <2>3
<1>7. CASE ReceiveRequest
  <2>1. /\ Waiting(toClient'[conn]) + 1 <= Waiting(toClient[conn])
        /\ Waiting(toClient'[conn]) \in Nat
    BY <1>7, TakeEffect DEF ReceiveRequest
  <2>2. conn' = conn /\ answering' = answering + 1 /\ requests' = requests
    BY <1>7 DEF ReceiveRequest, StartAnswering
  <2> QED BY <1>1, <2>1, <2>2
<1>8. CASE Answer /\ ~ExitIfSendFails
  <2>1. conn' = conn /\ answering' = answering - 1 /\ requests' = requests /\ toClient' = toClient
    BY <1>8 DEF Answer, Send
  <2> QED BY <1>1, <2>1
<1>9. CASE Dial
  <2>1. /\ toClient' = NoFrames /\ conn' \in Conns
        /\ answering' = answering /\ requests' = requests
    BY <1>9, DialEffect
  <2>2. Waiting(toClient'[conn']) = 0
    BY <2>1, EmptyQueue DEF NoFrames
  <2> QED BY <1>1, <2>1, <2>2
<1>10. ASSUME NEW k \in Conns, ServerStep(k) PROVE RequestsInv'
  <2>1. conn' = conn /\ answering' = answering /\ requests' = requests
    BY <1>10, BreaksEffect DEF ServerStep, ServerReceives
  <2> QED BY <1>2, <1>10, <2>1, SessionWaits
<1>11. ASSUME NEW k \in Conns, Cut(k) \/ CloseConn(k) PROVE RequestsInv'
  <2>1. NoMoreWaiting
    BY <1>11, BreakEffect DEF Cut, CloseConn, NoMoreWaiting
  <2> QED BY <1>2, <1>11, <2>1 DEF Cut, CloseConn
<1>12. ASSUME NEW n \in Names, UserRequest(n) PROVE RequestsInv'
  <2>1. Say("REQUEST") \in ToClientMsgs /\ Say("REQUEST").type = "REQUEST"
    BY DEF Say, Msg, ToClientMsgs
  <2>2. clients[n] \in Conns /\ Reply(clients[n], Say("REQUEST"))
    BY <1>12 DEF UserRequest
  <2>3. /\ Waiting(toClient'[conn]) \in Nat
        /\ Waiting(toClient'[conn]) <= Waiting(toClient[conn]) + 1
    BY <1>1, <2>1, <2>2, ReplyEffect
  <2>4. conn' = conn /\ answering' = answering /\ requests' = requests + 1
    BY <1>12 DEF UserRequest
  <2> QED BY <1>1, <2>3, <2>4
<1>13. CASE \/ Restart \/ ServerStops \/ UNCHANGED vars
            \/ \E n \in Names : RivalTakes(n) \/ RivalLeaves(n)
  BY <1>3, <1>13 DEF Restart, ServerStops, GoDown, RivalTakes, RivalLeaves, vars
<1> QED
  BY <1>4, <1>5, <1>6, <1>7, <1>8, <1>9, <1>10, <1>11, <1>12, <1>13
  DEF Next, MainStep, ReaderStep, SessionStep, ServerStep, Breaks, HeartbeatFails

(* Every step keeps the types.                                             *)
LEMMA TypesStep == ASSUME TypeInv, [Next]_vars PROVE TypeInv'
<1>1. TypeOK'
  <2>1. CASE UNCHANGED vars
    BY <2>1 DEF vars, TypeOK, TypeInv
  <2> QED
    BY <2>1, SendTypes, ReadTypes, ReaderTypes, ServerTypes, WorldTypes
    DEF TypeInv, Next, MainStep, ReaderStep, SessionStep, ServerStep, Breaks
<1> QED BY <1>1, RequestsStep DEF TypeInv

-----------------------------------------------------------------------------
(* Until CREATE_TUNNEL is written, only other clients move, if connections *)
(* do not break.                                                           *)
LEMMA BeforeCreateStep ==
    ASSUME TypeOK, NamesInv, BeforeCreateInv, "earlyCut" \notin Faults, [Next]_vars
    PROVE  BeforeCreateInv'
<1> SUFFICES ASSUME main' = "create" PROVE BeforeCreateInv'
  BY DEF BeforeCreateInv
<1> USE DEF BeforeCreateInv
<1>1. toClient[conn] \in Seq(ToClientMsgs) /\ conn \in Conns
  BY DEF TypeOK
<1>2. CASE main # "create"
  <2> USE <1>2
  <2>1. ~(\/ ExitIfSendFails \/ Leave \/ Interrupt \/ Answer \/ ReceiveRequest \/ ReceiveHeartbeat
          \/ ReceiveRefusal \/ ReadFails \/ ReadTimesOut \/ StopDialling \/ HeartbeatFails
          \/ SendCreate \/ SendReclaim \/ ReceiveCreated)
    BY DEF ExitIfSendFails, Leave, Exit, Interrupt, Answer, ReceiveRequest, ReceiveHeartbeat,
           ReceiveRefusal, ReadFails, ReadTimesOut, Disconnected, StopDialling, HeartbeatFails,
           SendCreate, SendReclaim, ReceiveCreated
  <2>2. ~Dial
    BY DialEffect
  <2>3. \A k \in Conns : ~ServerStep(k) /\ ~Cut(k) /\ ~CloseConn(k)
    BY BreaksEffect DEF ServerStep, ServerReceives, Cut, CloseConn
  <2>4. ~Restart /\ ~ServerStops
    BY DEF Restart, ServerStops
  <2>5. \A n \in Names : ~UserRequest(n) /\ ~RivalTakes(n) /\ ~RivalLeaves(n)
    BY DEF UserRequest, RivalTakes, RivalLeaves
  <2>6. main' = main \/ Next
    BY DEF vars
  <2> QED
    BY <2>1, <2>2, <2>3, <2>4, <2>5, <2>6
    DEF Next, MainStep, ReaderStep, SessionStep, ServerStep, Breaks
<1>3. CASE main = "create"
  <2> USE <1>3
  <2>1. /\ proc = "running" /\ reader = "receive" /\ subdomain = NoName /\ answering = 0
        /\ link[conn] = "up" /\ toServer[conn] = <<>> /\ toClient[conn] = <<>>
        /\ \A k \in Conns : Read(k) => k = conn
        /\ \A n \in Names : clients[n] \notin Conns
    OBVIOUS
  <2>2. ~(\/ ExitIfSendFails \/ Leave \/ Interrupt \/ Answer \/ ReceiveRequest \/ ReceiveRefusal
          \/ ReceiveCreated \/ ReadFails \/ ReadTimesOut \/ StopDialling \/ Dial \/ SendReclaim
          \/ SendCreate \/ ServerStops)
    BY <2>1
    DEF ExitIfSendFails, SendFails, Leave, Interrupt, Answer, ReceiveRequest, ReceiveRefusal,
        ReceiveCreated, Reads, ReadFails, ReadTimesOut, Fault, StopDialling, Dial, SendReclaim,
        SendCreate, ServerStops
  <2>3. \A k \in Conns : ~ServerStep(k) /\ ~Cut(k)
    BY <2>1
    DEF ServerStep, Breaks, ServerReceives, ServerReadFails, ServerReadTimesOut,
        ServerHeartbeatFails, Fault, Cut
  <2>4. \A n \in Names : ~UserRequest(n)
    BY <2>1 DEF UserRequest
  <2>5. CASE Restart \/ UNCHANGED vars
    BY <2>1, <2>5 DEF Restart, vars
  <2>6. CASE ReceiveHeartbeat
    BY <2>1, <2>2, <2>6 DEF ReceiveHeartbeat, Loop
  <2>7. ASSUME NEW n \in Names, RivalTakes(n) \/ RivalLeaves(n) PROVE BeforeCreateInv'
    <3>1. clients' = [clients EXCEPT ![n] = Rival] \/ clients' = [clients EXCEPT ![n] = Nobody]
      BY <2>7 DEF RivalTakes, RivalLeaves
    <3>2. \A o \in Names : clients'[o] \notin Conns
      BY <2>1, <3>1, ReconnectionAssumption DEF TypeOK
    <3>3. UNCHANGED <<clientVars, netVars, server, session, ct>>
      BY <2>7 DEF RivalTakes, RivalLeaves
    <3> QED BY <2>1, <3>2, <3>3
  <2>8. ASSUME NEW k \in Conns, CloseConn(k) PROVE BeforeCreateInv'
    <3>1. k # conn /\ Break(k) /\ UNCHANGED <<clientVars, serverVars>>
      BY <2>1, <2>8 DEF CloseConn
    <3>2. /\ link'[conn] = link[conn] /\ toServer'[conn] = toServer[conn]
          /\ toClient'[conn] = toClient[conn]
      BY <1>1, <3>1 DEF Break, TypeOK
    <3> QED BY <2>1, <3>1, <3>2
  <2> QED
    BY <2>2, <2>3, <2>4, <2>5, <2>6, <2>7, <2>8
    DEF Next, MainStep, ReaderStep, SessionStep, ServerStep, Breaks, HeartbeatFails
<1> QED BY <1>2, <1>3

-----------------------------------------------------------------------------
(* No step makes a client that dials believe in a tunnel.                  *)
LEMMA DialStep == ASSUME TypeOK, DialInv, [Next]_vars PROVE DialInv'
<1> USE DEF DialInv
<1>1. CASE reader' = "dial" /\ reader # "dial"
  <2>1. UNCHANGED vars \/ ReadFails \/ ReadTimesOut
    BY <1>1, BreaksEffect, DialEffect
    DEF Next, MainStep, ReaderStep, SessionStep, ServerReceives, Breaks, SendCreate, Leave,
        ReceiveCreated, ReceiveRefusal, ReceiveRequest, ReceiveHeartbeat, StopDialling,
        SendReclaim, Answer, Interrupt, HeartbeatFails, ExitIfSendFails, Exit, Loop, CloseConn,
        Cut, Restart, ServerStops, UserRequest, RivalTakes, RivalLeaves
  <2> QED BY <1>1, <2>1 DEF ReadFails, ReadTimesOut, Disconnected, vars
<1>2. CASE reader' = "dial" /\ reader = "dial"
  <2>1. told' = told
    BY <1>2, BreaksEffect, DialEffect
    DEF Next, MainStep, ReaderStep, SessionStep, ServerReceives, Breaks, SendCreate, Leave,
        ReceiveCreated, ReceiveRefusal, ReceiveRequest, ReceiveHeartbeat, StopDialling,
        SendReclaim, Answer, Interrupt, HeartbeatFails, ExitIfSendFails, Exit, Loop, CloseConn,
        Cut, Restart, ServerStops, UserRequest, RivalTakes, RivalLeaves,
        ReadFails, ReadTimesOut, Disconnected, Reads, vars
  <2> QED BY <1>2, <2>1
<1> QED BY <1>1, <1>2

(* Every step keeps the names the client is told, or about to be told,     *)
(* routed to its connection.                                               *)
LEMMA RoutedStep ==
    ASSUME TypeOK, OwnerInv, DialInv, RoutedInv, [Next]_vars PROVE RoutedInv'
<1>1. conn \in Conns
  BY DEF TypeOK
<1>2. ASSUME conn' = conn, subdomain' = subdomain, told' => told, KeepsRoutes,
             link'[conn] = "up" => link[conn] = "up",
             Created(toClient'[conn]) \subseteq Created(toClient[conn])
      PROVE  RoutedInv'
  BY <1>2 DEF RoutedInv, KeepsRoutes
<1>3. CASE ExitIfSendFails \/ HeartbeatFails \/ Leave \/ ReceiveRefusal
  <2>1. link'[conn] = "cut" /\ conn' = conn
    BY <1>1, <1>3 DEF ExitIfSendFails, HeartbeatFails, Leave, ReceiveRefusal, Exit
  <2> QED BY <2>1 DEF RoutedInv
<1>4. CASE \/ ReadFails \/ ReadTimesOut \/ StopDialling \/ Interrupt
           \/ ~ExitIfSendFails /\ (SendCreate \/ SendReclaim \/ Answer \/ ReceiveHeartbeat)
  BY <1>2, <1>4
  DEF ReceiveHeartbeat, ReadFails, ReadTimesOut, Disconnected, StopDialling, Interrupt, SendCreate, SendReclaim,
      SendReclaimMsg, Answer, Send, KeepsRoutes
<1>5. CASE ReceiveRequest
  <2>1. Created(toClient'[conn]) \subseteq Created(toClient[conn])
    BY <1>5, TakeEffect DEF ReceiveRequest
  <2> QED BY <1>2, <1>5, <2>1 DEF ReceiveRequest, KeepsRoutes
<1>6. CASE ReceiveCreated
  <2>1. /\ Created(toClient'[conn]) \subseteq Created(toClient[conn])
        /\ Head(toClient[conn]).name \in Created(toClient[conn])
    BY <1>6, TakeEffect DEF ReceiveCreated
  <2>2. /\ subdomain' = Head(toClient[conn]).name
        /\ UNCHANGED <<conn, link, clients>>
    BY <1>6 DEF ReceiveCreated
  <2> QED BY <2>1, <2>2 DEF RoutedInv
<1>7. CASE Dial
  <2>1. conn' \in Conns /\ toClient' = NoFrames /\ told' = told /\ ~told
    BY <1>7, DialEffect DEF Dial, DialInv
  <2>2. Created(toClient'[conn']) = {}
    BY <2>1, EmptyQueue DEF NoFrames
  <2> QED BY <2>1, <2>2 DEF RoutedInv
<1>8. ASSUME NEW k \in Conns, ServerStep(k) PROVE RoutedInv'
  <2>1. /\ SameElsewhere(k) /\ KeepsRoutes
        /\ \/ Created(toClient'[k]) \subseteq Created(toClient[k])
           \/ \E u \in Names :
                  /\ Created(toClient'[k]) \subseteq Created(toClient[k]) \cup {u}
                  /\ clients'[u] = k
    BY <1>8, SessionElsewhere
  <2>2. UNCHANGED <<conn, subdomain, told>>
    BY <1>8, BreaksEffect DEF ServerStep, ServerReceives
  <2>3. link'[conn] = "up" => link[conn] = "up"
    BY <1>1, <2>1 DEF SameElsewhere
  <2>4. CASE Created(toClient'[conn]) \subseteq Created(toClient[conn])
    BY <1>2, <2>1, <2>2, <2>3, <2>4
  <2>5. ASSUME k = conn, NEW u \in Names,
               Created(toClient'[conn]) \subseteq Created(toClient[conn]) \cup {u},
               clients'[u] = conn
        PROVE  RoutedInv'
    BY <2>1, <2>2, <2>3, <2>5 DEF RoutedInv, KeepsRoutes
  <2> QED BY <1>1, <2>1, <2>4, <2>5 DEF SameElsewhere
<1>9. ASSUME NEW k \in Conns, NEW m \in ToClientMsgs, m.type # "CREATED", Reply(k, m),
             UNCHANGED <<clientVars, link, clients>>
      PROVE  RoutedInv'
  <2>1. Created(toClient'[conn]) \subseteq Created(toClient[conn])
    BY <1>1, <1>9, ReplyEffect
  <2> QED BY <1>2, <1>9, <2>1 DEF KeepsRoutes
<1>10. ASSUME NEW n \in Names, UserRequest(n) PROVE RoutedInv'
  <2>1. Say("REQUEST") \in ToClientMsgs /\ Say("REQUEST").type # "CREATED"
    BY DEF Say, Msg, ToClientMsgs
  <2> QED BY <1>9, <1>10, <2>1 DEF UserRequest
<1>11. ASSUME NEW k \in Conns, Cut(k) \/ CloseConn(k) PROVE RoutedInv'
  <2>1. Break(k) /\ UNCHANGED <<clientVars, clients>>
    BY <1>11 DEF Cut, CloseConn
  <2>2. Created(toClient'[conn]) \subseteq Created(toClient[conn])
    BY <1>1, <2>1, BreakEffect
  <2>3. link'[conn] = "up" => link[conn] = "up"
    BY <1>1, <2>1 DEF Break, TypeOK
  <2> QED BY <1>2, <2>1, <2>2, <2>3 DEF KeepsRoutes
<1>12. CASE ServerStops
  <2>1. SameElsewhere(conn) /\ toClient' = toClient /\ KeepsRoutes
    BY <1>1, <1>12, GoDownEffect DEF ServerStops
  <2> QED BY <1>1, <1>2, <1>12, <2>1 DEF ServerStops, SameElsewhere
<1>13. ASSUME NEW n \in Names, RivalTakes(n) \/ RivalLeaves(n) PROVE RoutedInv'
  <2>1. clients[n] # conn /\ \A o \in Names : o # n => clients'[o] = clients[o]
    BY <1>1, <1>13, ReconnectionAssumption DEF RivalTakes, RivalLeaves, TypeOK
  <2>2. KeepsRoutes
    BY <2>1 DEF KeepsRoutes
  <2> QED BY <1>2, <1>13, <2>2 DEF RivalTakes, RivalLeaves
<1>14. CASE Restart \/ UNCHANGED vars
  BY <1>2, <1>14 DEF Restart, vars, KeepsRoutes
<1>15. CASE \/ MainStep \/ ReaderStep \/ Answer \/ Interrupt \/ ReceiveHeartbeat
            \/ HeartbeatFails \/ ReadTimesOut
  BY <1>3, <1>4, <1>5, <1>6, <1>7, <1>15 DEF MainStep, ReaderStep
<1> QED
  BY <1>8, <1>10, <1>11, <1>12, <1>13, <1>14, <1>15
  DEF Next, SessionStep, ServerStep, Breaks

-----------------------------------------------------------------------------
(* The inductive invariant of the routing.                                 *)
RoutingInv == TypeInv /\ OwnerInv /\ DialInv /\ RoutedInv

(* It holds at the start.                                                  *)
LEMMA RoutingInit == Init => RoutingInv
<1> SUFFICES ASSUME Init PROVE RoutingInv
  OBVIOUS
<1>1. TypeInv
  BY TypeInit DEF TypeInv
<1>2. conn \in Conns
  BY <1>1 DEF TypeInv, TypeOK
<1>3. toClient[conn] = <<>>
  BY <1>2 DEF Init
<1>4. OwnerInv /\ DialInv
  BY DEF Init, OwnerInv, DialInv
<1>5. RoutedInv
  BY <1>3, EmptyQueue DEF Init, RoutedInv
<1> QED BY <1>1, <1>4, <1>5 DEF RoutingInv

(* Every step keeps it.                                                    *)
LEMMA RoutingStep == RoutingInv /\ [Next]_vars => RoutingInv'
<1> SUFFICES ASSUME RoutingInv, [Next]_vars PROVE RoutingInv'
  OBVIOUS
<1>1. TypeOK
  BY DEF RoutingInv, TypeInv
<1> QED BY <1>1, TypesStep, OwnerStep, DialStep, RoutedStep DEF RoutingInv

(* It holds always, whatever breaks and whenever.                          *)
LEMMA RoutingAlways == Spec => []RoutingInv
BY RoutingInit, RoutingStep, PTL DEF Spec

(* Every variable keeps its type; the goroutines that answer requests are  *)
(* never more than the requests users made.                                *)
THEOREM TypeCorrect == Spec => []TypeOK
<1>1. RoutingInv => TypeOK
  BY DEF RoutingInv, TypeInv
<1> QED BY <1>1, RoutingAlways, PTL

(* A client that believes its tunnel is open, on a connection that is up,  *)
(* is right: ms.clients has its name with that connection. Neither         *)
(* newClientTunnel nor a close for another session, by whichever           *)
(* goroutine, nor a rival, takes it; a connection that breaks before       *)
(* CREATE_TUNNEL is written makes no difference. A connection the server   *)
(* is closing ("closing") is not up: its name goes first.                  *)
THEOREM OpenTunnelsAreRouted == Spec => []OpenIsRouted
<1>1. RoutingInv => OpenIsRouted
  BY DEF RoutingInv, RoutedInv, OpenIsRouted, Open
<1> QED BY <1>1, RoutingAlways, PTL

-----------------------------------------------------------------------------
(* The inductive invariant of the client's one name.                       *)
IInv == RoutingInv /\ BeforeCreateInv /\ AskedOnceInv /\ NameInv

(* It holds at the start.                                                  *)
LEMMA IInvInit == Init => IInv
<1> SUFFICES ASSUME Init PROVE IInv
  OBVIOUS
<1>1. RoutingInv
  BY RoutingInit
<1>2. conn \in Conns
  BY <1>1 DEF RoutingInv, TypeInv, TypeOK
<1>3. toServer[conn] = <<>> /\ toClient[conn] = <<>> /\ link[conn] = "up"
  BY <1>2 DEF Init
<1>4. BeforeCreateInv
  <2>1. \A k \in Conns : Read(k) => k = conn
    BY DEF Init
  <2>2. \A n \in Names : clients[n] \notin Conns
    BY ReconnectionAssumption DEF Init
  <2> QED BY <1>3, <2>1, <2>2, EmptyQueue DEF Init, BeforeCreateInv
<1>5. AskedOnceInv /\ NameInv
  BY <1>3, EmptyQueue DEF Init, AskedOnceInv, NameInv
<1> QED BY <1>1, <1>4, <1>5 DEF IInv

(* Every step keeps it, if connections do not break before CREATE_TUNNEL   *)
(* is written.                                                             *)
LEMMA IInvStep == ASSUME IInv, "earlyCut" \notin Faults, [Next]_vars PROVE IInv'
<1>1. TypeOK /\ OwnerInv /\ NamesInv
  BY DEF IInv, RoutingInv, TypeInv, NamesInv
<1> QED BY <1>1, RoutingStep, BeforeCreateStep, NamesStep DEF IInv, NamesInv

(* It holds always.                                                        *)
LEMMA IInvAlways == ASSUME "earlyCut" \notin Faults PROVE Spec => []IInv
<1>1. IInv /\ [Next]_vars => IInv'
  BY IInvStep
<1> QED BY <1>1, IInvInit, PTL DEF Spec

-----------------------------------------------------------------------------
phase == IF ~Running THEN "closed" ELSE IF Open THEN "open" ELSE "opening"


-----------------------------------------------------------------------------
(* Run starts as an abstract tunnel that is opening.                       *)
LEMMA OpeningFirst == ASSUME Init PROVE Tunnel!Init
BY DEF Init, Tunnel!Init, Open

(* Every step of client, server and network is one of the abstract tunnel  *)
(* or leaves it alone: TUNNEL_CREATED opens it under its name, a failed    *)
(* read loses it, an exit closes it.                                       *)
LEMMA TunnelSteps ==
    ASSUME IInv, [Next]_vars
    PROVE  [Tunnel!Next]_(Tunnel!vars)
<1> USE DEF Open
<1>1. TypeOK
  BY DEF IInv, RoutingInv, TypeInv
<1>2. CASE UNCHANGED <<proc, told, subdomain>>
  BY <1>2 DEF Tunnel!vars
<1>3. ASSUME proc = "running", NEW w \in Reasons, Exit(w) PROVE Tunnel!Close
  BY <1>3 DEF Exit, Tunnel!Close, Reasons
<1>4. CASE \/ Leave \/ ReceiveRefusal \/ HeartbeatFails
           \/ ExitIfSendFails /\ (SendCreate \/ ReceiveHeartbeat \/ SendReclaim \/ Answer)
  <2>1. proc = "running" /\ \E w \in Reasons : Exit(w)
    BY <1>4
    DEF Leave, ReceiveRefusal, HeartbeatFails, Reads, ExitIfSendFails, SendCreate,
        ReceiveHeartbeat, SendReclaim, Answer, Reasons
  <2> QED BY <1>3, <2>1 DEF Tunnel!Next
<1>5. CASE ReadFails \/ ReadTimesOut
  BY <1>5 DEF ReadFails, ReadTimesOut, Disconnected, Tunnel!Next, Tunnel!Lose, Tunnel!vars
<1>6. CASE ReceiveCreated
  <2> DEFINE n == Head(toClient[conn]).name
  <2>1. n \in Created(toClient[conn])
    BY <1>1, <1>6, TakeEffect DEF ReceiveCreated
  <2>2. /\ proc = "running" /\ proc' = proc /\ told' = TRUE /\ subdomain' = n
    BY <1>6 DEF ReceiveCreated, Reads
  <2> HIDE DEF n
  <2>3. n \in Names /\ (subdomain # NoName => n = subdomain) /\ (told => subdomain # NoName)
    BY <2>1 DEF IInv, NameInv
  <2>4. CASE told
    BY <2>2, <2>3, <2>4 DEF Tunnel!vars
  <2>5. CASE ~told
    <3>1. told = FALSE
      BY <1>1, <2>5 DEF TypeOK
    <3> QED BY <2>2, <2>3, <3>1 DEF Tunnel!Next, Tunnel!Open
  <2> QED BY <2>4, <2>5
<1>7. CASE \/ ReceiveRequest \/ StopDialling \/ Interrupt
           \/ ~ExitIfSendFails /\ (SendCreate \/ ReceiveHeartbeat \/ SendReclaim \/ Answer)
  BY <1>2, <1>7
  DEF SendCreate, ReceiveRequest, ReceiveHeartbeat, StopDialling, SendReclaim, Answer,
      Interrupt
<1>8. CASE Dial
  BY <1>1, <1>2, <1>8, DialEffect
<1>9. ASSUME NEW k \in Conns,
             ServerStep(k) \/ Cut(k) \/ CloseConn(k)
      PROVE  [Tunnel!Next]_(Tunnel!vars)
  BY <1>1, <1>2, <1>9, BreaksEffect
  DEF ServerStep, ServerReceives, Cut, CloseConn
<1>10. CASE Restart \/ ServerStops
  BY <1>2, <1>10 DEF Restart, ServerStops
<1>11. ASSUME NEW n \in Names, UserRequest(n) \/ RivalTakes(n) \/ RivalLeaves(n)
       PROVE  [Tunnel!Next]_(Tunnel!vars)
  BY <1>2, <1>11 DEF UserRequest, RivalTakes, RivalLeaves
<1>12. CASE UNCHANGED vars
  BY <1>2, <1>12 DEF vars
<1> QED
  BY <1>4, <1>5, <1>6, <1>7, <1>8, <1>9, <1>10, <1>11, <1>12
  DEF Next, MainStep, ReaderStep, SessionStep, ServerStep, Breaks

(* From its first TUNNEL_CREATED the client has one name through every     *)
(* reconnectTunnel, if no connection breaks before CREATE_TUNNEL is        *)
(* written: the detailed client implements ReconnectingTunnel.             *)
THEOREM TunnelKeepsItsName == ASSUME "earlyCut" \notin Faults PROVE Spec => KeepsItsName
<1>1. IInv /\ [Next]_vars => [Tunnel!Next]_(Tunnel!vars)
  BY TunnelSteps
<1> QED BY <1>1, OpeningFirst, IInvAlways, PTL DEF Spec, KeepsItsName, Tunnel!Spec
=============================================================================
