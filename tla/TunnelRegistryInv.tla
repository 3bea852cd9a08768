-------------------------- MODULE TunnelRegistryInv --------------------------
(***************************************************************************)
(* Inductive invariants of TunnelRegistry: what its safety properties rest *)
(* on.  TLC checks them on the instances of MCTunnelRegistry, TLAPS proves *)
(* them in TunnelRegistryProofs.                                           *)
(***************************************************************************)
EXTENDS TunnelRegistry

-----------------------------------------------------------------------------
(* A header stays within its array, so that append and slices.Delete read  *)
(* typed elements; a tunnel that reaches AddTunnel has been given a name.  *)
HeapOK ==
    /\ \A ip \in IPs : Fits(heap, tunnelsPerIP[ip])
    /\ \A p \in Procs : Fits(heap, hdr[p])

NamedPoints == {"ipCheck", "addClient", "ipRead", "ipAppend", "ipStore", "addKey"}
NamedOK == \A c \in Conns : pc[Reader(c)] \in NamedPoints => sub[c] \in TunnelIds

TypeInv == TypeOK /\ HeapOK /\ NamedOK

-----------------------------------------------------------------------------
(* ms.mu is held exactly inside newClientTunnel's critical section.        *)
LockOK == \A c \in Conns : pc[Reader(c)] \in Locked <=> lock = c

(* Only a tunnel whose reply was sent is ever closed; while one is being   *)
(* created its connection is open, if it is the first there.               *)
TunnelOK ==
    \A c \in Conns :
        /\ hasTunnel[c] => pc[Reader(c)] \in {"loop", "ended"} \cup Closing
        /\ pc[Reader(c)] \in Closing => hasTunnel[c]
        /\ stray[c] # NoAsk => again[c]
        /\ ~again[c] =>
               /\ pc[Async(c)] \in Closing \cup {"ended"} => hasTunnel[c]
               /\ pc[Reader(c)] \in Creating => conn[c] = "open"

(* Which connections with one tunnel an entry of ms.clients can name.      *)
RoutedPoints == {"ipRead", "ipAppend", "ipStore", "addKey", "reply",
                 "loop", "orphan", "rmClient"}
Routed(id, c) ==
    /\ sub[c] = id /\ conn[c] = "open"
    /\ pc[Reader(c)] \in RoutedPoints
    /\ pc[Reader(c)] = "loop" => hasTunnel[c]
    /\ pc[Async(c)] \notin (Closing \cup {"ended"}) \ {"rmClient"}
EntryOK == \A id \in TunnelIds, c \in Conns : clients[id] = c /\ ~again[c] => Routed(id, c)

(* Where GenerateRandomID never returns a name in use, a name a connection *)
(* is about to take is free.                                               *)
FreeOK ==
    \A c \in Conns :
        pc[Reader(c)] \in {"ipCheck", "addClient"} => clients[sub[c]] = NoConn

RegistryInv == LockOK /\ TunnelOK /\ EntryOK

(* Where nothing closes a tunnel behind its reader's back, a tunnel that   *)
(* was entered and not yet removed is the one its name is routed to.       *)
OwningPoints == RoutedPoints \ {"loop"}
OwnOK ==
    \A c \in Conns :
        /\ pc[Async(c)] = "idle"
        /\ pc[Reader(c)] \in OwningPoints \/ (pc[Reader(c)] = "loop" /\ hasTunnel[c])
               => clients[sub[c]] = c

-----------------------------------------------------------------------------
(* The limit was checked under the lock that is still held, and in between *)
(* other goroutines only store headers they have shortened.                *)
IpOK ==
    /\ IpListBounded
    /\ \A c \in Conns :
        /\ pc[Reader(c)] \in {"addClient", "ipRead"} =>
               tunnelsPerIP[ipOf[c]].len < MaxTunnelsPerIP
        /\ pc[Reader(c)] = "ipAppend" => hdr[Reader(c)].len < MaxTunnelsPerIP
        /\ pc[Reader(c)] = "ipStore" => hdr[Reader(c)].len <= MaxTunnelsPerIP
    /\ \A p \in Procs :
        /\ pc[p] = "ipDelete" => hdr[p].len <= MaxTunnelsPerIP
        /\ pc[p] = "ipPut" => hdr[p].len < MaxTunnelsPerIP

-----------------------------------------------------------------------------
(* The tunnels a token and an address are charged for, where nothing       *)
(* closes a tunnel behind its reader's back.                               *)
AsyncIdle == \A c \in Conns : pc[Async(c)] = "idle"

(* The list of a token has one place for each tunnel charged to it, which  *)
(* holds that tunnel's name: RemoveTunnel finds one to take away, though   *)
(* not always the one its own AddTunnel has put there.                     *)
ChargedTo(token) == {c \in Conns : Charged(c, token)}
KeyOK ==
    \A k \in Tokens :
        \E place \in Bijection(ChargedTo(k), 1..Len(tunnelsPerKey[k])) :
            \A c \in ChargedTo(k) : tunnelsPerKey[k][place[c]] = sub[c]

(* No array but the empty one is shared by two addresses, the copies of    *)
(* the goroutines included.                                                *)
ArraysOf(ip) ==
    {tunnelsPerIP[ip].arr} \cup {hdr[p].arr : p \in {q \in Procs : ipOf[ConnOf(q)] = ip}}
ArraysOK ==
    /\ heap[0] = <<>>
    /\ \A ip1, ip2 \in IPs : ip1 # ip2 => ArraysOf(ip1) \cap ArraysOf(ip2) \subseteq {0}

(* Where the one slot of a connection alone at its address is, on its way  *)
(* into the list and out of it again.                                      *)
Alone(c) == \A d \in Conns \ {c} : ipOf[d] # ipOf[c]
OnlyName(c, s) == s.len = 1 /\ Elements(heap, s) = {sub[c]}
EmptyPoints == {"new", "auth", "lock", "name", "ipCheck", "addClient", "ipRead", "ipAppend",
                "rmKey", "drain", "linger", "ended"}
FullPoints  == {"addKey", "reply", "orphan", "rmClient", "ipGet"}
SlotOf(c) ==
    LET at == pc[Reader(c)]
        h  == hdr[Reader(c)]
        s  == tunnelsPerIP[ipOf[c]] IN
    /\ at \in EmptyPoints \/ (at = "loop" /\ ~hasTunnel[c]) => s.len = 0
    /\ at \in FullPoints \/ (at = "loop" /\ hasTunnel[c]) => OnlyName(c, s)
    /\ at \in {"ipAppend", "ipPut"} => h.len = 0
    /\ at \in {"ipStore", "ipDelete"} => OnlyName(c, h)
SlotsOK == ArraysOK /\ \A c \in Conns : Alone(c) => SlotOf(c)
=============================================================================
