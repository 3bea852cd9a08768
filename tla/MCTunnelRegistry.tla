-------------------------- MODULE MCTunnelRegistry --------------------------
(***************************************************************************)
(* Instances of TunnelRegistry for TLC, and what the repository's comments *)
(* and README say of it that the code does not keep.                       *)
(***************************************************************************)
EXTENDS TunnelRegistryInv, TLC

CONSTANTS c1, c2, c3,      \* connections
          ip1, ip2,        \* addresses
          n1, n2, bad,     \* custom names, and one isValidSubdomainName refuses
          r1, r2, r3,      \* generated names
          t1, t2           \* a token of the keys file, and an unknown one

MCOneIP     == [c \in Conns |-> ip1]
MCTwoIPs    == [c \in Conns |-> IF c = c3 THEN ip2 ELSE ip1]
MCOneSlot   == <<[key |-> t1, limit |-> 1]>>
MCTwoSlots  == <<[key |-> t1, limit |-> 1], [key |-> t1, limit |-> 2]>>
MCManySlots == <<[key |-> t1, limit |-> 9]>>
MCNoKeys    == <<>>

Kinds == {"CREATE", "RECLAIM"}
MCAnyRequest   == [kind : Kinds, name : {NoName, n1, bad}, token : {NoToken, t1, t2}]
MCGoodRequest  == [kind : Kinds, name : {NoName, n1}, token : {t1}]
MCCustomName   == {[kind |-> "CREATE", name |-> n1, token |-> NoToken],
                   [kind |-> "RECLAIM", name |-> n2, token |-> NoToken]}
MCRandomName   == [kind : {"CREATE"}, name : {NoName}, token : {NoToken}]

Symmetry == Permutations(Conns \ {c3}) \cup Permutations(RandomIds)

-----------------------------------------------------------------------------
(* Each of these is violated: see the findings of the README.              *)

(* README.md, Authentication: "Each token has a maximum number of          *)
(* concurrent tunnels".                                                    *)
TokenLimitHolds ==
    \A k \in Tokens \cap DOMAIN apiKeys :
        Cardinality({c \in Conns : hasTunnel[c] /\ pc[Reader(c)] = "loop"
                                   /\ ask[c].token = k}) <= apiKeys[k]

(* README.md: "There is a limit of 5 mmar tunnels per IP to avoid abuse".  *)
IpLimitHolds ==
    \A ip \in IPs :
        Cardinality({c \in Conns : hasTunnel[c] /\ pc[Reader(c)] = "loop"
                                   /\ ipOf[c] = ip}) <= MaxTunnelsPerIP

(* closeClientTunnel: "Remove Client Tunnel from client IP".  Once every   *)
(* connection has ended no slot of an address is taken.                    *)
IpSlotsReleased ==
    (\A c \in Conns : pc[Reader(c)] \in {"new", "ended"})
        => \A ip \in IPs : tunnelsPerIP[ip].len = 0

(* README.md, Authentication: "Tunnel counts are automatically updated     *)
(* when tunnels are created/destroyed".  A charge has a goroutine that     *)
(* will take it back.                                                      *)
TokenSlotsOwned ==
    \A k \in Tokens, c \in Conns : Charged(c, k) => pc[Reader(c)] # "orphan"

(* newClientTunnel: "Generate unique subdomain for client".                *)
GeneratedNameUnique == NoTakeover

(* closeClientTunnelOrConn: "If client has not reserved subdomain, just    *)
(* close the tcp connection".                                              *)
JustCloseTheConn == down # "nilOnEOF"

(* processTunnelMessages, RECLAIM_TUNNEL of a taken subdomain: "if so,     *)
(* close the tunnel, so the user can create a new one".                    *)
ReclaimClosesTunnel == down # "nilOnReclaim"

(* ClientTunnel.close: "Drain channels before closing them to prevent      *)
(* panics if there are blocked writes".                                    *)
DrainPreventsPanics == down # "doubleClose"

(* newClientTunnel refusing a request: "Close write side to signal end of  *)
(* data", and the reader ends.  A tunnel that the connection has from an   *)
(* earlier request stays routed to it, with nobody left to close it.       *)
EveryRoutedConnOpen ==
    \A id \in TunnelIds : clients[id] # NoConn => conn[clients[id]] = "open"
=============================================================================
