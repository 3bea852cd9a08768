--------------------------- MODULE MCRequestTunnel ---------------------------
(***************************************************************************)
(* Instances of RequestTunnel for TLC, and what comments of the code say   *)
(* of it that it does not keep.                                            *)
(***************************************************************************)
EXTENDS RequestTunnel, TLC

CONSTANTS r1, r2, r3, i1, i2

Symmetry == Permutations(Reqs) \cup Permutations(Ids)

(* GenerateUniqueRequestID: "Generate unique request id for incoming       *)
(* request for client": no two requests that wait share an id.             *)
WaitingIdsUnique ==
    \A r, s \in Reqs :
        r # s /\ {handler[r], handler[s]} \subseteq {"send", "await"} => reqId[r] # reqId[s]

(* ServeHTTP: "Request is canceled or Tunnel is closed if context is       *)
(* canceled": closing the tunnel ends the wait of its requests.            *)
ClosingCancelsRequests ==
    \A r \in Reqs : (handler[r] = "await" /\ tunnel = "closed") ~> handler[r] = "done"

(* ClientTunnel.close: "Wait a little for final response to complete, then *)
(* close the connection": a response that arrives meanwhile is delivered.  *)
FinalResponseCompletes ==
    \A r \in Reqs :
        (/\ tunnel = "closing" /\ handler[r] = "await"
         /\ \E i \in DOMAIN toServer : toServer[i].of = r)
            ~> handler[r] = "done"
=============================================================================
