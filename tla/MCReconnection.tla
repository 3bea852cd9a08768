--------------------------- MODULE MCReconnection ---------------------------
(***************************************************************************)
(* Instances of Reconnection for TLC, and what comments and help texts of  *)
(* the client say that the code does not keep.                             *)
(***************************************************************************)
EXTENDS Reconnection, TLC

CONSTANTS k1, k2, k3, x, g1, g2

(* reconnectTunnel: "Keep attempting to reconnect the existing tunnel      *)
(* until successful": a client ends when it is told to or refused.         *)
KeepsReconnecting == proc # "sendFailed"

(* CLIENT_CUSTOM_NAME_HELP: "Define a custom name for the tunnel           *)
(* subdomain.  If not provided, a random subdomain will be generated".     *)
CustomNameUsed == subdomain \in {NoName, customName} \/ customName = NoName
=============================================================================
