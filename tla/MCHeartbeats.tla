---------------------------- MODULE MCHeartbeats ----------------------------
(***************************************************************************)
(* Instances of Heartbeats for TLC.  A tick is half a second in the        *)
(* passing run and a second in the others.                                 *)
(***************************************************************************)
EXTENDS Heartbeats

(* processTunnelMessages: "Set a read timeout, if no response to heartbeat *)
(* is received within that period, that means the client has               *)
(* disconnected".  It may be sending a long response.                      *)
SilentMeansDisconnected == loop["server"] = "timedOut" => ~Active("client")
=============================================================================
