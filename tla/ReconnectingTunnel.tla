------------------------- MODULE ReconnectingTunnel -------------------------
(***************************************************************************)
(* What a user of `mmar client` is promised: the tunnel may be lost and    *)
(* opened again as often as the network wants, but from the first time it  *)
(* is open until the client ends it has one name, printed once.            *)
(***************************************************************************)
CONSTANTS Names, NoName

VARIABLES phase,   \* "opening", "open" or "closed" for good
          name     \* the subdomain printed to the user, NoName before

vars == <<phase, name>>

Init == phase = "opening" /\ name = NoName

Open ==
    /\ phase = "opening"
    /\ phase' = "open"
    /\ IF name = NoName THEN name' \in Names ELSE name' = name

Lose  == phase = "open" /\ phase' = "opening" /\ name' = name
Close == phase # "closed" /\ phase' = "closed" /\ name' = name

Next == Open \/ Lose \/ Close
Spec == Init /\ [][Next]_vars
=============================================================================
