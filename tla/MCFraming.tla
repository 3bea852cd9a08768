------------------------------ MODULE MCFraming ------------------------------
(* An instance of Framing for TLC: bodies that hold the version byte and   *)
(* the delimiter, a body that reads like a frame and whose length has two  *)
(* digits, the type whose byte is the delimiter, an empty message; and the *)
(* CREATE_TUNNEL, RECLAIM_TUNNEL and HEARTBEAT_FROM_CLIENT of a client of  *)
(* another version, one of which has this version as its type.             *)
EXTENDS Framing

CONSTANTS w1, w2

REQUEST == 1
CREATE_TUNNEL == 3
RECLAIM_TUNNEL == 4
DEST_REQUEST_TIMEDOUT == 10
HEARTBEAT_FROM_CLIENT == 11

MCMessages ==
    { [type |-> CREATE_TUNNEL, data |-> <<>>],
      [type |-> DEST_REQUEST_TIMEDOUT, data |-> <<Version, Delimiter>>],
      [type |-> REQUEST, data |-> SerializeMessage(Version,
                                      [type |-> REQUEST, data |-> <<65, 65, 65, 65, 65, 65, 65>>])] }

MCOtherMessages ==
    { [type |-> CREATE_TUNNEL, data |-> <<>>],
      [type |-> HEARTBEAT_FROM_CLIENT, data |-> <<>>],
      [type |-> RECLAIM_TUNNEL, data |-> <<97, 98, 48, 49, 50, 51, 124, 107, 101, 121>>] }

(* What the theorems about peers of other versions rest on.                *)
ASSUME NotTakenForOurs
=============================================================================
