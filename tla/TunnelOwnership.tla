--------------------------- MODULE TunnelOwnership ---------------------------
(***************************************************************************)
(* What the registry promises, whatever its goroutines do: a subdomain is  *)
(* routed to one open connection at a time, it passes to another only      *)
(* after it was released, and a connection is closed only once no          *)
(* subdomain is routed to it.                                              *)
(***************************************************************************)
CONSTANTS Names, Conns, Nobody      \* Nobody is not a connection

VARIABLES owner,   \* who a subdomain is routed to
          open     \* connections that can still carry requests

vars == <<owner, open>>

Owns(c) == \E n \in Names : owner[n] = c

Init == owner = [n \in Names |-> Nobody] /\ open = {}

Open(c) == c \notin open /\ open' = open \cup {c} /\ UNCHANGED owner

Claim(c, n) ==
    /\ c \in open /\ owner[n] = Nobody
    /\ owner' = [owner EXCEPT ![n] = c]
    /\ UNCHANGED open

Release(n) ==
    /\ owner' = [owner EXCEPT ![n] = Nobody]
    /\ UNCHANGED open

Close(c) == c \in open /\ ~Owns(c) /\ open' = open \ {c} /\ UNCHANGED owner

Crash == owner' = [n \in Names |-> Nobody] /\ open' = {}

Next ==
    \/ \E c \in Conns : Open(c) \/ Close(c) \/ \E n \in Names : Claim(c, n)
    \/ \E n \in Names : Release(n)
    \/ Crash

Spec == Init /\ [][Next]_vars
=============================================================================
