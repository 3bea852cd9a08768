--------------------------- MODULE MessageChannel ---------------------------
(***************************************************************************)
(* What the two sides of a tunnel take a connection for: the messages one  *)
(* side sends, whichever of its goroutines sends them, are received whole, *)
(* once and in order, up to the one at which the connection ends.          *)
(***************************************************************************)
EXTENDS Naturals, Sequences

CONSTANT Messages

VARIABLES sent, received

vars == <<sent, received>>

Init == sent = <<>> /\ received = <<>>

Send == /\ \E m \in Messages : sent' = Append(sent, m)
        /\ UNCHANGED received

Receive == /\ Len(received) < Len(sent)
           /\ received' = Append(received, sent[Len(received) + 1])
           /\ UNCHANGED sent

Spec == Init /\ [][Send \/ Receive]_vars
=============================================================================
