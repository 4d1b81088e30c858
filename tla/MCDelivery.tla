----------------------------- MODULE MCDelivery -----------------------------
(* Values of the constants of Delivery for TLC: the client's own receiving *)
(* thread and the one of the other player.                                 *)
EXTENDS Delivery

CONSTANTS own, other
MCWriter == {own, other}
MCMessageLen == <<1, 2, 1>>
=============================================================================
