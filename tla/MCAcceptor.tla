----------------------------- MODULE MCAcceptor -----------------------------
(* Values of the constants of Acceptor for TLC: how the clients may end, in *)
(* the order in which they come.                                            *)
EXTENDS Acceptor

MCEndings == <<{"left", "broken", "failed"}, {}, {}>>
MCOneLeaves == <<{"left"}, {}>>

(* Where a thread has come too late the properties claim no more, but that *)
(* no socket is closed under its client, which is proved.  Two threads at  *)
(* a time are on their way, of one client or of two.                       *)
NobodyMisled == ~AnyoneMisled
TwoOnTheirWay ==
  Cardinality({k \in Connection : Starting(receiver[k])})
    + Cardinality({k \in Connection : Starting(sender[k])}) <= 2
=============================================================================
