------------------------------- MODULE Mailbox -------------------------------
(***************************************************************************)
(* What the threads of the server of Ex4 expect of the way to a client:    *)
(* messages leave in the order in which they were posted, each once, and   *)
(* when the memory they are in is lost, from some message on none is left. *)
(***************************************************************************)
EXTENDS Naturals, Sequences

CONSTANT Message

VARIABLES
  box,    \* posted and not yet sent
  sent,   \* sent so far
  losses  \* how often the box was lost

Init == box = <<>> /\ sent = <<>> /\ losses = 0

Post(m) == box' = Append(box, m) /\ UNCHANGED <<sent, losses>>

Deliver ==
  /\ box # <<>>
  /\ sent' = Append(sent, Head(box))
  /\ box' = Tail(box)
  /\ UNCHANGED losses

Lose ==
  /\ \E k \in 0 .. Len(box) : box' = SubSeq(box, 1, k)
  /\ losses' = losses + 1
  /\ UNCHANGED sent

Next == (\E m \in Message : Post(m)) \/ Deliver \/ Lose

Spec == Init /\ [][Next]_<<box, sent, losses>>
=============================================================================
