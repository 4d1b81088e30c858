-------------------------------- MODULE Player --------------------------------
(***************************************************************************)
(* What the server of Ex4 may expect of a client, whatever threads, lists  *)
(* and time-outs it is made of: it speaks first, takes what it is told in  *)
(* order, and answers each question once, when it has read it.  GameServer *)
(* has its clients behave like this.                                       *)
(***************************************************************************)
EXTENDS Naturals, Sequences

CONSTANTS Message    \* what a server may say

VARIABLES
  at,       \* "out", "in", or "gone": nothing more is heard of it
  inbox,    \* said to the client and not yet dealt with
  outbox    \* said by the client on this connection

vars == <<at, inbox, outbox>>

Init == at = "out" /\ inbox = <<>> /\ outbox = <<>>

Hello ==
  /\ at = "out" /\ at' = "in"
  /\ outbox' = <<"CLIENT_REQUEST">>
  /\ UNCHANGED inbox

Hear ==
  /\ at = "in"
  /\ \E m \in Message : inbox' = Append(inbox, m)
  /\ UNCHANGED <<at, outbox>>

answers(m) ==
  CASE m = "SERVER_MAIN_MENU" -> {"CLIENT_VERSUS", "CLIENT_DISCONNECT"}
    [] m = "SERVER_MOVE_REQUEST" -> {"CLIENT_PLAYER_MOVE"}
    [] OTHER -> {}

Answer ==
  /\ at = "in" /\ inbox # <<>>
  /\ \E answer \in answers(Head(inbox)) : outbox' = Append(outbox, answer)
  /\ inbox' = Tail(inbox)
  /\ UNCHANGED at

Read ==
  /\ at = "in" /\ inbox # <<>>
  /\ answers(Head(inbox)) = {} /\ Head(inbox) # "SERVER_DENIED"
  /\ inbox' = Tail(inbox)
  /\ UNCHANGED <<at, outbox>>

(* The connection breaks: what was under way to the client is lost.        *)
Miss ==
  /\ at = "in"
  /\ \E k \in 0 .. Len(inbox) : inbox' = SubSeq(inbox, 1, k)
  /\ UNCHANGED <<at, outbox>>

(* The client is gone, and the last things it said may never have left.    *)
Leave ==
  /\ at # "gone" /\ at' = "gone"
  /\ inbox' = <<>>
  /\ \E k \in 0 .. Len(outbox) : outbox' = SubSeq(outbox, 1, k)

Return ==
  /\ at = "gone" /\ at' = "out"
  /\ inbox' = <<>> /\ outbox' = <<>>

Next == Hello \/ Hear \/ Answer \/ Read \/ Miss \/ Leave \/ Return

Spec == Init /\ [][Next]_vars
=============================================================================
