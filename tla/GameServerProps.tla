-------------------------- MODULE GameServerProps --------------------------
(***************************************************************************)
(* What the server of Ex4 promises its clients.                           *)
(***************************************************************************)
EXTENDS GameServer, Functions

(* A client hears of nothing before it hears whether it is let in: a       *)
(* player cannot be drawn into a game by the other player's thread while   *)
(* its own request is still unanswered (server_send_response).  Each slot  *)
(* has one client here: a slot's next client may be sent what the thread   *)
(* of an opponent was about to post to the one before.                     *)
AnsweredFirst ==
  \A c \in Clients : client[c] = "asking" /\ to_client[c] # <<>> =>
    Head(to_client[c]) \in {"SERVER_APPROVED", "SERVER_DENIED"}

(* The third client gets one message, the denial, and none of the players  *)
(* is asked about it.                                                      *)
ThirdIsDenied ==
  \A c \in Clients \ Players :
    /\ \A i \in DOMAIN to_client[c] : to_client[c][i] = "SERVER_DENIED"
    /\ Len(to_client[c]) + Len(gp_massage_to_send_hade[c]) + Len(todo[c]) <= 1
    /\ client[c] \in {"out", "asking", "left"}

(* While nobody leaves, the dialogue never goes silent: when nothing is    *)
(* under way, nobody is connected; otherwise some user has a menu or a     *)
(* request for a move before him.  Each answer of the server ends with a   *)
(* question to somebody.                                                   *)
Quiet ==
  /\ \A c \in Clients :
       /\ todo[c] = <<>> /\ recv_pc[c] \in {"off", "recv", "ended"}
       /\ send_pc[c] # "respond"
       /\ gp_massage_to_send_hade[c] = <<>> /\ to_client[c] = <<>> /\ to_server[c] = <<>>
NeverSilent ==
  Quiet => \/ \A c \in Clients : client[c] = "out"
           \/ \E c \in Clients : client[c] = "left"

(* A request for a game is not forgotten: until its user hears of a game   *)
(* or that there is none, the request or its answer is under way, or the   *)
(* server waits for the other player.  It waits for an event which only    *)
(* the waiting thread can set, by receiving (lines 446-447 of the server): *)
(* the wait ends with its time-out, which is answered; if the event were   *)
(* set, it would end without an answer.                                    *)
settles(message) == message \in {"GAME_STARTED", "SERVER_NO_OPPONENTS"}
VersusIsPending ==
  \A p \in Players :
    /\ recv_pc[p] = "wait" => ~g_wait_for_client_event[p]
    /\ client[p] = "versus" =>
         \/ recv_pc[p] \in {"check", "wait"}
         \/ <<"CLIENT_VERSUS">> \in Range(to_server[p])
         \/ \E message \in Range(gp_massage_to_send_hade[p]) \cup Range(to_client[p]) :
              settles(message)
         \/ \E c \in Clients : \E post \in Range(todo[c]) : post[1] = p /\ settles(post[2])

(* Whether a number has a seven among its digits, and its first digit.    *)
has_seven[n \in Nat] == n % 10 = 7 \/ (n > 9 /\ has_seven[n \div 10])
first_digit[n \in Nat] == IF n > 9 THEN first_digit[n \div 10] ELSE n
=============================================================================
