------------------------------ MODULE ClientProps ------------------------------
(***************************************************************************)
(* What holds of the client of Ex4, and what its menu promises.            *)
(***************************************************************************)
EXTENDS ClientSession

(* Main in its dialogue with server and user, before it releases anything. *)
InDialogue ==
  pc["main"] \in {"post", "permit", "respond", "await", "flag", "take", "choose", "graceful",
                  "join"}
Count(condition) == IF condition THEN 1 ELSE 0

(* client_response uses the head of the received list without a look       *)
(* (line 686): the permits it waits for are as many as the messages,  *)
(* but for the one that tells of a failure and the message of a receiver   *)
(* that found the semaphore full.  So it takes the head of an empty list   *)
(* only between the receiver's alarm and its flag (lines 145-154).         *)
ReceivedHasPermit ==
  InDialogue /\ has_sync =>
    g_rcev_semapore + Count(pc["main"] \in {"flag", "take"}) + Count(pc["receiver"] = "signal")
        + Count(pc["receiver"] = "failed" /\ ~is_trans_failed)
      = Len(gp_recived_massge_hade) + Count(pc["receiver"] = "raise" \/ is_trans_failed)

(* No thread of a connection is left with closed objects, wherever main    *)
(* gave up (release_source, lines 1083-1112): as long as the client does   *)
(* not connect again.                                                      *)
ObjectsOutliveThreads ==
  session <= 1 /\ ~has_sync => ~Active("sender") /\ ~Active("receiver")

(* The detailed client behaves like the one the server model has: each     *)
(* question is answered once and in order, the request comes first, and    *)
(* what it says reaches the connection in the order in which main said it. *)
Unasked == pc["main"] \in {"connect", "create_sender", "create_receiver"}
             \/ (pc["main"] = "post" /\ posting = "CLIENT_REQUEST")
Gone ==
  \/ g_main_socket # "open" \/ ~has_sync \/ ~Active("sender") \/ ~Running
  \/ pc["main"] \in {"release", "reset"} /\ (to_release = <<>> \/ Head(to_release) # "list")
at == IF Unasked THEN "out" ELSE IF Gone THEN "gone" ELSE "in"

One(m) == IF m \in Message THEN <<m>> ELSE <<>>
said_to_client == IF ServerGone THEN SubSeq(to_client, 1, Len(to_client) - 1) ELSE to_client
coming == IF Active("receiver") THEN One(accepted) \o said_to_client ELSE <<>>
inbox == IF at = "in" THEN One(massage) \o gp_recived_massge_hade \o coming ELSE <<>>
outbox ==
  IF at = "out" THEN <<>>
  ELSE to_server \o (IF at = "in" THEN gp_massage_to_send_hade ELSE <<>>)
ThePlayer == INSTANCE Player
IsAPlayer == ThePlayer!Spec

(* Whatever the server and the threads do, main comes to an end once it    *)
(* releases its resources or the user has quit (lines 742-749).            *)
LeavesInTheEnd ==
  pc["main"] = "release" \/ posting = "CLIENT_DISCONNECT" ~> ~Running

(* When the receiver has seen the connection break, the program ends.      *)
BrokenConnectionEnds == is_trans_failed ~> ~Running

(* A user who is refused may choose "1. Try to reconnect" (line 708): then *)
(* the client asks the server again.                                       *)
ReconnectAsksAgain == pc["main"] = "reset" ~> session = 2 /\ to_server # <<>>
=============================================================================
