------------------------------ MODULE Acceptor ------------------------------
(***************************************************************************)
(* How the server of Ex4 gives its slots to the clients that connect:      *)
(* socket_thread looks for a free slot and starts two threads for it, with *)
(* a pointer to its own variable as their argument; a slot is free again   *)
(* when its receiving thread has seen an orderly end.  What the threads    *)
(* say to the client is one answer to one request; GameServer has the      *)
(* rest.  A socket is named after the connection it was accepted for, so   *)
(* that the number of a closed one is not used again.                      *)
(***************************************************************************)
EXTENDS Integers, Sequences, FiniteSets

CONSTANTS
  MAX_NUM_CLIENTS,
  MaxConnections,    \* bound: clients that connect, one after the other
  Endings,           \* how each may end: "left", "broken", or "failed" at once
  WaitForSlot,       \* whether clients come only while a slot is free
  MayLag             \* whether a thread may start after the next client came

ASSUME AcceptorAssumption ==
  /\ MAX_NUM_CLIENTS \in Nat \ {0} /\ MaxConnections \in Nat
  /\ Endings \in [1 .. MaxConnections -> SUBSET {"left", "broken", "failed"}]
  /\ WaitForSlot \in BOOLEAN /\ MayLag \in BOOLEAN

Slot == 0 .. MAX_NUM_CLIENTS - 1
Connection == 1 .. MaxConnections
NoSocket == 0
Free == 0            \* the mutex of a slot's list has no owner
Abandoned == -1      \* its owner has ended

VARIABLES
  g_is_thread_active,
  g_client_socket,
  accept_pc, client_ind, i,   \* socket_thread
  accepted,                   \* connections so far
  peer,                       \* what became of each client
  request,                    \* its request has not been read yet
  receiver, sender,           \* the threads that were started for each
  gp_massage_to_send_hade, g_send_semapore, g_hads_mutex,   \* of each slot
  closed,                     \* sockets the server has closed
  delivered                   \* whose answers each client got

acceptor == <<accept_pc, client_ind, i, accepted>>
slots == <<g_is_thread_active, g_client_socket>>
clients == <<peer, request>>
queues == <<gp_massage_to_send_hade, g_send_semapore, g_hads_mutex>>
vars == <<slots, acceptor, clients, receiver, sender, queues, closed, delivered>>

Thread(pc) == [pc |-> pc, num |-> 0, socket |-> NoSocket]

Init ==
  /\ g_is_thread_active = [c \in Slot |-> FALSE]
  /\ g_client_socket = [c \in Slot |-> NoSocket]
  /\ accept_pc = "accept" /\ client_ind = 0 /\ i = 0 /\ accepted = 0
  /\ peer = [k \in Connection |-> "out"]
  /\ request = [k \in Connection |-> FALSE]
  /\ receiver = [k \in Connection |-> Thread("none")]
  /\ sender = [k \in Connection |-> Thread("none")]
  /\ gp_massage_to_send_hade = [c \in Slot |-> <<>>]
  /\ g_send_semapore = [c \in Slot |-> 0]
  /\ g_hads_mutex = [c \in Slot |-> Free]
  /\ closed = {}
  /\ delivered = [k \in Connection |-> {}]
-----------------------------------------------------------------------------
(* socket_thread                                                           *)

FreeSlots == {c \in Slot : ~g_is_thread_active[c]}
Connected == {k \in Connection : peer[k] = "up"}
Starting(thread) == thread.pc \in {"start", "socket"}

(* Who comes when: no more clients than slots, as the code has it ("we     *)
(* asume we dont have more then 3 clients", line 178); or, fewer still,    *)
(* a client only when a slot is free.                                      *)
MayCome ==
  IF WaitForSlot THEN FreeSlots # {} ELSE Cardinality(Connected) < MAX_NUM_CLIENTS

(* Whether the threads of the last client have read their argument.        *)
InTime ==
  MayLag \/ \A k \in Connection : ~Starting(receiver[k]) /\ ~Starting(sender[k])

Accept ==
  /\ accept_pc = "accept" /\ accepted < MaxConnections /\ MayCome /\ InTime
  /\ accepted' = accepted + 1
  /\ peer' = [peer EXCEPT ![accepted'] = "up"]
  /\ request' = [request EXCEPT ![accepted'] = TRUE]
  /\ client_ind' = 0 /\ i' = 0
  /\ accept_pc' = "look"
  /\ UNCHANGED <<slots, receiver, sender, queues, closed, delivered>>

(* A failed accept is reported and then treated like any other: it takes a *)
(* slot, and its threads fail on a socket that does not exist.             *)
AcceptFails ==
  /\ accept_pc = "accept" /\ accepted < MaxConnections /\ InTime
  /\ accepted' = accepted + 1
  /\ "failed" \in Endings[accepted']
  /\ peer' = [peer EXCEPT ![accepted'] = "broken"]
  /\ client_ind' = 0 /\ i' = 0
  /\ accept_pc' = "look"
  /\ UNCHANGED <<slots, request, receiver, sender, queues, closed, delivered>>

(* The first slot that is free when it is looked at; where none was,       *)
(* client_ind stays 0, and slot 0 is taken all the same.                   *)
LookAtSlot ==
  /\ accept_pc = "look"
  /\ \/ /\ i \in Slot /\ g_is_thread_active[i]
        /\ i' = i + 1
        /\ UNCHANGED <<client_ind, accept_pc>>
     \/ /\ i \in Slot /\ ~g_is_thread_active[i]
        /\ client_ind' = i /\ accept_pc' = "take"
        /\ UNCHANGED i
     \/ /\ i = MAX_NUM_CLIENTS
        /\ accept_pc' = "take"
        /\ UNCHANGED <<client_ind, i>>
  /\ UNCHANGED <<slots, accepted, clients, receiver, sender, queues, closed, delivered>>

(* Variant: the slot is not marked.                                        *)
take_slot_Unmarked(c) == g_is_thread_active
take_slot(c) == [g_is_thread_active EXCEPT ![c] = TRUE]

TakeSlot ==
  /\ accept_pc = "take"
  /\ g_is_thread_active' = take_slot(client_ind)
  /\ accept_pc' = "store"
  /\ UNCHANGED <<g_client_socket, client_ind, i, accepted, clients, receiver, sender, queues,
                 closed, delivered>>

StoreSocket ==
  /\ accept_pc = "store"
  /\ g_client_socket' = [g_client_socket EXCEPT ![client_ind] = accepted]
  /\ accept_pc' = "send"
  /\ UNCHANGED <<g_is_thread_active, client_ind, i, accepted, clients, receiver, sender,
                 queues, closed, delivered>>

CreateSender ==
  /\ accept_pc = "send"
  /\ sender' = [sender EXCEPT ![accepted] = Thread("start")]
  /\ accept_pc' = "recv"
  /\ UNCHANGED <<slots, client_ind, i, accepted, clients, receiver, queues, closed, delivered>>

CreateReceiver ==
  /\ accept_pc = "recv"
  /\ receiver' = [receiver EXCEPT ![accepted] = Thread("start")]
  /\ accept_pc' = "accept"
  /\ UNCHANGED <<slots, client_ind, i, accepted, clients, sender, queues, closed, delivered>>
-----------------------------------------------------------------------------
(* Both threads read their argument, a pointer to client_ind, then the     *)
(* socket of the slot.  Who is late finds what socket_thread has put there *)
(* for the next client, or not yet.                                        *)
started(thread) ==
  IF thread.pc = "start" THEN [thread EXCEPT !.pc = "socket", !.num = client_ind]
  ELSE [thread EXCEPT !.pc = "loop", !.socket = g_client_socket[thread.num]]

Dead(socket) ==
  socket \in {NoSocket} \cup closed \cup {k \in Connection : peer[k] = "broken"}

Loops(thread, then) ==
  [thread EXCEPT !.pc = IF g_is_thread_active[thread.num] THEN then ELSE "ended"]

ReceiverStarts(k) ==
  /\ Starting(receiver[k])
  /\ receiver' = [receiver EXCEPT ![k] = started(@)]
  /\ UNCHANGED <<slots, acceptor, clients, sender, queues, closed, delivered>>

SenderStarts(k) ==
  /\ Starting(sender[k])
  /\ sender' = [sender EXCEPT ![k] = started(@)]
  /\ UNCHANGED <<slots, acceptor, clients, receiver, queues, closed, delivered>>
-----------------------------------------------------------------------------
(* recive_from_client_thread                                               *)

Abandon(k, c) ==
  g_hads_mutex' = [g_hads_mutex EXCEPT ![c] = IF @ = k THEN Abandoned ELSE @]

ReceiverLoops(k) ==
  /\ receiver[k].pc = "loop"
  /\ receiver' = [receiver EXCEPT ![k] = Loops(@, "recv")]
  /\ IF g_is_thread_active[receiver[k].num] THEN UNCHANGED g_hads_mutex
     ELSE Abandon(k, receiver[k].num)
  /\ UNCHANGED <<slots, acceptor, clients, sender, gp_massage_to_send_hade, g_send_semapore,
                 closed, delivered>>

ReceiveRequest(k) ==
  LET socket == receiver[k].socket IN
  /\ receiver[k].pc = "recv" /\ ~Dead(socket) /\ request[socket]
  /\ request' = [request EXCEPT ![socket] = FALSE]
  /\ receiver' = [receiver EXCEPT ![k].pc = "post"]
  /\ UNCHANGED <<slots, acceptor, peer, sender, queues, closed, delivered>>

(* send_message_to_client: an abandoned mutex is an error, and kept.       *)
PostAnswer(k) ==
  LET c == receiver[k].num IN
  /\ receiver[k].pc = "post"
  /\ \/ /\ g_hads_mutex[c] \in {Free, k}
        /\ gp_massage_to_send_hade' =
             [gp_massage_to_send_hade EXCEPT ![c] = Append(@, receiver[k].socket)]
        /\ g_send_semapore' = [g_send_semapore EXCEPT ![c] = @ + 1]
        /\ UNCHANGED g_hads_mutex
     \/ /\ g_hads_mutex[c] = Abandoned
        /\ g_hads_mutex' = [g_hads_mutex EXCEPT ![c] = k]
        /\ UNCHANGED <<gp_massage_to_send_hade, g_send_semapore>>
  /\ receiver' = [receiver EXCEPT ![k].pc = "loop"]
  /\ UNCHANGED <<slots, acceptor, clients, sender, closed, delivered>>

(* Variant: the slot is not given up.                                      *)
free_slot_Kept(c) == g_is_thread_active
free_slot(c) == [g_is_thread_active EXCEPT ![c] = FALSE]

(* An orderly end frees the slot before the socket is closed.              *)
ReceiveEnd(k) ==
  LET c == receiver[k].num
      socket == receiver[k].socket
  IN
  /\ receiver[k].pc = "recv" /\ ~Dead(socket)
  /\ peer[socket] = "left" /\ ~request[socket]
  /\ g_is_thread_active' = free_slot(c)
  /\ receiver' = [receiver EXCEPT ![k].pc = "close"]
  /\ UNCHANGED <<g_client_socket, acceptor, clients, sender, queues, closed, delivered>>

(* Any other end leaves the slot as it is.                                 *)
ReceiveFails(k) ==
  /\ receiver[k].pc = "recv" /\ Dead(receiver[k].socket)
  /\ receiver' = [receiver EXCEPT ![k].pc = "ended"]
  /\ Abandon(k, receiver[k].num)
  /\ UNCHANGED <<slots, acceptor, clients, sender, gp_massage_to_send_hade, g_send_semapore,
                 closed, delivered>>

(* Variant: the socket that the slot has by now is closed.                 *)
socket_to_close_OfSlot(thread) == g_client_socket[thread.num]
socket_to_close(thread) == thread.socket

CloseSocket(k) ==
  /\ receiver[k].pc = "close"
  /\ closed' = closed \cup {socket_to_close(receiver[k])}
  /\ receiver' = [receiver EXCEPT ![k].pc = "ended"]
  /\ Abandon(k, receiver[k].num)
  /\ UNCHANGED <<slots, acceptor, clients, sender, gp_massage_to_send_hade, g_send_semapore,
                 delivered>>
-----------------------------------------------------------------------------
(* send_to_client_thread                                                   *)

SenderLoops(k) ==
  /\ sender[k].pc = "loop"
  /\ sender' = [sender EXCEPT ![k] = Loops(@, "wait")]
  /\ UNCHANGED <<slots, acceptor, clients, receiver, queues, closed, delivered>>

TakePermit(k) ==
  LET c == sender[k].num IN
  /\ sender[k].pc = "wait" /\ g_send_semapore[c] > 0
  /\ g_send_semapore' = [g_send_semapore EXCEPT ![c] = @ - 1]
  /\ sender' = [sender EXCEPT ![k].pc = "send"]
  /\ UNCHANGED <<slots, acceptor, clients, receiver, gp_massage_to_send_hade, g_hads_mutex,
                 closed, delivered>>

(* The first message of the list, while the mutex is held.                 *)
SendAnswer(k) ==
  LET c == sender[k].num
      socket == sender[k].socket
  IN
  /\ sender[k].pc = "send" /\ g_hads_mutex[c] = Free /\ gp_massage_to_send_hade[c] # <<>>
  /\ ~Dead(socket)
  /\ delivered' = [delivered EXCEPT ![socket] = @ \cup {Head(gp_massage_to_send_hade[c])}]
  /\ gp_massage_to_send_hade' = [gp_massage_to_send_hade EXCEPT ![c] = Tail(@)]
  /\ sender' = [sender EXCEPT ![k].pc = "loop"]
  /\ UNCHANGED <<slots, acceptor, clients, receiver, g_send_semapore, g_hads_mutex, closed>>

(* The send fails, or the mutex was abandoned: the thread ends with it.    *)
SenderFails(k) ==
  LET c == sender[k].num
      socket == sender[k].socket
  IN
  /\ sender[k].pc = "send"
  /\ \/ g_hads_mutex[c] = Free /\ (Dead(socket) \/ socket \notin Connected)
     \/ g_hads_mutex[c] = Abandoned
  /\ g_hads_mutex' = [g_hads_mutex EXCEPT ![c] = Abandoned]
  /\ sender' = [sender EXCEPT ![k].pc = "ended"]
  /\ UNCHANGED <<slots, acceptor, clients, receiver, gp_massage_to_send_hade,
                 g_send_semapore, closed, delivered>>
-----------------------------------------------------------------------------
Leave(k) ==
  /\ peer[k] = "up" /\ peer' = [peer EXCEPT ![k] = "left"]
  /\ "left" \in Endings[k]
  /\ UNCHANGED <<slots, acceptor, request, receiver, sender, queues, closed, delivered>>

Break(k) ==
  /\ peer[k] = "up" /\ peer' = [peer EXCEPT ![k] = "broken"]
  /\ "broken" \in Endings[k]
  /\ UNCHANGED <<slots, acceptor, request, receiver, sender, queues, closed, delivered>>

socket_thread == LookAtSlot \/ TakeSlot \/ StoreSocket \/ CreateSender \/ CreateReceiver
ReceiverStep(k) ==
  ReceiverStarts(k) \/ ReceiverLoops(k) \/ ReceiveRequest(k) \/ PostAnswer(k)
    \/ ReceiveEnd(k) \/ ReceiveFails(k) \/ CloseSocket(k)
SenderStep(k) ==
  SenderStarts(k) \/ SenderLoops(k) \/ TakePermit(k) \/ SendAnswer(k) \/ SenderFails(k)

Next ==
  \/ Accept \/ AcceptFails \/ socket_thread
  \/ \E k \in Connection : ReceiverStep(k) \/ SenderStep(k) \/ Leave(k) \/ Break(k)

Spec == Init /\ [][Next]_vars

(* Some thread that can run does: every thread ends or comes to wait, so   *)
(* none is left out for ever.                                              *)
ServerStep == socket_thread \/ \E k \in Connection : ReceiverStep(k) \/ SenderStep(k)
FairSpec == Spec /\ WF_vars(ServerStep)
-----------------------------------------------------------------------------
(* The thread was late: it has the socket of another client, or none.      *)
Misled(thread, k) == thread.pc \notin {"none", "start", "socket"} /\ thread.socket # k
AnyoneMisled == \E k \in Connection : Misled(receiver[k], k) \/ Misled(sender[k], k)

(* The comment at line 178 takes no more clients than slots for room       *)
(* enough.  It is, and a client that comes finds a free slot, but for a    *)
(* client that broke off (line 205) or an accept that failed (143), whose  *)
(* slots nobody gives up; a client whose end is not noticed yet; and a     *)
(* late thread, which gives up a slot that is not its client's (172).      *)
(* Where there is no slot the client is given one in use: slot 0, also     *)
(* when another one was given up behind the search.                        *)
RoomForEveryone ==
  /\ accept_pc \in {"look", "take"} /\ FreeSlots = {} =>
       \/ AnyoneMisled
       \/ \E k \in Connection :
            \/ peer[k] = "broken"
            \/ peer[k] = "left" /\ receiver[k].pc \notin {"close", "ended"}
  /\ accept_pc = "take" /\ g_is_thread_active[client_ind] =>
       AnyoneMisled \/ \E k \in Connection : peer[k] \in {"left", "broken"}

(* The server closes no socket under a client who is still there, although *)
(* a slot may have its next client before the last one's thread is done.   *)
(* Nor is a socket closed twice, when its number may be another client's,  *)
(* unless a late thread has got it too.                                    *)
ClosesOnlyItsOwn ==
  /\ \A k \in closed : peer[k] # "up"
  /\ ~AnyoneMisled => \A k \in Connection :
       receiver[k].pc = "close" => receiver[k].socket \notin closed

(* A client that came and stays gets its answer.  Of a slot that is used   *)
(* again the old sending thread may take the permit and fail, with the     *)
(* mutex: the new client is then never answered.                           *)
EveryClientIsAnswered ==
  \A k \in Connection : peer[k] = "up" ~> k \in delivered[k] \/ peer[k] # "up"

(* It does as long as nobody has ended, and each thread has the socket of  *)
(* its client.                                                             *)
FirstClientsAreAnswered ==
  \A k \in Connection :
    peer[k] = "up" ~>
      \/ k \in delivered[k] \/ AnyoneMisled
      \/ \E j \in Connection : peer[j] \in {"left", "broken"}
=============================================================================
