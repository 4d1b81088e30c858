------------------------------- MODULE Delivery -------------------------------
(***************************************************************************)
(* The whole way of a message from the threads of the server of Ex4 to a   *)
(* client: SendQueue's threads, whose sender puts what it takes from the   *)
(* list on the stream of Transport, in as many calls as it takes, while    *)
(* it holds the mutex, and the client, which receives.  The client may     *)
(* leave; then its receiving thread in the server shuts the connection     *)
(* down, whatever the sender is about.                                     *)
(***************************************************************************)
EXTENDS SendQueue

CONSTANTS
  SIZE_BYTES,       \* sizeof(int)
  MessageLen        \* the length of the n-th message that is sent

VARIABLES
  called, to_send,                          \* SendString
  stream, conn,                             \* the connection
  receiving, got, want, received, recv_res  \* ReceiveString

Wire == INSTANCE Transport WITH link <- conn

ASSUME DeliveryAssumption == Wire!ConstantsOK /\ Len(MessageLen) >= MaxPosts

wire == <<called, to_send, stream, conn, receiving, got, want, received, recv_res>>
all == <<vars, wire>>

DeliveryInit == Init /\ Wire!Init
-----------------------------------------------------------------------------
(* SendString, by the sender                                               *)

BeginsMessage ==
  /\ send_pc = "send" /\ gp_massage_to_send_hade # <<>>
  /\ called = Len(sent)
  /\ Wire!CallSendString
  /\ UNCHANGED vars

SendsBytes == Wire!SendSome /\ UNCHANGED vars

SendReturns ==
  /\ called = Len(sent) + 1 /\ to_send = <<>>
  /\ SenderSends
  /\ UNCHANGED wire

SendReturnsError == SenderFails /\ Wire!SendFails

SendString == BeginsMessage \/ SendsBytes \/ SendReturns \/ SendReturnsError

(* The other steps of the queue's threads.                                 *)
SenderStepD ==
  \/ SendString
  \/ /\ SenderLoops \/ SenderTakesPermit \/ SenderLocks \/ SenderRemoves \/ SenderGoesOn
     /\ UNCHANGED wire
WriterStepD(w) == WriterStep(w) /\ UNCHANGED wire
CallSendD(w) == CallSend(w) /\ UNCHANGED wire
-----------------------------------------------------------------------------
(* The client receives; it leaves in order, and its connection may be gone *)
(* with it or later.                                                       *)
ClientReceives == (Wire!ReceiveSome \/ Wire!ReceiveEnd) /\ UNCHANGED vars

ClientLeaves == Cut /\ UNCHANGED wire
ConnectionBreaks == Wire!Break /\ (Cut \/ (link = "cut" /\ UNCHANGED vars))

(* Its receiving thread in the server: an orderly end shuts the socket     *)
(* down and frees the slot.                                                *)
OwnShuts ==
  /\ OwnEnds
  /\ IF conn = "broken"
     THEN g_is_thread_active' = g_is_thread_active /\ UNCHANGED wire
     ELSE g_is_thread_active' = FALSE /\ Wire!Shut
-----------------------------------------------------------------------------
DeliveryNext ==
  \/ \E w \in Writer : CallSendD(w) \/ WriterStepD(w)
  \/ SenderStepD \/ ClientReceives \/ OwnShuts \/ ClientLeaves \/ ConnectionBreaks

DeliverySpec ==
  /\ DeliveryInit /\ [][DeliveryNext]_all
  /\ WF_all(SenderStepD) /\ WF_all(ClientReceives)
  /\ \A w \in Writer : WF_all(WriterStepD(w))
-----------------------------------------------------------------------------
(* What the client has received, and what has still to arrive: calls of    *)
(* SendString follow the list.                                             *)
begun(k) ==
  IF k \in DOMAIN sent THEN sent[k]
  ELSE IF k = Len(sent) + 1 /\ gp_massage_to_send_hade # <<>>
       THEN Head(gp_massage_to_send_hade) ELSE 0
arrived == [k \in DOMAIN received |-> begun(received[k])]
to_come ==
  LET accepted == sent \o
        (IF send_pc = "remove" THEN Tail(gp_massage_to_send_hade) ELSE gp_massage_to_send_hade)
  IN  SubSeq(accepted, Len(received) + 1, Len(accepted))

(* From end to end: the client receives the messages that were appended to *)
(* its list, whole, in their order and each once, however threads, sends   *)
(* and receives interleave, and whenever the connection ends.              *)
Arrival == INSTANCE Mailbox WITH box <- to_come, sent <- arrived, losses <- failures
ArrivesInOrder == Arrival!Spec

(* An orderly end loses nothing: when the client sees it, all that the     *)
(* sender has sent has arrived, and only a message that the shut-down cut  *)
(* short is missing.                                                       *)
OrderlyEndLosesNothing ==
  recv_res = "TRNS_DISCONNECTED" =>
    /\ Len(received) >= Len(sent)
    /\ (receiving = "size" /\ want = SIZE_BYTES) \/ called > Len(received)

(* While the client stays, a message that was appended arrives, but for    *)
(* one whose permit could not be given or whose list was lost.             *)
EveryMessageArrives ==
  \A m \in Message :
    (\E i \in DOMAIN gp_massage_to_send_hade : gp_massage_to_send_hade[i] = m)
      ~> \/ \E i \in DOMAIN arrived : arrived[i] = m
         \/ link = "cut" \/ unsignalled > 0 \/ failures > 0
=============================================================================
