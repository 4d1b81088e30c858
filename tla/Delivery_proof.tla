---------------------------- MODULE Delivery_proof ----------------------------
(***************************************************************************)
(* Proofs about the way of a message to a client: first the list, its      *)
(* mutex and its permits (SendQueue), then the bytes between the sender    *)
(* and the client, and what arrives (Delivery); for any number of writers, *)
(* messages of any length, permits and failed allocations.                 *)
(***************************************************************************)
EXTENDS Delivery, FiniteSetTheorems, SequenceTheorems, TLAPS

(* Whoever is between its wait for the mutex and the release owns it.      *)
Owners ==
  /\ \A w \in Writer : write_pc[w] = "append" => g_hads_mutex = w
  /\ send_pc \in {"send", "remove"} => g_hads_mutex = Sender
  /\ kept => g_hads_mutex \in Writer

(* A writer on its way to the list has a message in hand, and the message  *)
(* that the sender is about to remove is there.                            *)
InHand ==
  /\ \A w \in Writer : write_pc[w] \in {"lock", "append"} => message[w] \in Message
  /\ send_pc = "remove" => gp_massage_to_send_hade # <<>>

ListInv == TypeOK /\ Owners /\ InHand

-----------------------------------------------------------------------------
(* The steps of the writers.                                               *)

LEMMA CallSendKeepsList ==
  ASSUME ListInv, NEW w \in Writer, CallSend(w)
  PROVE  ListInv'
<1>1. posts + 1 \in Message
  BY SendQueueAssumption DEF SendQueueAssumption, CallSend, Message, ListInv, TypeOK
<1>2. TypeOK'
  BY <1>1 DEF ListInv, TypeOK, CallSend, lock
<1>3. Owners'
  BY DEF ListInv, TypeOK, Owners, CallSend, lock
<1>4. InHand'
  BY <1>1 DEF ListInv, TypeOK, InHand, CallSend
<1>5. QED BY <1>2, <1>3, <1>4 DEF ListInv

LEMMA WriterLocksKeepsList ==
  ASSUME ListInv, NEW w \in Writer, WriterLocks(w)
  PROVE  ListInv'
<1>1. TypeOK'
  BY DEF ListInv, TypeOK, WriterLocks, LockList, Acquire
<1>2. Owners'
  BY SenderAssumption
     DEF SenderAssumption, Sender, ListInv, TypeOK, Owners, WriterLocks, LockList, Acquire,
         mutex_free_for
<1>3. InHand'
  BY DEF ListInv, TypeOK, InHand, WriterLocks
<1>4. QED BY <1>1, <1>2, <1>3 DEF ListInv

LEMMA WriterFindsAbandonedKeepsList ==
  ASSUME ListInv, NEW w \in Writer, WriterFindsAbandoned(w)
  PROVE  ListInv'
<1>1. TypeOK'
  BY DEF ListInv, TypeOK, WriterFindsAbandoned
<1>2. Owners'
  BY SenderAssumption
     DEF SenderAssumption, Sender, ListInv, TypeOK, Owners, WriterFindsAbandoned
<1>3. InHand'
  BY DEF ListInv, TypeOK, InHand, WriterFindsAbandoned
<1>4. QED BY <1>1, <1>2, <1>3 DEF ListInv

(* While a writer is in the list the sender is not.                        *)
LEMMA WriterAlone ==
  ASSUME Owners, NEW w \in Writer, write_pc[w] = "append"
  PROVE  /\ send_pc \notin {"send", "remove"}
         /\ \A v \in Writer \ {w} : write_pc[v] # "append"
  BY SenderAssumption DEF SenderAssumption, Owners

LEMMA WriterAppendsKeepsList ==
  ASSUME ListInv, NEW w \in Writer, WriterAppends(w)
  PROVE  ListInv'
<1>1. send_pc \notin {"send", "remove"} /\ \A v \in Writer \ {w} : write_pc[v] # "append"
  BY WriterAlone DEF ListInv, WriterAppends
<1>2. gp_massage_to_send_hade' \in Seq(Message)
  <2>1. message[w] \in Message
    BY DEF ListInv, InHand, WriterAppends
  <2>2. gp_massage_to_send_hade \in Seq(Message)
    BY DEF ListInv, TypeOK
  <2>3. Append(gp_massage_to_send_hade, message[w]) \in Seq(Message)
    BY <2>1, <2>2
  <2>4. << >> \in Seq(Message)
    OBVIOUS
  <2>5. QED BY <2>3, <2>4 DEF WriterAppends, add_message_to_cell_arr
<1>3. TypeOK'
  BY <1>2 DEF ListInv, TypeOK, WriterAppends, ReleaseMutex
<1>4. Owners'
  BY <1>1 DEF ListInv, TypeOK, Owners, WriterAppends, ReleaseMutex
<1>5. InHand'
  BY <1>1 DEF ListInv, TypeOK, InHand, WriterAppends
<1>6. QED BY <1>3, <1>4, <1>5 DEF ListInv

LEMMA WriterSignalsKeepsList ==
  ASSUME ListInv, NEW w \in Writer, WriterSignals(w)
  PROVE  ListInv'
<1>1. TypeOK'
  BY SendQueueAssumption
     DEF SendQueueAssumption, ListInv, TypeOK, WriterSignals, permits_added, lock
<1>2. Owners'
  BY DEF ListInv, TypeOK, Owners, WriterSignals, lock
<1>3. InHand'
  BY DEF ListInv, TypeOK, InHand, WriterSignals
<1>4. QED BY <1>1, <1>2, <1>3 DEF ListInv

LEMMA OwnEndsKeepsList ==
  ASSUME ListInv, OwnEnds
  PROVE  ListInv'
<1>0. Own \in Writer
  BY SendQueueAssumption DEF SendQueueAssumption
<1>1. TypeOK'
  BY <1>0 DEF ListInv, TypeOK, OwnEnds, EndsWith, lock
<1>2. Owners'
  BY <1>0, SenderAssumption
     DEF SenderAssumption, ListInv, TypeOK, Owners, OwnEnds, EndsWith, lock
<1>3. InHand'
  BY <1>0 DEF ListInv, TypeOK, InHand, OwnEnds
<1>4. QED BY <1>1, <1>2, <1>3 DEF ListInv

-----------------------------------------------------------------------------
(* The steps of the sender, and the end of the connection.                 *)

LEMMA SenderStepKeepsList ==
  ASSUME ListInv, SenderStep
  PROVE  ListInv'
<1>1. CASE SenderLoops
  BY <1>1 DEF ListInv, TypeOK, Owners, InHand, SenderLoops, lock, writers
<1>2. CASE SenderTakesPermit
  BY <1>2, SendQueueAssumption
     DEF SendQueueAssumption, ListInv, TypeOK, Owners, InHand, SenderTakesPermit,
         lock, writers
<1>3. CASE SenderLocks
  <2>1. TypeOK'
    BY <1>3 DEF ListInv, TypeOK, SenderLocks, Acquire, lock, writers
  <2>2. Owners'
    BY <1>3, SenderAssumption
       DEF SenderAssumption, Sender, ListInv, TypeOK, Owners, SenderLocks, Acquire,
           mutex_free_for, lock, writers
  <2>3. InHand'
    BY <1>3 DEF ListInv, InHand, SenderLocks, writers
  <2>4. QED BY <2>1, <2>2, <2>3 DEF ListInv
<1>4. CASE SenderSends
  <2>1. sent' \in Seq(Message)
    BY <1>4 DEF ListInv, TypeOK, SenderSends
  <2>2. QED
    BY <1>4, <2>1 DEF ListInv, TypeOK, Owners, InHand, SenderSends, lock, writers
<1>5. CASE SenderFails
  <2>1. TypeOK'
    BY <1>5 DEF ListInv, TypeOK, SenderFails, EndsWith, lock, writers
  <2>2. Owners'
    BY <1>5, SenderAssumption
       DEF SenderAssumption, Sender, ListInv, TypeOK, Owners, SenderFails, EndsWith, lock, writers
  <2>3. InHand'
    BY <1>5 DEF ListInv, InHand, SenderFails, writers
  <2>4. QED BY <2>1, <2>2, <2>3 DEF ListInv
<1>6. CASE SenderRemoves
  <2>1. gp_massage_to_send_hade' \in Seq(Message)
    BY <1>6 DEF ListInv, TypeOK, InHand, SenderRemoves
  <2>2. TypeOK'
    BY <1>6, <2>1 DEF ListInv, TypeOK, SenderRemoves, ReleaseMutex, lock, writers
  <2>3. Owners'
    BY <1>6, SenderAssumption
       DEF SenderAssumption, Sender, ListInv, TypeOK, Owners, SenderRemoves, ReleaseMutex,
           lock, writers
  <2>4. InHand'
    BY <1>6 DEF ListInv, InHand, SenderRemoves, writers
  <2>5. QED BY <2>2, <2>3, <2>4 DEF ListInv
<1>7. CASE SenderGoesOn
  BY <1>7 DEF ListInv, TypeOK, Owners, InHand, SenderGoesOn, lock, writers
<1>8. QED BY <1>1, <1>2, <1>3, <1>4, <1>5, <1>6, <1>7 DEF SenderStep

LEMMA InitList == Init => ListInv
<1>1. SUFFICES ASSUME Init PROVE ListInv
  OBVIOUS
<1>2. TypeOK
  <2>1. << >> \in Seq(Message)
    OBVIOUS
  <2>2. 0 \in 0 .. MAX_MESSAGES_IN_BUF
    BY SendQueueAssumption DEF SendQueueAssumption
  <2>3. QED BY <1>1, <2>1, <2>2 DEF Init, TypeOK
<1>3. QED BY <1>1, <1>2 DEF Init, ListInv, Owners, InHand

LEMMA NextKeepsList == ListInv /\ [Next]_vars => ListInv'
<1>1. SUFFICES ASSUME ListInv, [Next]_vars PROVE ListInv'
  OBVIOUS
<1>2. CASE \E w \in Writer : CallSend(w) \/ WriterStep(w)
  BY <1>1, <1>2, CallSendKeepsList, WriterLocksKeepsList, WriterFindsAbandonedKeepsList,
     WriterAppendsKeepsList, WriterSignalsKeepsList
     DEF WriterStep
<1>3. CASE OwnEnds
  BY <1>1, <1>3, OwnEndsKeepsList
<1>4. CASE SenderStep
  BY <1>1, <1>4, SenderStepKeepsList
<1>5. CASE Cut
  BY <1>1, <1>5 DEF ListInv, TypeOK, Owners, InHand, Cut, lock, writers
<1>6. CASE UNCHANGED vars
  BY <1>1, <1>6 DEF ListInv, TypeOK, Owners, InHand, vars, lock, writers
<1>7. QED BY <1>1, <1>2, <1>3, <1>4, <1>5, <1>6 DEF Next

(* The list is in order: the invariant of the list, its mutex and the      *)
(* messages in the hands of its threads.                                   *)
THEOREM ListInvariant == Spec => []ListInv
  BY InitList, NextKeepsList, PTL DEF Spec

(* All variables keep their types, and the semaphore its range.            *)
THEOREM TypeCorrect == Spec => []TypeOK
<1>1. ListInv => TypeOK
  BY DEF ListInv
<1>2. QED BY <1>1, ListInvariant, PTL

(* The list is touched by one thread at a time, although threads end with  *)
(* its mutex and others go on with an abandoned one.                       *)
THEOREM OneThreadInListHolds == Spec => []OneThreadInList
<1>1. ListInv => OneThreadInList
  BY WriterAlone DEF ListInv, OneThreadInList
<1>2. QED BY <1>1, ListInvariant, PTL

-----------------------------------------------------------------------------
(* Permits are counted: each one is in the semaphore, in the hand of the   *)
(* sender, or owed by a writer that has appended its message.              *)

Signalling == {w \in Writer : write_pc[w] = "signal"}
in_hand == IF send_pc \in {"lock", "send", "remove"} THEN 1 ELSE 0

PermitInv ==
  /\ IsFiniteSet(Signalling)
  /\ failures = 0 /\ send_pc # "ended" =>
       Len(gp_massage_to_send_hade) =
         g_send_semapore + unsignalled + Cardinality(Signalling) + in_hand

LEMMA CountsAreNumbers ==
  ASSUME ListInv, PermitInv
  PROVE  /\ Len(gp_massage_to_send_hade) \in Nat /\ g_send_semapore \in Nat
         /\ unsignalled \in Nat /\ failures \in Nat /\ Cardinality(Signalling) \in Nat
         /\ in_hand \in {0, 1}
  BY FS_CardinalityType, SendQueueAssumption
     DEF SendQueueAssumption, ListInv, TypeOK, PermitInv, in_hand

(* A step that leaves the list, the semaphore, what the sender has in hand *)
(* and the writers that owe a permit alone.                                *)
LEMMA PermitsStutter ==
  ASSUME PermitInv, UNCHANGED <<gp_massage_to_send_hade, g_send_semapore, unsignalled, failures>>,
         Signalling' = Signalling, send_pc' = "ended" \/ (send_pc # "ended" /\ in_hand' = in_hand)
  PROVE  PermitInv'
  BY DEF PermitInv

LEMMA WriterAppendsPermits ==
  ASSUME ListInv, PermitInv, NEW w \in Writer, WriterAppends(w)
  PROVE  PermitInv'
<1>1. Signalling' = Signalling \cup {w} /\ w \notin Signalling
  BY DEF Signalling, WriterAppends, ListInv, TypeOK
<1>2. IsFiniteSet(Signalling') /\ Cardinality(Signalling') = Cardinality(Signalling) + 1
  BY <1>1, FS_AddElement DEF PermitInv
<1>3. CASE failures' = failures + 1
  BY <1>2, <1>3, CountsAreNumbers DEF PermitInv
<1>4. CASE /\ gp_massage_to_send_hade' = Append(gp_massage_to_send_hade, message[w])
           /\ UNCHANGED failures
  <2>1. Len(gp_massage_to_send_hade') = Len(gp_massage_to_send_hade) + 1
    BY <1>4 DEF ListInv, TypeOK
  <2>2. UNCHANGED <<g_send_semapore, unsignalled, send_pc>> /\ in_hand' = in_hand
    BY DEF WriterAppends, in_hand
  <2>3. QED BY <1>2, <1>4, <2>1, <2>2, CountsAreNumbers DEF PermitInv
<1>5. QED BY <1>3, <1>4 DEF WriterAppends, add_message_to_cell_arr

LEMMA WriterSignalsPermits ==
  ASSUME ListInv, PermitInv, NEW w \in Writer, WriterSignals(w)
  PROVE  PermitInv'
<1>1. Signalling' = Signalling \ {w} /\ w \in Signalling
  BY DEF Signalling, WriterSignals, ListInv, TypeOK
<1>2. IsFiniteSet(Signalling') /\ Cardinality(Signalling') = Cardinality(Signalling) - 1
  BY <1>1, FS_RemoveElement DEF PermitInv
<1>3. UNCHANGED <<gp_massage_to_send_hade, failures, send_pc>> /\ in_hand' = in_hand
  BY DEF WriterSignals, in_hand
<1>4. \/ g_send_semapore' = g_send_semapore + 1 /\ UNCHANGED unsignalled
      \/ unsignalled' = unsignalled + 1 /\ UNCHANGED g_send_semapore
  BY DEF WriterSignals, permits_added
<1>5. Cardinality(Signalling) \in Nat /\ g_send_semapore \in Nat /\ unsignalled \in Nat
      /\ in_hand \in {0, 1}
  BY CountsAreNumbers
<1>6. PICK c \in Nat, d \in Int : c = Cardinality(Signalling) /\ d = Cardinality(Signalling')
  BY <1>2, <1>5
<1>7. c = d + 1
  BY <1>2, <1>6
<1>8. g_send_semapore' + unsignalled' + d = g_send_semapore + unsignalled + c
  <2>1. CASE g_send_semapore' = g_send_semapore + 1 /\ UNCHANGED unsignalled
    BY <1>5, <1>7, <2>1
  <2>2. CASE unsignalled' = unsignalled + 1 /\ UNCHANGED g_send_semapore
    BY <1>5, <1>7, <2>2
  <2>3. QED BY <1>4, <2>1, <2>2
<1>9. QED
  <2>1. SUFFICES ASSUME failures' = 0, send_pc' # "ended"
                 PROVE  Len(gp_massage_to_send_hade') =
                   g_send_semapore' + unsignalled' + Cardinality(Signalling') + in_hand'
    BY <1>2 DEF PermitInv
  <2>2. Len(gp_massage_to_send_hade) = g_send_semapore + unsignalled + c + in_hand
    BY <1>3, <1>6, <2>1 DEF PermitInv
  <2>3. QED BY <1>3, <1>6, <1>8, <2>2

LEMMA SenderStepPermits ==
  ASSUME ListInv, PermitInv, SenderStep
  PROVE  PermitInv'
<1>1. Signalling' = Signalling /\ UNCHANGED <<unsignalled, failures>>
  BY DEF Signalling, SenderStep, SenderLoops, SenderTakesPermit, SenderLocks, SenderSends,
         SenderFails, SenderRemoves, SenderGoesOn, writers
<1>2. CASE SenderLoops \/ SenderLocks \/ SenderSends \/ SenderFails \/ SenderGoesOn
  <2>1. /\ UNCHANGED <<gp_massage_to_send_hade, g_send_semapore>>
        /\ send_pc' = "ended" \/ (send_pc # "ended" /\ in_hand' = in_hand)
    <3>1. CASE SenderLoops \/ SenderGoesOn
      BY <3>1 DEF in_hand, SenderLoops, SenderGoesOn
    <3>2. CASE SenderLocks
      BY <3>2 DEF in_hand, SenderLocks
    <3>3. CASE SenderSends
      BY <3>3 DEF in_hand, SenderSends
    <3>4. CASE SenderFails
      BY <3>4 DEF in_hand, SenderFails
    <3>5. QED BY <1>2, <3>1, <3>2, <3>3, <3>4
  <2>2. QED BY <1>1, <2>1, PermitsStutter
<1>3. CASE SenderTakesPermit
  <2>1. in_hand = 0 /\ in_hand' = 1 /\ g_send_semapore' = g_send_semapore - 1
        /\ UNCHANGED gp_massage_to_send_hade /\ send_pc # "ended"
    BY <1>3 DEF in_hand, SenderTakesPermit
  <2>2. QED BY <1>1, <2>1, CountsAreNumbers DEF PermitInv
<1>4. CASE SenderRemoves
  <2>1. in_hand = 1 /\ in_hand' = 0 /\ UNCHANGED g_send_semapore /\ send_pc # "ended"
    BY <1>4 DEF in_hand, SenderRemoves
  <2>2. Len(gp_massage_to_send_hade') = Len(gp_massage_to_send_hade) - 1
    BY <1>4 DEF ListInv, TypeOK, InHand, SenderRemoves
  <2>3. QED BY <1>1, <2>1, <2>2, CountsAreNumbers DEF PermitInv
<1>5. QED BY <1>2, <1>3, <1>4 DEF SenderStep

LEMMA InitPermits == Init => PermitInv
<1> SUFFICES ASSUME Init PROVE PermitInv
  OBVIOUS
<1>1. Signalling = {} /\ in_hand = 0 /\ Len(gp_massage_to_send_hade) = 0
  BY DEF Init, Signalling, in_hand
<1>2. IsFiniteSet(Signalling) /\ Cardinality(Signalling) = 0
  BY <1>1, FS_EmptySet
<1>3. QED BY <1>1, <1>2 DEF Init, PermitInv

LEMMA NextPermits == ListInv /\ PermitInv /\ [Next]_vars => PermitInv'
<1> SUFFICES ASSUME ListInv, PermitInv, [Next]_vars PROVE PermitInv'
  OBVIOUS
<1>1. CASE \E w \in Writer : CallSend(w) \/ WriterLocks(w) \/ WriterFindsAbandoned(w)
  <2>1. PICK w \in Writer : CallSend(w) \/ WriterLocks(w) \/ WriterFindsAbandoned(w)
    BY <1>1
  <2>2. Signalling' = Signalling
    BY <2>1 DEF Signalling, CallSend, WriterLocks, WriterFindsAbandoned, ListInv, TypeOK
  <2>3. UNCHANGED <<gp_massage_to_send_hade, g_send_semapore, unsignalled, failures, send_pc>>
    BY <2>1 DEF CallSend, WriterLocks, WriterFindsAbandoned
  <2>4. QED BY <2>2, <2>3, PermitsStutter DEF in_hand
<1>2. CASE \E w \in Writer : WriterAppends(w) \/ WriterSignals(w)
  BY <1>2, WriterAppendsPermits, WriterSignalsPermits
<1>3. CASE OwnEnds
  <2>1. Signalling' = Signalling
    BY <1>3, SendQueueAssumption DEF SendQueueAssumption, Signalling, OwnEnds, ListInv, TypeOK
  <2>2. QED BY <1>3, <2>1, PermitsStutter DEF in_hand, OwnEnds
<1>4. CASE SenderStep
  BY <1>4, SenderStepPermits
<1>5. CASE Cut \/ UNCHANGED vars
  BY <1>5, PermitsStutter DEF Cut, vars, writers, Signalling, in_hand
<1>6. QED BY <1>1, <1>2, <1>3, <1>4, <1>5 DEF Next, WriterStep

(* No message is left in the list without a permit but for those of a full *)
(* semaphore, and the sender never comes to an empty list with a permit in *)
(* its hand, for any number of writers.                                    *)
THEOREM PermitPerMessageHolds == Spec => []PermitPerMessage
<1>1. Spec => []PermitInv
  BY InitPermits, NextPermits, ListInvariant, PTL DEF Spec
<1>2. PermitInv => PermitPerMessage
  BY DEF PermitInv, PermitPerMessage, Signalling, in_hand
<1>3. QED BY <1>1, <1>2, PTL

-----------------------------------------------------------------------------
(* The list, without a message that is sent and about to be removed, is a  *)
(* Mailbox.                                                                *)

box == IF send_pc = "remove" THEN Tail(gp_massage_to_send_hade) ELSE gp_massage_to_send_hade

(* What a step leaves alone when it neither adds to the list, nor sends.   *)
LEMMA MailboxStutters ==
  ASSUME UNCHANGED <<gp_massage_to_send_hade, failures, sent>>,
         send_pc' = "remove" <=> send_pc = "remove"
  PROVE  UNCHANGED <<box, sent, failures>>
  BY DEF box

LEMMA WriterImplementsMailbox ==
  ASSUME ListInv, NEW w \in Writer, CallSend(w) \/ WriterStep(w)
  PROVE  Box!Next \/ UNCHANGED <<box, sent, failures>>
<1>1. CASE WriterAppends(w)
  <2>1. send_pc # "remove" /\ send_pc' = send_pc
    BY <1>1, WriterAlone DEF ListInv, WriterAppends
  <2>2. message[w] \in Message
    BY <1>1 DEF ListInv, InHand, WriterAppends
  <2>3. CASE /\ gp_massage_to_send_hade' = Append(gp_massage_to_send_hade, message[w])
             /\ UNCHANGED failures
    <3>1. Box!Post(message[w])
      BY <1>1, <2>1, <2>3 DEF Box!Post, WriterAppends
    <3>2. QED BY <2>2, <3>1 DEF Box!Next
  <2>4. CASE gp_massage_to_send_hade' = << >> /\ failures' = failures + 1
    <3>1. box = gp_massage_to_send_hade /\ box' = << >>
      BY <2>1, <2>4 DEF box
    <3>2. gp_massage_to_send_hade \in Seq(Message)
      BY DEF ListInv, TypeOK
    <3>3. 0 \in 0 .. Len(box) /\ box' = SubSeq(box, 1, 0)
      BY <3>1, <3>2
    <3>4. Box!Lose
      BY <1>1, <2>4, <3>3 DEF Box!Lose, WriterAppends
    <3>5. QED BY <3>4 DEF Box!Next
  <2>5. QED BY <1>1, <2>3, <2>4 DEF WriterAppends, add_message_to_cell_arr
<1>2. CASE CallSend(w) \/ WriterLocks(w) \/ WriterFindsAbandoned(w) \/ WriterSignals(w)
  BY <1>2, MailboxStutters DEF CallSend, WriterLocks, WriterFindsAbandoned, WriterSignals
<1>3. QED BY <1>1, <1>2 DEF WriterStep

LEMMA SenderImplementsMailbox ==
  ASSUME ListInv, SenderStep
  PROVE  Box!Next \/ UNCHANGED <<box, sent, failures>>
<1>1. CASE SenderSends
  <2>1. Box!Deliver
    BY <1>1 DEF Box!Deliver, SenderSends, writers
  <2>2. QED BY <2>1 DEF Box!Next
<1>2. CASE SenderRemoves
  BY <1>2 DEF SenderRemoves, box, writers
<1>3. CASE SenderLoops \/ SenderTakesPermit \/ SenderLocks \/ SenderFails \/ SenderGoesOn
  BY <1>3, MailboxStutters
     DEF SenderLoops, SenderTakesPermit, SenderLocks, SenderFails, SenderGoesOn, writers
<1>4. QED BY <1>1, <1>2, <1>3 DEF SenderStep

LEMMA NextImplementsMailbox ==
  ListInv /\ [Next]_vars => [Box!Next]_<<box, sent, failures>>
<1>1. SUFFICES ASSUME ListInv, [Next]_vars
               PROVE  Box!Next \/ UNCHANGED <<box, sent, failures>>
  OBVIOUS
<1>2. CASE \E w \in Writer : CallSend(w) \/ WriterStep(w)
  BY <1>1, <1>2, WriterImplementsMailbox
<1>3. CASE SenderStep
  BY <1>1, <1>3, SenderImplementsMailbox
<1>4. CASE OwnEnds \/ Cut \/ UNCHANGED vars
  BY <1>4, MailboxStutters DEF OwnEnds, Cut, vars, writers
<1>5. QED BY <1>1, <1>2, <1>3, <1>4 DEF Next

(* Messages leave in the order in which they were appended, each once; the *)
(* list implements Mailbox.                                                *)
THEOREM InOrderOnceHolds == Spec => InOrderOnce
<1>1. Init => Box!Init
  BY DEF Init, Box!Init
<1>2. ListInv /\ [Next]_vars => [Box!Next]_<<box, sent, failures>>
  BY NextImplementsMailbox
<1>3. QED BY <1>1, <1>2, ListInvariant, PTL DEF Spec, InOrderOnce, Box!Spec, box
-----------------------------------------------------------------------------
(* The bytes on their way.                                                 *)

Bytes == [m : Nat, part : {"size", "string"}, k : Nat]
Byte(m, part, k) == [m |-> m, part |-> part, k |-> k]

(* The length of the buffer a byte is in, the byte d places behind it, and *)
(* the first byte of the next buffer.                                      *)
room(b) == IF b.part = "size" THEN SIZE_BYTES ELSE MessageLen[b.m] + 1
further(b, d) == Byte(b.m, b.part, b.k + d)
after(b) == IF b.part = "size" THEN Byte(b.m, "string", 1) ELSE Byte(b.m + 1, "size", 1)

Placed(b) == (b.part = "string" => b.m \in Wire!Message) /\ b.k \in 1 .. room(b)

(* Buffers follow one another, and the bytes of each are in their places.  *)
Follows(t) ==
  \A i \in DOMAIN t :
    /\ \A j \in DOMAIN t : i <= j /\ t[i].k + (j - i) <= room(t[i]) => t[j] = further(t[i], j - i)
    /\ t[i].k = room(t[i]) /\ i + 1 \in DOMAIN t => t[i + 1] = after(t[i])

(* What has to be sent from byte b of a message on.                        *)
rest(b) == [i \in 1 .. room(b) - b.k + 1 |-> further(b, i - 1)]
unsent(b) ==
  IF b.part = "size" THEN <<rest(b), rest(Byte(b.m, "string", 1))>> ELSE <<rest(b)>>

(* The sender gave up in the middle of a message.                          *)
gave_up == send_pc = "ended" /\ called # Len(sent)

(* Byte s is the next one that the sender owes the stream.                 *)
Due(s) ==
  \/ /\ to_send = << >>
     /\ IF gave_up THEN s.m = called ELSE s = Byte(called + 1, "size", 1)
  \/ /\ s.m = called /\ called \in Wire!Message
     /\ to_send = unsent(s)

(* The next byte that the receiver expects.                                *)
expected == Byte(Len(received) + 1, receiving, Len(got) + 1)

Carries(s) ==
  /\ Placed(s) /\ Due(s)
  /\ Follows(Append(stream, s))
  /\ recv_res = "TRNS_SUCCEEDED" => Append(stream, s)[1] = expected

StreamInv == \E s \in Bytes : Carries(s)

WireTypeOK ==
  /\ called \in 0 .. Len(MessageLen)
  /\ stream \in Seq(Bytes)
  /\ \A i \in DOMAIN stream : Placed(stream[i]) /\ stream[i].m \in 1 .. called
  /\ conn \in {"open", "shut", "broken"}
  /\ receiving \in {"size", "string"}
  /\ recv_res \in {"TRNS_SUCCEEDED", "TRNS_DISCONNECTED", "TRNS_FAILED"}
  /\ received \in Seq(Nat) /\ \A i \in DOMAIN received : received[i] = i

SenderInv ==
  /\ called # Len(sent) =>
       /\ called = Len(sent) + 1
       /\ send_pc = "ended" \/ (send_pc = "send" /\ gp_massage_to_send_hade # << >>)
  /\ to_send # << >> => send_pc = "send" /\ called # Len(sent)

(* The receiver has the beginning of a buffer.                             *)
ReceiverInv ==
  recv_res = "TRNS_SUCCEEDED" =>
    /\ got \in Seq(Bytes)
    /\ \A i \in DOMAIN got : got[i] = Byte(Len(received) + 1, receiving, i)
    /\ receiving = "string" => Len(received) + 1 \in Wire!Message
    /\ want = room(Byte(Len(received) + 1, receiving, 1)) - Len(got) /\ want >= 1

(* The receiver is not ahead of the sender.                                *)
BehindInv ==
  /\ Len(received) <= called
  /\ Len(received) = called /\ called # Len(sent) => send_pc = "send" /\ to_send = << >>

EndInv ==
  recv_res = "TRNS_DISCONNECTED" =>
    /\ conn = "shut" 
    /\ \/ Len(received) = called /\ receiving = "size" /\ want = SIZE_BYTES
       \/ /\ Len(received) + 1 = called /\ called # Len(sent)
          /\ to_send # << >> \/ send_pc = "ended"

WireInv == WireTypeOK /\ SenderInv /\ StreamInv /\ ReceiverInv /\ BehindInv /\ EndInv

-----------------------------------------------------------------------------
(* Facts about bytes and sequences of them.                                *)

LEMMA WireConstants ==
  /\ SIZE_BYTES \in Nat /\ SIZE_BYTES >= 1
  /\ MessageLen \in Seq(Nat \ {0}) /\ Wire!Message = 1 .. Len(MessageLen)
  /\ Len(MessageLen) \in Nat
  /\ \A m \in Wire!Message : MessageLen[m] \in Nat /\ MessageLen[m] >= 1
  /\ MaxPosts \in Nat
<1>1. MessageLen \in Seq(Nat \ {0}) /\ SIZE_BYTES \in Nat \ {0}
  BY DeliveryAssumption DEF DeliveryAssumption, Wire!ConstantsOK
<1>2. Wire!Message = 1 .. Len(MessageLen)
  BY <1>1 DEF Wire!Message
<1>3. \A m \in 1 .. Len(MessageLen) : MessageLen[m] \in Nat \ {0}
  BY <1>1
<1>4. QED BY <1>1, <1>2, <1>3, SendQueueAssumption DEF SendQueueAssumption

LEMMA RoomIsNumber ==
  ASSUME NEW b \in Bytes, Placed(b)
  PROVE  room(b) \in Nat /\ b.k <= room(b) /\ b.k \in Nat /\ b.k >= 1
<1>1. room(b) \in Nat
  BY WireConstants DEF Bytes, Placed, room
<1>2. QED BY <1>1 DEF Placed, Bytes

LEMMA AfterIsPlaced ==
  ASSUME NEW b \in Bytes, b.part = "size" => b.m \in Wire!Message
  PROVE  after(b) \in Bytes /\ Placed(after(b)) /\ after(b).k = 1
<1>1. CASE b.part = "size"
  <2>1. after(b) = Byte(b.m, "string", 1)
    BY <1>1 DEF after
  <2>2. Byte(b.m, "string", 1) \in Bytes
    BY DEF Bytes, Byte
  <2>3. room(Byte(b.m, "string", 1)) = MessageLen[b.m] + 1
    BY DEF room, Byte
  <2>4. QED BY <1>1, <2>1, <2>2, <2>3, WireConstants DEF Placed, Byte
<1>2. CASE b.part # "size"
  <2>1. after(b) = Byte(b.m + 1, "size", 1)
    BY <1>2 DEF after
  <2>2. Byte(b.m + 1, "size", 1) \in Bytes
    BY DEF Bytes, Byte
  <2>3. room(Byte(b.m + 1, "size", 1)) = SIZE_BYTES
    BY DEF room, Byte
  <2>4. QED BY <2>1, <2>2, <2>3, WireConstants DEF Placed, Byte
<1>3. QED BY <1>1, <1>2

LEMMA FurtherIsPlaced ==
  ASSUME NEW b \in Bytes, Placed(b), NEW d \in Nat, b.k + d <= room(b)
  PROVE  /\ further(b, d) \in Bytes /\ Placed(further(b, d))
         /\ room(further(b, d)) = room(b) /\ further(b, d).k = b.k + d
         /\ further(b, d).m = b.m /\ further(b, d).part = b.part
<1>1. further(b, d).k = b.k + d /\ further(b, d).m = b.m /\ further(b, d).part = b.part
  BY DEF further, Byte
<1>2. room(further(b, d)) = room(b)
  BY <1>1 DEF room
<1>3. b.k \in Nat /\ b.k >= 1 /\ room(b) \in Nat
  BY RoomIsNumber
<1>4. further(b, d) \in Bytes
  BY <1>3 DEF further, Byte, Bytes
<1>5. QED BY <1>1, <1>2, <1>3, <1>4 DEF Placed

LEMMA FurtherTwice ==
  ASSUME NEW b \in Bytes, NEW d \in Nat, NEW e \in Nat
  PROVE  further(further(b, d), e) = further(b, d + e)
<1>1. b.k \in Nat
  BY DEF Bytes
<1>2. (b.k + d) + e = b.k + (d + e)
  BY <1>1
<1>3. QED BY <1>2 DEF further, Byte

LEMMA FurtherZero ==
  ASSUME NEW b \in Bytes
  PROVE  further(b, 0) = b
  BY DEF further, Byte, Bytes

(* The places of q with one more byte behind it.                           *)
LEMMA AppendPlaces ==
  ASSUME NEW S, NEW q \in Seq(S), NEW s
  PROVE  /\ DOMAIN Append(q, s) = 1 .. Len(q) + 1
         /\ \A i \in 1 .. Len(q) : Append(q, s)[i] = q[i]
         /\ Append(q, s)[Len(q) + 1] = s
         /\ Len(q) \in Nat /\ DOMAIN q = 1 .. Len(q)
<1>1. q \in Seq(S \cup {s}) /\ s \in S \cup {s}
  OBVIOUS
<1>2. QED BY <1>1

(* The first bytes are taken from the stream.                              *)
LEMMA TakenFollows ==
  ASSUME NEW q \in Seq(Bytes), NEW s \in Bytes, NEW n \in 0 .. Len(q),
         Follows(Append(q, s))
  PROVE  /\ SubSeq(q, n + 1, Len(q)) \in Seq(Bytes)
         /\ Len(SubSeq(q, n + 1, Len(q))) = Len(q) - n
         /\ \A i \in 1 .. Len(q) - n : SubSeq(q, n + 1, Len(q))[i] = q[i + n]
         /\ Append(SubSeq(q, n + 1, Len(q)), s)[1] = Append(q, s)[n + 1]
         /\ Follows(Append(SubSeq(q, n + 1, Len(q)), s))
<1> DEFINE r == SubSeq(q, n + 1, Len(q))
           t == Append(q, s)
           u == Append(r, s)
<1>1. /\ r \in Seq(Bytes) /\ Len(r) = Len(q) - n
      /\ \A i \in 1 .. Len(q) - n : r[i] = q[i + n]
  OBVIOUS
<1>2. /\ DOMAIN t = 1 .. Len(q) + 1 /\ Len(q) \in Nat
      /\ \A i \in 1 .. Len(q) : t[i] = q[i]
      /\ t[Len(q) + 1] = s
  BY AppendPlaces
<1>3. /\ DOMAIN u = 1 .. Len(q) - n + 1
      /\ \A i \in 1 .. Len(q) - n : u[i] = r[i]
      /\ u[Len(q) - n + 1] = s
  BY <1>1, AppendPlaces
<1>4. \A i \in DOMAIN u : i + n \in DOMAIN t /\ u[i] = t[i + n]
  BY <1>1, <1>2, <1>3
<1>5. u[1] = t[n + 1]
  BY <1>2, <1>3, <1>4
<1> HIDE DEF r, t, u
<1>6. Follows(t)
  BY DEF t
<1>7. Follows(u)
  <2> SUFFICES ASSUME NEW i \in DOMAIN u
               PROVE  /\ \A j \in DOMAIN u : i <= j /\ u[i].k + (j - i) <= room(u[i])
                           => u[j] = further(u[i], j - i)
                      /\ u[i].k = room(u[i]) /\ i + 1 \in DOMAIN u => u[i + 1] = after(u[i])
    BY DEF Follows
  <2>1. i + n \in DOMAIN t /\ u[i] = t[i + n] /\ i \in Nat
    BY <1>2, <1>3, <1>4
  <2>2. ASSUME NEW j \in DOMAIN u, i <= j, u[i].k + (j - i) <= room(u[i])
        PROVE  u[j] = further(u[i], j - i)
    <3>1. j + n \in DOMAIN t /\ u[j] = t[j + n] /\ j \in Nat
      BY <1>2, <1>3, <1>4
    <3>2. (j + n) - (i + n) = j - i /\ i + n <= j + n
      BY <2>1, <3>1, <2>2
    <3>3. QED BY <1>6, <2>1, <2>2, <3>1, <3>2 DEF Follows
  <2>3. ASSUME u[i].k = room(u[i]), i + 1 \in DOMAIN u
        PROVE  u[i + 1] = after(u[i])
    <3>1. (i + 1) + n \in DOMAIN t /\ u[i + 1] = t[(i + 1) + n]
      BY <1>4, <2>3
    <3>2. (i + 1) + n = (i + n) + 1
      BY <2>1
    <3>3. QED BY <1>6, <2>1, <2>3, <3>1, <3>2 DEF Follows
  <2>4. QED BY <2>2, <2>3
<1>8. QED BY <1>1, <1>5, <1>7 DEF r, t, u

(* The bytes of what has to be sent of a message.                          *)
LEMMA RestOfMessage ==
  ASSUME NEW s \in Bytes, Placed(s)
  PROVE  /\ rest(s) \in Seq(Bytes) /\ Len(rest(s)) = room(s) - s.k + 1
         /\ Len(rest(s)) \in Nat /\ Len(rest(s)) >= 1 /\ rest(s)[1] = s
         /\ \A i \in 1 .. Len(rest(s)) : rest(s)[i] = further(s, i - 1) /\ s.k + (i - 1) <= room(s)
<1>1. room(s) \in Nat /\ s.k \in Nat /\ s.k <= room(s) /\ s.k >= 1
  BY RoomIsNumber
<1>2. PICK l \in Nat : l = room(s) - s.k + 1 /\ l >= 1
  BY <1>1
<1>3. \A i \in 1 .. l : i - 1 \in Nat /\ s.k + (i - 1) <= room(s)
  BY <1>1, <1>2
<1>4. \A i \in 1 .. l : further(s, i - 1) \in Bytes
  BY <1>3, FurtherIsPlaced
<1>5. rest(s) = [i \in 1 .. l |-> further(s, i - 1)]
  BY <1>2 DEF rest
<1>6. rest(s) \in Seq(Bytes) /\ Len(rest(s)) = l
  BY <1>4, <1>5
<1>7. rest(s)[1] = s
  BY <1>2, <1>5, FurtherZero
<1>8. QED BY <1>2, <1>3, <1>5, <1>6, <1>7

(* Places that lie behind one another.                                     *)
LEMMA PlaceBehind ==
  ASSUME NEW l \in Nat, NEW n \in Nat, NEW i \in Nat, NEW j \in Nat,
         i <= l, j > l + 1, j <= l + n + 1
  PROVE  /\ l + 1 - i \in Nat /\ j - (l + 1) \in 0 .. n
         /\ (l + 1 - i) + (j - (l + 1)) = j - i /\ j = l + 1 + (j - (l + 1))
  OBVIOUS

LEMMA PlaceAhead ==
  ASSUME NEW l \in Nat, NEW n \in Nat, NEW d \in Nat, NEW i \in Nat, NEW j \in Nat,
         i = l + 1 + d, i <= j, j <= l + n + 1
  PROVE  j - i \in Nat /\ d + (j - i) \in 0 .. n /\ j = l + 1 + (d + (j - i))
  OBVIOUS

LEMMA PlaceSomewhere ==
  ASSUME NEW l \in Nat, NEW n \in Nat, NEW i \in Nat, i <= l + n + 1
  PROVE  i <= l \/ (i > l /\ i <= l + n) \/ i = l + n + 1
  OBVIOUS

LEMMA LessRoom ==
  ASSUME NEW k \in Nat, NEW d \in Nat, NEW e \in Nat, NEW l, k + (d + e) <= l, l \in Int
  PROVE  k + d <= l
  OBVIOUS

(* The byte that is due after n bytes of the buffer of s.                  *)
due_after(s, n) == IF s.k + n <= room(s) THEN further(s, n) ELSE after(s)

(* Bytes are put on the stream.                                            *)
LEMMA SentFollows ==
  ASSUME NEW q \in Seq(Bytes), NEW s \in Bytes, Placed(s), s.part = "size" => s.m \in Wire!Message,
         NEW n \in 1 .. Len(rest(s)), Follows(Append(q, s)),
         \A i \in 1 .. Len(q) : Placed(q[i]),
         NEW x \in Seq(Bytes), Len(x) = n, \A i \in 1 .. n : x[i] = further(s, i - 1)
  PROVE  /\ due_after(s, n) \in Bytes /\ Placed(due_after(s, n))
         /\ Follows(Append(q \o x, due_after(s, n)))
         /\ Append(q \o x, due_after(s, n))[1] = Append(q, s)[1]
<1> DEFINE z == due_after(s, n)
           t == Append(q, s)
           u == Append(q \o x, z)
           L == Len(q)
<1>1. /\ room(s) \in Nat /\ s.k \in Nat /\ s.k <= room(s) /\ s.k >= 1
      /\ n \in Nat /\ n >= 1 /\ s.k + (n - 1) <= room(s)
  BY RoomIsNumber, RestOfMessage
<1>2. z \in Bytes /\ Placed(z)
  BY <1>1, FurtherIsPlaced, AfterIsPlaced DEF due_after
<1>3. /\ DOMAIN t = 1 .. L + 1 /\ L \in Nat
      /\ \A i \in 1 .. L : t[i] = q[i] /\ t[i] \in Bytes /\ Placed(t[i])
      /\ t[L + 1] = s
  BY AppendPlaces
<1>4. /\ q \o x \in Seq(Bytes) /\ Len(q \o x) = L + n
      /\ \A i \in 1 .. L : (q \o x)[i] = q[i]
      /\ \A i \in 1 .. n : (q \o x)[L + i] = x[i]
  <2>1. n \in Nat /\ L \in Nat
    BY <1>1, <1>3
  <2>2. Len(q \o x) = L + n /\ q \o x \in Seq(Bytes)
    OBVIOUS
  <2>3. \A i \in 1 .. L : (q \o x)[i] = q[i]
    OBVIOUS
  <2>4. ASSUME NEW i \in 1 .. n PROVE (q \o x)[L + i] = x[i]
    <3>1. L + i \in 1 .. L + n /\ ~(L + i <= L) /\ (L + i) - L = i
      BY <2>1
    <3>2. QED BY <2>2, <3>1, SMT
  <2>5. QED BY <2>2, <2>3, <2>4
<1>5. /\ DOMAIN u = 1 .. L + n + 1
      /\ \A i \in 1 .. L + n : u[i] = (q \o x)[i]
      /\ u[L + n + 1] = z
  <2>1. PICK y \in Seq(Bytes) : y = q \o x
    BY <1>4
  <2>2. /\ DOMAIN Append(y, z) = 1 .. Len(y) + 1
        /\ \A i \in 1 .. Len(y) : Append(y, z)[i] = y[i]
        /\ Append(y, z)[Len(y) + 1] = z
    BY AppendPlaces
  <2>3. QED BY <1>4, <2>1, <2>2
<1>6. \A i \in 1 .. L + 1 : u[i] = t[i]
  <2>1. u[L + 1] = x[1] /\ x[1] = further(s, 0)
    BY <1>1, <1>3, <1>4, <1>5
  <2>2. QED BY <1>1, <1>3, <1>4, <1>5, <2>1, FurtherZero
<1>7. \A e \in 0 .. n - 1 : u[L + 1 + e] = further(s, e)
  <2>1. SUFFICES ASSUME NEW e \in 0 .. n - 1 PROVE u[L + 1 + e] = further(s, e)
    OBVIOUS
  <2>2. L + 1 + e = L + (e + 1) /\ e + 1 \in 1 .. n /\ (e + 1) - 1 = e /\ L + 1 + e \in 1 .. L + n
    BY <1>1, <1>3
  <2>3. QED BY <1>4, <1>5, <2>2
<1>8. \A e \in 0 .. n : s.k + e <= room(s) => u[L + 1 + e] = further(s, e)
  <2>1. s.k + n <= room(s) => u[L + 1 + n] = further(s, n)
    <3>1. L + 1 + n = L + n + 1
      BY <1>1, <1>3
    <3>2. QED BY <1>5, <3>1 DEF due_after
  <2>2. \A e \in 0 .. n : e = n \/ e \in 0 .. n - 1
    BY <1>1
  <2>3. QED BY <1>7, <2>1, <2>2
<1>9. Follows(t)
  OBVIOUS
<1>10. s.k + n > room(s) => u[L + n + 1] = after(s)
  BY <1>1, <1>5 DEF due_after
<1>0. L \in Nat /\ n \in Nat /\ L + n + 1 \in Nat
  BY <1>1, <1>3
<1> HIDE DEF z, t, u, L
<1>11. Follows(u)
  <2> SUFFICES ASSUME NEW i \in DOMAIN u
               PROVE  /\ \A j \in DOMAIN u : i <= j /\ u[i].k + (j - i) <= room(u[i])
                           => u[j] = further(u[i], j - i)
                      /\ u[i].k = room(u[i]) /\ i + 1 \in DOMAIN u => u[i + 1] = after(u[i])
    BY DEF Follows
  <2>1. CASE i <= L
    <3>1. i \in DOMAIN t /\ u[i] = t[i] /\ t[i] \in Bytes /\ i \in Nat /\ L + 1 \in DOMAIN t
      BY <1>3, <1>5, <1>6, <2>1
    <3>2. ASSUME NEW j \in DOMAIN u, i <= j, u[i].k + (j - i) <= room(u[i])
          PROVE  u[j] = further(u[i], j - i)
      <4>1. CASE j <= L + 1
        <5>1. j \in DOMAIN t /\ u[j] = t[j]
          BY <1>3, <1>5, <1>6, <4>1
        <5>2. QED BY <1>9, <3>1, <3>2, <5>1 DEF Follows
      <4>2. CASE j > L + 1
        <5>1. PICK d \in Nat, e \in 0 .. n :
                d = L + 1 - i /\ d + e = j - i /\ j = L + 1 + e
          <6>1. j \in Nat /\ j <= L + n + 1
            BY <1>0, <1>5
          <6>2. /\ L + 1 - i \in Nat /\ j - (L + 1) \in 0 .. n
                /\ (L + 1 - i) + (j - (L + 1)) = j - i /\ j = L + 1 + (j - (L + 1))
            BY <1>0, <2>1, <3>1, <4>2, <6>1, PlaceBehind, SMTT(30)
          <6>3. QED BY <6>2
        <5>2. t[i].k \in Nat /\ t[i].k + (d + e) <= room(t[i])
          BY <3>1, <3>2, <5>1 DEF Bytes
        <5>3. room(t[i]) \in Nat
          BY <1>3, <2>1, <3>1, RoomIsNumber
        <5>4. s = further(t[i], d)
          <6>1. t[i].k + d <= room(t[i])
            BY <5>1, <5>2, <5>3, LessRoom
          <6>2. i <= L + 1 /\ (L + 1) - i = d
            BY <1>0, <2>1, <3>1, <5>1, SMTT(30)
          <6>3. t[L + 1] = further(t[i], (L + 1) - i)
            BY <1>9, <3>1, <6>1, <6>2 DEF Follows
          <6>4. QED BY <1>3, <6>2, <6>3
        <5>5. s.k = t[i].k + d /\ room(s) = room(t[i])
          BY <5>4 DEF further, Byte, room
        <5>6. s.k + e <= room(s)
          BY <5>1, <5>2, <5>5
        <5>7. u[j] = further(s, e)
          BY <1>8, <5>1, <5>6
        <5>8. further(s, e) = further(t[i], d + e)
          <6>1. t[i] \in Bytes /\ e \in Nat
            BY <3>1
          <6>2. QED BY <5>4, <6>1, FurtherTwice
        <5>9. QED BY <3>1, <5>1, <5>7, <5>8
      <4>3. QED BY <1>3, <1>5, <4>1, <4>2
    <3>3. ASSUME u[i].k = room(u[i]), i + 1 \in DOMAIN u
          PROVE  u[i + 1] = after(u[i])
      <4>1. i + 1 \in DOMAIN t /\ u[i + 1] = t[i + 1]
        BY <1>3, <1>6, <2>1, <3>1
      <4>2. QED BY <1>9, <3>1, <3>3, <4>1 DEF Follows
    <3>4. QED BY <3>2, <3>3
  <2>2. CASE i > L /\ i <= L + n
    <3>1. PICK d \in Nat : d = i - (L + 1) /\ i = L + 1 + d /\ d \in 0 .. n - 1
      <4>1. i - (L + 1) \in 0 .. n - 1 /\ i = L + 1 + (i - (L + 1))
        BY <1>1, <1>3, <1>5, <2>2
      <4>2. QED BY <4>1
    <3>2. s.k + d <= room(s)
      BY <1>1, <3>1
    <3>3. /\ u[i] = further(s, d) /\ u[i].k = s.k + d /\ room(u[i]) = room(s)
          /\ u[i].m = s.m /\ u[i].part = s.part
      BY <1>7, <3>1, <3>2, FurtherIsPlaced
    <3>4. ASSUME NEW j \in DOMAIN u, i <= j, u[i].k + (j - i) <= room(u[i])
          PROVE  u[j] = further(u[i], j - i)
      <4>1. PICK e \in Nat : e = j - i /\ d + e \in 0 .. n /\ j = L + 1 + (d + e)
        <5>1. i \in Nat /\ j \in Nat /\ j <= L + n + 1 /\ i <= j /\ i = L + 1 + d
          BY <1>0, <1>5, <3>1, <3>4
        <5>2. j - i \in Nat /\ d + (j - i) \in 0 .. n /\ j = L + 1 + (d + (j - i))
          BY <1>0, <5>1, PlaceAhead, SMTT(30)
        <5>3. QED BY <5>2
      <4>2. s.k + (d + e) <= room(s)
        BY <1>1, <3>1, <3>3, <3>4, <4>1
      <4>3. u[j] = further(s, d + e)
        BY <1>8, <4>1, <4>2
      <4>4. QED BY <3>3, <4>1, <4>3, FurtherTwice
    <3>5. ASSUME u[i].k = room(u[i]), i + 1 \in DOMAIN u
          PROVE  u[i + 1] = after(u[i])
      <4>1. s.k + d = room(s) /\ d = n - 1
        BY <1>1, <3>1, <3>3, <3>5
      <4>2. i + 1 = L + n + 1 /\ s.k + n > room(s)
        <5>1. L \in Nat /\ n \in Nat /\ s.k + (n - 1) = room(s) /\ s.k \in Nat
          BY <1>1, <1>3, <4>1
        <5>2. L + 1 + (n - 1) + 1 = L + n + 1 /\ s.k + n > s.k + (n - 1)
          BY <5>1
        <5>3. QED BY <3>1, <4>1, <5>1, <5>2
      <4>3. after(u[i]) = after(s)
        BY <3>3 DEF after
      <4>4. QED BY <1>10, <4>2, <4>3
    <3>6. QED BY <3>4, <3>5
  <2>3. CASE i = L + n + 1
    <3>1. i + 1 \notin DOMAIN u /\ \A j \in DOMAIN u : i <= j => j = i /\ j - i = 0
      <4>1. PICK e \in Nat : e = L + n + 1
        BY <1>0
      <4>2. DOMAIN u = 1 .. e /\ i = e
        BY <1>5, <2>3, <4>1
      <4>3. QED BY <4>2
    <3>2. u[i] \in Bytes
      BY <1>2, <1>5, <2>3
    <3>3. QED BY <3>1, <3>2, FurtherZero
  <2>4. i \in Nat /\ i <= L + n + 1
    BY <1>0, <1>5
  <2>5. i <= L \/ (i > L /\ i <= L + n) \/ i = L + n + 1
    BY <1>0, <2>4, PlaceSomewhere
  <2>6. QED BY <2>1, <2>2, <2>3, <2>5
<1>12. u[1] = t[1]
  BY <1>0, <1>6
<1>13. QED BY <1>2, <1>11, <1>12 DEF z, u, t
-----------------------------------------------------------------------------
(* Each step of Delivery is one of the queue, or leaves the queue alone.   *)

LEMMA DeliveryStepsOfQueue ==
  [DeliveryNext]_all => [Next]_vars
<1> SUFFICES ASSUME [DeliveryNext]_all PROVE [Next]_vars
  OBVIOUS
<1>1. CASE \E w \in Writer : CallSendD(w) \/ WriterStepD(w)
  BY <1>1 DEF CallSendD, WriterStepD, Next
<1>2. CASE SenderStepD
  BY <1>2 DEF SenderStepD, SendString, BeginsMessage, SendsBytes, SendReturns, SendReturnsError,
              SenderStep, Next
<1>3. CASE ClientReceives
  BY <1>3 DEF ClientReceives
<1>4. CASE OwnShuts
  BY <1>4 DEF OwnShuts, Next
<1>5. CASE ClientLeaves \/ ConnectionBreaks
  BY <1>5 DEF ClientLeaves, ConnectionBreaks, Next
<1>6. CASE UNCHANGED all
  BY <1>6 DEF all
<1>7. QED BY <1>1, <1>2, <1>3, <1>4, <1>5, <1>6 DEF DeliveryNext

-----------------------------------------------------------------------------
(* The steps that leave the stream and its ends alone.                     *)

LEMMA QueueKeepsWire ==
  ASSUME WireInv, UNCHANGED <<wire, sent>>,
         called # Len(sent) =>
           send_pc' = send_pc /\ (send_pc = "send" => gp_massage_to_send_hade' # << >>)
  PROVE  WireInv'
<1> USE DEF wire
<1>1. gave_up' = gave_up
  BY DEF gave_up
<1>2. WireTypeOK'
  BY DEF WireInv, WireTypeOK
<1>3. SenderInv'
  BY DEF WireInv, SenderInv
<1>4. StreamInv'
  <2>1. PICK s \in Bytes : Carries(s)
    BY DEF WireInv, StreamInv
  <2>2. Due(s)'
    BY <1>1, <2>1 DEF Carries, Due
  <2>3. expected' = expected
    BY DEF expected
  <2>4. Carries(s)'
    BY <2>1, <2>2, <2>3 DEF Carries
  <2>5. QED BY <2>4 DEF StreamInv
<1>5. ReceiverInv'
  BY DEF WireInv, ReceiverInv
<1>6. BehindInv' /\ EndInv'
  BY DEF WireInv, BehindInv, EndInv, SenderInv
<1>7. QED BY <1>2, <1>3, <1>4, <1>5, <1>6 DEF WireInv

LEMMA WriterKeepsWire ==
  ASSUME ListInv, WireInv, NEW w \in Writer, CallSendD(w) \/ WriterStepD(w)
  PROVE  WireInv'
<1>1. UNCHANGED <<wire, sent, send_pc>>
  BY DEF CallSendD, WriterStepD, CallSend, WriterStep, WriterLocks, WriterFindsAbandoned,
         WriterAppends, WriterSignals
<1>2. send_pc = "send" => UNCHANGED gp_massage_to_send_hade
  <2>1. CASE WriterAppends(w)
    BY <2>1, WriterAlone DEF ListInv, WriterAppends
  <2>2. CASE CallSend(w) \/ WriterLocks(w) \/ WriterFindsAbandoned(w) \/ WriterSignals(w)
    BY <2>2 DEF CallSend, WriterLocks, WriterFindsAbandoned, WriterSignals
  <2>3. QED BY <2>1, <2>2 DEF CallSendD, WriterStepD, WriterStep
<1>3. called # Len(sent) /\ send_pc = "send" => gp_massage_to_send_hade # << >>
  BY DEF WireInv, SenderInv
<1>4. QED BY <1>1, <1>2, <1>3, QueueKeepsWire

LEMMA SenderKeepsWire ==
  ASSUME WireInv, UNCHANGED wire,
         SenderLoops \/ SenderTakesPermit \/ SenderLocks \/ SenderRemoves \/ SenderGoesOn
  PROVE  WireInv'
<1>1. UNCHANGED sent /\ send_pc \notin {"send", "ended"}
  BY DEF SenderLoops, SenderTakesPermit, SenderLocks, SenderRemoves, SenderGoesOn, writers
<1>2. called = Len(sent)
  BY <1>1 DEF WireInv, SenderInv
<1>3. QED BY <1>1, <1>2, QueueKeepsWire

(* SendString returns: the message counts as sent.                         *)
LEMMA SendReturnsKeepsWire ==
  ASSUME ListInv, WireInv, SendReturns
  PROVE  WireInv'
<1> USE DEF wire
<1>1. /\ called = Len(sent) + 1 /\ to_send = << >> /\ UNCHANGED wire
      /\ send_pc = "send" /\ send_pc' = "remove"
      /\ sent' = Append(sent, Head(gp_massage_to_send_hade))
  BY DEF SendReturns, SenderSends
<1>2. Len(sent') = called' /\ Len(sent) \in Nat
  BY <1>1 DEF ListInv, TypeOK
<1>3. called # Len(sent) /\ called' = Len(sent')
  BY <1>1, <1>2
<1>4. ~gave_up /\ ~gave_up'
  BY <1>1 DEF gave_up
<1>5. WireTypeOK'
  BY <1>1 DEF WireInv, WireTypeOK
<1>6. SenderInv'
  BY <1>1, <1>3 DEF SenderInv
<1>7. StreamInv'
  <2>1. PICK s \in Bytes : Carries(s)
    BY DEF WireInv, StreamInv
  <2>2. Due(s)'
    BY <1>1, <1>4, <2>1 DEF Carries, Due
  <2>3. expected' = expected
    BY <1>1 DEF expected
  <2>4. Carries(s)'
    BY <1>1, <2>1, <2>2, <2>3 DEF Carries
  <2>5. QED BY <2>4 DEF StreamInv
<1>8. ReceiverInv'
  BY <1>1 DEF WireInv, ReceiverInv
<1>9. BehindInv' /\ EndInv'
  BY <1>1, <1>3 DEF WireInv, BehindInv, EndInv
<1>10. QED BY <1>5, <1>6, <1>7, <1>8, <1>9 DEF WireInv

-----------------------------------------------------------------------------
(* The steps of SendString.                                                *)

LEMMA UnsentMessage ==
  ASSUME NEW m \in Wire!Message
  PROVE  /\ Wire!size_buffer(m) = rest(Byte(m, "size", 1))
         /\ Wire!string_buffer(m) = rest(Byte(m, "string", 1))
<1>1. MessageLen[m] \in Nat /\ SIZE_BYTES \in Nat
  BY WireConstants
<1> DEFINE b == Byte(m, "size", 1)
           c == Byte(m, "string", 1)
<1>2. room(b) - b.k + 1 = SIZE_BYTES /\ room(c) - c.k + 1 = MessageLen[m] + 1
  BY <1>1 DEF room, Byte
<1>3. \A i \in Nat : further(b, i - 1) = Wire!Byte(m, "size", i)
                     /\ further(c, i - 1) = Wire!Byte(m, "string", i)
  BY DEF further, Byte, Wire!Byte
<1>4. rest(b) = [i \in 1 .. SIZE_BYTES |-> further(b, i - 1)]
      /\ rest(c) = [i \in 1 .. MessageLen[m] + 1 |-> further(c, i - 1)]
  BY <1>2 DEF rest
<1>5. rest(b) = [i \in 1 .. SIZE_BYTES |-> Wire!Byte(m, "size", i)]
  BY <1>1, <1>3, <1>4
<1>6. rest(c) = [i \in 1 .. MessageLen[m] + 1 |-> Wire!Byte(m, "string", i)]
  BY <1>1, <1>3, <1>4
<1>7. QED BY <1>5, <1>6 DEF Wire!size_buffer, Wire!string_buffer, Wire!TotalStringSizeInBytes

LEMMA BeginsMessageKeepsWire ==
  ASSUME ListInv, WireInv, BeginsMessage
  PROVE  WireInv'
<1>1. /\ send_pc = "send" /\ gp_massage_to_send_hade # << >> /\ called = Len(sent)
      /\ to_send = << >> /\ called' = called + 1 /\ called + 1 \in Wire!Message
      /\ to_send' = <<Wire!size_buffer(called'), Wire!string_buffer(called')>>
      /\ UNCHANGED <<stream, conn, receiving, got, want, received, recv_res>>
      /\ UNCHANGED <<send_pc, sent, gp_massage_to_send_hade>>
  BY DEF BeginsMessage, Wire!CallSendString, Wire!receiver, vars
<1>2. called \in Nat /\ called' # Len(sent') /\ called' = Len(sent') + 1 /\ to_send' # << >>
      /\ called' \in 0 .. Len(MessageLen)
  BY <1>1, WireConstants DEF WireInv, WireTypeOK
<1>3. WireTypeOK'
  <2>1. \A i \in DOMAIN stream : Placed(stream[i]) /\ stream[i].m \in 1 .. called'
    BY <1>1, <1>2 DEF WireInv, WireTypeOK
  <2>2. QED BY <1>1, <1>2, <2>1 DEF WireInv, WireTypeOK
<1>4. SenderInv'
  BY <1>1, <1>2 DEF SenderInv
<1>5. StreamInv'
  <2>1. PICK s \in Bytes : Carries(s)
    BY DEF WireInv, StreamInv
  <2>2. s = Byte(called + 1, "size", 1)
    <3>1. ~gave_up
      BY <1>1 DEF gave_up
    <3>2. unsent(s) # << >>
      BY DEF unsent
    <3>3. QED BY <1>1, <2>1, <3>1, <3>2 DEF Carries, Due
  <2>3. s.m = called' /\ s.part = "size"
    BY <1>1, <2>2 DEF Byte
  <2>4. to_send' = unsent(s)
    BY <1>1, <2>2, <2>3, UnsentMessage DEF unsent
  <2>5. Due(s)'
    BY <1>1, <2>3, <2>4 DEF Due
  <2>6. expected' = expected
    BY <1>1 DEF expected
  <2>7. Carries(s)'
    BY <1>1, <2>1, <2>5, <2>6 DEF Carries
  <2>8. QED BY <2>7 DEF StreamInv
<1>6. ReceiverInv'
  BY <1>1 DEF WireInv, ReceiverInv
<1>7. BehindInv'
  <2>1. Len(received) \in Nat /\ Len(received) <= called
    BY DEF WireInv, BehindInv, WireTypeOK
  <2>2. QED BY <1>1, <1>2, <2>1 DEF BehindInv
<1>8. EndInv'
  <2>1. recv_res = "TRNS_DISCONNECTED" => Len(received) = called /\ conn = "shut"
    BY <1>1 DEF WireInv, EndInv
  <2>2. QED BY <1>1, <1>2, <2>1 DEF EndInv
<1>9. QED BY <1>3, <1>4, <1>5, <1>6, <1>7, <1>8 DEF WireInv

LEMMA PairConcat ==
  ASSUME NEW a, NEW b
  PROVE  <<a>> \o <<b>> = <<a, b>>
<1>1. <<a>> \in Seq({a, b}) /\ b \in {a, b}
  OBVIOUS
<1>2. <<a>> \o <<b>> = Append(<<a>>, b)
  BY <1>1, AppendIsConcat
<1>3. Append(<<a>>, b) = <<a, b>>
  <2>1. /\ Append(<<a>>, b) \in Seq({a, b}) /\ Len(Append(<<a>>, b)) = Len(<<a>>) + 1
        /\ \A i \in 1 .. Len(<<a>>) : Append(<<a>>, b)[i] = <<a>>[i]
        /\ Append(<<a>>, b)[Len(<<a>>) + 1] = b
    BY <1>1, AppendProperties
  <2>2. Len(<<a>>) = 1 /\ <<a>>[1] = a
    OBVIOUS
  <2>3. <<a, b>> \in Seq({a, b}) /\ Len(<<a, b>>) = 2 /\ <<a, b>>[1] = a /\ <<a, b>>[2] = b
    OBVIOUS
  <2>4. Len(Append(<<a>>, b)) = 2 /\ Append(<<a>>, b)[1] = a /\ Append(<<a>>, b)[2] = b
    BY <2>1, <2>2
  <2>5. \A i \in 1 .. 2 : i = 1 \/ i = 2
    OBVIOUS
  <2>6. \A i \in 1 .. 2 : Append(<<a>>, b)[i] = <<a, b>>[i]
    BY <2>3, <2>4, <2>5
  <2>7. QED BY <2>1, <2>3, <2>4, <2>6, SeqEqual
<1>4. QED BY <1>2, <1>3

(* What one call of send leaves of a message.                              *)
LEMMA RestAfterSend ==
  ASSUME NEW s \in Bytes, Placed(s), s.m \in Wire!Message, NEW n \in 1 .. Len(rest(s)),
         to_send = unsent(s)
  PROVE  Wire!after_send(n) = IF n = Len(rest(s)) /\ s.part = "string" THEN << >>
                              ELSE unsent(due_after(s, n))
<1>1. /\ rest(s) \in Seq(Bytes) /\ Len(rest(s)) = room(s) - s.k + 1
      /\ Len(rest(s)) \in Nat /\ n \in Nat /\ n >= 1 /\ n <= Len(rest(s))
      /\ room(s) \in Nat /\ s.k \in Nat /\ s.k >= 1
  BY RestOfMessage, RoomIsNumber
<1>2. to_send # << >> /\ Head(to_send) = rest(s)
      /\ Tail(to_send) = IF s.part = "size" THEN <<rest(Byte(s.m, "string", 1))>> ELSE << >>
  BY DEF unsent
<1>3. CASE n = Len(rest(s))
  <2>1. s.k + n > room(s) /\ due_after(s, n) = after(s)
    BY <1>1, <1>3 DEF due_after
  <2>2. Wire!after_send(n) = Tail(to_send)
    BY <1>2, <1>3 DEF Wire!after_send
  <2>3. CASE s.part = "size"
    <3>1. after(s) = Byte(s.m, "string", 1)
      BY <2>3 DEF after
    <3>2. unsent(after(s)) = <<rest(Byte(s.m, "string", 1))>>
      BY <3>1 DEF unsent, Byte
    <3>3. QED BY <1>2, <2>1, <2>2, <2>3, <3>2
  <2>4. CASE s.part = "string"
    BY <1>2, <1>3, <2>2, <2>4
  <2>5. QED BY <2>3, <2>4 DEF Bytes
<1>4. CASE n # Len(rest(s))
  <2>1. s.k + n <= room(s)
    BY <1>1, <1>4
  <2>2. due_after(s, n) = further(s, n)
    BY <2>1 DEF due_after
  <2>3. PICK c \in Bytes : c = further(s, n) /\ room(c) = room(s) /\ c.k = s.k + n
                           /\ c.m = s.m /\ c.part = s.part /\ Placed(c)
    BY <1>1, <2>1, FurtherIsPlaced
  <2>4. rest(c) = SubSeq(rest(s), n + 1, Len(rest(s)))
    <3>1. PICK l \in Nat : l = Len(rest(s))
      BY <1>1
    <3>2. Len(rest(c)) = l - n /\ rest(c) \in Seq(Bytes)
      BY <1>1, <2>3, <3>1, RestOfMessage, SMTT(30)
    <3>3. SubSeq(rest(s), n + 1, l) \in Seq(Bytes) /\ Len(SubSeq(rest(s), n + 1, l)) = l - n
          /\ \A i \in 1 .. l - n : SubSeq(rest(s), n + 1, l)[i] = rest(s)[n + i]
      <4>1. PICK y \in Seq(Bytes) : y = rest(s)
        BY <1>1
      <4>2. Len(y) = l /\ n + 1 \in 1 .. l + 1 /\ n \in Nat
        BY <1>1, <3>1, <4>1
      <4>3. SubSeq(y, n + 1, l) \in Seq(Bytes) /\ Len(SubSeq(y, n + 1, l)) = l - n
        BY <4>2
      <4>4. ASSUME NEW i \in 1 .. l - n PROVE SubSeq(y, n + 1, l)[i] = y[n + i]
        <5>1. (n + 1) + i - 1 = n + i
          BY <3>1, <4>2
        <5>2. QED BY <4>2, <5>1
      <4>5. QED BY <4>1, <4>3, <4>4
    <3>4. ASSUME NEW i \in 1 .. l - n PROVE rest(c)[i] = rest(s)[n + i]
      <4>1. n + i \in 1 .. l /\ (n + i) - 1 = n + (i - 1) /\ i - 1 \in Nat
        BY <1>1, <3>1
      <4>2. rest(s)[n + i] = further(s, n + (i - 1))
        BY <3>1, <4>1, RestOfMessage
      <4>3. rest(c)[i] = further(c, i - 1)
        BY <3>2, <2>3, RestOfMessage
      <4>4. further(c, i - 1) = further(s, n + (i - 1))
        BY <1>1, <2>3, <4>1, FurtherTwice
      <4>5. QED BY <4>2, <4>3, <4>4
    <3>5. QED BY <3>1, <3>2, <3>3, <3>4, SeqEqual
  <2>5. Wire!after_send(n) = <<rest(c)>> \o Tail(to_send)
    BY <1>2, <1>4, <2>4 DEF Wire!after_send
  <2>6. CASE s.part = "size"
    <3>1. unsent(c) = <<rest(c), rest(Byte(s.m, "string", 1))>>
      BY <2>3, <2>6 DEF unsent
    <3>2. PICK d : d = rest(Byte(s.m, "string", 1))
      OBVIOUS
    <3>3. <<rest(c)>> \o <<d>> = <<rest(c), d>>
      BY PairConcat
    <3>4. Wire!after_send(n) = <<rest(c), d>>
      BY <1>2, <2>5, <2>6, <3>2, <3>3
    <3>5. unsent(c) = <<rest(c), d>>
      BY <2>3, <3>1, <3>2
    <3>6. QED BY <1>4, <2>2, <2>3, <3>4, <3>5
  <2>7. CASE s.part = "string"
    <3>1. unsent(c) = <<rest(c)>>
      BY <2>3, <2>7 DEF unsent
    <3>2. <<rest(c)>> \o << >> = <<rest(c)>>
      OBVIOUS
    <3>3. QED BY <1>2, <1>4, <2>2, <2>3, <2>5, <2>7, <3>1, <3>2
  <2>8. QED BY <2>6, <2>7 DEF Bytes
<1>5. QED BY <1>3, <1>4

LEMMA SendsBytesKeepsWire ==
  ASSUME ListInv, WireInv, SendsBytes
  PROVE  WireInv'
<1>1. /\ to_send # << >> /\ conn = "open"
      /\ UNCHANGED <<called, conn, receiving, got, want, received, recv_res>>
      /\ UNCHANGED <<send_pc, sent, gp_massage_to_send_hade>>
  BY DEF SendsBytes, Wire!SendSome, Wire!receiver, vars
<1>2. PICK n \in 1 .. Len(Head(to_send)) :
        stream' = stream \o SubSeq(Head(to_send), 1, n) /\ to_send' = Wire!after_send(n)
  BY DEF SendsBytes, Wire!SendSome
<1>3. PICK s \in Bytes : Carries(s)
  BY DEF WireInv, StreamInv
<1>4. Placed(s) /\ s.m = called /\ called \in Wire!Message /\ to_send = unsent(s)
  BY <1>1, <1>3 DEF Carries, Due
<1>5. Head(to_send) = rest(s)
  BY <1>4 DEF unsent
<1>6. /\ rest(s) \in Seq(Bytes) /\ Len(rest(s)) \in Nat /\ n \in 1 .. Len(rest(s))
      /\ \A i \in 1 .. Len(rest(s)) : rest(s)[i] = further(s, i - 1) /\ s.k + (i - 1) <= room(s)
  BY <1>2, <1>4, <1>5, RestOfMessage
<1>7. PICK x \in Seq(Bytes) : /\ x = SubSeq(rest(s), 1, n) /\ Len(x) = n
                              /\ \A i \in 1 .. n : x[i] = rest(s)[i]
  <2>1. SubSeq(rest(s), 1, n) \in Seq(Bytes) /\ Len(SubSeq(rest(s), 1, n)) = n
        /\ \A i \in 1 .. n : SubSeq(rest(s), 1, n)[i] = rest(s)[i]
    BY <1>6
  <2>2. QED BY <2>1
<1>8. \A i \in 1 .. n : x[i] = further(s, i - 1) /\ Placed(x[i]) /\ x[i].m = called
  <2>1. SUFFICES ASSUME NEW i \in 1 .. n
                 PROVE  x[i] = further(s, i - 1) /\ Placed(x[i]) /\ x[i].m = called
    OBVIOUS
  <2>2. i \in 1 .. Len(rest(s)) /\ i - 1 \in Nat
    BY <1>6
  <2>3. x[i] = further(s, i - 1) /\ s.k + (i - 1) <= room(s)
    BY <1>6, <1>7, <2>2
  <2>4. QED BY <1>4, <2>2, <2>3, FurtherIsPlaced
<1>9. stream \in Seq(Bytes) /\ \A i \in 1 .. Len(stream) : Placed(stream[i])
  BY DEF WireInv, WireTypeOK
<1>10. stream' = stream \o x
  BY <1>2, <1>5, <1>7
<1>11. PICK z \in Bytes : /\ z = due_after(s, n) /\ Placed(z) /\ Follows(Append(stream', z))
                          /\ Append(stream', z)[1] = Append(stream, s)[1]
  <2>1. Follows(Append(stream, s))
    BY <1>3 DEF Carries
  <2>2. s.part = "size" => s.m \in Wire!Message
    BY <1>4
  <2>3. \A i \in 1 .. n : x[i] = further(s, i - 1)
    BY <1>8
  <2>4. Placed(s) /\ n \in 1 .. Len(rest(s)) /\ Len(x) = n
    BY <1>4, <1>6, <1>7
  <2>5. /\ due_after(s, n) \in Bytes /\ Placed(due_after(s, n))
        /\ Follows(Append(stream \o x, due_after(s, n)))
        /\ Append(stream \o x, due_after(s, n))[1] = Append(stream, s)[1]
    BY <1>9, <2>1, <2>2, <2>3, <2>4, SentFollows
  <2>6. QED BY <1>10, <2>5
<1>12. send_pc = "send" /\ called # Len(sent) /\ ~gave_up /\ ~gave_up'
  BY <1>1 DEF WireInv, SenderInv, gave_up
<1>13. to_send' = IF n = Len(rest(s)) /\ s.part = "string" THEN << >> ELSE unsent(z)
  BY <1>2, <1>4, <1>6, <1>11, RestAfterSend
<1>14. Due(z)'
  <2>1. CASE n = Len(rest(s)) /\ s.part = "string"
    <3>1. ~(s.k + n <= room(s))
      BY <1>4, <1>6, <2>1, RestOfMessage, RoomIsNumber
    <3>2. z = Byte(called + 1, "size", 1)
      BY <1>4, <1>11, <2>1, <3>1 DEF due_after, after
    <3>3. QED BY <1>1, <1>12, <1>13, <2>1, <3>2 DEF Due
  <2>2. CASE ~(n = Len(rest(s)) /\ s.part = "string")
    <3>1. z.m = s.m
      <4>1. CASE s.k + n <= room(s)
        BY <1>11, <4>1 DEF due_after, further, Byte
      <4>2. CASE ~(s.k + n <= room(s))
        <5>1. n = Len(rest(s))
          BY <1>4, <1>6, <4>2, RestOfMessage, RoomIsNumber
        <5>2. s.part = "size"
          BY <2>2, <5>1 DEF Bytes
        <5>3. QED BY <1>11, <4>2, <5>2 DEF due_after, after, Byte
      <4>3. QED BY <4>1, <4>2
    <3>2. QED BY <1>1, <1>4, <1>13, <2>2, <3>1 DEF Due
  <2>3. QED BY <2>1, <2>2
<1>15. StreamInv'
  <2>1. expected' = expected
    BY <1>1 DEF expected
  <2>2. Carries(z)'
    BY <1>1, <1>3, <1>11, <1>14, <2>1 DEF Carries
  <2>3. QED BY <2>2 DEF StreamInv
<1>16. WireTypeOK'
  <2>1. stream' \in Seq(Bytes) /\ Len(stream') = Len(stream) + n
    BY <1>7, <1>9, <1>10
  <2>2. \A i \in DOMAIN stream' : Placed(stream'[i]) /\ stream'[i].m \in 1 .. called
    <3>1. SUFFICES ASSUME NEW i \in DOMAIN stream'
                   PROVE  Placed(stream'[i]) /\ stream'[i].m \in 1 .. called
      OBVIOUS
    <3>2. CASE i <= Len(stream)
      <4>1. i \in DOMAIN stream /\ stream'[i] = stream[i]
        BY <1>7, <1>9, <1>10, <2>1, <3>2
      <4>2. QED BY <4>1 DEF WireInv, WireTypeOK
    <3>3. CASE i > Len(stream)
      <4>1. i - Len(stream) \in 1 .. n /\ stream'[i] = x[i - Len(stream)]
        BY <1>6, <1>7, <1>9, <1>10, <2>1, <3>3
      <4>2. QED BY <1>4, <1>8, <4>1, WireConstants
    <3>4. QED BY <1>9, <2>1, <3>2, <3>3
  <2>3. QED BY <1>1, <2>1, <2>2 DEF WireInv, WireTypeOK
<1>17. SenderInv'
  BY <1>1, <1>12 DEF WireInv, SenderInv
<1>18. ReceiverInv'
  BY <1>1 DEF WireInv, ReceiverInv
<1>19. BehindInv' /\ EndInv'
  BY <1>1, <1>12 DEF WireInv, BehindInv, EndInv
<1>20. QED BY <1>15, <1>16, <1>17, <1>18, <1>19 DEF WireInv

(* An error of send.                                                       *)
LEMMA SendReturnsErrorKeepsWire ==
  ASSUME ListInv, WireInv, SendReturnsError
  PROVE  WireInv'
<1>1. /\ to_send # << >> /\ conn # "open" /\ to_send' = << >> /\ send_pc' = "ended"
      /\ UNCHANGED <<called, stream, conn, receiving, got, want, received, recv_res, sent>>
  BY DEF SendReturnsError, SenderFails, Wire!SendFails, Wire!receiver
<1>2. called # Len(sent) /\ gave_up'
  BY <1>1 DEF WireInv, SenderInv, gave_up
<1>3. WireTypeOK'
  BY <1>1 DEF WireInv, WireTypeOK
<1>4. SenderInv'
  BY <1>1, <1>2 DEF WireInv, SenderInv
<1>5. StreamInv'
  <2>1. PICK s \in Bytes : Carries(s)
    BY DEF WireInv, StreamInv
  <2>2. Due(s)'
    BY <1>1, <1>2, <2>1 DEF Carries, Due
  <2>3. expected' = expected
    BY <1>1 DEF expected
  <2>4. Carries(s)'
    BY <1>1, <2>1, <2>2, <2>3 DEF Carries
  <2>5. QED BY <2>4 DEF StreamInv
<1>6. ReceiverInv'
  BY <1>1 DEF WireInv, ReceiverInv
<1>7. BehindInv'
  BY <1>1, <1>2 DEF WireInv, BehindInv
<1>8. EndInv'
  BY <1>1, <1>2 DEF WireInv, EndInv, BehindInv
<1>9. QED BY <1>3, <1>4, <1>5, <1>6, <1>7, <1>8 DEF WireInv

-----------------------------------------------------------------------------
(* The connection ends, and the receiver learns of it.                     *)

LEMMA ConnectionEndKeepsWire ==
  ASSUME WireInv, conn = "open", conn' \in {"shut", "broken"},
         UNCHANGED <<called, to_send, stream, receiving, got, want, received, recv_res>>,
         UNCHANGED <<send_pc, sent, gp_massage_to_send_hade>>
  PROVE  WireInv'
<1>1. WireTypeOK' /\ SenderInv' /\ ReceiverInv' /\ BehindInv' /\ EndInv'
  BY DEF WireInv, WireTypeOK, SenderInv, ReceiverInv, BehindInv, EndInv
<1>2. StreamInv'
  <2>1. PICK s \in Bytes : Carries(s)
    BY DEF WireInv, StreamInv
  <2>2. Carries(s)'
    BY <2>1 DEF Carries, Due, gave_up, expected
  <2>3. QED BY <2>2 DEF StreamInv
<1>3. QED BY <1>1, <1>2 DEF WireInv

LEMMA OwnShutsKeepsWire ==
  ASSUME WireInv, OwnShuts
  PROVE  WireInv'
<1>1. UNCHANGED <<send_pc, sent, gp_massage_to_send_hade>>
  BY DEF OwnShuts, OwnEnds
<1>2. CASE UNCHANGED wire
  BY <1>1, <1>2, QueueKeepsWire DEF WireInv, SenderInv
<1>3. CASE Wire!Shut
  BY <1>1, <1>3, ConnectionEndKeepsWire DEF Wire!Shut, Wire!sender, Wire!receiver
<1>4. QED BY <1>2, <1>3 DEF OwnShuts

LEMMA ConnectionBreaksKeepsWire ==
  ASSUME WireInv, ConnectionBreaks
  PROVE  WireInv'
<1>1. UNCHANGED <<send_pc, sent, gp_massage_to_send_hade>>
  BY DEF ConnectionBreaks, Cut, writers, vars
<1>2. Wire!Break
  BY DEF ConnectionBreaks
<1>3. QED
  BY <1>1, <1>2, ConnectionEndKeepsWire DEF Wire!Break, Wire!sender, Wire!receiver

LEMMA ReceiveEndKeepsWire ==
  ASSUME WireInv, Wire!ReceiveEnd, UNCHANGED vars
  PROVE  WireInv'
<1>1. /\ recv_res = "TRNS_SUCCEEDED"
      /\ \/ conn = "shut" /\ stream = << >> /\ recv_res' = "TRNS_DISCONNECTED"
         \/ conn = "broken" /\ recv_res' = "TRNS_FAILED"
      /\ UNCHANGED <<called, to_send, stream, conn, receiving, want, received>>
      /\ UNCHANGED <<send_pc, sent, gp_massage_to_send_hade>>
  BY DEF Wire!ReceiveEnd, Wire!sender, vars
<1>2. PICK s \in Bytes : Carries(s)
  BY DEF WireInv, StreamInv
<1>3. WireTypeOK' /\ SenderInv' /\ ReceiverInv' /\ BehindInv'
  BY <1>1 DEF WireInv, WireTypeOK, SenderInv, ReceiverInv, BehindInv
<1>4. StreamInv'
  <2>1. Carries(s)'
    BY <1>1, <1>2 DEF Carries, Due, gave_up
  <2>2. QED BY <2>1 DEF StreamInv
<1>5. EndInv'
  <2>1. SUFFICES ASSUME conn = "shut", stream = << >>
                 PROVE  \/ Len(received) = called /\ receiving = "size" /\ want = SIZE_BYTES
                        \/ /\ Len(received) + 1 = called /\ called # Len(sent)
                           /\ to_send # << >> \/ send_pc = "ended"
    BY <1>1 DEF EndInv
  <2>2. s = expected
    BY <1>1, <1>2, <2>1 DEF Carries
  <2>3. Len(received) \in Nat /\ Len(got) \in Nat /\ called \in Nat
    BY <1>1 DEF WireInv, WireTypeOK, ReceiverInv
  <2>4. CASE to_send = << >> /\ ~gave_up /\ s = Byte(called + 1, "size", 1)
    <3>1. Len(received) + 1 = called + 1 /\ receiving = "size" /\ Len(got) + 1 = 1
      BY <2>2, <2>4 DEF expected, Byte
    <3>2. want = room(Byte(Len(received) + 1, receiving, 1)) - Len(got)
      BY <1>1 DEF WireInv, ReceiverInv
    <3>3. room(Byte(Len(received) + 1, receiving, 1)) = SIZE_BYTES
      BY <3>1 DEF room, Byte
    <3>4. QED BY <2>3, <3>1, <3>2, <3>3, WireConstants
  <2>5. CASE s.m = called /\ (gave_up \/ to_send # << >>)
    <3>1. Len(received) + 1 = called
      BY <2>2, <2>5 DEF expected, Byte
    <3>2. QED BY <2>5, <3>1 DEF gave_up, WireInv, SenderInv
  <2>6. QED
    <3>1. unsent(s) # << >>
      BY DEF unsent
    <3>2. QED BY <1>2, <2>4, <2>5, <3>1 DEF Carries, Due
<1>6. QED BY <1>3, <1>4, <1>5 DEF WireInv

-----------------------------------------------------------------------------
(* The receiver takes bytes from the stream.                               *)

(* The bytes of the buffer so far.                                         *)
LEMMA TakenBytes ==
  ASSUME NEW q \in Seq(Bytes), NEW s \in Bytes, Follows(Append(q, s)),
         NEW b \in Bytes, Append(q, s)[1] = b,
         NEW n \in 1 .. Len(q), b.k + (n - 1) <= room(b), room(b) \in Nat
  PROVE  /\ \A i \in 1 .. n : q[i] = further(b, i - 1)
         /\ b.k + n <= room(b) => Append(q, s)[n + 1] = further(b, n)
         /\ b.k + n > room(b) => Append(q, s)[n + 1] = after(b)
<1> DEFINE t == Append(q, s)
<1>1. /\ DOMAIN t = 1 .. Len(q) + 1 /\ Len(q) \in Nat
      /\ \A i \in 1 .. Len(q) : t[i] = q[i]
  BY AppendPlaces
<1>2. Follows(t) /\ t[1] = b
  OBVIOUS
<1>3. n \in Nat /\ n >= 1 /\ n <= Len(q) /\ b.k \in Nat
  BY <1>1 DEF Bytes
<1> HIDE DEF t
<1>4. \A i \in 1 .. n + 1 : b.k + (i - 1) <= room(b) => t[i] = further(b, i - 1)
  <2>1. SUFFICES ASSUME NEW i \in 1 .. n + 1, b.k + (i - 1) <= room(b)
                 PROVE  t[i] = further(b, i - 1)
    OBVIOUS
  <2>2. 1 \in DOMAIN t /\ i \in DOMAIN t /\ 1 <= i
    BY <1>1, <1>3
  <2>3. QED BY <1>2, <2>1, <2>2 DEF Follows
<1>5. \A i \in 1 .. n : q[i] = further(b, i - 1)
  <2>1. SUFFICES ASSUME NEW i \in 1 .. n PROVE q[i] = further(b, i - 1)
    OBVIOUS
  <2>2. i \in 1 .. n + 1 /\ i \in 1 .. Len(q) /\ b.k + (i - 1) <= room(b)
    BY <1>1, <1>3
  <2>3. QED BY <1>1, <1>4, <2>2
<1>6. b.k + n <= room(b) => t[n + 1] = further(b, n)
  <2>1. n + 1 \in 1 .. n + 1 /\ (n + 1) - 1 = n
    BY <1>3
  <2>2. QED BY <1>4, <2>1
<1>7. ASSUME b.k + n > room(b) PROVE t[n + 1] = after(b)
  <2>1. n \in 1 .. n + 1 /\ n \in DOMAIN t /\ n + 1 \in DOMAIN t /\ b.k + (n - 1) = room(b)
    <3>1. PICK k \in Nat, l \in Nat : k = b.k /\ l = room(b)
      BY <1>3
    <3>2. k + (n - 1) <= l /\ k + n > l
      BY <1>7, <3>1
    <3>3. k + (n - 1) = l
      BY <1>3, <3>2
    <3>4. n \in 1 .. n + 1 /\ n \in DOMAIN t /\ n + 1 \in DOMAIN t
      BY <1>1, <1>3
    <3>5. QED BY <3>1, <3>3, <3>4
  <2>2. t[n] = further(b, n - 1)
    BY <1>4, <2>1
  <2>3. t[n].k = room(t[n]) /\ after(t[n]) = after(b)
    BY <2>1, <2>2 DEF further, Byte, room, after
  <2>4. QED BY <1>2, <2>1, <2>3 DEF Follows
<1>8. QED BY <1>5, <1>6, <1>7 DEF t

(* The size that arrives is that of the message, and so is its string.     *)
LEMMA BufferIsWhole ==
  ASSUME NEW m \in Wire!Message, NEW part \in {"size", "string"}, NEW bytes \in Seq(Bytes),
         Len(bytes) = room(Byte(m, part, 1)),
         \A i \in 1 .. Len(bytes) : bytes[i] = Byte(m, part, i)
  PROVE  /\ part = "size" => Wire!size_in(bytes) = room(Byte(m, "string", 1))
         /\ part = "string" => Wire!message_in(bytes) = m
<1>1. MessageLen[m] \in Nat /\ MessageLen[m] >= 1 /\ SIZE_BYTES \in Nat /\ SIZE_BYTES >= 1
  BY WireConstants
<1>2. \A i \in Nat : Byte(m, part, i) = Wire!Byte(m, part, i)
  BY DEF Byte, Wire!Byte
<1>3. PICK l \in Nat : l = Len(bytes) /\ bytes = [i \in 1 .. l |-> bytes[i]]
  OBVIOUS
<1>4. bytes = [i \in 1 .. l |-> Wire!Byte(m, part, i)]
  BY <1>2, <1>3
<1>5. CASE part = "size"
  <2>1. l = SIZE_BYTES
    BY <1>3, <1>5 DEF room, Byte
  <2>2. bytes = Wire!size_buffer(m)
    BY <1>4, <1>5, <2>1 DEF Wire!size_buffer
  <2>3. bytes[1].m = m
    <3>1. 1 \in 1 .. Len(bytes)
      BY <1>1, <1>3, <2>1
    <3>2. bytes[1] = Byte(m, part, 1)
      BY <3>1
    <3>3. QED BY <3>2 DEF Byte
  <2>4. Wire!size_in(bytes) = MessageLen[m] + 1
    BY <2>2, <2>3 DEF Wire!size_in, Wire!TotalStringSizeInBytes
  <2>5. room(Byte(m, "string", 1)) = MessageLen[m] + 1
    BY DEF room, Byte
  <2>6. QED BY <1>5, <2>4, <2>5
<1>6. CASE part = "string"
  <2>1. l = MessageLen[m] + 1
    BY <1>3, <1>6 DEF room, Byte
  <2>2. bytes = Wire!string_buffer(m)
    BY <1>4, <1>6, <2>1 DEF Wire!string_buffer, Wire!TotalStringSizeInBytes
  <2>3. bytes[1].m = m
    <3>1. 1 \in 1 .. Len(bytes)
      BY <1>1, <1>3, <2>1
    <3>2. bytes[1] = Byte(m, part, 1)
      BY <3>1
    <3>3. QED BY <3>2 DEF Byte
  <2>4. QED BY <1>6, <2>2, <2>3 DEF Wire!message_in
<1>7. QED BY <1>5, <1>6

(* What ReceiveSome does: it goes on with its buffer, or it is full; then  *)
(* it holds the size of a message, or the whole message.                   *)
Continues(n) ==
  /\ UNCHANGED <<receiving, received>> /\ want' = want - n /\ want' >= 1
  /\ got' \in Seq(Bytes) /\ Len(got') = Len(got) + n
  /\ \A i \in DOMAIN got' : got'[i] = Byte(Len(received) + 1, receiving, i)

SizeArrives ==
  /\ receiving = "size" /\ receiving' = "string"
  /\ Len(received) + 1 \in Wire!Message
  /\ got' = << >> /\ want' = room(Byte(Len(received) + 1, "string", 1)) /\ UNCHANGED received

MessageArrives ==
  /\ receiving = "string" /\ receiving' = "size" /\ got' = << >> /\ want' = SIZE_BYTES
  /\ received' = Append(received, Len(received) + 1)

(* A step of ReceiveSome by n bytes.                                       *)
Receives(n) ==
  /\ recv_res = "TRNS_SUCCEEDED" /\ n \in 1 .. Len(stream) /\ n \in Nat
  /\ UNCHANGED <<called, to_send, conn, recv_res>>
  /\ stream' = SubSeq(stream, n + 1, Len(stream))
  /\ Len(received) + 1 \in 1 .. called
  /\ Continues(n) \/ SizeArrives \/ MessageArrives

(* Byte s of the stream is the next one after what was taken.              *)
LEMMA ReceiveSomeReceives ==
  ASSUME WireInv, Wire!ReceiveSome, NEW s \in Bytes, Carries(s)
  PROVE  \E n \in Nat : Receives(n) /\ Append(stream, s)[n + 1] = expected'
<1>1. /\ recv_res = "TRNS_SUCCEEDED" /\ stream # << >>
      /\ UNCHANGED <<called, to_send, conn, recv_res>>
  BY DEF Wire!ReceiveSome, Wire!sender
<1>2. PICK n \in 1 .. want :
        /\ n <= Len(stream)
        /\ IF n >= want THEN Wire!BufferFull(got \o SubSeq(stream, 1, n))
           ELSE got' = got \o SubSeq(stream, 1, n) /\ want' = want - n
                /\ UNCHANGED <<receiving, received>>
        /\ stream' = SubSeq(stream, n + 1, Len(stream))
  BY DEF Wire!ReceiveSome, Wire!may_take
<1> DEFINE m == Len(received) + 1
           b == expected
<1>3. /\ got \in Seq(Bytes) /\ \A i \in DOMAIN got : got[i] = Byte(m, receiving, i)
      /\ want = room(Byte(m, receiving, 1)) - Len(got) /\ want >= 1
      /\ stream \in Seq(Bytes)
      /\ \A i \in DOMAIN stream : Placed(stream[i]) /\ stream[i].m \in 1 .. called
      /\ received \in Seq(Nat) /\ receiving \in {"size", "string"}
      /\ called \in 0 .. Len(MessageLen)
  BY <1>1 DEF WireInv, WireTypeOK, ReceiverInv
<1>4. /\ Follows(Append(stream, s)) /\ Append(stream, s)[1] = b /\ stream[1] = b
      /\ 1 \in DOMAIN stream
  BY <1>1, <1>3, AppendPlaces DEF Carries
<1>5. /\ b \in Bytes /\ Placed(b) /\ b.m = m /\ b.part = receiving /\ b.k = Len(got) + 1
      /\ m \in 1 .. called /\ m \in Wire!Message
  <2>1. b.m = m /\ b.part = receiving /\ b.k = Len(got) + 1
    BY DEF expected, Byte
  <2>2. b \in Bytes /\ Placed(b) /\ b.m \in 1 .. called
    BY <1>3, <1>4
  <2>3. QED BY <1>3, <2>1, <2>2, WireConstants
<1>6. room(b) = room(Byte(m, receiving, 1)) /\ room(b) \in Nat
  BY <1>5, RoomIsNumber DEF room, Byte
<1>7. PICK g \in Nat, l \in Nat : g = Len(got) /\ l = room(b) /\ want = l - g /\ b.k = g + 1
  BY <1>3, <1>5, <1>6
<1>8. n \in Nat /\ n >= 1 /\ n <= l - g /\ n \in 1 .. Len(stream)
  BY <1>2, <1>3, <1>7
<1>9. b.k + (n - 1) <= room(b)
  BY <1>7, <1>8
<1> HIDE DEF b
<1>10. /\ \A i \in 1 .. n : stream[i] = further(b, i - 1)
       /\ b.k + n <= room(b) => Append(stream, s)[n + 1] = further(b, n)
       /\ b.k + n > room(b) => Append(stream, s)[n + 1] = after(b)
  <2>1. stream \in Seq(Bytes)
    BY <1>3
  <2>2. Follows(Append(stream, s)) /\ Append(stream, s)[1] = b
    BY <1>4
  <2>3. b \in Bytes /\ room(b) \in Nat /\ n \in 1 .. Len(stream)
    BY <1>5, <1>6, <1>8
  <2>4. QED BY <1>9, <2>1, <2>2, <2>3, TakenBytes
<1>11. PICK bytes \in Seq(Bytes) : /\ bytes = got \o SubSeq(stream, 1, n)
                                   /\ Len(bytes) = g + n
                                   /\ \A i \in 1 .. g + n : bytes[i] = Byte(m, receiving, i)
  <2>1. PICK x \in Seq(Bytes) : /\ x = SubSeq(stream, 1, n) /\ Len(x) = n
                                /\ \A i \in 1 .. n : x[i] = stream[i]
    <3>1. SubSeq(stream, 1, n) \in Seq(Bytes) /\ Len(SubSeq(stream, 1, n)) = n
          /\ \A i \in 1 .. n : SubSeq(stream, 1, n)[i] = stream[i]
      BY <1>3, <1>8
    <3>2. QED BY <3>1
  <2>2. /\ got \o x \in Seq(Bytes) /\ Len(got \o x) = g + n
        /\ \A i \in 1 .. g + n : (got \o x)[i] = IF i <= g THEN got[i] ELSE x[i - g]
    <3>1. /\ got \o x \in Seq(Bytes) /\ Len(got \o x) = Len(got) + Len(x)
          /\ \A i \in 1 .. Len(got) + Len(x) :
               (got \o x)[i] = IF i <= Len(got) THEN got[i] ELSE x[i - Len(got)]
      BY <1>3, ConcatProperties
    <3>2. QED BY <1>7, <2>1, <3>1
  <2>3. ASSUME NEW i \in 1 .. g + n PROVE (got \o x)[i] = Byte(m, receiving, i)
    <3>1. CASE i <= g
      <4>1. i \in DOMAIN got
        BY <1>3, <1>7, <1>8, <3>1
      <4>2. QED BY <1>3, <2>2, <3>1, <4>1
    <3>2. CASE ~(i <= g)
      <4>1. i - g \in 1 .. n /\ (g + 1) + ((i - g) - 1) = i
        BY <1>7, <1>8, <3>2
      <4>2. x[i - g] = further(b, (i - g) - 1)
        BY <1>10, <2>1, <4>1
      <4>3. further(b, (i - g) - 1) = Byte(m, receiving, i)
        BY <1>5, <1>7, <4>1 DEF further
      <4>4. QED BY <2>2, <3>2, <4>2, <4>3
    <3>3. QED BY <3>1, <3>2
  <2>4. QED BY <2>1, <2>2, <2>3
<1>12. CASE n < want
  <2>1. got' = bytes /\ want' = want - n /\ UNCHANGED <<receiving, received>> /\ want' >= 1
    BY <1>2, <1>7, <1>8, <1>11, <1>12
  <2>2. Continues(n)
    <3>1. got' \in Seq(Bytes) /\ Len(got') = Len(got) + n
      BY <1>7, <1>11, <2>1
    <3>2. \A i \in DOMAIN got' : got'[i] = Byte(m, receiving, i)
      <4>1. DOMAIN got' = 1 .. g + n
        BY <1>11, <2>1
      <4>2. QED BY <1>11, <2>1, <4>1
    <3>3. QED BY <2>1, <3>1, <3>2 DEF Continues
  <2>3. expected' = further(b, n)
    <3>1. expected' = Byte(m, receiving, (g + n) + 1) /\ (g + 1) + n = (g + n) + 1
      BY <1>7, <1>8, <1>11, <2>1 DEF expected
    <3>2. QED BY <1>5, <1>7, <3>1 DEF further
  <2>4. b.k + n <= room(b)
    BY <1>7, <1>8, <1>12
  <2>5. Receives(n)
    BY <1>1, <1>2, <1>5, <1>8, <2>2 DEF Receives
  <2>6. QED BY <1>8, <1>10, <2>3, <2>4, <2>5
<1>13. CASE ~(n < want)
  <2>1. n = want /\ n >= want /\ g + n = l /\ b.k + n > room(b)
    BY <1>7, <1>8, <1>13
  <2>2. Wire!BufferFull(bytes)
    BY <1>2, <1>11, <2>1
  <2>3. /\ receiving = "size" => Wire!size_in(bytes) = room(Byte(m, "string", 1))
        /\ receiving = "string" => Wire!message_in(bytes) = m
    <3>1. Len(bytes) = room(Byte(m, receiving, 1))
      BY <1>6, <1>7, <1>11, <2>1
    <3>2. \A i \in 1 .. Len(bytes) : bytes[i] = Byte(m, receiving, i)
      BY <1>11
    <3>3. m \in Wire!Message /\ receiving \in {"size", "string"}
      BY <1>3, <1>5
    <3>4. QED BY <1>11, <3>1, <3>2, <3>3, BufferIsWhole
  <2>4. CASE receiving = "size"
    <3>1. SizeArrives
      BY <1>5, <2>2, <2>3, <2>4 DEF SizeArrives, Wire!BufferFull
    <3>2. expected' = Byte(m, "string", 1)
      BY <3>1 DEF SizeArrives, expected
    <3>3. expected' = after(b)
      BY <1>5, <2>4, <3>2 DEF after
    <3>4. Receives(n)
      BY <1>1, <1>2, <1>5, <1>8, <3>1 DEF Receives
    <3>5. QED BY <1>8, <1>10, <2>1, <3>3, <3>4
  <2>5. CASE receiving = "string"
    <3>1. MessageArrives
      BY <1>5, <2>2, <2>3, <2>5 DEF MessageArrives, Wire!BufferFull
    <3>2. expected' = Byte(m + 1, "size", 1)
      <4>1. Len(received') = m
        BY <1>3, <3>1 DEF MessageArrives
      <4>2. QED BY <3>1, <4>1 DEF MessageArrives, expected
    <3>3. expected' = after(b)
      BY <1>5, <2>5, <3>2 DEF after
    <3>4. Receives(n)
      BY <1>1, <1>2, <1>5, <1>8, <3>1 DEF Receives
    <3>5. QED BY <1>8, <1>10, <2>1, <3>3, <3>4
  <2>6. QED BY <1>3, <2>4, <2>5
<1>14. QED BY <1>12, <1>13

LEMMA ReceiveSomeKeepsWire ==
  ASSUME WireInv, Wire!ReceiveSome, UNCHANGED vars
  PROVE  WireInv'
<1>1. PICK s \in Bytes : Carries(s)
  BY DEF WireInv, StreamInv
<1>2. PICK n \in Nat : Receives(n) /\ Append(stream, s)[n + 1] = expected'
  BY <1>1, ReceiveSomeReceives
<1>3. /\ recv_res = "TRNS_SUCCEEDED" /\ n \in 1 .. Len(stream)
      /\ UNCHANGED <<called, to_send, conn, recv_res>>
      /\ stream' = SubSeq(stream, n + 1, Len(stream))
      /\ Len(received) + 1 \in 1 .. called
      /\ Continues(n) \/ SizeArrives \/ MessageArrives
  BY <1>2 DEF Receives
<1>4. UNCHANGED <<send_pc, sent, gp_massage_to_send_hade>>
  BY DEF vars
<1>5. stream \in Seq(Bytes) /\ Follows(Append(stream, s)) /\ received \in Seq(Nat)
  BY <1>1 DEF Carries, WireInv, WireTypeOK
<1>6. /\ stream' \in Seq(Bytes) /\ Len(stream') = Len(stream) - n
      /\ \A i \in 1 .. Len(stream) - n : stream'[i] = stream[i + n]
      /\ Append(stream', s)[1] = expected'
      /\ Follows(Append(stream', s))
  <2>1. n \in 0 .. Len(stream)
    BY <1>3
  <2>2. QED BY <1>2, <1>3, <1>5, <2>1, TakenFollows
<1>7. WireTypeOK'
  <2>1. \A i \in DOMAIN stream' : Placed(stream'[i]) /\ stream'[i].m \in 1 .. called
    <3>1. SUFFICES ASSUME NEW i \in DOMAIN stream'
                   PROVE  Placed(stream'[i]) /\ stream'[i].m \in 1 .. called
      OBVIOUS
    <3>2. i \in 1 .. Len(stream) - n /\ i + n \in DOMAIN stream
      BY <1>3, <1>5, <1>6
    <3>3. QED BY <1>6, <3>2 DEF WireInv, WireTypeOK
  <2>2. receiving' \in {"size", "string"}
    BY <1>3 DEF Continues, SizeArrives, MessageArrives, WireInv, WireTypeOK
  <2>3. received' \in Seq(Nat) /\ \A i \in DOMAIN received' : received'[i] = i
    <3>1. CASE UNCHANGED received
      BY <3>1 DEF WireInv, WireTypeOK
    <3>2. CASE received' = Append(received, Len(received) + 1)
      <4>1. Len(received) \in Nat
        BY <1>5
      <4>2. /\ received' \in Seq(Nat) /\ DOMAIN received' = 1 .. Len(received) + 1
            /\ \A i \in 1 .. Len(received) : received'[i] = received[i]
            /\ received'[Len(received) + 1] = Len(received) + 1
        BY <1>5, <3>2, <4>1
      <4>3. \A i \in 1 .. Len(received) : received[i] = i
        BY <1>5 DEF WireInv, WireTypeOK
      <4>4. \A i \in 1 .. Len(received) + 1 : i \in 1 .. Len(received) \/ i = Len(received) + 1
        BY <4>1
      <4>5. \A i \in 1 .. Len(received) + 1 : received'[i] = i
        <5>1. SUFFICES ASSUME NEW i \in 1 .. Len(received) + 1 PROVE received'[i] = i
          OBVIOUS
        <5>2. CASE i \in 1 .. Len(received)
          BY <4>2, <4>3, <5>2
        <5>3. CASE i = Len(received) + 1
          BY <4>2, <5>3
        <5>4. QED BY <4>4, <5>2, <5>3
      <4>6. QED BY <4>2, <4>5
    <3>3. QED BY <1>3, <3>1, <3>2 DEF Continues, SizeArrives, MessageArrives
  <2>4. QED BY <1>3, <1>6, <2>1, <2>2, <2>3 DEF WireInv, WireTypeOK
<1>8. SenderInv'
  BY <1>3, <1>4 DEF WireInv, SenderInv
<1>9. StreamInv'
  <2>1. Carries(s)'
    BY <1>1, <1>3, <1>4, <1>6 DEF Carries, Due, gave_up
  <2>2. QED BY <2>1 DEF StreamInv
<1>10. ReceiverInv'
  <2>1. CASE Continues(n)
    <3>1. /\ want = room(Byte(Len(received) + 1, receiving, 1)) - Len(got)
          /\ receiving = "string" => Len(received) + 1 \in Wire!Message
          /\ Len(got) \in Nat
      BY <1>3 DEF WireInv, ReceiverInv
    <3>2. room(Byte(Len(received) + 1, receiving, 1)) \in Nat
      BY <1>3, <3>1, WireConstants, SMTT(30) DEF room, Byte, WireInv, WireTypeOK
    <3>3. want' = room(Byte(Len(received) + 1, receiving, 1)) - Len(got')
      <4>1. PICK r \in Nat, g \in Nat :
              r = room(Byte(Len(received) + 1, receiving, 1)) /\ g = Len(got)
        BY <3>1, <3>2
      <4>2. want = r - g /\ want' = want - n /\ Len(got') = g + n
        BY <2>1, <3>1, <4>1 DEF Continues
      <4>3. want' = r - Len(got')
        BY <4>2
      <4>4. QED BY <4>1, <4>3
    <3>4. UNCHANGED <<receiving, received>>
      BY <2>1 DEF Continues
    <3>5. /\ want' >= 1 /\ got' \in Seq(Bytes)
          /\ \A i \in DOMAIN got' : got'[i] = Byte(Len(received) + 1, receiving, i)
      BY <2>1 DEF Continues
    <3>6. QED BY <3>1, <3>3, <3>4, <3>5 DEF ReceiverInv
  <2>2. CASE SizeArrives
    <3>1. room(Byte(Len(received) + 1, "string", 1)) = MessageLen[Len(received) + 1] + 1
      BY DEF room, Byte
    <3>2. want' = want' - 0 /\ want' >= 1
      BY <2>2, <3>1, WireConstants DEF SizeArrives
    <3>3. Len(<< >>) = 0 /\ << >> \in Seq(Bytes) /\ DOMAIN << >> = {}
      OBVIOUS
    <3>4. QED BY <2>2, <3>2, <3>3 DEF SizeArrives, ReceiverInv
  <2>3. CASE MessageArrives
    <3>1. room(Byte(Len(received') + 1, "size", 1)) = SIZE_BYTES
      BY DEF room, Byte
    <3>2. want' = want' - 0 /\ want' >= 1
      BY <2>3, <3>1, WireConstants DEF MessageArrives
    <3>3. Len(<< >>) = 0 /\ << >> \in Seq(Bytes) /\ DOMAIN << >> = {}
      OBVIOUS
    <3>4. QED BY <2>3, <3>1, <3>2, <3>3 DEF MessageArrives, ReceiverInv
  <2>4. QED BY <1>3, <2>1, <2>2, <2>3
<1>11. BehindInv'
  <2>1. CASE UNCHANGED received
    BY <1>3, <1>4, <1>5, <2>1 DEF WireInv, BehindInv, WireTypeOK
  <2>2. CASE MessageArrives
    <3>1. Len(received') = Len(received) + 1 /\ Len(received) \in Nat
      BY <1>5, <2>2 DEF MessageArrives
    <3>2. Len(received') <= called
      BY <1>3, <3>1
    <3>3. ASSUME Len(received') = called, to_send # << >> \/ gave_up
          PROVE  FALSE
      <4>1. expected'.m = Len(received') + 1
        BY DEF expected, Byte
      <4>2. s.m = called
        <5>1. Byte(called + 1, "size", 1) # s \/ s.m = called + 1
          BY DEF Byte
        <5>2. QED BY <1>1, <3>3, <5>1 DEF Carries, Due
      <4>3. called \in Nat
        BY DEF WireInv, WireTypeOK
      <4>4. Append(stream', s)[1].m <= called
        <5>1. CASE Len(stream') = 0
          BY <1>5, <1>6, <4>2, <5>1, AppendPlaces DEF WireInv, WireTypeOK
        <5>2. CASE Len(stream') # 0
          <6>1. Len(stream') \in Nat /\ 1 \in 1 .. Len(stream')
            BY <1>6, <5>2
          <6>2. Append(stream', s)[1] = stream'[1] /\ stream'[1].m \in 1 .. called'
            <7>1. 1 \in DOMAIN stream' /\ Append(stream', s)[1] = stream'[1]
              BY <1>6, <6>1, AppendPlaces
            <7>2. \A i \in DOMAIN stream' : stream'[i].m \in 1 .. called'
              BY <1>7 DEF WireTypeOK
            <7>3. QED BY <7>1, <7>2
          <6>3. PICK k \in 1 .. called : k = stream'[1].m
            BY <1>3, <6>2
          <6>4. k <= called
            BY <4>3
          <6>5. QED BY <6>2, <6>3, <6>4
        <5>3. QED BY <5>1, <5>2
      <4>5. QED BY <1>6, <3>3, <4>1, <4>3, <4>4
    <3>4. QED BY <1>3, <1>4, <3>2, <3>3 DEF BehindInv, gave_up, WireInv, SenderInv
  <2>3. QED BY <1>3, <2>1, <2>2 DEF Continues, SizeArrives
<1>12. EndInv'
  BY <1>3 DEF EndInv
<1>13. QED BY <1>7, <1>8, <1>9, <1>10, <1>11, <1>12 DEF WireInv

-----------------------------------------------------------------------------
(* The queue of Delivery is SendQueue: what is proved of its steps above   *)
(* holds while its sender puts bytes on a stream.                          *)
THEOREM DeliveryRunsQueue == DeliverySpec => Spec
<1>1. DeliveryInit => Init
  BY DEF DeliveryInit
<1>2. QED BY <1>1, DeliveryStepsOfQueue, PTL DEF DeliverySpec, Spec

-----------------------------------------------------------------------------
(* The invariant of the stream and its ends.                               *)

LEMMA InitWire == DeliveryInit => WireInv
<1> SUFFICES ASSUME DeliveryInit PROVE WireInv
  OBVIOUS
<1>1. /\ called = 0 /\ to_send = << >> /\ stream = << >> /\ conn = "open"
      /\ receiving = "size" /\ got = << >> /\ want = SIZE_BYTES
      /\ received = << >> /\ recv_res = "TRNS_SUCCEEDED"
      /\ sent = << >> /\ send_pc = "check"
  BY DEF DeliveryInit, Wire!Init, Init
<1>2. Len(sent) = 0 /\ Len(received) = 0 /\ Len(got) = 0 /\ << >> \in Seq(Bytes) /\ << >> \in Seq(Nat)
      /\ DOMAIN << >> = {}
  BY <1>1
<1>3. WireTypeOK
  BY <1>1, <1>2, WireConstants DEF WireTypeOK
<1>4. SenderInv
  BY <1>1, <1>2 DEF SenderInv
<1>5. StreamInv
  <2> DEFINE s == Byte(1, "size", 1)
  <2>1. s \in Bytes /\ Placed(s)
    BY WireConstants DEF Byte, Bytes, Placed, room
  <2>2. ~gave_up
    BY <1>1 DEF gave_up
  <2>3. Due(s)
    BY <1>1, <2>2 DEF Due
  <2>4. DOMAIN Append(stream, s) = {1} /\ Append(stream, s)[1] = s
    <3>1. DOMAIN Append(stream, s) = 1 .. Len(stream) + 1 /\ Append(stream, s)[Len(stream) + 1] = s
      BY <1>1, <1>2, AppendPlaces
    <3>2. Len(stream) = 0
      BY <1>1
    <3>3. QED BY <3>1, <3>2
  <2>5. Follows(Append(stream, s))
    <3>1. further(s, 0) = s
      BY <2>1, FurtherZero
    <3>2. 1 - 1 = 0 /\ 1 + 1 \notin {1}
      OBVIOUS
    <3> HIDE DEF s
    <3>3. QED BY <2>4, <3>1, <3>2 DEF Follows
  <2>6. expected = s
    BY <1>1, <1>2 DEF expected
  <2>7. Carries(s)
    BY <2>1, <2>3, <2>4, <2>5, <2>6 DEF Carries
  <2>8. QED BY <2>1, <2>7 DEF StreamInv
<1>6. ReceiverInv
  <2>1. room(Byte(Len(received) + 1, receiving, 1)) = SIZE_BYTES
    BY <1>1 DEF room, Byte
  <2>2. QED BY <1>1, <1>2, <2>1, WireConstants DEF ReceiverInv
<1>7. BehindInv /\ EndInv
  BY <1>1, <1>2 DEF BehindInv, EndInv
<1>8. QED BY <1>3, <1>4, <1>5, <1>6, <1>7 DEF WireInv

LEMMA NextWire == ListInv /\ WireInv /\ [DeliveryNext]_all => WireInv'
<1> SUFFICES ASSUME ListInv, WireInv, [DeliveryNext]_all PROVE WireInv'
  OBVIOUS
<1>1. CASE \E w \in Writer : CallSendD(w) \/ WriterStepD(w)
  BY <1>1, WriterKeepsWire
<1>2. CASE SenderStepD
  BY <1>2, BeginsMessageKeepsWire, SendsBytesKeepsWire, SendReturnsKeepsWire,
     SendReturnsErrorKeepsWire, SenderKeepsWire
     DEF SenderStepD, SendString
<1>3. CASE ClientReceives
  BY <1>3, ReceiveSomeKeepsWire, ReceiveEndKeepsWire DEF ClientReceives
<1>4. CASE OwnShuts
  BY <1>4, OwnShutsKeepsWire
<1>5. CASE ClientLeaves
  <2>1. UNCHANGED <<wire, sent, send_pc, gp_massage_to_send_hade>>
    BY <1>5 DEF ClientLeaves, Cut, writers
  <2>2. QED BY <2>1, QueueKeepsWire DEF WireInv, SenderInv
<1>6. CASE ConnectionBreaks
  BY <1>6, ConnectionBreaksKeepsWire
<1>7. CASE UNCHANGED all
  <2>1. UNCHANGED <<wire, sent, send_pc, gp_massage_to_send_hade>>
    BY <1>7 DEF all, vars
  <2>2. QED BY <2>1, QueueKeepsWire DEF WireInv, SenderInv
<1>8. QED BY <1>1, <1>2, <1>3, <1>4, <1>5, <1>6, <1>7 DEF DeliveryNext

(* The bytes on the stream continue what the receiver has taken and go on  *)
(* with what the sender owes, wherever calls of send and recv cut them.    *)
THEOREM WireInvariant == DeliverySpec => [](ListInv /\ WireInv)
<1>1. DeliveryInit => ListInv /\ WireInv
  BY InitList, InitWire DEF DeliveryInit
<1>2. ListInv /\ WireInv /\ [DeliveryNext]_all => (ListInv /\ WireInv)'
  BY NextKeepsList, NextWire, DeliveryStepsOfQueue
<1>3. QED BY <1>1, <1>2, PTL DEF DeliverySpec

(* When the client sees an orderly end, all that the sender has sent has   *)
(* arrived, and only a message that the shut-down cut short is missing.    *)
THEOREM OrderlyEndLosesNothingHolds == DeliverySpec => []OrderlyEndLosesNothing
<1>1. ListInv /\ WireInv => OrderlyEndLosesNothing
  <2> SUFFICES ASSUME ListInv, WireInv, recv_res = "TRNS_DISCONNECTED"
               PROVE  /\ Len(received) >= Len(sent)
                      /\ (receiving = "size" /\ want = SIZE_BYTES) \/ called > Len(received)
    BY DEF OrderlyEndLosesNothing
  <2>1. Len(received) \in Nat /\ Len(sent) \in Nat
    BY DEF ListInv, TypeOK, WireInv, WireTypeOK
  <2>2. called = Len(sent) \/ called = Len(sent) + 1
    BY DEF WireInv, SenderInv
  <2>3. \/ Len(received) = called /\ receiving = "size" /\ want = SIZE_BYTES
        \/ Len(received) + 1 = called /\ called # Len(sent)
    BY DEF WireInv, EndInv
  <2>4. QED BY <2>1, <2>2, <2>3
<1>2. QED BY <1>1, WireInvariant, PTL

-----------------------------------------------------------------------------
(* From end to end, the way to a client is a Mailbox.                      *)

(* The messages that were appended and not lost; the client has received   *)
(* the first of them.                                                      *)
accepted == sent \o box
begun_at(s, l, k) ==
  IF k \in DOMAIN s THEN s[k] ELSE IF k = Len(s) + 1 /\ l # << >> THEN Head(l) ELSE 0

LEMMA ArrivedIs ==
  ASSUME WireTypeOK
  PROVE  arrived = [k \in 1 .. Len(received) |-> begun_at(sent, gp_massage_to_send_hade, k)]
<1>1. DOMAIN received = 1 .. Len(received) /\ \A k \in DOMAIN received : received[k] = k
  BY DEF WireTypeOK
<1>2. QED BY <1>1 DEF arrived, begun, begun_at

LEMMA ArrivedWillBe ==
  ASSUME WireTypeOK'
  PROVE  arrived' = [k \in 1 .. Len(received') |-> begun_at(sent', gp_massage_to_send_hade', k)]
<1>1. DOMAIN received' = 1 .. Len(received') /\ \A k \in DOMAIN received' : received'[k] = k
  BY DEF WireTypeOK
<1>2. QED BY <1>1 DEF arrived, begun, begun_at

LEMMA ToComeIs ==
  /\ to_come = SubSeq(accepted, Len(received) + 1, Len(accepted))
  /\ to_come' = SubSeq(accepted', Len(received') + 1, Len(accepted'))
  BY DEF to_come, accepted, box

(* What the client has received was accepted.                              *)
LEMMA AcceptedIsSeq ==
  ASSUME ListInv, WireInv
  PROVE  /\ accepted \in Seq(Message) /\ Len(accepted) \in Nat
         /\ sent \in Seq(Message) /\ box \in Seq(Message) /\ Len(accepted) = Len(sent) + Len(box)
         /\ gp_massage_to_send_hade \in Seq(Message)
         /\ Len(sent) \in Nat /\ Len(received) \in Nat
         /\ Len(received) <= Len(accepted) /\ Len(received) <= Len(sent) + 1
         /\ send_pc # "send" => Len(received) <= Len(sent)
<1>1. /\ sent \in Seq(Message) /\ gp_massage_to_send_hade \in Seq(Message)
      /\ send_pc = "remove" => gp_massage_to_send_hade # << >>
  BY DEF ListInv, TypeOK, InHand
<1>2. box \in Seq(Message)
  <2>1. CASE send_pc = "remove"
    <3>1. Tail(gp_massage_to_send_hade) \in Seq(Message)
      BY <1>1, <2>1
    <3>2. QED BY <2>1, <3>1 DEF box
  <2>2. CASE send_pc # "remove"
    BY <1>1, <2>2 DEF box
  <2>3. QED BY <2>1, <2>2
<1>3. accepted \in Seq(Message) /\ Len(accepted) = Len(sent) + Len(box)
      /\ Len(sent) \in Nat /\ Len(box) \in Nat
  BY <1>1, <1>2, ConcatProperties DEF accepted
<1>4. Len(received) \in Nat /\ Len(received) <= called
  BY DEF WireInv, WireTypeOK, BehindInv
<1>5. CASE called = Len(sent)
  BY <1>1, <1>2, <1>3, <1>4, <1>5
<1>6. CASE called # Len(sent)
  <2>1. called = Len(sent) + 1
    BY <1>6 DEF WireInv, SenderInv
  <2>2. CASE Len(received) = called
    <3>1. send_pc = "send" /\ gp_massage_to_send_hade # << >>
      BY <1>6, <2>2 DEF WireInv, SenderInv, BehindInv
    <3>2. box = gp_massage_to_send_hade /\ Len(box) >= 1
      BY <1>1, <3>1 DEF box
    <3>3. QED BY <1>1, <1>2, <1>3, <1>4, <2>1, <2>2, <3>1, <3>2
  <2>3. CASE Len(received) # called
    <3>1. Len(received) <= Len(sent)
      BY <1>3, <1>4, <2>1, <2>3
    <3>2. QED BY <1>1, <1>2, <1>3, <1>4, <3>1
  <2>4. QED BY <2>2, <2>3
<1>7. QED BY <1>5, <1>6

(* A step that neither adds to what was accepted nor takes from it, and    *)
(* after which the client has what it had before.                          *)
LEMMA ArrivalStutters ==
  ASSUME WireInv, WireInv', accepted' = accepted, UNCHANGED <<received, failures>>,
         \A k \in 1 .. Len(received) :
           begun_at(sent', gp_massage_to_send_hade', k) = begun_at(sent, gp_massage_to_send_hade, k)
  PROVE  UNCHANGED <<to_come, arrived, failures>>
<1>1. arrived' = arrived
  BY ArrivedIs, ArrivedWillBe DEF WireInv
<1>2. to_come' = to_come
  BY ToComeIs
<1>3. QED BY <1>1, <1>2

(* The client has a message less to come.                                  *)
LEMMA OneLessToCome ==
  ASSUME NEW S, NEW acc \in Seq(S), NEW r \in Nat, r + 1 <= Len(acc)
  PROVE  /\ SubSeq(acc, r + 1, Len(acc)) # << >>
         /\ Head(SubSeq(acc, r + 1, Len(acc))) = acc[r + 1]
         /\ Tail(SubSeq(acc, r + 1, Len(acc))) = SubSeq(acc, r + 2, Len(acc))
<1>1. PICK n \in Nat : n = Len(acc) /\ r + 1 <= n
  OBVIOUS
<1>2. SubSeq(acc, r + 1, n) \in Seq(S) /\ Len(SubSeq(acc, r + 1, n)) = n - r
  BY <1>1
<1>3. SubSeq(acc, r + 1, n) # << >>
  BY <1>1, <1>2
<1>4. r + 1 \in 1 .. n /\ n \in r + 1 .. n /\ (r + 1) + 1 = r + 2
  BY <1>1
<1>5. /\ Head(SubSeq(acc, r + 1, n)) = acc[r + 1]
      /\ Tail(SubSeq(acc, r + 1, n)) = SubSeq(acc, (r + 1) + 1, n)
  BY <1>1, <1>4, HeadTailOfSubSeq
<1>6. QED BY <1>1, <1>3, <1>4, <1>5

(* A message more is to come.                                              *)
LEMMA OneMoreToCome ==
  ASSUME NEW S, NEW acc \in Seq(S), NEW m \in S, NEW r \in 0 .. Len(acc)
  PROVE  SubSeq(Append(acc, m), r + 1, Len(Append(acc, m)))
           = Append(SubSeq(acc, r + 1, Len(acc)), m)
<1>1. PICK n \in Nat : n = Len(acc) /\ r \in Nat /\ r <= n
  OBVIOUS
<1>2. PICK a \in Seq(S) : a = Append(acc, m) /\ Len(a) = n + 1
                          /\ (\A i \in 1 .. n : a[i] = acc[i]) /\ a[n + 1] = m
  BY <1>1, AppendProperties
<1>3. PICK p \in Seq(S) : p = SubSeq(acc, r + 1, n) /\ Len(p) = n - r
                          /\ \A i \in 1 .. n - r : p[i] = acc[r + i]
  <2>1. SubSeq(acc, r + 1, n) \in Seq(S) /\ Len(SubSeq(acc, r + 1, n)) = n - r
    BY <1>1
  <2>2. \A i \in 1 .. n - r : SubSeq(acc, r + 1, n)[i] = acc[r + i]
    BY <1>1
  <2>3. QED BY <2>1, <2>2
<1>4. PICK u \in Seq(S) : u = SubSeq(a, r + 1, n + 1) /\ Len(u) = (n + 1) - r
                          /\ \A i \in 1 .. (n + 1) - r : u[i] = a[r + i]
  <2>1. SubSeq(a, r + 1, n + 1) \in Seq(S) /\ Len(SubSeq(a, r + 1, n + 1)) = (n + 1) - r
    BY <1>1, <1>2
  <2>2. \A i \in 1 .. (n + 1) - r : SubSeq(a, r + 1, n + 1)[i] = a[r + i]
    BY <1>1, <1>2, SMTT(30)
  <2>3. QED BY <2>1, <2>2
<1>5. PICK v \in Seq(S) : v = Append(p, m) /\ Len(v) = (n - r) + 1
                          /\ (\A i \in 1 .. n - r : v[i] = p[i]) /\ v[(n - r) + 1] = m
  <2>1. /\ Append(p, m) \in Seq(S) /\ Len(Append(p, m)) = Len(p) + 1
        /\ \A i \in 1 .. Len(p) : Append(p, m)[i] = p[i]
        /\ Append(p, m)[Len(p) + 1] = m
    BY AppendProperties
  <2>2. QED BY <1>3, <2>1
<1>6. (n - r) + 1 = (n + 1) - r
  BY <1>1
<1>7. ASSUME NEW i \in 1 .. (n + 1) - r PROVE u[i] = v[i]
  <2>1. CASE i \in 1 .. n - r
    <3>1. r + i \in 1 .. n
      BY <1>1, <2>1
    <3>2. QED BY <1>2, <1>3, <1>4, <1>5, <1>7, <2>1, <3>1
  <2>2. CASE i = (n + 1) - r
    <3>1. r + i = n + 1
      BY <1>1, <2>2
    <3>2. QED BY <1>2, <1>4, <1>5, <1>6, <1>7, <2>2, <3>1
  <2>3. PICK d \in Nat : d = n - r /\ (n + 1) - r = d + 1
    <3>1. n - r \in Nat /\ (n + 1) - r = (n - r) + 1
      BY <1>1
    <3>2. QED BY <3>1
  <2>4. i \in 1 .. d \/ i = d + 1
    BY <1>7, <2>3
  <2>5. QED BY <2>1, <2>2, <2>3, <2>4
<1>8. u = v
  BY <1>4, <1>5, <1>6, <1>7, SeqEqual
<1>9. QED BY <1>1, <1>2, <1>3, <1>4, <1>5, <1>8

(* What was accepted and not sent is lost.                                 *)
LEMMA LessToCome ==
  ASSUME NEW S, NEW s \in Seq(S), NEW l \in Seq(S), NEW r \in 0 .. Len(s)
  PROVE  /\ SubSeq(s, r + 1, Len(s)) = SubSeq(SubSeq(s \o l, r + 1, Len(s \o l)), 1, Len(s) - r)
         /\ Len(s) - r \in 0 .. Len(SubSeq(s \o l, r + 1, Len(s \o l)))
<1>1. PICK n \in Nat, e \in Nat : n = Len(s) /\ e = Len(l) /\ r \in Nat /\ r <= n
  OBVIOUS
<1>2. PICK a \in Seq(S) : a = s \o l /\ Len(a) = n + e /\ \A i \in 1 .. n : a[i] = s[i]
  <2>1. s \o l \in Seq(S) /\ Len(s \o l) = n + e
    BY <1>1
  <2>2. \A i \in 1 .. n : (s \o l)[i] = s[i]
    BY <1>1
  <2>3. QED BY <2>1, <2>2
<1>3. PICK p \in Seq(S) : p = SubSeq(a, r + 1, n + e) /\ Len(p) = (n + e) - r
                          /\ \A i \in 1 .. (n + e) - r : p[i] = a[r + i]
  <2>1. SubSeq(a, r + 1, n + e) \in Seq(S) /\ Len(SubSeq(a, r + 1, n + e)) = (n + e) - r
    BY <1>1, <1>2
  <2>2. \A i \in 1 .. (n + e) - r : SubSeq(a, r + 1, n + e)[i] = a[r + i]
    BY <1>1, <1>2
  <2>3. QED BY <2>1, <2>2
<1>4. n - r \in 0 .. Len(p) /\ n - r <= (n + e) - r
  BY <1>1, <1>3
<1>5. PICK u \in Seq(S) : u = SubSeq(p, 1, n - r) /\ Len(u) = n - r
                          /\ \A i \in 1 .. n - r : u[i] = p[i]
  <2>1. SubSeq(p, 1, n - r) \in Seq(S) /\ Len(SubSeq(p, 1, n - r)) = n - r
    BY <1>1, <1>3, <1>4
  <2>2. \A i \in 1 .. n - r : SubSeq(p, 1, n - r)[i] = p[i]
    BY <1>1, <1>3, <1>4
  <2>3. QED BY <2>1, <2>2
<1>6. PICK v \in Seq(S) : v = SubSeq(s, r + 1, n) /\ Len(v) = n - r
                          /\ \A i \in 1 .. n - r : v[i] = s[r + i]
  <2>1. SubSeq(s, r + 1, n) \in Seq(S) /\ Len(SubSeq(s, r + 1, n)) = n - r
    BY <1>1
  <2>2. \A i \in 1 .. n - r : SubSeq(s, r + 1, n)[i] = s[r + i]
    BY <1>1
  <2>3. QED BY <2>1, <2>2
<1>7. ASSUME NEW i \in 1 .. n - r PROVE v[i] = u[i]
  <2>1. r + i \in 1 .. n /\ i \in 1 .. (n + e) - r
    BY <1>1
  <2>2. QED BY <1>2, <1>3, <1>5, <1>6, <2>1
<1>8. v = u
  BY <1>5, <1>6, <1>7, SeqEqual
<1>9. QED BY <1>1, <1>2, <1>3, <1>4, <1>5, <1>6, <1>8

(* The first message is moved behind the last one that was sent.           *)
LEMMA MovedHead ==
  ASSUME NEW S, NEW s \in Seq(S), NEW l \in Seq(S), l # << >>
  PROVE  Append(s, Head(l)) \o Tail(l) = s \o l
<1>1. PICK h \in S, t \in Seq(S) : h = Head(l) /\ t = Tail(l)
  BY HeadTailProperties
<1>2. Append(s, h) = s \o <<h>> /\ <<h>> \in Seq(S)
  BY AppendIsConcat
<1>3. (s \o <<h>>) \o t = s \o (<<h>> \o t)
  BY <1>2, ConcatAssociative
<1>4. <<h>> \o t = l
  BY <1>1
<1>5. QED BY <1>1, <1>2, <1>3, <1>4

LEMMA AppendedValue ==
  ASSUME NEW f, NEW r \in Nat
  PROVE  [k \in 1 .. r + 1 |-> f[k]] = Append([k \in 1 .. r |-> f[k]], f[r + 1])
<1> DEFINE S == {f[k] : k \in 1 .. r + 1}
<1>1. \A k \in 1 .. r + 1 : f[k] \in S
  OBVIOUS
<1>2. \A k \in 1 .. r : k \in 1 .. r + 1
  OBVIOUS
<1>3. r + 1 \in 1 .. r + 1
  OBVIOUS
<1> HIDE DEF S
<1>4. PICK p \in Seq(S) : p = [k \in 1 .. r |-> f[k]] /\ Len(p) = r /\ \A k \in 1 .. r : p[k] = f[k]
  <2>1. [k \in 1 .. r |-> f[k]] \in Seq(S)
    BY <1>1, <1>2, IsASeq
  <2>2. Len([k \in 1 .. r |-> f[k]]) = r
    OBVIOUS
  <2>3. QED BY <2>1, <2>2
<1>5. PICK u \in Seq(S) : u = [k \in 1 .. r + 1 |-> f[k]] /\ Len(u) = r + 1
                          /\ \A k \in 1 .. r + 1 : u[k] = f[k]
  <2>1. [k \in 1 .. r + 1 |-> f[k]] \in Seq(S)
    BY <1>1, <1>3, IsASeq
  <2>2. Len([k \in 1 .. r + 1 |-> f[k]]) = r + 1
    OBVIOUS
  <2>3. QED BY <2>1, <2>2
<1>6. PICK v \in Seq(S) : v = Append(p, f[r + 1]) /\ Len(v) = r + 1
                          /\ (\A k \in 1 .. r : v[k] = p[k]) /\ v[r + 1] = f[r + 1]
  <2>1. f[r + 1] \in S
    BY <1>1, <1>3
  <2>2. /\ Append(p, f[r + 1]) \in Seq(S) /\ Len(Append(p, f[r + 1])) = Len(p) + 1
        /\ \A i \in 1 .. Len(p) : Append(p, f[r + 1])[i] = p[i]
        /\ Append(p, f[r + 1])[Len(p) + 1] = f[r + 1]
    BY <2>1, AppendProperties
  <2>3. QED BY <1>4, <2>2
<1>7. ASSUME NEW k \in 1 .. r + 1 PROVE u[k] = v[k]
  <2>1. k \in 1 .. r \/ k = r + 1
    OBVIOUS
  <2>2. QED BY <1>4, <1>5, <1>6, <1>3, <2>1
<1>8. u = v
  BY <1>5, <1>6, <1>7, SeqEqual
<1>9. QED BY <1>4, <1>5, <1>6, <1>8

(* What arrives is the first of the messages to come.                      *)
LEMMA ArrivalDelivers ==
  ASSUME ListInv, WireInv, WireInv', accepted' = accepted, UNCHANGED failures,
         UNCHANGED <<sent, gp_massage_to_send_hade>>,
         received' = Append(received, Len(received) + 1), Len(received') = Len(received) + 1,
         begun_at(sent, gp_massage_to_send_hade, Len(received) + 1) = accepted[Len(received) + 1],
         Len(received) + 1 <= Len(accepted)
  PROVE  Arrival!Next
<1> DEFINE r == Len(received)
           list == gp_massage_to_send_hade
<1>1. accepted \in Seq(Message) /\ r \in Nat
  BY AcceptedIsSeq
<1>2. /\ to_come # << >> /\ Head(to_come) = accepted[r + 1]
      /\ Tail(to_come) = SubSeq(accepted, r + 2, Len(accepted))
  BY <1>1, ToComeIs, OneLessToCome
<1>3. to_come' = Tail(to_come)
  <2>1. (r + 1) + 1 = r + 2
    BY <1>1
  <2>2. QED BY <1>2, <2>1, ToComeIs
<1>4. arrived' = Append(arrived, Head(to_come))
  <2>1. arrived = [k \in 1 .. r |-> begun_at(sent, list, k)]
    BY ArrivedIs DEF WireInv
  <2>2. arrived' = [k \in 1 .. r + 1 |-> begun_at(sent, list, k)]
    BY ArrivedWillBe DEF WireInv
  <2>3. PICK f : f = [k \in 1 .. r + 1 |-> begun_at(sent, list, k)]
    OBVIOUS
  <2>4. arrived = [k \in 1 .. r |-> f[k]] /\ arrived' = [k \in 1 .. r + 1 |-> f[k]]
    BY <1>1, <2>1, <2>2, <2>3
  <2>5. f[r + 1] = Head(to_come)
    BY <1>1, <1>2, <2>3
  <2>6. QED BY <1>1, <2>4, <2>5, AppendedValue
<1>5. Arrival!Deliver
  BY <1>2, <1>3, <1>4 DEF Arrival!Deliver
<1>6. QED BY <1>5 DEF Arrival!Next

LEMMA WriterImplementsArrival ==
  ASSUME ListInv, WireInv, WireInv', NEW w \in Writer, CallSendD(w) \/ WriterStepD(w)
  PROVE  Arrival!Next \/ UNCHANGED <<to_come, arrived, failures>>
<1> DEFINE list == gp_massage_to_send_hade
           r == Len(received)
<1>1. UNCHANGED <<sent, received, send_pc>>
  BY DEF CallSendD, WriterStepD, CallSend, WriterStep, WriterLocks, WriterFindsAbandoned,
         WriterAppends, WriterSignals, wire
<1>2. CASE ~WriterAppends(w)
  <2>1. UNCHANGED <<gp_massage_to_send_hade, failures>>
    BY <1>2 DEF CallSendD, WriterStepD, CallSend, WriterStep, WriterLocks, WriterFindsAbandoned,
                WriterSignals
  <2>2. accepted' = accepted
    BY <1>1, <2>1 DEF accepted, box
  <2>3. QED BY <1>1, <2>1, <2>2, ArrivalStutters
<1>3. CASE WriterAppends(w)
  <2>1. send_pc \notin {"send", "remove"} /\ message[w] \in Message
    BY <1>3, WriterAlone DEF ListInv, InHand, WriterAppends
  <2>2. box = list /\ box' = list'
    BY <1>1, <2>1 DEF box
  <2>3. /\ accepted \in Seq(Message) /\ sent \in Seq(Message) /\ list \in Seq(Message)
        /\ r \in Nat /\ Len(sent) \in Nat /\ r <= Len(sent) /\ r <= Len(accepted)
        /\ Len(accepted) \in Nat
    BY <2>1, AcceptedIsSeq
  <2>4. arrived' = arrived
    <3>1. \A k \in 1 .. r : k \in DOMAIN sent
      BY <2>3
    <3>2. \A k \in 1 .. r : begun_at(sent', list', k) = begun_at(sent, list, k)
      BY <1>1, <3>1 DEF begun_at
    <3>3. QED BY <1>1, <3>2, ArrivedIs, ArrivedWillBe DEF WireInv
  <2>5. CASE list' = Append(list, message[w]) /\ UNCHANGED failures
    <3>1. accepted' = Append(accepted, message[w])
      <4>1. <<message[w]>> \in Seq(Message) /\ Append(list, message[w]) = list \o <<message[w]>>
        BY <2>1, <2>3, AppendIsConcat
      <4>2. sent \o (list \o <<message[w]>>) = (sent \o list) \o <<message[w]>>
        BY <2>3, <4>1, ConcatAssociative
      <4>3. Append(accepted, message[w]) = accepted \o <<message[w]>>
        BY <2>1, <2>3, AppendIsConcat
      <4>4. QED BY <1>1, <2>2, <2>5, <4>1, <4>2, <4>3 DEF accepted
    <3>2. to_come' = Append(to_come, message[w])
      <4>1. r \in 0 .. Len(accepted)
        BY <2>3
      <4>2. QED BY <1>1, <2>1, <2>3, <3>1, <4>1, ToComeIs, OneMoreToCome
    <3>3. Arrival!Post(message[w])
      BY <2>4, <2>5, <3>2 DEF Arrival!Post
    <3>4. QED BY <2>1, <3>3 DEF Arrival!Next
  <2>6. CASE list' = << >> /\ failures' = failures + 1
    <3>1. accepted' = sent
      <4>1. sent \o << >> = sent
        BY <2>3, ConcatEmptySeq
      <4>2. QED BY <1>1, <2>2, <2>6, <4>1 DEF accepted
    <3>2. accepted = sent \o list /\ r \in 0 .. Len(sent)
      BY <2>2, <2>3 DEF accepted
    <3>3. /\ to_come' = SubSeq(to_come, 1, Len(sent) - r)
          /\ Len(sent) - r \in 0 .. Len(to_come)
      BY <1>1, <2>3, <3>1, <3>2, ToComeIs, LessToCome
    <3>4. Arrival!Lose
      BY <2>4, <2>6, <3>3 DEF Arrival!Lose
    <3>5. QED BY <3>4 DEF Arrival!Next
  <2>7. QED BY <1>3, <2>5, <2>6 DEF WriterAppends, add_message_to_cell_arr
<1>4. QED BY <1>2, <1>3

LEMMA SenderImplementsArrival ==
  ASSUME ListInv, WireInv, WireInv', SenderStepD
  PROVE  UNCHANGED <<to_come, arrived, failures>>
<1> DEFINE list == gp_massage_to_send_hade
           r == Len(received)
<1>1. UNCHANGED <<received, failures>>
  BY DEF SenderStepD, SendString, BeginsMessage, SendsBytes, SendReturns, SendReturnsError,
         Wire!CallSendString, Wire!SendSome, Wire!SendFails, Wire!receiver, SenderFails, SenderSends,
         SenderLoops, SenderTakesPermit, SenderLocks, SenderRemoves, SenderGoesOn, vars, wire, writers
<1>2. /\ sent \in Seq(Message) /\ list \in Seq(Message) /\ r \in Nat /\ Len(sent) \in Nat
      /\ r <= Len(sent) + 1 /\ (send_pc # "send" => r <= Len(sent))
  BY AcceptedIsSeq
<1>3. CASE SendReturns
  <2>1. /\ send_pc = "send" /\ send_pc' = "remove" /\ list # << >> /\ list' = list
        /\ sent' = Append(sent, Head(list))
    BY <1>3 DEF SendReturns, SenderSends
  <2>2. accepted' = accepted
    <3>1. accepted = sent \o list /\ accepted' = Append(sent, Head(list)) \o Tail(list)
      BY <2>1 DEF accepted, box
    <3>2. QED BY <1>2, <2>1, <3>1, MovedHead
  <2>3. ASSUME NEW k \in 1 .. r
        PROVE  begun_at(sent', list', k) = begun_at(sent, list, k)
    <3>1. /\ DOMAIN sent = 1 .. Len(sent) /\ DOMAIN sent' = 1 .. Len(sent) + 1
          /\ \A i \in 1 .. Len(sent) : sent'[i] = sent[i]
          /\ sent'[Len(sent) + 1] = Head(list)
      BY <1>2, <2>1, AppendPlaces
    <3>2. k \in 1 .. Len(sent) \/ k = Len(sent) + 1
      BY <1>2
    <3>3. CASE k \in 1 .. Len(sent)
      <4>1. k \in DOMAIN sent /\ k \in DOMAIN sent'
        BY <1>2, <3>1, <3>3
      <4>2. QED BY <3>1, <3>3, <4>1 DEF begun_at
    <3>4. CASE k = Len(sent) + 1
      <4>1. k \notin DOMAIN sent /\ k \in DOMAIN sent'
        BY <1>2, <3>1, <3>4
      <4>2. QED BY <2>1, <3>1, <3>4, <4>1 DEF begun_at
    <3>5. QED BY <3>2, <3>3, <3>4
  <2>4. QED BY <1>1, <2>2, <2>3, ArrivalStutters
<1>4. CASE SenderRemoves
  <2>1. /\ send_pc = "remove" /\ send_pc' # "remove" /\ list' = Tail(list) /\ UNCHANGED sent
    BY <1>4 DEF SenderRemoves
  <2>2. accepted' = accepted
    BY <2>1 DEF accepted, box
  <2>3. \A k \in 1 .. r : k \in DOMAIN sent
    BY <1>2, <2>1
  <2>4. \A k \in 1 .. r : begun_at(sent', list', k) = begun_at(sent, list, k)
    BY <2>1, <2>3 DEF begun_at
  <2>5. QED BY <1>1, <2>2, <2>4, ArrivalStutters
<1>5. CASE \/ BeginsMessage \/ SendsBytes \/ SendReturnsError
           \/ SenderLoops \/ SenderTakesPermit \/ SenderLocks \/ SenderGoesOn
  <2>1. UNCHANGED <<sent, gp_massage_to_send_hade>> /\ (send_pc' = "remove" <=> send_pc = "remove")
    BY <1>5 DEF BeginsMessage, SendsBytes, SendReturnsError, SenderFails, SenderLoops,
                SenderTakesPermit, SenderLocks, SenderGoesOn, vars
  <2>2. accepted' = accepted
    BY <2>1 DEF accepted, box
  <2>3. QED BY <1>1, <2>1, <2>2, ArrivalStutters
<1>6. QED BY <1>3, <1>4, <1>5 DEF SenderStepD, SendString

LEMMA ClientImplementsArrival ==
  ASSUME ListInv, ListInv', WireInv, WireInv', ClientReceives
  PROVE  Arrival!Next \/ UNCHANGED <<to_come, arrived, failures>>
<1> DEFINE list == gp_massage_to_send_hade
           r == Len(received)
<1>1. UNCHANGED <<sent, gp_massage_to_send_hade, send_pc, failures, called>> /\ accepted' = accepted
  BY DEF ClientReceives, Wire!ReceiveSome, Wire!ReceiveEnd, Wire!sender, vars, writers, accepted, box
<1>2. CASE UNCHANGED received
  BY <1>1, <1>2, ArrivalStutters
<1>3. CASE received' = Append(received, Len(received) + 1)
  <2>1. /\ accepted \in Seq(Message) /\ Len(accepted) \in Nat /\ r \in Nat /\ r <= Len(accepted)
        /\ sent \in Seq(Message) /\ box \in Seq(Message) /\ Len(accepted) = Len(sent) + Len(box)
        /\ Len(sent) \in Nat /\ list \in Seq(Message)
    BY AcceptedIsSeq
  <2>2. Len(received') = r + 1 /\ received \in Seq(Nat)
    BY <1>3, <2>1 DEF WireInv, WireTypeOK
  <2>3. r + 1 <= called
    BY <1>1, <2>2 DEF WireInv, BehindInv
  <2>4. called # Len(sent) => called = Len(sent) + 1
    BY DEF WireInv, SenderInv
  <2>5. CASE r + 1 <= Len(sent)
    <3>1. r + 1 \in DOMAIN sent /\ r + 1 \in 1 .. Len(sent)
      BY <2>1, <2>5
    <3>2. accepted[r + 1] = sent[r + 1]
      BY <2>1, <3>1 DEF accepted
    <3>3. begun_at(sent, list, r + 1) = accepted[r + 1]
      BY <3>1, <3>2 DEF begun_at
    <3>4. Len(box) \in Nat
      BY <2>1
    <3>5. r + 1 <= Len(accepted)
      BY <2>1, <2>5, <3>4
    <3>6. QED BY <3>3, <3>5, ArrivalDelivers, <1>1, <1>3, <2>1, <2>2
  <2>6. CASE ~(r + 1 <= Len(sent))
    <3>1. r + 1 = Len(sent) + 1 /\ called # Len(sent) /\ called = r + 1
      BY <2>1, <2>3, <2>4, <2>6
    <3>2. send_pc = "send" /\ list # << >>
      BY <1>1, <2>2, <3>1 DEF WireInv, SenderInv, BehindInv
    <3>3. box = list
      BY <3>2 DEF box
    <3>4. r + 1 \notin DOMAIN sent /\ Len(list) >= 1 /\ Len(list) \in Nat
      BY <2>1, <3>1, <3>2
    <3>5. begun_at(sent, list, r + 1) = Head(list)
      BY <3>1, <3>2, <3>4 DEF begun_at
    <3>6. accepted[r + 1] = Head(list)
      <4>1. (sent \o box)[r + 1] = box[(r + 1) - Len(sent)] /\ (r + 1) - Len(sent) = 1
        <5>1. r + 1 \in 1 .. Len(sent) + Len(box) /\ (r + 1) - Len(sent) = 1
          BY <2>1, <3>1, <3>3, <3>4
        <5>2. QED BY <2>1, <2>6, <5>1, ConcatProperties
      <4>2. QED BY <2>1, <3>2, <3>3, <4>1 DEF accepted
    <3>7. r + 1 <= Len(accepted)
      BY <2>1, <3>1, <3>3, <3>4
    <3>8. QED BY <3>5, <3>6, <3>7, ArrivalDelivers, <1>1, <1>3, <2>1, <2>2
  <2>7. QED BY <2>5, <2>6
<1>4. received' = received \/ received' = Append(received, Len(received) + 1)
  <2>1. CASE Wire!ReceiveEnd
    BY <2>1 DEF Wire!ReceiveEnd
  <2>2. CASE Wire!ReceiveSome
    <3>1. PICK s \in Bytes : Carries(s)
      BY DEF WireInv, StreamInv
    <3>2. PICK n \in Nat : Receives(n)
      BY <2>2, <3>1, ReceiveSomeReceives
    <3>3. QED BY <3>2 DEF Receives, Continues, SizeArrives, MessageArrives
  <2>3. QED BY <2>1, <2>2 DEF ClientReceives
<1>5. QED BY <1>2, <1>3, <1>4

LEMMA NextImplementsArrival ==
  ListInv /\ WireInv /\ (ListInv /\ WireInv)' /\ [DeliveryNext]_all
    => [Arrival!Next]_<<to_come, arrived, failures>>
<1> SUFFICES ASSUME ListInv, WireInv, ListInv', WireInv', [DeliveryNext]_all
             PROVE  Arrival!Next \/ UNCHANGED <<to_come, arrived, failures>>
  OBVIOUS
<1>1. CASE \E w \in Writer : CallSendD(w) \/ WriterStepD(w)
  BY <1>1, WriterImplementsArrival
<1>2. CASE SenderStepD
  BY <1>2, SenderImplementsArrival
<1>3. CASE ClientReceives
  BY <1>3, ClientImplementsArrival
<1>4. CASE OwnShuts \/ ClientLeaves \/ ConnectionBreaks \/ UNCHANGED all
  <2>1. UNCHANGED <<sent, gp_massage_to_send_hade, send_pc, failures, received>>
    <3>1. CASE OwnShuts
      BY <3>1 DEF OwnShuts, OwnEnds, wire, Wire!Shut, Wire!receiver
    <3>2. CASE ClientLeaves
      BY <3>2 DEF ClientLeaves, Cut, wire, writers
    <3>3. CASE ConnectionBreaks
      BY <3>3 DEF ConnectionBreaks, Cut, Wire!Break, Wire!receiver, writers, vars
    <3>4. CASE UNCHANGED all
      BY <3>4 DEF all, vars, wire, writers
    <3>5. QED BY <1>4, <3>1, <3>2, <3>3, <3>4
  <2>2. accepted' = accepted
    BY <2>1 DEF accepted, box
  <2>3. QED BY <2>1, <2>2, ArrivalStutters
<1>5. QED BY <1>1, <1>2, <1>3, <1>4 DEF DeliveryNext

(* The client receives the messages that were appended to its list, whole, *)
(* in their order and each once, however the steps of threads, sends and   *)
(* receives interleave, and whenever the connection ends.                  *)
THEOREM ArrivesInOrderHolds == DeliverySpec => ArrivesInOrder
<1>1. DeliveryInit => Arrival!Init
  <2> SUFFICES ASSUME DeliveryInit PROVE Arrival!Init
    OBVIOUS
  <2>1. /\ sent = << >> /\ gp_massage_to_send_hade = << >> /\ received = << >> /\ failures = 0
        /\ send_pc = "check"
    BY DEF DeliveryInit, Init, Wire!Init
  <2>2. accepted = << >>
    BY <2>1, ConcatEmptySeq DEF accepted, box
  <2>3. to_come = << >>
    BY <2>1, <2>2, ToComeIs
  <2>4. arrived = << >>
    BY <2>1 DEF arrived
  <2>5. QED BY <2>1, <2>3, <2>4 DEF Arrival!Init
<1>2. ListInv /\ WireInv /\ (ListInv /\ WireInv)' /\ [DeliveryNext]_all
        => [Arrival!Next]_<<to_come, arrived, failures>>
  BY NextImplementsArrival
<1>3. QED
  BY <1>1, <1>2, WireInvariant, PTL DEF DeliverySpec, ArrivesInOrder, Arrival!Spec
=============================================================================
