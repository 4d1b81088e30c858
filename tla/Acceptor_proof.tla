--------------------------- MODULE Acceptor_proof ---------------------------
(***************************************************************************)
(* Proofs about the slots of the server, for any number of slots and of    *)
(* clients, however they end, and however late the threads are.            *)
(***************************************************************************)
EXTENDS Acceptor, FiniteSetTheorems, TLAPS

ThreadState ==
  [pc : {"none", "start", "socket", "loop", "recv", "post", "wait", "send", "close", "ended"},
   num : Slot, socket : Connection \cup {NoSocket}]

TypeOK ==
  /\ g_is_thread_active \in [Slot -> BOOLEAN]
  /\ g_client_socket \in [Slot -> Connection \cup {NoSocket}]
  /\ accept_pc \in {"accept", "look", "take", "store", "send", "recv"}
  /\ client_ind \in Slot
  /\ i \in 0 .. MAX_NUM_CLIENTS
  /\ accepted \in 0 .. MaxConnections
  /\ peer \in [Connection -> {"out", "up", "left", "broken"}]
  /\ receiver \in [Connection -> ThreadState]
  /\ sender \in [Connection -> ThreadState]
  /\ closed \subseteq Connection

(* Threads that have read their argument and their socket.                 *)
Began(thread) == thread.pc \notin {"none", "start", "socket"}
AnyoneBroken == \E k \in Connection : peer[k] = "broken"
AnyoneLeft == \E k \in Connection : peer[k] = "left"

(* socket_thread is about to put the client's socket into slot c.          *)
Storing(c) == accept_pc = "store" /\ c = client_ind

(* Who has come has a peer, and threads when socket_thread has got there.  *)
Arrivals ==
  /\ \A k \in Connection :
       k > accepted => peer[k] = "out" /\ receiver[k].pc = "none" /\ sender[k].pc = "none"
  /\ \A k \in Connection : k <= accepted => peer[k] # "out"
  /\ accept_pc # "accept" => accepted \in Connection /\ receiver[accepted].pc = "none"
  /\ accept_pc \in {"look", "take", "store", "send"} => sender[accepted].pc = "none"

(* The clients whose sockets are in the slots came earlier and differ.     *)
Owners ==
  /\ \A c \in Slot :
       /\ g_client_socket[c] <= accepted
       /\ accept_pc \in {"look", "take", "store"} => g_client_socket[c] # accepted
       /\ g_is_thread_active[c] => g_client_socket[c] # NoSocket \/ Storing(c)
  /\ \A c, d \in Slot :
       g_client_socket[c] = g_client_socket[d] /\ g_client_socket[c] # NoSocket => c = d

(* A thread that has its own client's socket has the slot it is in.        *)
KnowsItsSlot ==
  \A k \in Connection : Began(receiver[k]) /\ receiver[k].socket = k =>
    \A c \in Slot : g_client_socket[c] = k => receiver[k].num = c

(* The slot of a client whose receiving thread is done is free.            *)
GivenBack ==
  \A c \in Slot, k \in Connection :
    g_client_socket[c] = k /\ receiver[k].pc \in {"close", "ended"} /\ g_is_thread_active[c] =>
      AnyoneMisled \/ AnyoneBroken \/ Storing(c)

Closing ==
  /\ \A k \in closed : peer[k] = "left" /\ (AnyoneMisled \/ receiver[k].pc = "ended")
  /\ \A k \in Connection : receiver[k].pc = "close" =>
       receiver[k].socket \in Connection /\ peer[receiver[k].socket] = "left"

(* There was room when the client came.                                    *)
CameToRoom ==
  accept_pc \in {"look", "take"} =>
    \/ FreeSlots # {}
    \/ Cardinality(Connected \ {accepted}) < MAX_NUM_CLIENTS
    \/ AnyoneBroken

(* The search has passed no free slot, unless one was given up behind it.  *)
Search ==
  /\ accept_pc = "look" =>
       AnyoneLeft \/ \A c \in Slot : c < i => g_is_thread_active[c]
  /\ accept_pc = "take" =>
       AnyoneLeft \/ ~g_is_thread_active[client_ind] \/ FreeSlots = {}

SlotInv ==
  /\ TypeOK /\ Arrivals /\ Owners /\ KnowsItsSlot /\ GivenBack /\ Closing /\ CameToRoom
  /\ Search
-----------------------------------------------------------------------------
LEMMA SlotsFinite == IsFiniteSet(Slot) /\ Cardinality(Slot) = MAX_NUM_CLIENTS
<1>1. MAX_NUM_CLIENTS \in Nat /\ MAX_NUM_CLIENTS > 0
  BY AcceptorAssumption DEF AcceptorAssumption
<1>2. 0 \in Int /\ MAX_NUM_CLIENTS - 1 \in Int
  BY <1>1
<1>3. IsFiniteSet(Slot) /\ Cardinality(Slot) = MAX_NUM_CLIENTS - 1 - 0 + 1
  BY <1>1, <1>2, FS_Interval DEF Slot
<1>4. QED BY <1>1, <1>3

LEMMA ConnectionsFinite == ASSUME NEW S, S \subseteq Connection PROVE IsFiniteSet(S)
<1>1. IsFiniteSet(Connection)
  BY AcceptorAssumption, FS_Interval DEF AcceptorAssumption, Connection
<1>2. QED BY <1>1, FS_Subset

LEMMA InitSlots == Init => SlotInv
<1> SUFFICES ASSUME Init PROVE SlotInv
  OBVIOUS
<1>1. 0 \in Slot /\ 0 \in 0 .. MaxConnections /\ 0 \in 0 .. MAX_NUM_CLIENTS
  BY AcceptorAssumption DEF AcceptorAssumption, Slot
<1>2. Thread("none") \in ThreadState
  BY <1>1 DEF Thread, ThreadState, NoSocket
<1>3. TypeOK
  BY <1>1, <1>2 DEF Init, TypeOK, NoSocket
<1>4. Arrivals /\ Owners /\ KnowsItsSlot /\ GivenBack /\ Closing /\ CameToRoom /\ Search
  BY DEF Init, Arrivals, Owners, KnowsItsSlot, GivenBack, Closing, CameToRoom, Search, Began,
         Thread, Connection, NoSocket
<1>5. QED BY <1>3, <1>4 DEF SlotInv
-----------------------------------------------------------------------------
(* A late thread, and a broken connection, stay what they are.             *)

LEMMA BegunStaysMisled ==
  ASSUME TypeOK, receiver' \in [Connection -> ThreadState], sender' \in [Connection -> ThreadState],
         \A k \in Connection : Began(receiver[k]) =>
           Began(receiver'[k]) /\ receiver'[k].socket = receiver[k].socket,
         \A k \in Connection : Began(sender[k]) =>
           Began(sender'[k]) /\ sender'[k].socket = sender[k].socket
  PROVE  AnyoneMisled => AnyoneMisled'
BY DEF AnyoneMisled, Misled, Began

(* A step of socket_thread or of a client: no thread moves, but one may be *)
(* created.                                                                *)
LEMMA ThreadsAlone ==
  ASSUME UNCHANGED <<receiver, sender>>
  PROVE  AnyoneMisled' = AnyoneMisled
BY DEF AnyoneMisled, Misled
-----------------------------------------------------------------------------
(* socket_thread                                                           *)

LEMMA ComesKeeps == ASSUME SlotInv, Accept \/ AcceptFails PROVE SlotInv'
<1>1. /\ accept_pc = "accept" /\ accept_pc' = "look" /\ accepted' = accepted + 1
      /\ accepted < MaxConnections /\ client_ind' = 0 /\ i' = 0
      /\ UNCHANGED <<g_is_thread_active, g_client_socket, receiver, sender, closed>>
  BY DEF Accept, AcceptFails, slots
<1>2. accepted + 1 \in Connection /\ accepted \in Nat
  BY <1>1, AcceptorAssumption DEF AcceptorAssumption, SlotInv, TypeOK, Connection
<1>3. PICK p \in {"up", "broken"} :
        /\ peer' = [peer EXCEPT ![accepted + 1] = p]
        /\ p = "up" => Accept
  BY <1>1 DEF Accept, AcceptFails
<1>4. /\ peer[accepted + 1] = "out" /\ receiver[accepted + 1].pc = "none"
      /\ sender[accepted + 1].pc = "none"
  BY <1>2 DEF SlotInv, Arrivals
<1>5. /\ peer' \in [Connection -> {"out", "up", "left", "broken"}]
      /\ peer'[accepted + 1] = p
      /\ \A k \in Connection \ {accepted + 1} : peer'[k] = peer[k]
  BY <1>2, <1>3 DEF SlotInv, TypeOK
<1>6. TypeOK'
  BY <1>1, <1>2, <1>5, AcceptorAssumption
     DEF AcceptorAssumption, SlotInv, TypeOK, Connection, Slot
<1>7. Arrivals'
  <2>1. ASSUME NEW k \in Connection, k > accepted + 1
        PROVE  peer'[k] = "out" /\ receiver[k].pc = "none" /\ sender[k].pc = "none"
    BY <1>2, <1>5, <2>1 DEF SlotInv, Arrivals, Connection
  <2>2. ASSUME NEW k \in Connection, k <= accepted + 1
        PROVE  peer'[k] # "out"
    BY <1>2, <1>5, <2>2 DEF SlotInv, Arrivals, Connection
  <2>3. QED BY <1>1, <1>2, <1>4, <2>1, <2>2 DEF Arrivals
<1>8. Owners'
  <2>1. \A c \in Slot : g_client_socket[c] \in Nat /\ g_client_socket[c] <= accepted
    BY <1>2 DEF SlotInv, TypeOK, Owners, Connection, NoSocket
  <2>2. \A c \in Slot : g_client_socket[c] <= accepted + 1 /\ g_client_socket[c] # accepted + 1
    BY <1>2, <2>1
  <2>3. QED BY <1>1, <2>2 DEF SlotInv, Owners, Storing
<1>9. AnyoneMisled' = AnyoneMisled /\ (AnyoneBroken => AnyoneBroken')
  BY <1>1, <1>4, <1>5, ThreadsAlone DEF AnyoneBroken
<1>10. KnowsItsSlot' /\ GivenBack'
  BY <1>1, <1>9 DEF SlotInv, KnowsItsSlot, GivenBack, Storing
<1>11. Closing'
  BY <1>1, <1>4, <1>5, <1>9 DEF SlotInv, TypeOK, Closing
<1>12. CameToRoom'
  <2>1. CASE p = "broken"
    BY <1>2, <1>5, <2>1 DEF CameToRoom, AnyoneBroken
  <2>2. CASE p = "up"
    <3>1. FreeSlots' = FreeSlots
      BY <1>1 DEF FreeSlots
    <3>2. Connected' \ {accepted'} = Connected
      BY <1>1, <1>4, <1>5, <2>2 DEF Connected
    <3>3. FreeSlots # {} \/ Cardinality(Connected) < MAX_NUM_CLIENTS
      BY <1>3, <2>2 DEF Accept, MayCome
    <3>4. QED BY <3>1, <3>2, <3>3 DEF CameToRoom
  <2>3. QED BY <2>1, <2>2
<1>13. Search'
  BY <1>1 DEF Search, Slot
<1>14. QED BY <1>6, <1>7, <1>8, <1>10, <1>11, <1>12, <1>13 DEF SlotInv

LEMMA LookAtSlotKeeps == ASSUME SlotInv, LookAtSlot PROVE SlotInv'
<1>1. /\ accept_pc = "look" /\ accept_pc' \in {"look", "take"}
      /\ client_ind' \in Slot /\ i' \in 0 .. MAX_NUM_CLIENTS
      /\ UNCHANGED <<g_is_thread_active, g_client_socket, accepted, peer, receiver, sender, closed>>
  BY AcceptorAssumption
     DEF LookAtSlot, slots, clients, SlotInv, TypeOK, Slot, AcceptorAssumption
<1>2. TypeOK'
  BY <1>1 DEF SlotInv, TypeOK
<1>3. Arrivals' /\ Owners' /\ KnowsItsSlot'
  BY <1>1 DEF SlotInv, Arrivals, Owners, KnowsItsSlot, Storing
<1>4. AnyoneMisled' = AnyoneMisled /\ AnyoneBroken' = AnyoneBroken
  BY <1>1, ThreadsAlone DEF AnyoneBroken
<1>5. GivenBack' /\ Closing'
  BY <1>1, <1>4 DEF SlotInv, GivenBack, Closing, Storing
<1>6. FreeSlots' = FreeSlots /\ Connected' = Connected
  BY <1>1 DEF FreeSlots, Connected
<1>7. CameToRoom'
  BY <1>1, <1>4, <1>6 DEF SlotInv, CameToRoom
<1>8. Search'
  <2>1. AnyoneLeft' = AnyoneLeft
    BY <1>1 DEF AnyoneLeft
  <2>2. AnyoneLeft \/ \A c \in Slot : c < i => g_is_thread_active[c]
    BY <1>1 DEF SlotInv, Search
  <2>3. CASE i \in Slot /\ g_is_thread_active[i] /\ i' = i + 1 /\ accept_pc' = "look"
    BY <1>1, <2>1, <2>2, <2>3 DEF Search, Slot
  <2>4. CASE i \in Slot /\ ~g_is_thread_active[i] /\ client_ind' = i /\ accept_pc' = "take"
    BY <1>1, <2>4 DEF Search
  <2>5. CASE i = MAX_NUM_CLIENTS /\ accept_pc' = "take"
    <3>1. AnyoneLeft \/ FreeSlots = {}
      BY <2>2, <2>5, AcceptorAssumption DEF FreeSlots, Slot, AcceptorAssumption
    <3>2. QED BY <1>6, <2>1, <2>5, <3>1 DEF Search
  <2>6. QED BY <1>1, <2>3, <2>4, <2>5 DEF LookAtSlot
<1>9. QED BY <1>2, <1>3, <1>5, <1>7, <1>8 DEF SlotInv

LEMMA TakeSlotKeeps == ASSUME SlotInv, TakeSlot PROVE SlotInv'
<1>1. /\ accept_pc = "take" /\ accept_pc' = "store"
      /\ g_is_thread_active' = [g_is_thread_active EXCEPT ![client_ind] = TRUE]
      /\ UNCHANGED <<g_client_socket, client_ind, i, accepted, peer, receiver, sender, closed>>
  BY DEF TakeSlot, take_slot, clients
<1>2. TypeOK'
  BY <1>1 DEF SlotInv, TypeOK
<1>3. \A c \in Slot : g_is_thread_active'[c] => g_is_thread_active[c] \/ Storing(c)'
  BY <1>1 DEF SlotInv, TypeOK, Storing
<1>4. Arrivals' /\ KnowsItsSlot'
  BY <1>1 DEF SlotInv, Arrivals, KnowsItsSlot
<1>5. Owners'
  BY <1>1, <1>3 DEF SlotInv, Owners, Storing
<1>6. AnyoneMisled' = AnyoneMisled /\ AnyoneBroken' = AnyoneBroken
  BY <1>1, ThreadsAlone DEF AnyoneBroken
<1>7. GivenBack' /\ Closing' /\ CameToRoom' /\ Search'
  BY <1>1, <1>3, <1>6 DEF SlotInv, GivenBack, Closing, CameToRoom, Search, Storing
<1>8. QED BY <1>2, <1>4, <1>5, <1>7 DEF SlotInv

LEMMA StoreSocketKeeps == ASSUME SlotInv, StoreSocket PROVE SlotInv'
<1>1. /\ accept_pc = "store" /\ accept_pc' = "send"
      /\ g_client_socket' = [g_client_socket EXCEPT ![client_ind] = accepted]
      /\ UNCHANGED <<g_is_thread_active, client_ind, i, accepted, peer, receiver, sender, closed>>
  BY DEF StoreSocket, clients
<1>2. accepted \in Connection /\ accepted # NoSocket /\ receiver[accepted].pc = "none"
  BY <1>1 DEF SlotInv, Arrivals, Connection, NoSocket
<1>3. /\ g_client_socket' \in [Slot -> Connection \cup {NoSocket}]
      /\ g_client_socket'[client_ind] = accepted
      /\ \A c \in Slot \ {client_ind} : g_client_socket'[c] = g_client_socket[c]
      /\ \A c \in Slot : g_client_socket[c] # accepted
  BY <1>1, <1>2 DEF SlotInv, TypeOK, Owners
<1>4. TypeOK'
  BY <1>1, <1>3 DEF SlotInv, TypeOK
<1>5. Arrivals'
  BY <1>1 DEF SlotInv, Arrivals
<1>6. Owners'
  <2>1. accepted <= accepted
    BY DEF SlotInv, TypeOK
  <2>2. QED BY <1>1, <1>2, <1>3, <2>1 DEF SlotInv, Owners, Storing
<1>7. AnyoneMisled' = AnyoneMisled /\ AnyoneBroken' = AnyoneBroken
  BY <1>1, ThreadsAlone DEF AnyoneBroken
<1>8. KnowsItsSlot'
  BY <1>1, <1>2, <1>3 DEF SlotInv, KnowsItsSlot, Began
<1>9. GivenBack' /\ Closing' /\ CameToRoom' /\ Search'
  BY <1>1, <1>2, <1>3, <1>7 DEF SlotInv, GivenBack, Closing, CameToRoom, Search, Storing
<1>10. QED BY <1>4, <1>5, <1>6, <1>8, <1>9 DEF SlotInv

LEMMA NewThread == Thread("start") \in ThreadState /\ ~Began(Thread("start"))
<1>1. 0 \in Slot
  BY AcceptorAssumption DEF AcceptorAssumption, Slot
<1>2. QED BY <1>1 DEF Thread, ThreadState, NoSocket, Began

LEMMA CreateSenderKeeps == ASSUME SlotInv, CreateSender PROVE SlotInv'
<1>1. /\ accept_pc = "send" /\ accept_pc' = "recv"
      /\ sender' = [sender EXCEPT ![accepted] = Thread("start")]
      /\ UNCHANGED <<g_is_thread_active, g_client_socket, client_ind, i, accepted, peer,
                     receiver, closed>>
  BY DEF CreateSender, slots, clients
<1>2. accepted \in Connection /\ ~Began(sender[accepted])
  BY <1>1 DEF SlotInv, Arrivals, Began
<1>3. /\ sender' \in [Connection -> ThreadState]
      /\ \A k \in Connection \ {accepted} : sender'[k] = sender[k]
  BY <1>1, NewThread DEF SlotInv, TypeOK
<1>4. TypeOK'
  BY <1>1, <1>3 DEF SlotInv, TypeOK
<1>5. Arrivals'
  <2>1. ~(accepted > accepted)
    BY DEF SlotInv, TypeOK
  <2>2. QED BY <1>1, <1>2, <1>3, <2>1 DEF SlotInv, Arrivals
<1>6. (AnyoneMisled => AnyoneMisled') /\ AnyoneBroken' = AnyoneBroken
  BY <1>1, <1>2, <1>3, BegunStaysMisled DEF SlotInv, TypeOK, AnyoneBroken
<1>7. Owners' /\ KnowsItsSlot' /\ GivenBack' /\ Closing' /\ CameToRoom' /\ Search'
  BY <1>1, <1>6
     DEF SlotInv, Owners, KnowsItsSlot, GivenBack, Closing, CameToRoom, Search, Storing
<1>8. QED BY <1>4, <1>5, <1>7 DEF SlotInv

LEMMA CreateReceiverKeeps == ASSUME SlotInv, CreateReceiver PROVE SlotInv'
<1>1. /\ accept_pc = "recv" /\ accept_pc' = "accept"
      /\ receiver' = [receiver EXCEPT ![accepted] = Thread("start")]
      /\ UNCHANGED <<g_is_thread_active, g_client_socket, client_ind, i, accepted, peer,
                     sender, closed>>
  BY DEF CreateReceiver, slots, clients
<1>2. accepted \in Connection /\ receiver[accepted].pc = "none" /\ ~Began(receiver[accepted])
  BY <1>1 DEF SlotInv, Arrivals, Began
<1>3. /\ receiver' \in [Connection -> ThreadState]
      /\ receiver'[accepted].pc = "start" /\ ~Began(receiver'[accepted])
      /\ \A k \in Connection \ {accepted} : receiver'[k] = receiver[k]
  <2>1. Thread("start").pc = "start"
    BY DEF Thread
  <2>2. QED BY <1>1, <1>2, <2>1, NewThread DEF SlotInv, TypeOK
<1>4. TypeOK'
  BY <1>1, <1>3 DEF SlotInv, TypeOK
<1>5. Arrivals'
  <2>1. ~(accepted > accepted)
    BY DEF SlotInv, TypeOK
  <2>2. QED BY <1>1, <1>2, <1>3, <2>1 DEF SlotInv, Arrivals
<1>6. (AnyoneMisled => AnyoneMisled') /\ AnyoneBroken' = AnyoneBroken
  BY <1>1, <1>2, <1>3, BegunStaysMisled DEF SlotInv, TypeOK, AnyoneBroken
<1>7. Owners' /\ KnowsItsSlot' /\ GivenBack' /\ CameToRoom' /\ Search'
  BY <1>1, <1>3, <1>6 DEF SlotInv, Owners, KnowsItsSlot, GivenBack, CameToRoom, Search, Storing
<1>8. Closing'
  BY <1>1, <1>2, <1>3, <1>6 DEF SlotInv, TypeOK, Closing
<1>9. QED BY <1>4, <1>5, <1>7, <1>8 DEF SlotInv
-----------------------------------------------------------------------------
(* recive_from_client_thread                                               *)

(* The next state of a receiving thread, and of the slots and sockets it   *)
(* may give up.                                                            *)
MovesOn(k, thread) ==
  /\ thread \in ThreadState
  /\ thread.pc # "none" /\ receiver[k].pc \notin {"none", "ended"}
  /\ IF Began(receiver[k])
     THEN Began(thread) /\ thread.socket = receiver[k].socket /\ thread.num = receiver[k].num
     ELSE Began(thread) => thread.pc = "loop" /\ thread.socket = g_client_socket[thread.num]
GivesUp(k, thread) ==
  /\ g_is_thread_active' \in [Slot -> BOOLEAN]
  /\ \A c \in Slot : g_is_thread_active'[c] => g_is_thread_active[c]
  /\ AnyoneLeft \/ UNCHANGED g_is_thread_active
  /\ thread.pc \in {"close", "ended"} =>
       \A c \in Slot : g_client_socket[c] = k /\ g_is_thread_active'[c] =>
         AnyoneMisled \/ AnyoneBroken \/ Storing(c)
Closes(k, thread) ==
  /\ \A j \in closed' \ closed : thread.pc = "ended" /\ j \in Connection /\ j = thread.socket
                                   /\ peer[j] = "left"
  /\ closed \subseteq closed'
  /\ thread.pc = "close" => thread.socket \in Connection /\ peer[thread.socket] = "left"

LEMMA ReceiverMoves ==
  ASSUME SlotInv, NEW k \in Connection, NEW thread,
         receiver' = [receiver EXCEPT ![k] = thread],
         MovesOn(k, thread), GivesUp(k, thread), Closes(k, thread),
         UNCHANGED <<acceptor, g_client_socket, peer, sender>>
  PROVE  SlotInv'
<1>1. /\ receiver' \in [Connection -> ThreadState]
      /\ receiver'[k] = thread
      /\ \A j \in Connection \ {k} : receiver'[j] = receiver[j]
      /\ UNCHANGED <<accept_pc, client_ind, i, accepted>>
  BY DEF SlotInv, TypeOK, MovesOn, acceptor
<1>2. (AnyoneMisled => AnyoneMisled') /\ AnyoneBroken' = AnyoneBroken
  BY <1>1, BegunStaysMisled DEF SlotInv, TypeOK, AnyoneBroken, MovesOn
<1>3. TypeOK'
  <2>1. closed' \subseteq Connection
    BY DEF SlotInv, TypeOK, Closes
  <2>2. QED BY <1>1, <2>1 DEF SlotInv, TypeOK, GivesUp
<1>4. Arrivals'
  BY <1>1 DEF SlotInv, Arrivals, MovesOn
<1>5. Owners'
  BY <1>1 DEF SlotInv, Owners, Storing, GivesUp
<1>6. KnowsItsSlot'
  <2>1. ASSUME Began(thread), thread.socket = k, NEW c \in Slot, g_client_socket[c] = k
        PROVE  thread.num = c
    <3>1. CASE Began(receiver[k])
      BY <2>1, <3>1 DEF SlotInv, KnowsItsSlot, MovesOn
    <3>2. CASE ~Began(receiver[k])
      <4>1. g_client_socket[thread.num] = g_client_socket[c] /\ thread.num \in Slot
        BY <2>1, <3>2 DEF MovesOn, ThreadState
      <4>2. k # NoSocket
        BY DEF Connection, NoSocket
      <4>3. QED BY <2>1, <4>1, <4>2 DEF SlotInv, Owners
    <3>3. QED BY <3>1, <3>2
  <2>2. QED BY <1>1, <2>1 DEF SlotInv, KnowsItsSlot
<1>7. GivenBack'
  <2>1. ASSUME NEW c \in Slot, NEW j \in Connection, g_client_socket[c] = j,
               receiver'[j].pc \in {"close", "ended"}, g_is_thread_active'[c]
        PROVE  AnyoneMisled \/ AnyoneBroken \/ Storing(c)
    BY <1>1, <2>1 DEF SlotInv, GivenBack, GivesUp
  <2>2. QED BY <1>1, <1>2, <2>1 DEF GivenBack, Storing
<1>8. Closing'
  <2>1. ASSUME NEW j \in closed'
        PROVE  peer[j] = "left" /\ (AnyoneMisled' \/ receiver'[j].pc = "ended")
    <3>1. CASE j \in closed
      <4>1. j \in Connection /\ peer[j] = "left" /\ (AnyoneMisled \/ receiver[j].pc = "ended")
        BY <3>1 DEF SlotInv, TypeOK, Closing
      <4>2. receiver[j].pc = "ended" => j # k
        BY DEF MovesOn
      <4>3. QED BY <1>1, <1>2, <4>1, <4>2
    <3>2. CASE j \notin closed
      <4>1. thread.pc = "ended" /\ j = thread.socket /\ peer[j] = "left" /\ j \in Connection
        BY <2>1, <3>2 DEF Closes
      <4>2. j # k => AnyoneMisled'
        BY <1>1, <4>1 DEF AnyoneMisled, Misled
      <4>3. QED BY <1>1, <4>1, <4>2
    <3>3. QED BY <3>1, <3>2
  <2>2. ASSUME NEW j \in Connection, receiver'[j].pc = "close"
        PROVE  receiver'[j].socket \in Connection /\ peer[receiver'[j].socket] = "left"
    BY <1>1, <2>2 DEF SlotInv, Closing, Closes
  <2>3. QED BY <2>1, <2>2 DEF Closing
<1>9. CameToRoom'
  <2>1. FreeSlots # {} => FreeSlots' # {}
    BY DEF FreeSlots, GivesUp
  <2>2. Connected' = Connected
    BY DEF Connected
  <2>3. QED BY <1>1, <1>2, <2>1, <2>2 DEF SlotInv, CameToRoom
<1>10. Search'
  <2>1. AnyoneLeft' = AnyoneLeft
    BY DEF AnyoneLeft
  <2>2. CASE AnyoneLeft
    BY <2>1, <2>2 DEF Search
  <2>3. CASE UNCHANGED g_is_thread_active
    <3>1. FreeSlots' = FreeSlots
      BY <2>3 DEF FreeSlots
    <3>2. QED BY <1>1, <2>1, <2>3, <3>1 DEF SlotInv, Search
  <2>4. QED BY <2>2, <2>3 DEF GivesUp
<1>11. QED BY <1>3, <1>4, <1>5, <1>6, <1>7, <1>8, <1>9, <1>10 DEF SlotInv

LEMMA ReceiverStartsKeeps ==
  ASSUME SlotInv, NEW k \in Connection, ReceiverStarts(k)
  PROVE  SlotInv'
<1> DEFINE thread == started(receiver[k])
<1>1. /\ receiver' = [receiver EXCEPT ![k] = thread] /\ Starting(receiver[k])
      /\ UNCHANGED <<acceptor, g_client_socket, g_is_thread_active, peer, sender, closed>>
  BY DEF ReceiverStarts, slots, clients
<1>2. /\ thread \in ThreadState /\ thread.pc \in {"socket", "loop"}
      /\ thread.pc = "loop" => thread.socket = g_client_socket[thread.num]
  <2>1. CASE receiver[k].pc = "start"
    BY <2>1 DEF started, SlotInv, TypeOK, ThreadState
  <2>2. CASE receiver[k].pc = "socket"
    BY <2>2 DEF started, SlotInv, TypeOK, ThreadState
  <2>3. QED BY <1>1, <2>1, <2>2 DEF Starting
<1> HIDE DEF thread
<1>3. MovesOn(k, thread)
  BY <1>1, <1>2 DEF MovesOn, Began, Starting
<1>4. GivesUp(k, thread) /\ Closes(k, thread)
  BY <1>1, <1>2 DEF GivesUp, Closes, SlotInv, TypeOK
<1>5. QED BY <1>1, <1>3, <1>4, ReceiverMoves

(* A thread that has begun goes on with its slot and socket, or ends.      *)
LEMMA ReceiverGoesOn ==
  ASSUME SlotInv, NEW k \in Connection, NEW pc \in {"loop", "recv", "post", "close", "ended"},
         Began(receiver[k]), receiver[k].pc # "ended",
         receiver' = [receiver EXCEPT ![k].pc = pc],
         GivesUp(k, [receiver[k] EXCEPT !.pc = pc]), Closes(k, [receiver[k] EXCEPT !.pc = pc]),
         UNCHANGED <<acceptor, g_client_socket, peer, sender>>
  PROVE  SlotInv'
<1> DEFINE thread == [receiver[k] EXCEPT !.pc = pc]
<1>1. receiver' = [receiver EXCEPT ![k] = thread]
  BY DEF SlotInv, TypeOK
<1>2. MovesOn(k, thread)
  BY DEF MovesOn, Began, SlotInv, TypeOK, ThreadState
<1>3. GivesUp(k, thread) /\ Closes(k, thread)
  OBVIOUS
<1> HIDE DEF thread
<1>4. QED BY <1>1, <1>2, <1>3, ReceiverMoves

(* What a thread needs that is done: if the socket is its client's, so is  *)
(* the slot, and it is free.                                               *)
LEMMA GivesItsSlotUp ==
  ASSUME SlotInv, NEW k \in Connection, NEW pc, Began(receiver[k]),
         g_is_thread_active' \in [Slot -> BOOLEAN],
         \A c \in Slot : g_is_thread_active'[c] => g_is_thread_active[c],
         AnyoneLeft \/ UNCHANGED g_is_thread_active,
         receiver[k].socket = k => ~g_is_thread_active'[receiver[k].num] \/ AnyoneBroken
  PROVE  GivesUp(k, [receiver[k] EXCEPT !.pc = pc])
<1>1. receiver[k].socket # k => AnyoneMisled
  BY DEF AnyoneMisled, Misled, Began
<1>2. ASSUME NEW c \in Slot, g_client_socket[c] = k, g_is_thread_active'[c]
      PROVE  AnyoneMisled \/ AnyoneBroken
  <2>1. CASE receiver[k].socket = k
    BY <1>2, <2>1 DEF SlotInv, KnowsItsSlot
  <2>2. QED BY <1>1, <2>1
<1>3. QED BY <1>2 DEF GivesUp

LEMMA ReceiverLoopsKeeps ==
  ASSUME SlotInv, NEW k \in Connection, ReceiverLoops(k)
  PROVE  SlotInv'
<1>1. /\ receiver' = [receiver EXCEPT ![k] = Loops(receiver[k], "recv")] /\ receiver[k].pc = "loop"
      /\ UNCHANGED <<acceptor, g_client_socket, g_is_thread_active, peer, sender, closed>>
  BY DEF ReceiverLoops, slots, clients
<1>2. Began(receiver[k]) /\ receiver[k].pc # "ended"
  BY <1>1 DEF Began
<1>3. CASE g_is_thread_active[receiver[k].num]
  <2>1. receiver' = [receiver EXCEPT ![k].pc = "recv"]
    BY <1>1, <1>3 DEF Loops, SlotInv, TypeOK
  <2>2. [receiver[k] EXCEPT !.pc = "recv"].pc = "recv"
    BY DEF SlotInv, TypeOK, ThreadState
  <2>3. /\ GivesUp(k, [receiver[k] EXCEPT !.pc = "recv"])
        /\ Closes(k, [receiver[k] EXCEPT !.pc = "recv"])
    BY <1>1, <2>2 DEF GivesUp, Closes, SlotInv, TypeOK
  <2>4. QED BY <1>1, <1>2, <2>1, <2>3, ReceiverGoesOn
<1>4. CASE ~g_is_thread_active[receiver[k].num]
  <2>1. receiver' = [receiver EXCEPT ![k].pc = "ended"]
    BY <1>1, <1>4 DEF Loops, SlotInv, TypeOK
  <2>2. [receiver[k] EXCEPT !.pc = "ended"].pc = "ended"
    BY DEF SlotInv, TypeOK, ThreadState
  <2>3. GivesUp(k, [receiver[k] EXCEPT !.pc = "ended"])
    BY <1>1, <1>2, <1>4, GivesItsSlotUp DEF SlotInv, TypeOK
  <2>4. Closes(k, [receiver[k] EXCEPT !.pc = "ended"])
    BY <1>1, <2>2 DEF Closes
  <2>5. QED BY <1>1, <1>2, <2>1, <2>3, <2>4, ReceiverGoesOn
<1>5. QED BY <1>3, <1>4

LEMMA RequestKeeps ==
  ASSUME SlotInv, NEW k \in Connection, ReceiveRequest(k) \/ PostAnswer(k)
  PROVE  SlotInv'
<1>1. PICK pc \in {"loop", "post"} :
        /\ receiver' = [receiver EXCEPT ![k].pc = pc] /\ receiver[k].pc \in {"recv", "post"}
        /\ UNCHANGED <<acceptor, g_client_socket, g_is_thread_active, peer, sender, closed>>
  BY DEF ReceiveRequest, PostAnswer, slots, clients
<1>2. Began(receiver[k]) /\ receiver[k].pc # "ended"
  BY <1>1 DEF Began
<1>3. [receiver[k] EXCEPT !.pc = pc].pc = pc
  BY DEF SlotInv, TypeOK, ThreadState
<1>4. GivesUp(k, [receiver[k] EXCEPT !.pc = pc]) /\ Closes(k, [receiver[k] EXCEPT !.pc = pc])
  BY <1>1, <1>3 DEF GivesUp, Closes, SlotInv, TypeOK
<1>5. QED BY <1>1, <1>2, <1>4, ReceiverGoesOn

LEMMA ReceiveEndKeeps ==
  ASSUME SlotInv, NEW k \in Connection, ReceiveEnd(k)
  PROVE  SlotInv'
<1> DEFINE c == receiver[k].num
<1>1. /\ receiver[k].pc = "recv" /\ peer[receiver[k].socket] = "left"
      /\ ~Dead(receiver[k].socket)
      /\ g_is_thread_active' = [g_is_thread_active EXCEPT ![c] = FALSE]
      /\ receiver' = [receiver EXCEPT ![k].pc = "close"]
      /\ UNCHANGED <<acceptor, g_client_socket, peer, sender, closed>>
  BY DEF ReceiveEnd, free_slot, clients
<1>2. /\ Began(receiver[k]) /\ receiver[k].pc # "ended"
      /\ c \in Slot /\ receiver[k].socket \in Connection
  BY <1>1 DEF Began, Dead, SlotInv, TypeOK, ThreadState
<1>3. /\ g_is_thread_active' \in [Slot -> BOOLEAN] /\ ~g_is_thread_active'[c]
      /\ \A d \in Slot : g_is_thread_active'[d] => g_is_thread_active[d]
  BY <1>1, <1>2 DEF SlotInv, TypeOK
<1>4. GivesUp(k, [receiver[k] EXCEPT !.pc = "close"])
  <2>1. AnyoneLeft
    BY <1>1, <1>2 DEF AnyoneLeft
  <2>2. QED BY <1>2, <1>3, <2>1, GivesItsSlotUp
<1>5. Closes(k, [receiver[k] EXCEPT !.pc = "close"])
  <2>1. [receiver[k] EXCEPT !.pc = "close"].socket = receiver[k].socket
    BY DEF SlotInv, TypeOK, ThreadState
  <2>2. QED BY <1>1, <1>2, <2>1 DEF Closes
<1>6. QED BY <1>1, <1>2, <1>4, <1>5, ReceiverGoesOn

LEMMA ReceiveFailsKeeps ==
  ASSUME SlotInv, NEW k \in Connection, ReceiveFails(k)
  PROVE  SlotInv'
<1>1. /\ receiver[k].pc = "recv" /\ Dead(receiver[k].socket)
      /\ receiver' = [receiver EXCEPT ![k].pc = "ended"]
      /\ UNCHANGED <<acceptor, g_client_socket, g_is_thread_active, peer, sender, closed>>
  BY DEF ReceiveFails, slots, clients
<1>2. Began(receiver[k]) /\ receiver[k].pc # "ended"
  BY <1>1 DEF Began
<1>3. AnyoneMisled \/ AnyoneBroken
  <2>1. CASE receiver[k].socket = k /\ k \in closed
    BY <1>2, <2>1 DEF SlotInv, Closing
  <2>2. CASE receiver[k].socket = k /\ k \notin closed
    BY <1>1, <2>2 DEF Dead, AnyoneBroken, Connection, NoSocket
  <2>3. CASE receiver[k].socket # k
    BY <1>2, <2>3 DEF AnyoneMisled, Misled, Began
  <2>4. QED BY <2>1, <2>2, <2>3
<1>4. [receiver[k] EXCEPT !.pc = "ended"].pc = "ended"
  BY DEF SlotInv, TypeOK, ThreadState
<1>5. /\ GivesUp(k, [receiver[k] EXCEPT !.pc = "ended"])
      /\ Closes(k, [receiver[k] EXCEPT !.pc = "ended"])
  BY <1>1, <1>3, <1>4 DEF GivesUp, Closes, SlotInv, TypeOK
<1>6. QED BY <1>1, <1>2, <1>5, ReceiverGoesOn

LEMMA CloseSocketKeeps ==
  ASSUME SlotInv, NEW k \in Connection, CloseSocket(k)
  PROVE  SlotInv'
<1> DEFINE thread == [receiver[k] EXCEPT !.pc = "ended"]
<1>1. /\ receiver[k].pc = "close" /\ closed' = closed \cup {receiver[k].socket}
      /\ receiver' = [receiver EXCEPT ![k].pc = "ended"]
      /\ UNCHANGED <<acceptor, g_client_socket, g_is_thread_active, peer, sender>>
  BY DEF CloseSocket, socket_to_close, slots, clients
<1>2. /\ Began(receiver[k]) /\ receiver[k].pc # "ended"
      /\ receiver[k].socket \in Connection /\ peer[receiver[k].socket] = "left"
  BY <1>1 DEF Began, SlotInv, Closing
<1>3. thread.pc = "ended" /\ thread.socket = receiver[k].socket
  BY DEF SlotInv, TypeOK, ThreadState
<1>4. \A c \in Slot : g_client_socket[c] = k /\ g_is_thread_active[c] =>
        AnyoneMisled \/ AnyoneBroken \/ Storing(c)
  BY <1>1 DEF SlotInv, GivenBack
<1>5. GivesUp(k, thread) /\ Closes(k, thread)
  BY <1>1, <1>2, <1>3, <1>4 DEF GivesUp, Closes, SlotInv, TypeOK
<1>6. QED BY <1>1, <1>2, <1>5, ReceiverGoesOn

LEMMA ReceiverStepKeeps ==
  ASSUME SlotInv, NEW k \in Connection, ReceiverStep(k)
  PROVE  SlotInv'
BY ReceiverStartsKeeps, ReceiverLoopsKeeps, RequestKeeps, ReceiveEndKeeps, ReceiveFailsKeeps,
   CloseSocketKeeps DEF ReceiverStep
-----------------------------------------------------------------------------
(* send_to_client_thread, and the clients.                                 *)

LEMMA SenderStepKeeps ==
  ASSUME SlotInv, NEW k \in Connection, SenderStep(k)
  PROVE  SlotInv'
<1>1. UNCHANGED <<g_is_thread_active, g_client_socket, accept_pc, client_ind, i, accepted, peer,
                  receiver, closed>>
  BY DEF SenderStep, SenderStarts, SenderLoops, TakePermit, SendAnswer, SenderFails, slots,
         acceptor, clients
<1>2. PICK thread \in ThreadState :
        /\ sender' = [sender EXCEPT ![k] = thread]
        /\ sender[k].pc # "none"
        /\ Began(sender[k]) => Began(thread) /\ thread.socket = sender[k].socket
  <2>1. CASE SenderStarts(k)
    <3>1. sender' = [sender EXCEPT ![k] = started(sender[k])] /\ Starting(sender[k])
      BY <2>1 DEF SenderStarts
    <3>2. started(sender[k]) \in ThreadState
      <4>1. CASE sender[k].pc = "start"
        BY <4>1 DEF started, SlotInv, TypeOK, ThreadState
      <4>2. CASE sender[k].pc = "socket"
        BY <4>2 DEF started, SlotInv, TypeOK, ThreadState
      <4>3. QED BY <3>1, <4>1, <4>2 DEF Starting
    <3>3. sender[k].pc # "none" /\ ~Began(sender[k])
      BY <3>1 DEF Starting, Began
    <3>4. QED BY <3>1, <3>2, <3>3
  <2>2. CASE SenderLoops(k) \/ TakePermit(k) \/ SendAnswer(k) \/ SenderFails(k)
    <3>1. sender[k].pc \in {"loop", "wait", "send"}
      BY <2>2 DEF SenderLoops, TakePermit, SendAnswer, SenderFails
    <3>2. PICK pc \in {"loop", "wait", "send", "ended"} :
            sender' = [sender EXCEPT ![k] = [sender[k] EXCEPT !.pc = pc]]
      BY <2>2 DEF SenderLoops, Loops, TakePermit, SendAnswer, SenderFails, SlotInv, TypeOK
    <3>3. /\ [sender[k] EXCEPT !.pc = pc] \in ThreadState
          /\ [sender[k] EXCEPT !.pc = pc].socket = sender[k].socket
          /\ Began([sender[k] EXCEPT !.pc = pc])
      BY DEF SlotInv, TypeOK, ThreadState, Began
    <3>4. QED BY <3>1, <3>2, <3>3
  <2>3. QED BY <2>1, <2>2 DEF SenderStep
<1>3. /\ sender' \in [Connection -> ThreadState] /\ sender'[k] = thread
      /\ \A j \in Connection \ {k} : sender'[j] = sender[j]
  BY <1>2 DEF SlotInv, TypeOK
<1>4. (AnyoneMisled => AnyoneMisled') /\ AnyoneBroken' = AnyoneBroken
  BY <1>1, <1>2, <1>3, BegunStaysMisled DEF SlotInv, TypeOK, AnyoneBroken
<1>5. TypeOK'
  BY <1>1, <1>3 DEF SlotInv, TypeOK
<1>6. Arrivals'
  BY <1>1, <1>2, <1>3 DEF SlotInv, Arrivals
<1>7. FreeSlots' = FreeSlots /\ Connected' = Connected
  BY <1>1 DEF FreeSlots, Connected
<1>8. Owners' /\ KnowsItsSlot' /\ GivenBack' /\ Closing' /\ CameToRoom' /\ Search'
  BY <1>1, <1>4, <1>7
     DEF SlotInv, Owners, KnowsItsSlot, GivenBack, Closing, CameToRoom, Search, Storing, AnyoneLeft
<1>9. QED BY <1>5, <1>6, <1>8 DEF SlotInv

LEMMA PeerStepKeeps ==
  ASSUME SlotInv, NEW k \in Connection, Leave(k) \/ Break(k)
  PROVE  SlotInv'
<1>1. /\ peer[k] = "up"
      /\ UNCHANGED <<g_is_thread_active, g_client_socket, accept_pc, client_ind, i, accepted,
                     receiver, sender, closed>>
  BY DEF Leave, Break, slots, acceptor
<1>2. PICK p \in {"left", "broken"} : peer' = [peer EXCEPT ![k] = p]
  BY DEF Leave, Break
<1>3. /\ peer' \in [Connection -> {"out", "up", "left", "broken"}]
      /\ peer'[k] = p /\ \A j \in Connection \ {k} : peer'[j] = peer[j]
  BY <1>2 DEF SlotInv, TypeOK
<1>4. AnyoneMisled' = AnyoneMisled /\ (AnyoneBroken => AnyoneBroken')
  BY <1>1, <1>3, ThreadsAlone DEF AnyoneBroken
<1>5. TypeOK'
  BY <1>1, <1>3 DEF SlotInv, TypeOK
<1>6. Arrivals' /\ Owners' /\ KnowsItsSlot'
  BY <1>1, <1>3 DEF SlotInv, Arrivals, Owners, KnowsItsSlot, Storing
<1>7. GivenBack' /\ Closing'
  BY <1>1, <1>3, <1>4 DEF SlotInv, TypeOK, GivenBack, Closing, Storing
<1>8. CameToRoom'
  <2>1. FreeSlots' = FreeSlots
    BY <1>1 DEF FreeSlots
  <2>2. /\ Connected' \ {accepted} \subseteq Connected \ {accepted}
        /\ Connected \ {accepted} \subseteq Connection
    BY <1>1, <1>3 DEF Connected
  <2>3. /\ Cardinality(Connected' \ {accepted}) \in Nat /\ Cardinality(Connected \ {accepted}) \in Nat
        /\ Cardinality(Connected' \ {accepted}) <= Cardinality(Connected \ {accepted})
    BY <2>2, ConnectionsFinite, FS_Subset, FS_CardinalityType
  <2>4. MAX_NUM_CLIENTS \in Nat
    BY AcceptorAssumption DEF AcceptorAssumption
  <2>5. QED BY <1>1, <1>4, <2>1, <2>3, <2>4 DEF SlotInv, CameToRoom
<1>9. Search'
  <2>1. (AnyoneLeft => AnyoneLeft') /\ FreeSlots' = FreeSlots
    BY <1>1, <1>3 DEF AnyoneLeft, FreeSlots
  <2>2. QED BY <1>1, <2>1 DEF SlotInv, Search
<1>10. QED BY <1>5, <1>6, <1>7, <1>8, <1>9 DEF SlotInv

LEMMA StutterKeeps == ASSUME SlotInv, UNCHANGED vars PROVE SlotInv'
<1>1. /\ UNCHANGED <<g_is_thread_active, g_client_socket, accept_pc, client_ind, i, accepted, peer,
                     receiver, sender, closed>>
  BY DEF vars, slots, acceptor, clients
<1>2. /\ AnyoneMisled' = AnyoneMisled /\ AnyoneBroken' = AnyoneBroken
      /\ FreeSlots' = FreeSlots /\ Connected' = Connected
  BY <1>1, ThreadsAlone DEF AnyoneBroken, FreeSlots, Connected
<1>3. QED
  BY <1>1, <1>2 DEF SlotInv, TypeOK, Arrivals, Owners, KnowsItsSlot, GivenBack, Closing,
                    CameToRoom, Search, Storing, AnyoneLeft

LEMMA NextSlots == SlotInv /\ [Next]_vars => SlotInv'
<1> SUFFICES ASSUME SlotInv, [Next]_vars PROVE SlotInv'
  OBVIOUS
<1>1. CASE socket_thread
  BY <1>1, LookAtSlotKeeps, TakeSlotKeeps, StoreSocketKeeps, CreateSenderKeeps,
     CreateReceiverKeeps DEF socket_thread
<1>2. QED
  BY <1>1, ComesKeeps, ReceiverStepKeeps, SenderStepKeeps, PeerStepKeeps, StutterKeeps DEF Next
-----------------------------------------------------------------------------
(* The sockets in the slots are of different clients, each older than the  *)
(* one that is given a slot, and the slot of a client whose receiving      *)
(* thread is done is free.                                                 *)
THEOREM SlotInvariant == Spec => []SlotInv
<1>1. SlotInv /\ [Next]_vars => SlotInv'
  BY NextSlots
<1>2. QED BY <1>1, InitSlots, PTL DEF Spec

(* Where every slot is in use, each is of a client of its own that came    *)
(* before: these are as many as there are slots, and more than are there.  *)
LEMMA FullOfOthers ==
  ASSUME SlotInv, accept_pc \in {"look", "take"}, FreeSlots = {},
         \A c \in Slot : g_client_socket[c] \in Connection => peer[g_client_socket[c]] = "up"
  PROVE  ~(Cardinality(Connected \ {accepted}) < MAX_NUM_CLIENTS)
<1> DEFINE owners == {g_client_socket[c] : c \in Slot}
<1>1. \A c \in Slot : g_client_socket[c] \in Connected \ {accepted}
  <2>1. \A c \in Slot : g_is_thread_active[c] /\ ~Storing(c)
    BY DEF FreeSlots, Storing
  <2>2. QED BY <2>1 DEF SlotInv, TypeOK, Owners, Connected
<1>2. owners \subseteq Connected \ {accepted} /\ IsFiniteSet(Connected \ {accepted})
  BY <1>1, ConnectionsFinite DEF Connected
<1>3. \A c, d \in Slot : g_client_socket[c] = g_client_socket[d] => c = d
  <2>1. \A c \in Slot : g_client_socket[c] # NoSocket
    BY <1>1 DEF Connected, Connection, NoSocket
  <2>2. QED BY <2>1 DEF SlotInv, Owners
<1>4. Cardinality(owners) = MAX_NUM_CLIENTS
  <2>1. ExistsBijection(Slot, owners)
    <3>1. g_client_socket \in [Slot -> owners]
      BY DEF SlotInv, TypeOK
    <3>2. g_client_socket \in Injection(Slot, owners)
      BY <1>3, <3>1 DEF Injection, IsInjective
    <3>3. g_client_socket \in Surjection(Slot, owners)
      BY <3>1 DEF Surjection
    <3>4. QED BY <3>2, <3>3 DEF Bijection, ExistsBijection
  <2>2. QED BY <2>1, SlotsFinite, FS_Bijection
<1>5. /\ Cardinality(owners) <= Cardinality(Connected \ {accepted})
      /\ Cardinality(Connected \ {accepted}) \in Nat
  BY <1>2, FS_Subset, FS_CardinalityType
<1>6. QED BY <1>4, <1>5, AcceptorAssumption DEF AcceptorAssumption

(* A client that comes while there are no more clients than slots finds a  *)
(* free one, but for the listed ends and late threads: there is one when   *)
(* it comes, and the search finds it.                                      *)
THEOREM RoomForEveryoneHolds == Spec => []RoomForEveryone
<1>1. ASSUME SlotInv, accept_pc \in {"look", "take"}, FreeSlots = {}
      PROVE  \/ AnyoneMisled \/ AnyoneBroken
             \/ \E k \in Connection :
                  peer[k] = "left" /\ receiver[k].pc \notin {"close", "ended"}
  <2> SUFFICES ASSUME ~AnyoneMisled, ~AnyoneBroken,
                      \A k \in Connection :
                        peer[k] = "left" => receiver[k].pc \in {"close", "ended"}
               PROVE  FALSE
    OBVIOUS
  <2>1. Cardinality(Connected \ {accepted}) < MAX_NUM_CLIENTS
    BY <1>1 DEF SlotInv, CameToRoom
  <2>2. ASSUME NEW c \in Slot, g_client_socket[c] \in Connection
        PROVE  peer[g_client_socket[c]] = "up"
    <3>1. g_is_thread_active[c] /\ ~Storing(c)
      BY <1>1 DEF FreeSlots, Storing
    <3>2. receiver[g_client_socket[c]].pc \notin {"close", "ended"}
      BY <1>1, <2>2, <3>1 DEF SlotInv, GivenBack
    <3>3. peer[g_client_socket[c]] \in {"up", "left", "broken"}
      BY <1>1, <2>2 DEF SlotInv, TypeOK, Arrivals, Owners
    <3>4. QED BY <2>2, <3>2, <3>3 DEF AnyoneBroken
  <2>3. QED BY <1>1, <2>1, <2>2, FullOfOthers
<1>2. ASSUME SlotInv, accept_pc = "take", g_is_thread_active[client_ind]
      PROVE  AnyoneMisled \/ AnyoneBroken \/ AnyoneLeft
  BY <1>1, <1>2 DEF SlotInv, Search, AnyoneLeft
<1>3. SlotInv => RoomForEveryone
  BY <1>1, <1>2 DEF RoomForEveryone, AnyoneBroken, AnyoneLeft
<1>4. QED BY <1>3, SlotInvariant, PTL

(* Only sockets of clients who left are closed, and, unless a thread was   *)
(* late, each of them once.                                                *)
THEOREM ClosesOnlyItsOwnHolds == Spec => []ClosesOnlyItsOwn
<1>1. SlotInv => ClosesOnlyItsOwn
  <2> SUFFICES ASSUME SlotInv PROVE ClosesOnlyItsOwn
    OBVIOUS
  <2>1. \A k \in closed : peer[k] # "up"
    BY DEF SlotInv, Closing
  <2>2. ASSUME ~AnyoneMisled, NEW k \in Connection, receiver[k].pc = "close"
        PROVE  receiver[k].socket \notin closed
    <3>1. receiver[k].socket = k
      BY <2>2 DEF AnyoneMisled, Misled
    <3>2. QED BY <2>2, <3>1 DEF SlotInv, Closing
  <2>3. QED BY <2>1, <2>2 DEF ClosesOnlyItsOwn
<1>2. QED BY <1>1, SlotInvariant, PTL
=============================================================================
