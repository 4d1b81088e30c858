------------------------------ MODULE SendQueue ------------------------------
(***************************************************************************)
(* The way of a message to one client in the server of Ex4: any receiving  *)
(* thread appends it to the client's list under a mutex and releases a     *)
(* semaphore; the client's sending thread takes a permit, then the mutex,  *)
(* sends the first message and removes it, all while it holds the mutex.   *)
(* One of the writers is the client's own receiving thread, which ends     *)
(* when the connection does.                                               *)
(***************************************************************************)
EXTENDS Integers, Sequences, FiniteSets

CONSTANTS
  Writer,               \* threads that post messages to this client
  Own,                  \* the one that receives from this client
  MAX_MESSAGES_IN_BUF,  \* the maximum of the semaphore
  MaxPosts,             \* bound: messages posted
  MaxFailures           \* bound: allocations that fail

ASSUME SendQueueAssumption ==
  /\ Own \in Writer
  /\ MAX_MESSAGES_IN_BUF \in Nat \ {0} /\ MaxPosts \in Nat /\ MaxFailures \in Nat

Sender == "send_to_client_thread"
ASSUME SenderAssumption == Writer \cap {Sender, "free", "abandoned"} = {}

Message == 1 .. MaxPosts      \* the n-th call of send_message_to_client

VARIABLES
  gp_massage_to_send_hade,    \* the list
  g_send_semapore,            \* its permits
  g_hads_mutex,               \* who owns the list
  kept,                       \* the owner returned without releasing it
  g_is_thread_active,
  send_pc,                    \* where the sender is
  write_pc, message,          \* where each writer is, and with which message
  link,                       \* the connection: up or cut
  posts, failures,            \* calls and failed allocations so far
  unsignalled,                \* appended without a permit: the semaphore was full
  sent                        \* what went out

lock == <<g_hads_mutex, kept>>
writers == <<write_pc, message, posts, failures, unsignalled>>
vars == <<gp_massage_to_send_hade, g_send_semapore, lock, g_is_thread_active, send_pc,
          writers, link, sent>>

Init ==
  /\ gp_massage_to_send_hade = <<>>
  /\ g_send_semapore = 0
  /\ g_hads_mutex = "free"
  /\ kept = FALSE
  /\ g_is_thread_active = TRUE
  /\ send_pc = "check"
  /\ write_pc = [w \in Writer |-> "idle"]
  /\ message = [w \in Writer |-> 0]
  /\ link = "up"
  /\ posts = 0 /\ failures = 0 /\ unsignalled = 0
  /\ sent = <<>>
-----------------------------------------------------------------------------
(* The mutex: a thread that owns it may take it again; a thread that ends  *)
(* with it abandons it, and the next one to wait for it owns it but is     *)
(* told so.                                                                *)
mutex_free_for(t) == g_hads_mutex = "free" \/ g_hads_mutex = t

Acquire(t) == mutex_free_for(t) /\ g_hads_mutex' = t /\ UNCHANGED kept

(* Variant: the mutex is never given back.                                 *)
ReleaseMutex_Forgotten == UNCHANGED lock
ReleaseMutex == g_hads_mutex' = (IF kept THEN g_hads_mutex ELSE "free") /\ UNCHANGED kept

EndsWith(t) ==
  IF g_hads_mutex = t THEN g_hads_mutex' = "abandoned" /\ kept' = FALSE ELSE UNCHANGED lock
-----------------------------------------------------------------------------
(* send_message_to_client, by a writer                                     *)

CallSend(w) ==
  /\ write_pc[w] = "idle" /\ posts < MaxPosts
  /\ posts' = posts + 1
  /\ message' = [message EXCEPT ![w] = posts + 1]
  /\ write_pc' = [write_pc EXCEPT ![w] = "lock"]
  /\ UNCHANGED <<gp_massage_to_send_hade, g_send_semapore, lock, g_is_thread_active, send_pc,
                 link, failures, unsignalled, sent>>

(* Variant: the list is changed without waiting for the mutex.             *)
LockList_NoWait(w) == UNCHANGED lock
LockList(w) == Acquire(w)

WriterLocks(w) ==
  /\ write_pc[w] = "lock"
  /\ LockList(w)
  /\ write_pc' = [write_pc EXCEPT ![w] = "append"]
  /\ UNCHANGED <<gp_massage_to_send_hade, g_send_semapore, g_is_thread_active, send_pc,
                 message, link, posts, failures, unsignalled, sent>>

(* An abandoned mutex counts as an error: the writer returns and keeps it. *)
WriterFindsAbandoned(w) ==
  /\ write_pc[w] = "lock" /\ g_hads_mutex = "abandoned"
  /\ g_hads_mutex' = w /\ kept' = TRUE
  /\ write_pc' = [write_pc EXCEPT ![w] = "idle"]
  /\ message' = [message EXCEPT ![w] = 0]
  /\ UNCHANGED <<gp_massage_to_send_hade, g_send_semapore, g_is_thread_active, send_pc,
                 link, posts, failures, unsignalled, sent>>

(* add_message_to_cell_arr; on a failed allocation it returns NULL, and    *)
(* the caller stores that as the new list.                                 *)
(* Variant: the new cell is put in front.                                  *)
add_message_to_cell_arr_Front(p_message, p_cell_head) == <<p_message>> \o p_cell_head
add_message_to_cell_arr(p_message, p_cell_head) == Append(p_cell_head, p_message)

WriterAppends(w) ==
  /\ write_pc[w] = "append"
  /\ \/ /\ gp_massage_to_send_hade' = add_message_to_cell_arr(message[w], gp_massage_to_send_hade)
        /\ UNCHANGED failures
     \/ /\ failures < MaxFailures
        /\ failures' = failures + 1
        /\ gp_massage_to_send_hade' = <<>>
  /\ ReleaseMutex
  /\ write_pc' = [write_pc EXCEPT ![w] = "signal"]
  /\ message' = [message EXCEPT ![w] = 0]
  /\ UNCHANGED <<g_send_semapore, g_is_thread_active, send_pc, link, posts, unsignalled, sent>>

(* Variant: the permit is only given to an empty list.                     *)
permits_added_WhenEmpty == IF g_send_semapore = 0 THEN 1 ELSE 0
permits_added == 1

(* ReleaseSemaphore fails at the maximum, and the message stays without a  *)
(* permit.                                                                 *)
WriterSignals(w) ==
  /\ write_pc[w] = "signal"
  /\ IF g_send_semapore < MAX_MESSAGES_IN_BUF
     THEN g_send_semapore' = g_send_semapore + permits_added /\ UNCHANGED unsignalled
     ELSE unsignalled' = unsignalled + 1 /\ UNCHANGED g_send_semapore
  /\ write_pc' = [write_pc EXCEPT ![w] = "idle"]
  /\ UNCHANGED <<gp_massage_to_send_hade, lock, g_is_thread_active, send_pc, message, link,
                 posts, failures, sent>>

(* The client's receiving thread sees the end of the connection: an        *)
(* orderly one frees the slot, a broken one does not.  The thread ends.    *)
OwnEnds ==
  /\ write_pc[Own] = "idle" /\ link = "cut"
  /\ write_pc' = [write_pc EXCEPT ![Own] = "ended"]
  /\ g_is_thread_active' \in BOOLEAN
  /\ EndsWith(Own)
  /\ UNCHANGED <<gp_massage_to_send_hade, g_send_semapore, send_pc, message, link, posts,
                 failures, unsignalled, sent>>
-----------------------------------------------------------------------------
(* send_to_client_thread                                                   *)

SenderLoops ==
  /\ send_pc = "check"
  /\ send_pc' = IF g_is_thread_active THEN "wait" ELSE "ended"
  /\ UNCHANGED <<gp_massage_to_send_hade, g_send_semapore, lock, g_is_thread_active, writers,
                 link, sent>>

SenderTakesPermit ==
  /\ send_pc = "wait" /\ g_send_semapore > 0
  /\ g_send_semapore' = g_send_semapore - 1
  /\ send_pc' = "lock"
  /\ UNCHANGED <<gp_massage_to_send_hade, lock, g_is_thread_active, writers, link, sent>>

SenderLocks ==
  /\ send_pc = "lock"
  /\ \/ Acquire(Sender) /\ send_pc' = "send"
     \/ /\ g_hads_mutex = "abandoned"       \* an error: it ends with the mutex
        /\ send_pc' = "ended"
        /\ UNCHANGED lock
  /\ UNCHANGED <<gp_massage_to_send_hade, g_send_semapore, g_is_thread_active, writers, link,
                 sent>>

(* SendString of the first message, without a crash when there is one.     *)
SenderSends ==
  /\ send_pc = "send" /\ gp_massage_to_send_hade # <<>>
  /\ sent' = Append(sent, Head(gp_massage_to_send_hade))
  /\ send_pc' = "remove"
  /\ UNCHANGED <<gp_massage_to_send_hade, g_send_semapore, lock, g_is_thread_active, writers,
                 link>>

(* It fails when the connection is gone: the thread ends with the mutex.   *)
SenderFails ==
  /\ send_pc = "send" /\ link = "cut"
  /\ send_pc' = "ended"
  /\ EndsWith(Sender)
  /\ UNCHANGED <<gp_massage_to_send_hade, g_send_semapore, g_is_thread_active, writers, link,
                 sent>>

(* The first cell is removed, the mutex released; a message that wants an  *)
(* answer makes the sender wait for it or for 15 seconds.                  *)
SenderRemoves ==
  /\ send_pc = "remove"
  /\ gp_massage_to_send_hade' = Tail(gp_massage_to_send_hade)
  /\ ReleaseMutex
  /\ send_pc' \in {"check", "respond"}
  /\ UNCHANGED <<g_send_semapore, g_is_thread_active, writers, link, sent>>

SenderGoesOn ==
  /\ send_pc = "respond"
  /\ send_pc' = "check"
  /\ UNCHANGED <<gp_massage_to_send_hade, g_send_semapore, lock, g_is_thread_active, writers,
                 link, sent>>
-----------------------------------------------------------------------------
Cut ==
  /\ link = "up" /\ link' = "cut"
  /\ UNCHANGED <<gp_massage_to_send_hade, g_send_semapore, lock, g_is_thread_active, send_pc,
                 writers, sent>>

WriterStep(w) ==
  WriterLocks(w) \/ WriterFindsAbandoned(w) \/ WriterAppends(w) \/ WriterSignals(w)
SenderStep ==
  SenderLoops \/ SenderTakesPermit \/ SenderLocks \/ SenderSends \/ SenderFails
    \/ SenderRemoves \/ SenderGoesOn

Next == (\E w \in Writer : CallSend(w) \/ WriterStep(w)) \/ OwnEnds \/ SenderStep \/ Cut

Spec == Init /\ [][Next]_vars
-----------------------------------------------------------------------------
(* The shapes of the state, and the semaphore's range.                     *)
TypeOK ==
  /\ gp_massage_to_send_hade \in Seq(Message)
  /\ g_send_semapore \in 0 .. MAX_MESSAGES_IN_BUF
  /\ g_hads_mutex \in {"free", "abandoned", Sender} \cup Writer
  /\ kept \in BOOLEAN /\ g_is_thread_active \in BOOLEAN
  /\ send_pc \in {"check", "wait", "lock", "send", "remove", "respond", "ended"}
  /\ write_pc \in [Writer -> {"idle", "lock", "append", "signal", "ended"}]
  /\ message \in [Writer -> Message \cup {0}]
  /\ link \in {"up", "cut"}
  /\ posts \in Nat /\ failures \in Nat /\ unsignalled \in Nat
  /\ sent \in Seq(Message)

(* The list is touched by one thread at a time.                            *)
OneThreadInList ==
  /\ \A w \in Writer : write_pc[w] = "append" =>
       send_pc \notin {"send", "remove"} /\ \A v \in Writer \ {w} : write_pc[v] # "append"

(* Every message in the list has its permit, in the semaphore, about to be *)
(* given, or in the hand of the sender, but for those whose                *)
(* ReleaseSemaphore failed: while the sender lives, and no allocation      *)
(* failed, none is left behind for another reason, and the sender never    *)
(* takes the head of an empty list, which it would do without a look (line *)
(* 299 of the server).                                                     *)
PermitPerMessage ==
  failures = 0 /\ send_pc # "ended" => Len(gp_massage_to_send_hade) =
    g_send_semapore + unsignalled + Cardinality({w \in Writer : write_pc[w] = "signal"})
      + (IF send_pc \in {"lock", "send", "remove"} THEN 1 ELSE 0)

(* Messages reach the wire in the order in which they were appended, none  *)
(* twice and none skipped; a failed allocation loses the whole list.       *)
Box == INSTANCE Mailbox WITH
  box <- IF send_pc = "remove" THEN Tail(gp_massage_to_send_hade) ELSE gp_massage_to_send_hade,
  losses <- failures
InOrderOnce == Box!Spec
=============================================================================
