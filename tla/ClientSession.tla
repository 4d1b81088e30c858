---------------------------- MODULE ClientSession ----------------------------
(***************************************************************************)
(* The client of Ex4: main, which reads what the server said and asks the  *)
(* user, a thread that sends and a thread that receives; their two lists   *)
(* under one mutex, two semaphores that count what is in the lists, an     *)
(* event that tells of an answer, and the ways in which all that is taken  *)
(* down.  A thread owns the mutex for one step only, but it may be         *)
(* terminated in that step.  Allocations, logs and closing handles do not  *)
(* fail here.                                                              *)
(***************************************************************************)
EXTENDS Integers, Sequences

CONSTANTS
  MAX_MESSAGES_IN_BUF,  \* the maximum of both semaphores
  MaxMessages,          \* bound: messages of the server on a connection
  MaxSessions,          \* bound: connections
  MaxRetries,           \* bound: attempts to connect that fail
  ServerEndings,        \* how the server may end a connection: "FIN", "RST"
  ThreadsMayFail        \* whether CreateThread may fail

ASSUME ClientSessionAssumption ==
  /\ MAX_MESSAGES_IN_BUF \in Nat \ {0}
  /\ MaxMessages \in Nat /\ MaxSessions \in Nat /\ MaxRetries \in Nat
  /\ ServerEndings \subseteq {"FIN", "RST"} /\ ThreadsMayFail \in BOOLEAN

REC_THREAD == 0
SEND_THREAD == 1

(* What the server says: two questions, a refusal, and all that is only    *)
(* shown; an unknown type is taken for SERVER_APPROVED, and shown.         *)
Question == {"SERVER_MAIN_MENU", "SERVER_MOVE_REQUEST"}
Message == Question \cup {"SERVER_DENIED", "shown"}

VARIABLES
  pc,                          \* of "main", "sender" and "receiver"
  g_socket_thread,             \* which thread each handle is of
  g_is_thread_avilibale,
  g_main_socket,               \* "none", "open", or "shut" for sending
  to_client, to_server,        \* the connection: on its way, and all that was said
  gp_recived_massge_hade, gp_massage_to_send_hade,   \* the lists
  g_rcev_semapore, g_send_semapore,                  \* their permits
  g_hads_mutex,                \* "free", its owner, or "abandoned"
  g_wait_for_server_event,
  has_sync,                    \* the four objects above exist
  is_trans_failed, g_start_graceful_shutdown,
  accepted,                    \* what the receiver has just received
  massage,                     \* the message main is dealing with
  posting,                     \* the answer main sends
  to_release,                  \* what release_source has still to do
  session, retries, said       \* connections, failed attempts, messages

threads == <<g_socket_thread, g_is_thread_avilibale>>
link == <<g_main_socket, to_client, to_server>>
lists == <<gp_recived_massge_hade, gp_massage_to_send_hade>>
permits == <<g_rcev_semapore, g_send_semapore>>
sync == <<permits, g_hads_mutex, g_wait_for_server_event, has_sync>>
flags == <<is_trans_failed, g_start_graceful_shutdown>>
main == <<massage, posting, to_release, session, retries>>
vars == <<pc, threads, link, lists, sync, flags, accepted, main, said>>

(* init_sync_objects has succeeded.                                        *)
Init ==
  /\ pc = [t \in {"main", "sender", "receiver"} |-> IF t = "main" THEN "connect" ELSE "off"]
  /\ g_socket_thread = [i \in {REC_THREAD, SEND_THREAD} |-> "none"]
  /\ g_is_thread_avilibale = [i \in {REC_THREAD, SEND_THREAD} |-> FALSE]
  /\ g_main_socket = "none" /\ to_client = <<>> /\ to_server = <<>>
  /\ gp_recived_massge_hade = <<>> /\ gp_massage_to_send_hade = <<>>
  /\ g_rcev_semapore = 0 /\ g_send_semapore = 0
  /\ g_hads_mutex = "free" /\ g_wait_for_server_event = FALSE /\ has_sync = TRUE
  /\ is_trans_failed = FALSE /\ g_start_graceful_shutdown = FALSE
  /\ accepted = "none" /\ massage = "none" /\ posting = "none" /\ to_release = <<>>
  /\ session = 0 /\ retries = 0 /\ said = 0
-----------------------------------------------------------------------------
Goes(t, from, to) == pc[t] = from /\ pc' = [pc EXCEPT ![t] = to]
Over == {"off", "ended", "failed", "killed"}
Active(t) == pc[t] \notin Over

Owns(t) == g_hads_mutex \in {"free", t}
Ended(t) == g_hads_mutex' = (IF g_hads_mutex = t THEN "abandoned" ELSE g_hads_mutex)

(* Whatever main finds, it releases what it has, in the order of the cases *)
(* of release_source and of the functions they call.                       *)
relase_link_list == <<"list">>
(* Variant: the second thread is left alone.                               *)
close_client_threads_First == <<"wake", "first">>
close_client_threads == <<"wake", "first", "second">>
release_source(stage) ==
  CASE stage = "RELEASE_SOCKET" -> <<"socket", "sync">>
    [] stage = "RELEASE_THREADS" -> close_client_threads \o <<"socket", "sync">>
    [] stage \in {"RELEASE_LINK_LIST", "RELEASE_ALL"} ->
         relase_link_list \o close_client_threads \o <<"socket", "sync">>
    [] stage = "DENIED_BY_SERVER" ->     \* falls through into AFTER_GRACEFUL
         relase_link_list \o close_client_threads \o <<"socket">>
           \o relase_link_list \o close_client_threads \o <<"sync">>

GivesUp(from, stage) ==
  Goes("main", from, "release") /\ to_release' = release_source(stage)
-----------------------------------------------------------------------------
(* connect_to_server and init_threads                                      *)

Connects ==
  /\ session < MaxSessions
  /\ Goes("main", "connect", "create_sender")
  /\ session' = session + 1
  /\ g_main_socket' = "open" /\ to_client' = <<>> /\ to_server' = <<>> /\ said' = 0
  /\ massage' = "none" /\ posting' = "none"
  /\ UNCHANGED <<threads, lists, sync, flags, accepted, to_release, retries>>

(* The user tries again or exits.                                          *)
CannotConnect ==
  /\ retries < MaxRetries /\ retries' = retries + 1
  /\ \/ pc["main"] = "connect" /\ UNCHANGED <<pc, to_release>>
     \/ GivesUp("connect", "RELEASE_SOCKET")
  /\ to_client' = <<>> /\ to_server' = <<>>
  /\ UNCHANGED <<threads, g_main_socket, lists, sync, flags, accepted, massage, posting, session,
                 said>>

(* The handle of the sender is stored as the receiver's, and the other way *)
(* around.                                                                 *)
init_threads(t) == IF t = "sender" THEN REC_THREAD ELSE SEND_THREAD

first_step(t) == IF t = "sender" THEN "wait" ELSE "recv"

CreatesThread(t, from, to) ==
  /\ pc["main"] = from
  /\ g_is_thread_avilibale' =
       [g_is_thread_avilibale EXCEPT ![IF t = "sender" THEN REC_THREAD ELSE SEND_THREAD] = TRUE]
  /\ \/ /\ pc' = [pc EXCEPT !["main"] = to, ![t] = first_step(t)]
        /\ g_socket_thread' = [g_socket_thread EXCEPT ![init_threads(t)] = t]
        /\ UNCHANGED to_release
     \/ /\ ThreadsMayFail
        /\ GivesUp(from, "RELEASE_THREADS")
        /\ UNCHANGED g_socket_thread
  /\ UNCHANGED <<link, lists, sync, flags, accepted, massage, session, retries, said>>

CreatesSender ==
  CreatesThread("sender", "create_sender", "create_receiver") /\ UNCHANGED posting
(* Then main sends the request.                                            *)
CreatesReceiver ==
  CreatesThread("receiver", "create_receiver", "post") /\ posting' = "CLIENT_REQUEST"
-----------------------------------------------------------------------------
(* send_message_to_server                                                  *)

(* Variant: the new cell is put in front.                                  *)
add_message_to_cell_arr_Front(p_message, p_cell_head) == <<p_message>> \o p_cell_head
add_message_to_cell_arr(p_message, p_cell_head) == Append(p_cell_head, p_message)

(* What a call that failed means: only the request must not fail.          *)
PostFails(from) ==
  IF posting = "CLIENT_REQUEST"
  THEN GivesUp(from, "RELEASE_LINK_LIST")
  ELSE /\ Goes("main", from, IF posting = "CLIENT_DISCONNECT" THEN "graceful" ELSE "await")
       /\ UNCHANGED to_release

Posts ==
  /\ has_sync /\ Owns("main")
  /\ Goes("main", "post", "permit")
  /\ gp_massage_to_send_hade' = add_message_to_cell_arr(posting, gp_massage_to_send_hade)
  /\ massage' = "none"
  /\ UNCHANGED <<threads, link, gp_recived_massge_hade, sync, flags, accepted, posting,
                 to_release, session, retries, said>>

(* The mutex is closed, or its owner has ended.                            *)
CannotPost ==
  /\ pc["main"] = "post" /\ (has_sync => g_hads_mutex = "abandoned")
  /\ PostFails("post")
  /\ g_hads_mutex' = (IF has_sync THEN "main" ELSE g_hads_mutex)
  /\ massage' = "none"
  /\ UNCHANGED <<threads, link, lists, permits, g_wait_for_server_event, has_sync, flags,
                 accepted, posting, session, retries, said>>

(* A semaphore at its maximum is only reported.                            *)
GivesPermit ==
  /\ Goes("main", "permit",
          IF posting = "CLIENT_DISCONNECT" THEN "graceful" ELSE "respond")
  /\ g_send_semapore' =
       (IF g_send_semapore < MAX_MESSAGES_IN_BUF THEN g_send_semapore + 1 ELSE g_send_semapore)
  /\ UNCHANGED <<threads, link, lists, g_rcev_semapore, g_hads_mutex, g_wait_for_server_event,
                 has_sync, flags, accepted, main, said>>

IsAnswered ==
  /\ g_wait_for_server_event
  /\ Goes("main", "respond", "await")
  /\ g_wait_for_server_event' = FALSE
  /\ UNCHANGED <<threads, link, lists, permits, g_hads_mutex, has_sync, flags, accepted, main,
                 said>>

WaitTimesOut ==
  /\ pc["main"] = "respond" /\ PostFails("respond")
  /\ UNCHANGED <<threads, link, lists, sync, flags, accepted, massage, posting, session,
                 retries, said>>
-----------------------------------------------------------------------------
(* client_response                                                         *)

TakesReceived ==
  /\ g_rcev_semapore > 0
  /\ Goes("main", "await", "flag")
  /\ g_rcev_semapore' = g_rcev_semapore - 1
  /\ UNCHANGED <<threads, link, lists, g_send_semapore, g_hads_mutex, g_wait_for_server_event,
                 has_sync, flags, accepted, main, said>>

ReadsFlag ==
  /\ IF is_trans_failed
     THEN GivesUp("flag", "RELEASE_ALL")
     ELSE Goes("main", "flag", "take") /\ UNCHANGED to_release
  /\ UNCHANGED <<threads, link, lists, sync, flags, accepted, massage, posting, session,
                 retries, said>>

(* Variant: the message stays in the list.                                 *)
rest_of_list_Kept(p_cell) == p_cell
rest_of_list(p_cell) == Tail(p_cell)

(* The head of the list is used without a look: an empty one is a crash.   *)
TakesMessage ==
  /\ pc["main"] = "take"
  /\ \/ /\ Owns("main") /\ gp_recived_massge_hade # <<>>
        /\ LET m == Head(gp_recived_massge_hade) IN
             IF m = "shown" THEN Goes("main", "take", "await") /\ UNCHANGED massage
                            ELSE Goes("main", "take", "choose") /\ massage' = m
        /\ gp_recived_massge_hade' = rest_of_list(gp_recived_massge_hade)
        /\ UNCHANGED <<g_hads_mutex, to_release>>
     \/ /\ Owns("main") /\ gp_recived_massge_hade = <<>>
        /\ Goes("main", "take", "crashed")
        /\ UNCHANGED <<gp_recived_massge_hade, g_hads_mutex, massage, to_release>>
     \/ /\ g_hads_mutex = "abandoned"
        /\ GivesUp("take", "RELEASE_ALL")
        /\ g_hads_mutex' = "main"
        /\ UNCHANGED <<gp_recived_massge_hade, massage>>
  /\ UNCHANGED <<threads, link, gp_massage_to_send_hade, permits, g_wait_for_server_event,
                 has_sync, flags, accepted, posting, session, retries, said>>

(* A question: the user plays, moves, or quits.                            *)
Answers ==
  /\ massage \in Question
  /\ posting' \in
       (IF massage = "SERVER_MAIN_MENU" THEN {"CLIENT_VERSUS", "CLIENT_DISCONNECT"}
        ELSE {"CLIENT_PLAYER_MOVE"})
  /\ Goes("main", "choose", "post")
  /\ UNCHANGED <<threads, link, lists, sync, flags, accepted, massage, to_release, session,
                 retries, said>>

(* A refusal: the user tries to reconnect or exits.                        *)
IsDenied ==
  /\ massage = "SERVER_DENIED"
  /\ \/ GivesUp("choose", "RELEASE_ALL")
     \/ /\ Goes("main", "choose", "reset")
        /\ to_release' = release_source("DENIED_BY_SERVER")
  /\ UNCHANGED <<threads, link, lists, sync, flags, accepted, massage, posting, session,
                 retries, said>>
-----------------------------------------------------------------------------
(* graceful_shutdown                                                       *)

StartsShutdown ==
  /\ pc["main"] = "graceful"
  /\ g_start_graceful_shutdown' = TRUE
  /\ IF g_send_semapore < MAX_MESSAGES_IN_BUF
     THEN /\ g_send_semapore' = g_send_semapore + 1
          /\ Goes("main", "graceful", "join") /\ UNCHANGED to_release
     ELSE GivesUp("graceful", "RELEASE_ALL") /\ UNCHANGED g_send_semapore
  /\ UNCHANGED <<threads, link, lists, g_rcev_semapore, g_hads_mutex, g_wait_for_server_event,
                 has_sync, is_trans_failed, accepted, massage, posting, session, retries, said>>

(* It waits for a thread to end, or for 30 seconds; then main releases all *)
(* either way.                                                             *)
Joins ==
  /\ GivesUp("join", "RELEASE_ALL")
  /\ UNCHANGED <<threads, link, lists, sync, flags, accepted, massage, posting, session,
                 retries, said>>
-----------------------------------------------------------------------------
(* release_source, one function after the other                            *)

Does(what) ==
  /\ pc["main"] \in {"release", "reset"}
  /\ to_release # <<>> /\ Head(to_release) = what
  /\ to_release' = Tail(to_release)

ReleasesLists ==
  /\ Does("list")
  /\ \/ ~has_sync /\ UNCHANGED <<lists, g_hads_mutex>>
     \/ /\ has_sync /\ Owns("main")
        /\ gp_recived_massge_hade' = <<>> /\ gp_massage_to_send_hade' = <<>>
        /\ UNCHANGED g_hads_mutex
     \/ /\ has_sync /\ g_hads_mutex = "abandoned"
        /\ g_hads_mutex' = "main" /\ UNCHANGED lists
  /\ UNCHANGED <<pc, threads, link, permits, g_wait_for_server_event, has_sync, flags,
                 accepted, massage, posting, session, retries, said>>

(* close_client_threads: a thread that is still active gets a permit for   *)
(* the sender and 15 milliseconds, and is then terminated.                 *)
WakesSender ==
  /\ Does("wake")
  /\ LET t == g_socket_thread[SEND_THREAD] IN
     IF t # "none" /\ Active(t)
     THEN /\ g_is_thread_avilibale' = [g_is_thread_avilibale EXCEPT ![SEND_THREAD] = FALSE]
          /\ g_send_semapore' =
               (IF has_sync /\ g_send_semapore < MAX_MESSAGES_IN_BUF
                THEN g_send_semapore + 1 ELSE g_send_semapore)
     ELSE UNCHANGED <<g_is_thread_avilibale, g_send_semapore>>
  /\ UNCHANGED <<pc, g_socket_thread, link, lists, g_rcev_semapore, g_hads_mutex,
                 g_wait_for_server_event, has_sync, flags, accepted, massage, posting, session,
                 retries, said>>

(* Variant: a thread that is still active is waited for.                   *)
end_thread_Waits(t) == (t # "none" => ~Active(t)) /\ UNCHANGED <<pc, g_hads_mutex>>
end_thread(t) ==
  IF t # "none" /\ Active(t) THEN pc' = [pc EXCEPT ![t] = "killed"] /\ Ended(t)
  ELSE UNCHANGED <<pc, g_hads_mutex>>

ClosesThread(what, ind) ==
  /\ Does(what)
  /\ end_thread(g_socket_thread[ind])
  /\ g_socket_thread' = [g_socket_thread EXCEPT ![ind] = "none"]
  /\ UNCHANGED <<g_is_thread_avilibale, link, lists, permits, g_wait_for_server_event, has_sync,
                 flags, accepted, massage, posting, session, retries, said>>

ClosesThreads == ClosesThread("first", SEND_THREAD) \/ ClosesThread("second", REC_THREAD)

ClosesSocket ==
  /\ Does("socket")
  /\ g_main_socket' = "none"
  /\ UNCHANGED <<pc, threads, to_client, to_server, lists, sync, flags, accepted, massage,
                 posting, session, retries, said>>

close_sync_object ==
  /\ Does("sync")
  /\ has_sync' = FALSE
  /\ g_rcev_semapore' = 0 /\ g_send_semapore' = 0
  /\ g_hads_mutex' = "free" /\ g_wait_for_server_event' = FALSE
  /\ UNCHANGED <<pc, threads, link, lists, flags, accepted, massage, posting, session, retries,
                 said>>

(* All is released: main returns, or goes on with its loop.                *)
Finishes ==
  /\ to_release = <<>>
  /\ Goes("main", "release", "ended") \/ Goes("main", "reset", "connect")
  /\ UNCHANGED <<threads, link, lists, sync, flags, accepted, main, said>>
-----------------------------------------------------------------------------
(* RecvDataThread                                                          *)

(* ReceiveString: it sets the event with the first byte of a message and   *)
(* with the end of the connection.                                         *)
Receives ==
  /\ pc["receiver"] = "recv"
  /\ \/ g_main_socket # "none" /\ to_client # <<>>
        /\ accepted' = Head(to_client)
        /\ to_client' = (IF Head(to_client) \in Message THEN Tail(to_client) ELSE to_client)
     \/ g_main_socket = "none" /\ accepted' = "RST" /\ UNCHANGED to_client
  /\ g_wait_for_server_event' = has_sync
  /\ pc' = [pc EXCEPT !["receiver"] =
       IF ~g_is_thread_avilibale[REC_THREAD] THEN "ended"
       ELSE IF accepted' = "RST" THEN "alarm" ELSE IF accepted' = "FIN" THEN "fin" ELSE "lock"]
  /\ UNCHANGED <<threads, g_main_socket, to_server, lists, permits, g_hads_mutex, has_sync,
                 flags, main, said>>

(* Variant: main is not woken.                                             *)
alarm_permits_None == 0
alarm_permits == 1

(* A failure wakes main first and tells it why afterwards; a semaphore     *)
(* that cannot be released ends the program.                               *)
ReleasesAlarm ==
  /\ IF has_sync /\ g_rcev_semapore < MAX_MESSAGES_IN_BUF
     THEN /\ Goes("receiver", "alarm", "raise")
          /\ g_rcev_semapore' = g_rcev_semapore + alarm_permits
     ELSE /\ pc["receiver"] = "alarm"
          /\ pc' = [pc EXCEPT !["receiver"] = "failed", !["main"] = "ended"]
          /\ UNCHANGED g_rcev_semapore
  /\ accepted' = "none"
  /\ UNCHANGED <<threads, link, lists, g_send_semapore, g_hads_mutex, g_wait_for_server_event,
                 has_sync, flags, main, said>>

RaisesFlag ==
  /\ Goes("receiver", "raise", "failed")
  /\ is_trans_failed' = TRUE
  /\ UNCHANGED <<threads, link, lists, sync, g_start_graceful_shutdown, accepted, main, said>>

(* The server has closed: main is not told.                                *)
ReceivesFin ==
  /\ Goes("receiver", "fin", "close")
  /\ accepted' = "none"
  /\ IF g_start_graceful_shutdown THEN UNCHANGED <<g_is_thread_avilibale, g_main_socket>>
     ELSE /\ g_is_thread_avilibale' = [g_is_thread_avilibale EXCEPT ![REC_THREAD] = FALSE]
          /\ g_main_socket' = (IF g_main_socket = "open" THEN "shut" ELSE g_main_socket)
  /\ UNCHANGED <<g_socket_thread, to_client, to_server, lists, sync, flags, main, said>>

ReceiverCloses ==
  /\ Goes("receiver", "close", "quit")
  /\ g_main_socket' = "none"
  /\ UNCHANGED <<threads, to_client, to_server, lists, sync, flags, accepted, main, said>>

ReceiverQuits ==
  /\ Goes("receiver", "quit", "ended")
  /\ g_is_thread_avilibale' = [g_is_thread_avilibale EXCEPT ![SEND_THREAD] = FALSE]
  /\ UNCHANGED <<g_socket_thread, link, lists, sync, flags, accepted, main, said>>

ReceiverLocks ==
  /\ pc["receiver"] = "lock"
  /\ \/ /\ has_sync /\ g_hads_mutex = "free"
        /\ Goes("receiver", "lock", "append") /\ g_hads_mutex' = "receiver"
        /\ UNCHANGED accepted
     \/ /\ has_sync => g_hads_mutex = "abandoned"
        /\ Goes("receiver", "lock", "failed") /\ UNCHANGED g_hads_mutex
        /\ accepted' = "none"
  /\ UNCHANGED <<threads, link, lists, permits, g_wait_for_server_event, has_sync, flags, main,
                 said>>

ReceiverAppends ==
  /\ Goes("receiver", "append", "signal")
  /\ gp_recived_massge_hade' = add_message_to_cell_arr(accepted, gp_recived_massge_hade)
  /\ g_hads_mutex' = "free"
  /\ accepted' = "none"
  /\ UNCHANGED <<threads, link, gp_massage_to_send_hade, permits, g_wait_for_server_event,
                 has_sync, flags, main, said>>

(* A full semaphore ends the thread.                                       *)
ReceiverSignals ==
  /\ IF g_rcev_semapore < MAX_MESSAGES_IN_BUF
     THEN Goes("receiver", "signal", "recv") /\ g_rcev_semapore' = g_rcev_semapore + 1
     ELSE Goes("receiver", "signal", "failed") /\ UNCHANGED g_rcev_semapore
  /\ UNCHANGED <<threads, link, lists, g_send_semapore, g_hads_mutex, g_wait_for_server_event,
                 has_sync, flags, accepted, main, said>>
-----------------------------------------------------------------------------
(* SendDataThread                                                          *)

SenderTakesPermit ==
  /\ IF has_sync
     THEN /\ g_send_semapore > 0 /\ g_send_semapore' = g_send_semapore - 1
          /\ Goes("sender", "wait", "check")
     ELSE Goes("sender", "wait", "failed") /\ UNCHANGED g_send_semapore
  /\ UNCHANGED <<threads, link, lists, g_rcev_semapore, g_hads_mutex, g_wait_for_server_event,
                 has_sync, flags, accepted, main, said>>

SenderChecks ==
  /\ Goes("sender", "check", IF g_is_thread_avilibale[SEND_THREAD] THEN "lock" ELSE "ended")
  /\ UNCHANGED <<threads, link, lists, sync, flags, accepted, main, said>>

SenderLocks ==
  /\ \/ /\ has_sync /\ g_hads_mutex = "free"
        /\ Goes("sender", "lock", "send") /\ g_hads_mutex' = "sender"
     \/ /\ has_sync => g_hads_mutex = "abandoned"
        /\ Goes("sender", "lock", "failed") /\ UNCHANGED g_hads_mutex
  /\ UNCHANGED <<threads, link, lists, permits, g_wait_for_server_event, has_sync, flags,
                 accepted, main, said>>

wait_for_response(message) == message # "CLIENT_DISCONNECT"
ServerGone == to_client # <<>> /\ to_client[Len(to_client)] \notin Message

(* The first message is sent, after the event was reset if it wants an     *)
(* answer, and removed.  Once the server is gone it may be lost.           *)
SenderSends ==
  /\ pc["sender"] = "send" /\ gp_massage_to_send_hade # <<>>
  /\ LET message == Head(gp_massage_to_send_hade) IN
     /\ g_wait_for_server_event' = (g_wait_for_server_event /\ ~wait_for_response(message))
     /\ \/ /\ g_main_socket = "open"
           /\ to_server' = Append(to_server, message)
           /\ Goes("sender", "send", "wait")
        \/ /\ g_main_socket # "open" \/ ServerGone
           /\ Goes("sender", "send", "failed") /\ UNCHANGED to_server
  /\ gp_massage_to_send_hade' = Tail(gp_massage_to_send_hade)
  /\ g_hads_mutex' = "free"
  /\ UNCHANGED <<threads, g_main_socket, to_client, gp_recived_massge_hade, permits, has_sync,
                 flags, accepted, main, said>>

(* Nothing left to send: the shut-down, or an error that keeps the mutex.  *)
SenderFindsNothing ==
  /\ pc["sender"] = "send" /\ gp_massage_to_send_hade = <<>>
  /\ IF g_start_graceful_shutdown
     THEN Goes("sender", "send", "shut") /\ g_hads_mutex' = "free"
     ELSE Goes("sender", "send", "failed") /\ Ended("sender")
  /\ UNCHANGED <<threads, link, lists, permits, g_wait_for_server_event, has_sync, flags,
                 accepted, main, said>>

SenderShuts ==
  /\ Goes("sender", "shut", "join")
  /\ g_main_socket' = (IF g_main_socket = "open" THEN "shut" ELSE g_main_socket)
  /\ UNCHANGED <<threads, to_client, to_server, lists, sync, flags, accepted, main, said>>

(* It waits for what it takes for the receiver, which is itself: only the  *)
(* 15 seconds end the wait.                                                *)
SenderJoins ==
  /\ pc["sender"] = "join"
  /\ LET t == g_socket_thread[REC_THREAD] IN
     \/ t # "none" /\ ~Active(t) /\ pc' = [pc EXCEPT !["sender"] =
          IF pc[t] = "ended" THEN "ended" ELSE "failed"]
     \/ pc' = [pc EXCEPT !["sender"] = "failed"]
  /\ UNCHANGED <<threads, link, lists, sync, flags, accepted, main, said>>
-----------------------------------------------------------------------------
(* The server: it answers the request, and says more at any time; it takes *)
(* leave in order, or the connection breaks and loses what is on its way.  *)

ServerSays ==
  /\ said < MaxMessages /\ said' = said + 1
  /\ to_server # <<>> /\ ~ServerGone
  /\ \E m \in Message :
       /\ m = "SERVER_DENIED" => said = 0
       /\ to_client' = Append(to_client, m)
  /\ UNCHANGED <<pc, threads, g_main_socket, to_server, lists, sync, flags, accepted, main>>

ServerEnds ==
  /\ session > 0 /\ ~ServerGone
  /\ \/ "FIN" \in ServerEndings /\ to_client' = Append(to_client, "FIN")
     \/ "RST" \in ServerEndings /\ to_client' = <<"RST">>
  /\ UNCHANGED <<pc, threads, g_main_socket, to_server, lists, sync, flags, accepted, main,
                 said>>
-----------------------------------------------------------------------------
(* The threads end with the program.                                       *)
Running == pc["main"] \notin {"ended", "crashed"}

MainStep ==
  \/ Connects \/ CannotConnect \/ CreatesSender \/ CreatesReceiver
  \/ Posts \/ CannotPost \/ GivesPermit \/ IsAnswered \/ WaitTimesOut
  \/ TakesReceived \/ ReadsFlag \/ TakesMessage \/ Answers \/ IsDenied
  \/ StartsShutdown \/ Joins
  \/ ReleasesLists \/ WakesSender \/ ClosesThreads \/ ClosesSocket \/ close_sync_object
  \/ Finishes
ReceiverStep == Running /\
  ( \/ Receives \/ ReleasesAlarm \/ RaisesFlag \/ ReceivesFin \/ ReceiverCloses
    \/ ReceiverQuits \/ ReceiverLocks \/ ReceiverAppends \/ ReceiverSignals )
SenderStep == Running /\
  ( \/ SenderTakesPermit \/ SenderChecks \/ SenderLocks \/ SenderSends \/ SenderFindsNothing
    \/ SenderShuts \/ SenderJoins )
ServerStep == Running /\ (ServerSays \/ ServerEnds)

Next == MainStep \/ ReceiverStep \/ SenderStep \/ ServerStep

Spec == Init /\ [][Next]_vars

(* Every thread that can run does, a wait with a time-out ends, and the    *)
(* user answers.                                                           *)
FairSpec == Spec /\ WF_vars(MainStep) /\ WF_vars(ReceiverStep) /\ WF_vars(SenderStep)
=============================================================================
