---------------------------- MODULE Client_proof ----------------------------
(***************************************************************************)
(* Proofs about the client of Ex4, for any length of the dialogue, any     *)
(* number of connections and semaphores of any size.                       *)
(***************************************************************************)
EXTENDS ClientProps, SequenceTheorems, TLAPS

MainStages ==
  {"connect", "create_sender", "create_receiver", "post", "permit", "respond", "await", "flag",
   "take", "choose", "graceful", "join", "release", "reset", "ended", "crashed"}
SenderStages ==
  {"off", "wait", "check", "lock", "send", "shut", "join", "ended", "failed", "killed"}
ReceiverStages ==
  {"off", "recv", "alarm", "raise", "fin", "close", "quit", "lock", "append", "signal", "ended",
   "failed", "killed"}

Heard == Message \cup {"FIN", "RST", "none"}
Spoken ==
  {"none", "CLIENT_REQUEST", "CLIENT_VERSUS", "CLIENT_DISCONNECT", "CLIENT_PLAYER_MOVE"}
Tasks == {"list", "wake", "first", "second", "socket", "sync"}

(* The shapes of the state, and the semaphores' range.                     *)
StagesOK ==
  /\ pc \in [{"main", "sender", "receiver"} -> MainStages \cup SenderStages \cup ReceiverStages]
  /\ pc["main"] \in MainStages /\ pc["sender"] \in SenderStages
  /\ pc["receiver"] \in ReceiverStages
HandlesOK ==
  /\ g_socket_thread \in [{REC_THREAD, SEND_THREAD} -> {"none", "sender", "receiver"}]
  /\ g_is_thread_avilibale \in [{REC_THREAD, SEND_THREAD} -> BOOLEAN]
MessagesOK ==
  /\ to_client \in Seq(Heard) /\ to_server \in Seq(Spoken)
  /\ gp_recived_massge_hade \in Seq(Heard) /\ gp_massage_to_send_hade \in Seq(Spoken)
  /\ accepted \in Heard /\ massage \in Heard /\ posting \in Spoken
SyncOK ==
  /\ g_rcev_semapore \in 0 .. MAX_MESSAGES_IN_BUF /\ g_send_semapore \in 0 .. MAX_MESSAGES_IN_BUF
  /\ g_hads_mutex \in {"free", "abandoned", "main", "sender", "receiver"}
  /\ has_sync \in BOOLEAN /\ is_trans_failed \in BOOLEAN /\ g_start_graceful_shutdown \in BOOLEAN
  /\ session \in Nat
TypeOK == StagesOK /\ HandlesOK /\ MessagesOK /\ SyncOK /\ to_release \in Seq(Tasks)

(* The objects are made once, before the first connection, and closed once.*)
Sessions ==
  /\ session = 0 => /\ pc["main"] \in {"connect", "release", "ended"}
                    /\ pc["main"] = "connect" => has_sync
                    /\ pc["sender"] = "off" /\ pc["receiver"] = "off"
  /\ has_sync => session <= 1
  /\ has_sync /\ pc["main"] = "connect" => session = 0
  /\ has_sync /\ pc["main"] = "create_sender" => pc["sender"] = "off"
  /\ has_sync /\ pc["main"] \in {"create_sender", "create_receiver"} => pc["receiver"] = "off"
  /\ ~has_sync /\ session <= 1 =>
       pc["main"] \in {"connect", "release", "reset", "ended", "crashed"}

(* What main may have to do: the objects are closed last, and a second     *)
(* time for the lists comes when the socket is closed.                     *)
SocketAfterSender(s) ==
  \A i \in 1 .. Len(s) : s[i] = "socket" => \E j \in 1 .. i - 1 : s[j] = "second"
PlanOf(s, both) ==
  /\ s \in Seq(Tasks) /\ s # <<>> /\ s[Len(s)] = "sync"
  /\ \A i \in 1 .. Len(s) : s[i] = "sync" => i = Len(s)
  /\ \A i \in 1 .. Len(s) - 1 : s[i + 1] = "list" => s[i] = "socket"
  /\ both => /\ \E i \in 1 .. Len(s) : s[i] = "first"
             /\ \E i \in 1 .. Len(s) : s[i] = "second"
             /\ SocketAfterSender(s)

(* Before the objects are closed, main terminates the threads that still   *)
(* run, and it has their handles.                                          *)
Plans ==
  /\ has_sync /\ Active("sender") => g_socket_thread[REC_THREAD] = "sender"
  /\ has_sync /\ Active("receiver") => g_socket_thread[SEND_THREAD] = "receiver"
  /\ has_sync /\ pc["main"] \in {"release", "reset"} =>
       /\ PlanOf(to_release, FALSE)
       /\ Active("sender") => \E i \in 1 .. Len(to_release) : to_release[i] = "second"
       /\ Active("receiver") => \E i \in 1 .. Len(to_release) : to_release[i] = "first"

(* Until main releases what it has, with the objects still there.          *)
Works == has_sync /\ pc["main"] \notin {"release", "reset", "ended", "crashed"}

(* Permits and messages of both lists, the mutex, and the flags, for as    *)
(* long as main has not given up.                                          *)
Received ==
  g_rcev_semapore + Count(pc["main"] \in {"flag", "take"}) + Count(pc["receiver"] = "signal")
      + Count(pc["receiver"] = "failed" /\ ~is_trans_failed)
    = Len(gp_recived_massge_hade) + Count(pc["receiver"] = "raise" \/ is_trans_failed)
ToSend ==
  g_send_semapore + Count(pc["sender"] \in {"check", "lock", "send"}) + Count(pc["main"] = "permit")
    <= Len(gp_massage_to_send_hade) + Count(g_start_graceful_shutdown)
Counts ==
  Works =>
    /\ Received /\ ToSend
    /\ g_hads_mutex \in {"free", "sender", "receiver"}
    /\ is_trans_failed => pc["receiver"] = "failed"
    /\ g_start_graceful_shutdown => pc["main"] = "join"

ClientInv == TypeOK /\ Sessions /\ Plans /\ Counts /\ ObjectsOutliveThreads

-----------------------------------------------------------------------------
(* The plans of main.                                                      *)

(* What main plans when it gives up: with threads, it ends both before it  *)
(* closes the objects.                                                     *)
LEMMA PlanFacts ==
  ASSUME NEW stage \in {"RELEASE_SOCKET", "RELEASE_THREADS", "RELEASE_LINK_LIST", "RELEASE_ALL",
                        "DENIED_BY_SERVER"}
  PROVE  /\ PlanOf(release_source(stage), stage # "RELEASE_SOCKET")
         /\ release_source(stage)[1] = "list"
              <=> stage \in {"RELEASE_LINK_LIST", "RELEASE_ALL", "DENIED_BY_SERVER"}
<1>1. PICK s : s = release_source(stage)
  OBVIOUS
<1>2. CASE stage = "RELEASE_SOCKET"
  <2>1. s \in Seq(Tasks) /\ Len(s) = 2 /\ s[1] = "socket" /\ s[2] = "sync"
    BY <1>1, <1>2 DEF Tasks, release_source
  <2>2. QED BY <1>1, <1>2, <2>1 DEF PlanOf
<1>3. CASE stage = "RELEASE_THREADS"
  <2>1. /\ s \in Seq(Tasks) /\ Len(s) = 5
        /\ s[1] = "wake" /\ s[2] = "first" /\ s[3] = "second" /\ s[4] = "socket" /\ s[5] = "sync"
    BY <1>1, <1>3 DEF Tasks, release_source, close_client_threads
  <2>2. ASSUME NEW i \in 1 .. Len(s) PROVE i = 1 \/ i = 2 \/ i = 3 \/ i = 4 \/ i = 5
    BY <2>1
  <2>3. SocketAfterSender(s)
    BY <2>1, <2>2 DEF SocketAfterSender
  <2>4. \A i \in 1 .. Len(s) : s[i] = "sync" => i = Len(s)
    BY <2>1, <2>2
  <2>5. \A i \in 1 .. Len(s) - 1 : s[i + 1] = "list" => s[i] = "socket"
    BY <2>1, <2>2
  <2>6. s # <<>> /\ 2 \in 1 .. Len(s) /\ 3 \in 1 .. Len(s)
    BY <2>1
  <2>7. QED BY <1>1, <1>3, <2>1, <2>3, <2>4, <2>5, <2>6 DEF PlanOf
<1>4. CASE stage \in {"RELEASE_LINK_LIST", "RELEASE_ALL"}
  <2>1. s = relase_link_list \o close_client_threads \o <<"socket", "sync">>
    BY <1>1, <1>4 DEF release_source
  <2>2. /\ s \in Seq(Tasks) /\ Len(s) = 6 /\ s[1] = "list"
        /\ s[2] = "wake" /\ s[3] = "first" /\ s[4] = "second" /\ s[5] = "socket" /\ s[6] = "sync"
    BY <2>1 DEF Tasks, close_client_threads, relase_link_list
  <2>3. ASSUME NEW i \in 1 .. Len(s) PROVE i = 1 \/ i = 2 \/ i = 3 \/ i = 4 \/ i = 5 \/ i = 6
    BY <2>2
  <2>4. \A i \in 1 .. Len(s) : s[i] = "sync" => i = Len(s)
    BY <2>2, <2>3
  <2>5. \A i \in 1 .. Len(s) - 1 : s[i + 1] = "list" => s[i] = "socket"
    BY <2>2, <2>3
  <2>6. s # <<>> /\ 3 \in 1 .. Len(s) /\ 4 \in 1 .. Len(s)
    BY <2>2, SMTT(30)
  <2>7. SocketAfterSender(s)
    BY <2>2, <2>3 DEF SocketAfterSender
  <2>8. QED BY <1>1, <1>4, <2>2, <2>4, <2>5, <2>6, <2>7 DEF PlanOf
<1>5. CASE stage = "DENIED_BY_SERVER"
  <2>1. /\ s \in Seq(Tasks) /\ Len(s) = 10 /\ s[1] = "list"
        /\ s[2] = "wake" /\ s[3] = "first" /\ s[4] = "second" /\ s[5] = "socket" /\ s[6] = "list"
        /\ s[7] = "wake" /\ s[8] = "first" /\ s[9] = "second" /\ s[10] = "sync"
    BY <1>1, <1>5 DEF Tasks, release_source, close_client_threads, relase_link_list
  <2>2. ASSUME NEW i \in 1 .. Len(s)
        PROVE  \/ i = 1 \/ i = 2 \/ i = 3 \/ i = 4 \/ i = 5
               \/ i = 6 \/ i = 7 \/ i = 8 \/ i = 9 \/ i = 10
    BY <2>1
  <2>3. \A i \in 1 .. Len(s) : s[i] = "sync" => i = Len(s)
    BY <2>1, <2>2
  <2>4. \A i \in 1 .. Len(s) - 1 : s[i + 1] = "list" => s[i] = "socket"
    <3>1. ASSUME NEW i \in 1 .. Len(s) - 1, s[i + 1] = "list" PROVE s[i] = "socket"
      <4>1. i + 1 \in 1 .. Len(s) /\ i + 1 # 1 /\ i \in Nat
        BY <2>1
      <4>2. i + 1 = 6
        BY <2>1, <2>2, <3>1, <4>1
      <4>3. QED BY <2>1, <4>1, <4>2
    <3>2. QED BY <3>1
  <2>5. s # <<>> /\ 3 \in 1 .. Len(s) /\ 4 \in 1 .. Len(s)
    BY <2>1
  <2>6. SocketAfterSender(s)
    <3>1. ASSUME NEW i \in 1 .. Len(s), s[i] = "socket" PROVE i = 5
      BY <2>1, <2>2, <3>1
    <3>2. s[4] = "second" /\ 4 \in 1 .. 5 - 1
      BY <2>1
    <3>3. QED BY <3>1, <3>2 DEF SocketAfterSender
  <2>7. QED BY <1>1, <1>5, <2>1, <2>3, <2>4, <2>5, <2>6 DEF PlanOf
<1>6. QED BY <1>2, <1>3, <1>4, <1>5

-----------------------------------------------------------------------------
(* The types.                                                              *)

LEMMA InitTypes == Init => TypeOK
<1> SUFFICES ASSUME Init PROVE TypeOK
  OBVIOUS
<1>1. 0 \in 0 .. MAX_MESSAGES_IN_BUF
  BY ClientSessionAssumption DEF ClientSessionAssumption
<1>2. pc["main"] \in MainStages /\ pc["sender"] \in SenderStages /\ pc["receiver"] \in ReceiverStages
      /\ pc \in [{"main", "sender", "receiver"} -> MainStages \cup SenderStages \cup ReceiverStages]
  BY DEF Init, MainStages, SenderStages, ReceiverStages
<1>3. /\ <<>> \in Seq(Heard) /\ <<>> \in Seq(Spoken) /\ <<>> \in Seq(Tasks)
      /\ "none" \in Heard /\ "none" \in Spoken
  BY DEF Heard, Spoken
<1>4. QED
  BY <1>1, <1>2, <1>3 DEF Init, TypeOK, StagesOK, HandlesOK, MessagesOK, SyncOK

LEMMA MainKeepsStages == TypeOK /\ MainStep => StagesOK'
<1> SUFFICES ASSUME TypeOK, MainStep PROVE StagesOK'
  OBVIOUS
<1> USE DEF threads, link, lists, permits, sync, flags, main, TypeOK
<1>1. CASE Connects
  BY <1>1 DEF StagesOK, Connects, MainStages, SenderStages, ReceiverStages, Goes, GivesUp
<1>2. CASE CannotConnect
  BY <1>2 DEF StagesOK, CannotConnect, MainStages, SenderStages, ReceiverStages, Goes, GivesUp
<1>3. CASE CreatesSender
  BY <1>3 DEF StagesOK, CreatesSender, CreatesThread, first_step, init_threads, MainStages,
     SenderStages, ReceiverStages, Goes, GivesUp
<1>4. CASE CreatesReceiver
  BY <1>4 DEF StagesOK, CreatesReceiver, CreatesThread, first_step, init_threads, MainStages,
     SenderStages, ReceiverStages, Goes, GivesUp
<1>5. CASE Posts
  BY <1>5 DEF StagesOK, Posts, MainStages, SenderStages, ReceiverStages, Goes, GivesUp
<1>6. CASE CannotPost
  BY <1>6 DEF StagesOK, CannotPost, PostFails, MainStages, SenderStages, ReceiverStages, Goes,
     GivesUp
<1>7. CASE GivesPermit
  BY <1>7 DEF StagesOK, GivesPermit, MainStages, SenderStages, ReceiverStages, Goes, GivesUp
<1>8. CASE IsAnswered
  BY <1>8 DEF StagesOK, IsAnswered, MainStages, SenderStages, ReceiverStages, Goes, GivesUp
<1>9. CASE WaitTimesOut
  BY <1>9 DEF StagesOK, WaitTimesOut, PostFails, MainStages, SenderStages, ReceiverStages, Goes,
     GivesUp
<1>10. CASE TakesReceived
  BY <1>10 DEF StagesOK, TakesReceived, MainStages, SenderStages, ReceiverStages, Goes, GivesUp
<1>11. CASE ReadsFlag
  BY <1>11 DEF StagesOK, ReadsFlag, MainStages, SenderStages, ReceiverStages, Goes, GivesUp
<1>12. CASE TakesMessage
  BY <1>12 DEF StagesOK, TakesMessage, MainStages, SenderStages, ReceiverStages, Goes, GivesUp
<1>13. CASE Answers
  BY <1>13 DEF StagesOK, Answers, MainStages, SenderStages, ReceiverStages, Goes, GivesUp
<1>14. CASE IsDenied
  BY <1>14 DEF StagesOK, IsDenied, MainStages, SenderStages, ReceiverStages, Goes, GivesUp
<1>15. CASE StartsShutdown
  BY <1>15 DEF StagesOK, StartsShutdown, MainStages, SenderStages, ReceiverStages, Goes, GivesUp
<1>16. CASE Joins
  BY <1>16 DEF StagesOK, Joins, MainStages, SenderStages, ReceiverStages, Goes, GivesUp
<1>17. CASE ReleasesLists
  BY <1>17 DEF StagesOK, ReleasesLists, MainStages, SenderStages, ReceiverStages, Goes, GivesUp
<1>18. CASE WakesSender
  BY <1>18 DEF StagesOK, WakesSender, MainStages, SenderStages, ReceiverStages, Goes, GivesUp
<1>19. CASE ClosesThreads
  BY <1>19 DEF StagesOK, ClosesThreads, ClosesThread, end_thread, Ended, MainStages,
     SenderStages, ReceiverStages, Goes, GivesUp, HandlesOK, REC_THREAD, SEND_THREAD
<1>20. CASE ClosesSocket
  BY <1>20 DEF StagesOK, ClosesSocket, MainStages, SenderStages, ReceiverStages, Goes, GivesUp
<1>21. CASE close_sync_object
  BY <1>21 DEF StagesOK, close_sync_object, MainStages, SenderStages, ReceiverStages, Goes,
     GivesUp
<1>22. CASE Finishes
  BY <1>22 DEF StagesOK, Finishes, MainStages, SenderStages, ReceiverStages, Goes, GivesUp
<1>23. QED BY <1>1, <1>2, <1>3, <1>4, <1>5, <1>6, <1>7, <1>8, <1>9, <1>10, <1>11, <1>12, <1>13,
              <1>14, <1>15, <1>16, <1>17, <1>18, <1>19, <1>20, <1>21, <1>22 DEF MainStep

LEMMA ReceiverKeepsStages == TypeOK /\ ReceiverStep => StagesOK'
<1> SUFFICES ASSUME TypeOK, ReceiverStep PROVE StagesOK'
  OBVIOUS
<1> USE DEF threads, link, lists, permits, sync, flags, main, TypeOK
<1>1. CASE Receives
  BY <1>1 DEF StagesOK, Receives, MainStages, SenderStages, ReceiverStages, Goes, GivesUp
<1>2. CASE ReleasesAlarm
  BY <1>2 DEF StagesOK, ReleasesAlarm, MainStages, SenderStages, ReceiverStages, Goes, GivesUp
<1>3. CASE RaisesFlag
  BY <1>3 DEF StagesOK, RaisesFlag, MainStages, SenderStages, ReceiverStages, Goes, GivesUp
<1>4. CASE ReceivesFin
  BY <1>4 DEF StagesOK, ReceivesFin, MainStages, SenderStages, ReceiverStages, Goes, GivesUp
<1>5. CASE ReceiverCloses
  BY <1>5 DEF StagesOK, ReceiverCloses, MainStages, SenderStages, ReceiverStages, Goes, GivesUp
<1>6. CASE ReceiverQuits
  BY <1>6 DEF StagesOK, ReceiverQuits, MainStages, SenderStages, ReceiverStages, Goes, GivesUp
<1>7. CASE ReceiverLocks
  BY <1>7 DEF StagesOK, ReceiverLocks, MainStages, SenderStages, ReceiverStages, Goes, GivesUp
<1>8. CASE ReceiverAppends
  BY <1>8 DEF StagesOK, ReceiverAppends, MainStages, SenderStages, ReceiverStages, Goes, GivesUp
<1>9. CASE ReceiverSignals
  BY <1>9 DEF StagesOK, ReceiverSignals, MainStages, SenderStages, ReceiverStages, Goes, GivesUp
<1>10. QED BY <1>1, <1>2, <1>3, <1>4, <1>5, <1>6, <1>7, <1>8, <1>9 DEF ReceiverStep

LEMMA SenderKeepsStages == TypeOK /\ SenderStep => StagesOK'
<1> SUFFICES ASSUME TypeOK, SenderStep PROVE StagesOK'
  OBVIOUS
<1> USE DEF threads, link, lists, permits, sync, flags, main, TypeOK
<1>1. CASE SenderTakesPermit
  BY <1>1 DEF StagesOK, SenderTakesPermit, MainStages, SenderStages, ReceiverStages, Goes, GivesUp
<1>2. CASE SenderChecks
  BY <1>2 DEF StagesOK, SenderChecks, MainStages, SenderStages, ReceiverStages, Goes, GivesUp
<1>3. CASE SenderLocks
  BY <1>3 DEF StagesOK, SenderLocks, MainStages, SenderStages, ReceiverStages, Goes, GivesUp
<1>4. CASE SenderSends
  BY <1>4 DEF StagesOK, SenderSends, MainStages, SenderStages, ReceiverStages, Goes, GivesUp
<1>5. CASE SenderFindsNothing
  BY <1>5 DEF StagesOK, SenderFindsNothing, Ended, MainStages, SenderStages, ReceiverStages,
     Goes, GivesUp
<1>6. CASE SenderShuts
  BY <1>6 DEF StagesOK, SenderShuts, MainStages, SenderStages, ReceiverStages, Goes, GivesUp
<1>7. CASE SenderJoins
  BY <1>7 DEF StagesOK, SenderJoins, MainStages, SenderStages, ReceiverStages, Goes, GivesUp
<1>8. QED BY <1>1, <1>2, <1>3, <1>4, <1>5, <1>6, <1>7 DEF SenderStep

LEMMA ServerKeepsStages == TypeOK /\ ServerStep => StagesOK'
<1> SUFFICES ASSUME TypeOK, ServerStep PROVE StagesOK'
  OBVIOUS
<1> USE DEF threads, link, lists, permits, sync, flags, main, TypeOK
<1>1. CASE ServerSays
  BY <1>1 DEF StagesOK, ServerSays, MainStages, SenderStages, ReceiverStages, Goes, GivesUp
<1>2. CASE ServerEnds
  BY <1>2 DEF StagesOK, ServerEnds, MainStages, SenderStages, ReceiverStages, Goes, GivesUp
<1>3. QED BY <1>1, <1>2 DEF ServerStep

LEMMA MainKeepsHandles == TypeOK /\ MainStep => HandlesOK'
<1> SUFFICES ASSUME TypeOK, MainStep PROVE HandlesOK'
  OBVIOUS
<1> USE DEF threads, link, lists, permits, sync, flags, main, TypeOK
<1>1. CASE Connects
  BY <1>1 DEF HandlesOK, Connects, REC_THREAD, SEND_THREAD
<1>2. CASE CannotConnect
  BY <1>2 DEF HandlesOK, CannotConnect, REC_THREAD, SEND_THREAD
<1>3. CASE CreatesSender
  BY <1>3 DEF HandlesOK, CreatesSender, CreatesThread, first_step, init_threads, REC_THREAD,
     SEND_THREAD
<1>4. CASE CreatesReceiver
  BY <1>4 DEF HandlesOK, CreatesReceiver, CreatesThread, first_step, init_threads, REC_THREAD,
     SEND_THREAD
<1>5. CASE Posts
  BY <1>5 DEF HandlesOK, Posts, REC_THREAD, SEND_THREAD
<1>6. CASE CannotPost
  BY <1>6 DEF HandlesOK, CannotPost, PostFails, REC_THREAD, SEND_THREAD
<1>7. CASE GivesPermit
  BY <1>7 DEF HandlesOK, GivesPermit, REC_THREAD, SEND_THREAD
<1>8. CASE IsAnswered
  BY <1>8 DEF HandlesOK, IsAnswered, REC_THREAD, SEND_THREAD
<1>9. CASE WaitTimesOut
  BY <1>9 DEF HandlesOK, WaitTimesOut, PostFails, REC_THREAD, SEND_THREAD
<1>10. CASE TakesReceived
  BY <1>10 DEF HandlesOK, TakesReceived, REC_THREAD, SEND_THREAD
<1>11. CASE ReadsFlag
  BY <1>11 DEF HandlesOK, ReadsFlag, REC_THREAD, SEND_THREAD
<1>12. CASE TakesMessage
  BY <1>12 DEF HandlesOK, TakesMessage, REC_THREAD, SEND_THREAD
<1>13. CASE Answers
  BY <1>13 DEF HandlesOK, Answers, REC_THREAD, SEND_THREAD
<1>14. CASE IsDenied
  BY <1>14 DEF HandlesOK, IsDenied, REC_THREAD, SEND_THREAD
<1>15. CASE StartsShutdown
  BY <1>15 DEF HandlesOK, StartsShutdown, REC_THREAD, SEND_THREAD
<1>16. CASE Joins
  BY <1>16 DEF HandlesOK, Joins, REC_THREAD, SEND_THREAD
<1>17. CASE ReleasesLists
  BY <1>17 DEF HandlesOK, ReleasesLists, REC_THREAD, SEND_THREAD
<1>18. CASE WakesSender
  BY <1>18 DEF HandlesOK, WakesSender, REC_THREAD, SEND_THREAD
<1>19. CASE ClosesThreads
  BY <1>19 DEF HandlesOK, ClosesThreads, ClosesThread, end_thread, Ended, REC_THREAD, SEND_THREAD
<1>20. CASE ClosesSocket
  BY <1>20 DEF HandlesOK, ClosesSocket, REC_THREAD, SEND_THREAD
<1>21. CASE close_sync_object
  BY <1>21 DEF HandlesOK, close_sync_object, REC_THREAD, SEND_THREAD
<1>22. CASE Finishes
  BY <1>22 DEF HandlesOK, Finishes, REC_THREAD, SEND_THREAD
<1>23. QED BY <1>1, <1>2, <1>3, <1>4, <1>5, <1>6, <1>7, <1>8, <1>9, <1>10, <1>11, <1>12, <1>13,
              <1>14, <1>15, <1>16, <1>17, <1>18, <1>19, <1>20, <1>21, <1>22 DEF MainStep

LEMMA ReceiverKeepsHandles == TypeOK /\ ReceiverStep => HandlesOK'
<1> SUFFICES ASSUME TypeOK, ReceiverStep PROVE HandlesOK'
  OBVIOUS
<1> USE DEF threads, link, lists, permits, sync, flags, main, TypeOK
<1>1. CASE Receives
  BY <1>1 DEF HandlesOK, Receives, REC_THREAD, SEND_THREAD
<1>2. CASE ReleasesAlarm
  BY <1>2 DEF HandlesOK, ReleasesAlarm, REC_THREAD, SEND_THREAD
<1>3. CASE RaisesFlag
  BY <1>3 DEF HandlesOK, RaisesFlag, REC_THREAD, SEND_THREAD
<1>4. CASE ReceivesFin
  BY <1>4 DEF HandlesOK, ReceivesFin, REC_THREAD, SEND_THREAD
<1>5. CASE ReceiverCloses
  BY <1>5 DEF HandlesOK, ReceiverCloses, REC_THREAD, SEND_THREAD
<1>6. CASE ReceiverQuits
  BY <1>6 DEF HandlesOK, ReceiverQuits, REC_THREAD, SEND_THREAD
<1>7. CASE ReceiverLocks
  BY <1>7 DEF HandlesOK, ReceiverLocks, REC_THREAD, SEND_THREAD
<1>8. CASE ReceiverAppends
  BY <1>8 DEF HandlesOK, ReceiverAppends, REC_THREAD, SEND_THREAD
<1>9. CASE ReceiverSignals
  BY <1>9 DEF HandlesOK, ReceiverSignals, REC_THREAD, SEND_THREAD
<1>10. QED BY <1>1, <1>2, <1>3, <1>4, <1>5, <1>6, <1>7, <1>8, <1>9 DEF ReceiverStep

LEMMA SenderKeepsHandles == TypeOK /\ SenderStep => HandlesOK'
<1> SUFFICES ASSUME TypeOK, SenderStep PROVE HandlesOK'
  OBVIOUS
<1> USE DEF threads, link, lists, permits, sync, flags, main, TypeOK
<1>1. CASE SenderTakesPermit
  BY <1>1 DEF HandlesOK, SenderTakesPermit, REC_THREAD, SEND_THREAD
<1>2. CASE SenderChecks
  BY <1>2 DEF HandlesOK, SenderChecks, REC_THREAD, SEND_THREAD
<1>3. CASE SenderLocks
  BY <1>3 DEF HandlesOK, SenderLocks, REC_THREAD, SEND_THREAD
<1>4. CASE SenderSends
  BY <1>4 DEF HandlesOK, SenderSends, REC_THREAD, SEND_THREAD
<1>5. CASE SenderFindsNothing
  BY <1>5 DEF HandlesOK, SenderFindsNothing, Ended, REC_THREAD, SEND_THREAD
<1>6. CASE SenderShuts
  BY <1>6 DEF HandlesOK, SenderShuts, REC_THREAD, SEND_THREAD
<1>7. CASE SenderJoins
  BY <1>7 DEF HandlesOK, SenderJoins, REC_THREAD, SEND_THREAD
<1>8. QED BY <1>1, <1>2, <1>3, <1>4, <1>5, <1>6, <1>7 DEF SenderStep

LEMMA ServerKeepsHandles == TypeOK /\ ServerStep => HandlesOK'
<1> SUFFICES ASSUME TypeOK, ServerStep PROVE HandlesOK'
  OBVIOUS
<1> USE DEF threads, link, lists, permits, sync, flags, main, TypeOK
<1>1. CASE ServerSays
  BY <1>1 DEF HandlesOK, ServerSays, REC_THREAD, SEND_THREAD
<1>2. CASE ServerEnds
  BY <1>2 DEF HandlesOK, ServerEnds, REC_THREAD, SEND_THREAD
<1>3. QED BY <1>1, <1>2 DEF ServerStep

LEMMA MainKeepsMessages == TypeOK /\ MainStep => MessagesOK'
<1> SUFFICES ASSUME TypeOK, MainStep PROVE MessagesOK'
  OBVIOUS
<1> USE DEF threads, link, lists, permits, sync, flags, main, TypeOK
<1>1. CASE Connects
  BY <1>1 DEF MessagesOK, Connects, Heard, Spoken, Message, Question, add_message_to_cell_arr,
     rest_of_list
<1>2. CASE CannotConnect
  BY <1>2 DEF MessagesOK, CannotConnect, Heard, Spoken, Message, Question,
     add_message_to_cell_arr, rest_of_list
<1>3. CASE CreatesSender
  BY <1>3 DEF MessagesOK, CreatesSender, CreatesThread, first_step, init_threads, Heard, Spoken,
     Message, Question, add_message_to_cell_arr, rest_of_list
<1>4. CASE CreatesReceiver
  BY <1>4 DEF MessagesOK, CreatesReceiver, CreatesThread, first_step, init_threads, Heard,
     Spoken, Message, Question, add_message_to_cell_arr, rest_of_list
<1>5. CASE Posts
  BY <1>5 DEF MessagesOK, Posts, Heard, Spoken, Message, Question, add_message_to_cell_arr,
     rest_of_list
<1>6. CASE CannotPost
  BY <1>6 DEF MessagesOK, CannotPost, PostFails, Heard, Spoken, Message, Question,
     add_message_to_cell_arr, rest_of_list
<1>7. CASE GivesPermit
  BY <1>7 DEF MessagesOK, GivesPermit, Heard, Spoken, Message, Question, add_message_to_cell_arr,
     rest_of_list
<1>8. CASE IsAnswered
  BY <1>8 DEF MessagesOK, IsAnswered, Heard, Spoken, Message, Question, add_message_to_cell_arr,
     rest_of_list
<1>9. CASE WaitTimesOut
  BY <1>9 DEF MessagesOK, WaitTimesOut, PostFails, Heard, Spoken, Message, Question,
     add_message_to_cell_arr, rest_of_list
<1>10. CASE TakesReceived
  BY <1>10 DEF MessagesOK, TakesReceived, Heard, Spoken, Message, Question,
     add_message_to_cell_arr, rest_of_list
<1>11. CASE ReadsFlag
  BY <1>11 DEF MessagesOK, ReadsFlag, Heard, Spoken, Message, Question, add_message_to_cell_arr,
     rest_of_list
<1>12. CASE TakesMessage
  <2>1. gp_recived_massge_hade # <<>> => /\ Head(gp_recived_massge_hade) \in Heard
                                        /\ Tail(gp_recived_massge_hade) \in Seq(Heard)
    BY DEF MessagesOK
  <2>2. gp_recived_massge_hade' \in Seq(Heard) /\ massage' \in Heard
    BY <1>12, <2>1 DEF MessagesOK, TakesMessage, rest_of_list
  <2>3. QED BY <1>12, <2>2 DEF MessagesOK, TakesMessage
<1>13. CASE Answers
  BY <1>13 DEF MessagesOK, Answers, Heard, Spoken, Message, Question, add_message_to_cell_arr,
     rest_of_list
<1>14. CASE IsDenied
  BY <1>14 DEF MessagesOK, IsDenied, Heard, Spoken, Message, Question, add_message_to_cell_arr,
     rest_of_list
<1>15. CASE StartsShutdown
  BY <1>15 DEF MessagesOK, StartsShutdown, Heard, Spoken, Message, Question,
     add_message_to_cell_arr, rest_of_list
<1>16. CASE Joins
  BY <1>16 DEF MessagesOK, Joins, Heard, Spoken, Message, Question, add_message_to_cell_arr,
     rest_of_list
<1>17. CASE ReleasesLists
  <2>1. <<>> \in Seq(Heard) /\ <<>> \in Seq(Spoken)
    OBVIOUS
  <2>2. QED BY <1>17, <2>1 DEF MessagesOK, ReleasesLists
<1>18. CASE WakesSender
  BY <1>18 DEF MessagesOK, WakesSender, Heard, Spoken, Message, Question,
     add_message_to_cell_arr, rest_of_list
<1>19. CASE ClosesThreads
  BY <1>19 DEF MessagesOK, ClosesThreads, ClosesThread, end_thread, Ended, Heard, Spoken,
     Message, Question, add_message_to_cell_arr, rest_of_list
<1>20. CASE ClosesSocket
  BY <1>20 DEF MessagesOK, ClosesSocket, Heard, Spoken, Message, Question,
     add_message_to_cell_arr, rest_of_list
<1>21. CASE close_sync_object
  BY <1>21 DEF MessagesOK, close_sync_object, Heard, Spoken, Message, Question,
     add_message_to_cell_arr, rest_of_list
<1>22. CASE Finishes
  BY <1>22 DEF MessagesOK, Finishes, Heard, Spoken, Message, Question, add_message_to_cell_arr,
     rest_of_list
<1>23. QED BY <1>1, <1>2, <1>3, <1>4, <1>5, <1>6, <1>7, <1>8, <1>9, <1>10, <1>11, <1>12, <1>13,
              <1>14, <1>15, <1>16, <1>17, <1>18, <1>19, <1>20, <1>21, <1>22 DEF MainStep

LEMMA ReceiverKeepsMessages == TypeOK /\ ReceiverStep => MessagesOK'
<1> SUFFICES ASSUME TypeOK, ReceiverStep PROVE MessagesOK'
  OBVIOUS
<1> USE DEF threads, link, lists, permits, sync, flags, main, TypeOK
<1>1. CASE Receives
  <2>1. to_client # <<>> => Head(to_client) \in Heard /\ Tail(to_client) \in Seq(Heard)
    BY DEF MessagesOK
  <2>2. to_client' \in Seq(Heard) /\ accepted' \in Heard
    BY <1>1, <2>1 DEF MessagesOK, Receives, Heard
  <2>3. QED BY <1>1, <2>2 DEF MessagesOK, Receives
<1>2. CASE ReleasesAlarm
  BY <1>2 DEF MessagesOK, ReleasesAlarm, Heard, Spoken, Message, Question,
     add_message_to_cell_arr, rest_of_list
<1>3. CASE RaisesFlag
  BY <1>3 DEF MessagesOK, RaisesFlag, Heard, Spoken, Message, Question, add_message_to_cell_arr,
     rest_of_list
<1>4. CASE ReceivesFin
  BY <1>4 DEF MessagesOK, ReceivesFin, Heard, Spoken, Message, Question, add_message_to_cell_arr,
     rest_of_list
<1>5. CASE ReceiverCloses
  BY <1>5 DEF MessagesOK, ReceiverCloses, Heard, Spoken, Message, Question,
     add_message_to_cell_arr, rest_of_list
<1>6. CASE ReceiverQuits
  BY <1>6 DEF MessagesOK, ReceiverQuits, Heard, Spoken, Message, Question,
     add_message_to_cell_arr, rest_of_list
<1>7. CASE ReceiverLocks
  BY <1>7 DEF MessagesOK, ReceiverLocks, Heard, Spoken, Message, Question,
     add_message_to_cell_arr, rest_of_list
<1>8. CASE ReceiverAppends
  BY <1>8 DEF MessagesOK, ReceiverAppends, Heard, Spoken, Message, Question,
     add_message_to_cell_arr, rest_of_list
<1>9. CASE ReceiverSignals
  BY <1>9 DEF MessagesOK, ReceiverSignals, Heard, Spoken, Message, Question,
     add_message_to_cell_arr, rest_of_list
<1>10. QED BY <1>1, <1>2, <1>3, <1>4, <1>5, <1>6, <1>7, <1>8, <1>9 DEF ReceiverStep

LEMMA SenderKeepsMessages == TypeOK /\ SenderStep => MessagesOK'
<1> SUFFICES ASSUME TypeOK, SenderStep PROVE MessagesOK'
  OBVIOUS
<1> USE DEF threads, link, lists, permits, sync, flags, main, TypeOK
<1>1. CASE SenderTakesPermit
  BY <1>1 DEF MessagesOK, SenderTakesPermit, Heard, Spoken, Message, Question,
     add_message_to_cell_arr, rest_of_list
<1>2. CASE SenderChecks
  BY <1>2 DEF MessagesOK, SenderChecks, Heard, Spoken, Message, Question,
     add_message_to_cell_arr, rest_of_list
<1>3. CASE SenderLocks
  BY <1>3 DEF MessagesOK, SenderLocks, Heard, Spoken, Message, Question, add_message_to_cell_arr,
     rest_of_list
<1>4. CASE SenderSends
  <2>1. /\ Head(gp_massage_to_send_hade) \in Spoken /\ Tail(gp_massage_to_send_hade) \in Seq(Spoken)
        /\ Append(to_server, Head(gp_massage_to_send_hade)) \in Seq(Spoken)
    BY <1>4 DEF MessagesOK, SenderSends
  <2>2. to_server' \in Seq(Spoken)
    BY <1>4, <2>1 DEF MessagesOK, SenderSends
  <2>3. QED BY <1>4, <2>1, <2>2 DEF MessagesOK, SenderSends
<1>5. CASE SenderFindsNothing
  BY <1>5 DEF MessagesOK, SenderFindsNothing, Ended, Heard, Spoken, Message, Question,
     add_message_to_cell_arr, rest_of_list
<1>6. CASE SenderShuts
  BY <1>6 DEF MessagesOK, SenderShuts, Heard, Spoken, Message, Question, add_message_to_cell_arr,
     rest_of_list
<1>7. CASE SenderJoins
  BY <1>7 DEF MessagesOK, SenderJoins, Heard, Spoken, Message, Question, add_message_to_cell_arr,
     rest_of_list
<1>8. QED BY <1>1, <1>2, <1>3, <1>4, <1>5, <1>6, <1>7 DEF SenderStep

LEMMA ServerKeepsMessages == TypeOK /\ ServerStep => MessagesOK'
<1> SUFFICES ASSUME TypeOK, ServerStep PROVE MessagesOK'
  OBVIOUS
<1> USE DEF threads, link, lists, permits, sync, flags, main, TypeOK
<1>1. CASE ServerSays
  BY <1>1 DEF MessagesOK, ServerSays, Heard, Spoken, Message, Question, add_message_to_cell_arr,
     rest_of_list
<1>2. CASE ServerEnds
  <2>1. Append(to_client, "FIN") \in Seq(Heard) /\ <<"RST">> \in Seq(Heard)
    BY DEF MessagesOK, Heard
  <2>2. QED BY <1>2, <2>1 DEF MessagesOK, ServerEnds
<1>3. QED BY <1>1, <1>2 DEF ServerStep

LEMMA MainKeepsSync == TypeOK /\ MainStep => SyncOK'
<1> SUFFICES ASSUME TypeOK, MainStep PROVE SyncOK'
  OBVIOUS
<1> USE DEF threads, link, lists, permits, sync, flags, main, TypeOK
<1>1. CASE Connects
  BY <1>1, ClientSessionAssumption DEF ClientSessionAssumption, SyncOK, Connects, Does,
     alarm_permits
<1>2. CASE CannotConnect
  BY <1>2, ClientSessionAssumption DEF ClientSessionAssumption, SyncOK, CannotConnect, Does,
     alarm_permits
<1>3. CASE CreatesSender
  BY <1>3, ClientSessionAssumption DEF ClientSessionAssumption, SyncOK, CreatesSender,
     CreatesThread, first_step, init_threads, Does, alarm_permits
<1>4. CASE CreatesReceiver
  BY <1>4, ClientSessionAssumption DEF ClientSessionAssumption, SyncOK, CreatesReceiver,
     CreatesThread, first_step, init_threads, Does, alarm_permits
<1>5. CASE Posts
  BY <1>5, ClientSessionAssumption DEF ClientSessionAssumption, SyncOK, Posts, Does, alarm_permits
<1>6. CASE CannotPost
  BY <1>6, ClientSessionAssumption DEF ClientSessionAssumption, SyncOK, CannotPost, PostFails,
     Does, alarm_permits
<1>7. CASE GivesPermit
  BY <1>7, ClientSessionAssumption DEF ClientSessionAssumption, SyncOK, GivesPermit, Does,
     alarm_permits
<1>8. CASE IsAnswered
  BY <1>8, ClientSessionAssumption DEF ClientSessionAssumption, SyncOK, IsAnswered, Does,
     alarm_permits
<1>9. CASE WaitTimesOut
  BY <1>9, ClientSessionAssumption DEF ClientSessionAssumption, SyncOK, WaitTimesOut, PostFails,
     Does, alarm_permits
<1>10. CASE TakesReceived
  BY <1>10, ClientSessionAssumption DEF ClientSessionAssumption, SyncOK, TakesReceived, Does,
     alarm_permits
<1>11. CASE ReadsFlag
  BY <1>11, ClientSessionAssumption DEF ClientSessionAssumption, SyncOK, ReadsFlag, Does,
     alarm_permits
<1>12. CASE TakesMessage
  BY <1>12, ClientSessionAssumption DEF ClientSessionAssumption, SyncOK, TakesMessage, Does,
     alarm_permits
<1>13. CASE Answers
  BY <1>13, ClientSessionAssumption DEF ClientSessionAssumption, SyncOK, Answers, Does,
     alarm_permits
<1>14. CASE IsDenied
  BY <1>14, ClientSessionAssumption DEF ClientSessionAssumption, SyncOK, IsDenied, Does,
     alarm_permits
<1>15. CASE StartsShutdown
  BY <1>15, ClientSessionAssumption DEF ClientSessionAssumption, SyncOK, StartsShutdown, Does,
     alarm_permits
<1>16. CASE Joins
  BY <1>16, ClientSessionAssumption DEF ClientSessionAssumption, SyncOK, Joins, Does,
     alarm_permits
<1>17. CASE ReleasesLists
  BY <1>17, ClientSessionAssumption DEF ClientSessionAssumption, SyncOK, ReleasesLists, Does,
     alarm_permits
<1>18. CASE WakesSender
  BY <1>18, ClientSessionAssumption DEF ClientSessionAssumption, SyncOK, WakesSender, Does,
     alarm_permits
<1>19. CASE ClosesThreads
  BY <1>19, ClientSessionAssumption DEF ClientSessionAssumption, SyncOK, ClosesThreads,
     ClosesThread, end_thread, Ended, Does, alarm_permits
<1>20. CASE ClosesSocket
  BY <1>20, ClientSessionAssumption DEF ClientSessionAssumption, SyncOK, ClosesSocket, Does,
     alarm_permits
<1>21. CASE close_sync_object
  <2>1. 0 \in 0 .. MAX_MESSAGES_IN_BUF
    BY ClientSessionAssumption DEF ClientSessionAssumption
  <2>2. QED BY <1>21, <2>1 DEF SyncOK, close_sync_object
<1>22. CASE Finishes
  BY <1>22, ClientSessionAssumption DEF ClientSessionAssumption, SyncOK, Finishes, Does,
     alarm_permits
<1>23. QED BY <1>1, <1>2, <1>3, <1>4, <1>5, <1>6, <1>7, <1>8, <1>9, <1>10, <1>11, <1>12, <1>13,
              <1>14, <1>15, <1>16, <1>17, <1>18, <1>19, <1>20, <1>21, <1>22 DEF MainStep

LEMMA ReceiverKeepsSync == TypeOK /\ ReceiverStep => SyncOK'
<1> SUFFICES ASSUME TypeOK, ReceiverStep PROVE SyncOK'
  OBVIOUS
<1> USE DEF threads, link, lists, permits, sync, flags, main, TypeOK
<1>1. CASE Receives
  BY <1>1, ClientSessionAssumption DEF ClientSessionAssumption, SyncOK, Receives, Does,
     alarm_permits
<1>2. CASE ReleasesAlarm
  BY <1>2, ClientSessionAssumption DEF ClientSessionAssumption, SyncOK, ReleasesAlarm, Does,
     alarm_permits
<1>3. CASE RaisesFlag
  BY <1>3, ClientSessionAssumption DEF ClientSessionAssumption, SyncOK, RaisesFlag, Does,
     alarm_permits
<1>4. CASE ReceivesFin
  BY <1>4, ClientSessionAssumption DEF ClientSessionAssumption, SyncOK, ReceivesFin, Does,
     alarm_permits
<1>5. CASE ReceiverCloses
  BY <1>5, ClientSessionAssumption DEF ClientSessionAssumption, SyncOK, ReceiverCloses, Does,
     alarm_permits
<1>6. CASE ReceiverQuits
  BY <1>6, ClientSessionAssumption DEF ClientSessionAssumption, SyncOK, ReceiverQuits, Does,
     alarm_permits
<1>7. CASE ReceiverLocks
  BY <1>7, ClientSessionAssumption DEF ClientSessionAssumption, SyncOK, ReceiverLocks, Does,
     alarm_permits
<1>8. CASE ReceiverAppends
  BY <1>8, ClientSessionAssumption DEF ClientSessionAssumption, SyncOK, ReceiverAppends, Does,
     alarm_permits
<1>9. CASE ReceiverSignals
  BY <1>9, ClientSessionAssumption DEF ClientSessionAssumption, SyncOK, ReceiverSignals, Does,
     alarm_permits
<1>10. QED BY <1>1, <1>2, <1>3, <1>4, <1>5, <1>6, <1>7, <1>8, <1>9 DEF ReceiverStep

LEMMA SenderKeepsSync == TypeOK /\ SenderStep => SyncOK'
<1> SUFFICES ASSUME TypeOK, SenderStep PROVE SyncOK'
  OBVIOUS
<1> USE DEF threads, link, lists, permits, sync, flags, main, TypeOK
<1>1. CASE SenderTakesPermit
  BY <1>1, ClientSessionAssumption DEF ClientSessionAssumption, SyncOK, SenderTakesPermit, Does,
     alarm_permits
<1>2. CASE SenderChecks
  BY <1>2, ClientSessionAssumption DEF ClientSessionAssumption, SyncOK, SenderChecks, Does,
     alarm_permits
<1>3. CASE SenderLocks
  BY <1>3, ClientSessionAssumption DEF ClientSessionAssumption, SyncOK, SenderLocks, Does,
     alarm_permits
<1>4. CASE SenderSends
  BY <1>4, ClientSessionAssumption DEF ClientSessionAssumption, SyncOK, SenderSends, Does,
     alarm_permits
<1>5. CASE SenderFindsNothing
  BY <1>5, ClientSessionAssumption DEF ClientSessionAssumption, SyncOK, SenderFindsNothing,
     Ended, Does, alarm_permits
<1>6. CASE SenderShuts
  BY <1>6, ClientSessionAssumption DEF ClientSessionAssumption, SyncOK, SenderShuts, Does,
     alarm_permits
<1>7. CASE SenderJoins
  BY <1>7, ClientSessionAssumption DEF ClientSessionAssumption, SyncOK, SenderJoins, Does,
     alarm_permits
<1>8. QED BY <1>1, <1>2, <1>3, <1>4, <1>5, <1>6, <1>7 DEF SenderStep

LEMMA ServerKeepsSync == TypeOK /\ ServerStep => SyncOK'
<1> SUFFICES ASSUME TypeOK, ServerStep PROVE SyncOK'
  OBVIOUS
<1> USE DEF threads, link, lists, permits, sync, flags, main, TypeOK
<1>1. CASE ServerSays
  BY <1>1, ClientSessionAssumption DEF ClientSessionAssumption, SyncOK, ServerSays, Does,
     alarm_permits
<1>2. CASE ServerEnds
  BY <1>2, ClientSessionAssumption DEF ClientSessionAssumption, SyncOK, ServerEnds, Does,
     alarm_permits
<1>3. QED BY <1>1, <1>2 DEF ServerStep

(* What main plans: all of a plan of release_source, or what is left.      *)
LEMMA GivesUpPlans ==
  ASSUME NEW from, NEW stage \in {"RELEASE_SOCKET", "RELEASE_THREADS", "RELEASE_LINK_LIST",
                                  "RELEASE_ALL"},
         GivesUp(from, stage)
  PROVE  PlanOf(to_release', stage # "RELEASE_SOCKET")
<1>1. PlanOf(release_source(stage), stage # "RELEASE_SOCKET")
  BY PlanFacts
<1>2. QED BY <1>1 DEF GivesUp

LEMMA MainKeepsPlan == TypeOK /\ MainStep => to_release' \in Seq(Tasks)
<1> SUFFICES ASSUME TypeOK, MainStep PROVE to_release' \in Seq(Tasks)
  OBVIOUS
<1> USE DEF main, TypeOK
<1>1. CASE \E stage \in {"RELEASE_SOCKET", "RELEASE_THREADS", "RELEASE_LINK_LIST", "RELEASE_ALL",
                         "DENIED_BY_SERVER"} : to_release' = release_source(stage)
  <2>1. PICK stage \in {"RELEASE_SOCKET", "RELEASE_THREADS", "RELEASE_LINK_LIST", "RELEASE_ALL",
                        "DENIED_BY_SERVER"} : to_release' = release_source(stage)
    BY <1>1
  <2>2. PlanOf(release_source(stage), stage # "RELEASE_SOCKET")
    BY PlanFacts
  <2>3. QED BY <2>1, <2>2 DEF PlanOf
<1>2. CASE UNCHANGED to_release
  BY <1>2
<1>3. CASE to_release # <<>> /\ to_release' = Tail(to_release)
  BY <1>3
<1>4. CASE Connects \/ CannotConnect \/ CreatesSender \/ CreatesReceiver
  BY <1>1, <1>2, <1>4 DEF Connects, CannotConnect, CreatesSender, CreatesReceiver, CreatesThread,
     GivesUp
<1>5. CASE Posts \/ CannotPost \/ GivesPermit \/ IsAnswered \/ WaitTimesOut
  BY <1>1, <1>2, <1>5 DEF Posts, CannotPost, GivesPermit, IsAnswered, WaitTimesOut, PostFails,
     GivesUp
<1>6. CASE TakesReceived \/ ReadsFlag \/ TakesMessage \/ Answers \/ IsDenied
  BY <1>1, <1>2, <1>6 DEF TakesReceived, ReadsFlag, TakesMessage, Answers, IsDenied, GivesUp
<1>7. CASE StartsShutdown \/ Joins \/ Finishes
  BY <1>1, <1>2, <1>7 DEF StartsShutdown, Joins, Finishes, GivesUp
<1>8. CASE ReleasesLists \/ WakesSender \/ ClosesThreads \/ ClosesSocket \/ close_sync_object
  BY <1>3, <1>8 DEF ReleasesLists, WakesSender, ClosesThreads, ClosesThread, ClosesSocket,
                    close_sync_object, Does
<1>9. QED BY <1>4, <1>5, <1>6, <1>7, <1>8 DEF MainStep

LEMMA OthersKeepPlan == ReceiverStep \/ SenderStep \/ ServerStep => UNCHANGED to_release
<1>1. ReceiverStep => UNCHANGED to_release
  BY DEF ReceiverStep, Receives, ReleasesAlarm, RaisesFlag, ReceivesFin, ReceiverCloses,
         ReceiverQuits, ReceiverLocks, ReceiverAppends, ReceiverSignals, main
<1>2. SenderStep => UNCHANGED to_release
  BY DEF SenderStep, SenderTakesPermit, SenderChecks, SenderLocks, SenderSends,
         SenderFindsNothing, SenderShuts, SenderJoins, main
<1>3. ServerStep => UNCHANGED to_release
  BY DEF ServerStep, ServerSays, ServerEnds, main
<1>4. QED BY <1>1, <1>2, <1>3

LEMMA NextTypes == TypeOK /\ [Next]_vars => TypeOK'
<1> SUFFICES ASSUME TypeOK, [Next]_vars PROVE TypeOK'
  OBVIOUS
<1>1. CASE MainStep
  BY <1>1, MainKeepsStages, MainKeepsHandles, MainKeepsMessages, MainKeepsSync,
     MainKeepsPlan DEF TypeOK
<1>2. CASE ReceiverStep
  BY <1>2, ReceiverKeepsStages, ReceiverKeepsHandles, ReceiverKeepsMessages, ReceiverKeepsSync,
     OthersKeepPlan DEF TypeOK
<1>3. CASE SenderStep
  BY <1>3, SenderKeepsStages, SenderKeepsHandles, SenderKeepsMessages, SenderKeepsSync,
     OthersKeepPlan DEF TypeOK
<1>4. CASE ServerStep
  BY <1>4, ServerKeepsStages, ServerKeepsHandles, ServerKeepsMessages, ServerKeepsSync,
     OthersKeepPlan DEF TypeOK
<1>5. CASE UNCHANGED vars
  BY <1>5 DEF TypeOK, StagesOK, HandlesOK, MessagesOK, SyncOK, vars, threads, link, lists,
     permits,
              sync, flags, main
<1>6. QED BY <1>1, <1>2, <1>3, <1>4, <1>5 DEF Next

-----------------------------------------------------------------------------
(* The objects, main's plans, and the threads.                             *)

LEMMA InitClient == Init => Sessions /\ Plans /\ Counts /\ ObjectsOutliveThreads
  BY DEF Init, Sessions, Plans, Counts, ObjectsOutliveThreads, Works, Received, ToSend, Count,
         Active, Over, REC_THREAD, SEND_THREAD


LEMMA MainKeepsSessions ==
  TypeOK /\ Sessions /\ Plans /\ MainStep => Sessions'
<1> SUFFICES ASSUME TypeOK, Sessions, Plans, MainStep PROVE Sessions'
  OBVIOUS
<1> USE DEF threads, sync, main, TypeOK, StagesOK, SyncOK, Sessions, Goes, GivesUp, Does
<1>1. CASE Connects
  BY <1>1 DEF Connects
<1>2. CASE CannotConnect
  BY <1>2 DEF CannotConnect
<1>3. CASE CreatesSender
  BY <1>3 DEF CreatesSender, CreatesThread, first_step
<1>4. CASE CreatesReceiver
  BY <1>4 DEF CreatesReceiver, CreatesThread, first_step
<1>5. CASE Posts
  BY <1>5 DEF Posts
<1>6. CASE CannotPost
  BY <1>6 DEF CannotPost, PostFails
<1>7. CASE GivesPermit
  BY <1>7 DEF GivesPermit
<1>8. CASE IsAnswered
  BY <1>8 DEF IsAnswered
<1>9. CASE WaitTimesOut
  BY <1>9 DEF WaitTimesOut, PostFails
<1>10. CASE TakesReceived
  BY <1>10 DEF TakesReceived
<1>11. CASE ReadsFlag
  BY <1>11 DEF ReadsFlag
<1>12. CASE TakesMessage
  BY <1>12 DEF TakesMessage
<1>13. CASE Answers
  BY <1>13 DEF Answers
<1>14. CASE IsDenied
  BY <1>14 DEF IsDenied
<1>15. CASE StartsShutdown
  BY <1>15 DEF StartsShutdown
<1>16. CASE Joins
  BY <1>16 DEF Joins
<1>17. CASE ReleasesLists
  BY <1>17 DEF ReleasesLists
<1>18. CASE WakesSender
  BY <1>18 DEF WakesSender
<1>19. CASE ClosesThreads
  BY <1>19 DEF ClosesThreads, ClosesThread, end_thread, Ended, HandlesOK, Active, Over,
     REC_THREAD, SEND_THREAD
<1>20. CASE ClosesSocket
  BY <1>20 DEF ClosesSocket
<1>21. CASE close_sync_object
  BY <1>21 DEF close_sync_object
<1>22. CASE Finishes
  BY <1>22 DEF Finishes, Plans, PlanOf
<1>23. QED BY <1>1, <1>2, <1>3, <1>4, <1>5, <1>6, <1>7, <1>8, <1>9, <1>10, <1>11, <1>12, <1>13,
              <1>14, <1>15, <1>16, <1>17, <1>18, <1>19, <1>20, <1>21, <1>22 DEF MainStep

LEMMA ReceiverKeepsSessions ==
  TypeOK /\ Sessions /\ Plans /\ ReceiverStep => Sessions'
<1> SUFFICES ASSUME TypeOK, Sessions, Plans, ReceiverStep PROVE Sessions'
  OBVIOUS
<1> USE DEF threads, sync, main, TypeOK, StagesOK, SyncOK, Sessions, Goes, GivesUp, Does
<1>1. CASE Receives
  BY <1>1 DEF Receives
<1>2. CASE ReleasesAlarm
  BY <1>2 DEF ReleasesAlarm
<1>3. CASE RaisesFlag
  BY <1>3 DEF RaisesFlag
<1>4. CASE ReceivesFin
  BY <1>4 DEF ReceivesFin
<1>5. CASE ReceiverCloses
  BY <1>5 DEF ReceiverCloses
<1>6. CASE ReceiverQuits
  BY <1>6 DEF ReceiverQuits
<1>7. CASE ReceiverLocks
  BY <1>7 DEF ReceiverLocks
<1>8. CASE ReceiverAppends
  BY <1>8 DEF ReceiverAppends
<1>9. CASE ReceiverSignals
  BY <1>9 DEF ReceiverSignals
<1>10. QED BY <1>1, <1>2, <1>3, <1>4, <1>5, <1>6, <1>7, <1>8, <1>9 DEF ReceiverStep

LEMMA SenderKeepsSessions ==
  TypeOK /\ Sessions /\ Plans /\ SenderStep => Sessions'
<1> SUFFICES ASSUME TypeOK, Sessions, Plans, SenderStep PROVE Sessions'
  OBVIOUS
<1> USE DEF threads, sync, main, TypeOK, StagesOK, SyncOK, Sessions, Goes, GivesUp, Does
<1>1. CASE SenderTakesPermit
  BY <1>1 DEF SenderTakesPermit
<1>2. CASE SenderChecks
  BY <1>2 DEF SenderChecks
<1>3. CASE SenderLocks
  BY <1>3 DEF SenderLocks
<1>4. CASE SenderSends
  BY <1>4 DEF SenderSends
<1>5. CASE SenderFindsNothing
  BY <1>5 DEF SenderFindsNothing, Ended
<1>6. CASE SenderShuts
  BY <1>6 DEF SenderShuts
<1>7. CASE SenderJoins
  BY <1>7 DEF SenderJoins
<1>8. QED BY <1>1, <1>2, <1>3, <1>4, <1>5, <1>6, <1>7 DEF SenderStep

LEMMA ServerKeepsSessions ==
  TypeOK /\ Sessions /\ Plans /\ ServerStep => Sessions'
<1> SUFFICES ASSUME TypeOK, Sessions, Plans, ServerStep PROVE Sessions'
  OBVIOUS
<1> USE DEF threads, sync, main, TypeOK, StagesOK, SyncOK, Sessions, Goes, GivesUp, Does
<1>1. CASE ServerSays
  BY <1>1 DEF ServerSays
<1>2. CASE ServerEnds
  BY <1>2 DEF ServerEnds
<1>3. QED BY <1>1, <1>2 DEF ServerStep

LEMMA PlanTail ==
  ASSUME NEW s, PlanOf(s, FALSE), s[1] # "sync"
  PROVE  /\ PlanOf(Tail(s), FALSE)
         /\ \A x \in Tasks : x # s[1] /\ (\E i \in 1 .. Len(s) : s[i] = x)
                            => \E i \in 1 .. Len(Tail(s)) : Tail(s)[i] = x
<1>1. s \in Seq(Tasks) /\ s # <<>>
  BY DEF PlanOf
<1>2. PICK t : t = Tail(s)
  OBVIOUS
<1>3. PICK n \in Nat, m \in Nat : n = Len(s) /\ m = Len(t) /\ n = m + 1
  BY <1>1, <1>2
<1>4. t \in Seq(Tasks) /\ \A i \in 1 .. m : i + 1 \in 1 .. n /\ t[i] = s[i + 1]
  BY <1>1, <1>2, <1>3
<1>5. s[n] = "sync" /\ n # 1
  BY <1>3 DEF PlanOf
<1>6. m \in 1 .. m /\ t # <<>> /\ t[m] = "sync"
  BY <1>3, <1>4, <1>5
<1>7. ASSUME NEW i \in 1 .. m, t[i] = "sync" PROVE i = m
  <2>1. i + 1 = n
    BY <1>3, <1>4, <1>7 DEF PlanOf
  <2>2. QED BY <1>3, <2>1
<1>8. ASSUME NEW i \in 1 .. m - 1, t[i + 1] = "list" PROVE t[i] = "socket"
  <2>1. i \in 1 .. m /\ i + 1 \in 1 .. m /\ i + 1 \in 1 .. n - 1
    BY <1>3
  <2>2. s[(i + 1) + 1] = "list"
    BY <1>4, <1>8, <2>1
  <2>3. s[i + 1] = "socket"
    BY <1>3, <2>1, <2>2 DEF PlanOf
  <2>4. QED BY <1>4, <2>1, <2>3
<1>9. ASSUME NEW x \in Tasks, x # s[1], \E i \in 1 .. n : s[i] = x
      PROVE  \E i \in 1 .. m : t[i] = x
  <2>1. PICK i \in 1 .. n : s[i] = x
    BY <1>9
  <2>2. i # 1
    BY <1>9, <2>1
  <2>3. i - 1 \in 1 .. m /\ (i - 1) + 1 = i
    BY <1>3, <2>2
  <2>4. QED BY <1>4, <2>1, <2>3
<1>10. PlanOf(t, FALSE)
  BY <1>3, <1>4, <1>6, <1>7, <1>8 DEF PlanOf
<1>11. QED BY <1>2, <1>3, <1>9, <1>10

(* A task that main has done, other than the last one, and other than that *)
(* of ending a thread.                                                     *)
LEMMA DoesPlans ==
  ASSUME TypeOK, Plans, NEW what \in Tasks \ {"sync"}, Does(what), UNCHANGED has_sync, has_sync
  PROVE  /\ PlanOf(to_release', FALSE)
         /\ what # "second" /\ (\E i \in 1 .. Len(to_release) : to_release[i] = "second")
              => \E i \in 1 .. Len(to_release') : to_release'[i] = "second"
         /\ what # "first" /\ (\E i \in 1 .. Len(to_release) : to_release[i] = "first")
              => \E i \in 1 .. Len(to_release') : to_release'[i] = "first"
<1>1. PICK s : s = to_release
  OBVIOUS
<1>2. PlanOf(s, FALSE) /\ s[1] = what /\ to_release' = Tail(s)
  <2>1. s \in Seq(Tasks) /\ s # <<>> /\ Head(s) = what /\ to_release' = Tail(s)
    BY <1>1 DEF Does, TypeOK
  <2>2. Head(s) = s[1]
    BY <2>1
  <2>3. PlanOf(s, FALSE)
    BY <1>1 DEF Plans, Does
  <2>4. QED BY <2>1, <2>2, <2>3
<1>3. s[1] # "sync" /\ "first" \in Tasks /\ "second" \in Tasks
  BY <1>2 DEF Tasks
<1>4. /\ PlanOf(Tail(s), FALSE)
      /\ \A x \in Tasks : x # s[1] /\ (\E i \in 1 .. Len(s) : s[i] = x)
                         => \E i \in 1 .. Len(Tail(s)) : Tail(s)[i] = x
  BY <1>2, <1>3, PlanTail
<1>5. QED BY <1>1, <1>2, <1>3, <1>4

(* What a plan with both threads in it says.                               *)
LEMMA PlanOfBoth ==
  ASSUME NEW s, PlanOf(s, TRUE)
  PROVE  /\ PlanOf(s, FALSE) /\ SocketAfterSender(s)
         /\ \E i \in 1 .. Len(s) : s[i] = "first"
         /\ \E i \in 1 .. Len(s) : s[i] = "second"
  BY DEF PlanOf


LEMMA MainKeepsPlans ==
  TypeOK /\ Sessions /\ Plans /\ MainStep => Plans'
<1> SUFFICES ASSUME TypeOK, Sessions, Plans, MainStep PROVE Plans'
  OBVIOUS
<1> USE DEF threads, sync, main, StagesOK, Goes, Active, Over
<1>0. ASSUME NEW from, NEW stage \in {"RELEASE_THREADS", "RELEASE_LINK_LIST", "RELEASE_ALL"},
             GivesUp(from, stage)
      PROVE  /\ PlanOf(to_release', FALSE)
             /\ \E i \in 1 .. Len(to_release') : to_release'[i] = "first"
             /\ \E i \in 1 .. Len(to_release') : to_release'[i] = "second"
  BY <1>0, GivesUpPlans, PlanOfBoth
<1>1. CASE Connects
  BY <1>1 DEF TypeOK, Plans, Connects
<1>2. CASE CannotConnect
  <2>1. CASE GivesUp("connect", "RELEASE_SOCKET")
    <3>1. PlanOf(to_release', FALSE)
      BY <2>1, GivesUpPlans DEF PlanOf
    <3>2. has_sync' => pc'["sender"] = "off" /\ pc'["receiver"] = "off"
      BY <1>2, <2>1 DEF GivesUp, TypeOK, Sessions, CannotConnect
    <3>3. QED BY <3>1, <3>2 DEF Plans
  <2>2. CASE pc["main"] = "connect" /\ UNCHANGED <<pc, to_release>>
    BY <1>2, <2>2 DEF Plans, CannotConnect
  <2>3. QED BY <1>2, <2>1, <2>2 DEF CannotConnect
<1>3. CASE CreatesSender
  BY <1>0, <1>3 DEF GivesUp, HandlesOK, Sessions, REC_THREAD, SEND_THREAD, init_threads, TypeOK,
     Plans, CreatesSender, CreatesThread, first_step
<1>4. CASE CreatesReceiver
  <2>1. CASE GivesUp("create_receiver", "RELEASE_THREADS")
    <3>1. /\ PlanOf(to_release', FALSE)
          /\ \E i \in 1 .. Len(to_release') : to_release'[i] = "first"
          /\ \E i \in 1 .. Len(to_release') : to_release'[i] = "second"
      BY <1>0, <2>1
    <3>2. Active("sender")' = Active("sender") /\ Active("receiver")' = Active("receiver")
      BY <2>1 DEF GivesUp, TypeOK
    <3>3. UNCHANGED <<has_sync, g_socket_thread>>
      BY <1>4, <2>1 DEF CreatesReceiver, CreatesThread, GivesUp, TypeOK
    <3>4. QED BY <3>1, <3>2, <3>3 DEF Plans
  <2>2. CASE /\ pc' = [pc EXCEPT !["main"] = "post", !["receiver"] = "recv"]
             /\ g_socket_thread' = [g_socket_thread EXCEPT ![SEND_THREAD] = "receiver"]
    <3>1. pc'["main"] = "post" /\ pc'["sender"] = pc["sender"] /\ pc'["receiver"] = "recv"
      BY <2>2 DEF TypeOK
    <3>2. g_socket_thread'[SEND_THREAD] = "receiver"
          /\ g_socket_thread'[REC_THREAD] = g_socket_thread[REC_THREAD]
      BY <2>2 DEF TypeOK, HandlesOK, REC_THREAD, SEND_THREAD
    <3>3. UNCHANGED has_sync
      BY <1>4 DEF CreatesReceiver, CreatesThread
    <3>4. QED BY <3>1, <3>2, <3>3 DEF Plans
  <2>3. QED BY <1>4, <2>1, <2>2 DEF CreatesReceiver, CreatesThread, first_step, init_threads
<1>5. CASE Posts
  BY <1>5 DEF TypeOK, Plans, Posts
<1>6. CASE CannotPost
  BY <1>0, <1>6 DEF GivesUp, HandlesOK, Sessions, REC_THREAD, SEND_THREAD, init_threads, TypeOK,
     Plans, CannotPost, PostFails
<1>7. CASE GivesPermit
  BY <1>7 DEF TypeOK, Plans, GivesPermit
<1>8. CASE IsAnswered
  BY <1>8 DEF TypeOK, Plans, IsAnswered
<1>9. CASE WaitTimesOut
  BY <1>0, <1>9 DEF GivesUp, HandlesOK, Sessions, REC_THREAD, SEND_THREAD, init_threads, TypeOK,
     Plans, WaitTimesOut, PostFails
<1>10. CASE TakesReceived
  BY <1>10 DEF TypeOK, Plans, TakesReceived
<1>11. CASE ReadsFlag
  BY <1>0, <1>11 DEF GivesUp, HandlesOK, Sessions, REC_THREAD, SEND_THREAD, init_threads, TypeOK,
     Plans, ReadsFlag
<1>12. CASE TakesMessage
  BY <1>0, <1>12 DEF GivesUp, HandlesOK, Sessions, REC_THREAD, SEND_THREAD, init_threads, TypeOK,
     Plans, TakesMessage
<1>13. CASE Answers
  BY <1>13 DEF TypeOK, Plans, Answers
<1>14. CASE IsDenied
  <2>1. PlanOf(to_release', TRUE)
    <3>1. \E stage \in {"RELEASE_ALL", "DENIED_BY_SERVER"} : to_release' = release_source(stage)
      BY <1>14 DEF IsDenied, GivesUp
    <3>2. PICK stage \in {"RELEASE_ALL", "DENIED_BY_SERVER"} : to_release' = release_source(stage)
      BY <3>1
    <3>3. PlanOf(release_source(stage), TRUE)
      BY PlanFacts
    <3>4. QED BY <3>2, <3>3
  <2>2. /\ PlanOf(to_release', FALSE)
        /\ \E i \in 1 .. Len(to_release') : to_release'[i] = "first"
        /\ \E i \in 1 .. Len(to_release') : to_release'[i] = "second"
    BY <2>1, PlanOfBoth
  <2>3. /\ UNCHANGED <<has_sync, g_socket_thread>>
        /\ Active("sender")' = Active("sender") /\ Active("receiver")' = Active("receiver")
    BY <1>14 DEF IsDenied, GivesUp, TypeOK
  <2>4. QED BY <2>2, <2>3 DEF Plans
<1>15. CASE StartsShutdown
  BY <1>0, <1>15 DEF GivesUp, HandlesOK, Sessions, REC_THREAD, SEND_THREAD, init_threads, TypeOK,
     Plans, StartsShutdown
<1>16. CASE Joins
  BY <1>0, <1>16 DEF GivesUp, HandlesOK, Sessions, REC_THREAD, SEND_THREAD, init_threads, TypeOK,
     Plans, Joins
<1>17. CASE ReleasesLists
  <2>1. Does("list") /\ "list" \in Tasks \ {"sync"} /\ UNCHANGED <<pc, has_sync, g_socket_thread>>
    BY <1>17 DEF ReleasesLists, Tasks
  <2>2. CASE has_sync
    BY <2>1, <2>2, DoesPlans DEF Plans
  <2>3. QED BY <2>1, <2>2 DEF Plans
<1>18. CASE WakesSender
  <2>1. Does("wake") /\ "wake" \in Tasks \ {"sync"} /\ UNCHANGED <<pc, has_sync, g_socket_thread>>
    BY <1>18 DEF WakesSender, Tasks
  <2>2. CASE has_sync
    BY <2>1, <2>2, DoesPlans DEF Plans
  <2>3. QED BY <2>1, <2>2 DEF Plans
<1>19. CASE ClosesThreads
  <2>1. CASE ClosesThread("first", SEND_THREAD)
    <3>1. Does("first") /\ "first" \in Tasks \ {"sync"} /\ UNCHANGED has_sync
      BY <2>1 DEF ClosesThread, Tasks
    <3>2. g_socket_thread'[REC_THREAD] = g_socket_thread[REC_THREAD]
      BY <2>1 DEF ClosesThread, HandlesOK, TypeOK, REC_THREAD, SEND_THREAD
    <3>3. has_sync => ~Active("receiver")'
      <4>1. CASE has_sync /\ Active("receiver")
        <5>1. g_socket_thread[SEND_THREAD] = "receiver"
          BY <4>1 DEF Plans
        <5>2. pc' = [pc EXCEPT !["receiver"] = "killed"]
          BY <2>1, <4>1, <5>1 DEF ClosesThread, end_thread
        <5>3. QED BY <5>2 DEF TypeOK
      <4>2. CASE has_sync /\ ~Active("receiver")
        BY <2>1, <4>2 DEF ClosesThread, end_thread, TypeOK
      <4>3. QED BY <4>1, <4>2
    <3>4. (Active("sender")' => Active("sender")) /\ pc'["main"] = pc["main"]
      BY <2>1 DEF ClosesThread, end_thread, TypeOK, HandlesOK, SEND_THREAD, REC_THREAD
    <3>5. CASE has_sync
      BY <3>1, <3>2, <3>3, <3>4, <3>5, DoesPlans DEF Plans, Does
    <3>6. QED BY <3>1, <3>5 DEF Plans
  <2>2. CASE ClosesThread("second", REC_THREAD)
    <3>1. Does("second") /\ "second" \in Tasks \ {"sync"} /\ UNCHANGED has_sync
      BY <2>2 DEF ClosesThread, Tasks
    <3>2. g_socket_thread'[SEND_THREAD] = g_socket_thread[SEND_THREAD]
      BY <2>2 DEF ClosesThread, HandlesOK, TypeOK, REC_THREAD, SEND_THREAD
    <3>3. has_sync => ~Active("sender")'
      <4>1. CASE has_sync /\ Active("sender")
        <5>1. g_socket_thread[REC_THREAD] = "sender"
          BY <4>1 DEF Plans
        <5>2. pc' = [pc EXCEPT !["sender"] = "killed"]
          BY <2>2, <4>1, <5>1 DEF ClosesThread, end_thread
        <5>3. QED BY <5>2 DEF TypeOK
      <4>2. CASE has_sync /\ ~Active("sender")
        BY <2>2, <4>2 DEF ClosesThread, end_thread, TypeOK
      <4>3. QED BY <4>1, <4>2
    <3>4. (Active("receiver")' => Active("receiver")) /\ pc'["main"] = pc["main"]
      BY <2>2 DEF ClosesThread, end_thread, TypeOK, HandlesOK, SEND_THREAD, REC_THREAD
    <3>5. CASE has_sync
      BY <3>1, <3>2, <3>3, <3>4, <3>5, DoesPlans DEF Plans, Does
    <3>6. QED BY <3>1, <3>5 DEF Plans
  <2>3. QED BY <1>19, <2>1, <2>2 DEF ClosesThreads
<1>20. CASE ClosesSocket
  <2>1. Does("socket") /\ "socket" \in Tasks \ {"sync"} /\ UNCHANGED <<pc, has_sync, g_socket_thread>>
    BY <1>20 DEF ClosesSocket, Tasks
  <2>2. CASE has_sync
    BY <2>1, <2>2, DoesPlans DEF Plans
  <2>3. QED BY <2>1, <2>2 DEF Plans
<1>21. CASE close_sync_object
  BY <1>21 DEF TypeOK, Plans, close_sync_object
<1>22. CASE Finishes
  BY <1>22 DEF TypeOK, Plans, Finishes
<1>23. QED BY <1>1, <1>2, <1>3, <1>4, <1>5, <1>6, <1>7, <1>8, <1>9, <1>10, <1>11, <1>12, <1>13,
              <1>14, <1>15, <1>16, <1>17, <1>18, <1>19, <1>20, <1>21, <1>22 DEF MainStep

LEMMA ReceiverKeepsPlans ==
  TypeOK /\ Sessions /\ Plans /\ ReceiverStep => Plans'
<1> SUFFICES ASSUME TypeOK, Sessions, Plans, ReceiverStep PROVE Plans'
  OBVIOUS
<1> USE DEF threads, sync, main, StagesOK, Goes, Active, Over
<1>1. CASE Receives
  BY <1>1 DEF TypeOK, Plans, Receives
<1>2. CASE ReleasesAlarm
  BY <1>2 DEF TypeOK, Plans, ReleasesAlarm
<1>3. CASE RaisesFlag
  BY <1>3 DEF TypeOK, Plans, RaisesFlag
<1>4. CASE ReceivesFin
  BY <1>4 DEF TypeOK, Plans, ReceivesFin
<1>5. CASE ReceiverCloses
  BY <1>5 DEF TypeOK, Plans, ReceiverCloses
<1>6. CASE ReceiverQuits
  BY <1>6 DEF TypeOK, Plans, ReceiverQuits
<1>7. CASE ReceiverLocks
  BY <1>7 DEF TypeOK, Plans, ReceiverLocks
<1>8. CASE ReceiverAppends
  BY <1>8 DEF TypeOK, Plans, ReceiverAppends
<1>9. CASE ReceiverSignals
  BY <1>9 DEF TypeOK, Plans, ReceiverSignals
<1>10. QED BY <1>1, <1>2, <1>3, <1>4, <1>5, <1>6, <1>7, <1>8, <1>9 DEF ReceiverStep

LEMMA SenderKeepsPlans ==
  TypeOK /\ Sessions /\ Plans /\ SenderStep => Plans'
<1> SUFFICES ASSUME TypeOK, Sessions, Plans, SenderStep PROVE Plans'
  OBVIOUS
<1> USE DEF threads, sync, main, StagesOK, Goes, Active, Over
<1>1. CASE SenderTakesPermit
  BY <1>1 DEF TypeOK, Plans, SenderTakesPermit
<1>2. CASE SenderChecks
  BY <1>2 DEF TypeOK, Plans, SenderChecks
<1>3. CASE SenderLocks
  BY <1>3 DEF TypeOK, Plans, SenderLocks
<1>4. CASE SenderSends
  BY <1>4 DEF TypeOK, Plans, SenderSends
<1>5. CASE SenderFindsNothing
  BY <1>5 DEF TypeOK, Plans, SenderFindsNothing, Ended
<1>6. CASE SenderShuts
  BY <1>6 DEF TypeOK, Plans, SenderShuts
<1>7. CASE SenderJoins
  BY <1>7 DEF TypeOK, Plans, SenderJoins
<1>8. QED BY <1>1, <1>2, <1>3, <1>4, <1>5, <1>6, <1>7 DEF SenderStep

LEMMA ServerKeepsPlans ==
  TypeOK /\ Sessions /\ Plans /\ ServerStep => Plans'
<1> SUFFICES ASSUME TypeOK, Sessions, Plans, ServerStep PROVE Plans'
  OBVIOUS
<1> USE DEF threads, sync, main, StagesOK, Goes, Active, Over
<1>1. CASE ServerSays
  BY <1>1 DEF TypeOK, Plans, ServerSays
<1>2. CASE ServerEnds
  BY <1>2 DEF TypeOK, Plans, ServerEnds
<1>3. QED BY <1>1, <1>2 DEF ServerStep

(* Main closes the objects last.                                           *)
LEMMA ClosesObjectsLast ==
  ASSUME TypeOK, Plans, close_sync_object
  PROVE  has_sync => ~Active("sender") /\ ~Active("receiver")
<1> SUFFICES ASSUME has_sync PROVE ~Active("sender") /\ ~Active("receiver")
  OBVIOUS
<1>1. to_release \in Seq(Tasks) /\ to_release # <<>> /\ Head(to_release) = "sync"
  BY DEF close_sync_object, Does, TypeOK
<1>2. 1 \in 1 .. Len(to_release) /\ to_release[1] = "sync"
  BY <1>1
<1>3. PlanOf(to_release, FALSE)
  BY DEF close_sync_object, Does, Plans
<1>4. Len(to_release) = 1
  BY <1>2, <1>3 DEF PlanOf
<1>5. \A i \in 1 .. Len(to_release) : to_release[i] = "sync"
  BY <1>2, <1>4
<1>6. QED BY <1>5 DEF close_sync_object, Does, Plans


LEMMA MainKeepsObjects ==
  TypeOK /\ Sessions /\ Plans /\ ObjectsOutliveThreads /\ MainStep => ObjectsOutliveThreads'
<1> SUFFICES ASSUME TypeOK, Sessions, Plans, ObjectsOutliveThreads, MainStep
             PROVE  ObjectsOutliveThreads'
  OBVIOUS
<1> USE DEF threads, sync, main, TypeOK, StagesOK, SyncOK, Goes, GivesUp, Active, Over,
            ObjectsOutliveThreads
<1>1. CASE Connects
  BY <1>1 DEF Connects, Sessions
<1>2. CASE CannotConnect
  BY <1>2 DEF CannotConnect, Sessions
<1>3. CASE CreatesSender
  BY <1>3 DEF CreatesSender, CreatesThread, first_step, Sessions
<1>4. CASE CreatesReceiver
  BY <1>4 DEF CreatesReceiver, CreatesThread, first_step, Sessions
<1>5. CASE Posts
  BY <1>5 DEF Posts
<1>6. CASE CannotPost
  BY <1>6 DEF CannotPost, PostFails
<1>7. CASE GivesPermit
  BY <1>7 DEF GivesPermit
<1>8. CASE IsAnswered
  BY <1>8 DEF IsAnswered
<1>9. CASE WaitTimesOut
  BY <1>9 DEF WaitTimesOut, PostFails
<1>10. CASE TakesReceived
  BY <1>10 DEF TakesReceived
<1>11. CASE ReadsFlag
  BY <1>11 DEF ReadsFlag
<1>12. CASE TakesMessage
  BY <1>12 DEF TakesMessage
<1>13. CASE Answers
  BY <1>13 DEF Answers
<1>14. CASE IsDenied
  BY <1>14 DEF IsDenied
<1>15. CASE StartsShutdown
  BY <1>15 DEF StartsShutdown
<1>16. CASE Joins
  BY <1>16 DEF Joins
<1>17. CASE ReleasesLists
  BY <1>17 DEF ReleasesLists
<1>18. CASE WakesSender
  BY <1>18 DEF WakesSender
<1>19. CASE ClosesThreads
  BY <1>19 DEF ClosesThreads, ClosesThread, end_thread, Ended, HandlesOK, REC_THREAD, SEND_THREAD
<1>20. CASE ClosesSocket
  BY <1>20 DEF ClosesSocket
<1>21. CASE close_sync_object
  <2>1. has_sync => ~Active("sender") /\ ~Active("receiver")
    BY <1>21, ClosesObjectsLast
  <2>2. QED BY <1>21, <2>1 DEF close_sync_object
<1>22. CASE Finishes
  BY <1>22 DEF Finishes
<1>23. QED BY <1>1, <1>2, <1>3, <1>4, <1>5, <1>6, <1>7, <1>8, <1>9, <1>10, <1>11, <1>12, <1>13,
              <1>14, <1>15, <1>16, <1>17, <1>18, <1>19, <1>20, <1>21, <1>22 DEF MainStep

LEMMA ReceiverKeepsObjects ==
  TypeOK /\ Sessions /\ Plans /\ ObjectsOutliveThreads /\ ReceiverStep => ObjectsOutliveThreads'
<1> SUFFICES ASSUME TypeOK, Sessions, Plans, ObjectsOutliveThreads, ReceiverStep
             PROVE  ObjectsOutliveThreads'
  OBVIOUS
<1> USE DEF threads, sync, main, TypeOK, StagesOK, SyncOK, Goes, GivesUp, Active, Over,
            ObjectsOutliveThreads
<1>1. CASE Receives
  BY <1>1 DEF Receives
<1>2. CASE ReleasesAlarm
  BY <1>2 DEF ReleasesAlarm
<1>3. CASE RaisesFlag
  BY <1>3 DEF RaisesFlag
<1>4. CASE ReceivesFin
  BY <1>4 DEF ReceivesFin
<1>5. CASE ReceiverCloses
  BY <1>5 DEF ReceiverCloses
<1>6. CASE ReceiverQuits
  BY <1>6 DEF ReceiverQuits
<1>7. CASE ReceiverLocks
  BY <1>7 DEF ReceiverLocks
<1>8. CASE ReceiverAppends
  BY <1>8 DEF ReceiverAppends
<1>9. CASE ReceiverSignals
  BY <1>9 DEF ReceiverSignals
<1>10. QED BY <1>1, <1>2, <1>3, <1>4, <1>5, <1>6, <1>7, <1>8, <1>9 DEF ReceiverStep

LEMMA SenderKeepsObjects ==
  TypeOK /\ Sessions /\ Plans /\ ObjectsOutliveThreads /\ SenderStep => ObjectsOutliveThreads'
<1> SUFFICES ASSUME TypeOK, Sessions, Plans, ObjectsOutliveThreads, SenderStep
             PROVE  ObjectsOutliveThreads'
  OBVIOUS
<1> USE DEF threads, sync, main, TypeOK, StagesOK, SyncOK, Goes, GivesUp, Active, Over,
            ObjectsOutliveThreads
<1>1. CASE SenderTakesPermit
  BY <1>1 DEF SenderTakesPermit
<1>2. CASE SenderChecks
  BY <1>2 DEF SenderChecks
<1>3. CASE SenderLocks
  BY <1>3 DEF SenderLocks
<1>4. CASE SenderSends
  BY <1>4 DEF SenderSends
<1>5. CASE SenderFindsNothing
  BY <1>5 DEF SenderFindsNothing, Ended
<1>6. CASE SenderShuts
  BY <1>6 DEF SenderShuts
<1>7. CASE SenderJoins
  BY <1>7 DEF SenderJoins
<1>8. QED BY <1>1, <1>2, <1>3, <1>4, <1>5, <1>6, <1>7 DEF SenderStep

LEMMA ServerKeepsObjects ==
  TypeOK /\ Sessions /\ Plans /\ ObjectsOutliveThreads /\ ServerStep => ObjectsOutliveThreads'
<1> SUFFICES ASSUME TypeOK, Sessions, Plans, ObjectsOutliveThreads, ServerStep
             PROVE  ObjectsOutliveThreads'
  OBVIOUS
<1> USE DEF threads, sync, main, TypeOK, StagesOK, SyncOK, Goes, GivesUp, Active, Over,
            ObjectsOutliveThreads
<1>1. CASE ServerSays
  BY <1>1 DEF ServerSays
<1>2. CASE ServerEnds
  BY <1>2 DEF ServerEnds
<1>3. QED BY <1>1, <1>2 DEF ServerStep

-----------------------------------------------------------------------------
(* Permits, messages, the mutex and the flags, while main has not given up.*)


LEMMA MainKeepsCounts ==
  TypeOK /\ Sessions /\ Plans /\ Counts /\ MainStep => Counts'
<1> SUFFICES ASSUME TypeOK, Sessions, Plans, Counts, MainStep PROVE Counts'
  OBVIOUS
<1> USE DEF lists, permits, sync, flags, main, Goes, GivesUp, Does, Works
<1>1. CASE Connects
  BY <1>1 DEF TypeOK, StagesOK, SyncOK, Counts, Received, ToSend, Count, Connects, Sessions
<1>2. CASE CannotConnect
  BY <1>2 DEF TypeOK, StagesOK, SyncOK, Counts, Received, ToSend, Count, CannotConnect, Sessions
<1>3. CASE CreatesSender
  BY <1>3 DEF TypeOK, StagesOK, SyncOK, Counts, Received, ToSend, Count, CreatesSender,
     CreatesThread, first_step, Sessions
<1>4. CASE CreatesReceiver
  BY <1>4 DEF TypeOK, StagesOK, SyncOK, Counts, Received, ToSend, Count, CreatesReceiver,
     CreatesThread, first_step, Sessions
<1>5. CASE Posts
  <2>1. Len(gp_massage_to_send_hade') = Len(gp_massage_to_send_hade) + 1
    BY <1>5 DEF Posts, add_message_to_cell_arr, TypeOK, MessagesOK
  <2>2. Len(gp_massage_to_send_hade) \in Nat
    BY DEF TypeOK, MessagesOK
  <2>3. QED BY <1>5, <2>1, <2>2 DEF TypeOK, StagesOK, SyncOK, Counts, Received, ToSend, Count,
               Posts
<1>6. CASE CannotPost
  BY <1>6 DEF TypeOK, StagesOK, SyncOK, Counts, Received, ToSend, Count, CannotPost, PostFails
<1>7. CASE GivesPermit
  BY <1>7 DEF TypeOK, StagesOK, SyncOK, Counts, Received, ToSend, Count, GivesPermit
<1>8. CASE IsAnswered
  BY <1>8 DEF TypeOK, StagesOK, SyncOK, Counts, Received, ToSend, Count, IsAnswered
<1>9. CASE WaitTimesOut
  BY <1>9 DEF TypeOK, StagesOK, SyncOK, Counts, Received, ToSend, Count, WaitTimesOut, PostFails
<1>10. CASE TakesReceived
  BY <1>10 DEF TypeOK, StagesOK, SyncOK, Counts, Received, ToSend, Count, TakesReceived
<1>11. CASE ReadsFlag
  BY <1>11 DEF TypeOK, StagesOK, SyncOK, Counts, Received, ToSend, Count, ReadsFlag
<1>12. CASE TakesMessage
  <2>1. gp_recived_massge_hade # <<>> =>
          Len(Tail(gp_recived_massge_hade)) = Len(gp_recived_massge_hade) - 1
    BY DEF TypeOK, MessagesOK
  <2>2. Len(gp_recived_massge_hade) \in Nat
    BY DEF TypeOK, MessagesOK
  <2>3. QED BY <1>12, <2>1, <2>2, SMTT(30) DEF rest_of_list, TypeOK, StagesOK, SyncOK, Counts, Received,
               ToSend, Count, TakesMessage
<1>13. CASE Answers
  BY <1>13 DEF TypeOK, StagesOK, SyncOK, Counts, Received, ToSend, Count, Answers
<1>14. CASE IsDenied
  BY <1>14 DEF TypeOK, StagesOK, SyncOK, Counts, Received, ToSend, Count, IsDenied
<1>15. CASE StartsShutdown
  BY <1>15 DEF TypeOK, StagesOK, SyncOK, Counts, Received, ToSend, Count, StartsShutdown
<1>16. CASE Joins
  BY <1>16 DEF TypeOK, StagesOK, SyncOK, Counts, Received, ToSend, Count, Joins
<1>17. CASE ReleasesLists
  BY <1>17 DEF TypeOK, StagesOK, SyncOK, Counts, Received, ToSend, Count, ReleasesLists
<1>18. CASE WakesSender
  BY <1>18 DEF TypeOK, StagesOK, SyncOK, Counts, Received, ToSend, Count, WakesSender
<1>19. CASE ClosesThreads
  <2>1. pc'["main"] = pc["main"] /\ pc["main"] \in {"release", "reset"}
    BY <1>19 DEF TypeOK, StagesOK, HandlesOK, REC_THREAD, SEND_THREAD, ClosesThreads,
       ClosesThread,
              end_thread
  <2>2. QED BY <2>1 DEF Counts
<1>20. CASE ClosesSocket
  BY <1>20 DEF TypeOK, StagesOK, SyncOK, Counts, Received, ToSend, Count, ClosesSocket
<1>21. CASE close_sync_object
  BY <1>21 DEF TypeOK, StagesOK, SyncOK, Counts, Received, ToSend, Count, close_sync_object
<1>22. CASE Finishes
  BY <1>22 DEF TypeOK, StagesOK, SyncOK, Counts, Received, ToSend, Count, Finishes, Plans, PlanOf
<1>23. QED BY <1>1, <1>2, <1>3, <1>4, <1>5, <1>6, <1>7, <1>8, <1>9, <1>10, <1>11, <1>12, <1>13,
              <1>14, <1>15, <1>16, <1>17, <1>18, <1>19, <1>20, <1>21, <1>22 DEF MainStep

LEMMA ReceiverKeepsCounts ==
  TypeOK /\ Sessions /\ Plans /\ Counts /\ ReceiverStep => Counts'
<1> SUFFICES ASSUME TypeOK, Sessions, Plans, Counts, ReceiverStep PROVE Counts'
  OBVIOUS
<1> USE DEF lists, permits, sync, flags, main, Goes, GivesUp, Does, Works
<1>1. CASE Receives
  BY <1>1 DEF TypeOK, StagesOK, SyncOK, Counts, Received, ToSend, Count, Receives
<1>2. CASE ReleasesAlarm
  <2>1. CASE Works /\ g_rcev_semapore < MAX_MESSAGES_IN_BUF
    BY <1>2, <2>1 DEF TypeOK, StagesOK, SyncOK, Counts, Received, ToSend, Count, ReleasesAlarm,
                    alarm_permits
  <2>2. CASE ~has_sync \/ ~(g_rcev_semapore < MAX_MESSAGES_IN_BUF)
    BY <1>2, <2>2 DEF TypeOK, StagesOK, Counts, ReleasesAlarm
  <2>3. CASE has_sync /\ ~Works /\ g_rcev_semapore < MAX_MESSAGES_IN_BUF
    BY <1>2, <2>3 DEF TypeOK, StagesOK, Counts, ReleasesAlarm
  <2>4. QED BY <2>1, <2>2, <2>3
<1>3. CASE RaisesFlag
  BY <1>3 DEF TypeOK, StagesOK, SyncOK, Counts, Received, ToSend, Count, RaisesFlag
<1>4. CASE ReceivesFin
  BY <1>4 DEF TypeOK, StagesOK, SyncOK, Counts, Received, ToSend, Count, ReceivesFin
<1>5. CASE ReceiverCloses
  BY <1>5 DEF TypeOK, StagesOK, SyncOK, Counts, Received, ToSend, Count, ReceiverCloses
<1>6. CASE ReceiverQuits
  BY <1>6 DEF TypeOK, StagesOK, SyncOK, Counts, Received, ToSend, Count, ReceiverQuits
<1>7. CASE ReceiverLocks
  BY <1>7 DEF TypeOK, StagesOK, SyncOK, Counts, Received, ToSend, Count, ReceiverLocks
<1>8. CASE ReceiverAppends
  <2>1. Len(gp_recived_massge_hade') = Len(gp_recived_massge_hade) + 1
    BY <1>8 DEF ReceiverAppends, add_message_to_cell_arr, TypeOK, MessagesOK
  <2>2. Len(gp_recived_massge_hade) \in Nat
    BY DEF TypeOK, MessagesOK
  <2>3. QED BY <1>8, <2>1, <2>2 DEF TypeOK, StagesOK, SyncOK, Counts, Received, ToSend, Count,
               ReceiverAppends
<1>9. CASE ReceiverSignals
  BY <1>9 DEF TypeOK, StagesOK, SyncOK, Counts, Received, ToSend, Count, ReceiverSignals
<1>10. QED BY <1>1, <1>2, <1>3, <1>4, <1>5, <1>6, <1>7, <1>8, <1>9 DEF ReceiverStep

LEMMA SenderKeepsCounts ==
  TypeOK /\ Sessions /\ Plans /\ Counts /\ SenderStep => Counts'
<1> SUFFICES ASSUME TypeOK, Sessions, Plans, Counts, SenderStep PROVE Counts'
  OBVIOUS
<1> USE DEF lists, permits, sync, flags, main, Goes, GivesUp, Does, Works
<1>1. CASE SenderTakesPermit
  BY <1>1, SMTT(30) DEF TypeOK, StagesOK, SyncOK, Counts, Received, ToSend, Count, SenderTakesPermit
<1>2. CASE SenderChecks
  BY <1>2 DEF TypeOK, StagesOK, SyncOK, Counts, Received, ToSend, Count, SenderChecks
<1>3. CASE SenderLocks
  BY <1>3 DEF TypeOK, StagesOK, SyncOK, Counts, Received, ToSend, Count, SenderLocks
<1>4. CASE SenderSends
  <2>1. Len(gp_massage_to_send_hade') = Len(gp_massage_to_send_hade) - 1
        /\ Len(gp_massage_to_send_hade) \in Nat
    BY <1>4 DEF SenderSends, TypeOK, MessagesOK
  <2>2. /\ pc["sender"] = "send" /\ pc'["sender"] \in {"wait", "failed"}
        /\ pc'["main"] = pc["main"] /\ pc'["receiver"] = pc["receiver"]
        /\ g_hads_mutex' = "free"
        /\ UNCHANGED <<has_sync, g_rcev_semapore, g_send_semapore, gp_recived_massge_hade,
                       is_trans_failed, g_start_graceful_shutdown>>
    BY <1>4 DEF SenderSends, TypeOK, StagesOK
  <2>3. Works => Received'
    BY <2>2 DEF Counts, Received, Count
  <2>4. Works => ToSend'
    BY <2>1, <2>2 DEF Counts, ToSend, Count, TypeOK, SyncOK
  <2>5. QED BY <2>2, <2>3, <2>4 DEF Counts
<1>5. CASE SenderFindsNothing
  <2>1. Len(gp_massage_to_send_hade) = 0
    BY <1>5 DEF SenderFindsNothing
  <2>2. QED BY <1>5, <2>1 DEF TypeOK, StagesOK, SyncOK, Counts, Received, ToSend, Count,
               SenderFindsNothing, Ended
<1>6. CASE SenderShuts
  BY <1>6 DEF TypeOK, StagesOK, SyncOK, Counts, Received, ToSend, Count, SenderShuts
<1>7. CASE SenderJoins
  BY <1>7 DEF TypeOK, StagesOK, SyncOK, Counts, Received, ToSend, Count, SenderJoins
<1>8. QED BY <1>1, <1>2, <1>3, <1>4, <1>5, <1>6, <1>7 DEF SenderStep

LEMMA ServerKeepsCounts ==
  TypeOK /\ Sessions /\ Plans /\ Counts /\ ServerStep => Counts'
<1> SUFFICES ASSUME TypeOK, Sessions, Plans, Counts, ServerStep PROVE Counts'
  OBVIOUS
<1> USE DEF lists, permits, sync, flags, main, Goes, GivesUp, Does, Works
<1>1. CASE ServerSays
  BY <1>1 DEF TypeOK, StagesOK, SyncOK, Counts, Received, ToSend, Count, ServerSays
<1>2. CASE ServerEnds
  BY <1>2 DEF TypeOK, StagesOK, SyncOK, Counts, Received, ToSend, Count, ServerEnds
<1>3. QED BY <1>1, <1>2 DEF ServerStep

-----------------------------------------------------------------------------

LEMMA NextClient == ClientInv /\ [Next]_vars => ClientInv'
<1> SUFFICES ASSUME ClientInv, [Next]_vars PROVE ClientInv'
  OBVIOUS
<1> USE DEF ClientInv
<1>1. TypeOK'
  BY NextTypes
<1>2. CASE MainStep
  BY <1>1, <1>2, MainKeepsSessions, MainKeepsPlans, MainKeepsObjects, MainKeepsCounts
<1>3. CASE ReceiverStep
  BY <1>1, <1>3, ReceiverKeepsSessions, ReceiverKeepsPlans, ReceiverKeepsObjects,
     ReceiverKeepsCounts
<1>4. CASE SenderStep
  BY <1>1, <1>4, SenderKeepsSessions, SenderKeepsPlans, SenderKeepsObjects, SenderKeepsCounts
<1>5. CASE ServerStep
  BY <1>1, <1>5, ServerKeepsSessions, ServerKeepsPlans, ServerKeepsObjects, ServerKeepsCounts
<1>6. CASE UNCHANGED vars
  BY <1>1, <1>6 DEF Sessions, Plans, Counts, ObjectsOutliveThreads, Works, Received, ToSend,
     Active,
                    vars, threads, lists, permits, sync, flags, main
<1>7. QED BY <1>2, <1>3, <1>4, <1>5, <1>6 DEF Next

(* The client's invariant, for any number of messages, connections and     *)
(* permits, whether threads fail to start or the server breaks off.        *)
THEOREM ClientInvariant == Spec => []ClientInv
<1>1. Init => ClientInv
  BY InitTypes, InitClient DEF ClientInv
<1>2. QED BY <1>1, NextClient, PTL DEF Spec

(* Main never takes the head of an empty list of received messages but     *)
(* between the receiver's alarm and its flag.                              *)
THEOREM ReceivedHasPermitHolds == Spec => []ReceivedHasPermit
<1>1. ClientInv => ReceivedHasPermit
  BY DEF ClientInv, Counts, Works, Received, ReceivedHasPermit, InDialogue
<1>2. QED BY <1>1, ClientInvariant, PTL

(* Wherever main gives up on the first connection, it has ended both       *)
(* threads before it closes the objects they use.                          *)
THEOREM ObjectsOutliveThreadsHolds == Spec => []ObjectsOutliveThreads
<1>1. ClientInv => ObjectsOutliveThreads
  BY DEF ClientInv
<1>2. QED BY <1>1, ClientInvariant, PTL

-----------------------------------------------------------------------------
(* For the dialogue: what is under way to main is what the server said,    *)
(* and after it, perhaps, the end of the connection.                       *)
Talk ==
  /\ \A i \in 1 .. Len(to_client) : to_client[i] \in Message \cup {"FIN", "RST"}
  /\ \A i \in 1 .. Len(to_client) - 1 : to_client[i] \in Message
  /\ \A i \in 1 .. Len(gp_recived_massge_hade) : gp_recived_massge_hade[i] \in Message
  /\ pc["receiver"] \in {"lock", "append"} => accepted \in Message
  /\ has_sync /\ pc["receiver"] \notin {"lock", "append", "ended", "failed", "killed"} =>
       accepted \notin Message

(* Main deals with one message at a time, and what it answers fits.        *)
Dealing ==
  Works =>
    /\ pc["main"] \notin {"choose", "post"} => massage = "none"
    /\ pc["main"] = "choose" => massage \in Question \cup {"SERVER_DENIED"}
    /\ pc["main"] = "post" =>
         IF posting = "CLIENT_REQUEST" THEN massage = "none"
         ELSE massage \in Question /\ posting \in ThePlayer!answers(massage)

(* Before main has asked, nothing was said on the connection.              *)
Unheard ==
  /\ \A i \in 1 .. Len(to_client) : to_client[i] \notin Message
  /\ gp_recived_massge_hade = <<>> /\ accepted \notin Message
First ==
  /\ ~has_sync => pc["sender"] \in Over \cup {"wait"}
  /\ session = 0 => to_server = <<>>
  /\ Unasked /\ (has_sync \/ pc["main"] # "connect") => to_server = <<>>
  /\ has_sync /\ Unasked => gp_massage_to_send_hade = <<>>
  /\ has_sync /\ to_server = <<>> => Unheard

(* When main has given up, nothing is left for a sender that still runs.   *)
Last ==
  has_sync /\ Active("sender") /\ pc["main"] \in {"release", "reset"} =>
    /\ SocketAfterSender(to_release)
    /\ IF to_release[1] = "list" THEN g_hads_mutex \in {"free", "sender", "receiver"}
       ELSE gp_massage_to_send_hade = <<>>

LEMMA TailElements ==
  ASSUME NEW S, NEW s \in Seq(S), s # <<>>
  PROVE  /\ Head(s) = s[1] /\ Head(s) \in S /\ Tail(s) \in Seq(S)
         /\ Len(s) \in Nat /\ 1 \in 1 .. Len(s) /\ Len(Tail(s)) = Len(s) - 1
         /\ \A i \in 1 .. Len(Tail(s)) : i + 1 \in 1 .. Len(s) /\ Tail(s)[i] = s[i + 1]
  OBVIOUS

LEMMA AppendElements ==
  ASSUME NEW S, NEW s \in Seq(S), NEW x \in S
  PROVE  /\ Append(s, x) \in Seq(S) /\ Len(s) \in Nat /\ Len(Append(s, x)) = Len(s) + 1
         /\ \A i \in 1 .. Len(Append(s, x)) :
              (i \in 1 .. Len(s) /\ Append(s, x)[i] = s[i]) \/ (i = Len(s) + 1 /\ Append(s, x)[i] = x)
  OBVIOUS

LEMMA InitTalk == Init => Talk /\ Dealing /\ First /\ Last
  BY DEF Init, Talk, Dealing, First, Last, Unheard, Works, Active, Over, Unasked, Message,
     Question


LEMMA MainKeepsTalk ==
  ClientInv /\ Talk /\ MainStep => Talk'
<1> SUFFICES ASSUME ClientInv, Talk, MainStep PROVE Talk'
  OBVIOUS
<1> USE DEF ClientInv, TypeOK, StagesOK, Talk, link, lists, sync, Goes, GivesUp
<1>1. CASE Connects
  BY <1>1 DEF Connects, Sessions
<1>2. CASE CannotConnect
  BY <1>2 DEF CannotConnect, Sessions
<1>3. CASE CreatesSender
  BY <1>3 DEF CreatesSender, CreatesThread, first_step, Sessions
<1>4. CASE CreatesReceiver
  BY <1>4 DEF CreatesReceiver, CreatesThread, first_step, Sessions
<1>5. CASE Posts
  BY <1>5 DEF Posts
<1>6. CASE CannotPost
  BY <1>6 DEF CannotPost, PostFails
<1>7. CASE GivesPermit
  BY <1>7 DEF GivesPermit
<1>8. CASE IsAnswered
  BY <1>8 DEF IsAnswered
<1>9. CASE WaitTimesOut
  BY <1>9 DEF WaitTimesOut, PostFails
<1>10. CASE TakesReceived
  BY <1>10 DEF TakesReceived
<1>11. CASE ReadsFlag
  BY <1>11 DEF ReadsFlag
<1>12. CASE TakesMessage
  <2>1. ASSUME gp_recived_massge_hade # <<>>
        PROVE  \A i \in 1 .. Len(Tail(gp_recived_massge_hade)) : Tail(gp_recived_massge_hade)[i] \in Message
    <3>1. gp_recived_massge_hade \in Seq(Heard)
      BY DEF MessagesOK
    <3>2. QED BY <2>1, <3>1, TailElements
  <2>2. \A i \in 1 .. Len(gp_recived_massge_hade') : gp_recived_massge_hade'[i] \in Message
    BY <1>12, <2>1 DEF TakesMessage, rest_of_list
  <2>3. UNCHANGED <<to_client, accepted, has_sync>> /\ pc'["receiver"] = pc["receiver"]
    BY <1>12 DEF TakesMessage
  <2>4. QED BY <2>2, <2>3
<1>13. CASE Answers
  BY <1>13 DEF Answers
<1>14. CASE IsDenied
  BY <1>14 DEF IsDenied
<1>15. CASE StartsShutdown
  BY <1>15 DEF StartsShutdown
<1>16. CASE Joins
  BY <1>16 DEF Joins
<1>17. CASE ReleasesLists
  BY <1>17 DEF ReleasesLists
<1>18. CASE WakesSender
  BY <1>18 DEF WakesSender
<1>19. CASE ClosesThreads
  BY <1>19 DEF ClosesThreads, ClosesThread, end_thread, Ended, HandlesOK, REC_THREAD, SEND_THREAD
<1>20. CASE ClosesSocket
  BY <1>20 DEF ClosesSocket
<1>21. CASE close_sync_object
  BY <1>21 DEF close_sync_object
<1>22. CASE Finishes
  BY <1>22 DEF Finishes
<1>23. QED BY <1>1, <1>2, <1>3, <1>4, <1>5, <1>6, <1>7, <1>8, <1>9, <1>10, <1>11, <1>12, <1>13,
              <1>14, <1>15, <1>16, <1>17, <1>18, <1>19, <1>20, <1>21, <1>22 DEF MainStep

LEMMA ReceiverKeepsTalk ==
  ClientInv /\ Talk /\ ReceiverStep => Talk'
<1> SUFFICES ASSUME ClientInv, Talk, ReceiverStep PROVE Talk'
  OBVIOUS
<1> USE DEF ClientInv, TypeOK, StagesOK, Talk, link, lists, sync, Goes, GivesUp
<1>1. CASE Receives
  <2>1. to_client \in Seq(Heard)
    BY DEF MessagesOK
  <2>2. /\ \A i \in 1 .. Len(to_client') : to_client'[i] \in Message \cup {"FIN", "RST"}
        /\ \A i \in 1 .. Len(to_client') - 1 : to_client'[i] \in Message
    <3>1. CASE UNCHANGED to_client
      BY <3>1
    <3>2. CASE to_client # <<>> /\ to_client' = Tail(to_client)
      <4>1. PICK u : u = Tail(to_client)
        OBVIOUS
      <4>2. /\ Len(to_client) \in Nat /\ Len(u) = Len(to_client) - 1
            /\ \A i \in 1 .. Len(u) : i + 1 \in 1 .. Len(to_client) /\ u[i] = to_client[i + 1]
        BY <2>1, <3>2, <4>1, TailElements
      <4>3. \A i \in 1 .. Len(u) - 1 : i \in 1 .. Len(u) /\ i + 1 \in 1 .. Len(to_client) - 1
        BY <4>2
      <4>4. QED BY <3>2, <4>1, <4>2, <4>3
    <3>3. QED BY <1>1, <3>1, <3>2 DEF Receives
  <2>3. /\ accepted' \in Message \cup {"FIN", "RST"} /\ pc'["receiver"] \in {"ended", "alarm", "fin", "lock"}
        /\ pc'["receiver"] = "lock" => accepted' \notin {"FIN", "RST"}
        /\ pc'["receiver"] \in {"alarm", "fin"} => accepted' \in {"FIN", "RST"}
    <3>1. to_client # <<>> => Head(to_client) \in Message \cup {"FIN", "RST"}
      BY <2>1, TailElements
    <3>2. accepted' \in Message \cup {"FIN", "RST"}
      BY <1>1, <3>1 DEF Receives
    <3>3. QED BY <1>1, <3>2 DEF Receives
  <2>4. {"FIN", "RST"} \cap Message = {} /\ UNCHANGED <<gp_recived_massge_hade, has_sync>>
    BY <1>1 DEF Receives, Message, Question
  <2>5. QED BY <2>2, <2>3, <2>4
<1>2. CASE ReleasesAlarm
  <2>1. /\ accepted' = "none" /\ "none" \notin Message
        /\ pc'["receiver"] \notin {"lock", "append"}
        /\ UNCHANGED <<to_client, gp_recived_massge_hade, has_sync>>
    BY <1>2 DEF ReleasesAlarm, Message, Question
  <2>2. QED BY <2>1
<1>3. CASE RaisesFlag
  BY <1>3 DEF RaisesFlag
<1>4. CASE ReceivesFin
  <2>1. /\ accepted' = "none" /\ "none" \notin Message
        /\ pc'["receiver"] \notin {"lock", "append"}
        /\ UNCHANGED <<to_client, gp_recived_massge_hade, has_sync>>
    BY <1>4 DEF ReceivesFin, Message, Question
  <2>2. QED BY <2>1
<1>5. CASE ReceiverCloses
  BY <1>5 DEF ReceiverCloses
<1>6. CASE ReceiverQuits
  BY <1>6 DEF ReceiverQuits
<1>7. CASE ReceiverLocks
  BY <1>7 DEF ReceiverLocks
<1>8. CASE ReceiverAppends
  <2>1. /\ accepted' = "none" /\ "none" \notin Message /\ pc'["receiver"] = "signal"
        /\ UNCHANGED <<to_client, has_sync>> /\ accepted \in Message
    BY <1>8 DEF ReceiverAppends, Message, Question
  <2>2. gp_recived_massge_hade' = Append(gp_recived_massge_hade, accepted)
        /\ gp_recived_massge_hade \in Seq(Heard) /\ accepted \in Heard
    BY <1>8 DEF ReceiverAppends, add_message_to_cell_arr, MessagesOK
  <2>3. \A i \in 1 .. Len(gp_recived_massge_hade') : gp_recived_massge_hade'[i] \in Message
    BY <2>1, <2>2, AppendElements
  <2>4. QED BY <2>1, <2>3
<1>9. CASE ReceiverSignals
  BY <1>9 DEF ReceiverSignals
<1>10. QED BY <1>1, <1>2, <1>3, <1>4, <1>5, <1>6, <1>7, <1>8, <1>9 DEF ReceiverStep

LEMMA SenderKeepsTalk ==
  ClientInv /\ Talk /\ SenderStep => Talk'
<1> SUFFICES ASSUME ClientInv, Talk, SenderStep PROVE Talk'
  OBVIOUS
<1> USE DEF ClientInv, TypeOK, StagesOK, Talk, link, lists, sync, Goes, GivesUp
<1>1. CASE SenderTakesPermit
  BY <1>1 DEF SenderTakesPermit
<1>2. CASE SenderChecks
  BY <1>2 DEF SenderChecks
<1>3. CASE SenderLocks
  BY <1>3 DEF SenderLocks
<1>4. CASE SenderSends
  BY <1>4 DEF SenderSends
<1>5. CASE SenderFindsNothing
  BY <1>5 DEF SenderFindsNothing, Ended
<1>6. CASE SenderShuts
  BY <1>6 DEF SenderShuts
<1>7. CASE SenderJoins
  BY <1>7 DEF SenderJoins
<1>8. QED BY <1>1, <1>2, <1>3, <1>4, <1>5, <1>6, <1>7 DEF SenderStep

LEMMA ServerKeepsTalk ==
  ClientInv /\ Talk /\ ServerStep => Talk'
<1> SUFFICES ASSUME ClientInv, Talk, ServerStep PROVE Talk'
  OBVIOUS
<1>a. to_client \in Seq(Heard) /\ Message \subseteq Heard /\ "FIN" \in Heard
  BY DEF ClientInv, TypeOK, MessagesOK, Heard
<1>b. Len(to_client) \in Nat /\ \A i \in 1 .. Len(to_client) :
        i \in 1 .. Len(to_client) - 1 \/ i = Len(to_client)
  BY <1>a
<1>c. ~ServerGone => \A i \in 1 .. Len(to_client) : to_client[i] \in Message
  <2>1. ~ServerGone => to_client = <<>> \/ to_client[Len(to_client)] \in Message
    BY DEF ServerGone
  <2>2. QED BY <1>a, <1>b, <2>1 DEF Talk
<1>d. ASSUME NEW m \in Message \cup {"FIN", "RST"}, m \in Heard, to_client' = Append(to_client, m), ~ServerGone
      PROVE  /\ \A i \in 1 .. Len(to_client') : to_client'[i] \in Message \cup {"FIN", "RST"}
             /\ \A i \in 1 .. Len(to_client') - 1 : to_client'[i] \in Message
  <2>1. PICK u : u = Append(to_client, m)
    OBVIOUS
  <2>2. /\ Len(u) = Len(to_client) + 1
        /\ \A i \in 1 .. Len(u) :
             (i \in 1 .. Len(to_client) /\ u[i] = to_client[i]) \/ (i = Len(to_client) + 1 /\ u[i] = m)
    BY <1>a, <1>d, <2>1, AppendElements
  <2>3. \A i \in 1 .. Len(u) - 1 : i \in 1 .. Len(u) /\ i # Len(to_client) + 1
    BY <1>b, <2>2
  <2>4. QED BY <1>c, <1>d, <2>1, <2>2, <2>3
<1> USE DEF ClientInv, TypeOK, StagesOK, Talk, link, lists, sync, Goes, GivesUp
<1>1. CASE ServerSays
  <2>1. PICK m \in Message : to_client' = Append(to_client, m)
    BY <1>1 DEF ServerSays
  <2>2. ~ServerGone /\ UNCHANGED <<pc, gp_recived_massge_hade, accepted, has_sync>>
    BY <1>1 DEF ServerSays
  <2>3. QED BY <1>a, <1>d, <2>1, <2>2
<1>2. CASE ServerEnds
  <2>1. ~ServerGone /\ UNCHANGED <<pc, gp_recived_massge_hade, accepted, has_sync>>
    BY <1>2 DEF ServerEnds
  <2>2. CASE to_client' = Append(to_client, "FIN")
    BY <1>a, <1>d, <2>1, <2>2
  <2>3. CASE to_client' = <<"RST">>
    <3>1. Len(to_client') = 1 /\ to_client'[1] = "RST"
      BY <2>3
    <3>2. QED BY <2>1, <3>1
  <2>4. QED BY <1>2, <2>2, <2>3 DEF ServerEnds
<1>3. QED BY <1>1, <1>2 DEF ServerStep

LEMMA MainKeepsDealing ==
  ClientInv /\ Talk /\ Dealing /\ MainStep => Dealing'
<1> SUFFICES ASSUME ClientInv, Talk, Dealing, MainStep PROVE Dealing'
  OBVIOUS
<1> USE DEF ClientInv, TypeOK, StagesOK, Dealing, Works, main, sync, Goes, GivesUp
<1>1. CASE Connects
  BY <1>1 DEF Connects
<1>2. CASE CannotConnect
  BY <1>2 DEF CannotConnect
<1>3. CASE CreatesSender
  BY <1>3 DEF CreatesSender, CreatesThread, first_step
<1>4. CASE CreatesReceiver
  BY <1>4 DEF CreatesReceiver, CreatesThread, first_step
<1>5. CASE Posts
  BY <1>5 DEF Posts
<1>6. CASE CannotPost
  BY <1>6 DEF CannotPost, PostFails, Counts
<1>7. CASE GivesPermit
  BY <1>7 DEF GivesPermit
<1>8. CASE IsAnswered
  BY <1>8 DEF IsAnswered
<1>9. CASE WaitTimesOut
  BY <1>9 DEF WaitTimesOut, PostFails
<1>10. CASE TakesReceived
  BY <1>10 DEF TakesReceived
<1>11. CASE ReadsFlag
  BY <1>11 DEF ReadsFlag
<1>12. CASE TakesMessage
  BY <1>12 DEF TakesMessage, Talk, MessagesOK, Message, Counts
<1>13. CASE Answers
  BY <1>13 DEF Answers, ThePlayer!answers, Question
<1>14. CASE IsDenied
  BY <1>14 DEF IsDenied
<1>15. CASE StartsShutdown
  BY <1>15 DEF StartsShutdown
<1>16. CASE Joins
  BY <1>16 DEF Joins
<1>17. CASE ReleasesLists
  BY <1>17 DEF ReleasesLists
<1>18. CASE WakesSender
  BY <1>18 DEF WakesSender
<1>19. CASE ClosesThreads
  BY <1>19 DEF ClosesThreads, ClosesThread, end_thread, Ended, HandlesOK, REC_THREAD, SEND_THREAD
<1>20. CASE ClosesSocket
  BY <1>20 DEF ClosesSocket
<1>21. CASE close_sync_object
  BY <1>21 DEF close_sync_object
<1>22. CASE Finishes
  BY <1>22 DEF Finishes, Plans, PlanOf
<1>23. QED BY <1>1, <1>2, <1>3, <1>4, <1>5, <1>6, <1>7, <1>8, <1>9, <1>10, <1>11, <1>12, <1>13,
              <1>14, <1>15, <1>16, <1>17, <1>18, <1>19, <1>20, <1>21, <1>22 DEF MainStep

LEMMA ReceiverKeepsDealing ==
  ClientInv /\ Talk /\ Dealing /\ ReceiverStep => Dealing'
<1> SUFFICES ASSUME ClientInv, Talk, Dealing, ReceiverStep PROVE Dealing'
  OBVIOUS
<1> USE DEF ClientInv, TypeOK, StagesOK, Dealing, Works, main, sync, Goes, GivesUp
<1>1. CASE Receives
  BY <1>1 DEF Receives
<1>2. CASE ReleasesAlarm
  BY <1>2 DEF ReleasesAlarm
<1>3. CASE RaisesFlag
  BY <1>3 DEF RaisesFlag
<1>4. CASE ReceivesFin
  BY <1>4 DEF ReceivesFin
<1>5. CASE ReceiverCloses
  BY <1>5 DEF ReceiverCloses
<1>6. CASE ReceiverQuits
  BY <1>6 DEF ReceiverQuits
<1>7. CASE ReceiverLocks
  BY <1>7 DEF ReceiverLocks
<1>8. CASE ReceiverAppends
  BY <1>8 DEF ReceiverAppends
<1>9. CASE ReceiverSignals
  BY <1>9 DEF ReceiverSignals
<1>10. QED BY <1>1, <1>2, <1>3, <1>4, <1>5, <1>6, <1>7, <1>8, <1>9 DEF ReceiverStep

LEMMA SenderKeepsDealing ==
  ClientInv /\ Talk /\ Dealing /\ SenderStep => Dealing'
<1> SUFFICES ASSUME ClientInv, Talk, Dealing, SenderStep PROVE Dealing'
  OBVIOUS
<1> USE DEF ClientInv, TypeOK, StagesOK, Dealing, Works, main, sync, Goes, GivesUp
<1>1. CASE SenderTakesPermit
  BY <1>1 DEF SenderTakesPermit
<1>2. CASE SenderChecks
  BY <1>2 DEF SenderChecks
<1>3. CASE SenderLocks
  BY <1>3 DEF SenderLocks
<1>4. CASE SenderSends
  BY <1>4 DEF SenderSends
<1>5. CASE SenderFindsNothing
  BY <1>5 DEF SenderFindsNothing, Ended
<1>6. CASE SenderShuts
  BY <1>6 DEF SenderShuts
<1>7. CASE SenderJoins
  BY <1>7 DEF SenderJoins
<1>8. QED BY <1>1, <1>2, <1>3, <1>4, <1>5, <1>6, <1>7 DEF SenderStep

LEMMA ServerKeepsDealing ==
  ClientInv /\ Talk /\ Dealing /\ ServerStep => Dealing'
<1> SUFFICES ASSUME ClientInv, Talk, Dealing, ServerStep PROVE Dealing'
  OBVIOUS
<1> USE DEF ClientInv, TypeOK, StagesOK, Dealing, Works, main, sync, Goes, GivesUp
<1>1. CASE ServerSays
  BY <1>1 DEF ServerSays
<1>2. CASE ServerEnds
  BY <1>2 DEF ServerEnds
<1>3. QED BY <1>1, <1>2 DEF ServerStep

LEMMA MainKeepsFirst ==
  ClientInv /\ Talk /\ Dealing /\ First /\ MainStep => First'
<1> SUFFICES ASSUME ClientInv, Talk, Dealing, First, MainStep PROVE First'
  OBVIOUS
<1> USE DEF ClientInv, TypeOK, StagesOK, First, Unheard, Unasked, main, link, lists, sync, Goes, GivesUp
<1>1. CASE Connects
  BY <1>1 DEF Connects, Sessions, Over
<1>2. CASE CannotConnect
  BY <1>2 DEF CannotConnect, Sessions, Over
<1>3. CASE CreatesSender
  BY <1>3 DEF CreatesSender, CreatesThread, first_step, Sessions, Over
<1>4. CASE CreatesReceiver
  BY <1>4 DEF CreatesReceiver, CreatesThread, first_step, Sessions, Over
<1>5. CASE Posts
  BY <1>5 DEF Posts, Over
<1>6. CASE CannotPost
  BY <1>6 DEF CannotPost, PostFails, Over
<1>7. CASE GivesPermit
  BY <1>7 DEF GivesPermit, Over
<1>8. CASE IsAnswered
  BY <1>8 DEF IsAnswered, Over
<1>9. CASE WaitTimesOut
  BY <1>9 DEF WaitTimesOut, PostFails, Over
<1>10. CASE TakesReceived
  BY <1>10 DEF TakesReceived, Over
<1>11. CASE ReadsFlag
  BY <1>11 DEF ReadsFlag, Over
<1>12. CASE TakesMessage
  BY <1>12 DEF TakesMessage, Over
<1>13. CASE Answers
  BY <1>13 DEF Answers, Over
<1>14. CASE IsDenied
  BY <1>14 DEF IsDenied, Over
<1>15. CASE StartsShutdown
  BY <1>15 DEF StartsShutdown, Over
<1>16. CASE Joins
  BY <1>16 DEF Joins, Over
<1>17. CASE ReleasesLists
  BY <1>17 DEF ReleasesLists, Over
<1>18. CASE WakesSender
  BY <1>18 DEF WakesSender, Over
<1>19. CASE ClosesThreads
  BY <1>19 DEF ClosesThreads, ClosesThread, end_thread, Ended, HandlesOK, REC_THREAD,
     SEND_THREAD, Over
<1>20. CASE ClosesSocket
  BY <1>20 DEF ClosesSocket, Over
<1>21. CASE close_sync_object
  <2>1. has_sync => ~Active("sender")
    BY <1>21, ClosesObjectsLast
  <2>2. pc["sender"] \in Over \cup {"wait"}
    BY <2>1 DEF Active
  <2>3. ~has_sync' /\ UNCHANGED <<pc, session, to_server, posting>>
    BY <1>21 DEF close_sync_object
  <2>4. pc["main"] \in {"release", "reset"}
    BY <1>21 DEF close_sync_object, Does
  <2>5. QED BY <2>2, <2>3, <2>4
<1>22. CASE Finishes
  BY <1>22 DEF Finishes, Plans, PlanOf, Does, Over
<1>23. QED BY <1>1, <1>2, <1>3, <1>4, <1>5, <1>6, <1>7, <1>8, <1>9, <1>10, <1>11, <1>12, <1>13,
              <1>14, <1>15, <1>16, <1>17, <1>18, <1>19, <1>20, <1>21, <1>22 DEF MainStep

LEMMA ReceiverKeepsFirst ==
  ClientInv /\ Talk /\ Dealing /\ First /\ ReceiverStep => First'
<1> SUFFICES ASSUME ClientInv, Talk, Dealing, First, ReceiverStep PROVE First'
  OBVIOUS
<1> USE DEF ClientInv, TypeOK, StagesOK, First, Unheard, Unasked, main, link, lists, sync, Goes, GivesUp
<1>1. CASE Receives
  <2>1. ASSUME Unheard PROVE Unheard'
    <3>1. to_client \in Seq(Heard)
      BY DEF MessagesOK
    <3>2. ASSUME to_client # <<>>
          PROVE  /\ Head(to_client) \notin Message
                 /\ \A i \in 1 .. Len(Tail(to_client)) : Tail(to_client)[i] \notin Message
      BY <2>1, <3>1, <3>2, TailElements
    <3>3. accepted' \notin Message
      BY <1>1, <3>2 DEF Receives, Message, Question
    <3>4. \A i \in 1 .. Len(to_client') : to_client'[i] \notin Message
      BY <1>1, <2>1, <3>2 DEF Receives
    <3>5. UNCHANGED gp_recived_massge_hade
      BY <1>1 DEF Receives
    <3>6. QED BY <2>1, <3>3, <3>4, <3>5
  <2>2. /\ UNCHANGED <<has_sync, to_server, session, posting, gp_massage_to_send_hade>>
        /\ pc'["sender"] = pc["sender"] /\ pc'["main"] = pc["main"]
    BY <1>1 DEF Receives
  <2>3. QED BY <2>1, <2>2
<1>2. CASE ReleasesAlarm
  BY <1>2 DEF ReleasesAlarm, Message, Question
<1>3. CASE RaisesFlag
  BY <1>3 DEF RaisesFlag
<1>4. CASE ReceivesFin
  BY <1>4 DEF ReceivesFin, Message, Question
<1>5. CASE ReceiverCloses
  BY <1>5 DEF ReceiverCloses
<1>6. CASE ReceiverQuits
  BY <1>6 DEF ReceiverQuits
<1>7. CASE ReceiverLocks
  BY <1>7 DEF ReceiverLocks, Message, Question
<1>8. CASE ReceiverAppends
  <2>1. accepted \in Message
    BY <1>8 DEF ReceiverAppends, Talk
  <2>2. has_sync => to_server # <<>>
    BY <2>1
  <2>3. /\ UNCHANGED <<has_sync, to_server, session, posting, gp_massage_to_send_hade>>
        /\ pc'["sender"] = pc["sender"] /\ pc'["main"] = pc["main"]
    BY <1>8 DEF ReceiverAppends
  <2>4. QED BY <2>2, <2>3
<1>9. CASE ReceiverSignals
  BY <1>9 DEF ReceiverSignals
<1>10. QED BY <1>1, <1>2, <1>3, <1>4, <1>5, <1>6, <1>7, <1>8, <1>9 DEF ReceiverStep

LEMMA SenderKeepsFirst ==
  ClientInv /\ Talk /\ Dealing /\ First /\ SenderStep => First'
<1> SUFFICES ASSUME ClientInv, Talk, Dealing, First, SenderStep PROVE First'
  OBVIOUS
<1> USE DEF ClientInv, TypeOK, StagesOK, First, Unheard, Unasked, main, link, lists, sync, Goes, GivesUp
<1>1. CASE SenderTakesPermit
  BY <1>1 DEF SenderTakesPermit, Over
<1>2. CASE SenderChecks
  BY <1>2 DEF SenderChecks, Over
<1>3. CASE SenderLocks
  BY <1>3 DEF SenderLocks, Over
<1>4. CASE SenderSends
  <2>1. has_sync /\ ~Unasked
    BY <1>4 DEF SenderSends, Over
  <2>2. /\ UNCHANGED <<has_sync, session, posting>> /\ pc'["main"] = pc["main"]
        /\ UNCHANGED <<to_client, gp_recived_massge_hade, accepted>>
    BY <1>4 DEF SenderSends
  <2>3. to_server' = <<>> => to_server = <<>>
    <3>1. PICK m : m = Head(gp_massage_to_send_hade)
      OBVIOUS
    <3>2. m \in Spoken /\ to_server \in Seq(Spoken)
      BY <1>4, <3>1 DEF SenderSends, MessagesOK
    <3>3. Append(to_server, m) # <<>>
      BY <3>2
    <3>4. to_server' = Append(to_server, m) \/ UNCHANGED to_server
      BY <1>4, <3>1 DEF SenderSends
    <3>5. QED BY <3>3, <3>4
  <2>4. session # 0
    BY <1>4 DEF SenderSends, Sessions
  <2>5. QED BY <2>1, <2>2, <2>3, <2>4
<1>5. CASE SenderFindsNothing
  BY <1>5 DEF SenderFindsNothing, Ended, Over
<1>6. CASE SenderShuts
  BY <1>6 DEF SenderShuts, Over
<1>7. CASE SenderJoins
  BY <1>7 DEF SenderJoins, Over
<1>8. QED BY <1>1, <1>2, <1>3, <1>4, <1>5, <1>6, <1>7 DEF SenderStep

LEMMA ServerKeepsFirst ==
  ClientInv /\ Talk /\ Dealing /\ First /\ ServerStep => First'
<1> SUFFICES ASSUME ClientInv, Talk, Dealing, First, ServerStep PROVE First'
  OBVIOUS
<1> USE DEF ClientInv, TypeOK, StagesOK, First, Unheard, Unasked, main, link, lists, sync, Goes, GivesUp
<1>1. CASE ServerSays
  BY <1>1 DEF ServerSays
<1>2. CASE ServerEnds
  <2>1. ASSUME Unheard PROVE Unheard'
    <3>1. to_client \in Seq(Heard) /\ "FIN" \in Heard /\ "FIN" \notin Message /\ "RST" \notin Message
      BY DEF MessagesOK, Heard, Message, Question
    <3>2. to_client' = Append(to_client, "FIN") \/ to_client' = <<"RST">>
      BY <1>2 DEF ServerEnds
    <3>3. CASE to_client' = Append(to_client, "FIN")
      <4>1. \A i \in 1 .. Len(to_client') : to_client'[i] \notin Message
        BY <2>1, <3>1, <3>3, AppendElements
      <4>2. QED BY <1>2, <2>1, <4>1 DEF ServerEnds
    <3>4. CASE to_client' = <<"RST">>
      <4>1. \A i \in 1 .. Len(to_client') : to_client'[i] \notin Message
        BY <3>1, <3>4
      <4>2. QED BY <1>2, <2>1, <4>1 DEF ServerEnds
    <3>5. QED BY <3>2, <3>3, <3>4
  <2>2. UNCHANGED <<pc, has_sync, to_server, session, posting, gp_massage_to_send_hade>>
    BY <1>2 DEF ServerEnds
  <2>3. QED BY <2>1, <2>2
<1>3. QED BY <1>1, <1>2 DEF ServerStep

LEMMA SocketTail ==
  ASSUME NEW s \in Seq(Tasks), s # <<>>, SocketAfterSender(s), s[1] # "second"
  PROVE  s[1] # "socket" /\ SocketAfterSender(Tail(s))
<1>1. s[1] # "socket"
  BY TailElements DEF SocketAfterSender
<1>2. PICK u : u = Tail(s)
  OBVIOUS
<1>3. Len(s) \in Nat /\ \A i \in 1 .. Len(u) : i + 1 \in 1 .. Len(s) /\ u[i] = s[i + 1]
  BY <1>2, TailElements
<1>3a. Len(u) = Len(s) - 1
  BY <1>2, TailElements
<1>4. ASSUME NEW i \in 1 .. Len(u), u[i] = "socket" PROVE \E j \in 1 .. i - 1 : u[j] = "second"
  <2>1. i + 1 \in 1 .. Len(s) /\ s[i + 1] = "socket" /\ (i + 1) - 1 = i /\ i \in Nat
    BY <1>3, <1>3a, <1>4
  <2>2. PICK j \in 1 .. i : s[j] = "second"
    BY <2>1 DEF SocketAfterSender
  <2>3. j # 1
    BY <2>2
  <2>4. j - 1 \in 1 .. i - 1 /\ j - 1 \in 1 .. Len(u) /\ (j - 1) + 1 = j
    BY <1>3, <1>3a, <2>1, <2>3
  <2>5. QED BY <1>3, <2>2, <2>4
<1>5. QED BY <1>1, <1>2, <1>4 DEF SocketAfterSender

(* Main gives up while the mutex is as it should be.                       *)
LEMMA GivesUpLast ==
  ASSUME ClientInv, First, Works, NEW stage \in {"RELEASE_THREADS", "RELEASE_LINK_LIST", "RELEASE_ALL",
                                          "DENIED_BY_SERVER"},
         to_release' = release_source(stage), UNCHANGED <<g_hads_mutex, gp_massage_to_send_hade>>,
         stage = "RELEASE_THREADS" => Unasked
  PROVE  Last'
<1>1. SocketAfterSender(to_release')
  BY PlanFacts DEF PlanOf
<1>2. to_release'[1] = "list" <=> stage # "RELEASE_THREADS"
  BY PlanFacts
<1>3. g_hads_mutex \in {"free", "sender", "receiver"}
  BY DEF ClientInv, Counts
<1>4. stage = "RELEASE_THREADS" => gp_massage_to_send_hade = <<>>
  BY DEF First, Works
<1>5. QED BY <1>1, <1>2, <1>3, <1>4 DEF Last

(* Main has done a task while the sender lives.                            *)
LEMMA DoesLast ==
  ASSUME ClientInv, Last, NEW what \in {"list", "wake", "first", "socket"}, Does(what), has_sync,
         pc'["main"] = pc["main"], Active("sender"),
         gp_massage_to_send_hade' = <<>> \/ (what # "list" /\ UNCHANGED gp_massage_to_send_hade)
  PROVE  Last'
<1>1. PICK s \in Seq(Tasks) : s = to_release
  BY DEF ClientInv, TypeOK
<1>2. s # <<>> /\ s[1] = what /\ to_release' = Tail(s) /\ pc["main"] \in {"release", "reset"}
  BY <1>1, TailElements DEF Does
<1>3. SocketAfterSender(s) /\ PlanOf(s, FALSE)
  BY <1>1, <1>2 DEF Last, ClientInv, Plans
<1>4. SocketAfterSender(Tail(s)) /\ what # "socket"
  BY <1>2, <1>3, SocketTail
<1>5. Tail(s)[1] # "list"
  <2>1. Len(s) \in Nat /\ Len(s) # 1 /\ Len(Tail(s)) = Len(s) - 1 /\ Len(s) # 0
    BY <1>2, <1>3, TailElements DEF PlanOf
  <2>2. 1 \in 1 .. Len(Tail(s)) /\ 1 \in 1 .. Len(s) - 1
    BY <2>1
  <2>3. Tail(s)[1] = s[2]
    BY <1>2, <2>2, TailElements
  <2>4. s[1 + 1] = "list" => s[1] = "socket"
    BY <1>3, <2>2 DEF PlanOf
  <2>5. 1 + 1 = 2 /\ s[2] # "list"
    BY <1>2, <1>4, <2>4
  <2>6. QED BY <2>3, <2>5
<1>6. gp_massage_to_send_hade' = <<>>
  BY <1>1, <1>2, <1>4 DEF Last
<1>7. QED BY <1>1, <1>2, <1>4, <1>5, <1>6 DEF Last

LEMMA MainKeepsLast ==
  ClientInv /\ First /\ Last /\ MainStep => Last'
<1> SUFFICES ASSUME ClientInv, First, Last, MainStep PROVE Last'
  OBVIOUS
<1> USE DEF ClientInv, TypeOK, StagesOK, Last, Active, Over, main, lists, sync, Goes, GivesUp, Does
<1>1. CASE Connects
  BY <1>1 DEF Connects
<1>2. CASE CannotConnect
  <2>1. CASE pc["main"] = "connect" /\ UNCHANGED <<pc, to_release>>
    BY <2>1
  <2>2. CASE GivesUp("connect", "RELEASE_SOCKET")
    BY <1>2, <2>2 DEF CannotConnect, Sessions
  <2>3. QED BY <1>2, <2>1, <2>2 DEF CannotConnect
<1>3. CASE CreatesSender
  <2>1. CASE pc'["main"] \notin {"release", "reset"}
    BY <2>1
  <2>2. CASE GivesUp("create_sender", "RELEASE_THREADS")
    BY <1>3, <2>2 DEF CreatesSender, CreatesThread, Sessions
  <2>3. QED BY <1>3, <2>1, <2>2 DEF CreatesSender, CreatesThread
<1>4. CASE CreatesReceiver
  <2>1. CASE has_sync /\ to_release' = release_source("RELEASE_THREADS") /\ pc["main"] = "create_receiver"
    <3>1. Works
      BY <2>1 DEF Works
    <3>2. UNCHANGED <<g_hads_mutex, gp_massage_to_send_hade>>
      BY <1>4, <2>1, <3>1 DEF CreatesReceiver, CreatesThread, Counts
    <3>3. Unasked
      BY <2>1 DEF Unasked
    <3>4. QED BY <2>1, <3>1, <3>2, <3>3, GivesUpLast
  <2>2. CASE pc'["main"] \notin {"release", "reset"}
    BY <2>2
  <2>3. CASE ~has_sync
    BY <1>4, <2>3 DEF CreatesReceiver, CreatesThread
  <2>4. QED BY <1>4, <2>1, <2>2, <2>3 DEF CreatesReceiver, CreatesThread
<1>5. CASE Posts
  BY <1>5 DEF Posts
<1>6. CASE CannotPost
  <2>1. CASE has_sync /\ to_release' = release_source("RELEASE_LINK_LIST") /\ pc["main"] = "post"
    <3>1. Works
      BY <2>1 DEF Works
    <3>2. UNCHANGED <<g_hads_mutex, gp_massage_to_send_hade>>
      BY <1>6, <2>1, <3>1 DEF CannotPost, PostFails, Counts
    <3>3. QED BY <2>1, <3>1, <3>2, GivesUpLast
  <2>2. CASE pc'["main"] \notin {"release", "reset"}
    BY <2>2
  <2>3. CASE ~has_sync
    BY <1>6, <2>3 DEF CannotPost
  <2>4. QED BY <1>6, <2>1, <2>2, <2>3 DEF CannotPost, PostFails
<1>7. CASE GivesPermit
  BY <1>7 DEF GivesPermit
<1>8. CASE IsAnswered
  BY <1>8 DEF IsAnswered
<1>9. CASE WaitTimesOut
  <2>1. CASE has_sync /\ to_release' = release_source("RELEASE_LINK_LIST") /\ pc["main"] = "respond"
    <3>1. Works
      BY <2>1 DEF Works
    <3>2. UNCHANGED <<g_hads_mutex, gp_massage_to_send_hade>>
      BY <1>9, <2>1, <3>1 DEF WaitTimesOut, PostFails, Counts
    <3>3. QED BY <2>1, <3>1, <3>2, GivesUpLast
  <2>2. CASE pc'["main"] \notin {"release", "reset"}
    BY <2>2
  <2>3. CASE ~has_sync
    BY <1>9, <2>3 DEF WaitTimesOut
  <2>4. QED BY <1>9, <2>1, <2>2, <2>3 DEF WaitTimesOut, PostFails
<1>10. CASE TakesReceived
  BY <1>10 DEF TakesReceived
<1>11. CASE ReadsFlag
  <2>1. CASE has_sync /\ to_release' = release_source("RELEASE_ALL") /\ pc["main"] = "flag"
    <3>1. Works
      BY <2>1 DEF Works
    <3>2. UNCHANGED <<g_hads_mutex, gp_massage_to_send_hade>>
      BY <1>11, <2>1, <3>1 DEF ReadsFlag, Counts
    <3>3. QED BY <2>1, <3>1, <3>2, GivesUpLast
  <2>2. CASE pc'["main"] \notin {"release", "reset"}
    BY <2>2
  <2>3. CASE ~has_sync
    BY <1>11, <2>3 DEF ReadsFlag
  <2>4. QED BY <1>11, <2>1, <2>2, <2>3 DEF ReadsFlag
<1>12. CASE TakesMessage
  <2>1. CASE has_sync /\ to_release' = release_source("RELEASE_ALL") /\ pc["main"] = "take"
    <3>1. Works
      BY <2>1 DEF Works
    <3>2. UNCHANGED <<g_hads_mutex, gp_massage_to_send_hade>>
      BY <1>12, <2>1, <3>1 DEF TakesMessage, Counts
    <3>3. QED BY <2>1, <3>1, <3>2, GivesUpLast
  <2>2. CASE pc'["main"] \notin {"release", "reset"}
    BY <2>2
  <2>3. CASE ~has_sync
    BY <1>12, <2>3 DEF TakesMessage
  <2>4. QED BY <1>12, <2>1, <2>2, <2>3 DEF TakesMessage
<1>13. CASE Answers
  BY <1>13 DEF Answers
<1>14. CASE IsDenied
  <2>1. CASE has_sync
    <3>1. Works
      BY <1>14, <2>1 DEF Works, IsDenied
    <3>2. UNCHANGED <<g_hads_mutex, gp_massage_to_send_hade>>
      BY <1>14 DEF IsDenied
    <3>3. PICK stage \in {"RELEASE_ALL", "DENIED_BY_SERVER"} : to_release' = release_source(stage)
      BY <1>14 DEF IsDenied
    <3>4. QED BY <3>1, <3>2, <3>3, GivesUpLast
  <2>2. CASE ~has_sync
    BY <1>14, <2>2 DEF IsDenied
  <2>3. QED BY <2>1, <2>2
<1>15. CASE StartsShutdown
  <2>1. CASE has_sync /\ to_release' = release_source("RELEASE_ALL") /\ pc["main"] = "graceful"
    <3>1. Works
      BY <2>1 DEF Works
    <3>2. UNCHANGED <<g_hads_mutex, gp_massage_to_send_hade>>
      BY <1>15, <2>1, <3>1 DEF StartsShutdown, Counts
    <3>3. QED BY <2>1, <3>1, <3>2, GivesUpLast
  <2>2. CASE pc'["main"] \notin {"release", "reset"}
    BY <2>2
  <2>3. CASE ~has_sync
    BY <1>15, <2>3 DEF StartsShutdown
  <2>4. QED BY <1>15, <2>1, <2>2, <2>3 DEF StartsShutdown
<1>16. CASE Joins
  <2>1. CASE has_sync /\ to_release' = release_source("RELEASE_ALL") /\ pc["main"] = "join"
    <3>1. Works
      BY <2>1 DEF Works
    <3>2. UNCHANGED <<g_hads_mutex, gp_massage_to_send_hade>>
      BY <1>16, <2>1, <3>1 DEF Joins, Counts
    <3>3. QED BY <2>1, <3>1, <3>2, GivesUpLast
  <2>2. CASE pc'["main"] \notin {"release", "reset"}
    BY <2>2
  <2>3. CASE ~has_sync
    BY <1>16, <2>3 DEF Joins
  <2>4. QED BY <1>16, <2>1, <2>2, <2>3 DEF Joins
<1>17. CASE ReleasesLists
  <2>1. CASE has_sync /\ Active("sender")
    <3>1. to_release \in Seq(Tasks) /\ to_release[1] = "list"
      BY <1>17, TailElements DEF ReleasesLists
    <3>2. g_hads_mutex \in {"free", "sender", "receiver"} /\ pc["main"] \in {"release", "reset"}
      BY <1>17, <2>1, <3>1 DEF ReleasesLists
    <3>3. gp_massage_to_send_hade' = <<>> /\ UNCHANGED <<pc, g_hads_mutex, has_sync>> /\ Does("list")
      BY <1>17, <2>1, <3>2 DEF ReleasesLists
    <3>4. QED BY <2>1, <3>3, DoesLast
  <2>2. CASE ~has_sync \/ ~Active("sender")
    BY <1>17, <2>2 DEF ReleasesLists
  <2>3. QED BY <2>1, <2>2
<1>18. CASE WakesSender
  <2>1. CASE has_sync /\ Active("sender")
    <3>1. UNCHANGED <<pc, g_hads_mutex, has_sync, gp_massage_to_send_hade>> /\ Does("wake")
      BY <1>18 DEF WakesSender
    <3>2. QED BY <2>1, <3>1, DoesLast
  <2>2. CASE ~has_sync \/ ~Active("sender")
    BY <1>18, <2>2 DEF WakesSender
  <2>3. QED BY <2>1, <2>2
<1>19. CASE ClosesThreads
  <2>1. CASE ClosesThread("first", SEND_THREAD)
    <3>1. Does("first") /\ UNCHANGED <<has_sync, gp_massage_to_send_hade>>
      BY <2>1 DEF ClosesThread
    <3>2. pc'["main"] = pc["main"] /\ (Active("sender")' => Active("sender"))
      BY <2>1 DEF ClosesThread, end_thread, HandlesOK, SEND_THREAD, REC_THREAD
    <3>3. CASE has_sync /\ Active("sender")
      BY <3>1, <3>2, <3>3, DoesLast
    <3>4. CASE ~has_sync \/ ~Active("sender")
      BY <3>1, <3>2, <3>4
    <3>5. QED BY <3>3, <3>4
  <2>2. CASE ClosesThread("second", REC_THREAD)
    <3>1. UNCHANGED has_sync
      BY <2>2 DEF ClosesThread
    <3>2. has_sync => ~Active("sender")'
      <4>1. CASE has_sync /\ Active("sender")
        <5>1. g_socket_thread[REC_THREAD] = "sender"
          BY <4>1 DEF Plans
        <5>2. pc' = [pc EXCEPT !["sender"] = "killed"]
          BY <2>2, <4>1, <5>1 DEF ClosesThread, end_thread
        <5>3. QED BY <5>2
      <4>2. CASE has_sync /\ ~Active("sender")
        BY <2>2, <4>2 DEF ClosesThread, end_thread, HandlesOK, SEND_THREAD, REC_THREAD
      <4>3. QED BY <4>1, <4>2
    <3>3. QED BY <3>1, <3>2
  <2>3. QED BY <1>19, <2>1, <2>2 DEF ClosesThreads
<1>20. CASE ClosesSocket
  <2>1. CASE has_sync /\ Active("sender")
    <3>1. UNCHANGED <<pc, g_hads_mutex, has_sync, gp_massage_to_send_hade>> /\ Does("socket")
      BY <1>20 DEF ClosesSocket
    <3>2. QED BY <2>1, <3>1, DoesLast
  <2>2. CASE ~has_sync \/ ~Active("sender")
    BY <1>20, <2>2 DEF ClosesSocket
  <2>3. QED BY <2>1, <2>2
<1>21. CASE close_sync_object
  BY <1>21 DEF close_sync_object
<1>22. CASE Finishes
  BY <1>22 DEF Finishes, Plans, PlanOf
<1>23. QED BY <1>1, <1>2, <1>3, <1>4, <1>5, <1>6, <1>7, <1>8, <1>9, <1>10, <1>11, <1>12, <1>13,
              <1>14, <1>15, <1>16, <1>17, <1>18, <1>19, <1>20, <1>21, <1>22 DEF MainStep

LEMMA ReceiverKeepsLast ==
  ClientInv /\ First /\ Last /\ ReceiverStep => Last'
<1> SUFFICES ASSUME ClientInv, First, Last, ReceiverStep PROVE Last'
  OBVIOUS
<1> USE DEF ClientInv, TypeOK, StagesOK, Last, Active, Over, main, lists, sync, Goes, GivesUp, Does
<1>1. CASE Receives
  BY <1>1 DEF Receives
<1>2. CASE ReleasesAlarm
  BY <1>2 DEF ReleasesAlarm
<1>3. CASE RaisesFlag
  BY <1>3 DEF RaisesFlag
<1>4. CASE ReceivesFin
  BY <1>4 DEF ReceivesFin
<1>5. CASE ReceiverCloses
  BY <1>5 DEF ReceiverCloses
<1>6. CASE ReceiverQuits
  BY <1>6 DEF ReceiverQuits
<1>7. CASE ReceiverLocks
  BY <1>7 DEF ReceiverLocks
<1>8. CASE ReceiverAppends
  BY <1>8 DEF ReceiverAppends
<1>9. CASE ReceiverSignals
  BY <1>9 DEF ReceiverSignals
<1>10. QED BY <1>1, <1>2, <1>3, <1>4, <1>5, <1>6, <1>7, <1>8, <1>9 DEF ReceiverStep

LEMMA SenderKeepsLast ==
  ClientInv /\ First /\ Last /\ SenderStep => Last'
<1> SUFFICES ASSUME ClientInv, First, Last, SenderStep PROVE Last'
  OBVIOUS
<1> USE DEF ClientInv, TypeOK, StagesOK, Last, Active, Over, main, lists, sync, Goes, GivesUp, Does
<1>1. CASE SenderTakesPermit
  BY <1>1 DEF SenderTakesPermit
<1>2. CASE SenderChecks
  BY <1>2 DEF SenderChecks
<1>3. CASE SenderLocks
  BY <1>3 DEF SenderLocks
<1>4. CASE SenderSends
  BY <1>4 DEF SenderSends
<1>5. CASE SenderFindsNothing
  BY <1>5 DEF SenderFindsNothing, Ended
<1>6. CASE SenderShuts
  BY <1>6 DEF SenderShuts
<1>7. CASE SenderJoins
  BY <1>7 DEF SenderJoins
<1>8. QED BY <1>1, <1>2, <1>3, <1>4, <1>5, <1>6, <1>7 DEF SenderStep

LEMMA ServerKeepsLast ==
  ClientInv /\ First /\ Last /\ ServerStep => Last'
<1> SUFFICES ASSUME ClientInv, First, Last, ServerStep PROVE Last'
  OBVIOUS
<1> USE DEF ClientInv, TypeOK, StagesOK, Last, Active, Over, main, lists, sync, Goes, GivesUp, Does
<1>1. CASE ServerSays
  BY <1>1 DEF ServerSays
<1>2. CASE ServerEnds
  BY <1>2 DEF ServerEnds
<1>3. QED BY <1>1, <1>2 DEF ServerStep

(* A later connection finds the objects closed: main cannot even ask.      *)
Later ==
  session > 1 =>
    /\ ~has_sync
    /\ pc["main"] \in {"create_sender", "create_receiver", "post", "release", "ended"}
    /\ pc["main"] = "post" => posting = "CLIENT_REQUEST"

LEMMA MainKeepsLater ==
  ClientInv /\ Later /\ MainStep => Later'
<1> SUFFICES ASSUME ClientInv, Later, MainStep PROVE Later'
  OBVIOUS
<1> USE DEF ClientInv, TypeOK, StagesOK, SyncOK, Sessions, Later, main, sync, Goes, GivesUp, Does, Active, Over
<1>1. CASE Connects
  BY <1>1 DEF Connects
<1>2. CASE CannotConnect
  BY <1>2 DEF CannotConnect
<1>3. CASE CreatesSender
  BY <1>3 DEF CreatesSender, CreatesThread
<1>4. CASE CreatesReceiver
  BY <1>4 DEF CreatesReceiver, CreatesThread
<1>5. CASE Posts
  BY <1>5 DEF Posts
<1>6. CASE CannotPost
  BY <1>6 DEF CannotPost, PostFails
<1>7. CASE GivesPermit
  BY <1>7 DEF GivesPermit
<1>8. CASE IsAnswered
  BY <1>8 DEF IsAnswered
<1>9. CASE WaitTimesOut
  BY <1>9 DEF WaitTimesOut, PostFails
<1>10. CASE TakesReceived
  BY <1>10 DEF TakesReceived
<1>11. CASE ReadsFlag
  BY <1>11 DEF ReadsFlag
<1>12. CASE TakesMessage
  BY <1>12 DEF TakesMessage
<1>13. CASE Answers
  BY <1>13 DEF Answers
<1>14. CASE IsDenied
  BY <1>14 DEF IsDenied
<1>15. CASE StartsShutdown
  BY <1>15 DEF StartsShutdown
<1>16. CASE Joins
  BY <1>16 DEF Joins
<1>17. CASE ReleasesLists
  BY <1>17 DEF ReleasesLists
<1>18. CASE WakesSender
  BY <1>18 DEF WakesSender
<1>19. CASE ClosesThreads
  BY <1>19 DEF ClosesThreads, ClosesThread, end_thread, HandlesOK, SEND_THREAD, REC_THREAD
<1>20. CASE ClosesSocket
  BY <1>20 DEF ClosesSocket
<1>21. CASE close_sync_object
  BY <1>21 DEF close_sync_object
<1>22. CASE Finishes
  BY <1>22 DEF Finishes
<1>23. QED BY <1>1, <1>2, <1>3, <1>4, <1>5, <1>6, <1>7, <1>8, <1>9, <1>10, <1>11, <1>12, <1>13,
              <1>14, <1>15, <1>16, <1>17, <1>18, <1>19, <1>20, <1>21, <1>22 DEF MainStep

LEMMA OthersKeepLater ==
  ClientInv /\ Later /\ (ReceiverStep \/ SenderStep \/ ServerStep) => Later'
<1> SUFFICES ASSUME ClientInv, Later, ReceiverStep \/ SenderStep \/ ServerStep PROVE Later'
  OBVIOUS
<1>1. UNCHANGED <<has_sync, session, posting>>
  BY DEF main, sync, ReceiverStep, SenderStep, ServerStep, Receives, ReleasesAlarm, RaisesFlag,
         ReceivesFin, ReceiverCloses, ReceiverQuits, ReceiverLocks, ReceiverAppends,
         ReceiverSignals, SenderTakesPermit, SenderChecks, SenderLocks, SenderSends,
         SenderFindsNothing, SenderShuts, SenderJoins, ServerSays, ServerEnds
<1>2. pc'["main"] \in {pc["main"], "ended"}
  BY DEF ClientInv, TypeOK, StagesOK, Goes, ReceiverStep, SenderStep, ServerStep, Receives,
         ReleasesAlarm, RaisesFlag, ReceivesFin, ReceiverCloses, ReceiverQuits, ReceiverLocks,
         ReceiverAppends, ReceiverSignals, SenderTakesPermit, SenderChecks, SenderLocks,
         SenderSends, SenderFindsNothing, SenderShuts, SenderJoins, ServerSays, ServerEnds
<1>3. QED BY <1>1, <1>2 DEF Later

PlayerInv == ClientInv /\ Talk /\ Dealing /\ First /\ Last /\ Later

LEMMA NextPlayer == PlayerInv /\ [Next]_vars => PlayerInv'
<1> SUFFICES ASSUME PlayerInv, [Next]_vars PROVE PlayerInv'
  OBVIOUS
<1> USE DEF PlayerInv
<1>1. ClientInv'
  BY NextClient
<1>2. CASE MainStep
  BY <1>1, <1>2, MainKeepsTalk, MainKeepsDealing, MainKeepsFirst, MainKeepsLast, MainKeepsLater
<1>3. CASE ReceiverStep
  BY <1>1, <1>3, ReceiverKeepsTalk, ReceiverKeepsDealing, ReceiverKeepsFirst, ReceiverKeepsLast,
     OthersKeepLater
<1>4. CASE SenderStep
  BY <1>1, <1>4, SenderKeepsTalk, SenderKeepsDealing, SenderKeepsFirst, SenderKeepsLast,
     OthersKeepLater
<1>5. CASE ServerStep
  BY <1>1, <1>5, ServerKeepsTalk, ServerKeepsDealing, ServerKeepsFirst, ServerKeepsLast,
     OthersKeepLater
<1>6. CASE UNCHANGED vars
  BY <1>1, <1>6 DEF Talk, Dealing, First, Last, Later, Works, Unheard, Unasked, Active,
                    vars, threads, lists, permits, sync, flags, main, link
<1>7. QED BY <1>2, <1>3, <1>4, <1>5, <1>6 DEF Next

LEMMA PlayerInvariant == Spec => []PlayerInv
<1>1. Init => PlayerInv
  BY InitTypes, InitClient, InitTalk DEF PlayerInv, ClientInv, Later, Init
<1>2. QED BY <1>1, NextPlayer, PTL DEF Spec

-----------------------------------------------------------------------------
(* Every step of the client is one of the abstract player's, or none.      *)
PlayerStep == ThePlayer!Next \/ UNCHANGED <<at, inbox, outbox>>

LEMMA WhereAt ==
  /\ at \in {"out", "gone", "in"}
  /\ at = "out" <=> Unasked
  /\ at = "gone" <=> ~Unasked /\ Gone
  BY DEF at

LEMMA OutStays ==
  ASSUME at = "out", at' = "out"
  PROVE  PlayerStep
  BY DEF PlayerStep, inbox, outbox

LEMMA OutLeaves ==
  ASSUME at = "out", at' = "gone", to_server' = <<>>
  PROVE  PlayerStep
<1>1. outbox = <<>> /\ inbox' = <<>>
  BY DEF inbox, outbox
<1>2. outbox' = to_server' \o <<>>
  BY DEF outbox
<1>3. outbox' = <<>> /\ SubSeq(<<>>, 1, 0) = <<>> /\ 0 \in 0 .. Len(<<>>)
  BY <1>2
<1>4. \E k \in 0 .. Len(outbox) : outbox' = SubSeq(outbox, 1, k)
  BY <1>1, <1>3
<1>5. QED BY <1>1, <1>4 DEF PlayerStep, ThePlayer!Next, ThePlayer!Leave

LEMMA GoneReturns ==
  ASSUME at = "gone", at' = "out"
  PROVE  PlayerStep
  BY DEF PlayerStep, ThePlayer!Next, ThePlayer!Return, inbox, outbox

LEMMA StartOf ==
  ASSUME NEW S, NEW s \in Seq(S), NEW u \in Seq(S)
  PROVE  Len(s) \in 0 .. Len(s \o u) /\ s = SubSeq(s \o u, 1, Len(s))
<1>1. Len(s) \in Nat /\ Len(u) \in Nat /\ s \o u \in Seq(S) /\ Len(s \o u) = Len(s) + Len(u)
      /\ \A i \in 1 .. Len(s) : (s \o u)[i] = s[i]
  OBVIOUS
<1>2. PICK w : w = s \o u
  OBVIOUS
<1>3. Len(SubSeq(w, 1, Len(s))) = Len(s) /\ SubSeq(w, 1, Len(s)) \in Seq(S)
      /\ \A i \in 1 .. Len(s) : SubSeq(w, 1, Len(s))[i] = s[i]
  BY <1>1, <1>2
<1>4. s = SubSeq(w, 1, Len(s))
  BY <1>3, SeqEqual
<1>5. QED BY <1>1, <1>2, <1>4

(* Someone who has spoken stays, leaves, or remains away.                  *)
LEMMA SpokenStep ==
  ASSUME ClientInv, at # "out", at' # "out", at = "gone" => at' = "gone",
         at' = "gone" => UNCHANGED to_server,
         at = "in" /\ at' = "in" => PlayerStep
  PROVE  PlayerStep
<1>1. CASE at = "in" /\ at' = "gone"
  <2>1. to_server \in Seq(Spoken) /\ gp_massage_to_send_hade \in Seq(Spoken)
    BY DEF ClientInv, TypeOK, MessagesOK
  <2>2. outbox = to_server \o gp_massage_to_send_hade /\ inbox' = <<>>
    BY <1>1 DEF outbox, inbox
  <2>3. outbox' = to_server \o <<>>
    BY <1>1 DEF outbox
  <2>4. outbox' = to_server
    BY <2>1, <2>3
  <2>5. \E k \in 0 .. Len(outbox) : outbox' = SubSeq(outbox, 1, k)
    BY <2>1, <2>2, <2>4, StartOf
  <2>6. QED BY <1>1, <2>2, <2>5 DEF PlayerStep, ThePlayer!Next, ThePlayer!Leave
<1>2. CASE at = "gone" /\ at' = "gone"
  BY <1>2 DEF PlayerStep, inbox, outbox
<1>3. QED BY <1>1, <1>2, WhereAt DEF at

LEMMA SameBoxes ==
  ASSUME at = "in", at' = "in",
         UNCHANGED <<massage, gp_recived_massge_hade, coming, to_server, gp_massage_to_send_hade>>
  PROVE  PlayerStep
  BY DEF PlayerStep, inbox, outbox, One

LEMMA ComingIsHeard ==
  ASSUME ClientInv
  PROVE  /\ One(massage) \in Seq(Heard) /\ One(accepted) \in Seq(Heard)
         /\ said_to_client \in Seq(Heard) /\ coming \in Seq(Heard)
         /\ One(massage) \o gp_recived_massge_hade \in Seq(Heard)
<1>1. /\ One(massage) \in Seq(Heard) /\ One(accepted) \in Seq(Heard)
      /\ gp_recived_massge_hade \in Seq(Heard) /\ to_client \in Seq(Heard)
  BY DEF ClientInv, TypeOK, MessagesOK, One
<1>2. said_to_client \in Seq(Heard)
  BY <1>1 DEF said_to_client, ServerGone
<1>3. QED BY <1>1, <1>2 DEF coming

LEMMA StartOfSecond ==
  ASSUME NEW S, NEW s \in Seq(S), NEW u \in Seq(S), NEW k \in 0 .. Len(u)
  PROVE  Len(s) + k \in 0 .. Len(s \o u) /\ s \o SubSeq(u, 1, k) = SubSeq(s \o u, 1, Len(s) + k)
<1>1. Len(s) \in Nat /\ Len(u) \in Nat /\ s \o u \in Seq(S) /\ Len(s \o u) = Len(s) + Len(u)
      /\ \A i \in 1 .. Len(s) + Len(u) : (s \o u)[i] = IF i <= Len(s) THEN s[i] ELSE u[i - Len(s)]
  BY ConcatProperties
<1>2. PICK v \in Seq(S) : v = SubSeq(u, 1, k) /\ Len(v) = k /\ \A i \in 1 .. k : v[i] = u[i]
  <2>1. k \in Int /\ 1 \in Int /\ \A i \in 1 .. k : u[i] \in S
    BY <1>1
  <2>2. SubSeq(u, 1, k) \in Seq(S) /\ Len(SubSeq(u, 1, k)) = k
        /\ \A i \in 1 .. k : SubSeq(u, 1, k)[i] = u[i]
    BY <1>1, <2>1
  <2>3. QED BY <2>2
<1>3. PICK w : w = s \o u
  OBVIOUS
<1>4. s \o v \in Seq(S) /\ Len(s \o v) = Len(s) + k
      /\ \A i \in 1 .. Len(s) + k : (s \o v)[i] = IF i <= Len(s) THEN s[i] ELSE v[i - Len(s)]
  <2>1. s \o v \in Seq(S) /\ Len(s \o v) = Len(s) + Len(v)
      /\ \A i \in 1 .. Len(s) + Len(v) : (s \o v)[i] = IF i <= Len(s) THEN s[i] ELSE v[i - Len(s)]
    BY ConcatProperties
  <2>2. QED BY <1>2, <2>1
<1>5. Len(s) + k \in 0 .. Len(w)
  BY <1>1, <1>3
<1>6. Len(SubSeq(w, 1, Len(s) + k)) = Len(s) + k /\ SubSeq(w, 1, Len(s) + k) \in Seq(S)
      /\ \A i \in 1 .. Len(s) + k : SubSeq(w, 1, Len(s) + k)[i] = w[i]
  BY <1>1, <1>3, <1>5
<1>7. ASSUME NEW i \in 1 .. Len(s) + k PROVE (s \o v)[i] = w[i]
  <2>1. CASE i <= Len(s)
    BY <1>1, <1>3, <1>4, <2>1
  <2>2. CASE ~(i <= Len(s))
    <3>1. i - Len(s) \in 1 .. k /\ i \in 1 .. Len(s) + Len(u)
      BY <1>1, <2>2
    <3>2. QED BY <1>1, <1>2, <1>3, <1>4, <2>2, <3>1
  <2>3. QED BY <2>1, <2>2
<1>8. s \o v = SubSeq(w, 1, Len(s) + k)
  BY <1>4, <1>6, <1>7, SeqEqual
<1>9. QED BY <1>2, <1>3, <1>5, <1>8

LEMMA MissesComing ==
  ASSUME ClientInv, at = "in", at' = "in", NEW k \in 0 .. Len(coming), coming' = SubSeq(coming, 1, k),
         UNCHANGED <<massage, gp_recived_massge_hade, to_server, gp_massage_to_send_hade>>
  PROVE  PlayerStep
<1>1. PICK h \in Seq(Heard) : h = One(massage) \o gp_recived_massge_hade
  BY ComingIsHeard
<1>2. inbox = h \o coming /\ inbox' = h \o coming' /\ UNCHANGED outbox
  BY <1>1 DEF inbox, outbox, One
<1>3. PICK c \in Seq(Heard) : c = coming
  BY ComingIsHeard
<1>4. Len(h) + k \in 0 .. Len(inbox) /\ inbox' = SubSeq(inbox, 1, Len(h) + k)
  BY <1>2, <1>3, StartOfSecond
<1>5. QED BY <1>2, <1>4 DEF PlayerStep, ThePlayer!Next, ThePlayer!Miss

-----------------------------------------------------------------------------
(* Main: a step that leaves the connection and the lists alone.            *)
LEMMA MainQuiet ==
  ASSUME PlayerInv, ~Unasked, ~Unasked',
         pc["main"] \notin {"release", "reset", "ended", "crashed"},
         pc'["sender"] = pc["sender"], pc'["receiver"] = pc["receiver"],
         UNCHANGED <<link, lists, accepted, massage, has_sync>>
  PROVE  PlayerStep
<1>1. at = "gone" => at' = "gone"
  BY DEF at, Gone, Active, Running, link
<1>2. UNCHANGED coming
  BY DEF coming, said_to_client, ServerGone, Active, One, link
<1>3. at = "in" /\ at' = "in" => PlayerStep
  BY <1>2, SameBoxes DEF link, lists
<1>4. at # "out" /\ at' # "out" /\ ClientInv /\ UNCHANGED to_server
  BY DEF at, PlayerInv, link
<1>5. QED BY <1>1, <1>3, <1>4, SpokenStep

(* Main releases what it has: the player is gone by then at the latest.    *)
LEMMA MainReleases ==
  ASSUME PlayerInv, NEW what \in Tasks, Does(what), pc'["main"] = pc["main"],
         Active("sender")' => Active("sender"), has_sync' => has_sync,
         g_main_socket' = "open" => g_main_socket = "open",
         what = "socket" => g_main_socket' = "none", UNCHANGED to_server
  PROVE  PlayerStep
<1>1. pc["main"] \in {"release", "reset"} /\ ~Unasked /\ ~Unasked'
  BY DEF Does, Unasked
<1>2. at' = "gone"
  <2>1. CASE has_sync
    <3>1. PICK s \in Seq(Tasks) : s = to_release
      BY DEF PlayerInv, ClientInv, TypeOK
    <3>2. s # <<>> /\ s[1] = what /\ to_release' = Tail(s)
      BY <3>1, TailElements DEF Does
    <3>3. PlanOf(s, FALSE)
      BY <1>1, <2>1, <3>1 DEF PlayerInv, ClientInv, Plans
    <3>4. CASE what = "socket" \/ Tail(s) = <<>>
      BY <1>1, <3>2, <3>4 DEF at, Gone
    <3>5. CASE what # "socket" /\ Tail(s) # <<>>
      <4>1. Len(s) \in Nat /\ Tail(s) \in Seq(Tasks) /\ Len(Tail(s)) = Len(s) - 1
        BY <3>1, <3>2, TailElements
      <4>2. 1 \in 1 .. Len(Tail(s))
        BY <3>5, <4>1, TailElements
      <4>3. 1 \in 1 .. Len(s) - 1 /\ 1 + 1 = 2
        BY <4>1, <4>2
      <4>4. Tail(s)[1] = s[1 + 1] /\ Head(Tail(s)) = Tail(s)[1]
        BY <3>1, <3>2, <3>5, <4>1, <4>2, TailElements
      <4>5. s[1 + 1] # "list"
        BY <3>2, <3>3, <3>5, <4>3 DEF PlanOf
      <4>6. Head(to_release') # "list"
        BY <3>2, <4>4, <4>5
      <4>7. QED BY <1>1, <4>6 DEF at, Gone
    <3>6. QED BY <3>4, <3>5
  <2>2. CASE ~has_sync
    BY <1>1, <2>2 DEF at, Gone
  <2>3. QED BY <2>1, <2>2
<1>3. at # "out"
  BY <1>1, WhereAt
<1>4. QED BY <1>2, <1>3, SpokenStep DEF PlayerInv

(* The end of the mutex's owner is not seen before main gives up.          *)
LEMMA MutexWorks ==
  ASSUME PlayerInv, has_sync, g_hads_mutex = "abandoned"
  PROVE  pc["main"] \in {"release", "reset", "ended", "crashed"}
  BY DEF PlayerInv, ClientInv, Counts, Works

(* A thread was not created: nothing was said on the connection.           *)
LEMMA ThreadFails ==
  ASSUME PlayerInv, NEW from \in {"create_sender", "create_receiver"},
         GivesUp(from, "RELEASE_THREADS"), at = "out", UNCHANGED to_server
  PROVE  PlayerStep
<1>1. pc["main"] = from /\ pc'["main"] = "release" /\ to_release' = release_source("RELEASE_THREADS")
  BY DEF GivesUp, Goes, PlayerInv, ClientInv, TypeOK, StagesOK
<1>2. to_server' = <<>>
  BY <1>1 DEF PlayerInv, First, Unasked
<1>3. Head(to_release') # "list"
  <2>1. PICK s \in Seq(Tasks) : s = release_source("RELEASE_THREADS") /\ s # <<>> /\ s[1] # "list"
    BY PlanFacts DEF PlanOf
  <2>2. QED BY <1>1, <2>1, TailElements
<1>4. QED BY <1>1, <1>2, <1>3, OutLeaves DEF at, Unasked, Gone

LEMMA MessageIsHeard == Message \subseteq Heard
  BY DEF Heard

LEMMA HeadOfThree ==
  ASSUME NEW S, NEW x \in S, NEW r \in Seq(S), NEW c \in Seq(S)
  PROVE  LET w == (<<x>> \o r) \o c IN w # <<>> /\ Head(w) = x /\ Tail(w) = r \o c
<1>1. <<x>> \in Seq(S) /\ r \o c \in Seq(S)
  BY ConcatProperties
<1>2. (<<x>> \o r) \o c = <<x>> \o (r \o c)
  BY <1>1, ConcatAssociative
<1>3. PICK u \in Seq(S) : u = r \o c
  BY <1>1
<1>4. <<x>> \o u # <<>> /\ Head(<<x>> \o u) = x /\ Tail(<<x>> \o u) = u
  OBVIOUS
<1>5. QED BY <1>2, <1>3, <1>4

LEMMA HeadThenTail ==
  ASSUME NEW S, NEW s \in Seq(S), s # <<>>
  PROVE  s = <<Head(s)>> \o Tail(s)
  OBVIOUS

LEMMA AppendOfSecond ==
  ASSUME NEW S, NEW s \in Seq(S), NEW u \in Seq(S), NEW x \in S
  PROVE  s \o Append(u, x) = Append(s \o u, x)
<1>1. <<x>> \in Seq(S) /\ s \o u \in Seq(S)
  BY ConcatProperties
<1>2. Append(u, x) = u \o <<x>> /\ Append(s \o u, x) = (s \o u) \o <<x>>
  BY <1>1, AppendIsConcat
<1>3. QED BY <1>1, <1>2, ConcatAssociative

(* The request opens the dialogue; an answer goes with its question.       *)
LEMMA MainPosts ==
  ASSUME PlayerInv, Posts
  PROVE  PlayerStep
<1>1. /\ has_sync /\ pc["main"] = "post" /\ pc'["main"] = "permit" /\ massage' = "none" /\ Works
      /\ pc'["sender"] = pc["sender"] /\ pc'["receiver"] = pc["receiver"]
      /\ UNCHANGED <<g_main_socket, to_client, to_server, gp_recived_massge_hade, accepted, has_sync>>
      /\ gp_massage_to_send_hade' = Append(gp_massage_to_send_hade, posting)
  BY DEF Posts, Goes, add_message_to_cell_arr, link, sync, Works, PlayerInv, ClientInv, TypeOK,
     StagesOK
<1>2. ~Unasked'
  BY <1>1 DEF Unasked
<1>3. at = "gone" => at' = "gone"
  BY <1>1, <1>2 DEF at, Gone, Active, Running
<1>4. UNCHANGED coming
  BY <1>1 DEF coming, said_to_client, ServerGone, Active, One
<1>5. One(massage') = <<>>
  BY <1>1 DEF One, Message, Question
<1>6. PICK r \in Seq(Heard) : r = gp_recived_massge_hade
  BY DEF PlayerInv, ClientInv, TypeOK, MessagesOK
<1>7. PICK c \in Seq(Heard) : c = coming
  BY ComingIsHeard DEF PlayerInv
<1>8. at' = "in" => inbox' = r \o c
  <2>1. at' = "in" => inbox' = (<<>> \o r) \o c
    BY <1>1, <1>4, <1>5, <1>6, <1>7 DEF inbox
  <2>2. <<>> \o r = r
    BY <1>6
  <2>3. QED BY <2>1, <2>2
<1>9. CASE at = "out"
  <2>1. to_server = <<>> /\ gp_massage_to_send_hade = <<>> /\ Unheard /\ posting = "CLIENT_REQUEST"
    BY <1>1, <1>9, WhereAt DEF PlayerInv, First, Unasked
  <2>2. CASE at' = "gone"
    BY <1>1, <1>9, <2>1, <2>2, OutLeaves
  <2>3. CASE at' = "in"
    <3>1. outbox' = <<>> \o Append(<<>>, "CLIENT_REQUEST")
      BY <1>1, <2>1, <2>3 DEF outbox
    <3>2. outbox' = <<"CLIENT_REQUEST">>
      BY <3>1
    <3>3. r = <<>> /\ One(accepted) = <<>>
      BY <1>6, <2>1 DEF Unheard, One
    <3>4. said_to_client = <<>>
      <4>1. to_client \in Seq(Heard) /\ Len(to_client) \in Nat
        BY DEF PlayerInv, ClientInv, TypeOK, MessagesOK
      <4>2. Len(to_client) \in {0, 1}
        <5>1. ASSUME Len(to_client) > 1 PROVE FALSE
          <6>1. 1 \in 1 .. Len(to_client) - 1 /\ 1 \in 1 .. Len(to_client)
            BY <4>1, <5>1
          <6>2. to_client[1] \in Message
            BY <6>1 DEF PlayerInv, Talk
          <6>3. QED BY <2>1, <6>1, <6>2 DEF Unheard
        <5>2. \A n \in Nat : ~(n > 1) => n \in {0, 1}
          OBVIOUS
        <5>3. QED BY <4>1, <5>1, <5>2
      <4>3. CASE Len(to_client) = 0
        BY <4>1, <4>3 DEF said_to_client, ServerGone
      <4>4. CASE Len(to_client) = 1
        <5>1. to_client[1] \notin Message /\ to_client # <<>>
          BY <2>1, <4>1, <4>4 DEF Unheard
        <5>2. said_to_client = SubSeq(to_client, 1, 1 - 1)
          BY <4>4, <5>1 DEF said_to_client, ServerGone
        <5>3. QED BY <5>2, SubSeqEmpty
      <4>5. QED BY <4>2, <4>3, <4>4
    <3>5. c = <<>>
      BY <1>7, <3>3, <3>4 DEF coming
    <3>6. inbox' = <<>> /\ inbox = <<>>
      BY <1>8, <1>9, <2>3, <3>3, <3>5 DEF inbox
    <3>7. QED BY <1>9, <2>3, <3>2, <3>6 DEF PlayerStep, ThePlayer!Next, ThePlayer!Hello
  <2>4. QED BY <1>2, <2>2, <2>3, WhereAt DEF at
<1>10. CASE at # "out"
  <2>1. ~Unasked
    BY <1>10, WhereAt
  <2>2. ASSUME at = "in", at' = "in" PROVE PlayerStep
    <3>1. massage \in Question /\ posting \in ThePlayer!answers(massage) /\ massage \in Message
      BY <1>1, <2>1 DEF PlayerInv, Dealing, Unasked, Message
    <3>2. inbox = (<<massage>> \o r) \o c
      BY <1>6, <1>7, <2>2, <3>1 DEF inbox, One
    <3>3. inbox # <<>> /\ Head(inbox) = massage /\ Tail(inbox) = r \o c
      <4>1. massage \in Heard
        BY <3>1, MessageIsHeard
      <4>2. QED BY <3>2, <4>1, HeadOfThree
    <3>4. outbox = to_server \o gp_massage_to_send_hade
          /\ outbox' = to_server \o Append(gp_massage_to_send_hade, posting)
      BY <1>1, <2>2 DEF outbox
    <3>5. outbox' = Append(outbox, posting)
      <4>1. to_server \in Seq(Spoken) /\ gp_massage_to_send_hade \in Seq(Spoken) /\ posting \in Spoken
        BY DEF PlayerInv, ClientInv, TypeOK, MessagesOK
      <4>2. QED BY <3>4, <4>1, AppendOfSecond
    <3>6. inbox' = Tail(inbox)
      BY <1>8, <2>2, <3>3
    <3>7. QED BY <2>2, <3>1, <3>3, <3>5, <3>6 DEF PlayerStep, ThePlayer!Next, ThePlayer!Answer
  <2>3. at' # "out" /\ ClientInv
    BY <1>2 DEF at, PlayerInv
  <2>4. QED BY <1>1, <1>3, <1>10, <2>2, <2>3, SpokenStep
<1>11. QED BY <1>9, <1>10

(* What is only shown is read; the rest stays until main has answered.     *)
LEMMA MainTakes ==
  ASSUME PlayerInv, TakesMessage
  PROVE  PlayerStep
<1>1. /\ pc["main"] = "take" /\ pc'["main"] \in {"await", "choose", "crashed", "release"}
      /\ pc'["sender"] = pc["sender"] /\ pc'["receiver"] = pc["receiver"]
      /\ UNCHANGED <<g_main_socket, to_client, to_server, gp_massage_to_send_hade, accepted, has_sync>>
  BY DEF TakesMessage, GivesUp, Goes, link, sync, PlayerInv, ClientInv, TypeOK, StagesOK
<1>2. ~Unasked /\ ~Unasked'
  BY <1>1 DEF Unasked
<1>3. at = "gone" => at' = "gone"
  BY <1>1, <1>2 DEF at, Gone, Active, Running
<1>4. ASSUME at = "in", at' = "in" PROVE PlayerStep
  <2>1. has_sync /\ Works /\ pc'["main"] # "crashed"
    BY <1>1, <1>4 DEF at, Gone, Works, Running
  <2>2. g_hads_mutex # "abandoned" /\ massage = "none"
    BY <1>1, <2>1, MutexWorks DEF PlayerInv, Dealing
  <2>3. PICK r \in Seq(Heard) : r = gp_recived_massge_hade
    BY DEF PlayerInv, ClientInv, TypeOK, MessagesOK
  <2>4. r # <<>> /\ gp_recived_massge_hade' = Tail(r)
        /\ (IF Head(r) = "shown" THEN UNCHANGED massage ELSE massage' = Head(r))
    BY <1>1, <2>1, <2>2, <2>3 DEF TakesMessage, rest_of_list, Goes, PlayerInv, ClientInv, TypeOK,
       StagesOK
  <2>5. Head(r) \in Message
    BY <2>3, <2>4, TailElements DEF PlayerInv, Talk
  <2>6. PICK c \in Seq(Heard) : c = coming
    BY ComingIsHeard DEF PlayerInv
  <2>7. UNCHANGED coming
    BY <1>1 DEF coming, said_to_client, ServerGone, Active, One
  <2>8. Tail(r) \in Seq(Heard) /\ Head(r) \in Heard
    BY <2>4, TailElements
  <2>9. inbox = r \o c /\ UNCHANGED outbox
    <3>1. inbox = (<<>> \o r) \o c
      BY <1>4, <2>2, <2>3, <2>6 DEF inbox, One, Message, Question
    <3>2. <<>> \o r = r
      BY <2>3
    <3>3. QED BY <1>1, <1>4, <3>1, <3>2 DEF outbox
  <2>10. r = <<Head(r)>> \o Tail(r)
    BY <2>4, HeadThenTail
  <2>11. CASE Head(r) = "shown"
    <3>1. inbox' = (<<>> \o Tail(r)) \o c
      BY <1>4, <2>2, <2>4, <2>6, <2>7, <2>11 DEF inbox, One, Message, Question
    <3>2. inbox' = Tail(r) \o c
      BY <2>8, <3>1
    <3>3. inbox # <<>> /\ Head(inbox) = "shown" /\ Tail(inbox) = Tail(r) \o c
      BY <2>8, <2>9, <2>10, <2>11, HeadOfThree
    <3>4. ThePlayer!answers("shown") = {}
      BY DEF ThePlayer!answers
    <3>5. QED BY <1>4, <2>9, <3>2, <3>3, <3>4 DEF PlayerStep, ThePlayer!Next, ThePlayer!Read
  <2>12. CASE Head(r) # "shown"
    <3>1. inbox' = (<<Head(r)>> \o Tail(r)) \o c
      BY <1>4, <2>4, <2>5, <2>6, <2>7, <2>12 DEF inbox, One
    <3>2. QED BY <2>9, <2>10, <3>1, <1>4 DEF PlayerStep
  <2>13. QED BY <2>11, <2>12
<1>5. at # "out" /\ at' # "out" /\ ClientInv
  BY <1>2 DEF at, PlayerInv
<1>6. QED BY <1>1, <1>3, <1>4, <1>5, SpokenStep

LEMMA MainPlays ==
  PlayerInv /\ MainStep => PlayerStep
<1> SUFFICES ASSUME PlayerInv, MainStep PROVE PlayerStep
  OBVIOUS
<1>1. CASE Connects
  <2>1. at' = "out"
    BY <1>1 DEF Connects, Goes, at, Unasked, PlayerInv, ClientInv, TypeOK, StagesOK
  <2>2. at = "out"
    BY <1>1 DEF Connects, Goes, at, Unasked
  <2>3. QED BY <2>1, <2>2, OutStays
<1>2. CASE CannotConnect
  <2>1. at = "out" /\ to_server' = <<>>
    BY <1>2 DEF CannotConnect, GivesUp, Goes, at, Unasked
  <2>2. CASE UNCHANGED pc
    BY <1>2, <2>1, <2>2, OutStays DEF CannotConnect, GivesUp, Goes, at, Unasked, PlayerInv,
       ClientInv, TypeOK, StagesOK
  <2>3. CASE GivesUp("connect", "RELEASE_SOCKET")
    <3>1. pc'["main"] = "release" /\ to_release' = release_source("RELEASE_SOCKET")
      BY <2>3 DEF GivesUp, Goes, PlayerInv, ClientInv, TypeOK, StagesOK
    <3>2. Head(to_release') # "list"
      BY <3>1 DEF release_source
    <3>3. QED BY <2>1, <3>1, <3>2, OutLeaves DEF at, Unasked, Gone
  <2>4. QED BY <1>2, <2>2, <2>3 DEF CannotConnect
<1>3. CASE CreatesSender
  <2>1. at = "out"
    BY <1>3 DEF CreatesSender, CreatesThread, GivesUp, Goes, at, Unasked
  <2>2. CASE pc'["main"] = "create_receiver"
    BY <2>1, <2>2, OutStays DEF at, Unasked
  <2>3. CASE GivesUp("create_sender", "RELEASE_THREADS")
    BY <1>3, <2>1, <2>3, ThreadFails DEF CreatesSender, CreatesThread, link
  <2>4. QED BY <1>3, <2>2, <2>3 DEF CreatesSender, CreatesThread, PlayerInv, ClientInv, TypeOK,
               StagesOK
<1>4. CASE CreatesReceiver
  <2>1. at = "out"
    BY <1>4 DEF CreatesReceiver, CreatesThread, GivesUp, Goes, at, Unasked
  <2>2. CASE pc'["main"] = "post" /\ posting' = "CLIENT_REQUEST"
    BY <2>1, <2>2, OutStays DEF at, Unasked
  <2>3. CASE GivesUp("create_receiver", "RELEASE_THREADS")
    BY <1>4, <2>1, <2>3, ThreadFails DEF CreatesReceiver, CreatesThread, link
  <2>4. QED BY <1>4, <2>2, <2>3 DEF CreatesReceiver, CreatesThread, PlayerInv, ClientInv, TypeOK,
               StagesOK
<1>5. CASE Posts
  BY <1>5, MainPosts
<1>6. CASE CannotPost
  <2>1. ~has_sync /\ UNCHANGED <<has_sync, to_server>> /\ pc["main"] = "post"
    BY <1>6, MutexWorks DEF CannotPost, link
  <2>2. ~Unasked'
    BY <1>6 DEF CannotPost, PostFails, GivesUp, Goes, Unasked, PlayerInv, ClientInv, TypeOK,
       StagesOK
  <2>3. at' = "gone"
    BY <2>1, <2>2 DEF at, Gone
  <2>4. CASE at = "out"
    <3>1. to_server' = <<>>
      BY <2>1, <2>4, WhereAt DEF PlayerInv, First
    <3>2. QED BY <2>3, <2>4, <3>1, OutLeaves
  <2>5. CASE at # "out"
    BY <2>1, <2>3, <2>5, SpokenStep DEF PlayerInv
  <2>6. QED BY <2>4, <2>5
<1>7. CASE GivesPermit
  <2>1. pc["main"] \in {"permit"} /\ ~Unasked /\ ~Unasked'
    BY <1>7 DEF GivesPermit, Unasked, Goes, GivesUp, PlayerInv, ClientInv, TypeOK, StagesOK
  <2>2. pc'["sender"] = pc["sender"] /\ pc'["receiver"] = pc["receiver"]
    BY <1>7 DEF GivesPermit, Goes, GivesUp, PlayerInv, ClientInv, TypeOK, StagesOK
  <2>3. UNCHANGED <<link, lists, accepted, massage, has_sync>>
    BY <1>7 DEF GivesPermit, main, sync
  <2>4. QED BY <2>1, <2>2, <2>3, MainQuiet
<1>8. CASE IsAnswered
  <2>1. pc["main"] \in {"respond"} /\ ~Unasked /\ ~Unasked'
    BY <1>8 DEF IsAnswered, Unasked, Goes, GivesUp, PlayerInv, ClientInv, TypeOK, StagesOK
  <2>2. pc'["sender"] = pc["sender"] /\ pc'["receiver"] = pc["receiver"]
    BY <1>8 DEF IsAnswered, Goes, GivesUp, PlayerInv, ClientInv, TypeOK, StagesOK
  <2>3. UNCHANGED <<link, lists, accepted, massage, has_sync>>
    BY <1>8 DEF IsAnswered, main, sync
  <2>4. QED BY <2>1, <2>2, <2>3, MainQuiet
<1>9. CASE WaitTimesOut
  <2>1. pc["main"] \in {"respond"} /\ ~Unasked /\ ~Unasked'
    BY <1>9 DEF WaitTimesOut, Unasked, Goes, GivesUp, PlayerInv, ClientInv, TypeOK, StagesOK,
       PostFails
  <2>2. pc'["sender"] = pc["sender"] /\ pc'["receiver"] = pc["receiver"]
    BY <1>9 DEF WaitTimesOut, Goes, GivesUp, PlayerInv, ClientInv, TypeOK, StagesOK, PostFails
  <2>3. UNCHANGED <<link, lists, accepted, massage, has_sync>>
    BY <1>9 DEF WaitTimesOut, main, sync, PostFails
  <2>4. QED BY <2>1, <2>2, <2>3, MainQuiet
<1>10. CASE TakesReceived
  <2>1. pc["main"] \in {"await"} /\ ~Unasked /\ ~Unasked'
    BY <1>10 DEF TakesReceived, Unasked, Goes, GivesUp, PlayerInv, ClientInv, TypeOK, StagesOK
  <2>2. pc'["sender"] = pc["sender"] /\ pc'["receiver"] = pc["receiver"]
    BY <1>10 DEF TakesReceived, Goes, GivesUp, PlayerInv, ClientInv, TypeOK, StagesOK
  <2>3. UNCHANGED <<link, lists, accepted, massage, has_sync>>
    BY <1>10 DEF TakesReceived, main, sync
  <2>4. QED BY <2>1, <2>2, <2>3, MainQuiet
<1>11. CASE ReadsFlag
  <2>1. pc["main"] \in {"flag"} /\ ~Unasked /\ ~Unasked'
    BY <1>11 DEF ReadsFlag, Unasked, Goes, GivesUp, PlayerInv, ClientInv, TypeOK, StagesOK
  <2>2. pc'["sender"] = pc["sender"] /\ pc'["receiver"] = pc["receiver"]
    BY <1>11 DEF ReadsFlag, Goes, GivesUp, PlayerInv, ClientInv, TypeOK, StagesOK
  <2>3. UNCHANGED <<link, lists, accepted, massage, has_sync>>
    BY <1>11 DEF ReadsFlag, main, sync
  <2>4. QED BY <2>1, <2>2, <2>3, MainQuiet
<1>12. CASE TakesMessage
  BY <1>12, MainTakes
<1>13. CASE Answers
  <2>1. pc["main"] \in {"choose"} /\ ~Unasked /\ ~Unasked'
    BY <1>13 DEF Answers, Unasked, Goes, GivesUp, PlayerInv, ClientInv, TypeOK, StagesOK
  <2>2. pc'["sender"] = pc["sender"] /\ pc'["receiver"] = pc["receiver"]
    BY <1>13 DEF Answers, Goes, GivesUp, PlayerInv, ClientInv, TypeOK, StagesOK
  <2>3. UNCHANGED <<link, lists, accepted, massage, has_sync>>
    BY <1>13 DEF Answers, main, sync
  <2>4. QED BY <2>1, <2>2, <2>3, MainQuiet
<1>14. CASE IsDenied
  <2>1. pc["main"] \in {"choose"} /\ ~Unasked /\ ~Unasked'
    BY <1>14 DEF IsDenied, Unasked, Goes, GivesUp, PlayerInv, ClientInv, TypeOK, StagesOK
  <2>2. pc'["sender"] = pc["sender"] /\ pc'["receiver"] = pc["receiver"]
    BY <1>14 DEF IsDenied, Goes, GivesUp, PlayerInv, ClientInv, TypeOK, StagesOK
  <2>3. UNCHANGED <<link, lists, accepted, massage, has_sync>>
    BY <1>14 DEF IsDenied, main, sync
  <2>4. QED BY <2>1, <2>2, <2>3, MainQuiet
<1>15. CASE StartsShutdown
  <2>1. pc["main"] \in {"graceful"} /\ ~Unasked /\ ~Unasked'
    BY <1>15 DEF StartsShutdown, Unasked, Goes, GivesUp, PlayerInv, ClientInv, TypeOK, StagesOK
  <2>2. pc'["sender"] = pc["sender"] /\ pc'["receiver"] = pc["receiver"]
    BY <1>15 DEF StartsShutdown, Goes, GivesUp, PlayerInv, ClientInv, TypeOK, StagesOK
  <2>3. UNCHANGED <<link, lists, accepted, massage, has_sync>>
    BY <1>15 DEF StartsShutdown, main, sync
  <2>4. QED BY <2>1, <2>2, <2>3, MainQuiet
<1>16. CASE Joins
  <2>1. pc["main"] \in {"join"} /\ ~Unasked /\ ~Unasked'
    BY <1>16 DEF Joins, Unasked, Goes, GivesUp, PlayerInv, ClientInv, TypeOK, StagesOK
  <2>2. pc'["sender"] = pc["sender"] /\ pc'["receiver"] = pc["receiver"]
    BY <1>16 DEF Joins, Goes, GivesUp, PlayerInv, ClientInv, TypeOK, StagesOK
  <2>3. UNCHANGED <<link, lists, accepted, massage, has_sync>>
    BY <1>16 DEF Joins, main, sync
  <2>4. QED BY <2>1, <2>2, <2>3, MainQuiet
<1>17. CASE ReleasesLists
  <2>1. "list" \in Tasks /\ Does("list")
    BY <1>17 DEF ReleasesLists, Tasks
  <2>2. pc'["main"] = pc["main"] /\ (Active("sender")' => Active("sender"))
    BY <1>17 DEF ReleasesLists, Active
  <2>3. (has_sync' => has_sync) /\ UNCHANGED to_server
    BY <1>17 DEF ReleasesLists, link, sync
  <2>4. g_main_socket' = "open" => g_main_socket = "open"
    BY <1>17 DEF ReleasesLists, link
  <2>5. QED BY <1>17, <2>1, <2>2, <2>3, <2>4, MainReleases DEF ReleasesLists
<1>18. CASE WakesSender
  <2>1. "wake" \in Tasks /\ Does("wake")
    BY <1>18 DEF WakesSender, Tasks
  <2>2. pc'["main"] = pc["main"] /\ (Active("sender")' => Active("sender"))
    BY <1>18 DEF WakesSender, Active
  <2>3. (has_sync' => has_sync) /\ UNCHANGED to_server
    BY <1>18 DEF WakesSender, link, sync
  <2>4. g_main_socket' = "open" => g_main_socket = "open"
    BY <1>18 DEF WakesSender, link
  <2>5. QED BY <1>18, <2>1, <2>2, <2>3, <2>4, MainReleases DEF WakesSender
<1>19. CASE ClosesThreads
  <2>1. PICK what \in {"first", "second"}, ind \in {REC_THREAD, SEND_THREAD} : ClosesThread(what, ind)
    BY <1>19 DEF ClosesThreads
  <2>2. what \in Tasks /\ Does(what) /\ what # "socket"
    BY <2>1 DEF ClosesThread, Tasks
  <2>3. UNCHANGED <<has_sync, to_server, g_main_socket>>
    BY <2>1 DEF ClosesThread, link
  <2>4. pc'["main"] = pc["main"] /\ (Active("sender")' => Active("sender"))
    BY <2>1 DEF ClosesThread, end_thread, Active, Over, PlayerInv, ClientInv, TypeOK, StagesOK,
       HandlesOK
  <2>5. QED BY <2>2, <2>3, <2>4, MainReleases
<1>20. CASE ClosesSocket
  <2>1. "socket" \in Tasks /\ Does("socket")
    BY <1>20 DEF ClosesSocket, Tasks
  <2>2. pc'["main"] = pc["main"] /\ (Active("sender")' => Active("sender"))
    BY <1>20 DEF ClosesSocket, Active
  <2>3. (has_sync' => has_sync) /\ UNCHANGED to_server
    BY <1>20 DEF ClosesSocket, link, sync
  <2>4. g_main_socket' = "open" => g_main_socket = "open"
    BY <1>20 DEF ClosesSocket, link
  <2>5. QED BY <1>20, <2>1, <2>2, <2>3, <2>4, MainReleases DEF ClosesSocket
<1>21. CASE close_sync_object
  <2>1. "sync" \in Tasks /\ Does("sync")
    BY <1>21 DEF close_sync_object, Tasks
  <2>2. pc'["main"] = pc["main"] /\ (Active("sender")' => Active("sender"))
    BY <1>21 DEF close_sync_object, Active
  <2>3. (has_sync' => has_sync) /\ UNCHANGED to_server
    BY <1>21 DEF close_sync_object, link, sync
  <2>4. g_main_socket' = "open" => g_main_socket = "open"
    BY <1>21 DEF close_sync_object, link
  <2>5. QED BY <1>21, <2>1, <2>2, <2>3, <2>4, MainReleases DEF close_sync_object
<1>22. CASE Finishes
  <2>1. to_release = <<>> /\ pc["main"] \in {"release", "reset"} /\ UNCHANGED to_server
    BY <1>22 DEF Finishes, Goes, link
  <2>2. at = "gone"
    BY <2>1 DEF at, Unasked, Gone
  <2>3. CASE pc'["main"] = "ended"
    <3>1. at' = "gone"
      BY <2>3 DEF at, Unasked, Gone, Running
    <3>2. QED BY <2>1, <2>2, <3>1, SpokenStep DEF PlayerInv
  <2>4. CASE pc'["main"] = "connect"
    BY <2>2, <2>4, GoneReturns DEF at, Unasked
  <2>5. QED BY <1>22, <2>3, <2>4 DEF Finishes, Goes, PlayerInv, ClientInv, TypeOK, StagesOK
<1>23. QED BY <1>1, <1>2, <1>3, <1>4, <1>5, <1>6, <1>7, <1>8, <1>9, <1>10, <1>11, <1>12, <1>13,
              <1>14, <1>15, <1>16, <1>17, <1>18, <1>19, <1>20, <1>21, <1>22 DEF MainStep

-----------------------------------------------------------------------------
(* The threads: neither asks for main, nor brings back who is gone.        *)
LEMMA ThreadStep ==
  ASSUME PlayerInv, Running, pc'["main"] = pc["main"], UNCHANGED <<posting, has_sync, to_release>>,
         g_main_socket' = "open" => g_main_socket = "open",
         Active("sender")' => Active("sender"),
         ~Unasked => UNCHANGED to_server \/ at' = "in",
         at = "in" /\ at' = "in" => PlayerStep
  PROVE  PlayerStep
<1>1. at = "out" <=> at' = "out"
  BY DEF at, Unasked
<1>2. at = "gone" => at' = "gone"
  BY <1>1 DEF at, Gone, Running, Unasked
<1>3. CASE at = "out"
  BY <1>1, <1>3, OutStays
<1>4. CASE at # "out"
  <2>1. at' # "out" /\ ClientInv /\ (at' = "gone" => UNCHANGED to_server)
    BY <1>1, <1>4, WhereAt DEF PlayerInv
  <2>2. QED BY <1>2, <1>4, <2>1, SpokenStep
<1>5. QED BY <1>3, <1>4

LEMMA InMeans ==
  ASSUME PlayerInv, at = "in"
  PROVE  /\ has_sync /\ g_main_socket = "open" /\ Active("sender") /\ Running /\ ~Unasked
         /\ pc["receiver"] \notin {"lock", "append", "ended", "failed", "killed"} => One(accepted) = <<>>
         /\ pc["receiver"] \in {"lock", "append"} => accepted \in Message
  BY DEF at, Gone, PlayerInv, Talk, One

LEMMA LosesComing ==
  ASSUME PlayerInv, at = "in", at' = "in", ~Active("receiver")',
         UNCHANGED <<massage, gp_recived_massge_hade, to_server, gp_massage_to_send_hade>>
  PROVE  PlayerStep
<1>1. coming' = <<>>
  BY DEF coming
<1>2. PICK c \in Seq(Heard) : c = coming
  BY ComingIsHeard DEF PlayerInv
<1>3. 0 \in 0 .. Len(c) /\ SubSeq(c, 1, 0) = <<>>
  BY SubSeqEmpty
<1>4. 0 \in 0 .. Len(coming) /\ coming' = SubSeq(coming, 1, 0)
  BY <1>1, <1>2, <1>3
<1>5. QED BY <1>4, MissesComing DEF PlayerInv

LEMMA LastOfAppend ==
  ASSUME NEW S, NEW s \in Seq(S), NEW x \in S
  PROVE  \E d \in Seq(S) : d = Append(s, x) /\ d # <<>> /\ Len(d) = Len(s) + 1 /\ d[Len(d)] = x
<1>1. /\ Append(s, x) \in Seq(S) /\ Append(s, x) # <<>> /\ Len(Append(s, x)) = Len(s) + 1
      /\ Append(s, x)[Len(s) + 1] = x
  BY AppendProperties
<1>2. PICK d : d = Append(s, x)
  OBVIOUS
<1>3. d \in Seq(S) /\ d # <<>> /\ Len(d) = Len(s) + 1 /\ d[Len(s) + 1] = x
  BY <1>1, <1>2
<1>4. d[Len(d)] = x
  BY <1>3
<1>5. QED BY <1>2, <1>3, <1>4

LEMMA StartWithHead ==
  ASSUME NEW S, NEW s \in Seq(S), Len(s) > 1
  PROVE  SubSeq(s, 1, Len(s) - 1) = <<Head(s)>> \o SubSeq(Tail(s), 1, Len(Tail(s)) - 1)
<1>1. PICK n \in Nat : n = Len(s) /\ n > 1
  OBVIOUS
<1>2. PICK x \in S : x = Head(s) /\ x = s[1]
  BY <1>1
<1>3. PICK u \in Seq(S) : u = Tail(s) /\ Len(u) = n - 1 /\ \A i \in 1 .. n - 1 : u[i] = s[i + 1]
  <2>1. s # <<>>
    BY <1>1
  <2>2. /\ Tail(s) \in Seq(S) /\ Len(Tail(s)) = n - 1
        /\ \A i \in 1 .. Len(Tail(s)) : Tail(s)[i] = s[i + 1]
    BY <1>1, <2>1, TailElements
  <2>3. QED BY <2>2
<1>4. PICK v \in Seq(S) : v = SubSeq(u, 1, n - 2) /\ Len(v) = n - 2 /\ \A i \in 1 .. n - 2 : v[i] = u[i]
  <2>1. 1 \in Int /\ n - 2 \in Int /\ \A i \in 1 .. n - 2 : u[i] \in S
    BY <1>1, <1>3
  <2>2. SubSeq(u, 1, n - 2) \in Seq(S) /\ Len(SubSeq(u, 1, n - 2)) = n - 2
        /\ \A i \in 1 .. n - 2 : SubSeq(u, 1, n - 2)[i] = u[i]
    BY <1>1, <2>1, SubSeqProperties
  <2>3. QED BY <2>2
<1>5. PICK w \in Seq(S) : w = SubSeq(s, 1, n - 1) /\ Len(w) = n - 1 /\ \A i \in 1 .. n - 1 : w[i] = s[i]
  <2>1. 1 \in Int /\ n - 1 \in Int /\ \A i \in 1 .. n - 1 : s[i] \in S
    BY <1>1
  <2>2. SubSeq(s, 1, n - 1) \in Seq(S) /\ Len(SubSeq(s, 1, n - 1)) = n - 1
        /\ \A i \in 1 .. n - 1 : SubSeq(s, 1, n - 1)[i] = s[i]
    BY <1>1, <2>1, SubSeqProperties
  <2>3. QED BY <2>2
<1>6. /\ <<x>> \o v \in Seq(S) /\ Len(<<x>> \o v) = 1 + Len(v)
      /\ \A i \in 1 .. 1 + Len(v) : (<<x>> \o v)[i] = IF i <= 1 THEN x ELSE v[i - 1]
  OBVIOUS
<1>7. ASSUME NEW i \in 1 .. n - 1 PROVE (<<x>> \o v)[i] = w[i]
  <2>1. CASE i = 1
    BY <1>1, <1>2, <1>4, <1>5, <1>6, <2>1
  <2>2. CASE i # 1
    <3>1. i - 1 \in 1 .. n - 2 /\ i - 1 \in 1 .. n - 1 /\ i \in 1 .. 1 + Len(v) /\ ~(i <= 1) /\ (i - 1) + 1 = i
      BY <1>1, <1>4, <2>2
    <3>2. (<<x>> \o v)[i] = v[i - 1]
      BY <1>6, <3>1
    <3>3. QED BY <1>3, <1>4, <1>5, <3>1, <3>2
  <2>3. QED BY <2>1, <2>2
<1>8. w = <<x>> \o v
  BY <1>1, <1>4, <1>5, <1>6, <1>7, SeqEqual
<1>9. Len(s) - 1 = n - 1 /\ Len(Tail(s)) - 1 = n - 2
  BY <1>1, <1>3
<1>10. QED BY <1>2, <1>3, <1>4, <1>5, <1>8, <1>9

(* The receiver takes the first message: it was said before the others.    *)
LEMMA TakesFirst ==
  ASSUME PlayerInv, to_client # <<>>, Head(to_client) \in Message, to_client' = Tail(to_client)
  PROVE  said_to_client = <<Head(to_client)>> \o said_to_client'
<1>1. PICK s \in Seq(Heard) : s = to_client /\ s # <<>>
  BY DEF PlayerInv, ClientInv, TypeOK, MessagesOK
<1>2. PICK u \in Seq(Heard) : u = Tail(s) /\ Len(u) = Len(s) - 1 /\ \A i \in 1 .. Len(u) : u[i] = s[i + 1]
  BY <1>1, TailElements
<1>3. Head(s) = s[1] /\ Len(s) \in Nat \ {0} /\ s = <<Head(s)>> \o u
  BY <1>1, <1>2, TailElements, HeadThenTail
<1>4. CASE u = <<>>
  <2>1. Len(s) = 1
    <3>1. Len(u) = 0 /\ Len(u) = Len(s) - 1
      BY <1>2, <1>4
    <3>2. QED BY <1>3, <3>1
  <2>2. ~ServerGone /\ ~ServerGone'
    BY <1>1, <1>2, <1>3, <1>4, <2>1 DEF ServerGone
  <2>3. QED BY <1>1, <1>2, <1>3, <2>2 DEF said_to_client
<1>5. CASE u # <<>>
  <2>1. Len(u) \in Nat \ {0} /\ Len(u) \in 1 .. Len(u) /\ Len(u) + 1 = Len(s) /\ Len(s) > 1
    BY <1>2, <1>3, <1>5
  <2>2. u[Len(u)] = s[Len(s)]
    BY <1>2, <2>1
  <2>3. ServerGone' <=> ServerGone
    BY <1>1, <1>2, <1>5, <2>2 DEF ServerGone
  <2>4. CASE ServerGone
    <3>1. said_to_client = SubSeq(s, 1, Len(s) - 1) /\ said_to_client' = SubSeq(Tail(s), 1, Len(Tail(s)) - 1)
      BY <1>1, <2>3, <2>4 DEF said_to_client
    <3>2. QED BY <1>1, <2>1, <3>1, StartWithHead
  <2>5. CASE ~ServerGone
    BY <1>1, <1>2, <1>3, <2>3, <2>5 DEF said_to_client
  <2>6. QED BY <2>4, <2>5
<1>6. QED BY <1>4, <1>5

LEMMA ReceivesPlays ==
  ASSUME PlayerInv, Receives, at = "in", at' = "in"
  PROVE  PlayerStep
<1>1. /\ pc["receiver"] = "recv" /\ g_main_socket = "open" /\ One(accepted) = <<>> /\ to_client # <<>>
      /\ accepted' = Head(to_client)
      /\ to_client' = (IF Head(to_client) \in Message THEN Tail(to_client) ELSE to_client)
      /\ UNCHANGED <<massage, gp_recived_massge_hade, to_server, gp_massage_to_send_hade>>
  BY InMeans DEF Receives, lists, main
<1>2. CASE Active("receiver")'
  <2>1. coming = <<>> \o said_to_client /\ coming' = One(accepted') \o said_to_client'
    BY <1>1, <1>2 DEF coming, Active, Over
  <2>2. said_to_client \in Seq(Heard)
    BY ComingIsHeard DEF PlayerInv
  <2>3. coming = said_to_client
    BY <2>1, <2>2
  <2>4. CASE Head(to_client) \in Message
    <3>1. coming' = <<Head(to_client)>> \o said_to_client'
      BY <1>1, <2>1, <2>4 DEF One
    <3>2. coming' = coming
      BY <1>1, <2>3, <2>4, <3>1, TakesFirst
    <3>3. QED BY <1>1, <3>2, SameBoxes
  <2>5. CASE Head(to_client) \notin Message
    <3>1. coming' = coming
      BY <1>1, <2>1, <2>5 DEF One, said_to_client, ServerGone
    <3>2. QED BY <1>1, <3>1, SameBoxes
  <2>6. QED BY <2>4, <2>5
<1>3. CASE ~Active("receiver")'
  BY <1>1, <1>3, LosesComing
<1>4. QED BY <1>2, <1>3

LEMMA AppendsPlays ==
  ASSUME PlayerInv, ReceiverAppends, at = "in", at' = "in"
  PROVE  PlayerStep
<1>1. /\ pc["receiver"] = "append" /\ pc'["receiver"] = "signal" /\ accepted' = "none"
      /\ gp_recived_massge_hade' = Append(gp_recived_massge_hade, accepted)
      /\ UNCHANGED <<massage, to_client, to_server, gp_massage_to_send_hade>>
  BY DEF ReceiverAppends, add_message_to_cell_arr, Goes, lists, link, main, PlayerInv, ClientInv,
         TypeOK, StagesOK
<1>2. accepted \in Message /\ accepted \in Heard
  BY <1>1, InMeans DEF Heard
<1>3. PICK o \in Seq(Heard), r \in Seq(Heard), s \in Seq(Heard) :
        o = One(massage) /\ r = gp_recived_massge_hade /\ s = said_to_client
  BY ComingIsHeard DEF PlayerInv, ClientInv, TypeOK, MessagesOK
<1>4. s = said_to_client' /\ o = One(massage')
  BY <1>1, <1>3 DEF said_to_client, ServerGone, One
<1>5. coming = <<accepted>> \o s /\ coming' = <<>> \o s
  BY <1>1, <1>2, <1>3, <1>4 DEF coming, One, Active, Over, Message, Question
<1>6. inbox = (o \o r) \o (<<accepted>> \o s) /\ inbox' = (o \o Append(r, accepted)) \o s
  BY <1>1, <1>3, <1>4, <1>5 DEF inbox
<1>7. <<accepted>> \in Seq(Heard) /\ o \o r \in Seq(Heard)
  BY <1>2, ConcatProperties
<1>8. o \o Append(r, accepted) = (o \o r) \o <<accepted>>
  BY <1>2, <1>7, AppendOfSecond, AppendIsConcat
<1>9. inbox' = inbox
  BY <1>6, <1>7, <1>8, ConcatAssociative
<1>10. QED BY <1>1, <1>9 DEF PlayerStep, outbox

LEMMA ReceiverPlays ==
  PlayerInv /\ ReceiverStep => PlayerStep
<1> SUFFICES ASSUME PlayerInv, ReceiverStep PROVE PlayerStep
  OBVIOUS
<1> USE DEF main, sync, link, lists, Goes
<1>0. Running /\ UNCHANGED <<posting, has_sync, to_release, to_server, massage, gp_massage_to_send_hade>>
  BY DEF ReceiverStep, Receives, ReleasesAlarm, RaisesFlag, ReceivesFin, ReceiverCloses,
     ReceiverQuits, ReceiverLocks, ReceiverAppends, ReceiverSignals
<1>0a. pc'["sender"] = pc["sender"] /\ (g_main_socket' = "open" => g_main_socket = "open")
  BY DEF ReceiverStep, PlayerInv, ClientInv, TypeOK, StagesOK, Receives, ReleasesAlarm,
     RaisesFlag, ReceivesFin, ReceiverCloses, ReceiverQuits, ReceiverLocks, ReceiverAppends,
     ReceiverSignals
<1>1. CASE Receives
  <2>1. at = "in" /\ at' = "in" => PlayerStep
    BY <1>1, ReceivesPlays
  <2>2. pc'["main"] = pc["main"] /\ (Active("sender")' => Active("sender"))
    BY <1>0a, <1>1 DEF Receives, Active, PlayerInv, ClientInv, TypeOK, StagesOK
  <2>3. QED BY <1>0, <1>0a, <2>1, <2>2, ThreadStep
<1>2. CASE ReleasesAlarm
  <2>1. CASE pc'["main"] = "ended"
    <3>1. at' = "gone"
      BY <2>1 DEF at, Unasked, Gone, Running
    <3>2. CASE at = "out"
      <4>1. has_sync \/ pc["main"] # "connect"
        BY <1>2 DEF ReleasesAlarm, PlayerInv, ClientInv, ObjectsOutliveThreads, Active, Over,
           Later, TypeOK, SyncOK
      <4>2. to_server' = <<>>
        BY <1>0, <3>2, <4>1, WhereAt DEF PlayerInv, First
      <4>3. QED BY <3>1, <3>2, <4>2, OutLeaves
    <3>3. CASE at # "out"
      BY <1>0, <3>1, <3>3, SpokenStep DEF PlayerInv
    <3>4. QED BY <3>2, <3>3
  <2>2. CASE pc'["main"] # "ended"
    <3>1. pc["receiver"] = "alarm" /\ pc'["receiver"] = "raise" /\ pc'["main"] = pc["main"]
          /\ accepted' = "none" /\ UNCHANGED <<to_client, gp_recived_massge_hade>>
      BY <1>2, <2>2 DEF ReleasesAlarm, PlayerInv, ClientInv, TypeOK, StagesOK
    <3>2. ASSUME at = "in", at' = "in" PROVE PlayerStep
      <4>1. One(accepted) = <<>> /\ One(accepted') = <<>>
        BY <3>1, <3>2, InMeans DEF One, Message, Question
      <4>2. UNCHANGED coming
        BY <3>1, <4>1 DEF coming, said_to_client, ServerGone, Active, Over
      <4>3. QED BY <1>0, <3>1, <3>2, <4>2, SameBoxes
    <3>3. Active("sender")' => Active("sender")
      BY <1>0a DEF Active
    <3>4. QED BY <1>0, <1>0a, <3>1, <3>2, <3>3, ThreadStep
  <2>3. QED BY <2>1, <2>2
<1>3. CASE RaisesFlag
  <2>1. pc'["main"] = pc["main"] /\ (Active("sender")' => Active("sender"))
    BY <1>0a, <1>3 DEF RaisesFlag, Active, PlayerInv, ClientInv, TypeOK, StagesOK
  <2>2. ASSUME at = "in", at' = "in" PROVE PlayerStep
    <3>1. UNCHANGED <<to_client, gp_recived_massge_hade>>
      BY <1>3 DEF RaisesFlag
    <3>2. CASE Active("receiver")'
      <4>1. UNCHANGED coming
        BY <1>3, <2>2, <3>1, <3>2, InMeans DEF RaisesFlag, coming, said_to_client, ServerGone,
           Active, Over, One, Message, Question, PlayerInv, ClientInv, TypeOK, StagesOK
      <4>2. QED BY <1>0, <2>2, <3>1, <4>1, SameBoxes
    <3>3. CASE ~Active("receiver")'
      BY <1>0, <2>2, <3>1, <3>3, LosesComing
    <3>4. QED BY <3>2, <3>3
  <2>3. QED BY <1>0, <1>0a, <2>1, <2>2, ThreadStep
<1>4. CASE ReceivesFin
  <2>1. pc'["main"] = pc["main"] /\ (Active("sender")' => Active("sender"))
    BY <1>0a, <1>4 DEF ReceivesFin, Active, PlayerInv, ClientInv, TypeOK, StagesOK
  <2>2. ASSUME at = "in", at' = "in" PROVE PlayerStep
    <3>1. UNCHANGED <<to_client, gp_recived_massge_hade>>
      BY <1>4 DEF ReceivesFin
    <3>2. CASE Active("receiver")'
      <4>1. UNCHANGED coming
        BY <1>4, <2>2, <3>1, <3>2, InMeans DEF ReceivesFin, coming, said_to_client, ServerGone,
           Active, Over, One, Message, Question, PlayerInv, ClientInv, TypeOK, StagesOK
      <4>2. QED BY <1>0, <2>2, <3>1, <4>1, SameBoxes
    <3>3. CASE ~Active("receiver")'
      BY <1>0, <2>2, <3>1, <3>3, LosesComing
    <3>4. QED BY <3>2, <3>3
  <2>3. QED BY <1>0, <1>0a, <2>1, <2>2, ThreadStep
<1>5. CASE ReceiverCloses
  <2>1. pc'["main"] = pc["main"] /\ (Active("sender")' => Active("sender"))
    BY <1>0a, <1>5 DEF ReceiverCloses, Active, PlayerInv, ClientInv, TypeOK, StagesOK
  <2>2. ASSUME at = "in", at' = "in" PROVE PlayerStep
    <3>1. UNCHANGED <<to_client, gp_recived_massge_hade>>
      BY <1>5 DEF ReceiverCloses
    <3>2. CASE Active("receiver")'
      <4>1. UNCHANGED coming
        BY <1>5, <2>2, <3>1, <3>2, InMeans DEF ReceiverCloses, coming, said_to_client,
           ServerGone, Active, Over, One, Message, Question, PlayerInv, ClientInv, TypeOK,
           StagesOK
      <4>2. QED BY <1>0, <2>2, <3>1, <4>1, SameBoxes
    <3>3. CASE ~Active("receiver")'
      BY <1>0, <2>2, <3>1, <3>3, LosesComing
    <3>4. QED BY <3>2, <3>3
  <2>3. QED BY <1>0, <1>0a, <2>1, <2>2, ThreadStep
<1>6. CASE ReceiverQuits
  <2>1. pc'["main"] = pc["main"] /\ (Active("sender")' => Active("sender"))
    BY <1>0a, <1>6 DEF ReceiverQuits, Active, PlayerInv, ClientInv, TypeOK, StagesOK
  <2>2. ASSUME at = "in", at' = "in" PROVE PlayerStep
    <3>1. UNCHANGED <<to_client, gp_recived_massge_hade>>
      BY <1>6 DEF ReceiverQuits
    <3>2. CASE Active("receiver")'
      <4>1. UNCHANGED coming
        BY <1>6, <2>2, <3>1, <3>2, InMeans DEF ReceiverQuits, coming, said_to_client, ServerGone,
           Active, Over, One, Message, Question, PlayerInv, ClientInv, TypeOK, StagesOK
      <4>2. QED BY <1>0, <2>2, <3>1, <4>1, SameBoxes
    <3>3. CASE ~Active("receiver")'
      BY <1>0, <2>2, <3>1, <3>3, LosesComing
    <3>4. QED BY <3>2, <3>3
  <2>3. QED BY <1>0, <1>0a, <2>1, <2>2, ThreadStep
<1>7. CASE ReceiverLocks
  <2>1. pc'["main"] = pc["main"] /\ (Active("sender")' => Active("sender"))
    BY <1>0a, <1>7 DEF ReceiverLocks, Active, PlayerInv, ClientInv, TypeOK, StagesOK
  <2>2. ASSUME at = "in", at' = "in" PROVE PlayerStep
    <3>1. UNCHANGED <<to_client, gp_recived_massge_hade>>
      BY <1>7 DEF ReceiverLocks
    <3>2. CASE Active("receiver")'
      <4>1. UNCHANGED coming
        BY <1>7, <2>2, <3>1, <3>2, InMeans DEF ReceiverLocks, coming, said_to_client, ServerGone,
           Active, Over, One, Message, Question, PlayerInv, ClientInv, TypeOK, StagesOK
      <4>2. QED BY <1>0, <2>2, <3>1, <4>1, SameBoxes
    <3>3. CASE ~Active("receiver")'
      BY <1>0, <2>2, <3>1, <3>3, LosesComing
    <3>4. QED BY <3>2, <3>3
  <2>3. QED BY <1>0, <1>0a, <2>1, <2>2, ThreadStep
<1>8. CASE ReceiverAppends
  <2>1. at = "in" /\ at' = "in" => PlayerStep
    BY <1>8, AppendsPlays
  <2>2. pc'["main"] = pc["main"] /\ (Active("sender")' => Active("sender"))
    BY <1>0a, <1>8 DEF ReceiverAppends, Active, PlayerInv, ClientInv, TypeOK, StagesOK
  <2>3. QED BY <1>0, <1>0a, <2>1, <2>2, ThreadStep
<1>9. CASE ReceiverSignals
  <2>1. pc'["main"] = pc["main"] /\ (Active("sender")' => Active("sender"))
    BY <1>0a, <1>9 DEF ReceiverSignals, Active, PlayerInv, ClientInv, TypeOK, StagesOK
  <2>2. ASSUME at = "in", at' = "in" PROVE PlayerStep
    <3>1. UNCHANGED <<to_client, gp_recived_massge_hade>>
      BY <1>9 DEF ReceiverSignals
    <3>2. CASE Active("receiver")'
      <4>1. UNCHANGED coming
        BY <1>9, <2>2, <3>1, <3>2, InMeans DEF ReceiverSignals, coming, said_to_client,
           ServerGone, Active, Over, One, Message, Question, PlayerInv, ClientInv, TypeOK,
           StagesOK
      <4>2. QED BY <1>0, <2>2, <3>1, <4>1, SameBoxes
    <3>3. CASE ~Active("receiver")'
      BY <1>0, <2>2, <3>1, <3>3, LosesComing
    <3>4. QED BY <3>2, <3>3
  <2>3. QED BY <1>0, <1>0a, <2>1, <2>2, ThreadStep
<1>10. QED BY <1>1, <1>2, <1>3, <1>4, <1>5, <1>6, <1>7, <1>8, <1>9 DEF ReceiverStep

LEMMA SenderPlays ==
  PlayerInv /\ SenderStep => PlayerStep
<1> SUFFICES ASSUME PlayerInv, SenderStep PROVE PlayerStep
  OBVIOUS
<1> USE DEF main, sync, link, lists, Goes
<1>0. Running /\ UNCHANGED <<posting, has_sync, to_release, massage, gp_recived_massge_hade, to_client, accepted>>
  BY DEF SenderStep, SenderTakesPermit, SenderChecks, SenderLocks, SenderSends,
     SenderFindsNothing, SenderShuts, SenderJoins
<1>0a. pc'["main"] = pc["main"] /\ pc'["receiver"] = pc["receiver"] /\ Active("sender")
       /\ (g_main_socket' = "open" => g_main_socket = "open")
  BY DEF SenderStep, PlayerInv, ClientInv, TypeOK, StagesOK, Active, Over, SenderTakesPermit,
     SenderChecks, SenderLocks, SenderSends, SenderFindsNothing, SenderShuts, SenderJoins
<1>0b. UNCHANGED coming
  BY <1>0, <1>0a DEF coming, said_to_client, ServerGone, Active, One
<1>1. CASE SenderTakesPermit
  <2>1. UNCHANGED <<to_server, gp_massage_to_send_hade>>
    BY <1>1 DEF SenderTakesPermit
  <2>2. at = "in" /\ at' = "in" => PlayerStep
    BY <1>0, <1>0b, <2>1, SameBoxes
  <2>3. Active("sender")' => Active("sender")
    BY <1>0a
  <2>4. QED BY <1>0, <1>0a, <2>1, <2>2, <2>3, ThreadStep
<1>2. CASE SenderChecks
  <2>1. UNCHANGED <<to_server, gp_massage_to_send_hade>>
    BY <1>2 DEF SenderChecks
  <2>2. at = "in" /\ at' = "in" => PlayerStep
    BY <1>0, <1>0b, <2>1, SameBoxes
  <2>3. Active("sender")' => Active("sender")
    BY <1>0a
  <2>4. QED BY <1>0, <1>0a, <2>1, <2>2, <2>3, ThreadStep
<1>3. CASE SenderLocks
  <2>1. UNCHANGED <<to_server, gp_massage_to_send_hade>>
    BY <1>3 DEF SenderLocks
  <2>2. at = "in" /\ at' = "in" => PlayerStep
    BY <1>0, <1>0b, <2>1, SameBoxes
  <2>3. Active("sender")' => Active("sender")
    BY <1>0a
  <2>4. QED BY <1>0, <1>0a, <2>1, <2>2, <2>3, ThreadStep
<1>4. CASE SenderSends
  <2>1. /\ pc["sender"] = "send" /\ gp_massage_to_send_hade # <<>>
        /\ gp_massage_to_send_hade' = Tail(gp_massage_to_send_hade)
        /\ \/ g_main_socket = "open" /\ to_server' = Append(to_server, Head(gp_massage_to_send_hade))
              /\ pc'["sender"] = "wait"
           \/ UNCHANGED to_server /\ pc'["sender"] = "failed"
    BY <1>4 DEF SenderSends, PlayerInv, ClientInv, TypeOK, StagesOK
  <2>2. ASSUME at = "in", at' = "in" PROVE PlayerStep
    <3>1. to_server' = Append(to_server, Head(gp_massage_to_send_hade))
      BY <2>1, <2>2 DEF at, Gone, Active, Over
    <3>2. PICK s \in Seq(Spoken), u \in Seq(Spoken) : s = to_server /\ u = gp_massage_to_send_hade /\ u # <<>>
      BY <2>1 DEF PlayerInv, ClientInv, TypeOK, MessagesOK
    <3>3. u = <<Head(u)>> \o Tail(u) /\ Head(u) \in Spoken /\ Tail(u) \in Seq(Spoken) /\ <<Head(u)>> \in Seq(Spoken)
      BY <3>2, TailElements, HeadThenTail
    <3>4. outbox = s \o u /\ outbox' = Append(s, Head(u)) \o Tail(u)
      BY <2>1, <2>2, <3>1, <3>2 DEF outbox
    <3>5. Append(s, Head(u)) \o Tail(u) = (s \o <<Head(u)>>) \o Tail(u)
      BY <3>3, AppendIsConcat
    <3>6. (s \o <<Head(u)>>) \o Tail(u) = s \o u
      BY <3>3, ConcatAssociative
    <3>7. UNCHANGED outbox /\ UNCHANGED inbox
      BY <1>0, <1>0b, <2>2, <3>4, <3>5, <3>6 DEF inbox, One
    <3>8. QED BY <2>2, <3>7 DEF PlayerStep
  <2>3. ASSUME ~Unasked PROVE UNCHANGED to_server \/ at' = "in"
    <3>1. CASE to_server' # to_server
      <4>1. has_sync
        BY <2>1 DEF PlayerInv, First, Over
      <4>2. pc["main"] \in {"release", "reset"} => to_release # <<>> /\ Head(to_release) = "list"
        <5>1. SUFFICES ASSUME pc["main"] \in {"release", "reset"} PROVE to_release # <<>> /\ Head(to_release) = "list"
          OBVIOUS
        <5>2. PlanOf(to_release, FALSE) /\ to_release[1] = "list"
          BY <1>0a, <2>1, <4>1, <5>1 DEF PlayerInv, ClientInv, Plans, Last
        <5>3. PICK s \in Seq(Tasks) : s = to_release /\ s # <<>>
          BY <5>2 DEF PlanOf
        <5>4. QED BY <5>2, <5>3, TailElements
      <4>3. g_main_socket' = "open" /\ Active("sender")' /\ ~Unasked'
        BY <1>0, <1>0a, <1>4, <2>1, <2>3, <3>1 DEF SenderSends, Unasked, Active, Over
      <4>4. Running'
        BY <1>0, <1>0a DEF Running
      <4>5. QED BY <1>0, <1>0a, <4>1, <4>2, <4>3, <4>4 DEF at, Gone
    <3>2. QED BY <3>1
  <2>4. Active("sender")' => Active("sender")
    BY <1>0a
  <2>5. QED BY <1>0, <1>0a, <2>2, <2>3, <2>4, ThreadStep
<1>5. CASE SenderFindsNothing
  <2>1. UNCHANGED <<to_server, gp_massage_to_send_hade>>
    BY <1>5 DEF SenderFindsNothing
  <2>2. at = "in" /\ at' = "in" => PlayerStep
    BY <1>0, <1>0b, <2>1, SameBoxes
  <2>3. Active("sender")' => Active("sender")
    BY <1>0a
  <2>4. QED BY <1>0, <1>0a, <2>1, <2>2, <2>3, ThreadStep
<1>6. CASE SenderShuts
  <2>1. UNCHANGED <<to_server, gp_massage_to_send_hade>>
    BY <1>6 DEF SenderShuts
  <2>2. at = "in" /\ at' = "in" => PlayerStep
    BY <1>0, <1>0b, <2>1, SameBoxes
  <2>3. Active("sender")' => Active("sender")
    BY <1>0a
  <2>4. QED BY <1>0, <1>0a, <2>1, <2>2, <2>3, ThreadStep
<1>7. CASE SenderJoins
  <2>1. UNCHANGED <<to_server, gp_massage_to_send_hade>>
    BY <1>7 DEF SenderJoins
  <2>2. at = "in" /\ at' = "in" => PlayerStep
    BY <1>0, <1>0b, <2>1, SameBoxes
  <2>3. Active("sender")' => Active("sender")
    BY <1>0a
  <2>4. QED BY <1>0, <1>0a, <2>1, <2>2, <2>3, ThreadStep
<1>8. QED BY <1>1, <1>2, <1>3, <1>4, <1>5, <1>6, <1>7 DEF SenderStep

LEMMA ServerPlays ==
  PlayerInv /\ ServerStep => PlayerStep
<1> SUFFICES ASSUME PlayerInv, ServerStep PROVE PlayerStep
  OBVIOUS
<1>1. Running /\ ~ServerGone
      /\ UNCHANGED <<pc, posting, has_sync, to_release, massage, gp_recived_massge_hade, accepted,
                     to_server, gp_massage_to_send_hade, g_main_socket>>
  BY DEF ServerStep, ServerSays, ServerEnds, main, sync, lists
<1>2. PICK c \in Seq(Heard) : c = to_client
  BY DEF PlayerInv, ClientInv, TypeOK, MessagesOK
<1>3. said_to_client = c
  BY <1>1, <1>2 DEF said_to_client
<1>4. PICK o \in Seq(Heard) : o = One(accepted) /\ o = One(accepted')
  BY <1>1, ComingIsHeard DEF One, PlayerInv
<1>5. ASSUME at = "in", at' = "in" PROVE PlayerStep
  <2>1. CASE ~Active("receiver")
    <3>1. ~Active("receiver")'
      BY <1>1, <2>1 DEF Active
    <3>2. QED BY <1>1, <1>5, <3>1, LosesComing
  <2>2. CASE Active("receiver") /\ ServerSays
    <3>1. PICK m \in Message : to_client' = Append(c, m)
      BY <1>2, <2>2 DEF ServerSays
    <3>2. m \in Heard
      BY <3>1, MessageIsHeard
    <3>3. PICK d \in Seq(Heard) : d = Append(c, m) /\ d # <<>> /\ d[Len(d)] = m
      BY <3>2, LastOfAppend
    <3>4. said_to_client' = Append(c, m)
      BY <3>1, <3>3 DEF said_to_client, ServerGone
    <3>5. coming = o \o c /\ coming' = o \o Append(c, m)
      BY <1>1, <1>3, <1>4, <2>2, <3>4 DEF coming, Active
    <3>6. PICK h \in Seq(Heard) : h = One(massage) \o gp_recived_massge_hade
      BY ComingIsHeard DEF PlayerInv
    <3>7. inbox = h \o (o \o c) /\ inbox' = h \o (o \o Append(c, m)) /\ UNCHANGED outbox
      BY <1>1, <1>5, <3>5, <3>6 DEF inbox, outbox, One
    <3>8. o \o c \in Seq(Heard) /\ o \o Append(c, m) = Append(o \o c, m)
      BY <3>2, AppendOfSecond, ConcatProperties
    <3>9. inbox' = Append(inbox, m)
      BY <3>2, <3>7, <3>8, AppendOfSecond
    <3>10. QED BY <1>5, <3>1, <3>7, <3>9 DEF PlayerStep, ThePlayer!Next, ThePlayer!Hear
  <2>3. CASE Active("receiver") /\ ServerEnds
    <3>1. CASE to_client' = Append(to_client, "FIN")
      <4>1. PICK d \in Seq(Heard) : d = Append(c, "FIN") /\ d # <<>> /\ Len(d) = Len(c) + 1 /\ d[Len(d)] = "FIN"
        <5>1. "FIN" \in Heard
          BY DEF Heard
        <5>2. QED BY <5>1, LastOfAppend
      <4>2. "FIN" \notin Message /\ <<"FIN">> \in Seq(Heard) /\ d = c \o <<"FIN">>
        BY <4>1 DEF Message, Question, Heard
      <4>3. said_to_client' = SubSeq(d, 1, Len(d) - 1)
        BY <1>2, <3>1, <4>1, <4>2 DEF said_to_client, ServerGone
      <4>4. Len(d) - 1 = Len(c)
        BY <4>1
      <4>5. said_to_client' = c
        BY <4>2, <4>3, <4>4, StartOf
      <4>6. UNCHANGED coming
        BY <1>1, <1>3, <1>4, <4>5 DEF coming, Active
      <4>7. QED BY <1>1, <1>5, <4>6, SameBoxes
    <3>2. CASE to_client' = <<"RST">>
      <4>1. said_to_client' = SubSeq(<<"RST">>, 1, 1 - 1)
        BY <3>2 DEF said_to_client, ServerGone, Message, Question
      <4>2. said_to_client' = <<>>
        BY <4>1, SubSeqEmpty
      <4>3. coming = o \o c /\ coming' = o \o <<>>
        BY <1>1, <1>3, <1>4, <2>3, <4>2 DEF coming, Active
      <4>4. coming' = o
        BY <4>3
      <4>5. Len(o) \in 0 .. Len(coming) /\ coming' = SubSeq(coming, 1, Len(o))
        BY <4>3, <4>4, StartOf
      <4>6. QED BY <1>1, <1>5, <4>5, MissesComing DEF PlayerInv
    <3>3. QED BY <2>3, <3>1, <3>2 DEF ServerEnds
  <2>4. QED BY <2>1, <2>2, <2>3 DEF ServerStep
<1>6. Active("sender")' => Active("sender")
  BY <1>1 DEF Active
<1>7. QED BY <1>1, <1>5, <1>6, ThreadStep

(* Whatever its threads do, when calls fail or the server breaks off, the  *)
(* client behaves as the server's model expects of a player.               *)
THEOREM PlayerImplemented == Spec => IsAPlayer
<1>1. Init => ThePlayer!Init
  BY DEF Init, ThePlayer!Init, at, inbox, outbox, Unasked
<1>2. PlayerInv /\ [Next]_vars => [ThePlayer!Next]_(ThePlayer!vars)
  <2> SUFFICES ASSUME PlayerInv, [Next]_vars PROVE [ThePlayer!Next]_(ThePlayer!vars)
    OBVIOUS
  <2>1. CASE Next
    BY <2>1, MainPlays, ReceiverPlays, SenderPlays, ServerPlays DEF Next, PlayerStep,
       ThePlayer!vars
  <2>2. CASE UNCHANGED vars
    BY <2>2 DEF vars, threads, link, lists, permits, sync, flags, main, ThePlayer!vars, at,
       inbox, outbox,
                Unasked, Gone, Running, Active, One, coming, said_to_client, ServerGone
  <2>3. QED BY <2>1, <2>2
<1>3. QED BY <1>1, <1>2, PlayerInvariant, PTL DEF Spec, IsAPlayer, ThePlayer!Spec
=============================================================================
