------------------------------ MODULE GameServer ------------------------------
(***************************************************************************)
(* The dialogue of Ex4: the threads of the server that receive from and    *)
(* send to each client, the game they share, and the clients.  A thread    *)
(* that receives also answers, and no lock covers the versus flags or the  *)
(* game.  Posting one message (send_message_to_client) is one step here:   *)
(* SendQueue has its lock, semaphore and list.  Each slot serves one       *)
(* client; client 2 comes when both players' slots are taken.              *)
(***************************************************************************)
EXTENDS SevenBoom, Sequences

CONSTANTS
  MaxVersus,    \* bound: requests for a game by one client
  Visits        \* bound: who comes, what they may type, and who may quit
                \* from the menu or break off at any time

ASSUME GameServerAssumption ==
  /\ MaxVersus \in Nat
  /\ Visits \subseteq
       [comers : SUBSET (0 .. 2), moves : SUBSET Int, leavers : SUBSET (0 .. 2)]

MAX_NUM_CLIENTS == 3
MAX_NUM_PLAYERS == 2
Clients == 0 .. MAX_NUM_CLIENTS - 1
Players == 0 .. MAX_NUM_PLAYERS - 1
other_player_ind(c) == IF c > 0 THEN c - 1 ELSE c + 1

VARIABLES
  visit,                     \* which of the visits this is
  g_is_thread_active,        \* the slot is in use
  g_player_vs_req,           \* the player has asked for a game
  g_game_turn_num,
  g_game_state,
  g_player_num_arr,          \* the last answer of each player
  gp_massage_to_send_hade,   \* messages posted and not yet sent, per client
  g_wait_for_client_event,   \* auto-reset: something arrived from the player
  recv_pc,                   \* where recive_from_client_thread is
  todo,                      \* messages it has still to post, with their clients
  num,                       \* its registers in seven_boom: argument and turn
  send_pc,                   \* where send_to_client_thread is
  to_server, to_client,      \* the connection
  client,                    \* what the client has been told
  requests                   \* games it has asked for

game == <<g_game_turn_num, g_game_state, g_player_num_arr>>
server == <<g_is_thread_active, g_player_vs_req, game, recv_pc, todo, num>>
users == <<visit, to_client, client, requests>>
vars == <<server, gp_massage_to_send_hade, g_wait_for_client_event, send_pc, to_server, users>>

Init ==
  /\ visit \in Visits
  /\ g_is_thread_active = [c \in Clients |-> FALSE]
  /\ g_player_vs_req = [p \in Players |-> FALSE]
  /\ g_game_turn_num = 0
  /\ g_game_state = "NO_REQUEST_STATE"
  /\ g_player_num_arr = [p \in Players |-> 0]
  /\ gp_massage_to_send_hade = [c \in Clients |-> <<>>]
  /\ g_wait_for_client_event = [p \in Players |-> FALSE]
  /\ recv_pc = [c \in Clients |-> "off"]
  /\ todo = [c \in Clients |-> <<>>]
  /\ num = [c \in Clients |-> <<0, 0>>]
  /\ send_pc = [c \in Clients |-> "off"]
  /\ to_server = [c \in Clients |-> <<>>]
  /\ to_client = [c \in Clients |-> <<>>]
  /\ client = [c \in Clients |-> "out"]
  /\ requests = [c \in Clients |-> 0]
-----------------------------------------------------------------------------
(* A connection: the first slot that is free; both threads of the slot     *)
(* start, and the client's first message is its name.                      *)
Accept(c) ==
  /\ c \in visit.comers /\ recv_pc[c] = "off"
  /\ \A d \in Clients : d < c => g_is_thread_active[d]
  /\ g_is_thread_active' = [g_is_thread_active EXCEPT ![c] = TRUE]
  /\ recv_pc' = [recv_pc EXCEPT ![c] = "recv"]
  /\ send_pc' = [send_pc EXCEPT ![c] = "ready"]
  /\ client' = [client EXCEPT ![c] = "asking"]
  /\ to_server' = [to_server EXCEPT ![c] = << <<"CLIENT_REQUEST">> >>]
  /\ UNCHANGED <<g_player_vs_req, game, todo, num, gp_massage_to_send_hade,
                 g_wait_for_client_event, visit, to_client, requests>>

-----------------------------------------------------------------------------
(* recive_from_client_thread and what it calls                             *)

To(c, types) == [i \in DOMAIN types |-> <<c, types[i]>>]
Both(c, type) == <<<<c, type>>, <<other_player_ind(c), type>>>>

(* ReceiveBuffer sets the event of a player whatever arrives, a closed     *)
(* connection too; the third slot has no event.                            *)
event_set(c) ==
  [p \in Players |-> g_wait_for_client_event[p] \/ p = c]

(* Variant: the third client is taken for a player.                        *)
denied_Never(c) == FALSE
denied(c) == c = MAX_NUM_PLAYERS

ReceiveRequest(c) ==
  /\ Head(to_server[c])[1] = "CLIENT_REQUEST"
  /\ todo' = [todo EXCEPT ![c] =
       To(c, IF denied(c) THEN <<"SERVER_DENIED">>
                          ELSE <<"SERVER_APPROVED", "SERVER_MAIN_MENU">>)]
  /\ UNCHANGED <<g_is_thread_active, g_player_vs_req, game, recv_pc, num>>

ReceiveVersus(c) ==
  /\ Head(to_server[c])[1] = "CLIENT_VERSUS"
  /\ g_player_vs_req' = [g_player_vs_req EXCEPT ![c] = TRUE]
  /\ recv_pc' = [recv_pc EXCEPT ![c] = "check"]
  /\ UNCHANGED <<g_is_thread_active, game, todo, num>>

ReceiveMove(c) ==
  /\ Head(to_server[c])[1] = "CLIENT_PLAYER_MOVE"
  /\ g_player_num_arr' = [g_player_num_arr EXCEPT ![c] = Head(to_server[c])[2]]
  /\ recv_pc' = [recv_pc EXCEPT ![c] = "load"]
  /\ UNCHANGED <<g_is_thread_active, g_player_vs_req, g_game_turn_num, g_game_state, todo, num>>

(* CLIENT_DISCONNECT is read and nothing is done about it.                 *)
ReceiveDisconnect(c) ==
  /\ Head(to_server[c])[1] = "CLIENT_DISCONNECT"
  /\ UNCHANGED server

(* An orderly close frees the slot, a broken connection does not.          *)
ReceiveEnd(c) ==
  /\ Head(to_server[c])[1] \in {"FIN", "RST"}
  /\ g_is_thread_active' =
       [g_is_thread_active EXCEPT ![c] = Head(to_server[c])[1] = "RST"]
  /\ recv_pc' = [recv_pc EXCEPT ![c] = "ended"]
  /\ UNCHANGED <<g_player_vs_req, game, todo, num>>

Receive(c) ==
  /\ recv_pc[c] = "recv" /\ todo[c] = <<>> /\ to_server[c] # <<>>
  /\ g_wait_for_client_event' = event_set(c)
  /\ to_server' = [to_server EXCEPT ![c] = Tail(@)]
  /\ \/ ReceiveRequest(c)
     \/ ReceiveVersus(c)
     \/ ReceiveMove(c)
     \/ ReceiveDisconnect(c)
     \/ ReceiveEnd(c)
  /\ UNCHANGED <<gp_massage_to_send_hade, send_pc, users>>

(* The event is reset before the wait for the other player.                *)
(* Variant: it is not, and what just arrived ends the wait.                *)
event_before_wait_Kept(c) == g_wait_for_client_event
event_before_wait(c) == [g_wait_for_client_event EXCEPT ![c] = FALSE]

(* Variant: nobody is asked to begin.                                      *)
game_start_NoMove(c) == Both(c, "GAME_STARTED") \o Both(c, "TURN_SWITCH")
game_start(c) ==
  Both(c, "GAME_STARTED") \o Both(c, "TURN_SWITCH") \o To(0, <<"SERVER_MOVE_REQUEST">>)

(* Variant: any player who is connected will do.                           *)
opponent_asked_Connected(c) == g_is_thread_active[other_player_ind(c)]
opponent_asked(c) == g_player_vs_req[other_player_ind(c)]

(* The other player's flag is read after this player's was set.            *)
CheckOpponent(c) ==
  /\ recv_pc[c] = "check"
  /\ \/ /\ ~opponent_asked(c)
        /\ g_wait_for_client_event' = event_before_wait(c)
        /\ recv_pc' = [recv_pc EXCEPT ![c] = "wait"]
        /\ UNCHANGED todo
     \/ /\ opponent_asked(c)
        /\ todo' = [todo EXCEPT ![c] = game_start(c)]
        /\ recv_pc' = [recv_pc EXCEPT ![c] = "recv"]
        /\ UNCHANGED g_wait_for_client_event
  /\ UNCHANGED <<g_is_thread_active, g_player_vs_req, game, num,
                 gp_massage_to_send_hade, send_pc, to_server, users>>

(* Variant: the client is not told.                                        *)
no_opponents_Silent == <<"SERVER_MAIN_MENU">>
no_opponents == <<"SERVER_NO_OPPONENTS", "SERVER_MAIN_MENU">>

(* The wait for the other player runs into its time-out.  It cannot end    *)
(* otherwise: see VersusIsPending.                                         *)
WaitTimesOut(c) ==
  /\ recv_pc[c] = "wait"
  /\ g_player_vs_req' = [g_player_vs_req EXCEPT ![c] = FALSE]
  /\ todo' = [todo EXCEPT ![c] = To(c, no_opponents)]
  /\ recv_pc' = [recv_pc EXCEPT ![c] = "recv"]
  /\ UNCHANGED <<g_is_thread_active, game, num, gp_massage_to_send_hade,
                 g_wait_for_client_event, send_pc, to_server, users>>

(* seven_boom counts the turn without a lock: load, store, and a           *)
(* comparison with the register or with what is stored by then.            *)
LoadTurn(c) ==
  /\ recv_pc[c] = "load"
  /\ num' = [num EXCEPT ![c] = <<g_player_num_arr[c], g_game_turn_num>>]
  /\ recv_pc' = [recv_pc EXCEPT ![c] = "store"]
  /\ UNCHANGED <<g_is_thread_active, g_player_vs_req, game, todo, gp_massage_to_send_hade,
                 g_wait_for_client_event, send_pc, to_server, users>>

StoreTurn(c) ==
  /\ recv_pc[c] = "store"
  /\ g_game_turn_num' = num[c][2] + 1
  /\ recv_pc' = [recv_pc EXCEPT ![c] = "judge"]
  /\ UNCHANGED <<g_is_thread_active, g_player_vs_req, g_game_state, g_player_num_arr, todo, num,
                 gp_massage_to_send_hade, g_wait_for_client_event, send_pc, to_server, users>>

Judge(c) ==
  /\ recv_pc[c] = "judge"
  /\ \E turn_num \in {num[c][2] + 1, g_game_turn_num} :
       g_game_state' = IF right_answer(turn_num, num[c][1])
                       THEN g_game_state ELSE "GAME_END_STATE"
  /\ todo' = [todo EXCEPT ![c] = To(other_player_ind(c), <<"GAME_VIEW">>)]
  /\ recv_pc' = [recv_pc EXCEPT ![c] = "view"]
  /\ num' = [num EXCEPT ![c] = <<0, 0>>]
  /\ UNCHANGED <<g_is_thread_active, g_player_vs_req, g_game_turn_num, g_player_num_arr,
                 gp_massage_to_send_hade, g_wait_for_client_event, send_pc, to_server, users>>

(* After GAME_VIEW: the game has ended, or the turn passes.                *)
NextTurnOrEnd(c) ==
  /\ recv_pc[c] = "view" /\ todo[c] = <<>>
  /\ \/ /\ g_game_state = "GAME_END_STATE"
        /\ todo' = [todo EXCEPT ![c] = Both(c, "GAME_ENDED")]
        /\ recv_pc' = [recv_pc EXCEPT ![c] = "reset"]
     \/ /\ g_game_state # "GAME_END_STATE"
        /\ todo' = [todo EXCEPT ![c] =
             Both(c, "TURN_SWITCH") \o To(other_player_ind(c), <<"SERVER_MOVE_REQUEST">>)]
        /\ recv_pc' = [recv_pc EXCEPT ![c] = "recv"]
  /\ UNCHANGED <<g_is_thread_active, g_player_vs_req, game, num, gp_massage_to_send_hade,
                 g_wait_for_client_event, send_pc, to_server, users>>

(* reset_game, between the messages of the end and those of the menu.      *)
reset_game ==
  /\ g_game_turn_num' = 0
  /\ g_game_state' = "NO_REQUEST_STATE"
  /\ g_player_num_arr' = [p \in Players |-> 0]
  /\ g_player_vs_req' = [p \in Players |-> FALSE]

ResetGame(c) ==
  /\ recv_pc[c] = "reset" /\ todo[c] = <<>>
  /\ reset_game
  /\ todo' = [todo EXCEPT ![c] = Both(c, "SERVER_MAIN_MENU")]
  /\ recv_pc' = [recv_pc EXCEPT ![c] = "recv"]
  /\ UNCHANGED <<g_is_thread_active, num, gp_massage_to_send_hade,
                 g_wait_for_client_event, send_pc, to_server, users>>

(* send_message_to_client.  The message goes to the end of the client's    *)
(* list; when the client's sender has died in the middle of a message its  *)
(* mutex is abandoned, and the message is thrown away.                     *)
Post(c) ==
  /\ todo[c] # <<>>
  /\ LET to == Head(todo[c])[1]
         message == Head(todo[c])[2]
     IN \/ gp_massage_to_send_hade' = [gp_massage_to_send_hade EXCEPT ![to] = Append(@, message)]
        \/ send_pc[to] = "gone" /\ UNCHANGED gp_massage_to_send_hade
  /\ todo' = [todo EXCEPT ![c] = Tail(@)]
  /\ UNCHANGED <<g_is_thread_active, g_player_vs_req, game, recv_pc, num,
                 g_wait_for_client_event, send_pc, to_server, users>>
-----------------------------------------------------------------------------
(* send_to_client_thread                                                   *)

wait_for_response(message) == message = "SERVER_MOVE_REQUEST"

(* The first message of the list is sent; one that wants a response resets *)
(* the event first.                                                        *)
SendMessage(c) ==
  /\ send_pc[c] = "ready" /\ gp_massage_to_send_hade[c] # <<>>
  /\ client[c] # "left" \/ recv_pc[c] # "ended"
  /\ LET message == Head(gp_massage_to_send_hade[c]) IN
     /\ gp_massage_to_send_hade' = [gp_massage_to_send_hade EXCEPT ![c] = Tail(@)]
     /\ to_client' = IF client[c] = "left" THEN to_client
                     ELSE [to_client EXCEPT ![c] = Append(@, message)]
     /\ g_wait_for_client_event' =
          [p \in Players |-> g_wait_for_client_event[p] /\ ~(p = c /\ wait_for_response(message))]
     /\ send_pc' = [send_pc EXCEPT ![c] = IF wait_for_response(message) THEN "respond" ELSE "ready"]
  /\ UNCHANGED <<server, to_server, visit, client, requests>>

(* The client answered, or 15 seconds passed: the sender goes on.          *)
StopWaiting(c) ==
  /\ send_pc[c] = "respond"
  /\ g_wait_for_client_event' = [g_wait_for_client_event EXCEPT ![c] = FALSE]
  /\ send_pc' = [send_pc EXCEPT ![c] = "ready"]
  /\ UNCHANGED <<server, gp_massage_to_send_hade, to_server, users>>

(* On a closed or broken connection the send fails and the thread returns  *)
(* with the mutex of the list.                                             *)
SendFails(c) ==
  /\ send_pc[c] = "ready" /\ gp_massage_to_send_hade[c] # <<>>
  /\ client[c] = "left"
  /\ send_pc' = [send_pc EXCEPT ![c] = "gone"]
  /\ UNCHANGED <<server, gp_massage_to_send_hade, g_wait_for_client_event, to_server, users>>
-----------------------------------------------------------------------------
(* client_response: what the client does with the next message             *)

Answer(c, messages) == to_server' = [to_server EXCEPT ![c] = @ \o messages]

(* Messages that are only shown, and what they tell.                       *)
told(c, message) ==
  CASE message = "GAME_STARTED" -> "game"
    [] message \in {"GAME_ENDED", "SERVER_NO_OPPONENTS", "SERVER_OPPONENT_OUT"} -> "idle"
    [] message = "SERVER_APPROVED" -> "idle"
    [] OTHER -> client[c]

ReadMessage(c) ==
  /\ to_client[c] # <<>>
  /\ Head(to_client[c]) \notin {"SERVER_MAIN_MENU", "SERVER_MOVE_REQUEST", "SERVER_DENIED"}
  /\ client' = [client EXCEPT ![c] = told(c, Head(to_client[c]))]
  /\ to_client' = [to_client EXCEPT ![c] = Tail(@)]
  /\ UNCHANGED <<requests, to_server>>

ChooseVersus(c) ==
  /\ to_client[c] # <<>> /\ Head(to_client[c]) = "SERVER_MAIN_MENU"
  /\ requests[c] < MaxVersus
  /\ requests' = [requests EXCEPT ![c] = @ + 1]
  /\ Answer(c, << <<"CLIENT_VERSUS">> >>)
  /\ client' = [client EXCEPT ![c] = "versus"]
  /\ to_client' = [to_client EXCEPT ![c] = Tail(@)]

MakeMove(c) ==
  /\ to_client[c] # <<>> /\ Head(to_client[c]) = "SERVER_MOVE_REQUEST"
  /\ \E move \in visit.moves : Answer(c, << <<"CLIENT_PLAYER_MOVE", move>> >>)
  /\ to_client' = [to_client EXCEPT ![c] = Tail(@)]
  /\ UNCHANGED <<client, requests>>

Leave(c, messages) ==
  /\ Answer(c, messages)
  /\ client' = [client EXCEPT ![c] = "left"]
  /\ to_client' = [to_client EXCEPT ![c] = <<>>]
  /\ UNCHANGED requests

Quit(c) ==
  /\ c \in visit.leavers
  /\ to_client[c] # <<>> /\ Head(to_client[c]) = "SERVER_MAIN_MENU"
  /\ Leave(c, << <<"CLIENT_DISCONNECT">>, <<"FIN">> >>)

(* Whatever a user who is denied chooses, the connection is given up.      *)
TakeDenial(c) ==
  /\ to_client[c] # <<>> /\ Head(to_client[c]) = "SERVER_DENIED"
  /\ Leave(c, << <<"FIN">> >>)

BreakOff(c) ==
  /\ c \in visit.leavers
  /\ client[c] \notin {"out", "left"}
  /\ Leave(c, << <<"RST">> >>)

ClientStep(c) ==
  /\ ReadMessage(c) \/ ChooseVersus(c) \/ MakeMove(c) \/ Quit(c) \/ TakeDenial(c)
  /\ UNCHANGED <<visit, server, gp_massage_to_send_hade, g_wait_for_client_event, send_pc>>

ClientBreaks(c) ==
  /\ BreakOff(c)
  /\ UNCHANGED <<visit, server, gp_massage_to_send_hade, g_wait_for_client_event, send_pc>>
-----------------------------------------------------------------------------
HandleVersus(c) == c \in Players /\ (CheckOpponent(c) \/ WaitTimesOut(c))
HandleMove(c) ==
  c \in Players /\ (LoadTurn(c) \/ StoreTurn(c) \/ Judge(c) \/ NextTurnOrEnd(c) \/ ResetGame(c))
RecvStep(c) == Receive(c) \/ HandleVersus(c) \/ HandleMove(c) \/ Post(c)
SendStep(c) == SendMessage(c) \/ SendFails(c) \/ (c \in Players /\ StopWaiting(c))

Next == \E c \in Clients :
  Accept(c) \/ RecvStep(c) \/ SendStep(c) \/ ClientStep(c) \/ ClientBreaks(c)

Spec == Init /\ [][Next]_vars
=============================================================================
