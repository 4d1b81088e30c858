-------------------------- MODULE GameServer_proof --------------------------
(***************************************************************************)
(* Proofs about the dialogue of the server of Ex4 with its clients, for    *)
(* whoever comes, whatever is typed and whenever somebody leaves.  The     *)
(* messages on their way to a client are looked at as one sequence, Path:  *)
(* what it has not read yet and what the server has still in its list.     *)
(***************************************************************************)
EXTENDS GameServerProps, SequenceTheorems, WellFoundedInduction, TLAPS

Path(c) == to_client[c] \o gp_massage_to_send_hade[c]

Third == MAX_NUM_PLAYERS

Answers == {"SERVER_APPROVED", "SERVER_DENIED"}
MenuMessages == Answers \cup {"SERVER_MAIN_MENU", "SERVER_NO_OPPONENTS"}
GameMessages ==
  {"GAME_STARTED", "TURN_SWITCH", "SERVER_MOVE_REQUEST", "GAME_VIEW", "GAME_ENDED"}
ServerMessages == MenuMessages \cup GameMessages
ClientMessages ==
  {<<type>> : type \in {"CLIENT_REQUEST", "CLIENT_VERSUS", "CLIENT_DISCONNECT", "FIN", "RST"}}
  \cup ({"CLIENT_PLAYER_MOVE"} \X Int)

Registers == Int \X Nat
Playing == {"load", "store", "judge", "view", "reset"}

TypeOK ==
  /\ visit \in Visits
  /\ g_is_thread_active \in [Clients -> BOOLEAN]
  /\ g_player_vs_req \in [Players -> BOOLEAN]
  /\ g_game_turn_num \in Nat
  /\ g_game_state \in {"NO_REQUEST_STATE", "GAME_END_STATE"}
  /\ g_player_num_arr \in [Players -> Int]
  /\ num \in [Clients -> Registers]
  /\ gp_massage_to_send_hade \in [Clients -> Seq(ServerMessages)]
  /\ g_wait_for_client_event \in [Players -> BOOLEAN]
  /\ recv_pc \in [Clients -> {"off", "recv", "check", "wait", "ended"} \cup Playing]
  /\ todo \in [Clients -> Seq(Clients \X ServerMessages)]
  /\ send_pc \in [Clients -> {"off", "ready", "respond", "gone"}]
  /\ to_server \in [Clients -> Seq(ClientMessages)]
  /\ to_client \in [Clients -> Seq(ServerMessages)]
  /\ client \in [Clients -> {"out", "asking", "idle", "versus", "game", "left"}]
  /\ requests \in [Clients -> Nat]

(* Where a thread is goes with what its client has done so far.            *)
Stages ==
  \A c \in Clients :
    /\ recv_pc[c] = "off" <=> client[c] = "out"
    /\ recv_pc[c] \notin {"off", "recv", "ended"} => c \in Players
    /\ recv_pc[c] \in {"check", "wait", "load", "store", "judge"} => todo[c] = <<>>
    /\ send_pc[c] = "gone" => client[c] = "left"
    /\ client[c] = "left" => to_client[c] = <<>>
    /\ client[c] = "out" => to_server[c] = <<>> /\ todo[c] = <<>> /\ Path(c) = <<>>

(* Message m comes after the first i messages of s.                        *)
Follows(s, i, m) == \E j \in i + 1 .. Len(s) : s[j] = m

(* What the receiving thread of client c may have to post, and whether the *)
(* game is over then: an answer brings the menu, a start a first move.     *)
Reach(c) == IF c \in Players THEN Players ELSE {c}
Complete(c, s, over) ==
  \A k \in 1 .. Len(s) :
    /\ s[k][1] \in Reach(c)
    /\ s[k][2] \in {"SERVER_APPROVED", "SERVER_NO_OPPONENTS"} =>
         Follows(s, k, <<s[k][1], "SERVER_MAIN_MENU">>)
    /\ s[k][2] = "GAME_STARTED" => \E p \in Players : Follows(s, k, <<p, "SERVER_MOVE_REQUEST">>)
    /\ s[k][2] = "GAME_ENDED" => over
    /\ c = Third => s[k][2] = "SERVER_DENIED"
Complete_todo == \A c \in Clients : Complete(c, todo[c], recv_pc[c] = "reset")

(* Until both players are let in there is no game, and no player's thread  *)
(* posts anything to the other.                                            *)
Answered(p) == client[p] \notin {"out", "asking"}
BothAnswered == \A p \in Players : Answered(p)
NoGameYet ==
  /\ \A p \in Players :
       \/ g_player_vs_req[p]
       \/ recv_pc[p] \in {"check", "wait"}
       \/ \E i \in 1 .. Len(to_server[p]) : to_server[p][i] = <<"CLIENT_VERSUS">>
       => Answered(p)
  /\ ~BothAnswered =>
       \A c \in Clients :
         /\ recv_pc[c] \notin Playing
         /\ \A k \in 1 .. Len(todo[c]) : todo[c][k][1] = c /\ todo[c][k][2] \in MenuMessages
         /\ \A i \in 1 .. Len(Path(c)) : Path(c)[i] \in MenuMessages
         /\ \A i \in 1 .. Len(to_server[c]) : to_server[c][i][1] # "CLIENT_PLAYER_MOVE"

(* A client who asks has its request, or the answer to it, under way.      *)
Asking ==
  \A c \in Clients : client[c] = "asking" =>
    /\ recv_pc[c] = "recv"
    /\ \/ to_server[c] = << <<"CLIENT_REQUEST">> >> /\ todo[c] = <<>> /\ Path(c) = <<>>
       \/ to_server[c] = <<>> /\ Path(c) = <<>> /\ todo[c] # <<>>
          /\ Head(todo[c])[1] = c /\ Head(todo[c])[2] \in Answers
       \/ to_server[c] = <<>> /\ Path(c) # <<>> /\ Head(Path(c)) \in Answers

(* The third client's request or its denial.                               *)
Asks(s) == IF s # <<>> /\ Head(s) = <<"CLIENT_REQUEST">> THEN 1 ELSE 0
OneDenial ==
  /\ client[Third] \in {"out", "asking", "left"}
  /\ \A i \in 1 .. Len(Path(Third)) : Path(Third)[i] = "SERVER_DENIED"
  /\ \A i \in 1 .. Len(to_server[Third]) :
       /\ to_server[Third][i][1] \in {"CLIENT_REQUEST", "CLIENT_DISCONNECT", "FIN", "RST"}
       /\ i > 1 => to_server[Third][i] # <<"CLIENT_REQUEST">>
  /\ Len(Path(Third)) + Len(todo[Third]) + Asks(to_server[Third]) <= 1

(* Message m is on its way to player p, after the first i of its path.     *)
InTodo(p, m) == \E c \in Clients : \E k \in 1 .. Len(todo[c]) : todo[c][k] = <<p, m>>
Comes(p, i, m) == Follows(Path(p), i, m) \/ InTodo(p, m)

(* VersusIsPending, said with the path.                                    *)
Settles == {"GAME_STARTED", "SERVER_NO_OPPONENTS"}
Pending(p) ==
  \/ recv_pc[p] \in {"check", "wait"}
  \/ \E i \in 1 .. Len(to_server[p]) : to_server[p][i] = <<"CLIENT_VERSUS">>
  \/ \E m \in Settles : Comes(p, 0, m)
VersusPends ==
  \A p \in Players :
    /\ recv_pc[p] = "wait" => ~g_wait_for_client_event[p]
    /\ client[p] = "versus" => Pending(p)

(* Who is told that there is no game, or none any more, gets the menu.     *)
MenuComes(p, i) ==
  Comes(p, i, "SERVER_MAIN_MENU") \/ \E c \in Players : recv_pc[c] = "reset"
MenuFollows ==
  \A p \in Players : client[p] # "left" =>
    /\ client[p] = "idle" => MenuComes(p, 0)
    /\ \A i \in 1 .. Len(Path(p)) :
         Path(p)[i] \in {"SERVER_APPROVED", "SERVER_NO_OPPONENTS", "GAME_ENDED"} => MenuComes(p, i)

(* Somebody is to move, or a move is being judged.                         *)
MoveAt(c) ==
  \/ recv_pc[c] \in Playing \ {"reset"}
  \/ \E i \in 1 .. Len(to_server[c]) : to_server[c][i][1] = "CLIENT_PLAYER_MOVE"
  \/ Comes(c, 0, "SERVER_MOVE_REQUEST")
MoveIsDue == \E c \in Players : MoveAt(c)

(* A player who is in a game, or hears of one, hears of its end unless     *)
(* there is a move to come.                                                *)
NobodyLeft == \A c \in Clients : client[c] # "left"
EndFollows ==
  NobodyLeft /\ ~MoveIsDue =>
    \A p \in Players :
      /\ client[p] = "game" => Comes(p, 0, "GAME_ENDED")
      /\ \A i \in 1 .. Len(Path(p)) : Path(p)[i] = "GAME_STARTED" => Comes(p, i, "GAME_ENDED")

DialogueInv == /\ TypeOK /\ Stages /\ Complete_todo /\ NoGameYet /\ Asking /\ OneDenial
               /\ VersusPends /\ MenuFollows /\ EndFollows
-----------------------------------------------------------------------------
(* Sequences. *)

LEMMA AppendFacts ==
  ASSUME NEW S, NEW s \in Seq(S), NEW x \in S
  PROVE  /\ Append(s, x) \in Seq(S) /\ Len(Append(s, x)) = Len(s) + 1
         /\ Append(s, x) # <<>>
         /\ \A i \in 1 .. Len(s) : Append(s, x)[i] = s[i]
         /\ Append(s, x)[Len(s) + 1] = x
<1>1. Append(s, x) \in Seq(S) /\ Len(Append(s, x)) = Len(s) + 1 /\ Append(s, x) # <<>>
      /\ \A i \in 1 .. Len(s) : Append(s, x)[i] = s[i]
      /\ Append(s, x)[Len(s) + 1] = x
  BY ONLY s \in Seq(S), x \in S, AppendProperties
<1>2. QED BY <1>1

LEMMA TailFacts ==
  ASSUME NEW S, NEW s \in Seq(S), s # <<>>
  PROVE  /\ Tail(s) \in Seq(S) /\ Len(Tail(s)) = Len(s) - 1 /\ Len(s) \in Nat /\ Len(s) > 0
         /\ Head(s) = s[1] /\ Head(s) \in S
         /\ \A i \in 1 .. Len(s) - 1 : Tail(s)[i] = s[i + 1]
<1>1. Tail(s) \in Seq(S) /\ Len(Tail(s)) = Len(s) - 1 /\ Head(s) \in S /\ Head(s) = s[1]
      /\ \A i \in 1 .. Len(s) - 1 : Tail(s)[i] = s[i + 1]
  BY HeadTailProperties
<1>2. Len(s) \in Nat /\ Len(s) # 0
  BY EmptySeq
<1>3. QED BY <1>1, <1>2

LEMMA ConcatFacts ==
  ASSUME NEW S, NEW s \in Seq(S), NEW t \in Seq(S)
  PROVE  /\ s \o t \in Seq(S) /\ Len(s \o t) = Len(s) + Len(t)
         /\ \A i \in 1 .. Len(s) : (s \o t)[i] = s[i]
         /\ \A i \in 1 .. Len(t) : (s \o t)[Len(s) + i] = t[i]
<1>1. s \o t \in Seq(S) /\ Len(s \o t) = Len(s) + Len(t)
      /\ \A i \in 1 .. Len(s) + Len(t) :
           (s \o t)[i] = IF i <= Len(s) THEN s[i] ELSE t[i - Len(s)]
  BY ConcatProperties
<1>2. Len(s) \in Nat /\ Len(t) \in Nat
  OBVIOUS
<1>3. \A i \in 1 .. Len(s) : (s \o t)[i] = s[i]
  BY <1>1, <1>2
<1>4. ASSUME NEW i \in 1 .. Len(t) PROVE (s \o t)[Len(s) + i] = t[i]
  <2>1. Len(s) + i \in 1 .. Len(s) + Len(t) /\ ~(Len(s) + i <= Len(s))
        /\ Len(s) + i - Len(s) = i
    BY <1>2
  <2>2. QED BY <1>1, <2>1
<1>5. QED BY <1>1, <1>3, <1>4

(* A sequence is its head before its tail.                                 *)
LEMMA OneElement ==
  ASSUME NEW S, NEW x \in S
  PROVE  <<x>> \in Seq(S) /\ Len(<<x>>) = 1 /\ <<x>>[1] = x
  OBVIOUS

LEMMA ConsFacts ==
  ASSUME NEW S, NEW x \in S, NEW u \in Seq(S)
  PROVE  /\ <<x>> \o u \in Seq(S) /\ Len(<<x>> \o u) = 1 + Len(u)
         /\ (<<x>> \o u)[1] = x
         /\ \A i \in 1 .. Len(u) : (<<x>> \o u)[1 + i] = u[i]
<1>1. PICK h : h = <<x>>
  OBVIOUS
<1>2. h \in Seq(S) /\ Len(h) = 1 /\ h[1] = x
  BY <1>1, OneElement
<1>3. 1 \in 1 .. Len(h)
  BY <1>2
<1>4. h \o u \in Seq(S) /\ Len(h \o u) = Len(h) + Len(u)
      /\ (\A i \in 1 .. Len(h) : (h \o u)[i] = h[i])
      /\ \A i \in 1 .. Len(u) : (h \o u)[Len(h) + i] = u[i]
  BY <1>2, ConcatFacts
<1>5. (h \o u)[1] = x /\ Len(h \o u) = 1 + Len(u) /\ \A i \in 1 .. Len(u) : (h \o u)[1 + i] = u[i]
  BY <1>2, <1>3, <1>4
<1>6. QED BY <1>1, <1>4, <1>5

LEMMA HeadBeforeTail ==
  ASSUME NEW S, NEW s \in Seq(S), s # <<>>
  PROVE  s = <<Head(s)>> \o Tail(s)
<1>1. /\ Tail(s) \in Seq(S) /\ Len(Tail(s)) = Len(s) - 1 /\ Len(s) \in Nat /\ Len(s) > 0
      /\ Head(s) = s[1] /\ Head(s) \in S
      /\ \A i \in 1 .. Len(s) - 1 : Tail(s)[i] = s[i + 1]
  BY TailFacts
<1>2. PICK h : h = Head(s)
  OBVIOUS
<1>3. PICK t : t = Tail(s)
  OBVIOUS
<1>4. PICK c : c = <<h>> \o t
  OBVIOUS
<1>5. h \in S /\ h = s[1] /\ t \in Seq(S) /\ Len(t) = Len(s) - 1
      /\ \A i \in 1 .. Len(s) - 1 : t[i] = s[i + 1]
  BY <1>1, <1>2, <1>3
<1>6. c \in Seq(S) /\ Len(c) = 1 + Len(t) /\ c[1] = h /\ \A i \in 1 .. Len(t) : c[1 + i] = t[i]
  BY <1>4, <1>5, ConsFacts
<1>7. ASSUME NEW i \in 1 .. Len(s) PROVE s[i] = c[i]
  <2>1. CASE i = 1
    BY <2>1, <1>5, <1>6
  <2>2. CASE i > 1
    <3>1. i - 1 \in 1 .. Len(t) /\ i - 1 \in 1 .. Len(s) - 1 /\ i - 1 + 1 = i /\ 1 + (i - 1) = i
      BY <2>2, <1>1, <1>5
    <3>2. t[i - 1] = s[i] /\ c[i] = t[i - 1]
      BY <3>1, <1>5, <1>6
    <3>3. QED BY <3>2
  <2>3. QED BY <2>1, <2>2
<1>8. Len(s) = Len(c)
  BY <1>1, <1>5, <1>6
<1>9. s = c
  BY <1>6, <1>7, <1>8, SeqEqual
<1>10. QED BY <1>2, <1>3, <1>4, <1>9

LEMMA TailOfCons ==
  ASSUME NEW S, NEW x \in S, NEW u \in Seq(S)
  PROVE  /\ <<x>> \o u \in Seq(S) /\ <<x>> \o u # <<>>
         /\ Head(<<x>> \o u) = x /\ Tail(<<x>> \o u) = u
<1>1. PICK c : c = <<x>> \o u
  OBVIOUS
<1>2. c \in Seq(S) /\ Len(c) = 1 + Len(u) /\ c[1] = x /\ \A i \in 1 .. Len(u) : c[1 + i] = u[i]
  BY <1>1, ConsFacts
<1>3. c # <<>> /\ Len(u) \in Nat
  BY <1>2
<1>4. PICK t : t = Tail(c)
  OBVIOUS
<1>5. /\ t \in Seq(S) /\ Len(t) = Len(c) - 1 /\ Head(c) = c[1]
      /\ \A i \in 1 .. Len(c) - 1 : t[i] = c[i + 1]
  BY <1>2, <1>3, <1>4, TailFacts
<1>6. ASSUME NEW i \in 1 .. Len(t) PROVE t[i] = u[i]
  <2>1. i \in 1 .. Len(u) /\ i \in 1 .. Len(c) - 1 /\ i + 1 = 1 + i
    BY <1>2, <1>3, <1>5
  <2>2. QED BY <2>1, <1>2, <1>5
<1>7. Len(t) = Len(u)
  BY <1>2, <1>3, <1>5
<1>8. t = u
  BY <1>5, <1>6, <1>7, SeqEqual
<1>9. QED BY <1>1, <1>2, <1>3, <1>4, <1>5, <1>8

(* A message that is posted goes to the end of the path, one that is sent  *)
(* stays on it, one that is read leaves its head.                          *)
LEMMA ConcatAppend ==
  ASSUME NEW S, NEW s \in Seq(S), NEW t \in Seq(S), NEW x \in S
  PROVE  s \o Append(t, x) = Append(s \o t, x)
<1>1. <<x>> \in Seq(S) /\ s \o t \in Seq(S)
  BY ConcatFacts
<1>2. Append(t, x) = t \o <<x>> /\ Append(s \o t, x) = (s \o t) \o <<x>>
  BY <1>1, AppendIsConcat
<1>3. (s \o t) \o <<x>> = s \o (t \o <<x>>)
  BY <1>1, ConcatAssociative
<1>4. QED BY <1>2, <1>3

LEMMA ConcatMoves ==
  ASSUME NEW S, NEW s \in Seq(S), NEW t \in Seq(S), t # <<>>
  PROVE  Append(s, Head(t)) \o Tail(t) = s \o t
<1>1. Head(t) \in S /\ Tail(t) \in Seq(S) /\ <<Head(t)>> \in Seq(S)
  BY TailFacts
<1>2. Append(s, Head(t)) = s \o <<Head(t)>>
  BY <1>1, AppendIsConcat
<1>3. (s \o <<Head(t)>>) \o Tail(t) = s \o (<<Head(t)>> \o Tail(t))
  BY <1>1, ConcatAssociative
<1>4. t = <<Head(t)>> \o Tail(t)
  BY HeadBeforeTail
<1>5. QED BY <1>2, <1>3, <1>4

LEMMA ConcatTail ==
  ASSUME NEW S, NEW s \in Seq(S), NEW t \in Seq(S), s # <<>>
  PROVE  /\ s \o t # <<>> /\ Head(s \o t) = Head(s)
         /\ Tail(s) \o t = Tail(s \o t)
<1>1. Head(s) \in S /\ Tail(s) \in Seq(S) /\ <<Head(s)>> \in Seq(S) /\ Tail(s) \o t \in Seq(S)
  BY TailFacts, ConcatFacts
<1>2. (<<Head(s)>> \o Tail(s)) \o t = <<Head(s)>> \o (Tail(s) \o t)
  BY <1>1, ConcatAssociative
<1>3. s = <<Head(s)>> \o Tail(s)
  BY HeadBeforeTail
<1>4. PICK u : u = Tail(s) \o t
  OBVIOUS
<1>5. PICK h : h = Head(s)
  OBVIOUS
<1>6. PICK c : c = s \o t
  OBVIOUS
<1>7. u \in Seq(S) /\ h \in S /\ c = <<h>> \o u
  BY <1>1, <1>2, <1>3, <1>4, <1>5, <1>6
<1>8. c # <<>> /\ Head(c) = h /\ Tail(c) = u
  BY <1>7, TailOfCons
<1>9. QED BY <1>4, <1>5, <1>6, <1>8

(* Positions move with the sequence.                                       *)
LEMMA FollowsAppend ==
  ASSUME NEW S, NEW s \in Seq(S), NEW x \in S, NEW i \in Nat, NEW m
  PROVE  /\ Follows(s, i, m) => Follows(Append(s, x), i, m)
         /\ x = m /\ i <= Len(s) => Follows(Append(s, x), i, m)
<1> DEFINE a == Append(s, x)
<1>1. Len(a) = Len(s) + 1 /\ Len(s) \in Nat /\ a[Len(s) + 1] = x
      /\ \A k \in 1 .. Len(s) : a[k] = s[k]
  BY AppendFacts
<1> HIDE DEF a
<1>2. Follows(s, i, m) => Follows(a, i, m)
  <2> SUFFICES ASSUME NEW j \in i + 1 .. Len(s), s[j] = m PROVE Follows(a, i, m)
    BY DEF Follows
  <2>1. j \in i + 1 .. Len(a) /\ a[j] = m
    BY <1>1
  <2>2. QED BY <2>1 DEF Follows
<1>3. x = m /\ i <= Len(s) => Follows(a, i, m)
  <2>1. i <= Len(s) => Len(s) + 1 \in i + 1 .. Len(a)
    BY <1>1
  <2>2. QED BY <2>1, <1>1 DEF Follows
<1>4. QED BY <1>2, <1>3 DEF a

LEMMA FollowsTail ==
  ASSUME NEW S, NEW s \in Seq(S), s # <<>>, NEW i \in Nat, NEW m
  PROVE  /\ Follows(s, i + 1, m) => Follows(Tail(s), i, m)
         /\ i > 0 => (Follows(Tail(s), i, m) <=> Follows(s, i + 1, m))
         /\ Follows(s, i, m) /\ (i > 0 \/ Head(s) # m) => Follows(Tail(s), IF i > 0 THEN i - 1 ELSE 0, m)
<1> DEFINE b == Tail(s)
<1>1. Len(b) = Len(s) - 1 /\ Len(s) \in Nat /\ Len(s) > 0 /\ Head(s) = s[1]
      /\ \A k \in 1 .. Len(s) - 1 : b[k] = s[k + 1]
  BY TailFacts
<1> HIDE DEF b
<1>2. Follows(s, i + 1, m) => Follows(b, i, m)
  <2> SUFFICES ASSUME NEW j \in i + 1 + 1 .. Len(s), s[j] = m PROVE Follows(b, i, m)
    BY DEF Follows
  <2>1. j - 1 \in i + 1 .. Len(b) /\ b[j - 1] = m
    BY <1>1
  <2>2. QED BY <2>1 DEF Follows
<1>3. Follows(b, i, m) => Follows(s, i + 1, m)
  <2> SUFFICES ASSUME NEW j \in i + 1 .. Len(b), b[j] = m PROVE Follows(s, i + 1, m)
    BY DEF Follows
  <2>1. j + 1 \in i + 1 + 1 .. Len(s) /\ s[j + 1] = m
    BY <1>1
  <2>2. QED BY <2>1 DEF Follows
<1>4. ASSUME Follows(s, i, m), i > 0 \/ Head(s) # m
      PROVE  Follows(b, IF i > 0 THEN i - 1 ELSE 0, m)
  <2>1. PICK j \in i + 1 .. Len(s) : s[j] = m
    BY <1>4 DEF Follows
  <2>2. j > 1 /\ j - 1 \in (IF i > 0 THEN i - 1 ELSE 0) + 1 .. Len(b)
    BY <2>1, <1>1, <1>4
  <2>3. b[j - 1] = s[j]
    BY <2>1, <2>2, <1>1
  <2>4. QED BY <2>1, <2>2, <2>3 DEF Follows
<1>5. QED BY <1>2, <1>3, <1>4 DEF b

-----------------------------------------------------------------------------
(* What the threads post and the clients answer. *)

Posts == Clients \X ServerMessages

LEMMA ClientFacts ==
  /\ Clients = {0, 1, 2} /\ Players = {0, 1} /\ Third = 2 /\ MAX_NUM_PLAYERS = 2
  /\ \A p \in Players : other_player_ind(p) \in Players /\ other_player_ind(p) # p
  /\ \A p, q \in Players : p # q => q = other_player_ind(p)
  BY DEF Clients, Players, Third, MAX_NUM_PLAYERS, MAX_NUM_CLIENTS, other_player_ind

LEMMA OnePost ==
  ASSUME NEW c \in Clients, NEW m \in ServerMessages
  PROVE  To(c, <<m>>) \in Seq(Posts) /\ Len(To(c, <<m>>)) = 1 /\ To(c, <<m>>)[1] = <<c, m>>
<1>1. To(c, <<m>>) = << <<c, m>> >>
  BY DEF To
<1>2. QED BY <1>1, OneElement DEF Posts

LEMMA TwoPosts ==
  ASSUME NEW c \in Clients, NEW m \in ServerMessages, NEW n \in ServerMessages
  PROVE  To(c, <<m, n>>) \in Seq(Posts) /\ Len(To(c, <<m, n>>)) = 2
         /\ To(c, <<m, n>>)[1] = <<c, m>> /\ To(c, <<m, n>>)[2] = <<c, n>>
<1>1. To(c, <<m, n>>) = << <<c, m>>, <<c, n>> >>
  BY DEF To
<1>2. PICK p : p = <<c, m>>
  OBVIOUS
<1>3. PICK q : q = <<c, n>>
  OBVIOUS
<1>4. p \in Posts /\ q \in Posts
  BY <1>2, <1>3 DEF Posts
<1>5. <<p, q>> \in Seq(Posts) /\ Len(<<p, q>>) = 2 /\ <<p, q>>[1] = p /\ <<p, q>>[2] = q
  BY <1>4
<1>6. QED BY <1>1, <1>2, <1>3, <1>5

LEMMA PostsToBoth ==
  ASSUME NEW p \in Players, NEW m \in ServerMessages
  PROVE  Both(p, m) \in Seq(Posts) /\ Len(Both(p, m)) = 2
         /\ Both(p, m)[1] = <<p, m>> /\ Both(p, m)[2] = <<other_player_ind(p), m>>
<1>1. <<p, m>> \in Posts /\ <<other_player_ind(p), m>> \in Posts
  BY ClientFacts DEF Posts
<1>2. QED BY <1>1 DEF Both

LEMMA TurnPosts ==
  ASSUME NEW p \in Players
  PROVE  LET s == Both(p, "TURN_SWITCH") \o To(other_player_ind(p), <<"SERVER_MOVE_REQUEST">>)
         IN  /\ s \in Seq(Posts) /\ Len(s) = 3
             /\ s[1] = <<p, "TURN_SWITCH">> /\ s[2] = <<other_player_ind(p), "TURN_SWITCH">>
             /\ s[3] = <<other_player_ind(p), "SERVER_MOVE_REQUEST">>
<1>1. PICK b : b = Both(p, "TURN_SWITCH")
  OBVIOUS
<1>2. PICK t : t = To(other_player_ind(p), <<"SERVER_MOVE_REQUEST">>)
  OBVIOUS
<1>3. b \in Seq(Posts) /\ Len(b) = 2
      /\ b[1] = <<p, "TURN_SWITCH">> /\ b[2] = <<other_player_ind(p), "TURN_SWITCH">>
  BY <1>1, PostsToBoth DEF ServerMessages, GameMessages
<1>4. t \in Seq(Posts) /\ Len(t) = 1 /\ t[1] = <<other_player_ind(p), "SERVER_MOVE_REQUEST">>
  BY <1>2, OnePost, ClientFacts DEF ServerMessages, GameMessages
<1>5. b \o t \in Seq(Posts) /\ Len(b \o t) = Len(b) + Len(t)
      /\ (\A i \in 1 .. Len(b) : (b \o t)[i] = b[i])
      /\ \A i \in 1 .. Len(t) : (b \o t)[Len(b) + i] = t[i]
  BY SMTT(30), <1>3, <1>4, ConcatFacts
<1>6. Len(b \o t) = 3 /\ (b \o t)[1] = b[1] /\ (b \o t)[2] = b[2] /\ (b \o t)[3] = t[1]
  <2>1. 1 \in 1 .. Len(b) /\ 2 \in 1 .. Len(b) /\ 1 \in 1 .. Len(t) /\ Len(b) + 1 = 3
        /\ Len(b) + Len(t) = 3
    BY <1>3, <1>4
  <2>2. QED BY <1>5, <2>1
<1>7. QED BY <1>1, <1>2, <1>3, <1>4, <1>5, <1>6

LEMMA StartPosts ==
  ASSUME NEW p \in Players
  PROVE  /\ game_start(p) \in Seq(Posts) /\ Len(game_start(p)) = 5
         /\ game_start(p)[1] = <<p, "GAME_STARTED">>
         /\ game_start(p)[2] = <<other_player_ind(p), "GAME_STARTED">>
         /\ game_start(p)[3] = <<p, "TURN_SWITCH">>
         /\ game_start(p)[4] = <<other_player_ind(p), "TURN_SWITCH">>
         /\ game_start(p)[5] = <<0, "SERVER_MOVE_REQUEST">>
<1>1. PICK b : b = Both(p, "GAME_STARTED")
  OBVIOUS
<1>2. PICK t : t = Both(p, "TURN_SWITCH")
  OBVIOUS
<1>3. PICK m : m = To(0, <<"SERVER_MOVE_REQUEST">>)
  OBVIOUS
<1>4. b \in Seq(Posts) /\ Len(b) = 2
      /\ b[1] = <<p, "GAME_STARTED">> /\ b[2] = <<other_player_ind(p), "GAME_STARTED">>
  BY <1>1, PostsToBoth DEF ServerMessages, GameMessages
<1>5. t \in Seq(Posts) /\ Len(t) = 2
      /\ t[1] = <<p, "TURN_SWITCH">> /\ t[2] = <<other_player_ind(p), "TURN_SWITCH">>
  BY <1>2, PostsToBoth DEF ServerMessages, GameMessages
<1>6. m \in Seq(Posts) /\ Len(m) = 1 /\ m[1] = <<0, "SERVER_MOVE_REQUEST">>
  BY <1>3, OnePost, ClientFacts DEF ServerMessages, GameMessages
<1>7. b \o t \in Seq(Posts) /\ Len(b \o t) = Len(b) + Len(t)
      /\ (\A i \in 1 .. Len(b) : (b \o t)[i] = b[i])
      /\ \A i \in 1 .. Len(t) : (b \o t)[Len(b) + i] = t[i]
  BY SMTT(30), <1>4, <1>5, ConcatFacts
<1>8. PICK s : s = b \o t
  OBVIOUS
<1>9. s \in Seq(Posts) /\ Len(s) = 4 /\ s[1] = b[1] /\ s[2] = b[2] /\ s[3] = t[1] /\ s[4] = t[2]
  <2>1. 1 \in 1 .. Len(b) /\ 2 \in 1 .. Len(b) /\ 1 \in 1 .. Len(t) /\ 2 \in 1 .. Len(t)
        /\ Len(b) + 1 = 3 /\ Len(b) + 2 = 4 /\ Len(b) + Len(t) = 4
    BY <1>4, <1>5
  <2>2. QED BY <1>7, <1>8, <2>1
<1>10. s \in Seq(Posts) /\ m \in Seq(Posts)
  BY <1>6, <1>9
<1>11. s \o m \in Seq(Posts) /\ Len(s \o m) = Len(s) + Len(m)
       /\ (\A i \in 1 .. Len(s) : (s \o m)[i] = s[i])
       /\ \A i \in 1 .. Len(m) : (s \o m)[Len(s) + i] = m[i]
  BY <1>10, ConcatFacts
<1>12. /\ Len(s \o m) = 5 /\ (s \o m)[1] = s[1] /\ (s \o m)[2] = s[2] /\ (s \o m)[3] = s[3]
       /\ (s \o m)[4] = s[4] /\ (s \o m)[5] = m[1]
  <2>1. /\ 1 \in 1 .. Len(s) /\ 2 \in 1 .. Len(s) /\ 3 \in 1 .. Len(s) /\ 4 \in 1 .. Len(s)
        /\ 1 \in 1 .. Len(m) /\ Len(s) + 1 = 5 /\ Len(s) + Len(m) = 5
    BY <1>6, <1>9
  <2>2. QED BY <1>11, <2>1
<1>13. game_start(p) = s \o m
  BY <1>1, <1>2, <1>3, <1>8 DEF game_start
<1>14. QED BY <1>4, <1>5, <1>6, <1>9, <1>11, <1>12, <1>13

LEMMA Asked ==
  /\ << <<"CLIENT_REQUEST">> >> \in Seq(ClientMessages)
  /\ << <<"CLIENT_VERSUS">> >> \in Seq(ClientMessages)
  /\ << <<"FIN">> >> \in Seq(ClientMessages) /\ << <<"RST">> >> \in Seq(ClientMessages)
  /\ << <<"CLIENT_DISCONNECT">>, <<"FIN">> >> \in Seq(ClientMessages)
  /\ \A move \in Int : << <<"CLIENT_PLAYER_MOVE", move>> >> \in Seq(ClientMessages)
<1>1. /\ <<"CLIENT_REQUEST">> \in ClientMessages /\ <<"CLIENT_VERSUS">> \in ClientMessages
      /\ <<"FIN">> \in ClientMessages /\ <<"RST">> \in ClientMessages
      /\ <<"CLIENT_DISCONNECT">> \in ClientMessages
      /\ \A move \in Int : <<"CLIENT_PLAYER_MOVE", move>> \in ClientMessages
  BY DEF ClientMessages
<1>2. QED BY <1>1

-----------------------------------------------------------------------------
(* Types. *)

LEMMA PostType ==
  ASSUME TypeOK, NEW c \in Clients, todo[c] # <<>>
  PROVE  /\ Head(todo[c]) \in Posts /\ Head(todo[c])[1] \in Clients
         /\ Head(todo[c])[2] \in ServerMessages
         /\ Tail(todo[c]) \in Seq(Posts) /\ todo[c] \in Seq(Posts)
<1>1. todo[c] \in Seq(Posts)
  BY DEF TypeOK, Posts
<1>2. Head(todo[c]) \in Posts /\ Tail(todo[c]) \in Seq(Posts)
  BY <1>1, TailFacts
<1>3. QED BY <1>1, <1>2 DEF Posts

LEMMA ReceiveTypes ==
  ASSUME TypeOK, NEW c \in Clients, Receive(c)
  PROVE  TypeOK'
<1>1. to_server[c] # <<>> /\ Head(to_server[c]) \in ClientMessages
      /\ Tail(to_server[c]) \in Seq(ClientMessages)
  BY TailFacts DEF TypeOK, Receive
<1>2. to_server' \in [Clients -> Seq(ClientMessages)]
      /\ g_wait_for_client_event' \in [Players -> BOOLEAN]
      /\ UNCHANGED <<gp_massage_to_send_hade, send_pc, users>>
  BY <1>1 DEF Receive, event_set, TypeOK
<1>3. CASE ReceiveRequest(c)
  <2>1. To(c, <<"SERVER_DENIED">>) \in Seq(Posts)
        /\ To(c, <<"SERVER_APPROVED", "SERVER_MAIN_MENU">>) \in Seq(Posts)
    BY OnePost, TwoPosts DEF ServerMessages, MenuMessages, Answers
  <2>2. todo' \in [Clients -> Seq(Posts)]
    BY <1>3, <2>1 DEF ReceiveRequest, TypeOK, Posts
  <2>3. QED BY <1>2, <1>3, <2>2 DEF ReceiveRequest, TypeOK, Posts, users, game
<1>4. CASE ReceiveVersus(c)
  BY <1>2, <1>4 DEF ReceiveVersus, TypeOK, users, game
<1>5. CASE ReceiveMove(c)
  <2>1. Head(to_server[c])[2] \in Int
    BY <1>1, <1>5 DEF ReceiveMove, ClientMessages
  <2>2. QED BY <1>2, <1>5, <2>1 DEF ReceiveMove, TypeOK, users, Playing
<1>6. CASE ReceiveDisconnect(c)
  BY <1>2, <1>6 DEF ReceiveDisconnect, TypeOK, users, server, game
<1>7. CASE ReceiveEnd(c)
  BY <1>2, <1>7 DEF ReceiveEnd, TypeOK, users, game
<1>8. QED BY <1>3, <1>4, <1>5, <1>6, <1>7 DEF Receive

LEMMA VersusTypes ==
  ASSUME TypeOK, NEW c \in Players, CheckOpponent(c) \/ WaitTimesOut(c)
  PROVE  TypeOK'
<1>0. c \in Clients
  BY ClientFacts
<1>1. game_start(c) \in Seq(Posts) /\ To(c, no_opponents) \in Seq(Posts)
  BY <1>0, StartPosts, TwoPosts DEF no_opponents, ServerMessages, MenuMessages
<1>2. CASE CheckOpponent(c)
  <2>1. todo' \in [Clients -> Seq(Posts)] /\ recv_pc' \in [Clients -> {"off", "recv", "check", "wait", "ended"} \cup Playing]
        /\ g_wait_for_client_event' \in [Players -> BOOLEAN]
    BY ZenonT(60), <1>1, <1>2 DEF CheckOpponent, TypeOK, event_before_wait, Posts
  <2>2. QED BY <2>1, <1>2 DEF CheckOpponent, TypeOK, users, game, Posts
<1>3. CASE WaitTimesOut(c)
  <2>1. todo' \in [Clients -> Seq(Posts)]
    BY <1>1, <1>3 DEF WaitTimesOut, TypeOK, Posts
  <2>2. QED BY <2>1, <1>3 DEF WaitTimesOut, TypeOK, users, game, Posts
<1>4. QED BY <1>2, <1>3

LEMMA MoveTypes ==
  ASSUME TypeOK, NEW c \in Players,
         LoadTurn(c) \/ StoreTurn(c) \/ Judge(c) \/ NextTurnOrEnd(c) \/ ResetGame(c)
  PROVE  TypeOK'
<1>0. c \in Clients /\ other_player_ind(c) \in Clients
  BY ClientFacts
<1>1. To(other_player_ind(c), <<"GAME_VIEW">>) \in Seq(Posts)
      /\ Both(c, "GAME_ENDED") \in Seq(Posts) /\ Both(c, "SERVER_MAIN_MENU") \in Seq(Posts)
      /\ Both(c, "TURN_SWITCH") \o To(other_player_ind(c), <<"SERVER_MOVE_REQUEST">>) \in Seq(Posts)
  BY <1>0, OnePost, PostsToBoth, TurnPosts DEF ServerMessages, MenuMessages, GameMessages
<1>2. ASSUME NEW q \in Seq(Posts), todo' = [todo EXCEPT ![c] = q]
      PROVE  todo' \in [Clients -> Seq(Posts)]
  BY <1>2 DEF TypeOK, Posts
<1>3. ASSUME NEW q \in {"recv", "reset", "store", "judge", "view"},
             recv_pc' = [recv_pc EXCEPT ![c] = q]
      PROVE  recv_pc' \in [Clients -> {"off", "recv", "check", "wait", "ended"} \cup Playing]
  BY <1>3 DEF TypeOK, Playing
<1>4. CASE LoadTurn(c)
  <2>1. num' \in [Clients -> Registers]
    <3>1. <<g_player_num_arr[c], g_game_turn_num>> \in Registers
      BY DEF TypeOK, Registers
    <3>2. PICK q \in Registers : num' = [num EXCEPT ![c] = q]
      BY <1>4, <3>1 DEF LoadTurn
    <3>3. num \in [Clients -> Registers]
      BY DEF TypeOK
    <3>4. QED BY <3>2, <3>3
  <2>2. QED BY <2>1, <1>3, <1>4 DEF LoadTurn, TypeOK, users, game
<1>5. CASE StoreTurn(c)
  <2>1. g_game_turn_num' \in Nat
    <3>1. num[c] \in Int \X Nat
      BY <1>0 DEF TypeOK, Registers
    <3>2. QED BY <1>5, <3>1 DEF StoreTurn
  <2>2. QED BY <2>1, <1>3, <1>5 DEF StoreTurn, TypeOK, users
<1>6. CASE Judge(c)
  <2>1. todo' = [todo EXCEPT ![c] = To(other_player_ind(c), <<"GAME_VIEW">>)]
        /\ recv_pc' = [recv_pc EXCEPT ![c] = "view"]
        /\ num' = [num EXCEPT ![c] = <<0, 0>>]
        /\ g_game_state' \in {g_game_state, "GAME_END_STATE"}
        /\ UNCHANGED <<g_is_thread_active, g_player_vs_req, g_game_turn_num, g_player_num_arr,
                      gp_massage_to_send_hade, g_wait_for_client_event, send_pc, to_server, users>>
    BY <1>6 DEF Judge
  <2>2. todo' \in [Clients -> Seq(Posts)]
    BY <2>1, <1>1, <1>2
  <2>3. num' \in [Clients -> Registers]
    <3>1. PICK q \in Registers : num' = [num EXCEPT ![c] = q]
      <4>1. <<0, 0>> \in Registers
        BY DEF Registers
      <4>2. QED BY <2>1, <4>1
    <3>2. num \in [Clients -> Registers]
      BY DEF TypeOK
    <3>3. QED BY <3>1, <3>2
  <2>4. QED BY <2>1, <2>2, <2>3, <1>3 DEF TypeOK, users, Posts
<1>7. CASE NextTurnOrEnd(c)
  <2>1. todo' \in [Clients -> Seq(Posts)]
    <3>1. PICK q \in Seq(Posts) : todo' = [todo EXCEPT ![c] = q]
      BY <1>1, <1>7 DEF NextTurnOrEnd
    <3>2. QED BY <3>1, <1>2
  <2>2. recv_pc' \in [Clients -> {"off", "recv", "check", "wait", "ended"} \cup Playing]
    BY <1>3, <1>7 DEF NextTurnOrEnd
  <2>3. QED BY <2>1, <2>2, <1>7 DEF NextTurnOrEnd, TypeOK, users, game, Posts
<1>8. CASE ResetGame(c)
  <2>1. todo' \in [Clients -> Seq(Posts)]
    <3>1. todo' = [todo EXCEPT ![c] = Both(c, "SERVER_MAIN_MENU")]
      BY <1>8 DEF ResetGame
    <3>2. QED BY <3>1, <1>1, <1>2
  <2>2. QED BY <2>1, <1>3, <1>8 DEF ResetGame, reset_game, TypeOK, users, Posts
<1>9. QED BY <1>4, <1>5, <1>6, <1>7, <1>8

LEMMA SendTypes ==
  ASSUME TypeOK, NEW c \in Clients, Post(c) \/ SendStep(c)
  PROVE  TypeOK'
<1>1. CASE Post(c)
  <2>1. todo[c] # <<>>
    BY <1>1 DEF Post
  <2>2. PICK to \in Clients, m \in ServerMessages : to = Head(todo[c])[1] /\ m = Head(todo[c])[2]
    BY <2>1, PostType
  <2>3. Append(gp_massage_to_send_hade[to], m) \in Seq(ServerMessages)
    BY AppendFacts DEF TypeOK
  <2>4. gp_massage_to_send_hade' \in [Clients -> Seq(ServerMessages)]
    BY <1>1, <2>2, <2>3 DEF Post, TypeOK
  <2>5. todo' \in [Clients -> Seq(Posts)]
    BY <1>1, <2>1, PostType DEF Post, TypeOK, Posts
  <2>6. QED BY <1>1, <2>4, <2>5 DEF Post, TypeOK, users, game, Posts
<1>2. CASE SendMessage(c)
  <2>1. gp_massage_to_send_hade[c] # <<>>
    BY <1>2 DEF SendMessage
  <2>2. Head(gp_massage_to_send_hade[c]) \in ServerMessages
        /\ Tail(gp_massage_to_send_hade[c]) \in Seq(ServerMessages)
    BY <2>1, TailFacts DEF TypeOK
  <2>3. Append(to_client[c], Head(gp_massage_to_send_hade[c])) \in Seq(ServerMessages)
    BY <2>2, AppendFacts DEF TypeOK
  <2>4. gp_massage_to_send_hade' \in [Clients -> Seq(ServerMessages)]
        /\ to_client' \in [Clients -> Seq(ServerMessages)]
    BY <1>2, <2>2, <2>3 DEF SendMessage, TypeOK
  <2>5. g_wait_for_client_event' \in [Players -> BOOLEAN]
        /\ send_pc' \in [Clients -> {"off", "ready", "respond", "gone"}]
    BY <1>2 DEF SendMessage, TypeOK
  <2>6. QED BY <1>2, <2>4, <2>5 DEF SendMessage, TypeOK, server, game
<1>3. CASE SendFails(c)
  BY <1>3 DEF SendFails, TypeOK, users, server, game
<1>4. CASE StopWaiting(c)
  BY <1>4 DEF StopWaiting, TypeOK, users, server, game
<1>5. QED BY <1>1, <1>2, <1>3, <1>4 DEF SendStep

LEMMA ClientTypes ==
  ASSUME TypeOK, NEW c \in Clients, ClientStep(c) \/ ClientBreaks(c)
  PROVE  TypeOK'
<1>1. UNCHANGED <<visit, server, gp_massage_to_send_hade, g_wait_for_client_event, send_pc>>
  BY DEF ClientStep, ClientBreaks
<1>2. to_client' \in [Clients -> Seq(ServerMessages)]
  <2>1. to_client[c] \in Seq(ServerMessages)
    BY DEF TypeOK
  <2>2. to_client[c] # <<>> => Tail(to_client[c]) \in Seq(ServerMessages)
    BY <2>1, TailFacts
  <2>3. \/ to_client[c] # <<>> /\ to_client' = [to_client EXCEPT ![c] = Tail(@)]
        \/ to_client' = [to_client EXCEPT ![c] = <<>>]
    <3>1. CASE ReadMessage(c) \/ ChooseVersus(c) \/ MakeMove(c)
      BY <3>1 DEF ReadMessage, ChooseVersus, MakeMove
    <3>2. CASE Quit(c) \/ TakeDenial(c) \/ BreakOff(c)
      BY <3>2 DEF Quit, TakeDenial, BreakOff, Leave
    <3>3. \/ ReadMessage(c) \/ ChooseVersus(c) \/ MakeMove(c)
          \/ Quit(c) \/ TakeDenial(c) \/ BreakOff(c)
      BY DEF ClientStep, ClientBreaks
    <3>4. QED BY <3>1, <3>2, <3>3
  <2>4. PICK q \in Seq(ServerMessages) : to_client' = [to_client EXCEPT ![c] = q]
    <3>1. <<>> \in Seq(ServerMessages)
      OBVIOUS
    <3>2. QED BY <2>2, <2>3, <3>1
  <2>5. QED BY <2>4 DEF TypeOK
<1>3. to_server' \in [Clients -> Seq(ClientMessages)]
  <2>1. UNCHANGED to_server \/ \E messages \in Seq(ClientMessages) : Answer(c, messages)
    <3>1. visit.moves \subseteq Int
      BY GameServerAssumption DEF GameServerAssumption, TypeOK
    <3>2. QED BY <3>1, Asked DEF ClientStep, ClientBreaks, ReadMessage, ChooseVersus, MakeMove,
                 Quit, TakeDenial, BreakOff, Leave
  <2>2. ASSUME NEW messages \in Seq(ClientMessages), Answer(c, messages)
        PROVE  to_server' \in [Clients -> Seq(ClientMessages)]
    <3>1. to_server[c] \o messages \in Seq(ClientMessages)
      BY ConcatFacts DEF TypeOK
    <3>2. QED BY <2>2, <3>1 DEF Answer, TypeOK
  <2>3. QED BY <2>1, <2>2 DEF TypeOK
<1>4. requests' \in [Clients -> Nat]
  <2>1. UNCHANGED requests \/ requests' = [requests EXCEPT ![c] = @ + 1]
    BY DEF ClientStep, ClientBreaks, ReadMessage, ChooseVersus, MakeMove, Quit,
           TakeDenial, BreakOff, Leave
  <2>2. requests \in [Clients -> Nat]
    BY DEF TypeOK
  <2>3. QED BY <2>1, <2>2
<1>5. client' \in [Clients -> {"out", "asking", "idle", "versus", "game", "left"}]
  <2>1. \A m : told(c, m) \in {"game", "idle", client[c]}
    BY DEF told
  <2>2. \/ UNCHANGED client
        \/ \E s \in {"game", "idle", client[c], "versus", "left"} :
             client' = [client EXCEPT ![c] = s]
    BY <2>1 DEF ClientStep, ClientBreaks, ReadMessage, ChooseVersus, MakeMove, Quit,
           TakeDenial, BreakOff, Leave
  <2>3. QED BY <2>2 DEF TypeOK
<1>6. QED BY <1>1, <1>2, <1>3, <1>4, <1>5 DEF TypeOK, server, game

LEMMA NextTypes == TypeOK /\ [Next]_vars => TypeOK'
<1> SUFFICES ASSUME TypeOK, [Next]_vars PROVE TypeOK'
  OBVIOUS
<1>1. ASSUME NEW c \in Clients, Accept(c) PROVE TypeOK'
  BY <1>1, Asked DEF Accept, TypeOK, game
<1>2. CASE UNCHANGED vars
  BY <1>2 DEF vars, server, users, game, TypeOK
<1>3. QED BY <1>1, <1>2, ReceiveTypes, VersusTypes, MoveTypes, SendTypes, ClientTypes
          DEF Next, RecvStep, HandleVersus, HandleMove

-----------------------------------------------------------------------------
(* How steps change the messages under way. *)

LEMMA PathFacts ==
  ASSUME TypeOK, NEW c \in Clients
  PROVE  /\ to_client[c] \in Seq(ServerMessages)
         /\ gp_massage_to_send_hade[c] \in Seq(ServerMessages)
         /\ Path(c) \in Seq(ServerMessages) /\ Len(Path(c)) \in Nat
         /\ Len(Path(c)) = Len(to_client[c]) + Len(gp_massage_to_send_hade[c])
         /\ Path(c) = <<>> <=> to_client[c] = <<>> /\ gp_massage_to_send_hade[c] = <<>>
         /\ to_client[c] # <<>> => Path(c) # <<>> /\ Head(Path(c)) = Head(to_client[c])
         /\ \A i \in 1 .. Len(to_client[c]) : Path(c)[i] = to_client[c][i]
         /\ \A i \in 1 .. Len(gp_massage_to_send_hade[c]) :
              Path(c)[Len(to_client[c]) + i] = gp_massage_to_send_hade[c][i]
<1>1. PICK s, t : s = to_client[c] /\ t = gp_massage_to_send_hade[c]
  OBVIOUS
<1>2. s \in Seq(ServerMessages) /\ t \in Seq(ServerMessages)
  BY <1>1 DEF TypeOK
<1>3. /\ s \o t \in Seq(ServerMessages) /\ Len(s \o t) = Len(s) + Len(t)
      /\ \A i \in 1 .. Len(s) : (s \o t)[i] = s[i]
      /\ \A i \in 1 .. Len(t) : (s \o t)[Len(s) + i] = t[i]
  BY <1>2, ConcatFacts
<1>4. s \o t = <<>> <=> s = <<>> /\ t = <<>>
  BY <1>2, ConcatEqualIffEmpty
<1>5. s # <<>> => s \o t # <<>> /\ Head(s \o t) = Head(s)
  BY <1>2, ConcatTail
<1>6. Len(s \o t) \in Nat
  BY <1>3
<1>7. QED BY <1>1, <1>2, <1>3, <1>4, <1>5, <1>6 DEF Path

(* A sequence that holds only elements of t, and no more of them.          *)
Shrunk(s, t) == /\ Len(s) <= Len(t)
                /\ \A i \in 1 .. Len(s) : \E j \in 1 .. Len(t) : s[i] = t[j]

LEMMA ShrunkTail ==
  ASSUME NEW S, NEW s \in Seq(S), s # <<>>
  PROVE  Shrunk(Tail(s), s)
<1>1. Len(Tail(s)) = Len(s) - 1 /\ Len(s) \in Nat /\ \A i \in 1 .. Len(s) - 1 : Tail(s)[i] = s[i + 1]
  BY TailFacts
<1>2. ASSUME NEW i \in 1 .. Len(Tail(s)) PROVE \E j \in 1 .. Len(s) : Tail(s)[i] = s[j]
  <2>1. i + 1 \in 1 .. Len(s) /\ Tail(s)[i] = s[i + 1]
    BY <1>1
  <2>2. QED BY <2>1
<1>3. QED BY <1>1, <1>2 DEF Shrunk

LEMMA ShrunkConcat ==
  ASSUME NEW S, NEW s \in Seq(S), NEW t \in Seq(S), NEW u \in Seq(S), Shrunk(u, t)
  PROVE  Shrunk(s \o u, s \o t)
<1>1. PICK a : a = s \o u
  OBVIOUS
<1>2. PICK b : b = s \o t
  OBVIOUS
<1>3. Len(a) = Len(s) + Len(u) /\ (\A i \in 1 .. Len(s) : a[i] = s[i])
      /\ \A i \in 1 .. Len(u) : a[Len(s) + i] = u[i]
  BY <1>1, ConcatFacts
<1>4. Len(b) = Len(s) + Len(t) /\ (\A i \in 1 .. Len(s) : b[i] = s[i])
      /\ \A i \in 1 .. Len(t) : b[Len(s) + i] = t[i]
  BY <1>2, ConcatFacts
<1>5. Len(s) \in Nat /\ Len(t) \in Nat /\ Len(u) \in Nat
  OBVIOUS
<1>6. ASSUME NEW i \in 1 .. Len(a) PROVE \E j \in 1 .. Len(b) : a[i] = b[j]
  <2>1. CASE i <= Len(s)
    <3>1. i \in 1 .. Len(s) /\ i \in 1 .. Len(b)
      BY <2>1, <1>4, <1>5
    <3>2. QED BY <3>1, <1>3, <1>4
  <2>2. CASE i > Len(s)
    <3>1. i - Len(s) \in 1 .. Len(u) /\ i = Len(s) + (i - Len(s))
      BY <2>2, <1>3, <1>5
    <3>2. PICK k \in 1 .. Len(u) : i = Len(s) + k
      BY <3>1
    <3>3. PICK j \in 1 .. Len(t) : u[k] = t[j]
      BY DEF Shrunk
    <3>4. Len(s) + j \in 1 .. Len(b) /\ b[Len(s) + j] = t[j] /\ a[i] = u[k]
      BY <3>2, <1>3, <1>4, <1>5
    <3>5. QED BY <3>3, <3>4
  <2>3. QED BY <2>1, <2>2, <1>5
<1>7. Len(a) <= Len(b)
  BY <1>3, <1>4, <1>5 DEF Shrunk
<1>8. QED BY <1>1, <1>2, <1>6, <1>7 DEF Shrunk

LEMMA ShrunkRest ==
  ASSUME NEW S, NEW s \in Seq(S), NEW t \in Seq(S)
  PROVE  Shrunk(<<>> \o t, s \o t)
<1>1. <<>> \o t = t
  BY ConcatEmptySeq
<1>2. PICK b : b = s \o t
  OBVIOUS
<1>3. Len(b) = Len(s) + Len(t) /\ \A i \in 1 .. Len(t) : b[Len(s) + i] = t[i]
  BY <1>2, ConcatFacts
<1>4. Len(s) \in Nat /\ Len(t) \in Nat
  OBVIOUS
<1>5. ASSUME NEW i \in 1 .. Len(t) PROVE \E j \in 1 .. Len(b) : t[i] = b[j]
  <2>1. Len(s) + i \in 1 .. Len(b) /\ b[Len(s) + i] = t[i]
    BY <1>3, <1>4
  <2>2. QED BY <2>1
<1>6. Len(t) <= Len(b)
  BY <1>3, <1>4
<1>7. Shrunk(t, b)
  BY <1>5, <1>6 DEF Shrunk
<1>8. QED BY <1>1, <1>2, <1>7

LEMMA PathsStay ==
  ASSUME UNCHANGED <<gp_massage_to_send_hade, to_client>>
  PROVE  \A d \in Clients : Path(d)' = Path(d)
  BY DEF Path

LEMMA PostPaths ==
  ASSUME TypeOK, Stages, NEW c \in Clients, Post(c)
  PROVE  \E to \in Clients, m \in ServerMessages :
           /\ todo[c] \in Seq(Posts) /\ todo[c] # <<>> /\ Head(todo[c]) = <<to, m>>
           /\ todo' = [todo EXCEPT ![c] = Tail(todo[c])]
           /\ \A d \in Clients : d # to => Path(d)' = Path(d)
           /\ \/ Path(to)' = Append(Path(to), m)
              \/ client[to] = "left" /\ Path(to)' = Path(to)
<1>1. todo[c] # <<>> /\ todo[c] \in Seq(Posts) /\ todo' = [todo EXCEPT ![c] = Tail(todo[c])]
  BY DEF Post, TypeOK, Posts
<1>2. PICK to \in Clients, m \in ServerMessages : Head(todo[c]) = <<to, m>>
  BY <1>1, PostType DEF Posts
<1>3. CASE gp_massage_to_send_hade' = [gp_massage_to_send_hade EXCEPT ![to] = Append(@, m)]
  <2>1. to_client' = to_client
    BY DEF Post, users
  <2>2. \A d \in Clients : d # to => Path(d)' = Path(d)
    BY <1>3, <2>1 DEF Path, TypeOK
  <2>3. gp_massage_to_send_hade'[to] = Append(gp_massage_to_send_hade[to], m)
    BY <1>3 DEF TypeOK
  <2>4. to_client[to] \o Append(gp_massage_to_send_hade[to], m) = Append(Path(to), m)
    <3>1. to_client[to] \in Seq(ServerMessages)
          /\ gp_massage_to_send_hade[to] \in Seq(ServerMessages)
      BY DEF TypeOK
    <3>2. PICK s, t : s = to_client[to] /\ t = gp_massage_to_send_hade[to]
      OBVIOUS
    <3>3. s \o Append(t, m) = Append(s \o t, m)
      <4>1. s \in Seq(ServerMessages) /\ t \in Seq(ServerMessages) /\ m \in ServerMessages
        BY <3>1, <3>2
      <4>2. QED BY ONLY <4>1, ConcatAppend
    <3>4. QED BY <3>2, <3>3 DEF Path
  <2>5. Path(to)' = Append(Path(to), m)
    BY <2>1, <2>3, <2>4 DEF Path
  <2>6. QED BY <1>1, <1>2, <2>2, <2>5
<1>4. CASE send_pc[to] = "gone" /\ UNCHANGED gp_massage_to_send_hade
  <2>1. client[to] = "left"
    BY <1>4 DEF Stages
  <2>2. UNCHANGED <<gp_massage_to_send_hade, to_client>>
    BY <1>4 DEF Post, users
  <2>3. \A d \in Clients : Path(d)' = Path(d)
    BY <2>2, PathsStay
  <2>4. QED BY <1>1, <1>2, <2>1, <2>3
<1>5. QED
  <2>1. \/ gp_massage_to_send_hade' =
             [gp_massage_to_send_hade EXCEPT ![Head(todo[c])[1]] = Append(@, Head(todo[c])[2])]
        \/ send_pc[Head(todo[c])[1]] = "gone" /\ UNCHANGED gp_massage_to_send_hade
    BY DEF Post
  <2>2. Head(todo[c])[1] = to /\ Head(todo[c])[2] = m
    BY <1>2
  <2>3. QED BY <2>1, <2>2, <1>3, <1>4

LEMMA SendPaths ==
  ASSUME TypeOK, NEW c \in Clients, SendStep(c)
  PROVE  \A d \in Clients :
           \/ Path(d)' = Path(d)
           \/ client[d] = "left" /\ Shrunk(Path(d)', Path(d))
<1>1. CASE SendMessage(c)
  <2>1. gp_massage_to_send_hade[c] # <<>>
        /\ gp_massage_to_send_hade'[c] = Tail(gp_massage_to_send_hade[c])
        /\ \A d \in Clients : d # c => gp_massage_to_send_hade'[d] = gp_massage_to_send_hade[d]
    BY <1>1 DEF SendMessage, TypeOK
  <2>2. CASE client[c] # "left"
    <3>1. to_client'[c] = Append(to_client[c], Head(gp_massage_to_send_hade[c]))
          /\ \A d \in Clients : d # c => to_client'[d] = to_client[d]
      BY <1>1, <2>2 DEF SendMessage, TypeOK
    <3>2. Path(c)' = Path(c)
      <4>1. Append(to_client[c], Head(gp_massage_to_send_hade[c]))
              \o Tail(gp_massage_to_send_hade[c]) = Path(c)
        <5>1. to_client[c] \in Seq(ServerMessages)
              /\ gp_massage_to_send_hade[c] \in Seq(ServerMessages)
          BY PathFacts
        <5>2. QED BY <2>1, <5>1, ConcatMoves DEF Path
      <4>2. QED BY <2>1, <3>1, <4>1 DEF Path
    <3>3. QED BY <2>1, <3>1, <3>2 DEF Path
  <2>3. CASE client[c] = "left"
    <3>1. to_client' = to_client
      BY <1>1, <2>3 DEF SendMessage
    <3>2. Shrunk(to_client[c] \o Tail(gp_massage_to_send_hade[c]), Path(c))
      <4>1. Shrunk(Tail(gp_massage_to_send_hade[c]), gp_massage_to_send_hade[c])
            /\ Tail(gp_massage_to_send_hade[c]) \in Seq(ServerMessages)
        BY <2>1, PathFacts, ShrunkTail, TailFacts
      <4>2. QED BY <4>1, PathFacts, ShrunkConcat DEF Path
    <3>3. QED BY <2>1, <2>3, <3>1, <3>2 DEF Path
  <2>4. QED BY <2>2, <2>3
<1>2. CASE ~SendMessage(c)
  <2>1. UNCHANGED <<gp_massage_to_send_hade, to_client>>
    BY <1>2 DEF SendStep, SendFails, StopWaiting, users
  <2>2. QED BY <2>1, PathsStay
<1>3. QED BY <1>1, <1>2

LEMMA ReadPaths ==
  ASSUME TypeOK, NEW c \in Clients, ReadMessage(c) \/ ChooseVersus(c) \/ MakeMove(c),
         UNCHANGED gp_massage_to_send_hade
  PROVE  /\ to_client[c] # <<>> /\ Path(c) # <<>> /\ Head(to_client[c]) = Head(Path(c))
         /\ Path(c)' = Tail(Path(c))
         /\ \A d \in Clients : d # c => Path(d)' = Path(d)
<1>1. to_client[c] # <<>> /\ to_client' = [to_client EXCEPT ![c] = Tail(to_client[c])]
  BY DEF ReadMessage, ChooseVersus, MakeMove
<1>2. to_client'[c] = Tail(to_client[c]) /\ \A d \in Clients : d # c => to_client'[d] = to_client[d]
  BY <1>1 DEF TypeOK
<1>3. Tail(to_client[c]) \o gp_massage_to_send_hade[c] = Tail(Path(c))
  <2>1. to_client[c] \in Seq(ServerMessages)
        /\ gp_massage_to_send_hade[c] \in Seq(ServerMessages)
    BY PathFacts
  <2>2. QED BY <1>1, <2>1, ConcatTail DEF Path
<1>4. Path(c)' = Tail(Path(c))
  BY <1>2, <1>3 DEF Path
<1>5. QED BY <1>1, <1>2, <1>4, PathFacts DEF Path

LEMMA LeavePaths ==
  ASSUME TypeOK, Stages, NEW c \in Clients, Quit(c) \/ TakeDenial(c) \/ BreakOff(c),
         UNCHANGED gp_massage_to_send_hade
  PROVE  /\ client' = [client EXCEPT ![c] = "left"] /\ client[c] # "out"
         /\ Shrunk(Path(c)', Path(c))
         /\ \A d \in Clients : d # c => Path(d)' = Path(d)
<1>1. to_client' = [to_client EXCEPT ![c] = <<>>] /\ client' = [client EXCEPT ![c] = "left"]
      /\ (to_client[c] # <<>> \/ client[c] # "out")
  BY DEF Quit, TakeDenial, BreakOff, Leave
<1>2. to_client'[c] = <<>> /\ \A d \in Clients : d # c => to_client'[d] = to_client[d]
  BY <1>1 DEF TypeOK
<1>3. client[c] # "out"
  BY <1>1, PathFacts DEF Stages
<1>4. to_client[c] \in Seq(ServerMessages) /\ gp_massage_to_send_hade[c] \in Seq(ServerMessages)
  BY PathFacts
<1>5. Shrunk(<<>> \o gp_massage_to_send_hade[c], Path(c))
  BY <1>4, ShrunkRest DEF Path
<1>6. Shrunk(Path(c)', Path(c))
  BY <1>2, <1>5 DEF Path
<1>7. QED BY <1>1, <1>2, <1>3, <1>6 DEF Path

-----------------------------------------------------------------------------
(* What a thread has to post is complete. *)

LEMMA CompleteNothing == \A c \in Clients, over \in BOOLEAN : Complete(c, <<>>, over)
  BY DEF Complete

LEMMA CompleteTail ==
  ASSUME NEW c \in Clients, NEW over \in BOOLEAN, NEW s \in Seq(Posts), s # <<>>,
         Complete(c, s, over)
  PROVE  Complete(c, Tail(s), over)
<1>1. PICK t : t = Tail(s)
  OBVIOUS
<1>2. Len(t) = Len(s) - 1 /\ Len(s) \in Nat /\ Len(s) > 0
      /\ \A i \in 1 .. Len(s) - 1 : t[i] = s[i + 1]
  BY <1>1, TailFacts
<1>3. ASSUME NEW k \in 1 .. Len(t)
      PROVE  k + 1 \in 1 .. Len(s) /\ t[k] = s[k + 1]
             /\ \A m : Follows(s, k + 1, m) => Follows(t, k, m)
  <2>1. k \in Nat
    OBVIOUS
  <2>2. QED BY <2>1, <1>1, <1>2, FollowsTail
<1>4. Complete(c, t, over)
  BY <1>3 DEF Complete
<1>5. QED BY <1>1, <1>4

LEMMA CompleteAnswer ==
  ASSUME NEW c \in Clients
  PROVE  /\ c \in Players => Complete(c, To(c, <<"SERVER_APPROVED", "SERVER_MAIN_MENU">>), FALSE)
         /\ c \in Players => Complete(c, To(c, no_opponents), FALSE)
         /\ c = Third => Complete(c, To(c, <<"SERVER_DENIED">>), FALSE)
<1>1. ASSUME c \in Players, NEW m \in {"SERVER_APPROVED", "SERVER_NO_OPPONENTS"}
      PROVE  Complete(c, To(c, <<m, "SERVER_MAIN_MENU">>), FALSE)
  <2>1. PICK s : s = To(c, <<m, "SERVER_MAIN_MENU">>)
    OBVIOUS
  <2>2. Len(s) = 2 /\ s[1] = <<c, m>> /\ s[2] = <<c, "SERVER_MAIN_MENU">>
    BY <2>1, TwoPosts DEF ServerMessages, MenuMessages, Answers
  <2>3. Follows(s, 1, <<c, "SERVER_MAIN_MENU">>)
    BY <2>2 DEF Follows
  <2>4. ASSUME NEW k \in 1 .. Len(s) PROVE k = 1 \/ k = 2
    BY <2>2
  <2>5. Complete(c, s, FALSE)
    BY <1>1, <2>2, <2>3, <2>4, ClientFacts DEF Complete, Reach
  <2>6. QED BY <2>1, <2>5
<1>2. ASSUME c = Third PROVE Complete(c, To(c, <<"SERVER_DENIED">>), FALSE)
  <2>1. PICK s : s = To(c, <<"SERVER_DENIED">>)
    OBVIOUS
  <2>2. Len(s) = 1 /\ s[1] = <<c, "SERVER_DENIED">>
    BY <2>1, OnePost DEF ServerMessages, MenuMessages, Answers
  <2>3. Complete(c, s, FALSE)
    BY <1>2, <2>2, ClientFacts DEF Complete, Reach
  <2>4. QED BY <2>1, <2>3
<1>3. QED BY <1>1, <1>2 DEF no_opponents

LEMMA CompleteStart ==
  ASSUME NEW p \in Players
  PROVE  Complete(p, game_start(p), FALSE)
<1>1. PICK s : s = game_start(p)
  OBVIOUS
<1>2. /\ Len(s) = 5 /\ s[1] = <<p, "GAME_STARTED">> /\ s[2] = <<other_player_ind(p), "GAME_STARTED">>
      /\ s[3] = <<p, "TURN_SWITCH">> /\ s[4] = <<other_player_ind(p), "TURN_SWITCH">>
      /\ s[5] = <<0, "SERVER_MOVE_REQUEST">>
  BY <1>1, StartPosts
<1>3. Follows(s, 1, <<0, "SERVER_MOVE_REQUEST">>) /\ Follows(s, 2, <<0, "SERVER_MOVE_REQUEST">>)
  BY <1>2 DEF Follows
<1>4. ASSUME NEW k \in 1 .. Len(s) PROVE k = 1 \/ k = 2 \/ k = 3 \/ k = 4 \/ k = 5
  BY <1>2
<1>5. 0 \in Players /\ other_player_ind(p) \in Players /\ p # Third
  BY ClientFacts
<1>6. Complete(p, s, FALSE)
  BY <1>2, <1>3, <1>4, <1>5 DEF Complete, Reach
<1>7. QED BY <1>1, <1>6

LEMMA CompleteMove ==
  ASSUME NEW p \in Players
  PROVE  /\ Complete(p, To(other_player_ind(p), <<"GAME_VIEW">>), FALSE)
         /\ Complete(p, Both(p, "GAME_ENDED"), TRUE)
         /\ Complete(p, Both(p, "SERVER_MAIN_MENU"), FALSE)
         /\ Complete(p, Both(p, "TURN_SWITCH")
                          \o To(other_player_ind(p), <<"SERVER_MOVE_REQUEST">>), FALSE)
<1>0. other_player_ind(p) \in Players /\ p # Third /\ other_player_ind(p) \in Clients
  BY ClientFacts
<1>1. Complete(p, To(other_player_ind(p), <<"GAME_VIEW">>), FALSE)
  <2>1. PICK s : s = To(other_player_ind(p), <<"GAME_VIEW">>)
    OBVIOUS
  <2>2. Len(s) = 1 /\ s[1] = <<other_player_ind(p), "GAME_VIEW">>
    BY <1>0, <2>1, OnePost DEF ServerMessages, GameMessages
  <2>3. Complete(p, s, FALSE)
    BY <1>0, <2>2 DEF Complete, Reach
  <2>4. QED BY <2>1, <2>3
<1>2. ASSUME NEW m \in ServerMessages, NEW over \in BOOLEAN,
             m \in {"GAME_ENDED", "SERVER_MAIN_MENU"}, m = "GAME_ENDED" => over
      PROVE  Complete(p, Both(p, m), over)
  <2>1. PICK s : s = Both(p, m)
    OBVIOUS
  <2>2. Len(s) = 2 /\ s[1] = <<p, m>> /\ s[2] = <<other_player_ind(p), m>>
    BY <2>1, PostsToBoth
  <2>3. ASSUME NEW k \in 1 .. Len(s) PROVE k = 1 \/ k = 2
    BY <2>2
  <2>4. Complete(p, s, over)
    BY <1>0, <1>2, <2>2, <2>3 DEF Complete, Reach
  <2>5. QED BY <2>1, <2>4
<1>3. Complete(p, Both(p, "TURN_SWITCH")
                    \o To(other_player_ind(p), <<"SERVER_MOVE_REQUEST">>), FALSE)
  <2>1. PICK s : s = Both(p, "TURN_SWITCH") \o To(other_player_ind(p), <<"SERVER_MOVE_REQUEST">>)
    OBVIOUS
  <2>2. /\ Len(s) = 3 /\ s[1] = <<p, "TURN_SWITCH">> /\ s[2] = <<other_player_ind(p), "TURN_SWITCH">>
        /\ s[3] = <<other_player_ind(p), "SERVER_MOVE_REQUEST">>
    BY <2>1, TurnPosts
  <2>3. ASSUME NEW k \in 1 .. Len(s) PROVE k = 1 \/ k = 2 \/ k = 3
    BY <2>2
  <2>4. Complete(p, s, FALSE)
    BY <1>0, <2>2, <2>3 DEF Complete, Reach
  <2>5. QED BY <2>1, <2>4
<1>4. "GAME_ENDED" \in ServerMessages /\ "SERVER_MAIN_MENU" \in ServerMessages
  BY DEF ServerMessages, MenuMessages, GameMessages
<1>5. QED BY <1>1, <1>2, <1>3, <1>4

ThreadStep(c) == Receive(c) \/ HandleVersus(c) \/ HandleMove(c)

(* A thread decides what to post only when it has posted all it had to.    *)
Decides(c, q) ==
  /\ todo[c] = <<>> /\ todo' = [todo EXCEPT ![c] = q]
  /\ recv_pc[c] # "off" /\ recv_pc'[c] # "off"
  /\ recv_pc'[c] \notin {"recv", "ended"} => c \in Players
  /\ recv_pc'[c] \in {"check", "wait", "load", "store", "judge"} => q = <<>>
  /\ Complete(c, q, recv_pc'[c] = "reset")

LEMMA ThreadFrame ==
  ASSUME TypeOK, NEW c \in Clients, ThreadStep(c)
  PROVE  /\ UNCHANGED <<gp_massage_to_send_hade, to_client, client, send_pc>>
         /\ \A d \in Clients : d # c => recv_pc'[d] = recv_pc[d] /\ to_server'[d] = to_server[d]
         /\ to_server'[c] = to_server[c] \/ (to_server[c] # <<>> /\ to_server'[c] = Tail(to_server[c]))
<1>1. UNCHANGED <<gp_massage_to_send_hade, to_client, client, send_pc>>
  BY DEF ThreadStep, HandleVersus, HandleMove, Receive, CheckOpponent, WaitTimesOut, LoadTurn,
         StoreTurn, Judge, NextTurnOrEnd, ResetGame, users
<1>2. UNCHANGED recv_pc \/ \E q : recv_pc' = [recv_pc EXCEPT ![c] = q]
  BY DEF ThreadStep, HandleVersus, HandleMove, Receive, ReceiveRequest, ReceiveVersus, ReceiveMove,
         ReceiveDisconnect, ReceiveEnd, CheckOpponent, WaitTimesOut, LoadTurn,
         StoreTurn, Judge, NextTurnOrEnd, ResetGame, server
<1>3. UNCHANGED to_server
      \/ (to_server[c] # <<>> /\ to_server' = [to_server EXCEPT ![c] = Tail(to_server[c])])
  BY DEF ThreadStep, HandleVersus, HandleMove, Receive, CheckOpponent, WaitTimesOut, LoadTurn,
         StoreTurn, Judge, NextTurnOrEnd, ResetGame
<1>4. QED BY <1>1, <1>2, <1>3 DEF TypeOK

LEMMA ThreadDecides ==
  ASSUME TypeOK, Stages, OneDenial, NEW c \in Clients, ThreadStep(c)
  PROVE  \E q \in Seq(Posts) : Decides(c, q)
<1>0. <<>> \in Seq(Posts) /\ recv_pc \in [Clients -> {"off", "recv", "check", "wait", "ended"} \cup Playing]
      /\ todo \in [Clients -> Seq(Posts)]
  BY DEF TypeOK, Posts
<1>1. ASSUME todo[c] = <<>>, UNCHANGED todo, recv_pc[c] # "off", recv_pc'[c] # "off",
             recv_pc'[c] \notin {"recv", "ended"} => c \in Players
      PROVE  \E q \in Seq(Posts) : Decides(c, q)
  <2>1. todo' = [todo EXCEPT ![c] = <<>>]
    BY <1>0, <1>1
  <2>2. Complete(c, <<>>, recv_pc'[c] = "reset")
    BY CompleteNothing
  <2>3. QED BY <1>0, <1>1, <2>1, <2>2 DEF Decides
<1>2. CASE Receive(c)
  <2>1. recv_pc[c] = "recv" /\ todo[c] = <<>> /\ to_server[c] # <<>>
    BY <1>2 DEF Receive
  <2>2. CASE ReceiveRequest(c)
    <3>1. recv_pc'[c] = "recv"
      BY <2>1, <2>2 DEF ReceiveRequest
    <3>2. PICK q : todo' = [todo EXCEPT ![c] = q]
                   /\ q = To(c, IF denied(c) THEN <<"SERVER_DENIED">>
                                ELSE <<"SERVER_APPROVED", "SERVER_MAIN_MENU">>)
      BY <2>2 DEF ReceiveRequest
    <3>3. c = Third <=> denied(c)
      BY DEF denied, Third
    <3>4. c = Third \/ c \in Players
      BY ClientFacts
    <3>5. q \in Seq(Posts)
      BY <3>2, OnePost, TwoPosts DEF ServerMessages, MenuMessages, Answers
    <3>6. Complete(c, q, FALSE)
      BY <3>2, <3>3, <3>4, CompleteAnswer
    <3>7. Complete(c, q, recv_pc'[c] = "reset")
      BY <3>1, <3>6
    <3>8. QED BY <2>1, <3>1, <3>2, <3>5, <3>7 DEF Decides
  <2>3. CASE ReceiveVersus(c) \/ ReceiveMove(c)
    <3>1. UNCHANGED todo /\ recv_pc'[c] \in {"check", "load"}
      BY <2>3, <1>0 DEF ReceiveVersus, ReceiveMove
    <3>2. c # Third
      <4>1. to_server[c][1] = Head(to_server[c]) /\ 1 \in 1 .. Len(to_server[c])
        BY <2>1, TailFacts DEF TypeOK
      <4>2. QED BY <4>1, <2>3 DEF OneDenial, ReceiveVersus, ReceiveMove
    <3>3. c \in Players
      BY <3>2, ClientFacts
    <3>4. QED BY <2>1, <3>1, <3>3, <1>1
  <2>4. CASE ReceiveDisconnect(c) \/ ReceiveEnd(c)
    <3>1. UNCHANGED todo /\ recv_pc'[c] \in {"recv", "ended"}
      BY <2>1, <2>4, <1>0 DEF ReceiveDisconnect, ReceiveEnd, server
    <3>2. QED BY <2>1, <3>1, <1>1
  <2>5. QED BY <1>2, <2>2, <2>3, <2>4 DEF Receive
<1>3. CASE HandleVersus(c)
  <2>1. c \in Players /\ todo[c] = <<>> /\ recv_pc[c] \in {"check", "wait"}
    BY <1>3 DEF HandleVersus, CheckOpponent, WaitTimesOut, Stages
  <2>2. CASE UNCHANGED todo
    <3>1. recv_pc'[c] # "off"
      BY <1>0, <1>3, <2>1 DEF HandleVersus, CheckOpponent, WaitTimesOut
    <3>2. QED BY <2>1, <2>2, <3>1, <1>1
  <2>3. CASE todo' # todo
    <3>1. PICK q : /\ todo' = [todo EXCEPT ![c] = q] /\ q \in {game_start(c), To(c, no_opponents)}
                   /\ recv_pc' = [recv_pc EXCEPT ![c] = "recv"]
      BY <1>3, <2>3 DEF HandleVersus, CheckOpponent, WaitTimesOut
    <3>2. q \in Seq(Posts)
      <4>1. To(c, no_opponents) \in Seq(Posts)
        BY TwoPosts DEF no_opponents, ServerMessages, MenuMessages
      <4>2. QED BY <2>1, <3>1, <4>1, StartPosts
    <3>3. Complete(c, q, FALSE)
      BY <2>1, <3>1, CompleteStart, CompleteAnswer
    <3>4. recv_pc'[c] = "recv"
      BY <1>0, <3>1
    <3>5. Complete(c, q, recv_pc'[c] = "reset")
      BY <3>3, <3>4
    <3>6. QED BY <2>1, <3>1, <3>2, <3>4, <3>5 DEF Decides
  <2>4. QED BY <2>2, <2>3
<1>4. CASE HandleMove(c)
  <2>1. c \in Players /\ todo[c] = <<>> /\ recv_pc[c] # "off"
    BY <1>4 DEF HandleMove, LoadTurn, StoreTurn, Judge, NextTurnOrEnd, ResetGame, Stages
  <2>2. CASE LoadTurn(c) \/ StoreTurn(c)
    <3>1. UNCHANGED todo /\ recv_pc'[c] # "off"
      BY <1>0, <2>2 DEF LoadTurn, StoreTurn
    <3>2. QED BY <2>1, <3>1, <1>1
  <2>3. ASSUME NEW q \in Seq(Posts), todo' = [todo EXCEPT ![c] = q],
               NEW pc \in {"recv", "view", "reset"}, recv_pc' = [recv_pc EXCEPT ![c] = pc],
               Complete(c, q, pc = "reset")
        PROVE  \E r \in Seq(Posts) : Decides(c, r)
    <3>1. recv_pc'[c] = pc
      BY <1>0, <2>3
    <3>2. QED BY <2>1, <2>3, <3>1 DEF Decides
  <2>4. other_player_ind(c) \in Clients
    BY <2>1, ClientFacts
  <2>5. CASE Judge(c)
    <3>1. PICK q : q = To(other_player_ind(c), <<"GAME_VIEW">>)
      OBVIOUS
    <3>2. q \in Seq(Posts) /\ Complete(c, q, FALSE)
      BY <2>1, <2>4, <3>1, OnePost, CompleteMove DEF ServerMessages, GameMessages
    <3>3. todo' = [todo EXCEPT ![c] = q] /\ recv_pc' = [recv_pc EXCEPT ![c] = "view"]
      BY <2>5, <3>1 DEF Judge
    <3>4. Complete(c, q, "view" = "reset")
      BY <3>2
    <3>5. QED BY <2>3, <3>2, <3>3, <3>4
  <2>6. CASE NextTurnOrEnd(c)
    <3>1. CASE todo' = [todo EXCEPT ![c] = Both(c, "GAME_ENDED")]
               /\ recv_pc' = [recv_pc EXCEPT ![c] = "reset"]
      <4>1. Both(c, "GAME_ENDED") \in Seq(Posts) /\ Complete(c, Both(c, "GAME_ENDED"), TRUE)
        BY <2>1, PostsToBoth, CompleteMove DEF ServerMessages, GameMessages
      <4>2. Complete(c, Both(c, "GAME_ENDED"), "reset" = "reset")
        BY <4>1
      <4>3. QED BY <2>3, <3>1, <4>1, <4>2
    <3>2. CASE /\ todo' = [todo EXCEPT ![c] =
                   Both(c, "TURN_SWITCH") \o To(other_player_ind(c), <<"SERVER_MOVE_REQUEST">>)]
               /\ recv_pc' = [recv_pc EXCEPT ![c] = "recv"]
      <4>1. PICK q : q = Both(c, "TURN_SWITCH") \o To(other_player_ind(c), <<"SERVER_MOVE_REQUEST">>)
        OBVIOUS
      <4>2. q \in Seq(Posts) /\ Complete(c, q, FALSE)
        BY <2>1, <4>1, TurnPosts, CompleteMove
      <4>3. Complete(c, q, "recv" = "reset")
        BY <4>2
      <4>4. QED BY <2>3, <3>2, <4>1, <4>2, <4>3
    <3>3. QED BY <2>6, <3>1, <3>2 DEF NextTurnOrEnd
  <2>7. CASE ResetGame(c)
    <3>1. Both(c, "SERVER_MAIN_MENU") \in Seq(Posts) /\ Complete(c, Both(c, "SERVER_MAIN_MENU"), FALSE)
      BY <2>1, PostsToBoth, CompleteMove DEF ServerMessages, MenuMessages
    <3>2. Complete(c, Both(c, "SERVER_MAIN_MENU"), "recv" = "reset")
      BY <3>1
    <3>3. QED BY <2>3, <2>7, <3>1, <3>2 DEF ResetGame
  <2>8. QED BY <1>4, <2>2, <2>5, <2>6, <2>7 DEF HandleMove
<1>5. QED BY <1>2, <1>3, <1>4 DEF ThreadStep

-----------------------------------------------------------------------------
(* Where everybody is. *)

(* What a client who asks finds first is the answer.                       *)
LEMMA AskedIsAnswered == TypeOK /\ Asking => AnsweredFirst
<1> SUFFICES ASSUME TypeOK, Asking, NEW c \in Clients, client[c] = "asking", to_client[c] # <<>>
             PROVE  Head(to_client[c]) \in Answers
  BY DEF AnsweredFirst, Answers
<1>1. Path(c) # <<>> /\ Head(Path(c)) = Head(to_client[c])
  BY PathFacts
<1>2. QED BY <1>1 DEF Asking

LEMMA ClientFrame ==
  ASSUME TypeOK, Stages, AnsweredFirst, NEW c \in Clients, ClientStep(c) \/ ClientBreaks(c)
  PROVE  /\ UNCHANGED <<server, gp_massage_to_send_hade, g_wait_for_client_event, send_pc>>
         /\ client[c] \notin {"out", "left"} /\ client'[c] \notin {"out", "asking"}
         /\ \A d \in Clients : d # c => /\ client'[d] = client[d] /\ to_server'[d] = to_server[d]
                                        /\ to_client'[d] = to_client[d] /\ Path(d)' = Path(d)
         /\ client'[c] = "left" => to_client'[c] = <<>> /\ Shrunk(Path(c)', Path(c))
         /\ client'[c] # "left" => /\ Path(c) # <<>> /\ to_client[c] # <<>>
                                   /\ Head(to_client[c]) = Head(Path(c))
                                   /\ Path(c)' = Tail(Path(c))
                                   /\ ReadMessage(c) \/ ChooseVersus(c) \/ MakeMove(c)
<1>1. UNCHANGED <<server, gp_massage_to_send_hade, g_wait_for_client_event, send_pc>>
  BY DEF ClientStep, ClientBreaks
<1>2. CASE ReadMessage(c) \/ ChooseVersus(c) \/ MakeMove(c)
  <2>1. to_client[c] # <<>> /\ Path(c) # <<>> /\ Head(to_client[c]) = Head(Path(c))
        /\ Path(c)' = Tail(Path(c)) /\ \A d \in Clients : d # c => Path(d)' = Path(d)
    BY <1>1, <1>2, ReadPaths
  <2>2. client[c] \notin {"out", "left"}
    BY <2>1 DEF Stages
  <2>3. \A d \in Clients : d # c => /\ to_server'[d] = to_server[d] /\ to_client'[d] = to_client[d]
    <3>1. to_client' = [to_client EXCEPT ![c] = Tail(@)]
      BY <1>2 DEF ReadMessage, ChooseVersus, MakeMove
    <3>2. UNCHANGED to_server \/ \E messages : to_server' = [to_server EXCEPT ![c] = @ \o messages]
      BY <1>2 DEF ReadMessage, ChooseVersus, MakeMove, Answer
    <3>3. QED BY <3>1, <3>2 DEF TypeOK
  <2>4. CASE ReadMessage(c)
    <3>1. Head(to_client[c]) \in ServerMessages
      BY <2>1, TailFacts DEF TypeOK
    <3>2. client' = [client EXCEPT ![c] = told(c, Head(to_client[c]))]
          /\ Head(to_client[c]) # "SERVER_DENIED"
      BY <2>4 DEF ReadMessage
    <3>3. client'[c] = told(c, Head(to_client[c])) /\ \A d \in Clients : d # c => client'[d] = client[d]
      BY <3>2 DEF TypeOK
    <3>4. told(c, Head(to_client[c])) \in {"game", "idle", client[c]}
      BY DEF told
    <3>5. client[c] = "asking" => Head(to_client[c]) = "SERVER_APPROVED"
      BY <2>1, <3>2 DEF AnsweredFirst
    <3>6. client[c] = "asking" => told(c, Head(to_client[c])) = "idle"
      BY <3>5 DEF told
    <3>7. QED BY <1>1, <2>1, <2>2, <2>3, <2>4, <3>3, <3>4, <3>6
  <2>5. CASE ChooseVersus(c)
    <3>1. client' = [client EXCEPT ![c] = "versus"]
      BY <2>5 DEF ChooseVersus
    <3>2. QED BY <1>1, <2>1, <2>2, <2>3, <2>5, <3>1 DEF TypeOK
  <2>6. CASE MakeMove(c)
    <3>1. client' = client /\ Head(to_client[c]) = "SERVER_MOVE_REQUEST"
      BY <2>6 DEF MakeMove
    <3>2. client[c] # "asking"
      BY <2>1, <3>1 DEF AnsweredFirst
    <3>3. QED BY <1>1, <2>1, <2>2, <2>3, <2>6, <3>1, <3>2
  <2>7. QED BY <1>2, <2>4, <2>5, <2>6
<1>3. CASE Quit(c) \/ TakeDenial(c) \/ BreakOff(c)
  <2>1. /\ client' = [client EXCEPT ![c] = "left"] /\ client[c] # "out"
        /\ Shrunk(Path(c)', Path(c)) /\ \A d \in Clients : d # c => Path(d)' = Path(d)
    BY <1>1, <1>3, LeavePaths
  <2>2. /\ to_client' = [to_client EXCEPT ![c] = <<>>]
        /\ \E messages : to_server' = [to_server EXCEPT ![c] = @ \o messages]
        /\ to_client[c] # <<>> \/ client[c] # "left"
    BY <1>3 DEF Quit, TakeDenial, BreakOff, Leave, Answer
  <2>3. client[c] # "left"
    BY <2>2 DEF Stages
  <2>4. to_client'[c] = <<>> /\ client'[c] = "left"
        /\ \A d \in Clients : d # c => /\ client'[d] = client[d] /\ to_server'[d] = to_server[d]
                                       /\ to_client'[d] = to_client[d]
    BY <2>1, <2>2 DEF TypeOK
  <2>5. QED BY <1>1, <2>1, <2>3, <2>4
<1>4. QED BY <1>2, <1>3 DEF ClientStep, ClientBreaks

LEMMA PostReaches ==
  ASSUME TypeOK, Stages, Complete_todo, NoGameYet, NEW c \in Clients, todo[c] # <<>>,
         NEW to \in Clients, NEW m, Head(todo[c]) = <<to, m>>
  PROVE  /\ to # c => BothAnswered /\ to \in Players
         /\ client[to] # "out" /\ to \in Reach(c)
<1>0. todo[c] \in Seq(Posts)
  BY DEF TypeOK, Posts
<1>1. todo[c][1] = <<to, m>> /\ 1 \in 1 .. Len(todo[c])
  BY <1>0, TailFacts
<1>2. client[c] # "out"
  BY DEF Stages
<1>3. to \in Reach(c)
  <2>1. Complete(c, todo[c], recv_pc[c] = "reset")
    BY DEF Complete_todo
  <2>2. todo[c][1][1] \in Reach(c)
    BY <1>1, <2>1 DEF Complete
  <2>3. QED BY <1>1, <2>2
<1>4. to # c => BothAnswered
  BY <1>1 DEF NoGameYet
<1>5. to # c => to \in Players
  BY <1>3 DEF Reach
<1>6. QED BY <1>2, <1>3, <1>4, <1>5 DEF BothAnswered, Answered

LEMMA AcceptStages ==
  ASSUME TypeOK, Stages, Complete_todo, NEW c \in Clients, Accept(c)
  PROVE  Stages' /\ Complete_todo'
<1>1. /\ recv_pc[c] = "off" /\ recv_pc'[c] = "recv" /\ send_pc'[c] = "ready" /\ client'[c] = "asking"
      /\ \A d \in Clients : d # c => /\ recv_pc'[d] = recv_pc[d] /\ send_pc'[d] = send_pc[d]
                                     /\ client'[d] = client[d] /\ to_server'[d] = to_server[d]
      /\ UNCHANGED <<todo, gp_massage_to_send_hade, to_client>>
  BY DEF Accept, TypeOK
<1>2. \A d \in Clients : Path(d)' = Path(d)
  BY <1>1, PathsStay
<1>3. Stages'
  BY <1>1, <1>2 DEF Stages
<1>4. Complete_todo'
  <2> USE DEF Complete_todo
  <2>1. TAKE d \in Clients
  <2>2. todo'[d] = todo[d] /\ (recv_pc'[d] = "reset") = (recv_pc[d] = "reset")
    BY <1>1
  <2>3. Complete(d, todo[d], recv_pc[d] = "reset")
    BY DEF Complete_todo
  <2>4. QED BY <2>2, <2>3
<1>5. QED BY <1>3, <1>4

LEMMA ThreadStages ==
  ASSUME TypeOK, Stages, Complete_todo, OneDenial, NEW c \in Clients, ThreadStep(c)
  PROVE  Stages' /\ Complete_todo'
<1>1. PICK q \in Seq(Posts) : Decides(c, q)
  BY ThreadDecides
<1>2. UNCHANGED <<gp_massage_to_send_hade, to_client, client, send_pc>>
      /\ \A d \in Clients : d # c => recv_pc'[d] = recv_pc[d] /\ to_server'[d] = to_server[d]
  BY ThreadFrame
<1>3. todo'[c] = q /\ \A d \in Clients : d # c => todo'[d] = todo[d]
  BY <1>1 DEF Decides, TypeOK
<1>4. \A d \in Clients : Path(d)' = Path(d)
  BY <1>2, PathsStay
<1>5. client[c] # "out"
  BY <1>1 DEF Decides, Stages
<1>6. Stages'
  BY <1>1, <1>2, <1>3, <1>4, <1>5 DEF Decides, Stages
<1>7. ASSUME NEW d \in Clients PROVE Complete(d, todo'[d], recv_pc'[d] = "reset")
  BY <1>1, <1>2, <1>3 DEF Decides, Complete_todo
<1>8. Complete_todo'
  BY <1>7 DEF Complete_todo, Complete
<1>9. QED BY <1>6, <1>8

LEMMA PostStages ==
  ASSUME TypeOK, Stages, Complete_todo, NoGameYet, NEW c \in Clients, Post(c)
  PROVE  Stages' /\ Complete_todo'
<1>1. PICK to \in Clients, m \in ServerMessages :
        /\ todo[c] \in Seq(Posts) /\ todo[c] # <<>> /\ Head(todo[c]) = <<to, m>>
        /\ todo' = [todo EXCEPT ![c] = Tail(todo[c])]
        /\ \A d \in Clients : d # to => Path(d)' = Path(d)
  BY PostPaths
<1>2. UNCHANGED <<to_client, client, send_pc, recv_pc, to_server>>
  BY DEF Post, users
<1>3. todo'[c] = Tail(todo[c]) /\ \A d \in Clients : d # c => todo'[d] = todo[d]
  BY <1>1 DEF TypeOK
<1>4. client[to] # "out" /\ client[c] # "out"
  BY <1>1, PostReaches DEF Stages
<1>5. recv_pc[c] \notin {"check", "wait", "load", "store", "judge"}
  BY <1>1 DEF Stages
<1>6. Stages'
  BY <1>1, <1>2, <1>3, <1>4, <1>5 DEF Stages
<1>7. Complete(c, todo[c], recv_pc[c] = "reset")
  BY DEF Complete_todo
<1>8. Complete(c, Tail(todo[c]), recv_pc[c] = "reset")
  BY <1>1, <1>7, CompleteTail
<1>9. ASSUME NEW d \in Clients PROVE Complete(d, todo'[d], recv_pc'[d] = "reset")
  BY <1>2, <1>3, <1>8 DEF Complete_todo
<1>10. Complete_todo'
  BY <1>9 DEF Complete_todo, Complete
<1>11. QED BY <1>6, <1>10

LEMMA SendStages ==
  ASSUME TypeOK, Stages, Complete_todo, NEW c \in Clients, SendStep(c)
  PROVE  Stages' /\ Complete_todo'
<1>1. UNCHANGED <<todo, recv_pc, client, to_server>>
  BY DEF SendStep, SendMessage, SendFails, StopWaiting, server, users
<1>2. \A d \in Clients : send_pc'[d] = "gone" => client[d] = "left"
  BY DEF SendStep, SendMessage, SendFails, StopWaiting, Stages, TypeOK
<1>3. \A d \in Clients : client[d] = "left" => to_client'[d] = <<>>
  BY DEF SendStep, SendMessage, SendFails, StopWaiting, Stages, TypeOK, users
<1>4. \A d \in Clients : client[d] = "out" => Path(d)' = Path(d)
  BY SendPaths
<1>5. Stages'
  BY <1>1, <1>2, <1>3, <1>4 DEF Stages
<1>6. Complete_todo'
  BY <1>1 DEF Complete_todo, Complete
<1>7. QED BY <1>5, <1>6

LEMMA ClientStages ==
  ASSUME TypeOK, Stages, Complete_todo, AnsweredFirst, NEW c \in Clients, ClientStep(c) \/ ClientBreaks(c)
  PROVE  Stages' /\ Complete_todo'
<1>1. UNCHANGED <<todo, recv_pc, send_pc>>
  BY ClientFrame DEF server
<1>2. client[c] \notin {"out", "left"} /\ client'[c] # "out"
      /\ (client'[c] = "left" => to_client'[c] = <<>>)
      /\ \A d \in Clients : d # c => /\ client'[d] = client[d] /\ to_server'[d] = to_server[d]
                                     /\ to_client'[d] = to_client[d] /\ Path(d)' = Path(d)
  BY ClientFrame
<1>3. Stages'
  BY <1>1, <1>2 DEF Stages
<1>4. Complete_todo'
  BY <1>1 DEF Complete_todo, Complete
<1>5. QED BY <1>3, <1>4

LEMMA NextStages ==
  TypeOK /\ Stages /\ Complete_todo /\ NoGameYet /\ Asking /\ OneDenial /\ [Next]_vars
    => Stages' /\ Complete_todo'
<1> SUFFICES ASSUME TypeOK, Stages, Complete_todo, NoGameYet, Asking, OneDenial, [Next]_vars
             PROVE  Stages' /\ Complete_todo'
  OBVIOUS
<1>1. CASE UNCHANGED vars
  BY <1>1 DEF vars, server, users, Stages, Path, Complete_todo, Complete
<1>2. QED BY <1>1, AcceptStages, ThreadStages, PostStages, SendStages, ClientStages,
             AskedIsAnswered DEF Next, RecvStep, ThreadStep

-----------------------------------------------------------------------------
(* Messages that are on their way stay on their way. *)

LEMMA ThreadComes ==
  ASSUME TypeOK, NEW c \in Clients, NEW q \in Seq(Posts), todo[c] = <<>>,
         todo' = [todo EXCEPT ![c] = q], \A d \in Clients : Path(d)' = Path(d),
         NEW p \in Clients, NEW m
  PROVE  /\ \A i \in Nat : Comes(p, i, m) => Comes(p, i, m)'
         /\ \A k \in 1 .. Len(q) : q[k] = <<p, m>> => InTodo(p, m)'
<1>1. todo'[c] = q /\ \A d \in Clients : d # c => todo'[d] = todo[d]
  BY DEF TypeOK
<1>2. InTodo(p, m) => InTodo(p, m)'
  <2>1. ASSUME NEW d \in Clients, NEW k \in 1 .. Len(todo[d]), todo[d][k] = <<p, m>>
        PROVE  InTodo(p, m)'
    <3>1. d # c
      OBVIOUS
    <3>2. todo'[d] = todo[d]
      BY <1>1, <3>1
    <3>3. k \in 1 .. Len(todo'[d]) /\ todo'[d][k] = <<p, m>>
      BY <2>1, <3>2
    <3>4. QED BY <3>3 DEF InTodo
  <2>2. QED BY <2>1 DEF InTodo
<1>3. Path(p)' = Path(p)
  OBVIOUS
<1>4. \A i \in Nat : Comes(p, i, m) => Comes(p, i, m)'
  BY <1>2, <1>3 DEF Comes
<1>5. ASSUME NEW k \in 1 .. Len(q), q[k] = <<p, m>> PROVE InTodo(p, m)'
  BY <1>1, <1>5 DEF InTodo
<1>6. QED BY <1>4, <1>5

LEMMA PostComes ==
  ASSUME TypeOK, Stages, NEW c \in Clients, Post(c),
         NEW p \in Clients, client[p] # "left", NEW i \in Nat, i <= Len(Path(p)), NEW m,
         Comes(p, i, m)
  PROVE  Comes(p, i, m)'
<1>1. PICK to \in Clients, x \in ServerMessages :
        /\ todo[c] \in Seq(Posts) /\ todo[c] # <<>> /\ Head(todo[c]) = <<to, x>>
        /\ todo' = [todo EXCEPT ![c] = Tail(todo[c])]
        /\ \A d \in Clients : d # to => Path(d)' = Path(d)
        /\ \/ Path(to)' = Append(Path(to), x)
           \/ client[to] = "left" /\ Path(to)' = Path(to)
  BY PostPaths
<1>2. Path(p)' = Path(p) \/ Path(p)' = Append(Path(p), x)
  BY <1>1
<1>3. PICK s : s = Path(p)
  OBVIOUS
<1>4. s \in Seq(ServerMessages)
  BY <1>3, PathFacts
<1>5. CASE Follows(Path(p), i, m)
  <2>1. Follows(s, i, m) /\ Follows(Append(s, x), i, m)
    BY <1>3, <1>4, <1>5, FollowsAppend
  <2>2. Follows(Path(p)', i, m)
    BY <1>2, <1>3, <2>1
  <2>3. QED BY <2>2 DEF Comes
<1>6. CASE InTodo(p, m)
  <2>0. PICK d \in Clients : \E j \in 1 .. Len(todo[d]) : todo[d][j] = <<p, m>>
    BY <1>6 DEF InTodo
  <2>1. PICK k \in 1 .. Len(todo[d]) : todo[d][k] = <<p, m>>
    BY <2>0
  <2>2. todo'[c] = Tail(todo[c]) /\ \A e \in Clients : e # c => todo'[e] = todo[e]
    BY <1>1 DEF TypeOK
  <2>3. CASE d # c
    <3>1. todo'[d] = todo[d]
      BY <2>2, <2>3
    <3>2. k \in 1 .. Len(todo'[d]) /\ todo'[d][k] = <<p, m>>
      BY <2>1, <3>1
    <3>3. QED BY <3>2 DEF Comes, InTodo
  <2>4. CASE d = c
    <3>1. Len(Tail(todo[c])) = Len(todo[c]) - 1 /\ Head(todo[c]) = todo[c][1]
          /\ Len(todo[c]) \in Nat /\ \A j \in 1 .. Len(todo[c]) - 1 : Tail(todo[c])[j] = todo[c][j + 1]
      BY <1>1, TailFacts
    <3>2. CASE k = 1
      <4>1. to = p /\ x = m
        BY <1>1, <2>1, <2>4, <3>1, <3>2
      <4>2. Path(p)' = Append(s, x) /\ i <= Len(s)
        BY <1>1, <1>3, <4>1
      <4>3. Follows(Append(s, x), i, m)
        BY <1>4, <4>1, <4>2, FollowsAppend
      <4>4. QED BY <4>2, <4>3 DEF Comes
    <3>3. CASE k > 1
      <4>1. k - 1 \in 1 .. Len(todo[c]) - 1 /\ k - 1 + 1 = k /\ k - 1 \in 1 .. Len(Tail(todo[c]))
        BY <2>1, <2>4, <3>1, <3>3
      <4>2. Tail(todo[c])[k - 1] = <<p, m>>
        BY <2>1, <2>4, <3>1, <4>1
      <4>3. k - 1 \in 1 .. Len(todo'[c]) /\ todo'[c][k - 1] = <<p, m>>
        BY <2>2, <4>1, <4>2
      <4>4. QED BY <4>3 DEF Comes, InTodo
    <3>4. QED BY <3>2, <3>3
  <2>5. QED BY <2>3, <2>4
<1>7. QED BY <1>5, <1>6 DEF Comes

(* What the posting thread has still to post after the first message.      *)
LEMMA RestComes ==
  ASSUME TypeOK, NEW c \in Clients, todo[c] # <<>>, todo' = [todo EXCEPT ![c] = Tail(todo[c])],
         NEW p \in Clients, NEW m, Follows(todo[c], 1, <<p, m>>)
  PROVE  InTodo(p, m)'
<1>1. todo'[c] = Tail(todo[c]) /\ todo[c] \in Seq(Posts)
  BY DEF TypeOK, Posts
<1>2. 0 \in Nat /\ 0 + 1 = 1
  OBVIOUS
<1>3. Follows(Tail(todo[c]), 0, <<p, m>>)
  BY <1>1, <1>2, FollowsTail
<1>4. PICK k \in 1 .. Len(todo'[c]) : todo'[c][k] = <<p, m>>
  BY <1>1, <1>3 DEF Follows
<1>5. QED BY <1>4 DEF InTodo

LEMMA SendComes ==
  ASSUME TypeOK, NEW c \in Clients, SendStep(c), NEW p \in Clients, client[p] # "left"
  PROVE  Path(p)' = Path(p) /\ \A i \in Nat : \A m : Comes(p, i, m)' <=> Comes(p, i, m)
<1>1. Path(p)' = Path(p)
  BY SendPaths
<1>2. UNCHANGED todo
  BY DEF SendStep, SendMessage, SendFails, StopWaiting, server
<1>3. QED BY <1>1, <1>2 DEF Comes, InTodo

LEMMA ReadComes ==
  ASSUME TypeOK, Stages, AnsweredFirst, NEW c \in Clients, ClientStep(c) \/ ClientBreaks(c),
         NEW p \in Clients, client'[p] # "left", NEW i \in Nat, NEW m
  PROVE  /\ p # c => Path(p)' = Path(p) /\ (Comes(p, i, m)' <=> Comes(p, i, m))
         /\ p = c => /\ Comes(p, i + 1, m) => Comes(p, i, m)'
                     /\ Comes(p, 0, m) /\ Head(to_client[p]) # m => Comes(p, 0, m)'
<1>1. UNCHANGED todo
  BY ClientFrame DEF server
<1>2. InTodo(p, m)' <=> InTodo(p, m)
  BY <1>1 DEF InTodo
<1>3. CASE p # c
  <2>1. Path(p)' = Path(p)
    BY <1>3, ClientFrame
  <2>2. QED BY <1>2, <1>3, <2>1 DEF Comes
<1>4. CASE p = c
  <2>1. Path(p) # <<>> /\ Head(to_client[p]) = Head(Path(p)) /\ Path(p)' = Tail(Path(p))
    BY <1>4, ClientFrame
  <2>2. PICK s : s = Path(p)
    OBVIOUS
  <2>3. s \in Seq(ServerMessages) /\ s # <<>>
    BY <2>1, <2>2, PathFacts
  <2>4. Follows(s, i + 1, m) => Follows(Tail(s), i, m)
    BY <2>3, FollowsTail
  <2>5. Follows(s, 0, m) /\ Head(s) # m => Follows(Tail(s), 0, m)
    <3>1. 0 \in Nat /\ (IF 0 > 0 THEN 0 - 1 ELSE 0) = 0
      OBVIOUS
    <3>2. Follows(s, 0, m) /\ (0 > 0 \/ Head(s) # m)
            => Follows(Tail(s), IF 0 > 0 THEN 0 - 1 ELSE 0, m)
      BY <2>3, <3>1, FollowsTail
    <3>3. QED BY <3>1, <3>2
  <2>6. QED BY <1>2, <1>4, <2>1, <2>2, <2>4, <2>5 DEF Comes
<1>5. QED BY <1>3, <1>4

-----------------------------------------------------------------------------
(* Who has been answered stays so, and there is no game before both are.   *)

LEMMA AnsweredStays ==
  TypeOK /\ Stages /\ AnsweredFirst /\ [Next]_vars
    => \A p \in Players : Answered(p) => client'[p] \notin {"out", "asking"}
<1> SUFFICES ASSUME TypeOK, Stages, AnsweredFirst, [Next]_vars, NEW p \in Players, Answered(p)
             PROVE  client'[p] \notin {"out", "asking"}
  OBVIOUS
<1>0. p \in Clients
  BY ClientFacts
<1>1. ASSUME NEW c \in Clients, Accept(c) PROVE client'[p] = client[p]
  BY <1>0, <1>1 DEF Accept, Answered, Stages, TypeOK
<1>2. ASSUME NEW c \in Clients, ThreadStep(c) \/ Post(c) \/ SendStep(c)
      PROVE  client'[p] = client[p]
  BY <1>2, ThreadFrame DEF Post, SendStep, SendMessage, SendFails, StopWaiting, users
<1>3. ASSUME NEW c \in Clients, ClientStep(c) \/ ClientBreaks(c)
      PROVE  client'[p] \notin {"out", "asking"}
  BY <1>0, <1>3, ClientFrame DEF Answered
<1>4. CASE UNCHANGED vars
  BY <1>4 DEF vars, users, Answered
<1>5. QED BY <1>1, <1>2, <1>3, <1>4 DEF Next, RecvStep, ThreadStep, Answered

(* The two parts of NoGameYet.                                             *)
Wants(p) ==
  \/ g_player_vs_req[p]
  \/ recv_pc[p] \in {"check", "wait"}
  \/ \E i \in 1 .. Len(to_server[p]) : to_server[p][i] = <<"CLIENT_VERSUS">>
NoGameAt(c) ==
  /\ recv_pc[c] \notin Playing
  /\ \A k \in 1 .. Len(todo[c]) : todo[c][k][1] = c /\ todo[c][k][2] \in MenuMessages
  /\ \A i \in 1 .. Len(Path(c)) : Path(c)[i] \in MenuMessages
  /\ \A i \in 1 .. Len(to_server[c]) : to_server[c][i][1] # "CLIENT_PLAYER_MOVE"

LEMMA NoGameParts ==
  NoGameYet <=> /\ \A p \in Players : Wants(p) => Answered(p)
                /\ ~BothAnswered => \A c \in Clients : NoGameAt(c)
  BY DEF NoGameYet, Wants, NoGameAt

(* A thread of which the receiving takes the first message of the client.  *)
LEMMA FirstReceived ==
  ASSUME TypeOK, NEW c \in Clients, Receive(c)
  PROVE  /\ to_server[c] # <<>> /\ to_server[c][1] = Head(to_server[c]) /\ 1 \in 1 .. Len(to_server[c])
         /\ to_server'[c] = Tail(to_server[c])
         /\ Len(Tail(to_server[c])) = Len(to_server[c]) - 1 /\ Len(to_server[c]) \in Nat
         /\ \A i \in 1 .. Len(to_server[c]) - 1 : Tail(to_server[c])[i] = to_server[c][i + 1]
         /\ Head(to_server[c]) \in ClientMessages
<1>1. to_server[c] # <<>> /\ to_server' = [to_server EXCEPT ![c] = Tail(@)]
  BY DEF Receive
<1>2. to_server[c] \in Seq(ClientMessages)
  BY DEF TypeOK
<1>3. QED BY <1>1, <1>2, TailFacts DEF TypeOK

(* Which step of the thread it is.                                         *)
LEMMA ThreadWants ==
  ASSUME TypeOK, NoGameYet, NEW c \in Clients, ThreadStep(c), NEW p \in Players, Wants(p)'
  PROVE  Wants(p)
<1>0. p \in Clients
  BY ClientFacts
<1>1. \A d \in Clients : d # c => recv_pc'[d] = recv_pc[d] /\ to_server'[d] = to_server[d]
  BY ThreadFrame
<1>2. CASE Receive(c)
  <2>1. CASE ReceiveVersus(c)
    <3>1. Head(to_server[c])[1] = "CLIENT_VERSUS" /\ g_player_vs_req' = [g_player_vs_req EXCEPT ![c] = TRUE]
      BY <2>1 DEF ReceiveVersus
    <3>2. Head(to_server[c]) = <<"CLIENT_VERSUS">>
      BY <3>1, <1>2, FirstReceived DEF ClientMessages
    <3>3. p = c => Wants(p)
      BY <3>2, <1>2, FirstReceived DEF Wants
    <3>4. p # c => g_player_vs_req'[p] = g_player_vs_req[p]
      BY <3>1 DEF TypeOK
    <3>5. QED BY <3>3, <3>4, <1>0, <1>1 DEF Wants
  <2>2. CASE ~ReceiveVersus(c)
    <3>1. UNCHANGED g_player_vs_req /\ recv_pc'[c] \notin {"check", "wait"}
      BY <1>2, <2>2 DEF Receive, ReceiveRequest, ReceiveMove, ReceiveDisconnect, ReceiveEnd, server, TypeOK
    <3>2. ASSUME p = c, NEW i \in 1 .. Len(to_server'[p]), to_server'[p][i] = <<"CLIENT_VERSUS">>
          PROVE  i + 1 \in 1 .. Len(to_server[p]) /\ to_server[p][i + 1] = <<"CLIENT_VERSUS">>
      <4>1. to_server'[c] = Tail(to_server[c]) /\ Len(Tail(to_server[c])) = Len(to_server[c]) - 1
            /\ Len(to_server[c]) \in Nat
            /\ \A j \in 1 .. Len(to_server[c]) - 1 : Tail(to_server[c])[j] = to_server[c][j + 1]
        BY <1>2, FirstReceived
      <4>2. i \in 1 .. Len(to_server[c]) - 1 /\ i + 1 \in 1 .. Len(to_server[c])
        BY <3>2, <4>1
      <4>3. to_server'[c][i] = to_server[c][i + 1]
        BY <4>1, <4>2
      <4>4. QED BY <3>2, <4>2, <4>3
    <3>3. p = c => Wants(p)
      BY <3>1, <3>2 DEF Wants
    <3>4. QED BY <3>1, <3>3, <1>0, <1>1 DEF Wants
  <2>3. QED BY <2>1, <2>2
<1>3. CASE HandleVersus(c)
  <2>1. recv_pc[c] \in {"check", "wait"} /\ UNCHANGED to_server
        /\ (g_player_vs_req'[p] => g_player_vs_req[p])
    BY <1>3 DEF HandleVersus, CheckOpponent, WaitTimesOut, TypeOK
  <2>2. QED BY <2>1, <1>0, <1>1 DEF Wants
<1>4. CASE HandleMove(c)
  <2>1. recv_pc'[c] \notin {"check", "wait"} /\ UNCHANGED to_server
    BY <1>4 DEF HandleMove, LoadTurn, StoreTurn, Judge, NextTurnOrEnd, ResetGame, TypeOK
  <2>2. g_player_vs_req'[p] => g_player_vs_req[p]
    BY <1>4 DEF HandleMove, LoadTurn, StoreTurn, Judge, NextTurnOrEnd, ResetGame, reset_game
  <2>3. QED BY <2>1, <2>2, <1>0, <1>1 DEF Wants
<1>5. QED BY <1>2, <1>3, <1>4 DEF ThreadStep

LEMMA ThreadNoGame ==
  ASSUME TypeOK, Stages, NoGameYet, OneDenial, NEW c \in Clients, ThreadStep(c), ~BothAnswered,
         NEW d \in Clients
  PROVE  NoGameAt(d)'
<1>1. PICK q \in Seq(Posts) : Decides(c, q)
  BY ThreadDecides
<1>2. NoGameAt(c) /\ NoGameAt(d)
  BY NoGameParts
<1>3. UNCHANGED <<gp_massage_to_send_hade, to_client>>
      /\ (\A e \in Clients : e # c => recv_pc'[e] = recv_pc[e] /\ to_server'[e] = to_server[e])
      /\ (to_server'[c] = to_server[c] \/ (to_server[c] # <<>> /\ to_server'[c] = Tail(to_server[c])))
  BY ThreadFrame
<1>4. Path(d)' = Path(d)
  BY <1>3, PathsStay
<1>5. todo'[c] = q /\ \A e \in Clients : e # c => todo'[e] = todo[e]
  BY <1>1 DEF Decides, TypeOK
<1>6. CASE d # c
  BY <1>2, <1>3, <1>4, <1>5, <1>6 DEF NoGameAt
<1>7. \A i \in 1 .. Len(to_server'[c]) : to_server'[c][i][1] # "CLIENT_PLAYER_MOVE"
  <2>1. CASE to_server'[c] = to_server[c]
    BY <2>1, <1>2 DEF NoGameAt
  <2>2. CASE to_server[c] # <<>> /\ to_server'[c] = Tail(to_server[c])
    <3>1. Len(Tail(to_server[c])) = Len(to_server[c]) - 1 /\ Len(to_server[c]) \in Nat
          /\ \A i \in 1 .. Len(to_server[c]) - 1 : Tail(to_server[c])[i] = to_server[c][i + 1]
      BY <2>2, TailFacts DEF TypeOK
    <3>2. ASSUME NEW i \in 1 .. Len(to_server'[c])
          PROVE  i + 1 \in 1 .. Len(to_server[c]) /\ to_server'[c][i] = to_server[c][i + 1]
      BY <2>2, <3>1
    <3>3. QED BY <3>2, <1>2 DEF NoGameAt
  <2>3. QED BY <2>1, <2>2, <1>3
<1>8. recv_pc'[c] \notin Playing
      /\ \A k \in 1 .. Len(todo'[c]) : todo'[c][k][1] = c /\ todo'[c][k][2] \in MenuMessages
  <2>1. todo[c] = <<>>
    BY <1>1 DEF Decides
  <2>2. CASE UNCHANGED todo /\ recv_pc'[c] \notin Playing
    BY <2>1, <2>2
  <2>3. ASSUME NEW a \in MenuMessages, NEW b \in MenuMessages,
               q = To(c, <<a>>) \/ q = To(c, <<a, b>>)
        PROVE  \A k \in 1 .. Len(q) : q[k][1] = c /\ q[k][2] \in MenuMessages
    <3>0. a \in ServerMessages /\ b \in ServerMessages
      BY DEF ServerMessages
    <3>1. CASE q = To(c, <<a>>)
      BY <3>0, <3>1, OnePost
    <3>2. CASE q = To(c, <<a, b>>)
      <4>1. Len(q) = 2 /\ q[1] = <<c, a>> /\ q[2] = <<c, b>>
        BY <3>0, <3>2, TwoPosts
      <4>2. ASSUME NEW k \in 1 .. Len(q) PROVE k = 1 \/ k = 2
        BY <4>1
      <4>3. QED BY <4>1, <4>2
    <3>3. QED BY <2>3, <3>1, <3>2
  <2>4. "SERVER_DENIED" \in MenuMessages /\ "SERVER_APPROVED" \in MenuMessages
        /\ "SERVER_MAIN_MENU" \in MenuMessages /\ "SERVER_NO_OPPONENTS" \in MenuMessages
    BY DEF MenuMessages, Answers
  <2>5. CASE Receive(c)
    <3>1. Head(to_server[c])[1] # "CLIENT_PLAYER_MOVE"
      BY <2>5, <1>2, FirstReceived DEF NoGameAt
    <3>2. CASE ReceiveRequest(c)
      <4>1. todo'[c] = To(c, IF denied(c) THEN <<"SERVER_DENIED">>
                             ELSE <<"SERVER_APPROVED", "SERVER_MAIN_MENU">>)
            /\ recv_pc'[c] = recv_pc[c]
        BY <3>2 DEF ReceiveRequest, TypeOK
      <4>2. QED BY <4>1, <1>2, <1>5, <2>3, <2>4 DEF NoGameAt
    <3>3. CASE ReceiveVersus(c) \/ ReceiveDisconnect(c) \/ ReceiveEnd(c)
      <4>1. UNCHANGED todo /\ (UNCHANGED recv_pc \/ recv_pc'[c] \in {"check", "ended"})
        BY <3>3 DEF ReceiveVersus, ReceiveDisconnect, ReceiveEnd, server, TypeOK
      <4>2. recv_pc'[c] \notin Playing
        BY <4>1, <1>2 DEF NoGameAt, Playing
      <4>3. QED BY <2>2, <4>1, <4>2
    <3>4. QED BY <2>5, <3>1, <3>2, <3>3 DEF Receive, ReceiveMove
  <2>6. CASE HandleVersus(c)
    <3>1. c \in Players /\ recv_pc[c] \in {"check", "wait"}
      BY <2>6 DEF HandleVersus, CheckOpponent, WaitTimesOut
    <3>2. Answered(c)
      BY <3>1, NoGameParts DEF Wants
    <3>3. ~opponent_asked(c)
      <4>1. other_player_ind(c) \in Players /\ \A e \in Players : e = c \/ e = other_player_ind(c)
        BY <3>1, ClientFacts
      <4>2. opponent_asked(c) => Answered(other_player_ind(c))
        BY <4>1, NoGameParts DEF Wants, opponent_asked
      <4>3. ~Answered(other_player_ind(c))
        BY <3>2, <4>1 DEF BothAnswered
      <4>4. QED BY <4>2, <4>3
    <3>4. CASE CheckOpponent(c)
      <4>1. UNCHANGED todo /\ recv_pc'[c] = "wait"
        BY <3>3, <3>4 DEF CheckOpponent, TypeOK
      <4>2. QED BY <2>2, <4>1 DEF Playing
    <3>5. CASE WaitTimesOut(c)
      <4>1. todo'[c] = To(c, <<"SERVER_NO_OPPONENTS", "SERVER_MAIN_MENU">>) /\ recv_pc'[c] = "recv"
        BY <3>5 DEF WaitTimesOut, TypeOK, no_opponents
      <4>2. QED BY <4>1, <1>5, <2>3, <2>4 DEF Playing
    <3>6. QED BY <2>6, <3>4, <3>5 DEF HandleVersus
  <2>7. CASE HandleMove(c)
    <3>1. recv_pc[c] \in Playing
      BY <2>7 DEF HandleMove, LoadTurn, StoreTurn, Judge, NextTurnOrEnd, ResetGame, Playing
    <3>2. QED BY <3>1, <1>2 DEF NoGameAt
  <2>8. QED BY <2>5, <2>6, <2>7 DEF ThreadStep
<1>9. CASE d = c
  BY <1>2, <1>4, <1>7, <1>8, <1>9 DEF NoGameAt
<1>10. QED BY <1>6, <1>9

LEMMA AcceptNoGame ==
  ASSUME TypeOK, Stages, NoGameYet, NEW c \in Clients, Accept(c)
  PROVE  NoGameYet'
<1>1. /\ recv_pc[c] = "off" /\ recv_pc'[c] = "recv" /\ client'[c] = "asking"
      /\ to_server'[c] = << <<"CLIENT_REQUEST">> >>
      /\ \A d \in Clients : d # c => /\ recv_pc'[d] = recv_pc[d] /\ client'[d] = client[d]
                                     /\ to_server'[d] = to_server[d]
      /\ UNCHANGED <<todo, g_player_vs_req, gp_massage_to_send_hade, to_client>>
  BY DEF Accept, TypeOK
<1>2. client[c] = "out" /\ \A d \in Clients : Path(d)' = Path(d)
  BY <1>1, PathsStay DEF Stages
<1>3. \A i \in 1 .. Len(to_server'[c]) : to_server'[c][i] = <<"CLIENT_REQUEST">>
  BY <1>1
<1>4. ASSUME NEW p \in Players, Wants(p)' PROVE Answered(p)'
  <2>1. p \in Clients
    BY ClientFacts
  <2>2. CASE p = c
    <3>1. ~Answered(p)
      BY <1>2, <2>2 DEF Answered
    <3>2. ~g_player_vs_req[p]
      BY <3>1, NoGameParts DEF Wants
    <3>3. QED BY <1>1, <1>3, <1>4, <2>2, <3>2 DEF Wants
  <2>3. CASE p # c
    BY <1>1, <1>4, <2>1, <2>3, NoGameParts DEF Wants, Answered
  <2>4. QED BY <2>2, <2>3
<1>5. BothAnswered => BothAnswered'
  <2>1. ASSUME NEW p \in Players, Answered(p) PROVE Answered(p)'
    BY <1>1, <1>2, <2>1, ClientFacts DEF Answered
  <2>2. QED BY <2>1 DEF BothAnswered, Answered
<1>6. ASSUME NEW d \in Clients, NoGameAt(d) PROVE NoGameAt(d)'
  BY <1>1, <1>2, <1>3, <1>6 DEF NoGameAt, Playing
<1>7. QED BY <1>4, <1>5, <1>6, NoGameParts DEF NoGameYet, Wants, NoGameAt, BothAnswered, Answered

LEMMA PostNoGame ==
  ASSUME TypeOK, Stages, Complete_todo, NoGameYet, NEW c \in Clients, Post(c), ~BothAnswered,
         NEW d \in Clients
  PROVE  NoGameAt(d)'
<1>1. PICK to \in Clients, m \in ServerMessages :
        /\ todo[c] \in Seq(Posts) /\ todo[c] # <<>> /\ Head(todo[c]) = <<to, m>>
        /\ todo' = [todo EXCEPT ![c] = Tail(todo[c])]
        /\ \A e \in Clients : e # to => Path(e)' = Path(e)
        /\ \/ Path(to)' = Append(Path(to), m)
           \/ client[to] = "left" /\ Path(to)' = Path(to)
  BY PostPaths
<1>2. NoGameAt(c) /\ NoGameAt(d)
  BY NoGameParts
<1>3. UNCHANGED <<recv_pc, to_server>>
  BY DEF Post
<1>4. /\ Len(Tail(todo[c])) = Len(todo[c]) - 1 /\ Head(todo[c]) = todo[c][1]
      /\ Len(todo[c]) \in Nat /\ Len(todo[c]) > 0
      /\ \A j \in 1 .. Len(todo[c]) - 1 : Tail(todo[c])[j] = todo[c][j + 1]
  BY <1>1, TailFacts
<1>5. to = c /\ m \in MenuMessages
  BY <1>1, <1>2, <1>4 DEF NoGameAt
<1>6. \A k \in 1 .. Len(todo'[d]) : todo'[d][k][1] = d /\ todo'[d][k][2] \in MenuMessages
  <2>1. CASE d # c
    BY <1>1, <1>2, <2>1 DEF NoGameAt, TypeOK
  <2>2. CASE d = c
    <3>1. todo'[d] = Tail(todo[c])
      BY <1>1, <2>2 DEF TypeOK
    <3>2. ASSUME NEW k \in 1 .. Len(Tail(todo[c]))
          PROVE  k + 1 \in 1 .. Len(todo[c]) /\ Tail(todo[c])[k] = todo[c][k + 1]
      BY <1>4
    <3>3. QED BY <1>2, <2>2, <3>1, <3>2 DEF NoGameAt
  <2>3. QED BY <2>1, <2>2
<1>7. \A i \in 1 .. Len(Path(d)') : Path(d)'[i] \in MenuMessages
  <2>1. CASE Path(d)' = Path(d)
    BY <1>2, <2>1 DEF NoGameAt
  <2>2. CASE Path(d)' = Append(Path(d), m)
    <3>1. PICK s : s = Path(d)
      OBVIOUS
    <3>2. s \in Seq(ServerMessages) /\ \A i \in 1 .. Len(s) : s[i] \in MenuMessages
      BY <1>2, <3>1, PathFacts DEF NoGameAt
    <3>3. Len(Append(s, m)) = Len(s) + 1 /\ Append(s, m)[Len(s) + 1] = m
          /\ \A i \in 1 .. Len(s) : Append(s, m)[i] = s[i]
      BY <3>2, AppendFacts
    <3>4. ASSUME NEW i \in 1 .. Len(Append(s, m)) PROVE i \in 1 .. Len(s) \/ i = Len(s) + 1
      BY <3>2, <3>3
    <3>5. \A i \in 1 .. Len(Append(s, m)) : Append(s, m)[i] \in MenuMessages
      BY <1>5, <3>2, <3>3, <3>4
    <3>6. QED BY <2>2, <3>1, <3>5
  <2>3. QED BY <1>1, <2>1, <2>2
<1>8. QED BY <1>2, <1>3, <1>6, <1>7 DEF NoGameAt

LEMMA SendNoGame ==
  ASSUME TypeOK, NoGameYet, NEW c \in Clients, SendStep(c), ~BothAnswered, NEW d \in Clients
  PROVE  NoGameAt(d)'
<1>1. UNCHANGED <<recv_pc, todo, to_server>>
  BY DEF SendStep, SendMessage, SendFails, StopWaiting, server
<1>2. Path(d)' = Path(d) \/ Shrunk(Path(d)', Path(d))
  BY SendPaths
<1>3. NoGameAt(d)
  BY NoGameParts
<1>4. \A i \in 1 .. Len(Path(d)') : Path(d)'[i] \in MenuMessages
  BY <1>2, <1>3 DEF NoGameAt, Shrunk
<1>5. QED BY <1>1, <1>3, <1>4 DEF NoGameAt

(* What a client that stays says, and how it came to where it is.          *)
LEMMA ClientSays ==
  ASSUME TypeOK, Stages, AnsweredFirst, NEW c \in Clients, ClientStep(c) \/ ClientBreaks(c)
  PROVE  \E messages \in Seq(ClientMessages) :
           /\ to_server'[c] = to_server[c] \o messages
           /\ client'[c] = "left" =>
                \A i \in 1 .. Len(messages) :
                  messages[i] \in {<<"CLIENT_DISCONNECT">>, <<"FIN">>, <<"RST">>}
           /\ client'[c] # "left" =>
                \/ messages = <<>> /\ ReadMessage(c)
                \/ messages = << <<"CLIENT_VERSUS">> >> /\ ChooseVersus(c)
                \/ /\ MakeMove(c)
                   /\ \E move \in Int : messages = << <<"CLIENT_PLAYER_MOVE", move>> >>
<1>0. to_server[c] \in Seq(ClientMessages)
  BY DEF TypeOK
<1>1. CASE ReadMessage(c)
  <2>1. to_server'[c] = to_server[c] \o <<>>
    BY <1>0, <1>1, ConcatEmptySeq DEF ReadMessage
  <2>2. client'[c] # "left"
    <3>1. client[c] # "left"
      BY ClientFrame
    <3>2. client'[c] = told(c, Head(to_client[c]))
      BY <1>1 DEF ReadMessage, TypeOK
    <3>3. QED BY <3>1, <3>2 DEF told
  <2>3. <<>> \in Seq(ClientMessages)
    OBVIOUS
  <2>4. QED BY <1>1, <2>1, <2>2, <2>3
<1>2. CASE ChooseVersus(c)
  <2>1. to_server'[c] = to_server[c] \o << <<"CLIENT_VERSUS">> >> /\ client'[c] = "versus"
    BY <1>2 DEF ChooseVersus, Answer, TypeOK
  <2>2. QED BY <1>2, <2>1, Asked
<1>3. CASE MakeMove(c)
  <2>1. visit.moves \subseteq Int
    BY GameServerAssumption DEF GameServerAssumption, TypeOK
  <2>2. PICK move \in Int : to_server'[c] = to_server[c] \o << <<"CLIENT_PLAYER_MOVE", move>> >>
    BY <1>3, <2>1 DEF MakeMove, Answer, TypeOK
  <2>3. client'[c] # "left"
    BY <1>3, ClientFrame DEF MakeMove
  <2>4. QED BY <1>3, <2>2, <2>3, Asked
<1>4. CASE Quit(c) \/ TakeDenial(c) \/ BreakOff(c)
  <2>1. client'[c] = "left"
    BY <1>4 DEF Quit, TakeDenial, BreakOff, Leave, TypeOK
  <2>2. PICK messages \in { << <<"CLIENT_DISCONNECT">>, <<"FIN">> >>, << <<"FIN">> >>, << <<"RST">> >> } :
          to_server'[c] = to_server[c] \o messages
    BY <1>4 DEF Quit, TakeDenial, BreakOff, Leave, Answer, TypeOK
  <2>3. \A i \in 1 .. Len(messages) : messages[i] \in {<<"CLIENT_DISCONNECT">>, <<"FIN">>, <<"RST">>}
    <3>1. CASE messages = << <<"CLIENT_DISCONNECT">>, <<"FIN">> >>
      <4>1. ASSUME NEW i \in 1 .. Len(messages) PROVE i = 1 \/ i = 2
        BY <3>1
      <4>2. QED BY <3>1, <4>1
    <3>2. CASE messages = << <<"FIN">> >> \/ messages = << <<"RST">> >>
      BY <3>2
    <3>3. QED BY <3>1, <3>2
  <2>4. QED BY <2>1, <2>2, <2>3, Asked
<1>5. QED BY <1>1, <1>2, <1>3, <1>4 DEF ClientStep, ClientBreaks

LEMMA ClientNoGame ==
  ASSUME TypeOK, Stages, AnsweredFirst, NoGameYet, NEW c \in Clients,
         ClientStep(c) \/ ClientBreaks(c)
  PROVE  /\ \A p \in Players : Wants(p)' => Answered(p)'
         /\ ~BothAnswered => \A d \in Clients : NoGameAt(d)'
<1>0. UNCHANGED <<g_player_vs_req, recv_pc, todo>> /\ client'[c] \notin {"out", "asking"}
      /\ \A d \in Clients : d # c => /\ client'[d] = client[d] /\ to_server'[d] = to_server[d]
                                     /\ Path(d)' = Path(d)
  BY ClientFrame DEF server
<1>1. ASSUME NEW p \in Players, Wants(p)' PROVE Answered(p)'
  <2>1. p \in Clients
    BY ClientFacts
  <2>2. CASE p = c
    BY <1>0, <2>2 DEF Answered
  <2>3. CASE p # c
    BY <1>0, <1>1, <2>1, <2>3, NoGameParts DEF Wants, Answered
  <2>4. QED BY <2>2, <2>3
<1>2. ASSUME ~BothAnswered, NEW d \in Clients PROVE NoGameAt(d)'
  <2>1. NoGameAt(d)
    BY <1>2, NoGameParts
  <2>2. CASE d # c
    BY <1>0, <2>1, <2>2 DEF NoGameAt
  <2>3. CASE d = c
    <3>1. \A i \in 1 .. Len(Path(c)') : Path(c)'[i] \in MenuMessages
      <4>1. CASE client'[c] = "left"
        BY <2>1, <2>3, <4>1, ClientFrame DEF NoGameAt, Shrunk
      <4>2. CASE client'[c] # "left"
        <5>1. PICK s : s = Path(c)
          OBVIOUS
        <5>2. s \in Seq(ServerMessages) /\ s # <<>> /\ Path(c)' = Tail(s)
          BY <4>2, <5>1, ClientFrame, PathFacts
        <5>3. Shrunk(Tail(s), s)
          BY <5>2, ShrunkTail
        <5>4. QED BY <2>1, <2>3, <5>1, <5>2, <5>3 DEF NoGameAt, Shrunk
      <4>3. QED BY <4>1, <4>2
    <3>2. PICK messages \in Seq(ClientMessages) :
            /\ to_server'[c] = to_server[c] \o messages
            /\ client'[c] = "left" =>
                 \A i \in 1 .. Len(messages) :
                   messages[i] \in {<<"CLIENT_DISCONNECT">>, <<"FIN">>, <<"RST">>}
            /\ client'[c] # "left" =>
                 \/ messages = <<>> /\ ReadMessage(c)
                 \/ messages = << <<"CLIENT_VERSUS">> >> /\ ChooseVersus(c)
                 \/ MakeMove(c)
      BY ClientSays
    <3>3. ~MakeMove(c)
      <4>1. ASSUME MakeMove(c) PROVE FALSE
        <5>1. Head(to_client[c]) = "SERVER_MOVE_REQUEST" /\ to_client[c] # <<>>
          BY <4>1 DEF MakeMove
        <5>2. Path(c) # <<>> /\ Head(Path(c)) = "SERVER_MOVE_REQUEST" /\ Path(c) \in Seq(ServerMessages)
          BY <5>1, PathFacts
        <5>3. Path(c)[1] = "SERVER_MOVE_REQUEST" /\ 1 \in 1 .. Len(Path(c))
          BY <5>2, TailFacts
        <5>4. "SERVER_MOVE_REQUEST" \notin MenuMessages
          BY DEF MenuMessages, Answers
        <5>5. QED BY <2>1, <2>3, <5>3, <5>4 DEF NoGameAt
      <4>2. QED BY <4>1
    <3>4. \A i \in 1 .. Len(messages) : messages[i][1] # "CLIENT_PLAYER_MOVE"
      <4>1. CASE client'[c] = "left"
        BY <3>2, <4>1
      <4>2. CASE messages = <<>>
        BY <4>2
      <4>3. CASE messages = << <<"CLIENT_VERSUS">> >>
        BY <4>3
      <4>4. QED BY <3>2, <3>3, <4>1, <4>2, <4>3
    <3>5. PICK s : s = to_server[c]
      OBVIOUS
    <3>6. s \in Seq(ClientMessages) /\ \A i \in 1 .. Len(s) : s[i][1] # "CLIENT_PLAYER_MOVE"
      BY <2>1, <2>3, <3>5 DEF TypeOK, NoGameAt
    <3>7. \A i \in 1 .. Len(s \o messages) : (s \o messages)[i][1] # "CLIENT_PLAYER_MOVE"
      <4>1. Len(s \o messages) = Len(s) + Len(messages)
            /\ (\A i \in 1 .. Len(s) : (s \o messages)[i] = s[i])
            /\ \A i \in 1 .. Len(messages) : (s \o messages)[Len(s) + i] = messages[i]
        BY <3>6, ConcatFacts
      <4>2. ASSUME NEW i \in 1 .. Len(s \o messages)
            PROVE  i \in 1 .. Len(s) \/ \E j \in 1 .. Len(messages) : i = Len(s) + j
        <5>1. i \in 1 .. Len(s) \/ (i - Len(s) \in 1 .. Len(messages) /\ i = Len(s) + (i - Len(s)))
          BY <3>6, <4>1
        <5>2. QED BY <5>1
      <4>3. QED BY SMTT(30), <3>4, <3>6, <4>1, <4>2
    <3>8. QED BY <1>0, <2>1, <2>3, <3>1, <3>2, <3>5, <3>7 DEF NoGameAt
  <2>4. QED BY <2>2, <2>3
<1>3. QED BY <1>1, <1>2

LEMMA NextNoGame ==
  TypeOK /\ Stages /\ Complete_todo /\ NoGameYet /\ Asking /\ OneDenial /\ [Next]_vars => NoGameYet'
<1> SUFFICES ASSUME TypeOK, Stages, Complete_todo, NoGameYet, Asking, OneDenial, [Next]_vars
             PROVE  NoGameYet'
  OBVIOUS
<1>1. AnsweredFirst
  BY AskedIsAnswered
<1>2. \A p \in Players : Answered(p) => Answered(p)'
  BY <1>1, AnsweredStays DEF Answered
<1>3. BothAnswered => BothAnswered'
  BY <1>2 DEF BothAnswered
<1>4. ASSUME NEW c \in Clients, ThreadStep(c) \/ Post(c) \/ SendStep(c) \/ ClientStep(c) \/ ClientBreaks(c)
      PROVE  NoGameYet'
  <2>1. \A p \in Players : Wants(p)' => Answered(p)'
    <3>1. CASE ThreadStep(c)
      BY <3>1, <1>2, ThreadWants, NoGameParts
    <3>2. CASE Post(c) \/ SendStep(c)
      <4>1. UNCHANGED <<g_player_vs_req, recv_pc, to_server>>
        BY <3>2 DEF Post, SendStep, SendMessage, SendFails, StopWaiting, server
      <4>2. QED BY <4>1, <1>2, NoGameParts DEF Wants
    <3>3. CASE ClientStep(c) \/ ClientBreaks(c)
      BY <1>1, <3>3, ClientNoGame
    <3>4. QED BY <1>4, <3>1, <3>2, <3>3
  <2>2. ~BothAnswered => \A d \in Clients : NoGameAt(d)'
    BY <1>1, <1>4, ThreadNoGame, PostNoGame, SendNoGame, ClientNoGame
  <2>3. QED BY <1>3, <2>1, <2>2 DEF NoGameYet, Wants, NoGameAt
<1>5. CASE UNCHANGED vars
  BY <1>5 DEF vars, server, users, NoGameYet, BothAnswered, Answered, Path
<1>6. QED BY <1>4, <1>5, AcceptNoGame DEF Next, RecvStep, ThreadStep

-----------------------------------------------------------------------------
(* The request of a client who asks, and its answer. *)

LEMMA AcceptAsking ==
  ASSUME TypeOK, Stages, Asking, NEW c \in Clients, Accept(c)
  PROVE  Asking'
<1>1. /\ recv_pc[c] = "off" /\ recv_pc'[c] = "recv"
      /\ to_server'[c] = << <<"CLIENT_REQUEST">> >>
      /\ \A d \in Clients : d # c => /\ recv_pc'[d] = recv_pc[d] /\ client'[d] = client[d]
                                     /\ to_server'[d] = to_server[d]
      /\ UNCHANGED <<todo, gp_massage_to_send_hade, to_client>>
  BY DEF Accept, TypeOK
<1>2. todo[c] = <<>> /\ Path(c) = <<>> /\ \A d \in Clients : Path(d)' = Path(d)
  BY <1>1, PathsStay DEF Stages
<1>3. QED BY <1>1, <1>2 DEF Asking

LEMMA ThreadAsking ==
  ASSUME TypeOK, Stages, OneDenial, Asking, NEW c \in Clients, ThreadStep(c)
  PROVE  Asking'
<1>1. /\ UNCHANGED <<gp_massage_to_send_hade, to_client, client>>
      /\ \A d \in Clients : d # c => recv_pc'[d] = recv_pc[d] /\ to_server'[d] = to_server[d]
  BY ThreadFrame
<1>2. PICK q \in Seq(Posts) : Decides(c, q)
  BY ThreadDecides
<1>3. todo[c] = <<>> /\ todo'[c] = q /\ \A d \in Clients : d # c => todo'[d] = todo[d]
  BY <1>2 DEF Decides, TypeOK
<1>4. \A d \in Clients : Path(d)' = Path(d)
  BY <1>1, PathsStay
<1>5. ASSUME client[c] = "asking"
      PROVE  /\ recv_pc'[c] = "recv"
             /\ \/ to_server'[c] = <<>> /\ Path(c) = <<>> /\ todo'[c] # <<>>
                   /\ Head(todo'[c])[1] = c /\ Head(todo'[c])[2] \in Answers
                \/ to_server'[c] = <<>> /\ Path(c) # <<>> /\ Head(Path(c)) \in Answers
  <2>1. recv_pc[c] = "recv"
    BY <1>5 DEF Asking
  <2>2. Receive(c)
    BY <2>1 DEF ThreadStep, HandleVersus, HandleMove, CheckOpponent, WaitTimesOut, LoadTurn,
                StoreTurn, Judge, NextTurnOrEnd, ResetGame
  <2>3. to_server[c] # <<>>
    BY <2>2 DEF Receive
  <2>4. to_server[c] = << <<"CLIENT_REQUEST">> >> /\ Path(c) = <<>>
    BY <1>5, <2>3 DEF Asking
  <2>5. to_server'[c] = <<>> /\ Head(to_server[c])[1] = "CLIENT_REQUEST"
    BY <2>2, <2>4 DEF Receive, TypeOK
  <2>6. ReceiveRequest(c)
    BY <2>2, <2>5 DEF Receive, ReceiveVersus, ReceiveMove, ReceiveDisconnect, ReceiveEnd
  <2>7. recv_pc'[c] = "recv"
        /\ (todo'[c] = To(c, <<"SERVER_DENIED">>)
            \/ todo'[c] = To(c, <<"SERVER_APPROVED", "SERVER_MAIN_MENU">>))
    BY <2>1, <2>6 DEF ReceiveRequest, TypeOK
  <2>8. todo'[c] # <<>> /\ Head(todo'[c])[1] = c /\ Head(todo'[c])[2] \in Answers
    <3>0. "SERVER_DENIED" \in Answers /\ "SERVER_APPROVED" \in Answers
          /\ "SERVER_DENIED" \in ServerMessages /\ "SERVER_APPROVED" \in ServerMessages
          /\ "SERVER_MAIN_MENU" \in ServerMessages
      BY DEF ServerMessages, MenuMessages, Answers
    <3>1. \E m \in Answers : todo'[c][1] = <<c, m>> /\ Len(todo'[c]) > 0
      <4>1. CASE todo'[c] = To(c, <<"SERVER_DENIED">>)
        <5>1. todo'[c][1] = <<c, "SERVER_DENIED">> /\ Len(todo'[c]) = 1
          BY <3>0, <4>1, OnePost
        <5>2. QED BY <3>0, <5>1
      <4>2. CASE todo'[c] = To(c, <<"SERVER_APPROVED", "SERVER_MAIN_MENU">>)
        <5>1. todo'[c][1] = <<c, "SERVER_APPROVED">> /\ Len(todo'[c]) = 2
          BY <3>0, <4>2, TwoPosts
        <5>2. QED BY <3>0, <5>1
      <4>3. QED BY <2>7, <4>1, <4>2
    <3>2. todo'[c] \in Seq(Posts) /\ todo'[c] # <<>>
      BY <3>1, <1>3
    <3>3. Head(todo'[c]) = todo'[c][1]
      BY <3>2, TailFacts
    <3>4. QED BY <3>1, <3>2, <3>3
  <2>9. QED BY <2>4, <2>5, <2>7, <2>8
<1>6. QED BY <1>1, <1>3, <1>4, <1>5 DEF Asking

LEMMA PostAsking ==
  ASSUME TypeOK, Stages, Complete_todo, NoGameYet, Asking, NEW c \in Clients, Post(c)
  PROVE  Asking'
<1>1. PICK to \in Clients, m \in ServerMessages :
        /\ todo[c] \in Seq(Posts) /\ todo[c] # <<>> /\ Head(todo[c]) = <<to, m>>
        /\ todo' = [todo EXCEPT ![c] = Tail(todo[c])]
        /\ \A d \in Clients : d # to => Path(d)' = Path(d)
        /\ \/ Path(to)' = Append(Path(to), m)
           \/ client[to] = "left" /\ Path(to)' = Path(to)
  BY PostPaths
<1>2. UNCHANGED <<recv_pc, to_server, client>>
  BY DEF Post, users
<1>3. to # c => BothAnswered /\ to \in Players
  BY <1>1, PostReaches
<1>4. ASSUME NEW d \in Clients, client[d] = "asking", d # c
      PROVE  Path(d)' = Path(d) /\ todo'[d] = todo[d]
  <2>1. d # to
    BY <1>3, <1>4 DEF BothAnswered, Answered
  <2>2. QED BY <1>1, <1>4, <2>1 DEF TypeOK
<1>5. ASSUME client[c] = "asking"
      PROVE  to_server[c] = <<>> /\ Path(c)' # <<>> /\ Head(Path(c)') \in Answers
  <2>1. to = c
    <3>1. c = Third \/ c \in Players
      BY ClientFacts
    <3>2. c = Third => to = c
      BY <1>1, PostReaches, ClientFacts DEF Reach
    <3>3. c \in Players => ~BothAnswered
      BY <1>5 DEF BothAnswered, Answered
    <3>4. QED BY <1>3, <3>1, <3>2, <3>3
  <2>2. PICK s : s = Path(c)
    OBVIOUS
  <2>3. s \in Seq(ServerMessages) /\ Path(c)' = Append(s, m) /\ m \in ServerMessages
    BY <1>1, <1>5, <2>1, <2>2, PathFacts
  <2>4. to_server[c] = <<>> /\ ((s = <<>> /\ m \in Answers) \/ (s # <<>> /\ Head(s) \in Answers))
    <3>1. todo[c] # <<>> /\ Head(todo[c]) = <<to, m>>
      BY <1>1
    <3>2. Path(c) = <<>> => Head(todo[c])[2] \in Answers
      BY <1>5, <3>1 DEF Asking
    <3>3. Path(c) = <<>> => m \in Answers
      BY <3>1, <3>2
    <3>4. to_server[c] = <<>> /\ (Path(c) # <<>> => Head(Path(c)) \in Answers)
      BY <1>5, <3>1 DEF Asking
    <3>5. QED BY <2>2, <3>3, <3>4
  <2>5. Append(s, m) # <<>> /\ Head(Append(s, m)) \in Answers
    <3>1. Append(s, m) # <<>> /\ Len(Append(s, m)) = Len(s) + 1 /\ Append(s, m)[Len(s) + 1] = m
          /\ Append(s, m) \in Seq(ServerMessages) /\ \A i \in 1 .. Len(s) : Append(s, m)[i] = s[i]
      BY <2>3, AppendFacts
    <3>2. Head(Append(s, m)) = Append(s, m)[1]
      BY <3>1, TailFacts
    <3>3. CASE s = <<>> /\ m \in Answers
      BY <3>1, <3>2, <3>3
    <3>4. CASE s # <<>> /\ Head(s) \in Answers
      <4>1. 1 \in 1 .. Len(s) /\ Head(s) = s[1]
        BY <2>3, <3>4, TailFacts
      <4>2. QED BY <3>1, <3>2, <3>4, <4>1
    <3>5. QED BY <2>4, <3>3, <3>4
  <2>6. QED BY <2>3, <2>4, <2>5
<1>6. QED BY <1>2, <1>4, <1>5 DEF Asking

LEMMA NextAsking ==
  TypeOK /\ Stages /\ Complete_todo /\ NoGameYet /\ Asking /\ OneDenial /\ [Next]_vars => Asking'
<1> SUFFICES ASSUME TypeOK, Stages, Complete_todo, NoGameYet, Asking, OneDenial, [Next]_vars
             PROVE  Asking'
  OBVIOUS
<1>1. ASSUME NEW c \in Clients, SendStep(c) PROVE Asking'
  <2>1. UNCHANGED <<recv_pc, todo, to_server, client>>
    BY <1>1 DEF SendStep, SendMessage, SendFails, StopWaiting, server, users
  <2>2. \A d \in Clients : client[d] = "asking" => Path(d)' = Path(d)
    BY <1>1, SendPaths
  <2>3. QED BY <2>1, <2>2 DEF Asking
<1>2. ASSUME NEW c \in Clients, ClientStep(c) \/ ClientBreaks(c) PROVE Asking'
  <2>1. UNCHANGED <<recv_pc, todo>> /\ client'[c] # "asking"
        /\ \A d \in Clients : d # c => /\ client'[d] = client[d] /\ to_server'[d] = to_server[d]
                                       /\ Path(d)' = Path(d)
    BY <1>2, AskedIsAnswered, ClientFrame DEF server
  <2>2. QED BY <2>1 DEF Asking
<1>3. CASE UNCHANGED vars
  BY <1>3 DEF vars, server, users, Asking, Path
<1>4. QED BY <1>1, <1>2, <1>3, AcceptAsking, ThreadAsking, PostAsking DEF Next, RecvStep, ThreadStep

-----------------------------------------------------------------------------
(* The third client. *)

LEMMA AcceptDenial ==
  ASSUME TypeOK, Stages, OneDenial, NEW c \in Clients, Accept(c)
  PROVE  OneDenial'
<1>1. /\ recv_pc[c] = "off" /\ client'[c] = "asking" /\ to_server'[c] = << <<"CLIENT_REQUEST">> >>
      /\ \A d \in Clients : d # c => client'[d] = client[d] /\ to_server'[d] = to_server[d]
      /\ UNCHANGED <<todo, gp_massage_to_send_hade, to_client>>
  BY DEF Accept, TypeOK
<1>2. todo[c] = <<>> /\ Path(c) = <<>> /\ \A d \in Clients : Path(d)' = Path(d)
  BY <1>1, PathsStay DEF Stages
<1>3. Third \in Clients
  BY ClientFacts
<1>4. CASE c # Third
  BY <1>1, <1>2, <1>3, <1>4 DEF OneDenial, Asks
<1>5. CASE c = Third
  <2>1. /\ Path(Third)' = <<>> /\ todo'[Third] = <<>>
        /\ to_server'[Third] = << <<"CLIENT_REQUEST">> >> /\ client'[Third] = "asking"
    BY <1>1, <1>2, <1>3, <1>5
  <2>2. Asks(to_server'[Third]) \in {0, 1} /\ Len(Path(Third)') = 0 /\ Len(todo'[Third]) = 0
    BY <2>1 DEF Asks
  <2>3. QED BY <2>1, <2>2 DEF OneDenial, Asks
<1>6. QED BY <1>4, <1>5

LEMMA ThreadDenial ==
  ASSUME TypeOK, Stages, OneDenial, NEW c \in Clients, ThreadStep(c)
  PROVE  OneDenial'
<1>1. /\ UNCHANGED <<gp_massage_to_send_hade, to_client, client>>
      /\ \A d \in Clients : d # c => recv_pc'[d] = recv_pc[d] /\ to_server'[d] = to_server[d]
  BY ThreadFrame
<1>2. PICK q \in Seq(Posts) : Decides(c, q)
  BY ThreadDecides
<1>3. todo[c] = <<>> /\ todo'[c] = q /\ \A d \in Clients : d # c => todo'[d] = todo[d]
  BY <1>2 DEF Decides, TypeOK
<1>4. Path(Third)' = Path(Third) /\ Third \in Clients
  BY <1>1, PathsStay, ClientFacts
<1>5. CASE c # Third
  BY <1>1, <1>3, <1>4, <1>5 DEF OneDenial, Asks
<1>6. CASE c = Third
  <2>1. Receive(c)
    BY <1>6, ClientFacts DEF ThreadStep, HandleVersus, HandleMove
  <2>2. PICK s : s = to_server[Third]
    OBVIOUS
  <2>3. /\ s # <<>> /\ s[1] = Head(s) /\ 1 \in 1 .. Len(s) /\ to_server'[Third] = Tail(s)
        /\ Len(Tail(s)) = Len(s) - 1 /\ Len(s) \in Nat
        /\ \A i \in 1 .. Len(s) - 1 : Tail(s)[i] = s[i + 1]
        /\ Head(s) \in ClientMessages /\ s \in Seq(ClientMessages)
    BY <1>6, <2>1, <2>2, FirstReceived DEF TypeOK
  <2>4. ASSUME NEW i \in 1 .. Len(Tail(s))
        PROVE  Tail(s)[i][1] \in {"CLIENT_REQUEST", "CLIENT_DISCONNECT", "FIN", "RST"} /\ Tail(s)[i] # <<"CLIENT_REQUEST">>
    <3>1. i + 1 \in 1 .. Len(s) /\ i + 1 > 1 /\ Tail(s)[i] = s[i + 1]
      BY <2>3
    <3>2. QED BY <2>2, <3>1 DEF OneDenial
  <2>5. Asks(Tail(s)) = 0
    <3>1. Tail(s) \in Seq(ClientMessages)
      BY <2>3, TailFacts
    <3>2. Tail(s) # <<>> => Head(Tail(s)) = Tail(s)[1] /\ 1 \in 1 .. Len(Tail(s))
      BY <3>1, TailFacts
    <3>3. QED BY <2>4, <3>2 DEF Asks
  <2>6. Len(Path(Third)) + Len(q) <= 1
    <3>1. Len(Path(Third)) \in Nat /\ Len(todo[Third]) = 0
      BY <1>3, <1>4, <1>6, PathFacts
    <3>2. CASE ReceiveRequest(c)
      <4>1. q = To(c, <<"SERVER_DENIED">>)
        BY <1>3, <1>6, <3>2 DEF ReceiveRequest, TypeOK, denied, Third
      <4>2. Len(q) = 1
        BY <4>1, OnePost DEF ServerMessages, MenuMessages, Answers
      <4>3. Head(s)[1] = "CLIENT_REQUEST"
        BY <1>6, <2>2, <3>2 DEF ReceiveRequest
      <4>4. Head(s) = <<"CLIENT_REQUEST">>
        BY <2>3, <4>3 DEF ClientMessages
      <4>5. Asks(s) = 1
        BY <2>3, <4>4 DEF Asks
      <4>6. QED BY <2>2, <3>1, <4>2, <4>5 DEF OneDenial
    <3>3. CASE ~ReceiveRequest(c)
      <4>1. UNCHANGED todo
        BY <2>1, <3>3 DEF Receive, ReceiveVersus, ReceiveMove, ReceiveDisconnect, ReceiveEnd, server
      <4>2. q = <<>> /\ Len(q) = 0
        BY <1>3, <4>1
      <4>3. Asks(s) \in {0, 1}
        BY DEF Asks
      <4>4. QED BY <1>6, <2>2, <3>1, <4>2, <4>3 DEF OneDenial
    <3>4. QED BY <3>2, <3>3
  <2>7. Len(q) \in Nat /\ Len(Path(Third)) \in Nat
    BY <1>4, PathFacts
  <2>8. Len(Path(Third)') + Len(todo'[Third]) + Asks(to_server'[Third]) <= 1
    BY <1>3, <1>4, <1>6, <2>3, <2>5, <2>6, <2>7
  <2>9. QED BY ZenonT(60), <1>1, <1>4, <2>3, <2>4, <2>8 DEF OneDenial, Asks
<1>7. QED BY <1>5, <1>6

LEMMA PostDenial ==
  ASSUME TypeOK, Stages, Complete_todo, NoGameYet, OneDenial, NEW c \in Clients, Post(c)
  PROVE  OneDenial'
<1>0. Third \in Clients /\ Third \notin Players
  BY ClientFacts
<1>1. PICK to \in Clients, m \in ServerMessages :
        /\ todo[c] \in Seq(Posts) /\ todo[c] # <<>> /\ Head(todo[c]) = <<to, m>>
        /\ todo' = [todo EXCEPT ![c] = Tail(todo[c])]
        /\ \A d \in Clients : d # to => Path(d)' = Path(d)
        /\ \/ Path(to)' = Append(Path(to), m)
           \/ client[to] = "left" /\ Path(to)' = Path(to)
  BY PostPaths
<1>2. UNCHANGED <<to_server, client>>
  BY DEF Post, users
<1>3. to # c => to \in Players
  BY <1>1, PostReaches
<1>4. CASE c # Third
  <2>1. Path(Third)' = Path(Third) /\ todo'[Third] = todo[Third]
    BY <1>0, <1>1, <1>3, <1>4 DEF TypeOK
  <2>2. QED BY <1>2, <2>1 DEF OneDenial, Asks
<1>5. CASE c = Third
  <2>1. PICK s : s = Path(Third)
    OBVIOUS
  <2>2. s \in Seq(ServerMessages) /\ Len(s) \in Nat /\ (Path(Third)' = Append(s, m) \/ Path(Third)' = s)
    BY <1>0, <1>1, <2>1, PathFacts
  <2>3. /\ Len(Tail(todo[c])) = Len(todo[c]) - 1 /\ Head(todo[c]) = todo[c][1]
        /\ Len(todo[c]) \in Nat /\ Len(todo[c]) > 0 /\ 1 \in 1 .. Len(todo[c])
    BY <1>1, TailFacts
  <2>4. m = "SERVER_DENIED"
    <3>1. Complete(c, todo[c], recv_pc[c] = "reset")
      BY DEF Complete_todo
    <3>2. todo[c][1][2] = "SERVER_DENIED"
      BY <1>5, <2>3, <3>1 DEF Complete
    <3>3. QED BY <1>1, <2>3, <3>2
  <2>5. todo'[Third] = Tail(todo[Third])
    BY <1>1, <1>5 DEF TypeOK
  <2>6. Len(Append(s, m)) = Len(s) + 1 /\ Append(s, m)[Len(s) + 1] = m
        /\ \A i \in 1 .. Len(s) : Append(s, m)[i] = s[i]
    BY <2>2, AppendFacts
  <2>7. ASSUME NEW i \in 1 .. Len(Append(s, m)) PROVE i \in 1 .. Len(s) \/ i = Len(s) + 1
    BY <2>2, <2>6
  <2>8. \A i \in 1 .. Len(s) : s[i] = "SERVER_DENIED"
    BY <2>1 DEF OneDenial
  <2>9. \A i \in 1 .. Len(Append(s, m)) : Append(s, m)[i] = "SERVER_DENIED"
    BY <2>4, <2>6, <2>7, <2>8
  <2>10. \A i \in 1 .. Len(Path(Third)') : Path(Third)'[i] = "SERVER_DENIED"
    BY <2>2, <2>8, <2>9
  <2>11. Len(Path(Third)') + Len(todo'[Third]) <= Len(s) + Len(todo[Third])
         /\ Len(Path(Third)') \in Nat /\ Len(todo'[Third]) \in Nat
    BY <1>5, <2>2, <2>3, <2>5, <2>6
  <2>12. Asks(to_server[Third]) \in {0, 1}
    BY DEF Asks
  <2>13. Len(Path(Third)') + Len(todo'[Third]) + Asks(to_server[Third]) <= 1
    BY <1>5, <2>1, <2>2, <2>3, <2>11, <2>12 DEF OneDenial
  <2>14. QED BY <1>2, <2>10, <2>13 DEF OneDenial, Asks
<1>6. QED BY <1>4, <1>5

LEMMA ClientDenial ==
  ASSUME TypeOK, Stages, AnsweredFirst, OneDenial, NEW c \in Clients,
         ClientStep(c) \/ ClientBreaks(c)
  PROVE  OneDenial'
<1>0. Third \in Clients
  BY ClientFacts
<1>1. /\ UNCHANGED todo
      /\ \A d \in Clients : d # c => /\ client'[d] = client[d] /\ to_server'[d] = to_server[d]
                                     /\ Path(d)' = Path(d)
  BY ClientFrame DEF server
<1>2. CASE c # Third
  BY <1>0, <1>1, <1>2 DEF OneDenial, Asks
<1>3. CASE c = Third
  <2>1. client'[Third] = "left"
    <3>1. SUFFICES ASSUME client'[Third] # "left" PROVE FALSE
      OBVIOUS
    <3>2. Path(Third) # <<>> /\ Head(to_client[Third]) = Head(Path(Third))
          /\ (ReadMessage(Third) \/ ChooseVersus(Third) \/ MakeMove(Third))
      BY <1>3, <3>1, ClientFrame
    <3>3. Path(Third)[1] = Head(Path(Third)) /\ 1 \in 1 .. Len(Path(Third))
      BY <1>0, <3>2, PathFacts, TailFacts
    <3>4. Head(to_client[Third]) = "SERVER_DENIED"
      BY <3>2, <3>3 DEF OneDenial
    <3>5. QED BY <3>2, <3>4 DEF ReadMessage, ChooseVersus, MakeMove
  <2>2. Shrunk(Path(Third)', Path(Third))
    BY <1>3, <2>1, ClientFrame
  <2>3. PICK messages \in Seq(ClientMessages) :
          /\ to_server'[Third] = to_server[Third] \o messages
          /\ \A i \in 1 .. Len(messages) :
               messages[i] \in {<<"CLIENT_DISCONNECT">>, <<"FIN">>, <<"RST">>}
    BY <1>3, <2>1, ClientSays
  <2>4. PICK s : s = to_server[Third]
    OBVIOUS
  <2>5. PICK t : t = s \o messages
    OBVIOUS
  <2>6. s \in Seq(ClientMessages) /\ Len(s) \in Nat
    BY <1>0, <2>4 DEF TypeOK
  <2>7. /\ t \in Seq(ClientMessages) /\ Len(t) = Len(s) + Len(messages)
        /\ \A i \in 1 .. Len(s) : t[i] = s[i]
        /\ \A i \in 1 .. Len(messages) : t[Len(s) + i] = messages[i]
    BY <2>5, <2>6, ConcatFacts
  <2>8. ASSUME NEW i \in 1 .. Len(t)
        PROVE  i \in 1 .. Len(s) \/ \E j \in 1 .. Len(messages) : i = Len(s) + j
    <3>1. i \in 1 .. Len(s) \/ (i - Len(s) \in 1 .. Len(messages) /\ i = Len(s) + (i - Len(s)))
      BY <2>6, <2>7
    <3>2. QED BY <3>1
  <2>9. ASSUME NEW i \in 1 .. Len(t)
        PROVE  /\ t[i][1] \in {"CLIENT_REQUEST", "CLIENT_DISCONNECT", "FIN", "RST"}
               /\ i > 1 => t[i] # <<"CLIENT_REQUEST">>
    <3>1. CASE i \in 1 .. Len(s)
      BY <2>4, <2>7, <3>1 DEF OneDenial
    <3>2. CASE \E j \in 1 .. Len(messages) : i = Len(s) + j
      <4>1. t[i] \in {<<"CLIENT_DISCONNECT">>, <<"FIN">>, <<"RST">>}
        BY <2>3, <2>7, <3>2
      <4>2. QED BY <4>1
    <3>3. QED BY <2>8, <3>1, <3>2
  <2>10. Asks(t) <= Asks(s) /\ Asks(t) \in {0, 1} /\ Asks(s) \in {0, 1}
    <3>1. Asks(t) \in {0, 1} /\ Asks(s) \in {0, 1}
      BY DEF Asks
    <3>2. ASSUME t # <<>>, Head(t) = <<"CLIENT_REQUEST">> PROVE s # <<>> /\ Head(s) = <<"CLIENT_REQUEST">>
      <4>1. t[1] = Head(t) /\ 1 \in 1 .. Len(t)
        BY <2>7, <3>2, TailFacts
      <4>2. CASE 1 \in 1 .. Len(s)
        <5>1. s # <<>> /\ s[1] = t[1]
          BY <2>7, <4>2
        <5>2. QED BY <2>6, <3>2, <4>1, <5>1, TailFacts
      <4>3. CASE \E j \in 1 .. Len(messages) : 1 = Len(s) + j
        <5>1. t[1] \in {<<"CLIENT_DISCONNECT">>, <<"FIN">>, <<"RST">>}
          BY <2>3, <2>7, <4>3
        <5>2. QED BY <3>2, <4>1, <5>1
      <4>4. QED BY <2>8, <4>1, <4>2, <4>3
    <3>3. QED BY <3>1, <3>2 DEF Asks
  <2>11. \A i \in 1 .. Len(Path(Third)') : Path(Third)'[i] = "SERVER_DENIED"
    BY <2>2 DEF Shrunk, OneDenial
  <2>12. /\ Len(Path(Third)') <= Len(Path(Third)) /\ Len(Path(Third)) \in Nat
         /\ Len(Path(Third)') \in Nat /\ Len(todo[Third]) \in Nat
    <3>1. Len(Path(Third)) \in Nat /\ Len(todo[Third]) \in Nat
      BY SMTT(30), <1>0, PathFacts DEF TypeOK
    <3>2. TypeOK'
      BY ClientTypes
    <3>3. Path(Third)' \in Seq(ServerMessages)
      <4>1. TypeOK' => (to_client'[Third] \in Seq(ServerMessages)
                        /\ gp_massage_to_send_hade'[Third] \in Seq(ServerMessages))
        BY <1>0 DEF TypeOK
      <4>2. QED BY <3>2, <4>1, ConcatFacts DEF Path
    <3>4. QED BY <2>2, <3>1, <3>3 DEF Shrunk
  <2>13. Len(Path(Third)') + Len(todo[Third]) + Asks(t) <= 1
    <3>1. Len(Path(Third)) + Len(todo[Third]) + Asks(s) <= 1
      BY <2>4 DEF OneDenial
    <3>2. QED BY <2>10, <2>12, <3>1
  <2>14. to_server'[Third] = t /\ todo' = todo
    BY <1>1, <2>3, <2>4, <2>5
  <2>15. QED BY <2>1, <2>9, <2>11, <2>13, <2>14 DEF OneDenial, Asks
<1>4. QED BY <1>2, <1>3

LEMMA NextDenial ==
  TypeOK /\ Stages /\ Complete_todo /\ NoGameYet /\ Asking /\ OneDenial /\ [Next]_vars => OneDenial'
<1> SUFFICES ASSUME TypeOK, Stages, Complete_todo, NoGameYet, Asking, OneDenial, [Next]_vars
             PROVE  OneDenial'
  OBVIOUS
<1>1. ASSUME NEW c \in Clients, SendStep(c) PROVE OneDenial'
  <2>1. UNCHANGED <<todo, to_server, client>>
    BY <1>1 DEF SendStep, SendMessage, SendFails, StopWaiting, server, users
  <2>2. Third \in Clients /\ (Path(Third)' = Path(Third) \/ Shrunk(Path(Third)', Path(Third)))
    BY <1>1, ClientFacts, SendPaths
  <2>3. \A i \in 1 .. Len(Path(Third)') : Path(Third)'[i] = "SERVER_DENIED"
    BY <2>2 DEF Shrunk, OneDenial
  <2>4. Len(Path(Third)') <= Len(Path(Third)) /\ Len(Path(Third)) \in Nat /\ Len(todo[Third]) \in Nat
    BY SMTT(30), <2>2, PathFacts DEF Shrunk, TypeOK
  <2>5. Len(Path(Third)') \in Nat
    <3>1. TypeOK'
      BY <1>1, SendTypes
    <3>2. TypeOK' => (to_client'[Third] \in Seq(ServerMessages)
                      /\ gp_massage_to_send_hade'[Third] \in Seq(ServerMessages))
      BY <2>2 DEF TypeOK
    <3>3. Path(Third)' \in Seq(ServerMessages)
      BY <3>1, <3>2, ConcatFacts DEF Path
    <3>4. QED BY <3>3
  <2>6. Asks(to_server[Third]) \in {0, 1}
    BY DEF Asks
  <2>7. Len(Path(Third)') + Len(todo[Third]) + Asks(to_server[Third]) <= 1
    BY <2>4, <2>5, <2>6 DEF OneDenial
  <2>8. QED BY <2>1, <2>3, <2>7 DEF OneDenial, Asks
<1>2. CASE UNCHANGED vars
  BY <1>2 DEF vars, server, users, OneDenial, Asks, Path
<1>3. QED BY <1>1, <1>2, AskedIsAnswered, AcceptDenial, ThreadDenial, PostDenial, ClientDenial
          DEF Next, RecvStep, ThreadStep

-----------------------------------------------------------------------------
(* The request for a game. *)

LEMMA ThreadVersus ==
  ASSUME TypeOK, Stages, OneDenial, VersusPends, NEW c \in Clients, ThreadStep(c),
         NEW p \in Players
  PROVE  /\ recv_pc'[p] = "wait" => ~g_wait_for_client_event'[p]
         /\ client'[p] = "versus" => Pending(p)'
<1>0. p \in Clients
  BY ClientFacts
<1>1. PICK q \in Seq(Posts) : Decides(c, q)
  BY ThreadDecides
<1>2. /\ UNCHANGED <<gp_massage_to_send_hade, to_client, client>>
      /\ \A d \in Clients : d # c => recv_pc'[d] = recv_pc[d] /\ to_server'[d] = to_server[d]
  BY ThreadFrame
<1>3. todo[c] = <<>> /\ todo' = [todo EXCEPT ![c] = q] /\ todo'[c] = q
      /\ \A d \in Clients : Path(d)' = Path(d)
  BY <1>1, <1>2, PathsStay DEF Decides, TypeOK
<1>4. \A m : Comes(p, 0, m) => Comes(p, 0, m)'
  <2>1. 0 \in Nat
    OBVIOUS
  <2>2. ASSUME NEW m PROVE Comes(p, 0, m) => Comes(p, 0, m)'
    BY <1>0, <1>3, <2>1, ThreadComes
  <2>3. QED BY <2>2
<1>5. CASE Receive(c)
  <2>1. recv_pc[c] = "recv" /\ g_wait_for_client_event' = event_set(c)
    BY <1>5 DEF Receive
  <2>2. recv_pc'[c] # "wait"
    BY <1>5, <2>1 DEF Receive, ReceiveRequest, ReceiveVersus, ReceiveMove, ReceiveDisconnect,
                      ReceiveEnd, server, TypeOK
  <2>3. recv_pc'[p] = "wait" => ~g_wait_for_client_event'[p]
    BY <1>0, <1>2, <2>1, <2>2 DEF event_set, VersusPends
  <2>4. ASSUME p = c, NEW i \in 1 .. Len(to_server[c]), to_server[c][i] = <<"CLIENT_VERSUS">>
        PROVE  Pending(p)'
    <3>1. /\ to_server[c][1] = Head(to_server[c]) /\ to_server'[c] = Tail(to_server[c])
          /\ Len(Tail(to_server[c])) = Len(to_server[c]) - 1 /\ Len(to_server[c]) \in Nat
          /\ \A j \in 1 .. Len(to_server[c]) - 1 : Tail(to_server[c])[j] = to_server[c][j + 1]
      BY <1>5, FirstReceived
    <3>2. CASE i = 1
      <4>1. Head(to_server[c])[1] = "CLIENT_VERSUS"
        BY <2>4, <3>1, <3>2
      <4>2. ReceiveVersus(c)
        BY <1>5, <4>1 DEF Receive, ReceiveRequest, ReceiveMove, ReceiveDisconnect, ReceiveEnd
      <4>3. recv_pc'[c] = "check"
        BY <4>2 DEF ReceiveVersus, TypeOK
      <4>4. QED BY <2>4, <4>3 DEF Pending
    <3>3. CASE i > 1
      <4>1. i - 1 \in 1 .. Len(to_server[c]) - 1 /\ i - 1 + 1 = i
        BY <3>1, <3>3
      <4>2. i - 1 \in 1 .. Len(to_server'[c]) /\ to_server'[c][i - 1] = <<"CLIENT_VERSUS">>
        BY <2>4, <3>1, <4>1
      <4>3. QED BY <2>4, <4>2 DEF Pending
    <3>4. QED BY <3>2, <3>3
  <2>5. Pending(p) => Pending(p)'
    <3>1. CASE p = c
      BY <1>4, <2>1, <2>4, <3>1 DEF Pending
    <3>2. CASE p # c
      BY <1>0, <1>2, <1>4, <3>2 DEF Pending
    <3>3. QED BY <3>1, <3>2
  <2>6. QED BY <1>2, <2>3, <2>5 DEF VersusPends
<1>6. CASE HandleVersus(c)
  <2>1. c \in Players /\ UNCHANGED to_server
        /\ \A d \in Players : d # c => g_wait_for_client_event'[d] = g_wait_for_client_event[d]
    BY <1>6 DEF HandleVersus, CheckOpponent, WaitTimesOut, event_before_wait, TypeOK
  <2>2. CASE p # c
    BY <1>0, <1>2, <1>4, <2>1, <2>2 DEF VersusPends, Pending
  <2>3. CASE p = c
    <3>1. CASE recv_pc'[c] = "wait"
      <4>1. CheckOpponent(c) /\ g_wait_for_client_event' = event_before_wait(c)
        BY <1>6, <3>1 DEF HandleVersus, CheckOpponent, WaitTimesOut, TypeOK
      <4>2. ~g_wait_for_client_event'[c]
        BY <2>1, <4>1 DEF event_before_wait, TypeOK
      <4>3. QED BY <2>3, <3>1, <4>2 DEF Pending
    <3>2. CASE recv_pc'[c] # "wait"
      <4>1. \E m \in Settles : 1 \in 1 .. Len(q) /\ q[1] = <<c, m>>
        <5>1. q = game_start(c) \/ q = To(c, no_opponents)
          BY <1>3, <1>6, <3>2 DEF HandleVersus, CheckOpponent, WaitTimesOut, TypeOK
        <5>2. game_start(c)[1] = <<c, "GAME_STARTED">> /\ Len(game_start(c)) = 5
          BY <2>1, StartPosts
        <5>3. To(c, no_opponents)[1] = <<c, "SERVER_NO_OPPONENTS">> /\ Len(To(c, no_opponents)) = 2
          BY TwoPosts DEF no_opponents, ServerMessages, MenuMessages, Answers
        <5>4. QED BY <5>1, <5>2, <5>3 DEF Settles
      <4>2. PICK m \in Settles : 1 \in 1 .. Len(q) /\ q[1] = <<c, m>>
        BY <4>1
      <4>3. InTodo(c, m)'
        BY <1>3, <4>2, ThreadComes
      <4>4. QED BY <2>3, <3>2, <4>3 DEF Pending, Comes
    <3>3. QED BY <3>1, <3>2
  <2>4. QED BY <2>2, <2>3
<1>7. CASE HandleMove(c)
  <2>1. UNCHANGED <<to_server, g_wait_for_client_event>>
        /\ recv_pc[c] \notin {"check", "wait"} /\ recv_pc'[c] # "wait"
    BY <1>7 DEF HandleMove, LoadTurn, StoreTurn, Judge, NextTurnOrEnd, ResetGame, TypeOK
  <2>2. QED BY <1>0, <1>2, <1>4, <2>1 DEF VersusPends, Pending
<1>8. QED BY <1>5, <1>6, <1>7 DEF ThreadStep

LEMMA ClientVersus ==
  ASSUME TypeOK, Stages, AnsweredFirst, VersusPends, NEW c \in Clients,
         ClientStep(c) \/ ClientBreaks(c), NEW p \in Players, client'[p] = "versus"
  PROVE  Pending(p)'
<1>0. p \in Clients /\ client'[p] # "left" /\ 0 \in Nat
  BY ClientFacts
<1>1. /\ UNCHANGED recv_pc
      /\ \A d \in Clients : d # c => client'[d] = client[d] /\ to_server'[d] = to_server[d]
  BY ClientFrame DEF server
<1>2. CASE p # c
  <2>1. \A m : Comes(p, 0, m) => Comes(p, 0, m)'
    BY <1>0, <1>2, ReadComes
  <2>2. QED BY <1>0, <1>1, <1>2, <2>1 DEF VersusPends, Pending
<1>3. CASE p = c
  <2>1. PICK messages \in Seq(ClientMessages) :
          /\ to_server'[c] = to_server[c] \o messages
          /\ \/ messages = <<>> /\ ReadMessage(c)
             \/ messages = << <<"CLIENT_VERSUS">> >> /\ ChooseVersus(c)
             \/ MakeMove(c)
    BY <1>0, <1>3, ClientSays
  <2>2. PICK s : s = to_server[c]
    OBVIOUS
  <2>3. s \in Seq(ClientMessages) /\ Len(s) \in Nat
    BY <2>2 DEF TypeOK
  <2>4. /\ Len(s \o messages) = Len(s) + Len(messages)
        /\ \A i \in 1 .. Len(s) : (s \o messages)[i] = s[i]
        /\ \A i \in 1 .. Len(messages) : (s \o messages)[Len(s) + i] = messages[i]
    BY <2>3, ConcatFacts
  <2>5. CASE ChooseVersus(c) /\ messages = << <<"CLIENT_VERSUS">> >>
    <3>1. Len(s) + 1 \in 1 .. Len(s \o messages) /\ (s \o messages)[Len(s) + 1] = <<"CLIENT_VERSUS">>
      BY <2>3, <2>4, <2>5
    <3>2. QED BY <1>3, <2>1, <2>2, <3>1 DEF Pending
  <2>6. CASE ReadMessage(c) \/ MakeMove(c)
    <3>1. client[c] = "versus" /\ Head(to_client[c]) \notin Settles
      <4>1. CASE ReadMessage(c)
        <5>1. client'[c] = told(c, Head(to_client[c]))
          BY <4>1 DEF ReadMessage, TypeOK
        <5>2. QED BY <1>3, <5>1 DEF told, Settles
      <4>2. CASE MakeMove(c)
        BY <1>3, <4>2 DEF MakeMove, Settles
      <4>3. QED BY <2>6, <4>1, <4>2
    <3>2. Pending(p)
      BY <1>3, <3>1 DEF VersusPends
    <3>3. ASSUME NEW m \in Settles, Comes(p, 0, m) PROVE Comes(p, 0, m)'
      BY <1>0, <1>3, <3>1, <3>3, ReadComes
    <3>4. ASSUME NEW i \in 1 .. Len(s), s[i] = <<"CLIENT_VERSUS">> PROVE Pending(p)'
      <4>1. i \in 1 .. Len(s \o messages) /\ (s \o messages)[i] = <<"CLIENT_VERSUS">>
        BY <2>3, <2>4, <3>4
      <4>2. QED BY <1>3, <2>1, <2>2, <4>1 DEF Pending
    <3>5. QED BY <1>1, <1>3, <2>2, <3>2, <3>3, <3>4 DEF Pending
  <2>7. QED BY <2>1, <2>5, <2>6
<1>4. QED BY <1>2, <1>3

LEMMA NextVersus ==
  TypeOK /\ Stages /\ Complete_todo /\ NoGameYet /\ Asking /\ OneDenial /\ VersusPends /\ [Next]_vars
    => VersusPends'
<1> SUFFICES ASSUME TypeOK, Stages, Complete_todo, NoGameYet, Asking, OneDenial, VersusPends, [Next]_vars,
                    NEW p \in Players
             PROVE  /\ recv_pc'[p] = "wait" => ~g_wait_for_client_event'[p]
                    /\ client'[p] = "versus" => Pending(p)'
  BY DEF VersusPends, Pending
<1>0. p \in Clients /\ 0 \in Nat
  BY ClientFacts
<1>1. ASSUME NEW c \in Clients, Accept(c)
      PROVE  /\ recv_pc'[p] = "wait" => ~g_wait_for_client_event'[p]
             /\ client'[p] = "versus" => Pending(p)'
  <2>1. /\ recv_pc'[c] = "recv" /\ client'[c] = "asking"
        /\ \A d \in Clients : d # c => /\ recv_pc'[d] = recv_pc[d] /\ client'[d] = client[d]
                                       /\ to_server'[d] = to_server[d]
        /\ UNCHANGED <<todo, gp_massage_to_send_hade, to_client, g_wait_for_client_event>>
    BY <1>1 DEF Accept, TypeOK
  <2>2. \A m : Comes(p, 0, m)' <=> Comes(p, 0, m)
    BY <1>0, <2>1, PathsStay DEF Comes, InTodo
  <2>3. QED BY <1>0, <2>1, <2>2 DEF VersusPends, Pending
<1>2. ASSUME NEW c \in Clients, Post(c)
      PROVE  /\ recv_pc'[p] = "wait" => ~g_wait_for_client_event'[p]
             /\ client'[p] = "versus" => Pending(p)'
  <2>1. UNCHANGED <<recv_pc, client, to_server, g_wait_for_client_event>>
    BY <1>2 DEF Post, users
  <2>2. 0 <= Len(Path(p))
    BY <1>0, PathFacts
  <2>3. ASSUME NEW m, client[p] # "left", Comes(p, 0, m) PROVE Comes(p, 0, m)'
    BY <1>0, <1>2, <2>2, <2>3, PostComes
  <2>4. QED BY <2>1, <2>3 DEF VersusPends, Pending
<1>3. ASSUME NEW c \in Clients, SendStep(c)
      PROVE  /\ recv_pc'[p] = "wait" => ~g_wait_for_client_event'[p]
             /\ client'[p] = "versus" => Pending(p)'
  <2>1. UNCHANGED <<recv_pc, client, to_server>>
    BY <1>3 DEF SendStep, SendMessage, SendFails, StopWaiting, server, users
  <2>2. g_wait_for_client_event'[p] => g_wait_for_client_event[p]
    BY <1>3 DEF SendStep, SendMessage, SendFails, StopWaiting, TypeOK
  <2>3. client[p] # "left" => \A m : Comes(p, 0, m) => Comes(p, 0, m)'
    BY <1>0, <1>3, SendComes
  <2>4. QED BY <2>1, <2>2, <2>3 DEF VersusPends, Pending
<1>4. ASSUME NEW c \in Clients, ClientStep(c) \/ ClientBreaks(c)
      PROVE  /\ recv_pc'[p] = "wait" => ~g_wait_for_client_event'[p]
             /\ client'[p] = "versus" => Pending(p)'
  <2>1. UNCHANGED <<recv_pc, g_wait_for_client_event>>
    BY <1>4 DEF ClientStep, ClientBreaks, server
  <2>2. QED BY <1>4, <2>1, AskedIsAnswered, ClientVersus DEF VersusPends
<1>5. CASE UNCHANGED vars
  <2>1. \A m : Comes(p, 0, m)' <=> Comes(p, 0, m)
    BY <1>5 DEF vars, server, users, Comes, Path, InTodo
  <2>2. QED BY <1>5, <2>1 DEF vars, server, users, VersusPends, Pending
<1>6. QED BY <1>1, <1>2, <1>3, <1>4, <1>5, ThreadVersus DEF Next, RecvStep, ThreadStep

-----------------------------------------------------------------------------
(* The menu. *)

Stops == {"SERVER_APPROVED", "SERVER_NO_OPPONENTS", "GAME_ENDED"}

LEMMA ThreadMenu ==
  ASSUME TypeOK, Stages, OneDenial, NEW c \in Clients, ThreadStep(c),
         NEW p \in Players, NEW i \in Nat, MenuComes(p, i)
  PROVE  MenuComes(p, i)'
<1>0. p \in Clients
  BY ClientFacts
<1>1. PICK q \in Seq(Posts) : Decides(c, q)
  BY ThreadDecides
<1>2. /\ UNCHANGED <<gp_massage_to_send_hade, to_client>>
      /\ \A d \in Clients : d # c => recv_pc'[d] = recv_pc[d]
  BY ThreadFrame
<1>3. todo[c] = <<>> /\ todo' = [todo EXCEPT ![c] = q] /\ todo'[c] = q
      /\ \A d \in Clients : Path(d)' = Path(d)
  BY <1>1, <1>2, PathsStay DEF Decides, TypeOK
<1>4. CASE Comes(p, i, "SERVER_MAIN_MENU")
  <2>1. Comes(p, i, "SERVER_MAIN_MENU")'
    BY <1>0, <1>3, <1>4, ThreadComes
  <2>2. QED BY <2>1 DEF MenuComes
<1>5. ASSUME NEW d \in Players, recv_pc[d] = "reset" PROVE MenuComes(p, i)'
  <2>1. d \in Clients
    BY ClientFacts
  <2>2. CASE d # c
    BY <1>2, <1>5, <2>1, <2>2 DEF MenuComes
  <2>3. CASE d = c
    <3>1. ResetGame(c)
      BY <1>5, <2>3 DEF ThreadStep, Receive, HandleVersus, HandleMove, CheckOpponent, WaitTimesOut,
                        LoadTurn, StoreTurn, Judge, NextTurnOrEnd
    <3>2. q = Both(c, "SERVER_MAIN_MENU")
      BY <1>3, <3>1 DEF ResetGame, TypeOK
    <3>3. /\ Len(q) = 2 /\ q[1] = <<c, "SERVER_MAIN_MENU">>
          /\ q[2] = <<other_player_ind(c), "SERVER_MAIN_MENU">>
      BY <2>3, <3>2, PostsToBoth DEF ServerMessages, MenuMessages
    <3>4. p = c \/ p = other_player_ind(c)
      BY <2>3, ClientFacts
    <3>5. 1 \in 1 .. Len(q) /\ 2 \in 1 .. Len(q)
      BY <3>3
    <3>6. \E k \in 1 .. Len(q) : q[k] = <<p, "SERVER_MAIN_MENU">>
      BY <3>3, <3>4, <3>5
    <3>7. InTodo(p, "SERVER_MAIN_MENU")'
      BY <1>0, <1>3, <3>6, ThreadComes
    <3>8. QED BY <3>7 DEF MenuComes, Comes
  <2>4. QED BY <2>2, <2>3
<1>6. QED BY <1>4, <1>5 DEF MenuComes

LEMMA PostMenu ==
  ASSUME TypeOK, Stages, Complete_todo, MenuFollows, NEW c \in Clients, Post(c),
         NEW p \in Players, client[p] # "left"
  PROVE  /\ client[p] = "idle" => MenuComes(p, 0)'
         /\ \A i \in 1 .. Len(Path(p)') : Path(p)'[i] \in Stops => MenuComes(p, i)'
<1>0. p \in Clients /\ 0 \in Nat /\ Len(Path(p)) \in Nat
  BY ClientFacts, PathFacts
<1>1. PICK to \in Clients, m \in ServerMessages :
        /\ todo[c] \in Seq(Posts) /\ todo[c] # <<>> /\ Head(todo[c]) = <<to, m>>
        /\ todo' = [todo EXCEPT ![c] = Tail(todo[c])]
        /\ \A d \in Clients : d # to => Path(d)' = Path(d)
        /\ \/ Path(to)' = Append(Path(to), m)
           \/ client[to] = "left" /\ Path(to)' = Path(to)
  BY PostPaths
<1>2. UNCHANGED recv_pc
  BY DEF Post
<1>3. ASSUME NEW i \in Nat, i <= Len(Path(p)), MenuComes(p, i) PROVE MenuComes(p, i)'
  <2>1. CASE Comes(p, i, "SERVER_MAIN_MENU")
    <3>1. Comes(p, i, "SERVER_MAIN_MENU")'
      BY <1>0, <1>3, <2>1, PostComes
    <3>2. QED BY <3>1 DEF MenuComes
  <2>2. CASE \E d \in Players : recv_pc[d] = "reset"
    BY <1>2, <2>2 DEF MenuComes
  <2>3. QED BY <1>3, <2>1, <2>2 DEF MenuComes
<1>4. client[p] = "idle" => MenuComes(p, 0)'
  BY <1>0, <1>3 DEF MenuFollows
<1>5. ASSUME NEW i \in 1 .. Len(Path(p)), Path(p)[i] \in Stops PROVE MenuComes(p, i)'
  BY <1>0, <1>3, <1>5 DEF MenuFollows, Stops
<1>6. ASSUME to = p, m \in Stops, NEW i \in Nat PROVE MenuComes(p, i)'
  <2>0. todo[c][1] = <<p, m>> /\ 1 \in 1 .. Len(todo[c])
    BY <1>1, <1>6, TailFacts
  <2>1. Complete(c, todo[c], recv_pc[c] = "reset")
    BY DEF Complete_todo
  <2>2. todo[c][1][1] = p /\ todo[c][1][2] = m
    BY <2>0
  <2>3. CASE m = "GAME_ENDED"
    <3>1. recv_pc[c] = "reset"
      BY <2>0, <2>1, <2>2, <2>3 DEF Complete
    <3>2. c \in Players
      BY <3>1 DEF Stages
    <3>3. QED BY <1>2, <3>1, <3>2 DEF MenuComes
  <2>4. CASE m \in {"SERVER_APPROVED", "SERVER_NO_OPPONENTS"}
    <3>1. Follows(todo[c], 1, <<todo[c][1][1], "SERVER_MAIN_MENU">>)
      BY <2>0, <2>1, <2>2, <2>4 DEF Complete
    <3>2. Follows(todo[c], 1, <<p, "SERVER_MAIN_MENU">>)
      BY <2>2, <3>1
    <3>3. InTodo(p, "SERVER_MAIN_MENU")'
      BY <1>0, <1>1, <3>2, RestComes
    <3>4. QED BY <3>3 DEF MenuComes, Comes
  <2>5. QED BY <1>6, <2>3, <2>4 DEF Stops
<1>7. ASSUME NEW i \in 1 .. Len(Path(p)'), Path(p)'[i] \in Stops PROVE MenuComes(p, i)'
  <2>1. CASE Path(p)' = Path(p)
    BY <1>5, <1>7, <2>1
  <2>2. CASE to = p /\ Path(p)' = Append(Path(p), m)
    <3>1. PICK s : s = Path(p)
      OBVIOUS
    <3>2. s \in Seq(ServerMessages) /\ Path(p)' = Append(s, m) /\ Len(s) \in Nat
      BY <1>0, <2>2, <3>1, PathFacts
    <3>3. Len(Append(s, m)) = Len(s) + 1 /\ Append(s, m)[Len(s) + 1] = m
          /\ \A j \in 1 .. Len(s) : Append(s, m)[j] = s[j]
      BY <3>2, AppendFacts
    <3>4. i \in 1 .. Len(s) + 1
      BY <3>2, <3>3
    <3>5. CASE i \in 1 .. Len(s)
      BY <1>5, <1>7, <3>1, <3>2, <3>3, <3>5
    <3>6. CASE i = Len(s) + 1
      <4>1. m \in Stops
        BY <1>7, <3>2, <3>3, <3>6
      <4>2. i \in Nat
        BY <3>2, <3>6
      <4>3. QED BY <1>6, <2>2, <4>1, <4>2
    <3>7. QED BY <3>2, <3>4, <3>5, <3>6
  <2>3. QED BY <1>0, <1>1, <2>1, <2>2
<1>8. QED BY <1>4, <1>7

LEMMA ClientMenu ==
  ASSUME TypeOK, Stages, AnsweredFirst, MenuFollows, NEW c \in Clients,
         ClientStep(c) \/ ClientBreaks(c), NEW p \in Players, client'[p] # "left"
  PROVE  /\ client'[p] = "idle" => MenuComes(p, 0)'
         /\ \A i \in 1 .. Len(Path(p)') : Path(p)'[i] \in Stops => MenuComes(p, i)'
<1>0. p \in Clients /\ 0 \in Nat /\ 0 + 1 = 1
  BY ClientFacts
<1>1. UNCHANGED recv_pc /\ \A d \in Clients : d # c => client'[d] = client[d]
  BY ClientFrame DEF server
<1>2. CASE p # c
  <2>1. Path(p)' = Path(p) /\ \A i \in Nat : \A m : Comes(p, i, m)' <=> Comes(p, i, m)
    BY <1>0, <1>2, ReadComes
  <2>2. \A i \in Nat : MenuComes(p, i) => MenuComes(p, i)'
    BY <1>1, <2>1 DEF MenuComes
  <2>3. client'[p] = client[p] /\ \A i \in 1 .. Len(Path(p)) : i \in Nat
    BY <1>0, <1>1, <1>2
  <2>4. QED BY <1>0, <2>1, <2>2, <2>3 DEF MenuFollows, Stops
<1>3. CASE p = c
  <2>1. /\ Path(p) # <<>> /\ to_client[p] # <<>> /\ Head(to_client[p]) = Head(Path(p))
        /\ Path(p)' = Tail(Path(p)) /\ client[p] # "left"
        /\ ReadMessage(c) \/ ChooseVersus(c) \/ MakeMove(c)
    BY <1>3, ClientFrame
  <2>2. PICK s : s = Path(p)
    OBVIOUS
  <2>3. s \in Seq(ServerMessages) /\ s # <<>> /\ Path(p)' = Tail(s) /\ Head(to_client[p]) = Head(s)
    BY <1>0, <2>1, <2>2, PathFacts
  <2>4. /\ Len(Tail(s)) = Len(s) - 1 /\ Len(s) \in Nat /\ Len(s) > 0 /\ Head(s) = s[1]
        /\ \A i \in 1 .. Len(s) - 1 : Tail(s)[i] = s[i + 1]
    BY <2>3, TailFacts
  <2>5. ASSUME NEW i \in Nat, MenuComes(p, i + 1) PROVE MenuComes(p, i)'
    <3>1. CASE Comes(p, i + 1, "SERVER_MAIN_MENU")
      <4>1. Comes(p, i, "SERVER_MAIN_MENU")'
        BY <1>0, <1>3, <3>1, ReadComes
      <4>2. QED BY <4>1 DEF MenuComes
    <3>2. CASE \E d \in Players : recv_pc[d] = "reset"
      BY <1>1, <3>2 DEF MenuComes
    <3>3. QED BY <2>5, <3>1, <3>2 DEF MenuComes
  <2>6. ASSUME NEW i \in 1 .. Len(Path(p)'), Path(p)'[i] \in Stops PROVE MenuComes(p, i)'
    <3>1. i \in Nat /\ i \in 1 .. Len(s) - 1 /\ i + 1 \in 1 .. Len(s) /\ s[i + 1] = Path(p)'[i]
      BY <2>3, <2>4
    <3>2. MenuComes(p, i + 1)
      BY <2>1, <2>2, <2>6, <3>1 DEF MenuFollows, Stops
    <3>3. QED BY <2>5, <3>1, <3>2
  <2>7. ASSUME client'[p] = "idle" PROVE MenuComes(p, 0)'
    <3>1. CASE Head(s) \in Stops
      <4>1. 1 \in 1 .. Len(s) /\ s[1] \in Stops
        BY <2>4, <3>1
      <4>2. MenuComes(p, 0 + 1)
        BY <1>0, <2>1, <2>2, <4>1 DEF MenuFollows, Stops
      <4>3. QED BY <1>0, <2>5, <4>2
    <3>2. CASE Head(s) \notin Stops
      <4>1. client[p] = "idle" /\ Head(s) # "SERVER_MAIN_MENU"
        <5>1. CASE ReadMessage(c)
          <6>1. client'[p] = told(c, Head(s)) /\ Head(s) # "SERVER_MAIN_MENU"
            BY <1>0, <1>3, <2>3, <5>1 DEF ReadMessage, TypeOK
          <6>2. Head(s) # "SERVER_OPPONENT_OUT"
            <7>1. Head(s) \in ServerMessages
              BY <2>3, TailFacts
            <7>2. QED BY <7>1 DEF ServerMessages, MenuMessages, Answers, GameMessages
          <6>3. told(c, Head(s)) = "idle" => client[c] = "idle"
            BY <3>2, <6>2 DEF told, Stops
          <6>4. QED BY <1>3, <2>7, <6>1, <6>3
        <5>2. CASE ChooseVersus(c)
          <6>1. client'[p] = "versus"
            BY <1>0, <1>3, <5>2 DEF ChooseVersus, TypeOK
          <6>2. QED BY <2>7, <6>1
        <5>3. CASE MakeMove(c)
          BY <1>3, <2>3, <2>7, <5>3 DEF MakeMove
        <5>4. QED BY <2>1, <5>1, <5>2, <5>3
      <4>2. MenuComes(p, 0)
        BY <1>0, <4>1 DEF MenuFollows
      <4>3. CASE Comes(p, 0, "SERVER_MAIN_MENU")
        <5>1. Comes(p, 0, "SERVER_MAIN_MENU")'
          BY <1>0, <1>3, <2>3, <4>1, <4>3, ReadComes
        <5>2. QED BY <5>1 DEF MenuComes
      <4>4. CASE \E d \in Players : recv_pc[d] = "reset"
        BY <1>1, <4>4 DEF MenuComes
      <4>5. QED BY <4>2, <4>3, <4>4 DEF MenuComes
    <3>3. QED BY <3>1, <3>2
  <2>8. QED BY <2>6, <2>7
<1>4. QED BY <1>2, <1>3

LEMMA NextMenu ==
  TypeOK /\ Stages /\ Complete_todo /\ NoGameYet /\ Asking /\ OneDenial /\ MenuFollows /\ [Next]_vars
    => MenuFollows'
<1> SUFFICES ASSUME TypeOK, Stages, Complete_todo, NoGameYet, Asking, OneDenial, MenuFollows, [Next]_vars,
                    NEW p \in Players, client'[p] # "left"
             PROVE  /\ client'[p] = "idle" => MenuComes(p, 0)'
                    /\ \A i \in 1 .. Len(Path(p)') : Path(p)'[i] \in Stops => MenuComes(p, i)'
  BY DEF MenuFollows, Stops
<1>0. p \in Clients /\ 0 \in Nat /\ Path(p) \in Seq(ServerMessages) /\ Len(Path(p)) \in Nat
  BY ClientFacts, PathFacts
<1>1. ASSUME client'[p] = client[p], Path(p)' = Path(p),
             \A i \in Nat : MenuComes(p, i) => MenuComes(p, i)'
      PROVE  /\ client'[p] = "idle" => MenuComes(p, 0)'
             /\ \A i \in 1 .. Len(Path(p)') : Path(p)'[i] \in Stops => MenuComes(p, i)'
  <2>1. \A i \in 1 .. Len(Path(p)) : i \in Nat
    OBVIOUS
  <2>2. QED BY <1>0, <1>1, <2>1 DEF MenuFollows, Stops
<1>2. ASSUME NEW c \in Clients, Accept(c)
      PROVE  /\ client'[p] = "idle" => MenuComes(p, 0)'
             /\ \A i \in 1 .. Len(Path(p)') : Path(p)'[i] \in Stops => MenuComes(p, i)'
  <2>1. /\ recv_pc[c] = "off" /\ client'[c] = "asking"
        /\ \A d \in Clients : d # c => recv_pc'[d] = recv_pc[d] /\ client'[d] = client[d]
        /\ UNCHANGED <<todo, gp_massage_to_send_hade, to_client>>
    BY <1>2 DEF Accept, TypeOK
  <2>2. \A d \in Clients : Path(d)' = Path(d)
    BY <2>1, PathsStay
  <2>3. CASE p = c
    <3>1. Path(p)' = <<>> /\ client'[p] # "idle"
      BY <1>0, <2>1, <2>2, <2>3 DEF Stages
    <3>2. QED BY <3>1
  <2>4. CASE p # c
    <3>1. \A i \in Nat : MenuComes(p, i) => MenuComes(p, i)'
      BY <1>0, <2>1, <2>2, ClientFacts DEF MenuComes, Comes, InTodo
    <3>2. QED BY <1>0, <1>1, <2>1, <2>2, <2>4, <3>1
  <2>5. QED BY <2>3, <2>4
<1>3. ASSUME NEW c \in Clients, ThreadStep(c)
      PROVE  /\ client'[p] = "idle" => MenuComes(p, 0)'
             /\ \A i \in 1 .. Len(Path(p)') : Path(p)'[i] \in Stops => MenuComes(p, i)'
  <2>1. client' = client /\ Path(p)' = Path(p)
    BY <1>0, <1>3, ThreadFrame, PathsStay
  <2>2. \A i \in Nat : MenuComes(p, i) => MenuComes(p, i)'
    BY <1>3, ThreadMenu
  <2>3. QED BY <1>1, <2>1, <2>2
<1>4. ASSUME NEW c \in Clients, Post(c)
      PROVE  /\ client'[p] = "idle" => MenuComes(p, 0)'
             /\ \A i \in 1 .. Len(Path(p)') : Path(p)'[i] \in Stops => MenuComes(p, i)'
  <2>1. client' = client
    BY <1>4 DEF Post, users
  <2>2. QED BY <1>4, <2>1, PostMenu
<1>5. ASSUME NEW c \in Clients, SendStep(c)
      PROVE  /\ client'[p] = "idle" => MenuComes(p, 0)'
             /\ \A i \in 1 .. Len(Path(p)') : Path(p)'[i] \in Stops => MenuComes(p, i)'
  <2>1. UNCHANGED <<recv_pc, client>>
    BY <1>5 DEF SendStep, SendMessage, SendFails, StopWaiting, server, users
  <2>2. Path(p)' = Path(p) /\ \A i \in Nat : \A m : Comes(p, i, m)' <=> Comes(p, i, m)
    BY <1>0, <1>5, <2>1, SendComes
  <2>3. \A i \in Nat : MenuComes(p, i) => MenuComes(p, i)'
    BY <2>1, <2>2 DEF MenuComes
  <2>4. QED BY <1>1, <2>1, <2>2, <2>3
<1>6. CASE UNCHANGED vars
  <2>1. /\ client'[p] = client[p] /\ Path(p)' = Path(p)
        /\ \A i \in Nat : MenuComes(p, i) => MenuComes(p, i)'
    BY <1>6 DEF vars, server, users, Path, MenuComes, Comes, InTodo
  <2>2. QED BY <1>1, <2>1
<1>7. QED BY <1>2, <1>3, <1>4, <1>5, <1>6, AskedIsAnswered, ClientMenu DEF Next, RecvStep, ThreadStep

-----------------------------------------------------------------------------
(* The end of a game. *)

LEMMA ThreadMoves ==
  ASSUME TypeOK, Stages, OneDenial, NEW c \in Clients, ThreadStep(c), MoveIsDue
  PROVE  MoveIsDue' \/ \A p \in Players : InTodo(p, "GAME_ENDED")'
<1>1. PICK q \in Seq(Posts) : Decides(c, q)
  BY ThreadDecides
<1>2. /\ UNCHANGED <<gp_massage_to_send_hade, to_client>>
      /\ \A d \in Clients : d # c => recv_pc'[d] = recv_pc[d] /\ to_server'[d] = to_server[d]
  BY ThreadFrame
<1>3. todo[c] = <<>> /\ todo' = [todo EXCEPT ![c] = q] /\ todo'[c] = q
      /\ \A d \in Clients : Path(d)' = Path(d)
  BY <1>1, <1>2, PathsStay DEF Decides, TypeOK
<1>4. PICK d \in Players : MoveAt(d)
  BY DEF MoveIsDue
<1>5. d \in Clients /\ 0 \in Nat
  BY ClientFacts
<1>6. CASE Comes(d, 0, "SERVER_MOVE_REQUEST")
  <2>1. Comes(d, 0, "SERVER_MOVE_REQUEST")'
    BY <1>3, <1>5, <1>6, ThreadComes
  <2>2. QED BY <2>1 DEF MoveIsDue, MoveAt
<1>7. CASE d # c /\ ~Comes(d, 0, "SERVER_MOVE_REQUEST")
  <2>1. \/ recv_pc'[d] \in Playing \ {"reset"}
        \/ \E i \in 1 .. Len(to_server'[d]) : to_server'[d][i][1] = "CLIENT_PLAYER_MOVE"
    BY <1>2, <1>4, <1>5, <1>7 DEF MoveAt
  <2>2. QED BY <2>1 DEF MoveIsDue, MoveAt
<1>8. CASE d = c /\ recv_pc[c] \in Playing \ {"reset"}
  <2>1. HandleMove(c) /\ ~ResetGame(c)
    BY <1>8 DEF Playing, ThreadStep, Receive, HandleVersus, HandleMove, CheckOpponent, WaitTimesOut,
                ResetGame
  <2>2. CASE LoadTurn(c) \/ StoreTurn(c) \/ Judge(c)
    <3>1. recv_pc'[c] \in Playing \ {"reset"}
      BY <2>2 DEF LoadTurn, StoreTurn, Judge, Playing, TypeOK
    <3>2. QED BY <1>8, <3>1 DEF MoveIsDue, MoveAt
  <2>3. CASE NextTurnOrEnd(c)
    <3>1. \/ q = Both(c, "GAME_ENDED")
          \/ q = Both(c, "TURN_SWITCH") \o To(other_player_ind(c), <<"SERVER_MOVE_REQUEST">>)
      BY <1>3, <2>3 DEF NextTurnOrEnd, TypeOK
    <3>2. CASE q = Both(c, "GAME_ENDED")
      <4>1. Len(q) = 2 /\ q[1] = <<c, "GAME_ENDED">> /\ q[2] = <<other_player_ind(c), "GAME_ENDED">>
        BY <1>8, <3>2, PostsToBoth DEF ServerMessages, GameMessages
      <4>2. 1 \in 1 .. Len(q) /\ 2 \in 1 .. Len(q)
        BY <4>1
      <4>3. ASSUME NEW p \in Players PROVE InTodo(p, "GAME_ENDED")'
        <5>1. p \in Clients /\ (p = c \/ p = other_player_ind(c))
          BY <1>8, ClientFacts
        <5>2. \E k \in 1 .. Len(q) : q[k] = <<p, "GAME_ENDED">>
          BY <4>1, <4>2, <5>1
        <5>3. QED BY <1>3, <5>1, <5>2, ThreadComes
      <4>4. QED BY <4>3
    <3>3. CASE q = Both(c, "TURN_SWITCH") \o To(other_player_ind(c), <<"SERVER_MOVE_REQUEST">>)
      <4>1. PICK o \in Players : o = other_player_ind(c)
        BY <1>8, ClientFacts
      <4>2. Len(q) = 3 /\ q[3] = <<o, "SERVER_MOVE_REQUEST">>
        BY <1>8, <3>3, <4>1, TurnPosts
      <4>3. o \in Clients /\ 3 \in 1 .. Len(q)
        BY <4>2, ClientFacts
      <4>4. InTodo(o, "SERVER_MOVE_REQUEST")'
        BY <1>3, <4>2, <4>3, ThreadComes
      <4>5. QED BY <4>4 DEF MoveIsDue, MoveAt, Comes
    <3>4. QED BY <3>1, <3>2, <3>3
  <2>4. QED BY <2>1, <2>2, <2>3 DEF HandleMove
<1>9. ASSUME d = c, NEW i \in 1 .. Len(to_server[c]), to_server[c][i][1] = "CLIENT_PLAYER_MOVE"
      PROVE  MoveIsDue'
  <2>1. CASE Receive(c)
    <3>1. /\ to_server[c][1] = Head(to_server[c]) /\ to_server'[c] = Tail(to_server[c])
          /\ Len(Tail(to_server[c])) = Len(to_server[c]) - 1 /\ Len(to_server[c]) \in Nat
          /\ \A j \in 1 .. Len(to_server[c]) - 1 : Tail(to_server[c])[j] = to_server[c][j + 1]
      BY <2>1, FirstReceived
    <3>2. CASE i = 1
      <4>1. Head(to_server[c])[1] = "CLIENT_PLAYER_MOVE"
        BY <1>9, <3>1, <3>2
      <4>2. ReceiveMove(c)
        BY <2>1, <4>1 DEF Receive, ReceiveRequest, ReceiveVersus, ReceiveDisconnect, ReceiveEnd
      <4>3. recv_pc'[c] \in Playing \ {"reset"}
        BY <4>2 DEF ReceiveMove, TypeOK, Playing
      <4>4. QED BY <1>9, <4>3 DEF MoveIsDue, MoveAt
    <3>3. CASE i > 1
      <4>1. i - 1 \in 1 .. Len(to_server[c]) - 1 /\ i - 1 + 1 = i
        BY <3>1, <3>3
      <4>2. i - 1 \in 1 .. Len(to_server'[c]) /\ to_server'[c][i - 1][1] = "CLIENT_PLAYER_MOVE"
        BY <1>9, <3>1, <4>1
      <4>3. QED BY <1>9, <4>2 DEF MoveIsDue, MoveAt
    <3>4. QED BY <3>2, <3>3
  <2>2. CASE ~Receive(c)
    <3>1. to_server' = to_server
      BY <2>2 DEF ThreadStep, HandleVersus, HandleMove, CheckOpponent, WaitTimesOut, LoadTurn,
                  StoreTurn, Judge, NextTurnOrEnd, ResetGame
    <3>2. QED BY <1>9, <3>1 DEF MoveIsDue, MoveAt
  <2>3. QED BY <2>1, <2>2
<1>10. QED BY <1>4, <1>6, <1>7, <1>8, <1>9 DEF MoveAt

LEMMA PostMoves ==
  ASSUME TypeOK, Stages, NobodyLeft, NEW c \in Clients, Post(c), MoveIsDue
  PROVE  MoveIsDue'
<1>1. PICK d \in Players : MoveAt(d)
  BY DEF MoveIsDue
<1>2. d \in Clients /\ 0 \in Nat /\ client[d] # "left" /\ 0 <= Len(Path(d))
  BY ClientFacts, PathFacts DEF NobodyLeft
<1>3. Comes(d, 0, "SERVER_MOVE_REQUEST") => Comes(d, 0, "SERVER_MOVE_REQUEST")'
  BY <1>2, PostComes
<1>4. UNCHANGED <<recv_pc, to_server>>
  BY DEF Post
<1>5. QED BY <1>1, <1>3, <1>4 DEF MoveIsDue, MoveAt

LEMMA ClientMoves ==
  ASSUME TypeOK, Stages, AnsweredFirst, NEW c \in Clients, ClientStep(c) \/ ClientBreaks(c),
         NobodyLeft', MoveIsDue
  PROVE  MoveIsDue'
<1>1. PICK d \in Players : MoveAt(d)
  BY DEF MoveIsDue
<1>2. d \in Clients /\ 0 \in Nat
  BY ClientFacts
<1>3. client'[d] # "left" /\ client'[c] # "left"
  BY <1>2 DEF NobodyLeft
<1>4. UNCHANGED recv_pc /\ \A e \in Clients : e # c => to_server'[e] = to_server[e]
  BY ClientFrame DEF server
<1>5. CASE d # c
  <2>1. Comes(d, 0, "SERVER_MOVE_REQUEST") => Comes(d, 0, "SERVER_MOVE_REQUEST")'
    BY <1>2, <1>3, <1>5, ReadComes
  <2>2. QED BY <1>1, <1>2, <1>4, <1>5, <2>1 DEF MoveIsDue, MoveAt
<1>6. CASE d = c
  <2>1. PICK messages \in Seq(ClientMessages) :
          /\ to_server'[c] = to_server[c] \o messages
          /\ \/ messages = <<>> /\ ReadMessage(c)
             \/ messages = << <<"CLIENT_VERSUS">> >> /\ ChooseVersus(c)
             \/ /\ MakeMove(c)
                /\ \E move \in Int : messages = << <<"CLIENT_PLAYER_MOVE", move>> >>
    BY <1>3, ClientSays
  <2>2. PICK s : s = to_server[c]
    OBVIOUS
  <2>3. s \in Seq(ClientMessages) /\ Len(s) \in Nat
    BY <2>2 DEF TypeOK
  <2>4. /\ Len(s \o messages) = Len(s) + Len(messages)
        /\ \A i \in 1 .. Len(s) : (s \o messages)[i] = s[i]
        /\ \A i \in 1 .. Len(messages) : (s \o messages)[Len(s) + i] = messages[i]
    BY <2>3, ConcatFacts
  <2>5. ASSUME NEW i \in 1 .. Len(s), s[i][1] = "CLIENT_PLAYER_MOVE" PROVE MoveIsDue'
    <3>1. i \in 1 .. Len(s \o messages) /\ (s \o messages)[i][1] = "CLIENT_PLAYER_MOVE"
      BY <2>3, <2>4, <2>5
    <3>2. QED BY <1>6, <2>1, <2>2, <3>1 DEF MoveIsDue, MoveAt
  <2>6. CASE MakeMove(c) /\ \E move \in Int : messages = << <<"CLIENT_PLAYER_MOVE", move>> >>
    <3>1. PICK move \in Int : messages = << <<"CLIENT_PLAYER_MOVE", move>> >>
      BY <2>6
    <3>2. Len(messages) = 1 /\ messages[1][1] = "CLIENT_PLAYER_MOVE"
      BY <3>1
    <3>3. Len(s) + 1 \in 1 .. Len(s \o messages) /\ 1 \in 1 .. Len(messages)
      BY <2>3, <2>4, <3>2
    <3>4. (s \o messages)[Len(s) + 1][1] = "CLIENT_PLAYER_MOVE"
      BY <2>4, <3>2, <3>3
    <3>5. QED BY <1>6, <2>1, <2>2, <3>3, <3>4 DEF MoveIsDue, MoveAt
  <2>7. CASE ReadMessage(c) \/ ChooseVersus(c)
    <3>1. Head(to_client[c]) # "SERVER_MOVE_REQUEST"
      BY <2>7 DEF ReadMessage, ChooseVersus
    <3>2. Comes(c, 0, "SERVER_MOVE_REQUEST") => Comes(c, 0, "SERVER_MOVE_REQUEST")'
      BY <1>2, <1>3, <3>1, ReadComes
    <3>3. QED BY <1>1, <1>4, <1>6, <2>2, <2>5, <3>2 DEF MoveIsDue, MoveAt
  <2>8. QED BY <2>1, <2>6, <2>7
<1>7. QED BY <1>5, <1>6

(* The two halves of EndFollows for a player.                              *)
EndComes(p) ==
  /\ client[p] = "game" => Comes(p, 0, "GAME_ENDED")
  /\ \A i \in 1 .. Len(Path(p)) : Path(p)[i] = "GAME_STARTED" => Comes(p, i, "GAME_ENDED")

LEMMA PostEnds ==
  ASSUME TypeOK, Stages, Complete_todo, NobodyLeft, NEW c \in Clients, Post(c), ~MoveIsDue',
         NEW p \in Players, EndComes(p)
  PROVE  EndComes(p)'
<1>0. p \in Clients /\ 0 \in Nat /\ Len(Path(p)) \in Nat
  BY ClientFacts, PathFacts
<1>1. PICK to \in Clients, m \in ServerMessages :
        /\ todo[c] \in Seq(Posts) /\ todo[c] # <<>> /\ Head(todo[c]) = <<to, m>>
        /\ todo' = [todo EXCEPT ![c] = Tail(todo[c])]
        /\ \A d \in Clients : d # to => Path(d)' = Path(d)
        /\ \/ Path(to)' = Append(Path(to), m)
           \/ client[to] = "left" /\ Path(to)' = Path(to)
  BY PostPaths
<1>2. client' = client /\ client[p] # "left"
  BY <1>0 DEF Post, users, NobodyLeft
<1>3. ASSUME NEW i \in Nat, i <= Len(Path(p)), Comes(p, i, "GAME_ENDED") PROVE Comes(p, i, "GAME_ENDED")'
  BY <1>0, <1>2, <1>3, PostComes
<1>4. client'[p] = "game" => Comes(p, 0, "GAME_ENDED")'
  BY <1>0, <1>2, <1>3 DEF EndComes
<1>5. ASSUME NEW i \in 1 .. Len(Path(p)), Path(p)[i] = "GAME_STARTED" PROVE Comes(p, i, "GAME_ENDED")'
  BY <1>0, <1>3, <1>5 DEF EndComes
<1>6. m # "GAME_STARTED"
  <2>1. SUFFICES ASSUME m = "GAME_STARTED" PROVE FALSE
    OBVIOUS
  <2>2. todo[c][1] = <<to, m>> /\ 1 \in 1 .. Len(todo[c])
    BY <1>1, TailFacts
  <2>3. Complete(c, todo[c], recv_pc[c] = "reset") /\ todo[c][1][2] = "GAME_STARTED"
    BY <2>1, <2>2 DEF Complete_todo
  <2>4. PICK d \in Players : Follows(todo[c], 1, <<d, "SERVER_MOVE_REQUEST">>)
    BY <2>2, <2>3 DEF Complete
  <2>5. InTodo(d, "SERVER_MOVE_REQUEST")'
    BY <1>1, <2>4, RestComes, ClientFacts
  <2>6. QED BY <2>5 DEF MoveIsDue, MoveAt, Comes
<1>7. ASSUME NEW i \in 1 .. Len(Path(p)'), Path(p)'[i] = "GAME_STARTED" PROVE Comes(p, i, "GAME_ENDED")'
  <2>1. CASE Path(p)' = Path(p)
    BY <1>5, <1>7, <2>1
  <2>2. CASE Path(p)' = Append(Path(p), m)
    <3>1. PICK s : s = Path(p)
      OBVIOUS
    <3>2. s \in Seq(ServerMessages) /\ Path(p)' = Append(s, m) /\ Len(s) \in Nat
      BY <1>0, <2>2, <3>1, PathFacts
    <3>3. Len(Append(s, m)) = Len(s) + 1 /\ Append(s, m)[Len(s) + 1] = m
          /\ \A j \in 1 .. Len(s) : Append(s, m)[j] = s[j]
      BY <3>2, AppendFacts
    <3>4. i \in 1 .. Len(s)
      <4>1. i \in 1 .. Len(s) + 1
        BY <3>2, <3>3
      <4>2. i # Len(s) + 1
        BY <1>6, <1>7, <3>2, <3>3
      <4>3. QED BY <3>2, <4>1, <4>2
    <3>5. QED BY <1>5, <1>7, <3>1, <3>2, <3>3, <3>4
  <2>3. QED BY <1>0, <1>1, <2>1, <2>2
<1>8. QED BY <1>4, <1>7 DEF EndComes

LEMMA ClientEnds ==
  ASSUME TypeOK, Stages, AnsweredFirst, NEW c \in Clients, ClientStep(c) \/ ClientBreaks(c),
         NobodyLeft', NEW p \in Players, EndComes(p)
  PROVE  EndComes(p)'
<1>0. p \in Clients /\ 0 \in Nat /\ 0 + 1 = 1
  BY ClientFacts
<1>1. client'[p] # "left" /\ \A d \in Clients : d # c => client'[d] = client[d]
  BY <1>0, ClientFrame DEF NobodyLeft
<1>2. CASE p # c
  <2>1. Path(p)' = Path(p) /\ \A i \in Nat : \A m : Comes(p, i, m)' <=> Comes(p, i, m)
    BY <1>0, <1>1, <1>2, ReadComes
  <2>2. client'[p] = client[p] /\ \A i \in 1 .. Len(Path(p)) : i \in Nat
    BY <1>0, <1>1, <1>2
  <2>3. QED BY <1>0, <2>1, <2>2 DEF EndComes
<1>3. CASE p = c
  <2>1. /\ Path(p) # <<>> /\ Head(to_client[p]) = Head(Path(p)) /\ Path(p)' = Tail(Path(p))
        /\ ReadMessage(c) \/ ChooseVersus(c) \/ MakeMove(c)
    BY <1>1, <1>3, ClientFrame
  <2>2. PICK s : s = Path(p)
    OBVIOUS
  <2>3. s \in Seq(ServerMessages) /\ s # <<>> /\ Path(p)' = Tail(s) /\ Head(to_client[p]) = Head(s)
    BY <1>0, <2>1, <2>2, PathFacts
  <2>4. /\ Len(Tail(s)) = Len(s) - 1 /\ Len(s) \in Nat /\ Len(s) > 0 /\ Head(s) = s[1]
        /\ \A i \in 1 .. Len(s) - 1 : Tail(s)[i] = s[i + 1]
    BY <2>3, TailFacts
  <2>5. ASSUME NEW i \in Nat, Comes(p, i + 1, "GAME_ENDED") PROVE Comes(p, i, "GAME_ENDED")'
    BY <1>0, <1>1, <1>3, <2>5, ReadComes
  <2>6. ASSUME NEW i \in 1 .. Len(Path(p)'), Path(p)'[i] = "GAME_STARTED"
        PROVE  Comes(p, i, "GAME_ENDED")'
    <3>1. i \in Nat /\ i \in 1 .. Len(s) - 1 /\ i + 1 \in 1 .. Len(s) /\ s[i + 1] = Path(p)'[i]
      BY <2>3, <2>4
    <3>2. Comes(p, i + 1, "GAME_ENDED")
      BY <2>2, <2>6, <3>1 DEF EndComes
    <3>3. QED BY <2>5, <3>1, <3>2
  <2>7. ASSUME client'[p] = "game" PROVE Comes(p, 0, "GAME_ENDED")'
    <3>1. CASE Head(s) = "GAME_STARTED"
      <4>1. 1 \in 1 .. Len(s) /\ s[1] = "GAME_STARTED"
        BY <2>4, <3>1
      <4>2. Comes(p, 0 + 1, "GAME_ENDED")
        BY <1>0, <2>2, <4>1 DEF EndComes
      <4>3. QED BY <1>0, <2>5, <4>2
    <3>2. CASE Head(s) # "GAME_STARTED"
      <4>1. client[p] = "game" /\ Head(s) # "GAME_ENDED"
        <5>1. CASE ReadMessage(c)
          <6>1. client'[p] = told(c, Head(s))
            BY <1>0, <1>3, <2>3, <5>1 DEF ReadMessage, TypeOK
          <6>2. told(c, Head(s)) = "game" => client[c] = "game" /\ Head(s) # "GAME_ENDED"
            BY <3>2 DEF told
          <6>3. QED BY <1>3, <2>7, <6>1, <6>2
        <5>2. CASE ChooseVersus(c)
          <6>1. client'[p] = "versus"
            BY <1>0, <1>3, <5>2 DEF ChooseVersus, TypeOK
          <6>2. QED BY <2>7, <6>1
        <5>3. CASE MakeMove(c)
          BY <1>3, <2>3, <2>7, <5>3 DEF MakeMove
        <5>4. QED BY <2>1, <5>1, <5>2, <5>3
      <4>2. Comes(p, 0, "GAME_ENDED")
        BY <4>1 DEF EndComes
      <4>3. QED BY <1>0, <1>1, <1>3, <2>3, <4>1, <4>2, ReadComes
    <3>3. QED BY <3>1, <3>2
  <2>8. QED BY <2>6, <2>7 DEF EndComes
<1>4. QED BY <1>2, <1>3

LEMMA NextEnds ==
  TypeOK /\ Stages /\ Complete_todo /\ NoGameYet /\ Asking /\ OneDenial /\ EndFollows /\ [Next]_vars
    => EndFollows'
<1> SUFFICES ASSUME TypeOK, Stages, Complete_todo, NoGameYet, Asking, OneDenial, EndFollows, [Next]_vars,
                    NobodyLeft', ~MoveIsDue', NEW p \in Players
             PROVE  EndComes(p)'
  BY DEF EndFollows, EndComes
<1>0. p \in Clients /\ 0 \in Nat /\ AnsweredFirst
  BY ClientFacts, AskedIsAnswered
<1>1. ASSUME NobodyLeft, ~MoveIsDue PROVE EndComes(p)
  BY <1>1 DEF EndFollows, EndComes
<1>2. ASSUME NEW c \in Clients, Accept(c) PROVE EndComes(p)'
  <2>1. /\ recv_pc[c] = "off" /\ recv_pc'[c] = "recv" /\ client'[c] = "asking"
        /\ \A d \in Clients : d # c => /\ recv_pc'[d] = recv_pc[d] /\ client'[d] = client[d]
                                       /\ to_server'[d] = to_server[d]
        /\ UNCHANGED <<todo, gp_massage_to_send_hade, to_client>>
    BY <1>2 DEF Accept, TypeOK
  <2>2. /\ client[c] = "out" /\ to_server[c] = <<>>
        /\ \A d \in Clients : Path(d)' = Path(d)
    BY <2>1, PathsStay DEF Stages
  <2>3. \A d \in Clients : \A i, m : Comes(d, i, m)' <=> Comes(d, i, m)
    BY <2>1, <2>2 DEF Comes, InTodo
  <2>4. NobodyLeft
    BY <2>1, <2>2 DEF NobodyLeft
  <2>5. ASSUME NEW d \in Players, MoveAt(d) PROVE MoveAt(d)'
    <3>1. d \in Clients
      BY ClientFacts
    <3>2. CASE Comes(d, 0, "SERVER_MOVE_REQUEST")
      BY <2>3, <3>1, <3>2 DEF MoveAt
    <3>3. CASE ~Comes(d, 0, "SERVER_MOVE_REQUEST")
      <4>1. d # c
        BY <2>1, <2>2, <2>5, <3>3 DEF MoveAt, Playing
      <4>2. QED BY <2>1, <2>5, <3>1, <3>3, <4>1 DEF MoveAt
    <3>4. QED BY <3>2, <3>3
  <2>6. EndComes(p)
    BY <1>1, <2>4, <2>5 DEF MoveIsDue, MoveAt
  <2>7. client'[p] = "game" => client[p] = "game"
    BY <1>0, <2>1
  <2>8. QED BY <1>0, <2>2, <2>3, <2>6, <2>7 DEF EndComes
<1>3. ASSUME NEW c \in Clients, ThreadStep(c) PROVE EndComes(p)'
  <2>1. /\ UNCHANGED <<client, gp_massage_to_send_hade, to_client>>
        /\ \A d \in Clients : Path(d)' = Path(d)
    BY <1>3, ThreadFrame, PathsStay
  <2>2. CASE MoveIsDue
    <3>1. InTodo(p, "GAME_ENDED")'
      BY <1>3, <2>2, ThreadMoves
    <3>2. QED BY <3>1 DEF EndComes, Comes
  <2>3. CASE ~MoveIsDue
    <3>1. EndComes(p)
      BY <1>1, <2>1, <2>3 DEF NobodyLeft
    <3>2. PICK q \in Seq(Posts) : Decides(c, q)
      BY <1>3, ThreadDecides
    <3>3. ASSUME NEW i \in Nat, Comes(p, i, "GAME_ENDED") PROVE Comes(p, i, "GAME_ENDED")'
      BY <1>0, <2>1, <3>2, <3>3, ThreadComes DEF Decides
    <3>4. \A i \in 1 .. Len(Path(p)) : i \in Nat
      OBVIOUS
    <3>5. QED BY <1>0, <2>1, <3>1, <3>3, <3>4 DEF EndComes
  <2>4. QED BY <2>2, <2>3
<1>4. ASSUME NEW c \in Clients, Post(c) PROVE EndComes(p)'
  <2>1. client' = client
    BY <1>4 DEF Post, users
  <2>2. NobodyLeft
    BY <2>1 DEF NobodyLeft
  <2>3. ~MoveIsDue
    BY <1>4, <2>2, PostMoves
  <2>4. QED BY <1>1, <1>4, <2>2, <2>3, PostEnds
<1>5. ASSUME NEW c \in Clients, SendStep(c) PROVE EndComes(p)'
  <2>1. UNCHANGED <<recv_pc, client, to_server>>
    BY <1>5 DEF SendStep, SendMessage, SendFails, StopWaiting, server, users
  <2>2. NobodyLeft
    BY <2>1 DEF NobodyLeft
  <2>3. ASSUME NEW d \in Players
        PROVE  Path(d)' = Path(d) /\ \A i \in Nat : \A m : Comes(d, i, m)' <=> Comes(d, i, m)
    BY <1>5, <2>2, SendComes, ClientFacts DEF NobodyLeft
  <2>4. ~MoveIsDue
    BY <1>0, <2>1, <2>3 DEF MoveIsDue, MoveAt
  <2>5. EndComes(p) /\ \A i \in 1 .. Len(Path(p)) : i \in Nat
    BY <1>1, <2>2, <2>4
  <2>6. QED BY <1>0, <2>1, <2>3, <2>5 DEF EndComes
<1>6. ASSUME NEW c \in Clients, ClientStep(c) \/ ClientBreaks(c) PROVE EndComes(p)'
  <2>1. client[c] # "left" /\ \A d \in Clients : d # c => client'[d] = client[d]
    BY <1>0, <1>6, ClientFrame
  <2>2. NobodyLeft
    BY <2>1 DEF NobodyLeft
  <2>3. ~MoveIsDue
    BY <1>0, <1>6, ClientMoves
  <2>4. QED BY <1>0, <1>1, <1>6, <2>2, <2>3, ClientEnds
<1>7. CASE UNCHANGED vars
  <2>1. EndComes(p)
    BY <1>1, <1>7 DEF vars, server, users, NobodyLeft, MoveIsDue, MoveAt, Comes, Path, InTodo
  <2>2. QED BY <1>7, <2>1 DEF vars, server, users, EndComes, Comes, Path, InTodo
<1>8. QED BY <1>2, <1>3, <1>4, <1>5, <1>6, <1>7 DEF Next, RecvStep, ThreadStep

-----------------------------------------------------------------------------
(* The theorems. *)

LEMMA InitDialogue == Init => DialogueInv
<1> SUFFICES ASSUME Init PROVE DialogueInv
  OBVIOUS
<1>1. TypeOK
  <2>1. num \in [Clients -> Registers]
    BY DEF Init, Registers
  <2>2. QED BY <2>1 DEF Init, TypeOK
<1>2. \A c \in Clients : /\ recv_pc[c] = "off" /\ todo[c] = <<>> /\ send_pc[c] = "off"
                         /\ to_server[c] = <<>> /\ client[c] = "out"
  BY DEF Init
<1>3. \A c \in Clients : Path(c) = <<>>
  <2>1. ASSUME NEW c \in Clients PROVE Path(c) = <<>>
    <3>1. to_client[c] = <<>> /\ gp_massage_to_send_hade[c] = <<>>
      BY DEF Init
    <3>2. QED BY <1>1, <3>1, PathFacts
  <2>2. QED BY <2>1
<1>4. Players \subseteq Clients /\ Third \in Clients
  BY ClientFacts
<1>5. Stages
  BY <1>2, <1>3 DEF Stages
<1>6. Complete_todo
  BY <1>2, CompleteNothing DEF Complete_todo
<1>7. \A p \in Players : ~g_player_vs_req[p]
  BY DEF Init
<1>8. NoGameYet
  BY <1>2, <1>3, <1>4, <1>7 DEF NoGameYet, Playing
<1>9. Asking
  BY <1>2 DEF Asking
<1>10. OneDenial
  <2>1. Asks(to_server[Third]) = 0 /\ Len(Path(Third)) = 0 /\ Len(todo[Third]) = 0
        /\ Len(to_server[Third]) = 0
    BY <1>2, <1>3, <1>4 DEF Asks
  <2>2. QED BY <1>2, <1>4, <2>1 DEF OneDenial
<1>11. VersusPends
  BY <1>2, <1>4 DEF VersusPends
<1>12. MenuFollows
  BY <1>2, <1>3, <1>4 DEF MenuFollows
<1>13. EndFollows
  BY <1>2, <1>3, <1>4 DEF EndFollows
<1>14. QED BY <1>1, <1>5, <1>6, <1>8, <1>9, <1>10, <1>11, <1>12, <1>13 DEF DialogueInv

(* The inductive invariant of the dialogue: where every thread and client  *)
(* is, and what is on its way to whom.                                     *)
THEOREM DialogueInvariant == Spec => []DialogueInv
<1>1. DialogueInv /\ [Next]_vars => DialogueInv'
  BY NextTypes, NextStages, NextNoGame, NextAsking, NextDenial, NextVersus, NextMenu, NextEnds
     DEF DialogueInv
<1>2. QED BY <1>1, InitDialogue, PTL DEF Spec

(* Whoever comes, a client, the only one of its slot, hears of nothing     *)
(* before it hears whether it is let in (server_send_response answers      *)
(* CLIENT_REQUEST first).                                                  *)
THEOREM AnsweredFirstHolds == Spec => []AnsweredFirst
<1>1. DialogueInv => AnsweredFirst
  BY AskedIsAnswered DEF DialogueInv
<1>2. QED BY <1>1, DialogueInvariant, PTL

(* The third client gets the denial, once, and nothing else.               *)
THEOREM ThirdIsDeniedHolds == Spec => []ThirdIsDenied
<1>1. ASSUME DialogueInv, NEW c \in Clients \ Players
      PROVE  /\ \A i \in DOMAIN to_client[c] : to_client[c][i] = "SERVER_DENIED"
             /\ Len(to_client[c]) + Len(gp_massage_to_send_hade[c]) + Len(todo[c]) <= 1
             /\ client[c] \in {"out", "asking", "left"}
  <2>1. c = Third /\ TypeOK /\ OneDenial
    BY <1>1, ClientFacts DEF DialogueInv
  <2>2. /\ to_client[c] \in Seq(ServerMessages) /\ gp_massage_to_send_hade[c] \in Seq(ServerMessages)
        /\ Len(Path(c)) = Len(to_client[c]) + Len(gp_massage_to_send_hade[c])
        /\ \A i \in 1 .. Len(to_client[c]) : Path(c)[i] = to_client[c][i]
    BY <2>1, PathFacts
  <2>3. Len(to_client[c]) \in Nat /\ Len(gp_massage_to_send_hade[c]) \in Nat /\ Len(todo[c]) \in Nat
        /\ DOMAIN to_client[c] = 1 .. Len(to_client[c])
    BY <2>1, <2>2 DEF TypeOK
  <2>4. PICK a \in Nat, b \in Nat, d \in Nat :
          a = Len(to_client[c]) /\ b = Len(gp_massage_to_send_hade[c]) /\ d = Len(todo[c])
    BY <2>3
  <2>5. Asks(to_server[c]) \in {0, 1}
    BY DEF Asks
  <2>6. Len(Path(c)) + Len(todo[c]) + Asks(to_server[c]) <= 1
    BY <2>1 DEF OneDenial
  <2>7. a + b + d + Asks(to_server[c]) <= 1 /\ Len(Path(c)) = a + b
    BY <2>2, <2>4, <2>6
  <2>8. a + b + d <= 1
    BY <2>5, <2>7
  <2>9. \A i \in 1 .. Len(to_client[c]) : i \in 1 .. Len(Path(c))
    <3>1. \A i \in 1 .. a : i \in 1 .. a + b
      OBVIOUS
    <3>2. QED BY <2>4, <2>7, <3>1
  <2>10. \A i \in DOMAIN to_client[c] : to_client[c][i] = "SERVER_DENIED"
    BY <2>1, <2>2, <2>3, <2>9 DEF OneDenial
  <2>11. QED BY <2>1, <2>4, <2>8, <2>10 DEF OneDenial
<1>2. DialogueInv => ThirdIsDenied
  BY <1>1 DEF ThirdIsDenied
<1>3. QED BY <1>2, DialogueInvariant, PTL

(* A request for a game is not forgotten, and the wait for the other       *)
(* player has no event that could end it without an answer.                *)
THEOREM VersusIsPendingHolds == Spec => []VersusIsPending
<1>1. ASSUME DialogueInv, NEW p \in Players, client[p] = "versus"
      PROVE  \/ recv_pc[p] \in {"check", "wait"}
             \/ <<"CLIENT_VERSUS">> \in Range(to_server[p])
             \/ \E message \in Range(gp_massage_to_send_hade[p]) \cup Range(to_client[p]) :
                  settles(message)
             \/ \E c \in Clients : \E post \in Range(todo[c]) : post[1] = p /\ settles(post[2])
  <2>0. TypeOK /\ p \in Clients
    BY <1>1, ClientFacts DEF DialogueInv
  <2>1. Pending(p)
    BY <1>1 DEF DialogueInv, VersusPends
  <2>2. CASE \E i \in 1 .. Len(to_server[p]) : to_server[p][i] = <<"CLIENT_VERSUS">>
    <3>1. DOMAIN to_server[p] = 1 .. Len(to_server[p])
      BY <2>0 DEF TypeOK
    <3>2. QED BY <2>2, <3>1 DEF Range
  <2>3. ASSUME NEW m \in Settles, InTodo(p, m)
        PROVE  \E c \in Clients : \E post \in Range(todo[c]) : post[1] = p /\ settles(post[2])
    <3>1. PICK c \in Clients : \E k \in 1 .. Len(todo[c]) : todo[c][k] = <<p, m>>
      BY <2>3 DEF InTodo
    <3>2. PICK k \in 1 .. Len(todo[c]) : todo[c][k] = <<p, m>>
      BY <3>1
    <3>3. DOMAIN todo[c] = 1 .. Len(todo[c])
      BY <2>0 DEF TypeOK
    <3>4. <<p, m>> \in Range(todo[c])
      BY <3>2, <3>3 DEF Range
    <3>5. settles(m)
      BY DEF settles, Settles
    <3>6. <<p, m>>[1] = p /\ <<p, m>>[2] = m
      OBVIOUS
    <3>7. QED BY <3>4, <3>5, <3>6
  <2>4. ASSUME NEW m \in Settles, Follows(Path(p), 0, m)
        PROVE  \E message \in Range(gp_massage_to_send_hade[p]) \cup Range(to_client[p]) :
                 settles(message)
    <3>1. PICK j \in 1 .. Len(Path(p)) : Path(p)[j] = m
      BY <2>4 DEF Follows
    <3>2. PICK s, t : s = to_client[p] /\ t = gp_massage_to_send_hade[p]
      OBVIOUS
    <3>3. /\ s \in Seq(ServerMessages) /\ t \in Seq(ServerMessages)
          /\ Len(Path(p)) = Len(s) + Len(t)
          /\ \A i \in 1 .. Len(s) : Path(p)[i] = s[i]
          /\ \A i \in 1 .. Len(t) : Path(p)[Len(s) + i] = t[i]
      BY <2>0, <3>2, PathFacts
    <3>4. Len(s) \in Nat /\ Len(t) \in Nat /\ DOMAIN s = 1 .. Len(s) /\ DOMAIN t = 1 .. Len(t)
      BY <3>3
    <3>5. m \in Range(s) \/ m \in Range(t)
      <4>1. CASE j <= Len(s)
        <5>1. j \in DOMAIN s /\ s[j] = m
          BY <3>1, <3>3, <3>4, <4>1
        <5>2. QED BY <5>1 DEF Range
      <4>2. CASE j > Len(s)
        <5>1. j - Len(s) \in 1 .. Len(t) /\ j = Len(s) + (j - Len(s))
          BY <3>1, <3>3, <3>4, <4>2
        <5>2. PICK k \in 1 .. Len(t) : j = Len(s) + k
          BY <5>1
        <5>3. k \in DOMAIN t /\ t[k] = m
          BY <3>1, <3>3, <3>4, <5>2
        <5>4. QED BY <5>3 DEF Range
      <4>3. QED BY <3>1, <3>3, <3>4, <4>1, <4>2
    <3>6. settles(m)
      BY DEF settles, Settles
    <3>7. QED BY <3>2, <3>5, <3>6
  <2>5. QED BY <2>1, <2>2, <2>3, <2>4 DEF Pending, Comes
<1>2. DialogueInv => VersusIsPending
  <2>1. DialogueInv => \A p \in Players : recv_pc[p] = "wait" => ~g_wait_for_client_event[p]
    BY DEF DialogueInv, VersusPends
  <2>2. QED BY <1>1, <2>1 DEF VersusIsPending
<1>3. QED BY <1>2, DialogueInvariant, PTL

(* While nobody leaves the server never falls silent: when nothing is      *)
(* under way, each state a client could be in is one that it leaves, so    *)
(* nobody is connected.                                                    *)
THEOREM NeverSilentHolds == Spec => []NeverSilent
<1>1. ASSUME DialogueInv, Quiet, NobodyLeft, NEW c \in Clients
      PROVE  client[c] = "out"
  <2>1. TypeOK
    BY <1>1 DEF DialogueInv
  <2>2. /\ todo[c] = <<>> /\ to_server[c] = <<>>
        /\ \A d \in Clients : Path(d) = <<>> /\ todo[d] = <<>> /\ Len(todo[d]) = 0 /\ Len(Path(d)) = 0
    <3>1. \A d \in Clients : Path(d) = <<>>
      BY <1>1, <2>1, PathFacts DEF Quiet
    <3>2. QED BY <1>1, <3>1 DEF Quiet
  <2>3. \A p \in Players : \A m : ~Comes(p, 0, m)
    <3>1. \A p \in Players : p \in Clients
      BY ClientFacts
    <3>2. \A p \in Clients : \A m : ~Follows(Path(p), 0, m)
      BY <2>2 DEF Follows
    <3>3. \A p \in Clients : \A m : ~InTodo(p, m)
      BY <2>2 DEF InTodo
    <3>4. QED BY <3>1, <3>2, <3>3 DEF Comes
  <2>4. client[c] # "asking"
    BY <1>1, <2>2 DEF DialogueInv, Asking
  <2>5. CASE c = Third
    BY <1>1, <2>4, <2>5 DEF DialogueInv, OneDenial, NobodyLeft
  <2>6. CASE c \in Players
    <3>1. \A p \in Players : recv_pc[p] \notin Playing \cup {"check", "wait"}
      BY <1>1, ClientFacts DEF Quiet, Playing
    <3>2. client[c] # "idle"
      <4>1. client[c] # "left" /\ (client[c] = "idle" => MenuComes(c, 0))
        BY <1>1, <2>6 DEF DialogueInv, MenuFollows, NobodyLeft
      <4>2. ~MenuComes(c, 0)
        BY <2>3, <2>6, <3>1 DEF MenuComes, Playing
      <4>3. QED BY <4>1, <4>2
    <3>3. client[c] # "versus"
      <4>1. client[c] = "versus" => Pending(c)
        BY <1>1, <2>6 DEF DialogueInv, VersusPends
      <4>2. Len(to_server[c]) = 0
        BY <2>2
      <4>3. ~Pending(c)
        BY <2>3, <2>6, <3>1, <4>2 DEF Pending
      <4>4. QED BY <4>1, <4>3
    <3>4. client[c] # "game"
      <4>1. \A p \in Players : Len(to_server[p]) = 0
        BY <1>1, ClientFacts DEF Quiet
      <4>2. ~MoveIsDue
        BY <2>3, <3>1, <4>1 DEF MoveIsDue, MoveAt
      <4>3. client[c] = "game" => Comes(c, 0, "GAME_ENDED")
        BY <1>1, <2>6, <4>2 DEF DialogueInv, EndFollows
      <4>4. QED BY <2>3, <2>6, <4>3
    <3>5. QED BY <1>1, <2>1, <2>4, <3>2, <3>3, <3>4 DEF TypeOK, NobodyLeft
  <2>7. QED BY <2>5, <2>6, ClientFacts
<1>2. DialogueInv => NeverSilent
  BY <1>1 DEF NeverSilent, NobodyLeft
<1>3. QED BY <1>2, DialogueInvariant, PTL
-----------------------------------------------------------------------------
(***************************************************************************)
(* The rule of the game.  tlapm knows no induction, so that a fact about   *)
(* every number is proved from a least number that refutes it.             *)
(***************************************************************************)
(* Induction: a set of naturals without a least element is empty.          *)
LEMMA LeastNatural ==
  ASSUME NEW T, T \subseteq Nat, T # {}
  PROVE  \E n \in T : \A m \in Nat : m < n => m \notin T
<1> DEFINE R == {ss \in Nat \X Nat : ss[1] < ss[2]}
<1>1. IsWellFoundedOn(R, Nat)
  BY NatLessThanWellFounded DEF OpToRel
<1>2. \A x, y \in Nat : <<y, x>> \in R <=> y < x
  OBVIOUS
<1> HIDE DEF R
<1>3. PICK n \in T : \A y \in T : ~(<<y, n>> \in R)
  BY <1>1, WFMin
<1>4. QED BY <1>2, <1>3

(* A recursion from n to n \div 10, as long as n is one of goes.           *)
solves(f, goes, base) ==
  f = [n \in Nat |-> IF n \in goes THEN f[n \div 10] ELSE base[n]]
solves_to(f, m, goes, base) ==
  f = [n \in 0 .. m |-> IF n \in goes THEN f[n \div 10] ELSE base[n]]

LEMMA Tenth == \A n \in Nat \ {0} : n \div 10 \in Nat /\ n \div 10 < n
  OBVIOUS

LEMMA SolutionUpTo ==
  ASSUME NEW goes \in SUBSET (Nat \ {0}), NEW base
  PROVE  \A m \in Nat : \E f : solves_to(f, m, goes, base)
<1> DEFINE T == {m \in Nat : ~\E f : solves_to(f, m, goes, base)}
<1> SUFFICES ASSUME T # {} PROVE FALSE
  OBVIOUS
<1>1. PICK m \in T : \A k \in Nat : k < m => k \notin T
  BY LeastNatural
<1>2. CASE m = 0
  <2> DEFINE g == [n \in 0 .. 0 |-> base[n]]
  <2>1. \A n \in 0 .. 0 : n \notin goes
    OBVIOUS
  <2>2. g = [n \in 0 .. 0 |-> IF n \in goes THEN g[n \div 10] ELSE base[n]]
    BY <2>1
  <2>3. solves_to(g, 0, goes, base)
    BY <2>2 DEF solves_to
  <2>4. QED BY <1>2, <2>3
<1>3. CASE m # 0
  <2>1. m \in Nat /\ m - 1 \in Nat /\ m - 1 < m
    BY <1>3
  <2>2. PICK g : solves_to(g, m - 1, goes, base)
    BY <1>1, <2>1
  <2> DEFINE h == [n \in 0 .. m |-> IF n \in goes THEN g[n \div 10] ELSE base[n]]
  <2>3. \A n \in 0 .. m - 1 : g[n] = h[n]
    <3>1. \A n \in 0 .. m - 1 : g[n] = IF n \in goes THEN g[n \div 10] ELSE base[n]
      BY <2>2 DEF solves_to
    <3>2. \A n \in 0 .. m - 1 : n \in 0 .. m
      BY <2>1
    <3>3. QED BY <3>1, <3>2
  <2>4. \A n \in 0 .. m : n \in goes => n \div 10 \in 0 .. m - 1
    BY <2>1, Tenth
  <2>5. \A n \in 0 .. m : n \in goes => g[n \div 10] = h[n \div 10]
    <3> HIDE DEF h
    <3> QED BY <2>3, <2>4
  <2>6. h = [n \in 0 .. m |-> IF n \in goes THEN h[n \div 10] ELSE base[n]]
    BY <2>5
  <2>7. solves_to(h, m, goes, base)
    BY <2>6 DEF solves_to
  <2>8. QED BY <2>7, <1>1
<1>4. QED BY <1>2, <1>3

agree(f, g, m, k) == \A n \in (0 .. m) \cap (0 .. k) : f[n] = g[n]

LEMMA SolutionUnique ==
  ASSUME NEW goes \in SUBSET (Nat \ {0}), NEW base, NEW f, NEW g,
         NEW m \in Nat, NEW k \in Nat,
         solves_to(f, m, goes, base), solves_to(g, k, goes, base)
  PROVE  agree(f, g, m, k)
<1> DEFINE T == {n \in (0 .. m) \cap (0 .. k) : f[n] # g[n]}
<1>1. SUFFICES ASSUME T # {} PROVE FALSE
  BY DEF agree
<1>2. T \subseteq Nat
  OBVIOUS
<1>3. PICK n \in T : \A j \in Nat : j < n => j \notin T
  BY <1>1, <1>2, LeastNatural
<1>4. /\ f[n] = IF n \in goes THEN f[n \div 10] ELSE base[n]
      /\ g[n] = IF n \in goes THEN g[n \div 10] ELSE base[n]
  BY <1>3 DEF solves_to
<1>5. n \in goes
  BY <1>3, <1>4
<1>6. n \div 10 \in Nat /\ n \div 10 < n
  BY <1>5, Tenth
<1>7. n \div 10 \in (0 .. m) \cap (0 .. k)
  BY <1>3, <1>6
<1>8. f[n \div 10] = g[n \div 10]
  BY <1>3, <1>6, <1>7
<1>9. QED BY <1>3, <1>4, <1>5, <1>8

LEMMA SolutionExists ==
  ASSUME NEW goes \in SUBSET (Nat \ {0}), NEW V, NEW base \in [Nat -> V]
  PROVE  \E f : solves(f, goes, base) /\ \A n \in Nat : f[n] \in V
<1> DEFINE to(n) == CHOOSE f : solves_to(f, n, goes, base)
           F == [n \in Nat |-> to(n)[n]]
<1>1. \A n \in Nat : solves_to(to(n), n, goes, base)
  BY SolutionUpTo
<1> HIDE DEF to
<1>2. \A n \in Nat : F[n] = to(n)[n]
  OBVIOUS
<1>3. \A n \in Nat : F[n] = IF n \in goes THEN F[n \div 10] ELSE base[n]
  <2> SUFFICES ASSUME NEW n \in Nat
               PROVE  F[n] = IF n \in goes THEN F[n \div 10] ELSE base[n]
    OBVIOUS
  <2>1. to(n)[n] = IF n \in goes THEN to(n)[n \div 10] ELSE base[n]
    <3>1. solves_to(to(n), n, goes, base) /\ n \in 0 .. n
      BY <1>1
    <3>2. QED BY <3>1 DEF solves_to
  <2>2. CASE n \in goes
    <3>1. PICK k \in Nat : k = n \div 10 /\ k < n
      BY <2>2, Tenth
    <3>2. k \in (0 .. n) \cap (0 .. k)
      BY <3>1
    <3>3. PICK f, g : f = to(n) /\ g = to(k)
      OBVIOUS
    <3>4. solves_to(f, n, goes, base) /\ solves_to(g, k, goes, base)
      BY <1>1, <3>1, <3>3
    <3>5. agree(f, g, n, k)
      BY <3>1, <3>4, SolutionUnique
    <3> HIDE DEF F
    <3>6. QED BY <1>2, <2>1, <2>2, <3>1, <3>2, <3>3, <3>5 DEF agree
  <2>3. CASE n \notin goes
    BY <1>2, <2>1, <2>3
  <2>4. QED BY <2>2, <2>3
<1>4. solves(F, goes, base)
  <2>1. F = [n \in Nat |-> F[n]]
    OBVIOUS
  <2> HIDE DEF F
  <2>2. QED BY <2>1, <1>3 DEF solves
<1> HIDE DEF F
<1>5. \A n \in Nat : F[n] \in V
  <2> DEFINE T == {n \in Nat : F[n] \notin V}
  <2>1. SUFFICES ASSUME T # {} PROVE FALSE
    OBVIOUS
  <2>2. PICK n \in T : \A j \in Nat : j < n => j \notin T
    BY <2>1, LeastNatural
  <2>3. n \in goes
    BY <1>3, <2>2
  <2>4. n \div 10 \in Nat /\ n \div 10 < n
    BY <2>3, Tenth
  <2>5. QED BY <1>3, <2>2, <2>3, <2>4
<1>6. QED BY <1>4, <1>5

LEMMA PartHasSeven ==
  \A n \in Nat : part_has_seven[n] = (n > 10 /\ (n % 10 = 7 \/ part_has_seven[n \div 10]))
<1> DEFINE goes == {n \in Nat : n > 10 /\ n % 10 # 7}
           base == [n \in Nat |-> n > 10]
           body(f) == [n \in Nat |-> n > 10 /\ (n % 10 = 7 \/ f[n \div 10])]
<1>1. goes \in SUBSET (Nat \ {0}) /\ base \in [Nat -> BOOLEAN]
  OBVIOUS
<1>2. PICK f : solves(f, goes, base) /\ \A n \in Nat : f[n] \in BOOLEAN
  <2> HIDE DEF goes, base
  <2> QED BY <1>1, SolutionExists
<1>3. f = body(f)
  <2>1. \A n \in Nat : n \div 10 \in Nat
    OBVIOUS
  <2>2. \A n \in Nat : f[n \div 10] \in BOOLEAN
    BY <1>2, <2>1
  <2>3. f = [n \in Nat |-> IF n > 10 /\ n % 10 # 7 THEN f[n \div 10] ELSE n > 10]
    BY <1>2 DEF solves
  <2>4. \A n \in Nat : (IF n > 10 /\ n % 10 # 7 THEN f[n \div 10] ELSE n > 10)
                       = (n > 10 /\ (n % 10 = 7 \/ f[n \div 10]))
    BY <2>2
  <2>5. QED BY <2>3, <2>4
<1>4. part_has_seven = CHOOSE g : g = body(g)
  BY DEF part_has_seven
<1>5. part_has_seven = body(part_has_seven)
  <2> HIDE DEF body
  <2> QED BY <1>3, <1>4
<1>6. QED BY <1>5

LEMMA HasSeven ==
  \A n \in Nat : has_seven[n] = (n % 10 = 7 \/ (n > 9 /\ has_seven[n \div 10]))
<1> DEFINE goes == {n \in Nat : n > 9 /\ n % 10 # 7}
           base == [n \in Nat |-> n % 10 = 7]
           body(f) == [n \in Nat |-> n % 10 = 7 \/ (n > 9 /\ f[n \div 10])]
<1>1. goes \in SUBSET (Nat \ {0}) /\ base \in [Nat -> BOOLEAN]
  OBVIOUS
<1>2. PICK f : solves(f, goes, base) /\ \A n \in Nat : f[n] \in BOOLEAN
  <2> HIDE DEF goes, base
  <2> QED BY <1>1, SolutionExists
<1>3. f = body(f)
  <2>1. \A n \in Nat : n \div 10 \in Nat
    OBVIOUS
  <2>2. \A n \in Nat : f[n \div 10] \in BOOLEAN
    BY <1>2, <2>1
  <2>3. f = [n \in Nat |-> IF n > 9 /\ n % 10 # 7 THEN f[n \div 10] ELSE n % 10 = 7]
    BY <1>2 DEF solves
  <2>4. \A n \in Nat : (IF n > 9 /\ n % 10 # 7 THEN f[n \div 10] ELSE n % 10 = 7)
                       = (n % 10 = 7 \/ (n > 9 /\ f[n \div 10]))
    BY <2>2
  <2>5. QED BY <2>3, <2>4
<1>4. has_seven = CHOOSE g : g = body(g)
  BY DEF has_seven
<1>5. has_seven = body(has_seven)
  <2> HIDE DEF body
  <2> QED BY <1>3, <1>4
<1>6. QED BY <1>5

LEMMA FirstDigit ==
  \A n \in Nat : first_digit[n] = IF n > 9 THEN first_digit[n \div 10] ELSE n
<1> DEFINE goes == {n \in Nat : n > 9}
           base == [n \in Nat |-> n]
           body(f) == [n \in Nat |-> IF n > 9 THEN f[n \div 10] ELSE n]
<1>1. goes \in SUBSET (Nat \ {0}) /\ base \in [Nat -> Nat]
  OBVIOUS
<1>2. PICK f : solves(f, goes, base)
  <2> HIDE DEF goes, base
  <2> QED BY <1>1, SolutionExists
<1>3. f = body(f)
  BY <1>2 DEF solves
<1>4. first_digit = CHOOSE g : g = body(g)
  BY DEF first_digit
<1>5. first_digit = body(first_digit)
  <2> HIDE DEF body
  <2> QED BY <1>3, <1>4
<1>6. QED BY <1>5

(* look_for_seven finds every seven but the first digit of the number.     *)
THEOREM SevenBehindFirst ==
  \A n \in Nat : has_seven[n] <=> look_for_seven(n) \/ first_digit[n] = 7
<1> DEFINE P(n) == has_seven[n] <=> part_has_seven[n] \/ first_digit[n] = 7
           T == {n \in Nat : ~P(n)}
<1>1. SUFFICES ASSUME T # {} PROVE FALSE
  BY DEF look_for_seven
<1>2. PICK n \in T : \A j \in Nat : j < n => j \notin T
  BY <1>1, LeastNatural
<1>3. n \in Nat /\ ~P(n)
  BY <1>2
<1>4. CASE n <= 9
  <2>1. has_seven[n] = (n = 7) /\ part_has_seven[n] = FALSE /\ first_digit[n] = n
    <3>1. ~(n > 10) /\ ~(n > 9) /\ n % 10 = n
      BY <1>3, <1>4
    <3>2. QED BY <1>3, <3>1, HasSeven, PartHasSeven, FirstDigit
  <2>2. QED BY <1>3, <2>1
<1>5. CASE n = 10
  <2>1. n \div 10 = 1 /\ n % 10 = 0 /\ 1 % 10 = 1 /\ 1 \in Nat
    BY <1>5
  <2>2. has_seven[1] = FALSE /\ first_digit[1] = 1
    <3>1. ~(1 > 9) /\ ~(1 % 10 = 7)
      BY <2>1
    <3>2. has_seven[1] = (1 % 10 = 7 \/ (1 > 9 /\ has_seven[1 \div 10]))
      BY <2>1, HasSeven
    <3>3. first_digit[1] = IF 1 > 9 THEN first_digit[1 \div 10] ELSE 1
      BY <2>1, FirstDigit
    <3>4. QED BY <3>1, <3>2, <3>3
  <2>3. has_seven[n] = FALSE /\ part_has_seven[n] = FALSE /\ first_digit[n] = 1
    BY <1>3, <1>5, <2>1, <2>2, HasSeven, PartHasSeven, FirstDigit
  <2>4. QED BY <1>3, <2>3
<1>6. CASE n > 10
  <2>1. n > 9 /\ n \div 10 \in Nat /\ n \div 10 < n
    BY <1>3, <1>6
  <2>2. P(n \div 10)
    BY <1>2, <2>1
  <2>3. has_seven[n] = (n % 10 = 7 \/ has_seven[n \div 10])
    BY <1>3, <2>1, HasSeven
  <2>4. part_has_seven[n] = (n % 10 = 7 \/ part_has_seven[n \div 10])
    BY <1>3, <1>6, PartHasSeven
  <2>5. first_digit[n] = first_digit[n \div 10]
    BY <1>3, <2>1, FirstDigit
  <2>6. QED BY <1>3, <2>2, <2>3, <2>4, <2>5
<1>7. QED BY <1>3, <1>4, <1>5, <1>6

(* The rule is the one of the game for the numbers that begin with another *)
(* digit.                                                                  *)
THEOREM RuleOfOtherNumbers ==
  ASSUME NEW n \in Nat, first_digit[n] # 7
  PROVE  needs_boom(n) <=> has_seven[n] \/ n % 7 = 0
  BY SevenBehindFirst DEF needs_boom
=============================================================================
