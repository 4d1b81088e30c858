------------------------------ MODULE SevenBoom ------------------------------
(***************************************************************************)
(* The rule of the game as the server of Ex4 decides it: a number that is  *)
(* a multiple of seven, or has a seven among its digits, must be replaced  *)
(* by the word boom.                                                       *)
(***************************************************************************)
EXTENDS Integers

BOOM_VLUE == -10     \* what stands for the word in g_player_num_arr

(* The loop of look_for_seven, digit by digit from the right.              *)
part_has_seven[n \in Nat] ==
  n > 10 /\ (n % 10 = 7 \/ part_has_seven[n \div 10])

look_for_seven(n) == part_has_seven[n]

needs_boom(n) == look_for_seven(n) \/ n % 7 = 0

(* Whether the answer of a player is right for this turn.                  *)
right_answer(turn_num, player_input) ==
  player_input = IF needs_boom(turn_num) THEN BOOM_VLUE ELSE turn_num
=============================================================================
