---------------------------- MODULE MCGameServer ----------------------------
(* Values of the constants of GameServerProps for TLC, and the rule of the *)
(* game compared with what it says of a number's digits.                   *)
EXTENDS GameServerProps

(* Two players, of whom the second may leave, and a game: 1 is the right   *)
(* first answer and a wrong second one.  And three clients who all stay,   *)
(* up to the first request for a move.                                     *)
MCVisits ==
  { [comers |-> 0 .. 1, moves |-> {1}, leavers |-> {1}],
    [comers |-> 0 .. 2, moves |-> {}, leavers |-> {}] }

(* look_for_seven does not look at the first digit.  Up to 70 that makes   *)
(* no difference, as 7 and 70 are multiples of seven.                      *)
ASSUME RuleUpToSeventy ==
  \A n \in 1 .. 70 : needs_boom(n) = (has_seven[n] \/ n % 7 = 0)
ASSUME RuleMissesSeventyOne == has_seven[71] /\ ~needs_boom(71)
=============================================================================
