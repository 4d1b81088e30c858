------------------------------ MODULE MCPaging ------------------------------
(***************************************************************************)
(* Instances of the paging simulator for TLC.                              *)
(***************************************************************************)
EXTENDS PagingProps

CONSTANTS p0, p1, p2   \* model values for pages

TwoPages   == {p0, p1}
ThreePages == {p0, p1, p2}

PageSymmetry == Permutations(Pages)

AtZero     == {0}
ZeroOrOne  == {0, 1}
OneOrTwo   == {1, 2}
ZeroToTwo  == {0, 1, 2}    \* work times the program does not refuse
InOrder    == {0, 1}       \* rows may share a start time
AnyOrder   == {-1, 0, 1}

(* After a row without a work time main may count ticks for ever.  By tick *)
(* 9 everyone who can be served is; the liveness claims end with the row.  *)
ClockStops == EmptyUseStarted => g_current_time <= 9
=============================================================================
