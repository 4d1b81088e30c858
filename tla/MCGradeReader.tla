--------------------------- MODULE MCGradeReader ---------------------------
(* Values of the constants of GradeReader for TLC.                         *)
EXTENDS GradeReader

MCGrades == {7, 40, 100}
MCWeight == <<30, 70>>
=============================================================================
