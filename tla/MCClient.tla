------------------------------- MODULE MCClient -------------------------------
(* Values of the constants of ClientProps for TLC.                         *)
EXTENDS ClientProps

MCBothEndings == {"FIN", "RST"}
=============================================================================
