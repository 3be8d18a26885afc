--------------------------- MODULE MCStdRoutines ---------------------------
(* Every routine that is declared, alone and in every argument of another. *)
EXTENDS StdRoutines

MCRoutines == DOMAIN Declared
=============================================================================
