---------------------------- MODULE MCExecution ----------------------------
(* Short routines, compiled and run, for TLC. *)
EXTENDS Layout
=============================================================================
