----------------------------- MODULE MCShutdown ------------------------------
(* The instance of Shutdown for TLC: its constants are numbers and sets. *)
EXTENDS Shutdown
=============================================================================
