------------------------------- MODULE MCAgent -------------------------------
(***************************************************************************)
(* The agent, for TLC.                                                     *)
(***************************************************************************)
EXTENDS Agent

=============================================================================
