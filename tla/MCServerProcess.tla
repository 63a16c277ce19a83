--------------------------- MODULE MCServerProcess ---------------------------
(***************************************************************************)
(* The server's process, for TLC.                                          *)
(***************************************************************************)
EXTENDS ServerProcess

=============================================================================
