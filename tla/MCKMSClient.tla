----------------------------- MODULE MCKMSClient -----------------------------
(***************************************************************************)
(* The gRPC client, for TLC.                                               *)
(***************************************************************************)
EXTENDS KMSClient

=============================================================================
