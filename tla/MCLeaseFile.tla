----------------------------- MODULE MCLeaseFile -----------------------------
(***************************************************************************)
(* The lease file, for TLC.                                                *)
(***************************************************************************)
EXTENDS LeaseFile

=============================================================================
