----------------------------- MODULE MCKMSServer -----------------------------
(***************************************************************************)
(* The server, for TLC.                                                    *)
(***************************************************************************)
EXTENDS KMSServer, TLC

\* No property tells the handlers apart.
Symmetry == Permutations(Handlers)

=============================================================================
