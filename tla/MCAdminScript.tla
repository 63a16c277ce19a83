---------------------------- MODULE MCAdminScript ----------------------------
(***************************************************************************)
(* The operator's script, for TLC.  UUIDs and machines are interchangeable.*)
(***************************************************************************)
EXTENDS AdminScript, TLC

Symmetry == Permutations(Nodes) \cup Permutations(Hosts)

=============================================================================
