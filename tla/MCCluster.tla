------------------------------ MODULE MCCluster ------------------------------
(***************************************************************************)
(* The cluster, for TLC.  Nodes and addresses are interchangeable.         *)
(***************************************************************************)
EXTENDS Cluster, TLC

Symmetry == Permutations(Nodes) \cup Permutations(IPs)

=============================================================================
