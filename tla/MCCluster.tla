------------------------------- MODULE MCCluster -------------------------------
(* Small instances of Cluster for TLC.                                     *)
EXTENDS Cluster, TLC

RequestSymmetry == Permutations(Request)

================================================================================
