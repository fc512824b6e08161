------------------------------- MODULE MCOperator ------------------------------
(* Instances of Operator for TLC.                                          *)
EXTENDS Operator

CONSTANT r2

(* One cluster of each topology.                                           *)
EachTopology == {[topology |-> "DaemonSet", voterCount |-> 1],
                 [topology |-> "Sidecar", voterCount |-> 3]}

(* A rollout of the operator may overlap two pods: in the DaemonSet        *)
(* cluster, or in both.                                                    *)
DaemonRollout == [DaemonSet |-> {r2}, Sidecar |-> {}]
AnyRollout == [DaemonSet |-> {r2}, Sidecar |-> {r2}]

================================================================================
