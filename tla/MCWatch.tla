--------------------------------- MODULE MCWatch -------------------------------
(* Small instances of Watch for TLC.                                       *)
EXTENDS Watch, TLC

(* A request for members and the leader: custom events share the channel   *)
(* and are skipped.                                                        *)
StateKeys == Member \cup {Leader}

MemberSymmetry == Permutations(Member)

================================================================================
