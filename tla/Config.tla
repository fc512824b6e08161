---------------------------------- MODULE Config -------------------------------
(***************************************************************************)
(* Loading the configuration (internal/config): the defaults, overridden   *)
(* by the file, overridden by the environment, then clamped and validated; *)
(* and what the Raft library accepts of the result.  A source is a         *)
(* function on the keys it sets.  Only the timings something may refuse    *)
(* are kept, in milliseconds.                                              *)
(***************************************************************************)
EXTENDS Naturals

CONSTANTS
    Heartbeats,   \* raft.heartbeat_timeout a source may give
    Elections,    \* raft.election_timeout
    Leases,       \* raft.leader_lease_timeout
    Intervals     \* heartbeat.interval

ASSUME TimingAssumption ==
    Heartbeats \subseteq Nat /\ Elections \subseteq Nat /\ Leases \subseteq Nat /\ Intervals \subseteq Nat

RaftKey == {"heartbeat", "election", "lease"}
Key == RaftKey \cup {"interval"}

Given == [heartbeat |-> Heartbeats, election |-> Elections, lease |-> Leases,
          interval |-> Intervals]

Sources(keys) ==
    UNION {{f \in [K -> UNION {Given[k] : k \in K}] : \A k \in K : f[k] \in Given[k]} :
              K \in SUBSET keys}

(* A missing file is an empty one; a file that cannot be read or parsed    *)
(* ends the load (InitFails).                                              *)
Files == Sources(Key)

(* heartbeat.interval has no variable; an empty variable, and one that is  *)
(* no duration, sets nothing.                                              *)
Environments == Sources(RaftKey)

Defaults == [heartbeat |-> 150, election |-> 150, lease |-> 75, interval |-> 2000]

Merge(c, source) == [k \in Key |-> IF k \in DOMAIN source THEN source[k] ELSE c[k]]

clampRaft(c) ==
    IF c.heartbeat > 0 /\ c.lease > c.heartbeat
      THEN [c EXCEPT !.lease = IF c.heartbeat \div 2 = 0 THEN c.heartbeat ELSE c.heartbeat \div 2]
      ELSE c

Validate(c) == ~(c.heartbeat > 0 /\ c.lease > c.heartbeat)

(* Slip: the file is clamped, the environment is applied on top of it.     *)
LoadFromClampedFile(file, env) == Merge(clampRaft(Merge(Defaults, file)), env)

LoadFrom(file, env) == clampRaft(Merge(Merge(Defaults, file), env))

(* consensus.New: a value that is not positive keeps the library's own.    *)
RaftConfig(c) ==
    [heartbeat |-> IF c.heartbeat > 0 THEN c.heartbeat ELSE 1000,
     election |-> IF c.election > 0 THEN c.election ELSE 1000,
     lease |-> IF c.lease > 0 THEN c.lease ELSE 500]

(* What the library's own validation answers, the lease first.             *)
Refusal(c) ==
    LET r == RaftConfig(c) IN
    IF \E k \in RaftKey : r[k] < 5 THEN "short"
    ELSE IF r.lease > r.heartbeat THEN "lease"
    ELSE IF r.election < r.heartbeat THEN "election"
    ELSE "none"

================================================================================
